CONSTANT
  MaxPackets <- MCMaxPackets

SPECIFICATION FairSpec

INVARIANTS
  FlagTellsTheTruth
  NoUseAfterClose

PROPERTIES
  NoBufferLeak
  StopReturns
  ImplementsContract
