CONSTANT
  MaxPackets <- MCMaxPackets

SPECIFICATION FairSpec

INVARIANTS
  StoppedMeansReleased
  NoUseAfterFree
  NoLostWakeup
  NoStaleTimestamp

PROPERTIES
  StartReturns
  StopReturns
  ImplementsContract
