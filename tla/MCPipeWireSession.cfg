CONSTANTS
  MaxPending <- MCMaxPending
  NumBuffers <- MCNumBuffers
  Timeout <- MCTimeout

SPECIFICATION FairSpec

INVARIANTS
  StoppedMeansReleased
  NoInvokeAfterDestroy
  NoBufferLeak
  NoStaleCoreError

PROPERTIES
  StartReturns
  StopReturns
  ImplementsContract
