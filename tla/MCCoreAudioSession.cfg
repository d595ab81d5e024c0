CONSTANT
  NumBuffers <- MCNumBuffers

SPECIFICATION FairSpec

INVARIANTS
  OnlyRefusedLeaveRing
  StopDrains

PROPERTIES
  StopReturns
  ImplementsContract
