CONSTANTS
  Capacity <- MCCapacity
  MaxSource <- MCMaxSource
  MaxChannels <- MCMaxChannels
  MaxI32 <- MCMaxI32

SPECIFICATION Spec

INVARIANTS
  WholeFramesInOrder
  NothingLost
