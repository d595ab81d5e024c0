CONSTANT
  NumBuffers <- MCNumBuffers

SPECIFICATION Spec

INVARIANT
  StoppedCanStart
