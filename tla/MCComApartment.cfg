CONSTANTS
  t1 = t1
  t2 = t2
  t3 = t3
  Threads <- MCThreads
  MaxGuards = 2
  Rates <- MCRates
  Channels <- MCChannels
  DefaultRate = 2
  MaxU16 = 15
  MaxU32 = 255

SYMMETRY MCSymmetry

SPECIFICATION Spec

INVARIANTS
  InitBalanced
  PointersValid
  HandlesAccounted
  FormatExact
