CONSTANTS
  headset = headset
  mic = mic
  monitor = monitor
  Devices <- MCDevices
  Inputs <- MCInputs
  Outputs <- MCOutputs
  Monitors <- MCMonitors
  FirstCapacity = 1

SPECIFICATION Spec

INVARIANTS
  MemoryAccounted
  FaithfulList
  CutBySide

PROPERTIES
  EnumerationReturns
