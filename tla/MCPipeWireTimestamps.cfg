CONSTANTS
  SampleRate <- MCSampleRate
  Second <- MCSecond
  MaxFrames <- MCMaxFrames
  MaxPosition <- MCMaxPosition
  Latency <- MCLatency

SPECIFICATION PipeWireSpec

INVARIANT
  PipeWireTracksRecording

PROPERTY
  Increasing
