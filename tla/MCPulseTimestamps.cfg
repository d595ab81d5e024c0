CONSTANTS
  SampleRate <- MCSampleRate
  Second <- MCSecond
  MaxFrames <- MCMaxFrames
  MaxPosition <- MCMaxPosition
  Latency <- MCLatency
  Resync <- MCResync
  Jitter <- MCJitter

SPECIFICATION PulseSpec

INVARIANT
  PulseTracksRecording

PROPERTY
  Increasing
