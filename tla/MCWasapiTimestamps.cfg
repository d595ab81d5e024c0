CONSTANTS
  SampleRate <- MCSampleRate
  Second <- MCSecond
  MaxFrames <- MCMaxFrames
  MaxPosition <- MCMaxPosition
  Latency <- MCLatency

SPECIFICATION WasapiSpec

INVARIANTS
  WasapiTracksRecording
  AnchorIsAudioTime

PROPERTY
  Increasing
