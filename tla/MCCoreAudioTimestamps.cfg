CONSTANTS
  SampleRate <- MCSampleRate
  Second <- MCSecond
  MaxFrames <- MCMaxFrames
  MaxPosition <- MCMaxPosition
  Latency <- MCLatency

SPECIFICATION CoreAudioSpec

PROPERTY
  NeverBack
