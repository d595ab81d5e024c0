-------------------------- MODULE MCWasapiTimestamps --------------------------
(* Ten microseconds are three frames, so an interpolation rounds; a run of   *)
(* interpolations, a gap and silent packets fit in the stream.               *)
EXTENDS WasapiTimestamps

MCSampleRate  == 3
MCSecond      == 10
MCMaxFrames   == 2
MCMaxPosition == 6
MCLatency     == 5

=============================================================================
