-------------------------- MODULE MCPulseTimestamps --------------------------
(* Ten microseconds are three frames: a frame has no whole duration, so the *)
(* predictions drift by rounding too.  Six frames of a hole or of losses    *)
(* exceed the threshold, and shorter ones do so when they add up.           *)
EXTENDS PulseTimestamps

MCSampleRate  == 3
MCSecond      == 10
MCMaxFrames   == 2
MCMaxPosition == 12
MCLatency     == 6
MCResync      == 4
MCJitter      == 1

=============================================================================
