------------------------- MODULE MCPipeWireTimestamps -------------------------
(* Ten microseconds are three frames, packets have different lengths, and a  *)
(* cycle time can be later than that of the next packet.                     *)
EXTENDS PipeWireTimestamps

MCSampleRate  == 3
MCSecond      == 10
MCMaxFrames   == 2
MCMaxPosition == 12
MCLatency     == 6

=============================================================================
