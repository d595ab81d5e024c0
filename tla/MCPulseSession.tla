--------------------------- MODULE MCPulseSession ---------------------------
(* The PulseAudio session with a stream that buffers two packets: enough   *)
(* for a stop to arrive between two callbacks of one dispatch.             *)
EXTENDS PulseSession

MCMaxPackets == 2

=============================================================================
