-------------------------- MODULE MCCoreAudioSession --------------------------
(* The three buffers of the code.                                            *)
EXTENDS CoreAudioSession

MCNumBuffers == 3

=============================================================================
