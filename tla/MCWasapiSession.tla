---------------------------- MODULE MCWasapiSession ----------------------------
(* Two packets: the flag can be cleared between two callbacks of one wake-up. *)
EXTENDS WasapiSession

MCMaxPackets == 2

=============================================================================
