-------------------------- MODULE PredictedTimestamps --------------------------
(***************************************************************************)
(* What the sessions of the PulseAudio and the PipeWire backend remember   *)
(* of the last packet besides its timestamp: its length, from which the    *)
(* time of the next packet is predicted.                                   *)
(***************************************************************************)
EXTENDS CaptureTimestamps

VARIABLE lastFrames   \* AudioSession::last_frames

\* The end of the last packet.
PredictedTime == last + Micros(lastFrames)

=============================================================================
