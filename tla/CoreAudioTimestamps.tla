-------------------------- MODULE CoreAudioTimestamps --------------------------
(***************************************************************************)
(* Capture timestamps of the CoreAudio backend: the host time of a buffer, *)
(* or 0 if the buffer has no valid one or the timebase is unknown.  A      *)
(* valid host time is taken to be the time of the recording.               *)
(***************************************************************************)
EXTENDS CaptureTimestamps

CoreAudioInit == StreamInit

\* audio_input_callback calls the user for the packets of a buffer.
CoreAudioDeliver(frames) ==
  \E hostTimeValid \in BOOLEAN :
    Stamp(frames, IF hostTimeValid THEN Micros(position) ELSE 0, hostTimeValid)

\* A buffer without packets, or frames lost.
CoreAudioLose(frames) == Pass(frames)

CoreAudioNext ==
  \/ StreamRestart
  \/ \E frames \in Packets : CoreAudioDeliver(frames) \/ CoreAudioLose(frames)

CoreAudioSpec == CoreAudioInit /\ [][CoreAudioNext]_streamVars

-----------------------------------------------------------------------------
\* A part of what the test of the timing asserts of every captured stream, that
\* each timestamp is later than the one before it: none goes back.
NeverBack ==
  [][(hasLast /\ hasLast' /\ lastAt' # lastAt) => last' >= last]_streamVars

=============================================================================
