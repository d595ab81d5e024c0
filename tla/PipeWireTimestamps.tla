-------------------------- MODULE PipeWireTimestamps --------------------------
(***************************************************************************)
(* Capture timestamps of the PipeWire backend: the cycle time of a buffer, *)
(* or the time predicted from the previous buffer if it carries none.      *)
(***************************************************************************)
EXTENDS PredictedTimestamps

pipeWireVars == <<streamVars, lastFrames>>

PipeWireInit ==
  /\ StreamInit
  /\ lastFrames = 0

\* Before the clamp: the cycle time, or without one the prediction, or for a
\* first buffer the time of the stream.
PipeWireCandidates(hasTime) ==
  IF ~hasTime /\ hasLast THEN {PredictedTime} ELSE ReadTimes

\* Mutant: equal timestamps pass.
EarlierOnly(candidate) ==
  IF hasLast /\ candidate < last THEN last + 1 ELSE candidate

PipeWireClamped(candidate) == Clamped(candidate)

\* Mutant: a buffer with a time does not update last_frames.
StampKeepsFrames(hasTime, frames) ==
  /\ \E candidate \in PipeWireCandidates(hasTime) :
       Stamp(frames, PipeWireClamped(candidate), hasTime \/ ~hasLast)
  /\ lastFrames' = IF hasTime THEN lastFrames ELSE frames

\* on_process passes a buffer, with a time or without, to the user.
StampBuffer(hasTime, frames) ==
  /\ \E candidate \in PipeWireCandidates(hasTime) :
       Stamp(frames, PipeWireClamped(candidate), hasTime \/ ~hasLast)
  /\ lastFrames' = frames

Process(frames) == \E hasTime \in BOOLEAN : StampBuffer(hasTime, frames)

\* A buffer is lost, or queued back without data.
PipeWireLose(frames) == Pass(frames) /\ UNCHANGED lastFrames

PipeWireRestart == StreamRestart /\ UNCHANGED lastFrames

PipeWireNext ==
  \/ PipeWireRestart
  \/ \E frames \in Packets : Process(frames) \/ PipeWireLose(frames)

PipeWireSpec == PipeWireInit /\ [][PipeWireNext]_pipeWireVars

-----------------------------------------------------------------------------
\* No timestamp is ahead of the recording by more than the delay of a cycle,
\* however many buffers without a time are stamped in a row, and a buffer
\* with a time is not stamped before its recording.
PipeWireTracksRecording ==
  hasLast =>
    /\ Ahead(Latency)
    /\ measured => Behind(1)

=============================================================================
