-------------------------- MODULE CaptureTimestamps --------------------------
(***************************************************************************)
(* The stream of packets that one capture session passes to its user, each *)
(* with a timestamp for its first frame.  Every backend computes the       *)
(* timestamps in its own way; its module extends this one.                 *)
(*                                                                         *)
(* The reference is the recording clock: frame p of the stream is recorded *)
(* p * Second / SampleRate after its start.  Frames can be lost on the way *)
(* and a packet can be skipped, so positions move on without a delivery.   *)
(***************************************************************************)
EXTENDS Integers

CONSTANTS
  SampleRate,   \* frames in a second
  Second,       \* microseconds in a second
  MaxFrames,    \* bound on the frames of a packet
  MaxPosition,  \* bound on the length of the stream
  Latency       \* bound on the time from a recording to its reading

ASSUME RecordingAssumption ==
  /\ SampleRate \in Nat \ {0}
  /\ Second \in Nat /\ Second > SampleRate
  /\ MaxFrames \in Nat \ {0}
  /\ MaxPosition \in Nat
  /\ Latency \in Nat

VARIABLES
  position,  \* the frame that the next packet begins with
  hasLast,   \* a packet has been delivered
  last,      \* the timestamp of the last packet delivered
  lastAt,    \* the frame that packet began with
  measured   \* its timestamp was taken from a clock, not from another packet

streamVars == <<position, hasLast, last, lastAt, measured>>

StreamInit ==
  /\ position = 0
  /\ hasLast = FALSE
  /\ last = 0
  /\ lastAt = 0
  /\ measured = FALSE

Packets == 1..MaxFrames

\* The duration of frames, in whole microseconds as every backend counts it.
Micros(frames) == (frames * Second) \div SampleRate

\* A clock read after the frame at position was recorded.
ReadTimes == Micros(position)..(Micros(position) + Latency)

\* A stop and the next start: the clock of the stream begins again, and what
\* is left of the last packet is not looked at.
StreamRestart ==
  /\ position' = 0
  /\ hasLast' = FALSE
  /\ lastAt' = 0
  /\ measured' = FALSE
  /\ UNCHANGED last

\* A packet is lost, skipped or empty: no callback.
Pass(frames) ==
  /\ position + frames <= MaxPosition
  /\ position' = position + frames
  /\ UNCHANGED <<hasLast, last, lastAt, measured>>

\* A packet is delivered with a timestamp.
Stamp(frames, timestamp, clock) ==
  /\ position + frames <= MaxPosition
  /\ position' = position + frames
  /\ hasLast' = TRUE
  /\ last' = timestamp
  /\ lastAt' = position
  /\ measured' = clock

\* No timestamp is at or before its predecessor.
Clamped(timestamp) ==
  IF hasLast /\ timestamp <= last THEN last + 1 ELSE timestamp

-----------------------------------------------------------------------------
\* Every timestamp is later than the one before it in the same stream.
Increasing ==
  [][(hasLast /\ hasLast' /\ lastAt' # lastAt) => last' > last]_streamVars

\* The last timestamp is at most this much after, or before, the recording.
Ahead(bound)  == last * SampleRate <= lastAt * Second + bound * SampleRate
Behind(bound) == last * SampleRate >= lastAt * Second - bound * SampleRate

=============================================================================
