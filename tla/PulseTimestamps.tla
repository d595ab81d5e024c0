--------------------------- MODULE PulseTimestamps ---------------------------
(***************************************************************************)
(* Capture timestamps of the PulseAudio backend: stream_read_callback asks *)
(* for the latency once, reads every packet of the buffer, and prefers the *)
(* time predicted from the previous packet to the measured one unless the  *)
(* two are far apart.                                                      *)
(***************************************************************************)
EXTENDS PredictedTimestamps

CONSTANTS
  Resync,  \* CAPTURE_TIMESTAMP_RESYNC_US
  Jitter   \* bound on the error of an interpolated latency

ASSUME PulseTimestampsAssumption == Resync \in Nat /\ Jitter \in Nat

VARIABLES
  reading,     \* stream_read_callback is executing
  hasOldest,   \* it could measure the latency
  oldest,      \* the recording time of the oldest frame in the buffer
  read         \* frames read in this callback

callbackVars == <<reading, hasOldest, oldest, read>>
pulseVars         == <<streamVars, lastFrames, callbackVars>>

PulseInit ==
  /\ StreamInit
  /\ lastFrames = 0
  /\ reading = FALSE
  /\ hasOldest = FALSE
  /\ oldest = 0
  /\ read = 0

\* The callback begins: the latency is known, up to its jitter, or it is not.
BeginRead ==
  /\ ~reading
  /\ reading' = TRUE
  /\ \/ /\ hasOldest' = TRUE
        /\ \E error \in (-Jitter)..Jitter : oldest' = Micros(position) + error
     \/ hasOldest' = FALSE /\ oldest' = 0
  /\ read' = 0
  /\ UNCHANGED <<streamVars, lastFrames>>

MeasuredTime == oldest + Micros(read)

\* Mutant: a prediction is never corrected.
NeverFar == FALSE

FarApart ==
  \/ MeasuredTime - PredictedTime > Resync
  \/ PredictedTime - MeasuredTime > Resync

\* Before the clamp.
PulseCandidates ==
  CASE hasOldest /\ ~hasLast -> {MeasuredTime}
    [] hasLast               -> {IF hasOldest /\ FarApart THEN MeasuredTime
                                 ELSE PredictedTime}
    [] OTHER                 -> ReadTimes

\* Mutant: a correction is not clamped.
PulseUnclamped(candidate) == candidate

PulseClamped(candidate) == Clamped(candidate)

\* A packet with data: the user is called and the packet dropped.
ReadPacket(frames) ==
  /\ reading
  /\ \E candidate \in PulseCandidates :
       Stamp(frames, PulseClamped(candidate), hasOldest)
  /\ lastFrames' = frames
  /\ read' = read + frames
  /\ UNCHANGED <<reading, hasOldest, oldest>>

\* A hole: no data, no callback, but its length counts as read.
ReadHole(frames) ==
  /\ reading
  /\ Pass(frames)
  /\ read' = read + frames
  /\ UNCHANGED <<lastFrames, reading, hasOldest, oldest>>

\* The buffer is empty; the locals of the callback are gone.
EndRead ==
  /\ reading
  /\ reading' = FALSE
  /\ hasOldest' = FALSE /\ oldest' = 0 /\ read' = 0
  /\ UNCHANGED <<streamVars, lastFrames>>

\* The server drops frames between two callbacks.
PulseLose(frames) ==
  /\ ~reading
  /\ Pass(frames)
  /\ UNCHANGED <<lastFrames, callbackVars>>

PulseRestart ==
  /\ ~reading
  /\ StreamRestart
  /\ UNCHANGED <<lastFrames, callbackVars>>

PulseNext ==
  \/ BeginRead \/ EndRead \/ PulseRestart
  \/ \E frames \in Packets :
       ReadPacket(frames) \/ ReadHole(frames) \/ PulseLose(frames)

PulseSpec == PulseInit /\ [][PulseNext]_pulseVars

-----------------------------------------------------------------------------
\* With a known latency a timestamp never lags the recording by more than the
\* correction threshold and the jitter, whatever holes, losses and roundings
\* came before; and no timestamp is ever ahead by more than that, or by more
\* than the reading delay of a first packet whose latency was not known.
PulseTracksRecording ==
  hasLast =>
    /\ Ahead(IF Latency > Resync + Jitter THEN Latency ELSE Resync + Jitter)
    /\ measured => Behind(Resync + Jitter + 2)

=============================================================================
