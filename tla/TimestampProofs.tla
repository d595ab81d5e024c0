---------------------------- MODULE TimestampProofs ----------------------------
(***************************************************************************)
(* For every sample rate, latency, threshold and jitter: the timestamps of *)
(* the PulseAudio, PipeWire and WASAPI backends increase, and their error  *)
(* stays within its bound over any number of packets, losses and restarts. *)
(* Those of CoreAudio go back to 0 only.                                   *)
(*                                                                         *)
(* Micros rounds down, so times are compared with frames by their products *)
(* with the rates: NotLate and NotEarly say that a time is at most that of *)
(* a frame plus a slack, and at least that of a frame minus a slack.       *)
(***************************************************************************)
EXTENDS PulseTimestamps, PipeWireTimestamps, CoreAudioTimestamps,
        WasapiTimestamps, TLAPS

-----------------------------------------------------------------------------
(* Micros, and the arithmetic of times and frames.                         *)

NotLate(time, frame, slack) ==
  time * SampleRate <= frame * Second + slack * SampleRate
NotEarly(time, frame, slack) ==
  time * SampleRate >= frame * Second - slack * SampleRate

\* The duration of frames is counted to less than a microsecond.
LEMMA MicrosRounds ==
  ASSUME NEW f \in Int
  PROVE  /\ Micros(f) \in Int
         /\ NotLate(Micros(f), f, 0)
         /\ NotEarly(Micros(f), f, 1)
<1> DEFINE x == f * Second
<1>1. x \in Int /\ SampleRate \in Int /\ SampleRate > 0
  BY RecordingAssumption
<1> HIDE DEF x
<1>2. x \div SampleRate \in Int
  BY <1>1
<1>3. /\ (x \div SampleRate) * SampleRate <= x
      /\ (x \div SampleRate) * SampleRate > x - SampleRate
  BY <1>1, Z3
<1> QED
  BY <1>1, <1>2, <1>3 DEF Micros, NotLate, NotEarly, x

\* A time stays in its bounds if it moves by no more than they widen.
LEMMA Widen ==
  ASSUME NEW t \in Int, NEW p \in Int, NEW u \in Int, NEW r \in Int, NEW s \in Int
  PROVE  /\ NotLate(t, p, r) /\ u - t <= s - r => NotLate(u, p, s)
         /\ NotEarly(t, p, r) /\ t - u <= s - r => NotEarly(u, p, s)
<1>1. SampleRate \in Int /\ Second \in Int /\ SampleRate > 0
  BY RecordingAssumption
<1>2. ASSUME NotLate(t, p, r), u - t <= s - r PROVE NotLate(u, p, s)
  <2>1. (u - t) * SampleRate <= (s - r) * SampleRate
    BY <1>1, <1>2, Z3
  <2> QED
    BY <1>1, <1>2, <2>1 DEF NotLate
<1>3. ASSUME NotEarly(t, p, r), t - u <= s - r PROVE NotEarly(u, p, s)
  <2>1. (t - u) * SampleRate <= (s - r) * SampleRate
    BY <1>1, <1>3, Z3
  <2> QED
    BY <1>1, <1>3, <2>1 DEF NotEarly
<1> QED
  BY <1>2, <1>3

\* What is not late at all is not late within the latency.
LEMMA LateLonger ==
  ASSUME NEW t \in Int, NEW p \in Int, NotLate(t, p, 0)
  PROVE  NotLate(t, p, Latency)
<1>1. /\ SampleRate \in Int /\ Second \in Int /\ Latency \in Int
      /\ SampleRate > 0 /\ Latency >= 0
  BY RecordingAssumption
<1>2. Latency * SampleRate >= 0
  BY <1>1, Z3
<1> QED
  BY <1>1, <1>2 DEF NotLate

\* A later time is not early either.
LEMMA EarlyLater ==
  ASSUME NEW t \in Int, NEW p \in Int, NEW s \in Int, NotEarly(t, p, s),
         NEW u \in Int, t <= u
  PROVE  NotEarly(u, p, s)
<1>1. SampleRate \in Int /\ Second \in Int /\ SampleRate > 0
  BY RecordingAssumption
<1>2. (u - t) * SampleRate >= 0
  BY <1>1, Z3
<1> QED
  BY <1>1, <1>2 DEF NotEarly

\* A microsecond is less than a frame, and a later frame has a later time.
LEMMA LateTick ==
  ASSUME NEW t \in Int, NEW p \in Int, NEW s \in Int, NotLate(t, p, s),
         NEW q \in Int, p < q
  PROVE  NotLate(t, q, s) /\ NotLate(t + 1, q, s)
<1>1. /\ SampleRate \in Int /\ Second \in Int
      /\ SampleRate > 0 /\ Second > SampleRate
  BY RecordingAssumption
<1>2. (q - p) * Second >= Second
  BY <1>1, Z3
<1> QED
  BY <1>1, <1>2 DEF NotLate

-----------------------------------------------------------------------------
(* The stream of packets.                                                  *)

\* The packet delivered last began before the next one does.
StreamInv ==
  /\ position \in Int /\ last \in Int /\ lastAt \in Int
  /\ hasLast => lastAt < position

\* What the clamp returns is no less than what it gets, later than the last
\* timestamp, and not late if neither of them is.
LEMMA ClampKeeps ==
  ASSUME StreamInv, NEW time \in Int
  PROVE  /\ Clamped(time) \in Int /\ Clamped(time) >= time
         /\ hasLast => Clamped(time) > last
         /\ \A s \in Int :
              /\ NotLate(time, position, s)
              /\ hasLast => NotLate(last, lastAt, s)
              => NotLate(Clamped(time), position, s)
<1>1. /\ Clamped(time) \in Int /\ Clamped(time) >= time
      /\ hasLast => Clamped(time) > last
  BY DEF Clamped, StreamInv
<1>2. ASSUME NEW s \in Int, NotLate(time, position, s),
             hasLast => NotLate(last, lastAt, s)
      PROVE  NotLate(Clamped(time), position, s)
  BY <1>2, LateTick DEF Clamped, StreamInv
<1> QED
  BY <1>1, <1>2

\* The times at which a packet can be read.
LEMMA ReadTimesBound ==
  ASSUME position \in Int, NEW time \in ReadTimes
  PROVE  /\ time \in Int
         /\ NotLate(time, position, Latency) /\ NotEarly(time, position, 1)
<1>1. PICK start \in Int :
        /\ start = Micros(position)
        /\ NotLate(start, position, 0) /\ NotEarly(start, position, 1)
  BY MicrosRounds
<1>2. time \in Int /\ start <= time /\ time <= start + Latency
  BY <1>1, RecordingAssumption DEF ReadTimes
<1>3. Latency \in Int /\ SampleRate \in Int /\ SampleRate > 0 /\ Second \in Int
  BY RecordingAssumption
<1>4. NotLate(time, position, Latency)
  BY <1>1, <1>2, <1>3, (time - start) * SampleRate <= Latency * SampleRate, Z3
     DEF NotLate
<1>5. NotEarly(time, position, 1)
  BY <1>1, <1>2, <1>3, (time - start) * SampleRate >= 0, Z3 DEF NotEarly
<1> QED
  BY <1>2, <1>4, <1>5

\* A prediction from a packet that is not late is not late, if what has come
\* since is at least that packet.
LEMMA PredictionBound ==
  ASSUME StreamInv, lastFrames \in Int, lastAt + lastFrames <= position,
         NEW s \in Int, NotLate(last, lastAt, s)
  PROVE  PredictedTime \in Int /\ NotLate(PredictedTime, position, s)
<1>1. PICK duration \in Int :
        duration = Micros(lastFrames) /\ NotLate(duration, lastFrames, 0)
  BY MicrosRounds
<1>2. SampleRate \in Int /\ Second \in Int /\ Second > 0
  BY RecordingAssumption
<1>3. (position - lastAt - lastFrames) * Second >= 0
  BY <1>2, Z3 DEF StreamInv
<1>4. NotLate(last + duration, position, s)
  BY <1>1, <1>2, <1>3, Z3 DEF NotLate, StreamInv
<1> QED
  BY <1>1, <1>4 DEF StreamInv, PredictedTime

-----------------------------------------------------------------------------
(* PipeWire.                                                               *)

\* The next buffer begins no earlier than the last one ends: what is predicted
\* from the last one is not late if that was not.
PipeWireInv ==
  /\ StreamInv /\ lastFrames \in Int
  /\ hasLast => lastAt + lastFrames <= position /\ lastFrames > 0
  /\ hasLast => NotLate(last, lastAt, Latency)
  /\ hasLast /\ measured => NotEarly(last, lastAt, 1)

LEMMA PipeWireCandidate ==
  ASSUME PipeWireInv, NEW hasTime \in BOOLEAN,
         NEW time \in PipeWireCandidates(hasTime)
  PROVE  /\ time \in Int /\ NotLate(time, position, Latency)
         /\ hasTime \/ ~hasLast => NotEarly(time, position, 1)
<1>1. CASE ~hasTime /\ hasLast
  <2>1. time = PredictedTime
    BY <1>1 DEF PipeWireCandidates
  <2> QED
    BY <1>1, <2>1, PredictionBound, RecordingAssumption DEF PipeWireInv
<1>2. CASE ~(~hasTime /\ hasLast)
  <2>1. time \in ReadTimes
    BY <1>2 DEF PipeWireCandidates
  <2> QED
    BY <1>2, <2>1, ReadTimesBound DEF PipeWireInv, StreamInv
<1> QED
  BY <1>1, <1>2

LEMMA PipeWireStep ==
  ASSUME PipeWireInv, [PipeWireNext]_pipeWireVars
  PROVE  /\ PipeWireInv'
         /\ hasLast /\ hasLast' /\ lastAt' # lastAt => last' > last
<1>1. ASSUME NEW frames \in Packets, NEW hasTime \in BOOLEAN,
             StampBuffer(hasTime, frames)
      PROVE  /\ PipeWireInv'
             /\ hasLast /\ hasLast' /\ lastAt' # lastAt => last' > last
  <2>1. PICK time \in PipeWireCandidates(hasTime) :
          /\ position' = position + frames /\ hasLast' = TRUE
          /\ last' = Clamped(time) /\ lastAt' = position
          /\ lastFrames' = frames
          /\ measured' => hasTime \/ ~hasLast
    BY <1>1 DEF StampBuffer, Stamp, PipeWireClamped, Clamped
  <2>2. frames \in Int /\ frames > 0 /\ time \in Int
    BY PipeWireCandidate DEF Packets
  <2>3. last' \in Int /\ last' >= time
    BY <2>1, <2>2, ClampKeeps DEF PipeWireInv
  <2>4. hasLast => last' > last
    BY <2>1, <2>2, ClampKeeps DEF PipeWireInv
  <2>5. NotLate(last', position, Latency)
    BY <2>1, <2>2, PipeWireCandidate, ClampKeeps, RecordingAssumption
       DEF PipeWireInv
  <2>6. ASSUME hasTime \/ ~hasLast PROVE NotEarly(last', position, 1)
    <3>1. NotEarly(time, position, 1)
      BY <2>6, PipeWireCandidate
    <3> QED
      BY <2>2, <2>3, <3>1, EarlyLater DEF PipeWireInv, StreamInv
  <2>7. StreamInv' /\ lastFrames' \in Int
        /\ lastAt' + lastFrames' <= position' /\ lastFrames' > 0
    BY <2>1, <2>2, <2>3 DEF PipeWireInv, StreamInv
  <2>8. NotLate(last, lastAt, Latency)'
    BY <2>1, <2>5 DEF NotLate
  <2>9. measured' => NotEarly(last, lastAt, 1)'
    BY <2>1, <2>6 DEF NotEarly
  <2> QED
    BY <2>1, <2>4, <2>7, <2>8, <2>9 DEF PipeWireInv
<1>2. ASSUME NEW frames \in Packets, PipeWireLose(frames)
      PROVE  PipeWireInv' /\ lastAt' = lastAt
  BY <1>2, frames \in Int, frames > 0
     DEF Packets, PipeWireLose, Pass, PipeWireInv, StreamInv, NotLate,
         NotEarly
<1>3. CASE PipeWireRestart
  BY <1>3, RecordingAssumption
     DEF PipeWireRestart, StreamRestart, PipeWireInv, StreamInv,
              NotLate, NotEarly
<1>4. CASE UNCHANGED pipeWireVars
  BY <1>4 DEF pipeWireVars, streamVars, PipeWireInv, StreamInv,
              NotLate, NotEarly
<1> QED
  BY <1>1, <1>2, <1>3, <1>4
     DEF PipeWireNext, Process, Packets

LEMMA PipeWireInvariance == PipeWireSpec => []PipeWireInv
<1>1. PipeWireInit => PipeWireInv
  BY RecordingAssumption
     DEF PipeWireInit, StreamInit, PipeWireInv, StreamInv, NotLate,
         NotEarly
<1> QED
  BY <1>1, PipeWireStep, PTL DEF PipeWireSpec

\* Every timestamp of a PipeWire stream is later than the one before it.
THEOREM PipeWireIncreases == PipeWireSpec => Increasing
<1>1. ASSUME PipeWireInv, [PipeWireNext]_pipeWireVars
      PROVE  [hasLast /\ hasLast' /\ lastAt' # lastAt => last' > last]_streamVars
  BY <1>1, PipeWireStep
<1> QED
  BY <1>1, PipeWireInvariance, PTL DEF PipeWireSpec, Increasing

\* However many buffers without a time are stamped in a row, a timestamp is
\* ahead of its recording by the delay of a cycle at most.
THEOREM PipeWireTracks == PipeWireSpec => []PipeWireTracksRecording
<1>1. PipeWireInv => PipeWireTracksRecording
  BY DEF PipeWireInv, NotLate, NotEarly, PipeWireTracksRecording,
         Ahead, Behind
<1> QED
  BY <1>1, PipeWireInvariance, PTL

-----------------------------------------------------------------------------
(* WASAPI.                                                                 *)

\* While the device counts all frames, the anchor has the audio time of its
\* packet, less a microsecond of rounding for every interpolation.
AnchorInv ==
  /\ device_position \in Int /\ hops \in Int
  /\ anchor.device_position \in Int /\ anchor.timestamp_us \in Int
  /\ hasAnchor /\ correlated =>
       /\ NotLate(anchor.timestamp_us, AnchorAt, 0)
       /\ NotEarly(anchor.timestamp_us, AnchorAt, hops + 1)

WasapiInv ==
  /\ StreamInv
  /\ hasLast => NotLate(last, lastAt, Latency)
  /\ hasLast /\ measured => NotEarly(last, lastAt, 1)
  /\ AnchorInv

\* A delivered packet, from its time before the clamp.
LEMMA WasapiDelivery ==
  ASSUME WasapiInv, NEW frames \in Packets, NEW time \in Int,
         NotLate(time, position, Latency),
         NEW newAnchor, NEW silent, NEW clock,
         clock => NotEarly(time, position, 1),
         Deliver(frames, time, newAnchor, silent, clock)
  PROVE  /\ StreamInv'
         /\ hasLast' => NotLate(last, lastAt, Latency)'
         /\ hasLast' /\ measured' => NotEarly(last, lastAt, 1)'
         /\ hasLast /\ hasLast' /\ lastAt' # lastAt => last' > last
<1>1. frames \in Int /\ frames > 0
  BY DEF Packets
<1>2. CASE silent
  BY <1>1, <1>2 DEF Deliver, Pass, WasapiInv, StreamInv, NotLate,
                    NotEarly
<1>3. CASE ~silent
  <2>1. /\ position' = position + frames /\ hasLast' = TRUE
        /\ last' = Clamped(time) /\ lastAt' = position
        /\ measured' = clock
    BY <1>3 DEF Deliver, Stamp, clamp_timestamp_us,
                Clamped
  <2>2. last' \in Int /\ last' >= time
    BY <2>1, ClampKeeps DEF WasapiInv
  <2>3. hasLast => last' > last
    BY <2>1, ClampKeeps DEF WasapiInv
  <2>4. NotLate(last', position, Latency)
    BY <2>1, ClampKeeps, RecordingAssumption DEF WasapiInv
  <2>5. ASSUME clock PROVE NotEarly(last', position, 1)
    BY <2>2, <2>5, EarlyLater DEF WasapiInv, StreamInv
  <2>6. StreamInv'
    BY <1>1, <2>1, <2>2 DEF WasapiInv, StreamInv
  <2>7. NotLate(last, lastAt, Latency)'
    BY <2>1, <2>4 DEF NotLate
  <2>8. measured' => NotEarly(last, lastAt, 1)'
    BY <2>1, <2>5 DEF NotEarly
  <2> QED
    BY <2>3, <2>6, <2>7, <2>8
<1> QED
  BY <1>2, <1>3

\* The anchor that a packet leaves is that of the packet.
LEMMA WasapiAnchors ==
  ASSUME WasapiInv, NEW frames \in Packets, NEW time \in Int,
         NEW newAnchor, NEW silent, NEW clock, hops' \in Int,
         Deliver(frames, time, newAnchor, silent, clock),
         newAnchor => /\ NotLate(time, position, 0)
                      /\ NotEarly(time, position, hops' + 1)
  PROVE  AnchorInv'
<1>1. frames \in Int /\ position' = position + frames
      /\ device_position' = device_position + frames
  BY DEF Packets, Deliver, Pass, Stamp
<1>2. CASE ~newAnchor
  BY <1>1, <1>2 DEF Deliver, WasapiInv, AnchorInv
<1>3. CASE newAnchor
  <2>1. /\ anchor'.device_position = device_position
        /\ anchor'.timestamp_us = time
    BY <1>3 DEF Deliver, NewAnchor, Anchor
  <2>2. AnchorAt' = position
    BY <1>1, <2>1 DEF AnchorAt, WasapiInv, AnchorInv, StreamInv
  <2>3. /\ NotLate(anchor.timestamp_us, AnchorAt, 0)'
        /\ NotEarly(anchor.timestamp_us, AnchorAt, hops + 1)'
    BY <1>3, <2>1, <2>2 DEF NotLate, NotEarly
  <2> QED
    BY <1>1, <2>1, <2>3 DEF WasapiInv, AnchorInv
<1> QED
  BY <1>2, <1>3

\* The interpolated time is the audio time of the packet, if the device has
\* counted all frames since the anchor.
LEMMA Interpolation ==
  ASSUME WasapiInv, hasAnchor, correlated
  PROVE  /\ interpolate_timestamp_us \in Int
         /\ NotLate(interpolate_timestamp_us, position, 0)
         /\ NotEarly(interpolate_timestamp_us, position, hops + 2)
<1> DEFINE ts == anchor.timestamp_us
           at == AnchorAt
           span == device_position - anchor.device_position
<1>1. /\ ts \in Int /\ at \in Int /\ span \in Int /\ hops \in Int
      /\ position = at + span
  BY DEF WasapiInv, AnchorInv, StreamInv, AnchorAt
<1>2. NotLate(ts, at, 0) /\ NotEarly(ts, at, hops + 1)
  BY DEF WasapiInv, AnchorInv
<1>3. PICK duration \in Int :
        /\ duration = Micros(span)
        /\ NotLate(duration, span, 0) /\ NotEarly(duration, span, 1)
  BY <1>1, MicrosRounds
<1>4. interpolate_timestamp_us = ts + duration
  BY <1>3 DEF interpolate_timestamp_us, Micros
<1> HIDE DEF ts, at, span
<1>5. SampleRate \in Int /\ Second \in Int
  BY RecordingAssumption
<1>6. NotLate(ts + duration, at + span, 0)
  BY <1>1, <1>2, <1>3, <1>5, Z3 DEF NotLate
<1>7. NotEarly(ts + duration, at + span, hops + 2)
  BY <1>1, <1>2, <1>3, <1>5, Z3 DEF NotEarly
<1> QED
  BY <1>1, <1>4, <1>6, <1>7

LEMMA WasapiStep ==
  ASSUME WasapiInv, [WasapiNext]_wasapiVars
  PROVE  /\ WasapiInv'
         /\ hasLast /\ hasLast' /\ lastAt' # lastAt => last' > last
<1>1. ASSUME NEW frames \in Packets, NEW silent \in BOOLEAN,
             QpcPacket(frames, silent)
      PROVE  /\ WasapiInv'
             /\ hasLast /\ hasLast' /\ lastAt' # lastAt => last' > last
  <2>1. PICK time \in Int :
          /\ time = Micros(position)
          /\ NotLate(time, position, 0) /\ NotEarly(time, position, 1)
    BY MicrosRounds DEF WasapiInv, StreamInv
  <2>2. Deliver(frames, time, TRUE, silent, TRUE) /\ hops' = 0
    BY <1>1, <2>1 DEF QpcPacket, Micros
  <2>3. NotLate(time, position, Latency)
    BY <2>1, LateLonger DEF WasapiInv, StreamInv
  <2>4. AnchorInv'
    <3>1. hops' \in Int /\ NotEarly(time, position, hops' + 1)
      BY <2>1, <2>2
    <3> QED
      BY <2>1, <2>2, <3>1, WasapiAnchors
  <2> QED
    BY <2>1, <2>2, <2>3, <2>4, WasapiDelivery DEF WasapiInv
<1>2. ASSUME NEW frames \in Packets, NEW discontinuity \in BOOLEAN,
             NEW silent \in BOOLEAN,
             InterpolatedPacket(frames, discontinuity, silent)
      PROVE  /\ WasapiInv'
             /\ hasLast /\ hasLast' /\ lastAt' # lastAt => last' > last
  <2>1. hasAnchor /\ correlated
    BY <1>2 DEF InterpolatedPacket, Interpolates
  <2>2. PICK time \in Int :
          /\ time = interpolate_timestamp_us
          /\ NotLate(time, position, 0) /\ NotEarly(time, position, hops + 2)
    BY <2>1, Interpolation
  <2>3. Deliver(frames, time, TRUE, silent, FALSE) /\ hops' = hops + 1
    BY <1>2, <2>2 DEF InterpolatedPacket
  <2>4. NotLate(time, position, Latency)
    BY <2>2, LateLonger DEF WasapiInv, StreamInv
  <2>5. AnchorInv'
    <3>1. hops' \in Int /\ hops' + 1 = hops + 2
      BY <2>3 DEF WasapiInv, AnchorInv
    <3>2. NotEarly(time, position, hops' + 1)
      BY <2>2, <3>1
    <3> QED
      BY <2>2, <2>3, <3>1, <3>2, WasapiAnchors
  <2> QED
    BY <2>3, <2>4, <2>5, WasapiDelivery DEF WasapiInv
<1>3. ASSUME NEW frames \in Packets, NEW discontinuity \in BOOLEAN,
             NEW silent \in BOOLEAN,
             ReadTimePacket(frames, discontinuity, silent)
      PROVE  /\ WasapiInv'
             /\ hasLast /\ hasLast' /\ lastAt' # lastAt => last' > last
  <2>1. PICK time \in ReadTimes :
          Deliver(frames, time, FALSE, silent, TRUE) /\ hops' = 0
    BY <1>3 DEF ReadTimePacket
  <2>2. /\ time \in Int
        /\ NotLate(time, position, Latency) /\ NotEarly(time, position, 1)
    BY ReadTimesBound DEF WasapiInv, StreamInv
  <2>3. AnchorInv'
    <3>1. hops' \in Int
      BY <2>1
    <3> QED
      BY <2>1, <2>2, <3>1, WasapiAnchors, Zenon
  <2> QED
    BY <2>1, <2>2, <2>3, WasapiDelivery DEF WasapiInv
<1>4. ASSUME NEW frames \in Packets, WasapiLose(frames) \/ Glitch(frames)
      PROVE  WasapiInv' /\ lastAt' = lastAt
  <2>1. frames \in Int /\ frames > 0
    BY DEF Packets
  <2>2. /\ position' = position + frames
        /\ UNCHANGED <<hasLast, last, lastAt, measured, hasAnchor, anchor, hops>>
    BY <1>4 DEF WasapiLose, Glitch, Pass
  <2>3. /\ StreamInv'
        /\ hasLast' => NotLate(last, lastAt, Latency)'
        /\ hasLast' /\ measured' => NotEarly(last, lastAt, 1)'
    BY <2>1, <2>2 DEF WasapiInv, StreamInv, NotLate, NotEarly
  <2>4. CASE WasapiLose(frames)
    <3>1. device_position' = device_position + frames /\ correlated' = correlated
      BY <2>4 DEF WasapiLose
    <3>2. AnchorAt' = AnchorAt
      BY <2>1, <2>2, <3>1 DEF AnchorAt, WasapiInv, AnchorInv, StreamInv
    <3>3. AnchorInv'
      BY <2>1, <2>2, <3>1, <3>2 DEF WasapiInv, AnchorInv, NotLate, NotEarly
    <3> QED
      BY <2>2, <2>3, <3>3 DEF WasapiInv
  <2>5. CASE Glitch(frames)
    <3>1. device_position' \in Int /\ ~correlated'
      BY <2>5, RecordingAssumption DEF Glitch
    <3>2. anchor' = anchor /\ hops' = hops
      BY <2>2
    <3>3. AnchorInv'
      BY <3>1, <3>2 DEF WasapiInv, AnchorInv
    <3> QED
      BY <2>2, <2>3, <3>3 DEF WasapiInv
  <2> QED
    BY <1>4, <2>4, <2>5
<1>5. CASE WasapiRestart
  BY <1>5, RecordingAssumption
     DEF WasapiRestart, StreamRestart, WasapiInv, StreamInv, AnchorInv,
         NotLate, NotEarly
<1>6. CASE UNCHANGED wasapiVars
  BY <1>6 DEF wasapiVars, streamVars, WasapiInv, StreamInv, AnchorInv,
              AnchorAt, NotLate, NotEarly
<1> QED
  BY <1>1, <1>2, <1>3, <1>4, <1>5, <1>6
     DEF WasapiNext, Packets

LEMMA WasapiInvariance == WasapiSpec => []WasapiInv
<1>1. WasapiInit => WasapiInv
  BY RecordingAssumption
     DEF WasapiInit, StreamInit, Anchor, WasapiInv, StreamInv,
         AnchorInv, NotLate, NotEarly
<1> QED
  BY <1>1, WasapiStep, PTL DEF WasapiSpec

\* Every timestamp of a WASAPI stream is later than the one before it.
THEOREM WasapiIncreases == WasapiSpec => Increasing
<1>1. ASSUME WasapiInv, [WasapiNext]_wasapiVars
      PROVE  [hasLast /\ hasLast' /\ lastAt' # lastAt => last' > last]_streamVars
  BY <1>1, WasapiStep
<1> QED
  BY <1>1, WasapiInvariance, PTL DEF WasapiSpec, Increasing

\* No error of a WASAPI timestamp accumulates, over gaps, silent packets and
\* clamps.
THEOREM WasapiTracks == WasapiSpec => []WasapiTracksRecording
<1>1. WasapiInv => WasapiTracksRecording
  BY DEF WasapiInv, NotLate, NotEarly, WasapiTracksRecording, Ahead,
         Behind
<1> QED
  BY <1>1, WasapiInvariance, PTL

\* The anchor holds the audio time of its packet, less a microsecond for every
\* interpolation that led to it.
THEOREM AnchorsAreExact == WasapiSpec => []AnchorIsAudioTime
<1>1. ASSUME WasapiInv PROVE AnchorIsAudioTime
  <2>1. /\ SampleRate \in Int /\ Second \in Int /\ hops \in Int
        /\ AnchorAt \in Int /\ anchor.timestamp_us \in Int
    BY <1>1, RecordingAssumption
       DEF WasapiInv, AnchorInv, StreamInv, AnchorAt
  <2> QED
    BY <1>1, <2>1 DEF WasapiInv, AnchorInv, NotLate, NotEarly,
                      AnchorIsAudioTime
<1> QED
  BY <1>1, WasapiInvariance, PTL

-----------------------------------------------------------------------------
(* PulseAudio.                                                             *)

Bound == IF Latency > Resync + Jitter THEN Latency ELSE Resync + Jitter

\* The latency measured at the start of a callback stays that of the oldest
\* frame while the callback reads on.
OldestInv ==
  /\ read \in Int
  /\ reading /\ hasOldest =>
       /\ oldest \in Int
       /\ NotLate(oldest, position - read, Jitter)
       /\ NotEarly(oldest, position - read, Jitter + 1)

PulseInv ==
  /\ StreamInv /\ lastFrames \in Int
  /\ hasLast => lastAt + lastFrames <= position /\ lastFrames > 0
  /\ hasLast => NotLate(last, lastAt, Bound)
  /\ hasLast /\ measured => NotEarly(last, lastAt, Resync + Jitter + 2)
  /\ OldestInv

LEMMA BoundIsInt ==
  /\ Bound \in Int /\ Resync \in Int /\ Jitter \in Int /\ Latency \in Int
  /\ Bound >= Latency /\ Bound >= Resync + Jitter /\ Resync >= 0 /\ Jitter >= 0
  BY RecordingAssumption, PulseTimestampsAssumption DEF Bound

LEMMA MeasuredBound ==
  ASSUME PulseInv, reading, hasOldest
  PROVE  /\ MeasuredTime \in Int
         /\ NotLate(MeasuredTime, position, Jitter)
         /\ NotEarly(MeasuredTime, position, Jitter + 2)
<1>1. PICK duration \in Int :
        /\ duration = Micros(read)
        /\ NotLate(duration, read, 0) /\ NotEarly(duration, read, 1)
  BY MicrosRounds DEF PulseInv, OldestInv
<1>2. /\ position \in Int /\ read \in Int /\ oldest \in Int
      /\ NotLate(oldest, position - read, Jitter)
      /\ NotEarly(oldest, position - read, Jitter + 1)
  BY DEF PulseInv, OldestInv, StreamInv
<1>3. SampleRate \in Int /\ Second \in Int /\ Jitter \in Int
  BY RecordingAssumption, PulseTimestampsAssumption
<1>4. NotLate(oldest + duration, position, Jitter)
  BY <1>1, <1>2, <1>3, Z3 DEF NotLate
<1>5. NotEarly(oldest + duration, position, Jitter + 2)
  BY <1>1, <1>2, <1>3, Z3 DEF NotEarly
<1> QED
  BY <1>1, <1>2, <1>4, <1>5 DEF MeasuredTime

\* What is stamped is not late, and with a known latency not early: a
\* prediction that is not far apart from the measured time shares its bounds.
LEMMA PulseCandidate ==
  ASSUME PulseInv, reading, NEW time \in PulseCandidates
  PROVE  /\ time \in Int /\ NotLate(time, position, Bound)
         /\ hasOldest => NotEarly(time, position, Resync + Jitter + 2)
<1>1. CASE ~hasOldest /\ ~hasLast
  <2>1. time \in ReadTimes
    BY <1>1 DEF PulseCandidates
  <2>2. time \in Int /\ NotLate(time, position, Latency)
    BY <2>1, ReadTimesBound DEF PulseInv, StreamInv
  <2> QED
    BY <1>1, <2>2, Widen, BoundIsInt DEF PulseInv, StreamInv
<1>2. CASE ~hasOldest /\ hasLast
  <2>1. time = PredictedTime
    BY <1>2 DEF PulseCandidates
  <2> QED
    BY <1>2, <2>1, PredictionBound, BoundIsInt DEF PulseInv
<1>3. CASE hasOldest
  <2>1. PICK m \in Int :
          /\ m = MeasuredTime
          /\ NotLate(m, position, Jitter) /\ NotEarly(m, position, Jitter + 2)
    BY <1>3, MeasuredBound
  <2>2. time \in Int /\ time - m <= Resync /\ m - time <= Resync
    <3>1. CASE time = MeasuredTime
      BY <2>1, <3>1, BoundIsInt
    <3>2. CASE time # MeasuredTime
      <4>1. hasLast /\ ~FarApart /\ time = PredictedTime
        BY <1>3, <3>2 DEF PulseCandidates
      <4>2. PredictedTime \in Int
        BY <4>1, PredictionBound, BoundIsInt DEF PulseInv
      <4> QED
        BY <2>1, <4>1, <4>2, BoundIsInt DEF FarApart
    <3> QED
      BY <3>1, <3>2
  <2>3. position \in Int /\ Jitter + 2 \in Int /\ Resync + Jitter + 2 \in Int
    BY BoundIsInt DEF PulseInv, StreamInv
  <2>4. time - m <= Bound - Jitter
    BY <2>1, <2>2, BoundIsInt
  <2>5. m - time <= (Resync + Jitter + 2) - (Jitter + 2)
    BY <2>1, <2>2, BoundIsInt
  <2>6. NotLate(time, position, Bound)
    BY <2>1, <2>2, <2>3, <2>4, Widen, BoundIsInt
  <2>7. NotEarly(time, position, Resync + Jitter + 2)
    BY <2>1, <2>2, <2>3, <2>5, Widen
  <2> QED
    BY <2>2, <2>6, <2>7
<1> QED
  BY <1>1, <1>2, <1>3

LEMMA PulseStep ==
  ASSUME PulseInv, [PulseNext]_pulseVars
  PROVE  /\ PulseInv'
         /\ hasLast /\ hasLast' /\ lastAt' # lastAt => last' > last
<1>1. ASSUME NEW frames \in Packets, ReadPacket(frames)
      PROVE  /\ PulseInv'
             /\ hasLast /\ hasLast' /\ lastAt' # lastAt => last' > last
  <2>1. PICK time \in PulseCandidates :
          /\ position' = position + frames /\ hasLast' = TRUE
          /\ last' = Clamped(time) /\ lastAt' = position
          /\ measured' = hasOldest
    BY <1>1 DEF ReadPacket, Stamp, PulseClamped
  <2>2. /\ reading /\ reading' = reading /\ hasOldest' = hasOldest
        /\ oldest' = oldest /\ read' = read + frames /\ lastFrames' = frames
    BY <1>1 DEF ReadPacket
  <2>3. frames \in Int /\ frames > 0 /\ time \in Int
    BY <2>2, PulseCandidate DEF Packets
  <2>4. last' \in Int /\ last' >= time
    BY <2>1, <2>3, ClampKeeps DEF PulseInv
  <2>5. hasLast => last' > last
    BY <2>1, <2>3, ClampKeeps DEF PulseInv
  <2>6. NotLate(last', position, Bound)
    BY <2>1, <2>2, <2>3, PulseCandidate, ClampKeeps, BoundIsInt DEF PulseInv
  <2>7. ASSUME hasOldest PROVE NotEarly(last', position, Resync + Jitter + 2)
    <3>1. NotEarly(time, position, Resync + Jitter + 2)
      BY <2>2, <2>7, PulseCandidate
    <3>2. Resync + Jitter + 2 \in Int
      BY BoundIsInt
    <3> QED
      BY <2>3, <2>4, <3>1, <3>2, EarlyLater DEF PulseInv, StreamInv
  <2>8. StreamInv' /\ lastFrames' \in Int
        /\ lastAt' + lastFrames' <= position' /\ lastFrames' > 0
    BY <2>1, <2>2, <2>3, <2>4 DEF PulseInv, StreamInv
  <2>9. NotLate(last, lastAt, Bound)'
    BY <2>1, <2>6 DEF NotLate, Bound
  <2>10. measured' => NotEarly(last, lastAt, Resync + Jitter + 2)'
    BY <2>1, <2>7 DEF NotEarly
  <2>11. OldestInv'
    <3>1. position' - read' = position - read /\ read' \in Int
      BY <2>1, <2>2, <2>3 DEF PulseInv, StreamInv, OldestInv
    <3> QED
      BY <2>2, <3>1 DEF PulseInv, OldestInv, NotLate, NotEarly
  <2> QED
    BY <2>5, <2>8, <2>9, <2>10, <2>11 DEF PulseInv
<1>2. ASSUME NEW frames \in Packets, ReadHole(frames) \/ PulseLose(frames)
      PROVE  PulseInv' /\ lastAt' = lastAt
  <2>1. frames \in Int /\ frames > 0
    BY DEF Packets
  <2>2. /\ position' = position + frames /\ lastFrames' = lastFrames
        /\ UNCHANGED <<hasLast, last, lastAt, measured>>
        /\ reading' = reading /\ hasOldest' = hasOldest /\ oldest' = oldest
    BY <1>2 DEF ReadHole, PulseLose, Pass, callbackVars
  <2>3. OldestInv'
    <3>1. CASE ReadHole(frames)
      <4>1. position' - read' = position - read /\ read' \in Int
        BY <2>1, <2>2, <3>1 DEF ReadHole, PulseInv, StreamInv, OldestInv
      <4> QED
        BY <2>2, <4>1 DEF PulseInv, OldestInv, NotLate, NotEarly
    <3>2. CASE PulseLose(frames)
      BY <2>2, <3>2 DEF PulseLose, callbackVars, PulseInv, OldestInv
    <3> QED
      BY <1>2, <3>1, <3>2
  <2>4. StreamInv' /\ (hasLast' => lastAt' + lastFrames' <= position')
    BY <2>1, <2>2 DEF PulseInv, StreamInv
  <2> QED
    BY <2>2, <2>3, <2>4 DEF PulseInv, NotLate, NotEarly, Bound
<1>3. CASE BeginRead
  <2>1. UNCHANGED <<streamVars, lastFrames>> /\ read' = 0
    BY <1>3 DEF BeginRead
  <2>2. OldestInv'
    <3>1. ASSUME hasOldest'
          PROVE  /\ oldest' \in Int
                 /\ NotLate(oldest', position, Jitter)
                 /\ NotEarly(oldest', position, Jitter + 1)
      <4>1. PICK start \in Int :
              /\ start = Micros(position)
              /\ NotLate(start, position, 0) /\ NotEarly(start, position, 1)
        BY MicrosRounds DEF PulseInv, StreamInv
      <4>2. PICK error \in (-Jitter)..Jitter : oldest' = start + error
        BY <1>3, <3>1, <4>1 DEF BeginRead
      <4>3. /\ SampleRate \in Int /\ SampleRate > 0 /\ Second \in Int
            /\ Jitter \in Int /\ error \in Int /\ position \in Int
            /\ -Jitter <= error /\ error <= Jitter
        BY RecordingAssumption, BoundIsInt DEF PulseInv, StreamInv
      <4>4. /\ error * SampleRate <= Jitter * SampleRate
            /\ error * SampleRate >= -Jitter * SampleRate
        BY <4>3, Z3
      <4>5. NotLate(start + error, position, Jitter)
        BY <4>1, <4>3, <4>4 DEF NotLate
      <4>6. NotEarly(start + error, position, Jitter + 1)
        BY <4>1, <4>3, <4>4 DEF NotEarly
      <4> QED
        BY <4>1, <4>2, <4>3, <4>5, <4>6
    <3>2. position' - read' = position
      BY <2>1 DEF streamVars, PulseInv, StreamInv
    <3> QED
      BY <2>1, <3>1, <3>2 DEF OldestInv, NotLate, NotEarly
  <2> QED
    BY <2>1, <2>2 DEF streamVars, PulseInv, StreamInv, NotLate, NotEarly, Bound
<1>4. CASE EndRead
  BY <1>4 DEF EndRead, streamVars, PulseInv, StreamInv, OldestInv, NotLate,
              NotEarly, Bound
<1>5. CASE PulseRestart
  BY <1>5 DEF PulseRestart, StreamRestart, callbackVars, PulseInv, StreamInv,
              OldestInv
<1>6. CASE UNCHANGED pulseVars
  BY <1>6 DEF pulseVars, streamVars, callbackVars, PulseInv, StreamInv,
              OldestInv, NotLate, NotEarly, Bound
<1> QED
  BY <1>1, <1>2, <1>3, <1>4, <1>5, <1>6 DEF PulseNext, streamVars

LEMMA PulseInvariance == PulseSpec => []PulseInv
<1>1. PulseInit => PulseInv
  BY DEF PulseInit, StreamInit, PulseInv, StreamInv, OldestInv
<1> QED
  BY <1>1, PulseStep, PTL DEF PulseSpec

\* Every timestamp of a PulseAudio stream is later than the one before it.
THEOREM PulseIncreases == PulseSpec => Increasing
<1>1. ASSUME PulseInv, [PulseNext]_pulseVars
      PROVE  [hasLast /\ hasLast' /\ lastAt' # lastAt => last' > last]_streamVars
  BY <1>1, PulseStep
<1> QED
  BY <1>1, PulseInvariance, PTL DEF PulseSpec, Increasing

\* Holes, losses and roundings never carry a PulseAudio timestamp further from
\* its recording than the correction threshold and the jitter.
THEOREM PulseTracks == PulseSpec => []PulseTracksRecording
<1>1. PulseInv => PulseTracksRecording
  BY DEF PulseInv, Bound, NotLate, NotEarly, PulseTracksRecording, Ahead, Behind
<1> QED
  BY <1>1, PulseInvariance, PTL

-----------------------------------------------------------------------------
(* CoreAudio.                                                              *)

\* No timestamp is late, for the host time is exact and 0 is the first of all.
CoreAudioInv ==
  /\ StreamInv /\ position >= 0
  /\ hasLast => lastAt >= 0 /\ NotLate(last, lastAt, 0)

\* The duration of a later frame is longer.
LEMMA MicrosIncrease ==
  ASSUME NEW t \in Int, NEW p \in Int, NEW q \in Int, NotLate(t, p, 0), p < q
  PROVE  Micros(q) > t
<1>1. NotLate(t + 1, q, 0) /\ t + 1 \in Int
  BY LateTick
<1> DEFINE x == q * Second
<1>2. x \in Int /\ SampleRate \in Int /\ SampleRate > 0
  BY RecordingAssumption
<1>3. (t + 1) * SampleRate <= x
  BY <1>1, RecordingAssumption DEF NotLate
<1>4. Micros(q) = x \div SampleRate
  BY DEF Micros
<1> HIDE DEF x
<1>5. PICK y \in Int : y = x \div SampleRate /\ y * SampleRate > x - SampleRate
  BY <1>2, Z3
<1>6. ASSUME y <= t PROVE FALSE
  <2>1. (t - y) * SampleRate >= 0
    BY <1>2, <1>6, Z3
  <2> QED
    BY <1>2, <1>3, <1>5, <2>1, Z3
<1> QED
  BY <1>4, <1>5, <1>6

LEMMA CoreAudioStep ==
  ASSUME CoreAudioInv, [CoreAudioNext]_streamVars
  PROVE  /\ CoreAudioInv'
         /\ hasLast /\ hasLast' /\ lastAt' # lastAt
            => last' > last \/ (last' = 0 /\ ~measured')
<1>1. ASSUME NEW frames \in Packets, CoreAudioDeliver(frames)
      PROVE  /\ CoreAudioInv'
             /\ hasLast => last' > last \/ (last' = 0 /\ ~measured')
  <2>1. PICK hostTimeValid \in BOOLEAN :
          Stamp(frames, IF hostTimeValid THEN Micros(position) ELSE 0,
                hostTimeValid)
    BY <1>1 DEF CoreAudioDeliver
  <2>2. /\ position' = position + frames /\ lastAt' = position
        /\ \/ last' = Micros(position)
           \/ last' = 0 /\ ~measured'
    BY <2>1 DEF Stamp
  <2>3. frames \in Int /\ frames > 0 /\ position \in Int /\ position >= 0
    BY DEF Packets, CoreAudioInv, StreamInv
  <2>4. last' \in Int /\ NotLate(last', position, 0)
    <3>1. NotLate(0, position, 0)
      <4>1. position * Second >= 0
        BY <2>3, RecordingAssumption, Z3
      <4> QED
        BY <2>3, <4>1, RecordingAssumption DEF NotLate
    <3> QED
      BY <2>2, <2>3, <3>1, MicrosRounds
  <2>5. CoreAudioInv'
    <3>1. StreamInv' /\ position' >= 0 /\ lastAt' >= 0
      BY <2>2, <2>3, <2>4 DEF StreamInv
    <3>2. NotLate(last, lastAt, 0)'
      BY <2>2, <2>4 DEF NotLate
    <3> QED
      BY <3>1, <3>2 DEF CoreAudioInv
  <2>6. hasLast => Micros(position) > last
    BY MicrosIncrease DEF CoreAudioInv, StreamInv
  <2> QED
    BY <2>2, <2>5, <2>6
<1>2. ASSUME NEW frames \in Packets, CoreAudioLose(frames)
      PROVE  CoreAudioInv' /\ lastAt' = lastAt
  BY <1>2, frames \in Int, frames > 0
     DEF Packets, CoreAudioLose, Pass, CoreAudioInv, StreamInv, NotLate
<1>3. ASSUME StreamRestart PROVE CoreAudioInv' /\ ~hasLast'
  BY <1>3 DEF StreamRestart, CoreAudioInv, StreamInv
<1>4. ASSUME UNCHANGED streamVars PROVE CoreAudioInv' /\ lastAt' = lastAt
  BY <1>4 DEF streamVars, CoreAudioInv, StreamInv, NotLate
<1> QED
  BY <1>1, <1>2, <1>3, <1>4 DEF CoreAudioNext

\* CoreAudio does not clamp: a buffer without a host time is stamped 0, and as
\* long as the valid host times are the times of the recording, that is the only
\* way in which its timestamps fail to increase.
THEOREM CoreAudioGoesBackToZero ==
  CoreAudioSpec =>
    [][hasLast /\ hasLast' /\ lastAt' # lastAt
         => last' > last \/ (last' = 0 /\ ~measured')]_streamVars
<1>1. CoreAudioInit => CoreAudioInv
  BY DEF CoreAudioInit, StreamInit, CoreAudioInv, StreamInv
<1>2. CoreAudioInv /\ [CoreAudioNext]_streamVars => CoreAudioInv'
  BY CoreAudioStep
<1>3. ASSUME CoreAudioInv, [CoreAudioNext]_streamVars
      PROVE  [hasLast /\ hasLast' /\ lastAt' # lastAt
                => last' > last \/ (last' = 0 /\ ~measured')]_streamVars
  BY <1>3, CoreAudioStep
<1> QED
  BY <1>1, <1>2, <1>3, PTL DEF CoreAudioSpec

=============================================================================
