--------------------------- MODULE WasapiTimestamps ---------------------------
(***************************************************************************)
(* Capture timestamps of the WASAPI backend: the QPC position of a packet, *)
(* or if that is flagged wrong the time interpolated from the device       *)
(* positions of this packet and an anchor, or the time of the reading.     *)
(***************************************************************************)
EXTENDS CaptureTimestamps

VARIABLES
  device_position,  \* the device position of the next packet
  correlated,       \* the device has counted all frames since the last packet
  hasAnchor,        \* last_anchor is Some
  anchor,           \* TimestampAnchor
  hops              \* interpolations that led to the anchor

wasapiVars == <<streamVars, device_position, correlated, hasAnchor, anchor, hops>>

Anchor(pos, time) == [device_position |-> pos, timestamp_us |-> time]

WasapiInit ==
  /\ StreamInit
  /\ device_position = 0
  /\ correlated = TRUE
  /\ hasAnchor = FALSE
  /\ anchor = Anchor(0, 0)
  /\ hops = 0

\* Mutant: interpolation goes on from before a discontinuity.
InterpolatesAcross(discontinuity) ==
  hasAnchor /\ device_position >= anchor.device_position

\* Interpolation bridges packets without a time, never a gap in the data.
Interpolates(discontinuity) ==
  /\ ~discontinuity
  /\ hasAnchor /\ device_position >= anchor.device_position

interpolate_timestamp_us ==
  anchor.timestamp_us + Micros(device_position - anchor.device_position)

\* Mutant: the anchor takes the time after the clamp.
ClampedAnchor(timestamp) ==
  Anchor(device_position, Clamped(timestamp))

NewAnchor(timestamp) == Anchor(device_position, timestamp)

\* Mutant: the timestamp is not clamped.
WasapiUnclamped(timestamp) == timestamp

clamp_timestamp_us(timestamp) == Clamped(timestamp)

\* The anchor, which is set for silent packets too, takes the time before the
\* clamp; a silent packet is not delivered.
Deliver(frames, timestamp, newAnchor, silent, clock) ==
  /\ hasAnchor' = newAnchor
  /\ anchor' = IF newAnchor THEN NewAnchor(timestamp) ELSE anchor
  /\ IF silent THEN Pass(frames)
               ELSE Stamp(frames, clamp_timestamp_us(timestamp), clock)
  /\ device_position' = device_position + frames
  /\ correlated' = TRUE

\* The position in the performance counter is good.
QpcPacket(frames, silent) ==
  /\ Deliver(frames, Micros(position), TRUE, silent, TRUE)
  /\ hops' = 0

\* TIMESTAMP_ERROR.  A packet that does not correlate with the one before it
\* has DATA_DISCONTINUITY too.
InterpolatedPacket(frames, discontinuity, silent) ==
  /\ discontinuity \/ correlated
  /\ Interpolates(discontinuity)
  /\ Deliver(frames, interpolate_timestamp_us, TRUE, silent, FALSE)
  /\ hops' = hops + 1

ReadTimePacket(frames, discontinuity, silent) ==
  /\ discontinuity \/ correlated
  /\ ~Interpolates(discontinuity)
  /\ \E timestamp \in ReadTimes :
       Deliver(frames, timestamp, FALSE, silent, TRUE)
  /\ hops' = 0

\* Frames are lost and the device counts them.
WasapiLose(frames) ==
  /\ Pass(frames)
  /\ device_position' = device_position + frames
  /\ UNCHANGED <<correlated, hasAnchor, anchor, hops>>

\* Frames are lost and the device counts something else.
Glitch(frames) ==
  /\ Pass(frames)
  /\ device_position' \in 0..MaxPosition
  /\ correlated' = FALSE
  /\ UNCHANGED <<hasAnchor, anchor, hops>>

\* The next thread begins without an anchor.
WasapiRestart ==
  /\ StreamRestart
  /\ device_position' = 0
  /\ correlated' = TRUE
  /\ hasAnchor' = FALSE
  /\ UNCHANGED <<anchor, hops>>

WasapiNext ==
  \/ WasapiRestart
  \/ \E frames \in Packets :
       \/ WasapiLose(frames)
       \/ Glitch(frames)
       \/ \E silent \in BOOLEAN :
            \/ QpcPacket(frames, silent)
            \/ \E discontinuity \in BOOLEAN :
                 \/ InterpolatedPacket(frames, discontinuity, silent)
                 \/ ReadTimePacket(frames, discontinuity, silent)

WasapiSpec == WasapiInit /\ [][WasapiNext]_wasapiVars

-----------------------------------------------------------------------------
\* No timestamp is later than the recording by more than the delay of a
\* reading, and none that came from a clock is earlier: clamps, silent packets
\* and gaps in the data do not let an error accumulate.
WasapiTracksRecording == hasLast => Ahead(Latency) /\ (measured => Behind(1))

\* The frame that the packet of the anchor began with.
AnchorAt == position - (device_position - anchor.device_position)

\* The anchor keeps the audio time of its packet, exact but for a microsecond
\* of rounding in every interpolation, whatever the clamp has delivered.
AnchorIsAudioTime ==
  (hasAnchor /\ correlated) =>
    /\ anchor.timestamp_us * SampleRate <= AnchorAt * Second
    /\ (anchor.timestamp_us + hops + 1) * SampleRate >= AnchorAt * Second

=============================================================================
