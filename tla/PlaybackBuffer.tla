---------------------------- MODULE PlaybackBuffer ----------------------------
(***************************************************************************)
(* What a running playback session hands to its device: the backend asks   *)
(* the user for frames, playback_callback (FFI) or playback_thread_func    *)
(* (WASAPI) writes the answer with write_playback_frame_to_buffer, and the *)
(* backend makes silence of what is missing.  Three places share the duty  *)
(* to fill every byte, and most buffers come back with their old contents. *)
(* The user writes the fields of a PlaybackFrame, makes one with from_s16  *)
(* or from_f32, or plays back what a capture callback got.                 *)
(*                                                                         *)
(* A byte of the buffer is the number of the user's sample it belongs to,  *)
(* or Zero, or Stale: whatever the memory held before.                     *)
(***************************************************************************)
EXTENDS Integers

CONSTANTS
  Capacity,    \* bytes of a buffer
  MaxSource,   \* bound on the bytes of a frame from the user
  MaxChannels, \* bound on the channels
  MaxI32       \* bound on an i32

ASSUME PlaybackBufferAssumption ==
  /\ Capacity \in Nat /\ MaxSource \in Nat /\ MaxI32 \in Nat
  /\ MaxChannels \in Nat \ {0}

Formats == {"S16", "F32"}
Zero    == -1
Stale   == -2

bytes_per_sample(f) == IF f = "S16" THEN 2 ELSE 4

VARIABLES
  backend,   \* who drives the session
  channels,  \* of the session
  format,    \* of the device
  buffer,    \* the bytes of the buffer
  queued,    \* how many of them are handed to the device
  frames,    \* frames asked of the user
  answer     \* the PlaybackFrame of the user, or None

sessionVars == <<backend, channels, format>>
vars        == <<sessionVars, buffer, queued, frames, answer>>

frame_size == channels * bytes_per_sample(format)

Lesser(a, b) == IF a < b THEN a ELSE b

Blank(byte) == [i \in 0..(Capacity - 1) |-> byte]

-----------------------------------------------------------------------------
(* The frames of the user.                                                 *)

\* frame_callback: what a capture callback gets, if anything.
frame_callback(n, ch, code) ==
  IF n > 0 /\ ch > 0 /\ code \in Formats
  THEN {[bytes |-> n * ch * bytes_per_sample(code), frames |-> n,
         channels |-> ch, format |-> code]}
  ELSE {}

\* as_s16 and as_f32 of a frame, borrowed or owned: the number of samples, or
\* nothing; a Vec of bytes need not be aligned for them.
as_samples(f, asFormat, aligned) ==
  LET len == f.frames * f.channels
  IN  IF /\ f.format = asFormat /\ f.frames > 0 /\ f.channels > 0
         /\ f.bytes >= len * bytes_per_sample(asFormat) /\ aligned
      THEN {len} ELSE {}

\* A frame of the user; the numbers of samples are those it was made from and
\* those that the capture had recorded.
Frame(bytes, ch, f, samples, recorded) ==
  [present |-> TRUE, bytes |-> bytes, channels |-> ch, format |-> f,
   samples |-> samples, recorded |-> recorded]

None == [Frame(0, 0, "S16", 0, 0) EXCEPT !.present = FALSE]

\* Mutant: a last part of a frame is cut off without an error.
FromSamplesCut(len, ch, f, recorded) ==
  IF ch > 0 /\ len <= MaxI32
  THEN {Frame((len \div ch) * ch * bytes_per_sample(f), ch, f, len, recorded)}
  ELSE {}

\* from_s16 and from_f32.
from_samples(len, ch, f, recorded) ==
  IF ch > 0 /\ len <= MaxI32 /\ len % ch = 0
  THEN {Frame(len * bytes_per_sample(f), ch, f, len, recorded)}
  ELSE {}

\* Fields that the user fills: only data and format are ever looked at.
Literals == {Frame(n, 0, f, 0, 0) : n \in 0..MaxSource, f \in Formats}

Converted ==
  UNION {from_samples(n, ch, f, n) :
           n \in 0..MaxSource, ch \in -1..MaxChannels, f \in Formats}

\* A captured frame that the user reads as samples and plays back.
Echo(c) ==
  UNION {from_samples(n, c.channels, c.format, c.frames * c.channels) :
           n \in UNION {as_samples(c, f, aligned) :
                          f \in Formats, aligned \in BOOLEAN}}

Echoed ==
  UNION {Echo(c) : c \in UNION {frame_callback(n, ch, code) :
           n \in -1..3, ch \in -1..MaxChannels,
           code \in Formats \union {"unknown"}}}

Answers == {None} \union Literals \union Converted \union Echoed

\* WASAPI renders F32, the C backends S16.  Only CoreAudio zeroes its buffers
\* before the first callback.
Init ==
  /\ backend \in {"pulse", "pipewire", "coreaudio", "wasapi"}
  /\ channels \in 1..MaxChannels
  /\ format = IF backend = "wasapi" THEN "F32" ELSE "S16"
  /\ buffer = Blank(IF backend = "coreaudio" THEN Zero ELSE Stale)
  /\ queued = 0 /\ frames = 0
  /\ answer = None

-----------------------------------------------------------------------------
\* Mutant: the samples are not cut to whole frames.
SamplesNotFrames(a, size) ==
  Lesser(a.bytes \div bytes_per_sample(a.format),
         size \div bytes_per_sample(format))

\* The samples that write_playback_frame_to_buffer copies or converts: whole
\* frames of as many as there are and fit.
CopiedSamples(a, size) ==
  LET copy_frames ==
        IF a.format = format
        THEN Lesser(a.bytes, size) \div frame_size
        ELSE Lesser(a.bytes \div bytes_per_sample(a.format),
                    size \div bytes_per_sample(format)) \div channels
  IN  copy_frames * channels

\* Mutant: the rest of the buffer is not zeroed.
WriteNoZeros(old, a, size) ==
  LET copied == CopiedSamples(a, size) * bytes_per_sample(format)
  IN  [i \in DOMAIN old |->
         IF i < copied THEN i \div bytes_per_sample(format) ELSE old[i]]

\* The buffer after write_playback_frame_to_buffer on its first size bytes.
write_playback_frame_to_buffer(old, a, size) ==
  LET copied == CopiedSamples(a, size) * bytes_per_sample(format)
  IN  [i \in DOMAIN old |->
         IF i < copied THEN i \div bytes_per_sample(format)
         ELSE IF i < size THEN Zero
         ELSE old[i]]

\* What the user leaves in the buffer, if it has an answer.
Answered(old, a, n) ==
  IF n > 0 /\ a.present
  THEN write_playback_frame_to_buffer(old, a, n * frame_size)
  ELSE old

\* What playback_callback returns: the frames written.
written(a, n) ==
  IF n > 0 /\ a.present THEN CopiedSamples(a, n * frame_size) \div channels
                        ELSE 0

\* A C backend queues size bytes, zeroed if nothing was written.
FillC(old, n, size) ==
  \E a \in Answers :
    /\ answer' = a
    /\ frames' = n
    /\ queued' = size
    /\ buffer' = [i \in DOMAIN old |->
                    IF written(a, n) <= 0 /\ i < size THEN Zero
                    ELSE Answered(old, a, n)[i]]
    /\ UNCHANGED sessionVars

\* The device has played the buffer: what it holds is of no use any more.
Played ==
  [i \in DOMAIN buffer |-> IF buffer[i] = Zero THEN Zero ELSE Stale]

\* stream_write_callback gets new memory, of whole frames.
WritePulse ==
  /\ backend = "pulse"
  /\ \E n \in 0..(Capacity \div frame_size) :
       FillC(Blank(Stale), n, n * frame_size)

\* playback_on_process fills what is requested, or else what fits.
ProcessPipeWire ==
  /\ backend = "pipewire"
  /\ \E requested \in 0..(Capacity + 1) :
       LET max_frames == Capacity \div frame_size
           n == IF requested > 0 /\ requested <= max_frames THEN requested
                ELSE max_frames
       IN  FillC(Played, n, n * frame_size)

\* audio_output_callback hands the buffer back whole, with a last part of a
\* frame if 10 ms are no whole number of frames.
OutputCoreAudio ==
  /\ backend = "coreaudio"
  /\ FillC(Played, Capacity \div frame_size, Capacity)

\* playback_thread_func fills the free frames, or releases them as silent.
RenderWasapi ==
  /\ backend = "wasapi"
  /\ \E n \in 1..(Capacity \div frame_size), a \in Answers :
       /\ answer' = a
       /\ frames' = n
       /\ queued' = IF a.present THEN n * frame_size ELSE 0
       /\ buffer' = Answered(Played, a, n)
  /\ UNCHANGED sessionVars

Next == WritePulse \/ ProcessPipeWire \/ OutputCoreAudio \/ RenderWasapi

Spec == Init /\ [][Next]_vars

-----------------------------------------------------------------------------
\* The device gets the user's samples from the first on, in order, in whole
\* frames and none too few, and after them silence.
WholeFramesInOrder ==
  LET sample(i) == i \div bytes_per_sample(format)
      wanted == Lesser(frames,
                  (answer.bytes \div bytes_per_sample(answer.format))
                    \div channels)
  IN  \A i \in 0..(queued - 1) :
        buffer[i] = IF sample(i) < wanted * channels THEN sample(i) ELSE Zero

\* A frame that from_s16 or from_f32 made for the channels of the session, of
\* captured samples or of others, is played to its last sample if it is no
\* longer than what was asked for.
NothingLost ==
  answer.channels = channels /\ answer.samples <= frames * channels =>
    /\ answer.samples = answer.recorded
    /\ \A s \in 0..(answer.recorded - 1) :
          \E i \in 0..(queued - 1) : buffer[i] = s

=============================================================================
