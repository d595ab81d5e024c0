------------------------- MODULE PlaybackBufferProofs -------------------------
(***************************************************************************)
(* For every size of a buffer, number of channels, format and answer of    *)
(* the user: the device gets whole frames of the user, in order, and then  *)
(* silence, and a frame that from_s16 or from_f32 accepted is played to    *)
(* its last sample.                                                        *)
(*                                                                         *)
(* The code counts samples, frames and bytes by dividing one by another,   *)
(* in a different order for each pair of formats; the first part shows     *)
(* that all the orders agree.                                              *)
(***************************************************************************)
EXTENDS PlaybackBuffer, TLAPS

-----------------------------------------------------------------------------
(* Quotients.                                                              *)

\* A quotient is the number of times that the divisor fits.
LEMMA Quotient ==
  ASSUME NEW x \in Int, NEW d \in Int, d > 0
  PROVE  /\ x \div d \in Int
         /\ (x \div d) * d <= x
         /\ x < (x \div d + 1) * d
  BY Z3

LEMMA QuotientIs ==
  ASSUME NEW x \in Int, NEW d \in Int, d > 0, NEW q \in Int,
         q * d <= x, x < (q + 1) * d
  PROVE  x \div d = q
<1>1. PICK y \in Int : y = x \div d /\ y * d <= x /\ x < (y + 1) * d
  BY Quotient
<1>2. y < q + 1
  <2>1. ASSUME y >= q + 1 PROVE FALSE
    <3>1. (y - (q + 1)) * d >= 0
      BY <2>1, Z3
    <3> QED
      BY <1>1, <3>1, Z3
  <2> QED
    BY <2>1
<1>3. q < y + 1
  <2>1. ASSUME q >= y + 1 PROVE FALSE
    <3>1. (q - (y + 1)) * d >= 0
      BY <2>1, Z3
    <3> QED
      BY <1>1, <3>1, Z3
  <2> QED
    BY <2>1
<1> QED
  BY <1>1, <1>2, <1>3

\* To divide in two steps is to divide by the product.
LEMMA QuotientOfQuotient ==
  ASSUME NEW x \in Int, NEW b \in Int, b > 0, NEW c \in Int, c > 0
  PROVE  x \div (c * b) = (x \div b) \div c
<1>1. PICK y \in Int : y = x \div b /\ y * b <= x /\ x < (y + 1) * b
  BY Quotient
<1>2. PICK q \in Int : q = y \div c /\ q * c <= y /\ y < (q + 1) * c
  BY Quotient
<1>3. c * b \in Int /\ c * b > 0
  BY Z3
<1>4. q * (c * b) <= x
  <2>1. (y - q * c) * b >= 0
    BY <1>2, Z3
  <2> QED
    BY <1>1, <2>1, Z3
<1>5. x < (q + 1) * (c * b)
  <2>1. ((q + 1) * c - (y + 1)) * b >= 0
    BY <1>2, Z3
  <2> QED
    BY <1>1, <2>1, Z3
<1> QED
  BY <1>1, <1>2, <1>3, <1>4, <1>5, QuotientIs

LEMMA QuotientOfMultiple ==
  ASSUME NEW n \in Int, NEW d \in Int, d > 0
  PROVE  (n * d) \div d = n
<1>1. n * d \in Int /\ n * d < (n + 1) * d
  BY Z3
<1> QED
  BY <1>1, QuotientIs

\* The lesser of a number and a multiple holds the lesser number of divisors.
LEMMA QuotientOfLesser ==
  ASSUME NEW x \in Int, NEW n \in Int, NEW d \in Int, d > 0
  PROVE  Lesser(x, n * d) \div d = Lesser(n, x \div d)
<1>1. PICK q \in Int : q = x \div d /\ q * d <= x /\ x < (q + 1) * d
  BY Quotient
<1>2. n * d \in Int
  OBVIOUS
<1>3. CASE x < n * d
  <2>1. q < n
    <3>1. ASSUME q >= n PROVE FALSE
      <4>1. (q - n) * d >= 0
        BY <3>1, Z3
      <4> QED
        BY <1>1, <1>3, <4>1, Z3
    <3> QED
      BY <3>1
  <2> QED
    BY <1>1, <1>2, <1>3, <2>1 DEF Lesser
<1>4. CASE ~(x < n * d)
  <2>1. n <= q
    <3>1. ASSUME n >= q + 1 PROVE FALSE
      <4>1. (n - (q + 1)) * d >= 0
        BY <3>1, Z3
      <4> QED
        BY <1>1, <1>4, <4>1, Z3
    <3> QED
      BY <3>1
  <2>2. (n * d) \div d = n
    BY QuotientOfMultiple
  <2> QED
    BY <1>1, <1>2, <1>4, <2>1, <2>2 DEF Lesser
<1> QED
  BY <1>3, <1>4

-----------------------------------------------------------------------------
(* The inductive invariant.                                                *)

\* The bytes of a buffer that hold whole frames.
Whole == (Capacity \div frame_size) * frame_size

\* What the definitions of the actions take for granted: the frames asked for
\* fit, an answer is handed over as far as it was asked for, and the last part
\* of a frame in a buffer of CoreAudio, which no callback ever writes, is the
\* silence it was allocated with.
BufferInv ==
  /\ channels \in 1..MaxChannels /\ format \in Formats
  /\ buffer \in [0..(Capacity - 1) -> Int]
  /\ frames \in Nat /\ queued \in Nat
  /\ answer \in Answers
  /\ frames * frame_size <= Capacity /\ queued <= Capacity
  /\ answer.present => frames * frame_size <= queued
  /\ backend = "coreaudio" => \A i \in Whole..(Capacity - 1) : buffer[i] = Zero

IInv == BufferInv /\ WholeFramesInOrder

-----------------------------------------------------------------------------
(* The frames of the user.                                                 *)

LEMMA Types ==
  /\ Capacity \in Int /\ MaxI32 \in Int
  /\ \A f : bytes_per_sample(f) \in {2, 4}
  BY PlaybackBufferAssumption DEF bytes_per_sample

\* What from_s16 and from_f32 make holds the samples it was made of.
LEMMA MadeOfSamples ==
  ASSUME NEW len \in Nat, NEW ch \in Int, NEW f \in Formats,
         NEW recorded \in Nat, NEW a \in from_samples(len, ch, f, recorded)
  PROVE  /\ ch > 0 /\ len % ch = 0
         /\ a = Frame(len * bytes_per_sample(f), ch, f, len, recorded)
  BY DEF from_samples

\* A frame is absent and empty, or written field by field, or made of whole
\* frames of samples, which are all that was recorded.
Sound(a) ==
  /\ a.present \in BOOLEAN /\ a.format \in Formats
  /\ a.bytes \in Nat /\ a.channels \in Nat /\ a.samples \in Nat
  /\ ~a.present => a.bytes = 0 /\ a.channels = 0
  /\ a.channels > 0 =>
       /\ a.samples % a.channels = 0
       /\ a.bytes = a.samples * bytes_per_sample(a.format)
       /\ a.recorded = a.samples

LEMMA AnswersAreSound == \A a \in Answers : Sound(a)
<1> SUFFICES ASSUME NEW a \in Answers PROVE Sound(a)
  OBVIOUS
<1>1. CASE a = None
  BY <1>1 DEF None, Frame, Sound, Formats
<1>2. CASE a \in Literals
  <2>1. PICK n \in 0..MaxSource, f \in Formats : a = Frame(n, 0, f, 0, 0)
    BY <1>2 DEF Literals
  <2> QED
    BY <2>1 DEF Frame, Sound
<1>3. ASSUME NEW len \in Nat, NEW ch \in Int, NEW f \in Formats,
             a \in from_samples(len, ch, f, len)
      PROVE  Sound(a)
  <2>1. /\ ch > 0 /\ len % ch = 0
        /\ a = Frame(len * bytes_per_sample(f), ch, f, len, len)
    BY <1>3, MadeOfSamples
  <2>2. PICK b \in Nat : b = bytes_per_sample(f)
    BY Types
  <2>3. len * b \in Nat
    BY Z3
  <2> QED
    BY <2>1, <2>2, <2>3 DEF Frame, Sound
<1>4. CASE a \in Converted
  <2>1. PICK n \in 0..MaxSource, ch \in -1..MaxChannels, f \in Formats :
          a \in from_samples(n, ch, f, n)
    BY <1>4 DEF Converted
  <2>2. n \in Nat /\ ch \in Int
    BY PlaybackBufferAssumption
  <2> QED
    BY <1>3, <2>1, <2>2
<1>5. CASE a \in Echoed
  <2>1. PICK n \in -1..3, ch \in -1..MaxChannels,
             code \in Formats \union {"unknown"} :
          \E c \in frame_callback(n, ch, code) : a \in Echo(c)
    BY <1>5 DEF Echoed
  <2>2. PICK c \in frame_callback(n, ch, code) : a \in Echo(c)
    BY <2>1
  <2>3. /\ n > 0 /\ ch > 0 /\ code \in Formats
        /\ c.frames = n /\ c.channels = ch /\ c.format = code
    BY <2>2 DEF frame_callback
  <2>4. PICK f \in Formats, aligned \in BOOLEAN :
          \E len \in as_samples(c, f, aligned) :
            a \in from_samples(len, c.channels, c.format, c.frames * c.channels)
    BY <2>2 DEF Echo
  <2>5. a \in from_samples(n * ch, ch, code, n * ch)
    BY <2>3, <2>4 DEF as_samples
  <2>6. n * ch \in Nat /\ ch \in Int
    BY <2>3, PlaybackBufferAssumption, Z3
  <2> QED
    BY <1>3, <2>3, <2>5, <2>6
<1> QED
  BY <1>1, <1>2, <1>4, <1>5 DEF Answers

-----------------------------------------------------------------------------
(* What is written.                                                        *)

\* What an answer and n frames asked for call for in byte i.
WantedFrames(a, n) ==
  Lesser(n, (a.bytes \div bytes_per_sample(a.format)) \div channels)

Wanted(a, n, i) ==
  IF i \div bytes_per_sample(format) < WantedFrames(a, n) * channels
  THEN i \div bytes_per_sample(format) ELSE Zero

LEMMA WantedFramesBound ==
  ASSUME channels \in Int, channels > 0, NEW a, Sound(a), NEW n \in Nat
  PROVE  /\ WantedFrames(a, n) \in Nat /\ WantedFrames(a, n) <= n
         /\ ~a.present => WantedFrames(a, n) = 0
<1>1. PICK b \in {2, 4} : b = bytes_per_sample(a.format)
  BY Types
<1>2. a.bytes \div b \in Nat /\ (a.bytes = 0 => a.bytes \div b = 0)
  BY <1>1 DEF Sound
<1>3. PICK y \in Nat : y = a.bytes \div b /\ (a.bytes = 0 => y = 0)
  BY <1>2
<1>4. y \div channels \in Nat /\ (y = 0 => y \div channels = 0)
  <2>1. PICK q \in Int :
          q = y \div channels /\ q * channels <= y /\ y < (q + 1) * channels
    BY Quotient
  <2>2. q + 1 > 0
    BY <2>1, Z3
  <2>3. y = 0 => q = 0
    BY QuotientOfMultiple, <2>1, y = 0 => y = 0 * channels
  <2> QED
    BY <2>1, <2>2, <2>3
<1>5. WantedFrames(a, n) = Lesser(n, y \div channels)
  BY <1>1, <1>3 DEF WantedFrames
<1>6. WantedFrames(a, n) \in Nat /\ WantedFrames(a, n) <= n
  BY <1>4, <1>5 DEF Lesser
<1>7. ASSUME ~a.present PROVE WantedFrames(a, n) = 0
  BY <1>3, <1>4, <1>5, <1>7 DEF Sound, Lesser
<1> QED
  BY <1>6, <1>7

\* Whether samples are copied byte for byte or converted one by one, as many
\* whole frames are written as there are, and as are asked for.
LEMMA CopiedIsWanted ==
  ASSUME channels \in Int, channels > 0, NEW a, Sound(a), NEW n \in Nat
  PROVE  CopiedSamples(a, n * frame_size) = WantedFrames(a, n) * channels
<1>1. PICK b \in {2, 4}, c \in {2, 4} :
        b = bytes_per_sample(format) /\ c = bytes_per_sample(a.format)
  BY Types
<1>2. frame_size = channels * b
  BY <1>1 DEF frame_size
<1>3. PICK bytes \in Int : bytes = a.bytes
  BY DEF Sound
<1>4. CASE a.format = format
  <2>1. channels * b \in Int /\ channels * b > 0
    BY <1>1, Z3
  <2>2. Lesser(bytes, n * (channels * b)) \div (channels * b)
          = Lesser(n, bytes \div (channels * b))
    BY <2>1, QuotientOfLesser
  <2>3. bytes \div (channels * b) = (bytes \div b) \div channels
    BY <1>1, QuotientOfQuotient
  <2> QED
    BY <1>1, <1>2, <1>3, <1>4, <2>2, <2>3 DEF CopiedSamples, WantedFrames
<1>5. CASE a.format # format
  <2>1. (n * (channels * b)) \div b = n * channels
    <3>1. n * channels \in Int /\ n * (channels * b) = (n * channels) * b
      BY <1>1, Z3
    <3> QED
      BY <1>1, <3>1, QuotientOfMultiple
  <2>2. bytes \div c \in Int
    BY <1>1
  <2>3. Lesser(bytes \div c, n * channels) \div channels
          = Lesser(n, (bytes \div c) \div channels)
    BY <2>2, QuotientOfLesser
  <2> QED
    BY <1>1, <1>2, <1>3, <1>5, <2>1, <2>3 DEF CopiedSamples, WantedFrames
<1> QED
  BY <1>4, <1>5

\* Samples and bytes: a byte is before a sample's first if its sample is.
LEMMA SampleOfByte ==
  ASSUME NEW i \in Nat, NEW samples \in Int
  PROVE  /\ i \div bytes_per_sample(format) \in Nat
         /\ i \div bytes_per_sample(format) < samples
              <=> i < samples * bytes_per_sample(format)
<1>1. CASE bytes_per_sample(format) = 2
  BY <1>1
<1>2. CASE bytes_per_sample(format) = 4
  BY <1>2
<1> QED
  BY <1>1, <1>2, Types

\* The bytes of n frames after the answer of the user, and those after them.
LEMMA AnsweredBytes ==
  ASSUME channels \in Int, channels > 0,
         NEW old \in [0..(Capacity - 1) -> Int],
         NEW a, Sound(a), a.present, NEW n \in Nat,
         NEW i \in 0..(Capacity - 1)
  PROVE  Answered(old, a, n)[i] =
           IF i < n * frame_size THEN Wanted(a, n, i) ELSE old[i]
<1>1. PICK b \in {2, 4} : b = bytes_per_sample(format)
  BY Types
<1>2. PICK f \in Int : f = frame_size /\ f > 0
  BY <1>1, Z3 DEF frame_size
<1>3. i \in Nat
  OBVIOUS
<1>4. CASE n = 0
  BY <1>2, <1>3, <1>4 DEF Answered
<1>5. CASE n > 0
  <2>1. PICK w \in Nat : w = WantedFrames(a, n) /\ w <= n
    BY WantedFramesBound
  <2>2. PICK samples \in Int : samples = w * channels
    OBVIOUS
  <2>3. samples * b <= n * f
    <3>1. PICK asked \in Int : asked = n * channels /\ samples <= asked
      BY <2>1, <2>2, (n - w) * channels >= 0, Z3
    <3>2. asked * b = n * f
      BY <1>1, <1>2, <3>1, Z3 DEF frame_size
    <3> QED
      BY <1>1, <3>1, <3>2
  <2>4. Answered(old, a, n)[i]
          = IF i < samples * b THEN i \div b
            ELSE IF i < n * f THEN Zero ELSE old[i]
    BY <1>1, <1>2, <1>5, <2>1, <2>2, CopiedIsWanted
       DEF Answered, write_playback_frame_to_buffer
  <2>5. i \div b < samples <=> i < samples * b
    BY <1>1, <1>3, SampleOfByte
  <2> QED
    BY <1>1, <1>2, <1>3, <2>1, <2>2, <2>3, <2>4, <2>5 DEF Wanted
<1> QED
  BY <1>4, <1>5

-----------------------------------------------------------------------------
(* The steps.                                                              *)

\* Whole frames fit in a buffer.
LEMMA WholeFits ==
  ASSUME BufferInv
  PROVE  /\ channels \in Int /\ channels > 0
         /\ frame_size \in Int /\ frame_size > 0
         /\ Capacity \div frame_size \in Nat
         /\ Whole \in Nat /\ Whole <= Capacity
         /\ \A n \in 0..(Capacity \div frame_size) :
              n * frame_size \in Nat /\ n * frame_size <= Whole
<1>1. channels \in Int /\ channels > 0
  BY PlaybackBufferAssumption DEF BufferInv
<1>2. PICK f \in Int : f = frame_size /\ f > 0
  BY <1>1, Types, Z3 DEF frame_size
<1>3. PICK q \in Int : /\ q = Capacity \div f
                       /\ q * f <= Capacity /\ Capacity < (q + 1) * f
  BY <1>2, Types, Quotient
<1>4. q >= 0 /\ q * f >= 0
  <2>1. q + 1 > 0
    BY <1>2, <1>3, PlaybackBufferAssumption, Z3
  <2> QED
    BY <1>2, <1>3, <2>1, Z3
<1>5. ASSUME NEW n \in 0..q PROVE n * f \in Nat /\ n * f <= q * f
  <2>1. n * f >= 0 /\ (q - n) * f >= 0
    BY <1>2, <1>3, <1>5, Z3
  <2> QED
    BY <1>2, <1>3, <2>1, Z3
<1> QED
  BY <1>1, <1>2, <1>3, <1>4, <1>5 DEF Whole

\* After the frames asked for, silence is wanted.
LEMMA BeyondIsZero ==
  ASSUME BufferInv, NEW a, Sound(a), NEW n \in Nat, NEW i \in Nat,
         i >= n * frame_size
  PROVE  Wanted(a, n, i) = Zero
<1>1. PICK b \in {2, 4} : b = bytes_per_sample(format)
  BY Types
<1>2. channels \in Int /\ channels > 0
  BY WholeFits
<1>3. PICK w \in Nat : w = WantedFrames(a, n) /\ w <= n
  BY <1>2, WantedFramesBound
<1>4. PICK asked \in Int, samples \in Int :
        asked = n * channels /\ samples = w * channels /\ samples <= asked
  BY <1>2, <1>3, (n - w) * channels >= 0, Z3
<1>5. asked * b = n * frame_size
  BY <1>1, <1>2, <1>4, Z3 DEF frame_size
<1>6. ~(i < samples * b)
  BY <1>1, <1>4, <1>5
<1>7. ~(i \div b < samples)
  BY <1>1, <1>6, SampleOfByte
<1> QED
  BY <1>1, <1>3, <1>4, <1>7 DEF Wanted

\* Without an answer, or with nothing asked for, silence is wanted.
LEMMA NothingIsZero ==
  ASSUME BufferInv, NEW a, Sound(a), NEW n \in Nat, NEW i \in Nat,
         WantedFrames(a, n) = 0
  PROVE  Wanted(a, n, i) = Zero
<1>1. i \div bytes_per_sample(format) \in Nat
  BY SampleOfByte
<1> QED
  BY <1>1, WholeFits DEF Wanted

\* The property, in the words of the lemmas.
LEMMA InOrderNext ==
  ASSUME UNCHANGED sessionVars,
         \A i \in 0..(queued' - 1) : buffer'[i] = Wanted(answer', frames', i)
  PROVE  WholeFramesInOrder'
  BY DEF sessionVars, WholeFramesInOrder, Wanted, WantedFrames, bytes_per_sample

\* The same for every answer and every number of frames that fits.
LEMMA AnswersFit ==
  ASSUME BufferInv, NEW old \in [0..(Capacity - 1) -> Int],
         NEW a \in Answers, NEW n \in 0..(Capacity \div frame_size)
  PROVE  a.present =>
           \A i \in 0..(Capacity - 1) :
              Answered(old, a, n)[i] =
                IF i < n * frame_size THEN Wanted(a, n, i) ELSE old[i]
<1>1. Sound(a) /\ channels \in Int /\ channels > 0 /\ n \in Nat
  BY AnswersAreSound, WholeFits
<1> QED
  BY <1>1, AnsweredBytes

\* A C backend that asks for n frames of a buffer of size bytes, and finds
\* nothing but silence in what a last part of a frame takes.
LEMMA FillCStep ==
  ASSUME IInv, NEW old \in [0..(Capacity - 1) -> Int],
         NEW n \in 0..(Capacity \div frame_size), NEW size \in Nat,
         n * frame_size <= size, size <= Capacity,
         \A i \in (n * frame_size)..(size - 1) : old[i] = Zero,
         backend = "coreaudio" => size = Capacity /\ n * frame_size = Whole,
         FillC(old, n, size)
  PROVE  IInv'
<1>1. PICK a \in Answers :
        /\ answer' = a /\ frames' = n /\ queued' = size
        /\ buffer' = [i \in DOMAIN old |->
                        IF written(a, n) <= 0 /\ i < size THEN Zero
                        ELSE Answered(old, a, n)[i]]
        /\ UNCHANGED sessionVars
  BY DEF FillC
<1>2. Sound(a)
  BY AnswersAreSound
<1>3. /\ channels \in Int /\ channels > 0 /\ n \in Nat
      /\ n * frame_size \in Nat /\ n * frame_size <= Capacity
  BY WholeFits, Types DEF IInv
<1>4. PICK w \in Nat : w = WantedFrames(a, n) /\ w <= n
  BY <1>2, <1>3, WantedFramesBound
<1>5. written(a, n) = IF n > 0 /\ a.present THEN w ELSE 0
  BY <1>2, <1>3, <1>4, CopiedIsWanted, QuotientOfMultiple DEF written
<1>6. written(a, n) <= 0 => w = 0
  BY <1>2, <1>3, <1>4, <1>5, WantedFramesBound
<1>7. a.present =>
        \A i \in 0..(Capacity - 1) :
           Answered(old, a, n)[i] =
             IF i < n * frame_size THEN Wanted(a, n, i) ELSE old[i]
  BY AnswersFit DEF IInv
<1>8. ASSUME NEW i \in 0..(size - 1)
      PROVE  buffer'[i] = Wanted(a, n, i)
  <2>1. i \in 0..(Capacity - 1) /\ i < size /\ i \in Nat
    BY <1>8, Types
  <2>2. CASE written(a, n) <= 0
    BY <1>1, <1>2, <1>3, <1>4, <1>6, <2>1, <2>2, NothingIsZero DEF IInv
  <2>3. CASE ~(written(a, n) <= 0)
    <3>1. a.present
      BY <1>5, <2>3
    <3>2. buffer'[i] = IF i < n * frame_size THEN Wanted(a, n, i) ELSE old[i]
      BY <1>1, <1>7, <2>1, <2>3, <3>1
    <3>3. ~(i < n * frame_size) => old[i] = Zero /\ Wanted(a, n, i) = Zero
      BY <1>2, <1>3, <2>1, BeyondIsZero DEF IInv
    <3> QED
      BY <3>2, <3>3
  <2> QED
    BY <2>2, <2>3
<1>9. buffer' \in [0..(Capacity - 1) -> Int]
  <2>1. ASSUME NEW i \in 0..(Capacity - 1) PROVE Answered(old, a, n)[i] \in Int
    <3>1. CASE a.present
      <4>1. Wanted(a, n, i) \in Int
        BY SampleOfByte DEF Wanted, Zero
      <4> QED
        BY <1>7, <3>1, <4>1
    <3>2. CASE ~a.present
      BY <3>2 DEF Answered
    <3> QED
      BY <3>1, <3>2
  <2> QED
    BY <1>1, <2>1 DEF Zero
<1>10. WholeFramesInOrder'
  BY <1>1, <1>8, InOrderNext
<1>11. frame_size' = frame_size /\ Whole' = Whole
  BY <1>1 DEF sessionVars, frame_size, Whole, bytes_per_sample
<1>12. ASSUME backend = "coreaudio", NEW i \in Whole..(Capacity - 1)
       PROVE  buffer'[i] = Zero
  <2>1. i \in 0..(size - 1) /\ i \in Nat /\ i >= n * frame_size
    BY <1>3, <1>12, WholeFits, Types DEF IInv
  <2>2. Wanted(a, n, i) = Zero
    BY <1>2, <1>3, <2>1, BeyondIsZero DEF IInv
  <2> QED
    BY <1>8, <2>1, <2>2
<1>13. BufferInv'
  <2>1. /\ channels' \in 1..MaxChannels /\ format' \in Formats
        /\ answer' \in Answers /\ frames' \in Nat /\ queued' \in Nat
        /\ queued' <= Capacity
    BY <1>1, <1>3 DEF IInv, BufferInv, sessionVars
  <2>2. frames' * frame_size' <= Capacity /\ frames' * frame_size' <= queued'
    BY <1>1, <1>3, <1>11
  <2>3. backend' = "coreaudio"
          => \A i \in Whole'..(Capacity - 1) : buffer'[i] = Zero
    BY <1>1, <1>11, <1>12 DEF sessionVars
  <2> QED
    BY <1>9, <2>1, <2>2, <2>3 DEF BufferInv
<1> QED
  BY <1>10, <1>13 DEF IInv

\* What the device has played keeps the silence in it.
LEMMA PlayedKeepsZero ==
  ASSUME BufferInv
  PROVE  /\ Played \in [0..(Capacity - 1) -> Int]
         /\ \A i \in 0..(Capacity - 1) : buffer[i] = Zero => Played[i] = Zero
  BY DEF BufferInv, Played, Zero, Stale

LEMMA RenderStep == IInv /\ RenderWasapi => IInv'
<1> SUFFICES ASSUME IInv, RenderWasapi PROVE IInv'
  OBVIOUS
<1>1. PICK n \in 1..(Capacity \div frame_size), a \in Answers :
        /\ answer' = a /\ frames' = n
        /\ queued' = IF a.present THEN n * frame_size ELSE 0
        /\ buffer' = Answered(Played, a, n)
  BY DEF RenderWasapi
<1>2. Sound(a)
  BY AnswersAreSound
<1>3. backend = "wasapi" /\ UNCHANGED sessionVars
  BY DEF RenderWasapi
<1>4. /\ channels \in Int /\ channels > 0 /\ n \in Nat
      /\ n * frame_size \in Nat /\ n * frame_size <= Capacity
  BY WholeFits, Types DEF IInv
<1>5. Played \in [0..(Capacity - 1) -> Int]
  BY PlayedKeepsZero DEF IInv
<1>6. CASE ~a.present
  <2>1. buffer' = Played /\ queued' = 0
    BY <1>1, <1>6 DEF Answered
  <2>2. WholeFramesInOrder'
    BY <2>1 DEF WholeFramesInOrder
  <2> QED
    BY <1>1, <1>3, <1>4, <1>5, <1>6, <2>1, <2>2, Types
       DEF IInv, BufferInv, sessionVars, frame_size, bytes_per_sample
<1>7. CASE a.present
  <2>1. queued' = n * frame_size
    BY <1>1, <1>7
  <2>2. ASSUME NEW i \in 0..(Capacity - 1)
        PROVE  buffer'[i] = IF i < n * frame_size THEN Wanted(a, n, i)
                            ELSE Played[i]
    BY <1>1, <1>2, <1>4, <1>5, <1>7, AnsweredBytes
  <2>3. WholeFramesInOrder'
    <3>1. ASSUME NEW i \in 0..(n * frame_size - 1)
          PROVE  buffer'[i] = Wanted(a, n, i)
      <4>1. i \in 0..(Capacity - 1) /\ i < n * frame_size
        BY <1>4, Types
      <4> QED
        BY <2>2, <4>1
    <3> QED
      BY <1>1, <1>3, <2>1, <3>1, InOrderNext
  <2>4. buffer' \in [0..(Capacity - 1) -> Int]
    <3>1. DOMAIN buffer' = 0..(Capacity - 1)
      BY <1>1, <1>4, <1>5, <1>7 DEF Answered, write_playback_frame_to_buffer
    <3>2. buffer' = [i \in DOMAIN buffer' |-> buffer'[i]]
      BY <1>1, <1>4, <1>7 DEF Answered, write_playback_frame_to_buffer
    <3>3. ASSUME NEW i \in 0..(Capacity - 1) PROVE Wanted(a, n, i) \in Int
      BY SampleOfByte DEF Wanted, Zero
    <3> QED
      BY <1>5, <2>2, <3>1, <3>2, <3>3
  <2>5. frame_size' = frame_size
    BY <1>3 DEF sessionVars, frame_size, bytes_per_sample
  <2>6. frames' * frame_size' <= Capacity /\ frames' * frame_size' <= queued'
    BY <1>1, <1>4, <2>1, <2>5
  <2> QED
    BY <1>1, <1>3, <1>4, <2>1, <2>3, <2>4, <2>6
       DEF IInv, BufferInv, sessionVars
<1> QED
  BY <1>6, <1>7

LEMMA NextStep == IInv /\ [Next]_vars => IInv'
<1> SUFFICES ASSUME IInv, [Next]_vars PROVE IInv'
  OBVIOUS
<1>1. CASE WritePulse
  <2>1. PICK n \in 0..(Capacity \div frame_size) :
          FillC(Blank(Stale), n, n * frame_size)
    BY <1>1 DEF WritePulse
  <2>2. backend # "coreaudio"
    BY <1>1 DEF WritePulse
  <2>3. Blank(Stale) \in [0..(Capacity - 1) -> Int]
    BY DEF Blank, Stale
  <2>4. n * frame_size \in Nat /\ n * frame_size <= Capacity
    BY WholeFits, Types DEF IInv
  <2> QED
    BY <2>1, <2>2, <2>3, <2>4, FillCStep
<1>2. CASE ProcessPipeWire
  <2>1. PICK n \in 0..(Capacity \div frame_size) :
          FillC(Played, n, n * frame_size)
    BY <1>2, WholeFits DEF ProcessPipeWire, IInv
  <2>2. backend # "coreaudio"
    BY <1>2 DEF ProcessPipeWire
  <2>3. n * frame_size \in Nat /\ n * frame_size <= Capacity
    BY WholeFits, Types DEF IInv
  <2> QED
    BY <2>1, <2>2, <2>3, PlayedKeepsZero, FillCStep DEF IInv
<1>3. CASE OutputCoreAudio
  <2>1. PICK n \in 0..(Capacity \div frame_size) :
          n = Capacity \div frame_size /\ n * frame_size = Whole
    BY WholeFits DEF IInv, Whole
  <2>2. FillC(Played, n, Capacity) /\ backend = "coreaudio"
    BY <1>3, <2>1 DEF OutputCoreAudio
  <2>3. \A i \in (n * frame_size)..(Capacity - 1) : Played[i] = Zero
    BY <2>1, <2>2, WholeFits, PlayedKeepsZero, Types DEF IInv, BufferInv
  <2>4. Capacity \in Nat /\ n * frame_size <= Capacity
    BY <2>1, WholeFits, PlaybackBufferAssumption DEF IInv
  <2> QED
    BY <2>1, <2>2, <2>3, <2>4, PlayedKeepsZero, FillCStep DEF IInv
<1>4. CASE RenderWasapi
  BY <1>4, RenderStep
<1>5. CASE UNCHANGED vars
  BY <1>5 DEF vars, sessionVars, IInv, BufferInv, WholeFramesInOrder, Whole,
              frame_size, bytes_per_sample
<1> QED
  BY <1>1, <1>2, <1>3, <1>4, <1>5 DEF Next

LEMMA InitStep == Init => IInv
<1> SUFFICES ASSUME Init PROVE IInv
  OBVIOUS
<1>1. /\ channels \in 1..MaxChannels /\ format \in Formats
      /\ queued = 0 /\ frames = 0 /\ answer = None
  BY DEF Init, Formats
<1>2. /\ buffer \in [0..(Capacity - 1) -> Int]
      /\ backend = "coreaudio" => \A i \in 0..(Capacity - 1) : buffer[i] = Zero
  BY DEF Init, Blank, Zero, Stale
<1>3. frames * frame_size = 0
  <2>1. frame_size \in Int
    BY <1>1, Types, PlaybackBufferAssumption DEF frame_size
  <2> QED
    BY <1>1, <2>1
<1>4. Whole \in Nat
  <2>1. PICK f \in Int : f = frame_size /\ f > 0
    BY <1>1, Types, PlaybackBufferAssumption, Z3 DEF frame_size
  <2>2. PICK q \in Int : q = Capacity \div f /\ Capacity < (q + 1) * f
    BY <2>1, Types, Quotient
  <2>3. q + 1 > 0
    BY <2>1, <2>2, PlaybackBufferAssumption, Z3
  <2>4. q * f \in Nat
    BY <2>1, <2>3, Z3
  <2> QED
    BY <2>1, <2>2, <2>4 DEF Whole
<1>5. BufferInv
  BY <1>1, <1>2, <1>3, <1>4, PlaybackBufferAssumption DEF BufferInv, Answers
<1>6. WholeFramesInOrder
  BY <1>1 DEF WholeFramesInOrder
<1> QED
  BY <1>5, <1>6 DEF IInv

LEMMA Invariance == Spec => []IInv
  BY InitStep, NextStep, PTL DEF Spec

-----------------------------------------------------------------------------
(* The theorems.                                                           *)

\* The device gets the user's samples from the first on, in whole frames, none
\* too few, and silence after them; never what the memory held before.
THEOREM PlaysWholeFrames == Spec => []WholeFramesInOrder
<1>1. IInv => WholeFramesInOrder
  BY DEF IInv
<1> QED
  BY <1>1, Invariance, PTL

\* A frame made with from_s16 or from_f32 for the channels of the session, or
\* made of what a capture had recorded, is played to its last sample if as
\* much was asked for.
THEOREM PlaysToTheEnd == Spec => []NothingLost
<1>1. ASSUME IInv, answer.channels = channels,
             answer.samples <= frames * channels
      PROVE  /\ answer.samples = answer.recorded
             /\ \A s \in 0..(answer.recorded - 1) :
                   \E i \in 0..(queued - 1) : buffer[i] = s
  <2>1. channels \in Int /\ channels > 0 /\ frames \in Nat /\ queued \in Nat
    BY <1>1, WholeFits DEF IInv, BufferInv
  <2>2. Sound(answer)
    BY <1>1, AnswersAreSound DEF IInv, BufferInv
  <2>3. PICK samples \in Nat : samples = answer.samples
    BY <2>2 DEF Sound
  <2>4. PICK b \in {2, 4}, c \in {2, 4} :
          b = bytes_per_sample(format) /\ c = bytes_per_sample(answer.format)
    BY Types
  <2>5. /\ answer.present /\ answer.recorded = samples
        /\ answer.bytes = samples * c /\ samples % channels = 0
    BY <1>1, <2>1, <2>2, <2>3, <2>4 DEF Sound
  <2>6. PICK k \in Int : k = samples \div channels /\ samples = k * channels
    BY <2>1, <2>5, Z3
  <2>7. k <= frames
    <3>1. ASSUME k >= frames + 1 PROVE FALSE
      <4>1. (k - (frames + 1)) * channels >= 0
        BY <2>1, <3>1, Z3
      <4> QED
        BY <1>1, <2>1, <2>3, <2>6, <4>1, Z3
    <3> QED
      BY <2>1, <3>1
  <2>8. answer.bytes \div c = samples
    BY <2>4, <2>5, QuotientOfMultiple
  <2>9. WantedFrames(answer, frames) * channels = samples
    <3>1. WantedFrames(answer, frames) = Lesser(frames, k)
      BY <2>4, <2>6, <2>8 DEF WantedFrames
    <3>2. Lesser(frames, k) = k
      BY <2>1, <2>6, <2>7 DEF Lesser
    <3> QED
      BY <2>6, <3>1, <3>2
  <2>10. frames * channels * b <= queued
    BY <1>1, <2>1, <2>4, <2>5, Z3 DEF IInv, BufferInv, frame_size
  <2>11. ASSUME NEW s \in 0..(samples - 1)
         PROVE  \E i \in 0..(queued - 1) : buffer[i] = s
    <3>1. PICK asked \in Int : asked = frames * channels /\ samples <= asked
      BY <1>1, <2>1, <2>3
    <3>2. s * b \in 0..(queued - 1)
      BY <2>1, <2>4, <2>10, <3>1
    <3>3. (s * b) \div b = s
      BY <2>4, QuotientOfMultiple
    <3>4. buffer[s * b] = Wanted(answer, frames, s * b)
      BY <1>1, <3>2 DEF IInv, WholeFramesInOrder, Wanted, WantedFrames
    <3> QED
      BY <2>4, <2>9, <3>2, <3>3, <3>4 DEF Wanted
  <2> QED
    BY <2>3, <2>5, <2>11
<1>2. IInv => NothingLost
  BY <1>1 DEF NothingLost
<1> QED
  BY <1>2, Invariance, PTL

=============================================================================
