------------------------------ MODULE PlaybackProofs ------------------------------
(***************************************************************************)
(* Proofs about PlaybackAndBuild, for every file, range, number of loops,  *)
(* length of the refill, buffer, budget and fade-out.                      *)
(*                                                                         *)
(* The argument is one inductive invariant, PInv.  To the properties that  *)
(* TLC checks it adds where the decoders are: what the build has, and what *)
(* a capture has, is the range up to its decoder (BuildPosition,           *)
(* CapturePosition), so that both have the whole range when they commit;   *)
(* that buffers and budget are whole frames (BuildBuffer), so that there   *)
(* is room for one whenever there is room; that the entry a playback       *)
(* leases or reads is made by nobody else meanwhile (OneProducer); and     *)
(* that the voice's gain is never below the fade-out's (FadeInv).  On it   *)
(* rests a second one, HearInv: the voice's queue is a path from the point *)
(* the listener has reached to the one the worker has submitted up to, so  *)
(* that every step of the playback is one of RangeContract's or none.      *)
(***************************************************************************)
EXTENDS PlaybackAndBuild, SequenceTheorems, TLAPS

\* The fields of the range that is played.
LEMMA InputFields ==
    ASSUME input \in Inputs
    PROVE  /\ input \in InputType
           /\ input.frames \in Nat /\ input.pos \in Nat
           /\ input.duration \in Nat \cup {-1} /\ input.loops \in Nat \cup {-1}
           /\ input.filtered \in BOOLEAN
BY InputAssumption DEF InputType

\* k frames from pos lie in the range if the file and the duration have as many.
LEMMA InRange ==
    ASSUME input \in Inputs, NEW k \in Nat,
           input.pos + k <= input.frames,
           input.duration < 0 \/ k <= input.duration
    PROVE  RangeLength \in Nat /\ k <= RangeLength
BY InputFields DEF RangeLength, Smaller

\* ... and they are all of it if either has no more.
LEMMA WholeRange ==
    ASSUME input \in Inputs, NEW k \in Nat,
           input.pos + k <= input.frames,
           input.duration < 0 \/ k <= input.duration,
           input.pos + k = input.frames \/ k = input.duration
    PROVE  k = RangeLength
BY InputFields DEF RangeLength, Smaller

\* More frames never take fewer bytes.
LEMMA BytesMonotone ==
    ASSUME NEW a \in Nat, NEW b \in Nat, a <= b
    PROVE  a * FrameBytes \in Nat /\ a * FrameBytes <= b * FrameBytes
BY BudgetAssumption

\* The bytes of n frames more.
LEMMA BytesOfSum ==
    ASSUME NEW k \in Nat, NEW n \in Nat
    PROVE  (k + n) * FrameBytes = k * FrameBytes + n * FrameBytes
BY BudgetAssumption

\* A whole number of frames.
Whole(bytes) == \E c \in Nat : bytes = c * FrameBytes

\* The budget is a whole number of frames.
LEMMA WholeBudget == Whole(MaxBytes) /\ MaxBytes \in Nat \ {0}
<1>1. MaxBytes = (MaxBytes \div FrameBytes) * FrameBytes
      /\ MaxBytes \div FrameBytes \in Nat
  BY BudgetAssumption
<1> QED BY <1>1, BudgetAssumption DEF Whole

\* So is a block, and it is not empty.
LEMMA WholeBlock == Whole(BlockBytes) /\ BlockBytes \in Nat \ {0} /\ BlockBytes >= FrameBytes
BY BufferAssumption, BudgetAssumption DEF Whole, BlockBytes

\* So is the sum of two.
LEMMA WholeSum ==
    ASSUME NEW a \in Nat, NEW b \in Nat, Whole(a), Whole(b)
    PROVE  Whole(a + b)
<1>1. PICK c \in Nat : a = c * FrameBytes  BY DEF Whole
<1>2. PICK d \in Nat : b = d * FrameBytes  BY DEF Whole
<1>3. a + b = (c + d) * FrameBytes /\ c + d \in Nat  BY <1>1, <1>2, BudgetAssumption
<1> QED BY <1>3 DEF Whole

\* Rounding the room between two whole numbers of frames down loses nothing.
LEMMA WholeRoom ==
    ASSUME NEW a \in Nat, NEW b \in Nat, Whole(a), Whole(b), a <= b
    PROVE  /\ (b - a) \div FrameBytes \in Nat
           /\ ((b - a) \div FrameBytes) * FrameBytes = b - a
           /\ a < b => (b - a) \div FrameBytes > 0
<1>1. PICK c \in Nat : a = c * FrameBytes  BY DEF Whole
<1>2. PICK d \in Nat : b = d * FrameBytes  BY DEF Whole
<1>3. c <= d  BY <1>1, <1>2, BudgetAssumption
<1>4. b - a = (d - c) * FrameBytes /\ d - c \in Nat  BY <1>1, <1>2, <1>3, BudgetAssumption
<1>5. (b - a) \div FrameBytes = d - c  BY <1>4, BudgetAssumption
<1> QED BY <1>4, <1>5, BudgetAssumption

\* The first buffer is a whole number of frames, at least one, within the budget.
LEMMA InitialCapacityFits ==
    ASSUME NEW known \in Nat \cup {-1}, NEW guess \in Nat
    PROVE  /\ InitialCapacity(known, guess) \in 1..MaxBytes
           /\ Whole(InitialCapacity(known, guess))
<1> DEFINE frames == IF known >= 0 THEN known ELSE guess
           expected == frames * FrameBytes
           roomy == IF expected > MaxBytes \/ expected <= BlockBytes THEN BlockBytes
                    ELSE IF known < 0 /\ expected <= MaxBytes - BlockBytes
                         THEN expected + BlockBytes
                         ELSE expected
<1>1. expected \in Nat /\ Whole(expected)  BY BudgetAssumption DEF Whole
<1>2. InitialCapacity(known, guess) = Smaller(roomy, MaxBytes)  BY DEF InitialCapacity
<1> HIDE DEF expected
<1>3. Whole(expected + BlockBytes)  BY <1>1, WholeBlock, WholeSum
<1>4. roomy \in Nat \ {0} /\ Whole(roomy)  BY <1>1, <1>3, WholeBlock
<1> HIDE DEF roomy
<1> QED BY <1>2, <1>4, WholeBudget DEF Smaller

--------------------------------------------------------------------------------
(***************************************************************************)
(* The build.                                                              *)
(***************************************************************************)

\* The mark and the cache's entry: who makes the PCM, makes it anew.
OneProducer ==
    /\ producer # "nobody" => ~Cached
    /\ producer = "build" <=> stage # "none"

Decoding == stage \in {"decode", "read", "commit"}

\* Where the build's decoder is: nothing before pos is kept, nothing is skipped.
BuildPosition ==
    /\ stage # "none" => next <= input.frames
    /\ stage = "discard" => next + toDiscard = input.pos
    /\ Decoding =>
        /\ input.pos <= next
        /\ totalBytes = (next - input.pos) * FrameBytes
        /\ toGo = IF input.duration < 0 THEN -1
                  ELSE input.duration - (next - input.pos)
        /\ input.duration < 0 \/ next - input.pos <= input.duration
    /\ stage = "commit" => next - input.pos = RangeLength

\* The buffer, in whole frames.
BuildBuffer ==
    /\ ~Decoding => capacity = 0 /\ reservation = 0 /\ totalBytes = 0
    /\ Decoding => capacity > 0 /\ Whole(capacity)
    /\ stage = "read" => totalBytes < capacity /\ toGo # 0
    /\ capacity = reservation /\ totalBytes <= capacity /\ capacity <= MaxBytes

BuildInv == OneProducer /\ BuildPosition /\ BuildBuffer /\ TooLargeIsTooLarge

\* What is left of the file for the build is not negative, and a read takes no
\* more than that and no more than it asked for.
LEMMA BuildReads ==
    ASSUME RangeTypeOK, BuildTypeOK, next <= input.frames, NEW max \in Nat
    PROVE  /\ BuildRest = input.frames - next /\ BuildRest \in Nat
           /\ Delivered(max, BuildRest) \in Nat
           /\ Delivered(max, BuildRest) <= max
           /\ next + Delivered(max, BuildRest) <= input.frames
           /\ FileFinished(max, BuildRest) =>
                  next + Delivered(max, BuildRest) = input.frames
           /\ ~FileFinished(max, BuildRest) => Delivered(max, BuildRest) = max
<1>1. BuildRest = input.frames - next /\ BuildRest \in Nat
  BY InputFields DEF BuildRest, RangeTypeOK, BuildTypeOK
<1> QED BY <1>1, InputFields DEF Delivered, FileFinished, Smaller, RangeTypeOK, BuildTypeOK

\* The room for a read fits into the buffer, and is some if the buffer has some.
LEMMA RoomFits ==
    ASSUME BuildTypeOK, Whole(capacity), Whole(totalBytes), totalBytes <= capacity
    PROVE  /\ toGo >= 0 => Room <= toGo
           /\ Room \in Nat
           /\ totalBytes + Room * FrameBytes <= capacity
           /\ (totalBytes < capacity /\ toGo # 0) => Room > 0
<1> DEFINE whole == (capacity - totalBytes) \div FrameBytes
<1>1. whole \in Nat /\ whole * FrameBytes = capacity - totalBytes
      /\ (totalBytes < capacity => whole > 0)
  BY WholeRoom DEF BuildTypeOK
<1>2. Room = IF toGo >= 0 THEN Smaller(Smaller(whole, BufferFrames), toGo)
             ELSE Smaller(whole, BufferFrames)
  BY DEF Room
<1> HIDE DEF whole
<1>3. Room \in Nat /\ Room <= whole /\ (toGo >= 0 => Room <= toGo)
      /\ (whole > 0 /\ toGo # 0 => Room > 0)
  BY <1>1, <1>2, BufferAssumption DEF Smaller, BuildTypeOK
<1>4. Room * FrameBytes <= whole * FrameBytes  BY <1>1, <1>3, BytesMonotone
<1>5. Room * FrameBytes \in Nat  BY <1>3, BudgetAssumption
<1> QED BY <1>1, <1>3, <1>4, <1>5 DEF BuildTypeOK

\* Doubling the buffer up to the budget makes more room, in whole frames.
LEMMA GrownFits ==
    ASSUME BuildTypeOK, Whole(capacity), capacity > 0, capacity < MaxBytes
    PROVE  Grown \in Nat /\ Whole(Grown) /\ Grown > capacity /\ Grown <= MaxBytes
<1>1. capacity * 2 = capacity + capacity /\ Whole(capacity + capacity)
  BY WholeSum DEF BuildTypeOK
<1> QED BY <1>1, WholeBudget DEF Grown, Smaller, BuildTypeOK

\* The bytes read so far are whole frames.
LEMMA TotalIsWhole ==
    ASSUME RangeTypeOK, BuildTypeOK, BuildPosition, Decoding
    PROVE  Whole(totalBytes) /\ next - input.pos \in Nat
BY InputFields DEF BuildPosition, Whole, RangeTypeOK, BuildTypeOK

\* No step of the build breaks its invariant.
LEMMA BuildKeepsInv ==
    ASSUME RangeTypeOK, BuildTypeOK, BuildTypeOK', BuildInv, BuildNext
    PROVE  BuildInv'
<1> USE DEF BuildInv
<1>i. input' = input /\ RangeLength' = RangeLength
  BY DEF BuildNext, StartBuild, BuildFails, DiscardFrames, ReserveBuffer, GrowBuffer,
         NoGrowth, ReadBlock, Probe, AllRead, CommitBuild, GiveUp, rangeVars, RangeLength
<1>f. /\ input.frames \in Nat /\ input.pos \in Nat
      /\ input.duration \in Nat \cup {-1}
  BY InputFields DEF RangeTypeOK
<1>g. ASSUME GiveUp, UNCHANGED tooLarge PROVE BuildInv'
  BY <1>g, <1>i, BudgetAssumption DEF GiveUp, EndBuild, OneProducer, Cached, BuildPosition, Decoding,
     BuildBuffer, TooLargeIsTooLarge
<1>1. CASE StartBuild
  BY <1>1, <1>i, <1>f, BudgetAssumption DEF StartBuild, OneProducer, Cached, BuildPosition, Decoding,
     BuildBuffer, TooLargeIsTooLarge
<1>2. CASE BuildFails
  BY <1>2, <1>g DEF BuildFails
<1>3. CASE DiscardFrames
  <2> DEFINE max == Smaller(toDiscard, BufferFrames)
             n == Delivered(max, BuildRest)
  <2>1. CASE FileFinished(max, BuildRest)
    BY <1>3, <1>g, <2>1 DEF DiscardFrames
  <2>2. CASE ~FileFinished(max, BuildRest)
    <3>1. max \in Nat /\ max <= toDiscard
      BY BufferAssumption DEF Smaller, BuildTypeOK
    <3>2. n = max /\ next + n <= input.frames
      BY <3>1, <2>2, <1>3, BuildReads DEF DiscardFrames, BuildPosition
    <3>3. /\ next' = next + n /\ toDiscard' = toDiscard - n
          /\ UNCHANGED <<rangeVars, stage, toGo, capacity, reservation, totalBytes>>
      BY <1>3, <2>2 DEF DiscardFrames
    <3> HIDE DEF max, n
    <3> QED BY <1>3, <1>i, <1>f, <3>1, <3>2, <3>3
            DEF DiscardFrames, rangeVars, OneProducer, Cached, BuildPosition, Decoding,
                BuildBuffer, TooLargeIsTooLarge, BuildTypeOK
  <2> QED BY <2>1, <2>2
<1>4. CASE ReserveBuffer
  <2>1. capacity' \in 1..MaxBytes /\ Whole(capacity') /\ reservation' = capacity'
    BY <1>4, <1>f, InitialCapacityFits, EstimatesAssumption DEF ReserveBuffer
  <2>2. next = input.pos /\ next <= input.frames /\ totalBytes = 0
    BY <1>4, <1>f DEF ReserveBuffer, BuildPosition, BuildBuffer, Decoding, BuildTypeOK
  <2>3. (next - input.pos) * FrameBytes = 0 /\ MaxBytes \in Nat
    BY <2>2, <1>f, BudgetAssumption
  <2> QED BY <1>4, <1>i, <1>f, <2>1, <2>2, <2>3
          DEF ReserveBuffer, rangeVars, OneProducer, Cached, BuildPosition, Decoding,
              BuildBuffer, TooLargeIsTooLarge
<1>5. CASE GrowBuffer
  <2>1. Decoding /\ capacity > 0 /\ Whole(capacity) /\ capacity < MaxBytes
    BY <1>5 DEF GrowBuffer, MustGrow, Decoding, BuildBuffer
  <2>2. capacity' \in Nat /\ Whole(capacity') /\ capacity < capacity' /\ capacity' <= MaxBytes
        /\ reservation' = capacity'
    BY <1>5, <2>1, GrownFits DEF GrowBuffer, BuildBuffer, BuildTypeOK
  <2> QED BY <1>5, <1>i, <1>f, <2>1, <2>2
          DEF GrowBuffer, rangeVars, OneProducer, Cached, BuildPosition, Decoding,
              BuildBuffer, TooLargeIsTooLarge, BuildTypeOK
<1>6. CASE NoGrowth
  <2>1. Decoding /\ totalBytes < capacity
    <3>1. CASE capacity < MaxBytes
      BY <1>6, <3>1, WholeBlock DEF NoGrowth, MustGrow, Decoding, BuildTypeOK
    <3>2. CASE capacity = MaxBytes
      BY <1>6, <3>2 DEF NoGrowth, AtLimit, Decoding, BuildBuffer, BuildTypeOK
    <3> QED BY <3>1, <3>2, BudgetAssumption DEF BuildBuffer, BuildTypeOK
  <2> QED BY <1>6, <1>i, <1>f, <2>1
          DEF NoGrowth, rangeVars, OneProducer, Cached, BuildPosition, Decoding,
              BuildBuffer, TooLargeIsTooLarge, BuildTypeOK
<1>7. CASE ReadBlock
  <2> DEFINE n == Delivered(Room, BuildRest)
             over == FileFinished(Room, BuildRest)
  <2>1. Decoding /\ Whole(capacity) /\ Whole(totalBytes) /\ next - input.pos \in Nat
    BY <1>7, TotalIsWhole DEF ReadBlock, Decoding, BuildBuffer
  <2>2. /\ Room \in Nat /\ (toGo >= 0 => Room <= toGo)
        /\ totalBytes + Room * FrameBytes <= capacity
    BY <2>1, RoomFits DEF BuildBuffer
  <2>3. /\ n \in Nat /\ n <= Room /\ next + n <= input.frames
        /\ over => next + n = input.frames
    BY <1>7, <2>2, BuildReads DEF ReadBlock, BuildPosition
  <2>4. n * FrameBytes \in Nat /\ n * FrameBytes <= Room * FrameBytes
        /\ Room * FrameBytes \in Nat
    BY <2>2, <2>3, BytesMonotone
  <2>5. /\ next' = next + n /\ totalBytes' = totalBytes + n * FrameBytes
        /\ toGo' = IF toGo >= 0 THEN toGo - n ELSE toGo
        /\ stage' = IF over THEN "commit" ELSE "decode"
        /\ stage = "read"
        /\ UNCHANGED <<rangeVars, toDiscard, capacity, reservation>>
    BY <1>7 DEF ReadBlock
  <2> HIDE DEF n, over
  <2>6. /\ next + n - input.pos \in Nat
        /\ (next + n - input.pos) * FrameBytes = totalBytes + n * FrameBytes
    <3>1. next + n - input.pos = (next - input.pos) + n
      BY <2>1, <2>3, <1>f DEF BuildTypeOK
    <3>2. totalBytes = (next - input.pos) * FrameBytes
      BY <2>1 DEF BuildPosition
    <3> QED BY <2>1, <2>3, <3>1, <3>2, BytesOfSum
  <2>7. /\ toGo' = IF input.duration < 0 THEN -1
                   ELSE input.duration - (next + n - input.pos)
        /\ input.duration < 0 \/ next + n - input.pos <= input.duration
    BY <2>1, <2>2, <2>3, <2>5, <1>f DEF BuildPosition, BuildTypeOK
  <2>8. over => next + n - input.pos = RangeLength
    BY <2>3, <2>6, <2>7, <1>f, WholeRange DEF RangeTypeOK, BuildTypeOK
  <2>9. BuildPosition'
    BY <2>1, <2>3, <2>5, <2>6, <2>7, <2>8, <1>i, <1>f
       DEF BuildPosition, Decoding, BuildTypeOK, rangeVars
  <2> QED BY <2>1, <2>2, <2>3, <2>4, <2>5, <2>9, <1>i
          DEF rangeVars, OneProducer, Cached, Decoding, BuildBuffer, TooLargeIsTooLarge,
              BuildTypeOK
<1>8. CASE Probe
  <2>1. /\ stage = "decode" /\ Decoding /\ AtLimit /\ toGo # 0
        /\ next - input.pos \in Nat /\ next <= input.frames
        /\ BuildRest = input.frames - next
    BY <1>8, TotalIsWhole, BuildReads DEF Probe, Decoding, BuildPosition
  <2>2. CASE BuildRest > 0
    <3>1. next - input.pos + 1 \in Nat /\ next - input.pos + 1 <= RangeLength
          /\ RangeLength \in Nat
      <4>1. input.duration < 0 \/ next - input.pos + 1 <= input.duration
        BY <2>1, <1>f DEF BuildPosition, BuildTypeOK
      <4>2. input.pos + (next - input.pos + 1) <= input.frames
        BY <2>1, <2>2, <1>f DEF BuildTypeOK
      <4> QED BY <2>1, <4>1, <4>2, InRange DEF RangeTypeOK
    <3>2. (next - input.pos + 1) * FrameBytes <= RangeLength * FrameBytes
          /\ RangeLength * FrameBytes \in Nat
      BY <3>1, BytesMonotone
    <3>3. (next - input.pos + 1) * FrameBytes = MaxBytes + FrameBytes
      BY <2>1, BudgetAssumption DEF BuildPosition, AtLimit
    <3>4. RangeLength * FrameBytes > MaxBytes
      BY <3>2, <3>3, BudgetAssumption
    <3> QED BY <1>8, <1>i, <2>1, <2>2, <3>4, BudgetAssumption
            DEF Probe, GiveUp, EndBuild, OneProducer, Cached, BuildPosition, Decoding,
                BuildBuffer, TooLargeIsTooLarge
  <2>3. CASE ~(BuildRest > 0)
    <3>1. next - input.pos = RangeLength
      BY <2>1, <2>3, <1>f, WholeRange DEF BuildPosition, RangeTypeOK, BuildTypeOK
    <3> QED BY <1>8, <1>i, <2>1, <2>3, <3>1
            DEF Probe, rangeVars, OneProducer, Cached, BuildPosition, Decoding,
                BuildBuffer, TooLargeIsTooLarge
  <2> QED BY <2>2, <2>3
<1>9. CASE AllRead
  <2>1. Decoding /\ next - input.pos \in Nat
    BY <1>9, TotalIsWhole DEF AllRead, Decoding
  <2>2. next - input.pos = RangeLength
    BY <1>9, <2>1, <1>f, WholeRange DEF AllRead, BuildPosition, RangeTypeOK, BuildTypeOK
  <2> QED BY <1>9, <1>i, <2>1, <2>2
          DEF AllRead, rangeVars, OneProducer, Cached, BuildPosition, Decoding,
              BuildBuffer, TooLargeIsTooLarge
<1>10. CASE CommitBuild
  <2>1. CASE totalBytes \div FrameBytes = 0
    BY <1>10, <2>1, <1>g DEF CommitBuild
  <2>2. CASE totalBytes \div FrameBytes # 0
    BY <1>10, <1>i, <2>2, BudgetAssumption
    DEF CommitBuild, Commit, EndBuild, OneProducer, BuildPosition, Decoding, BuildBuffer,
        TooLargeIsTooLarge
  <2> QED BY <2>1, <2>2
<1> QED BY <1>1, <1>2, <1>3, <1>4, <1>5, <1>6, <1>7, <1>8, <1>9, <1>10 DEF BuildNext

\* What the build commits is the range.
LEMMA BuildCommitsRange ==
    ASSUME RangeTypeOK, BuildTypeOK, BuildInv, CommitBuild
    PROVE  asset' = asset \/ (asset' = Stretch(input.pos, RangeLength) /\ RangeLength > 0)
<1>1. /\ next - input.pos \in Nat /\ totalBytes = (next - input.pos) * FrameBytes
      /\ next - input.pos = RangeLength
  BY TotalIsWhole DEF CommitBuild, BuildInv, BuildPosition, Decoding
<1>2. totalBytes \div FrameBytes = next - input.pos
  BY <1>1, BudgetAssumption
<1>3. next - (next - input.pos) = input.pos
  BY InputFields DEF RangeTypeOK, BuildTypeOK
<1> QED BY <1>1, <1>2, <1>3 DEF CommitBuild, Commit, GiveUp

\* The build's part of the invariant says what TLC checks.
LEMMA BuildInvIsSound ==
    ASSUME RangeTypeOK, BuildTypeOK, BuildInv
    PROVE  BuildIsSound
<1>1. CASE stage = "read"
  <2>1. Decoding /\ Whole(capacity) /\ Whole(totalBytes)
    BY <1>1, TotalIsWhole DEF Decoding, BuildInv, BuildBuffer
  <2> QED BY <1>1, <2>1, RoomFits DEF BuildInv, BuildBuffer, BuildIsSound, ReadsFit
<1>2. CASE stage # "read"
  BY <1>2 DEF BuildInv, BuildBuffer, BuildIsSound, ReadsFit
<1> QED BY <1>1, <1>2

--------------------------------------------------------------------------------
(***************************************************************************)
(* The playback's decoder and the capture of what it reads.                *)
(***************************************************************************)

Working == at \in {"begin", "seek", "fill", "restart", "idle", "update", "reclaim"}

\* Where the playback's decoder is, and that it has one.
DecoderPosition ==
    /\ Working /\ ~leased => decoder.kind # "none"
    /\ decoder.kind = "file" => decoder.next <= input.frames
    /\ decoder.kind = "memory" => Cached /\ decoder.next <= asset.from + asset.frames
    /\ at \in {"begin", "seek"} =>
        /\ decoder.kind = "file"
        /\ decoder.next + discard = input.pos
        /\ remaining = input.duration

\* A capture has what the decoder has delivered of the first play.
CapturePosition ==
    producer = "capture" =>
        /\ at \in {"fill", "idle", "update", "reclaim", "closing"}
        /\ ~leased
        /\ decoder.kind = "file"
        /\ capture.from = input.pos
        /\ decoder.next = input.pos + capture.frames
        /\ remaining = IF input.duration < 0 THEN -1
                       ELSE input.duration - capture.frames
        /\ input.duration < 0 \/ capture.frames <= input.duration

\* What the voice plays is there, and before and after it plays there is nothing.
VoiceInv ==
    /\ BuffersOutliveVoice
    /\ at = "open" => buffers = <<>> /\ ~eof /\ loops = input.loops
    /\ at \in {"open", "begin", "seek", "restart"} => ~leased
    /\ ~HasVoice => queue = <<>>

\* A read of the playback's decoder.
LEMMA PlaybackReads ==
    ASSUME RangeTypeOK, PlayTypeOK, DecoderPosition, Working, ~leased, NEW max \in Nat
    PROVE  /\ Delivered(max, Rest) \in Nat /\ Delivered(max, Rest) <= max
           /\ decoder.kind = "file" =>
                  /\ decoder.next + Delivered(max, Rest) <= input.frames
                  /\ Finished(max) => decoder.next + Delivered(max, Rest) = input.frames
           /\ decoder.kind = "memory" =>
                  decoder.next + Delivered(max, Rest) <= asset.from + asset.frames
<1>1. /\ decoder.kind \in {"file", "memory"} /\ decoder.next \in Nat
      /\ asset.from \in Nat /\ asset.frames \in Nat /\ input.frames \in Nat
  BY InputFields DEF DecoderPosition, RangeTypeOK, PlayTypeOK
<1>2. CASE decoder.kind = "file"
  BY <1>1, <1>2 DEF Rest, Delivered, Finished, FileFinished, Smaller, DecoderPosition
<1>3. CASE decoder.kind = "memory"
  BY <1>1, <1>3 DEF Rest, Delivered, Finished, Smaller, DecoderPosition
<1> QED BY <1>1, <1>2, <1>3

\* One entry of the queue replaced.
LEMMA ReplacedEntry ==
    ASSUME NEW s \in Seq(EntryType), NEW k \in 1..Len(s), NEW e \in EntryType
    PROVE  /\ [s EXCEPT ![k] = e] \in Seq(EntryType)
           /\ Len([s EXCEPT ![k] = e]) = Len(s)
           /\ \A i \in 1..Len(s) : [s EXCEPT ![k] = e][i] = IF i = k THEN e ELSE s[i]
BY ExceptSeq

\* The queue after a read without frames that meets the end.
MarkedQueue == [queue EXCEPT ![Len(queue)].end = TRUE]

\* The last buffer's mark is all that such a read changes.
LEMMA MarkedQueueIs ==
    ASSUME queue \in Seq(EntryType), queue # <<>>
    PROVE  /\ MarkedQueue \in Seq(EntryType) /\ Len(MarkedQueue) = Len(queue)
           /\ Len(queue) \in Nat \ {0}
           /\ \A i \in 1..Len(queue) :
                  /\ MarkedQueue[i].from = queue[i].from
                  /\ i # Len(queue) => MarkedQueue[i] = queue[i]
           /\ MarkedQueue[Len(queue)].end = TRUE
<1> DEFINE entry == [queue[Len(queue)] EXCEPT !.end = TRUE]
<1>1. Len(queue) \in 1..Len(queue) /\ Len(queue) \in Nat \ {0}
      /\ queue[Len(queue)] \in EntryType
  OBVIOUS
<1>2. entry \in EntryType /\ entry.end = TRUE /\ entry.from = queue[Len(queue)].from
  BY <1>1 DEF EntryType
<1>3. PICK last \in 1..Len(queue) : last = Len(queue)
  BY <1>1
<1>4. MarkedQueue = [queue EXCEPT ![last] = entry]
  BY <1>3 DEF MarkedQueue
<1> HIDE DEF entry
<1>5. /\ MarkedQueue \in Seq(EntryType) /\ Len(MarkedQueue) = Len(queue)
      /\ \A i \in 1..Len(queue) : MarkedQueue[i] = IF i = last THEN entry ELSE queue[i]
  BY <1>2, <1>4, ReplacedEntry
<1> QED BY <1>1, <1>2, <1>3, <1>5

\* One play less of the voice's first buffer.
LEMMA RepeatedQueue ==
    ASSUME queue \in Seq(EntryType), queue # <<>>, queue[1].times >= 0,
           NEW once, once = [queue EXCEPT ![1].times = @ - 1]
    PROVE  /\ once \in Seq(EntryType) /\ Len(once) = Len(queue)
           /\ Len(queue) \in Nat \ {0}
           /\ \A i \in 1..Len(queue) :
                  once[i].from = queue[i].from /\ once[i].end = queue[i].end
<1> DEFINE entry == [queue[1] EXCEPT !.times = @ - 1]
<1>1. 1 \in 1..Len(queue) /\ Len(queue) \in Nat \ {0} /\ queue[1] \in EntryType
  OBVIOUS
<1>2. queue[1].times - 1 \in Nat \cup {-1}
  BY <1>1 DEF EntryType
<1>3. entry \in EntryType /\ entry.end = queue[1].end /\ entry.from = queue[1].from
  BY <1>1, <1>2 DEF EntryType
<1>4. once = [queue EXCEPT ![1] = entry]
  OBVIOUS
<1> HIDE DEF entry
<1>5. /\ once \in Seq(EntryType) /\ Len(once) = Len(queue)
      /\ \A i \in 1..Len(queue) : once[i] = IF i = 1 THEN entry ELSE queue[i]
  BY <1>1, <1>3, <1>4, ReplacedEntry
<1> QED BY <1>1, <1>3, <1>5

--------------------------------------------------------------------------------
(***************************************************************************)
(* The fade-out.                                                           *)
(***************************************************************************)

\* The voice never has less than the fade-out's gain, and all of it without one.
FadeInv ==
    /\ fade.elapsed <= fade.time
    /\ ~Stopping => fade = NoFade /\ level = FullGain
    /\ Gain(fade) <= level

\* The quotients of a falling dividend fall.
LEMMA DivideMonotone ==
    ASSUME NEW a \in Nat, NEW b \in Nat, NEW t \in Nat \ {0}, a <= b
    PROVE  a \div t \in Nat /\ a \div t <= b \div t
OBVIOUS

\* A part of a gain is no more than the gain.
LEMMA PartOfGain ==
    ASSUME NEW g \in Nat, NEW t \in Nat \ {0}, NEW e \in 0..t
    PROVE  /\ g * (t - e) \in Nat
           /\ (g * (t - e)) \div t \in Nat
           /\ (g * (t - e)) \div t <= g
OBVIOUS

\* A playback without a fade-out.
LEMMA NoFadeIs == NoFade.gain = FullGain /\ NoFade.elapsed = 0 /\ NoFade.time = 0
BY DEF NoFade

\* Time does not raise the gain of a fade-out.
LEMMA GainFalls ==
    ASSUME NEW f \in [gain: Nat, elapsed: Nat, time: Nat], f.elapsed <= f.time
    PROVE  /\ Gain(f) \in Nat
           /\ \A g \in [gain: Nat, elapsed: Nat, time: Nat] :
                  /\ g.gain = f.gain /\ g.time = f.time
                  /\ g.elapsed = f.elapsed + 1 /\ g.elapsed <= f.time
                  => Gain(g) <= Gain(f)
<1>1. Gain(f) \in Nat
  BY PartOfGain DEF Gain
<1>2. ASSUME NEW g \in [gain: Nat, elapsed: Nat, time: Nat],
             g.gain = f.gain, g.time = f.time,
             g.elapsed = f.elapsed + 1, g.elapsed <= f.time
      PROVE  Gain(g) <= Gain(f)
  <2>0. f.time \in Nat \ {0} /\ f.elapsed \in 0..f.time /\ g.elapsed \in 0..f.time
        /\ f.gain \in Nat /\ f.elapsed < f.time
    BY <1>2
  <2>1. CASE g.elapsed >= f.time
    BY <1>1, <1>2, <2>0, <2>1 DEF Gain
  <2>2. CASE g.elapsed < f.time
    <3>1. Gain(g) = (f.gain * (f.time - g.elapsed)) \div f.time
      BY <1>2, <2>0, <2>2 DEF Gain
    <3>2. CASE f.elapsed = 0
      BY <2>0, <3>1, <3>2, PartOfGain DEF Gain
    <3>3. CASE f.elapsed # 0
      <4>1. Gain(f) = (f.gain * (f.time - f.elapsed)) \div f.time
        BY <2>0, <3>3 DEF Gain
      <4>2. /\ f.gain * (f.time - g.elapsed) \in Nat
            /\ f.gain * (f.time - f.elapsed) \in Nat
            /\ f.gain * (f.time - g.elapsed) <= f.gain * (f.time - f.elapsed)
        <5>1. f.time - f.elapsed = (f.time - g.elapsed) + 1 /\ f.time - g.elapsed \in Nat
          BY <1>2, <2>0
        <5>2. f.gain * ((f.time - g.elapsed) + 1) = f.gain * (f.time - g.elapsed) + f.gain
          BY <2>0, <5>1
        <5>3. f.gain * (f.time - g.elapsed) \in Nat
          BY <2>0, PartOfGain
        <5> QED BY <2>0, <5>1, <5>2, <5>3
      <4> QED BY <2>0, <3>1, <4>1, <4>2, DivideMonotone
    <3> QED BY <3>2, <3>3
  <2> QED BY <1>2, <2>0, <2>1, <2>2
<1> QED BY <1>1, <1>2

\* No step of the playback raises the gain of a fading sound, or lets a stop
\* that is asked for again begin above the gain that the voice has.
LEMMA PlayKeepsFade ==
    ASSUME PlayTypeOK, FadeInv, PlayNext
    PROVE  FadeInv' /\ (Stopping => level' <= level)
<1>0. /\ fade.elapsed <= fade.time /\ fade.gain \in Nat /\ fade.elapsed \in Nat
      /\ fade.time \in Nat /\ level \in Nat /\ FullGain \in Nat
      /\ fade \in [gain: Nat, elapsed: Nat, time: Nat]
  BY PlaybackAssumption DEF PlayTypeOK, FadeInv
<1>1. Gain(fade) \in Nat
  BY <1>0, GainFalls
<1>2. CASE fade' = fade /\ level' \in {level, Gain(fade)}
  <2>1. ~Stopping => Gain(fade) = FullGain
    BY NoFadeIs DEF FadeInv, Gain
  <2> QED BY <1>0, <1>1, <1>2, <2>1 DEF FadeInv, Stopping, Gain
<1>3. CASE \E time \in FadeTimes : StartFadeOut(time)
  <2>1. PICK time \in FadeTimes : StartFadeOut(time)
    BY <1>3
  <2>2. /\ fade'.gain = Gain(fade) /\ fade'.elapsed = 0 /\ fade'.time = time
        /\ time \in Nat \ {0} /\ level' = level
    BY <2>1, PlaybackAssumption DEF StartFadeOut
  <2> QED BY <1>0, <1>1, <2>2 DEF FadeInv, Stopping, Gain
<1>4. CASE Clock
  <2>1. /\ fade'.gain = fade.gain /\ fade'.elapsed = fade.elapsed + 1
        /\ fade'.time = fade.time /\ level' = level /\ fade.elapsed < fade.time
        /\ fade' \in [gain: Nat, elapsed: Nat, time: Nat]
    BY <1>0, <1>4 DEF Clock
  <2>2. Gain(fade') <= Gain(fade) /\ Gain(fade') \in Nat
    BY <1>0, <2>1, GainFalls
  <2>3. (Gain(fade))' = Gain(fade')
    BY DEF Gain
  <2> QED BY <1>0, <1>1, <2>1, <2>2, <2>3 DEF FadeInv, Stopping
<1>5. CASE WorkerStep \/ Fails \/ Stop \/ SetPosition \/ VoicePlays
  <2>1. fade' = fade /\ level' \in {level, Gain(fade)}
    BY <1>5 DEF WorkerStep, PlayCached, PlayStreamed, Seek, Sought, Restart, FillCached,
       Fill, Filled, Tick, UpdateFadeOut, Reclaim, Refill, DestroyVoice, FreeAll, Fails,
       Stop, SetPosition, VoicePlays, fading
  <2> QED BY <1>2, <2>1
<1> QED BY <1>3, <1>4, <1>5 DEF PlayNext

--------------------------------------------------------------------------------
(***************************************************************************)
(* Types.                                                                  *)
(***************************************************************************)

DecoderType == [kind: {"none", "file", "memory"}, next: Nat]
StretchType == [from: Nat, frames: Nat]
FadeType == [gain: Nat, elapsed: Nat, time: Nat]

\* No decoder is a decoder of no kind.
LEMMA NoDecoderIs == NoDecoder \in DecoderType /\ NoDecoder.kind = "none"
BY DEF NoDecoder, DecoderType

\* A new decoder stands where it is opened.
LEMMA NewDecoderIs ==
    ASSUME NEW n \in Nat, NEW kind \in {"file", "memory"}
    PROVE  /\ [kind |-> kind, next |-> n] \in DecoderType
           /\ [kind |-> kind, next |-> n].kind = kind
           /\ [kind |-> kind, next |-> n].next = n
BY DEF DecoderType

\* A read moves a decoder by what it delivers.
LEMMA MovedDecoderIs ==
    ASSUME NEW d \in DecoderType, NEW n \in Nat
    PROVE  /\ [d EXCEPT !.next = @ + n] \in DecoderType
           /\ [d EXCEPT !.next = @ + n].kind = d.kind
           /\ [d EXCEPT !.next = @ + n].next = d.next + n
BY DEF DecoderType

\* A stretch of frames is what it is made of.
LEMMA StretchIs ==
    ASSUME NEW from \in Nat, NEW frames \in Nat
    PROVE  /\ Stretch(from, frames) \in StretchType
           /\ Stretch(from, frames).from = from
           /\ Stretch(from, frames).frames = frames
BY DEF Stretch, StretchType

\* No frames are a stretch, too.
LEMMA NoFramesIs == NoFrames \in StretchType /\ NoFrames.from = 0 /\ NoFrames.frames = 0
BY StretchIs DEF NoFrames

\* A capture that goes on has the same beginning.
LEMMA LongerStretchIs ==
    ASSUME NEW s \in StretchType, NEW n \in Nat
    PROVE  /\ [s EXCEPT !.frames = n] \in StretchType
           /\ [s EXCEPT !.frames = n].from = s.from
           /\ [s EXCEPT !.frames = n].frames = n
BY DEF StretchType

\* A submission is an entry of the queue.
LEMMA EntryIs ==
    ASSUME NEW from \in Nat, NEW frames \in Nat, NEW times \in Nat \cup {-1},
           NEW end \in BOOLEAN
    PROVE  /\ Entry(from, frames, times, end) \in EntryType
           /\ Entry(from, frames, times, end).from = from
BY DEF Entry, EntryType

\* What the buffers are that the voice still has.
LEMMA StillQueuedIs ==
    ASSUME buffers \in Seq(Nat), queue \in Seq(EntryType), Len(queue) <= Len(buffers)
    PROVE  /\ StillQueued \in Seq(Nat) /\ Len(StillQueued) = Len(queue)
           /\ \A i \in 1..Len(queue) :
                  StillQueued[i] = buffers[Len(buffers) - Len(queue) + i]
<1> DEFINE m == Len(buffers) - Len(queue) + 1
           n == Len(buffers)
<1>1. m \in Int /\ n \in Int /\ Len(queue) \in Nat /\ n - m + 1 = Len(queue)
      /\ m \in 1..n + 1
  OBVIOUS
<1>2. \A i \in m..n : buffers[i] \in Nat
  BY <1>1
<1>3. StillQueued = SubSeq(buffers, m, n)
  BY DEF StillQueued
<1>4. \A i \in 1..Len(queue) : m + i - 1 = Len(buffers) - Len(queue) + i
  BY <1>1
<1> HIDE DEF m, n
<1>5. /\ SubSeq(buffers, m, n) \in Seq(Nat)
      /\ Len(SubSeq(buffers, m, n)) = IF m <= n THEN n - m + 1 ELSE 0
      /\ \A i \in 1..n - m + 1 : SubSeq(buffers, m, n)[i] = buffers[m + i - 1]
  BY <1>1, <1>2, SubSeqProperties
<1>6. Len(StillQueued) = Len(queue)
  BY <1>1, <1>3, <1>5
<1>7. ASSUME NEW i \in 1..Len(queue)
      PROVE  StillQueued[i] = buffers[Len(buffers) - Len(queue) + i]
  <2>1. i \in 1..n - m + 1  BY <1>1
  <2>2. StillQueued[i] = buffers[m + i - 1]  BY <1>3, <1>5, <2>1
  <2> QED BY <1>4, <2>2
<1> QED BY <1>3, <1>5, <1>6, <1>7

\* A read of a playback's decoder, as Fill uses it.
LEMMA FillReads ==
    ASSUME RangeTypeOK, PlayTypeOK, DecoderPosition, Filling
    PROVE  /\ ToRead \in Nat /\ (remaining >= 0 => ToRead <= remaining)
           /\ Delivered(ToRead, Rest) \in Nat /\ Delivered(ToRead, Rest) <= ToRead
<1>1. ToRead \in Nat /\ (remaining >= 0 => ToRead <= remaining)
  BY BufferAssumption DEF ToRead, Smaller, PlayTypeOK
<1> QED BY <1>1, PlaybackReads DEF Filling, Working

\* ... and as Seek does.
LEMMA SeekReads ==
    ASSUME RangeTypeOK, PlayTypeOK, DecoderPosition, VoiceInv, at \in {"begin", "seek"}
    PROVE  LET max == Smaller(discard, BufferFrames)
           IN  /\ max \in Nat /\ max <= discard
               /\ Delivered(max, Rest) \in Nat /\ Delivered(max, Rest) <= max
               /\ decoder.next + Delivered(max, Rest) <= input.frames
<1> DEFINE max == Smaller(discard, BufferFrames)
<1>1. max \in Nat /\ max <= discard
  BY BufferAssumption DEF Smaller, PlayTypeOK
<1>2. ~leased
  BY DEF VoiceInv
<1>3. Working /\ decoder.kind = "file"
  BY DEF Working, DecoderPosition
<1> QED BY <1>1, <1>2, <1>3, PlaybackReads

\* PlayTypeOK in groups: a step changes few of them.
ControlTypes ==
    /\ at \in {"open", "begin", "seek", "fill", "restart", "idle", "update",
               "reclaim", "closing", "freeing", "closed"}
    /\ creating \in BOOLEAN /\ leased \in BOOLEAN
    /\ outcome \in {"none", "refused", "error", "finished", "stopped"}
    /\ target \in 1..Targets
SourceTypes ==
    /\ decoder \in DecoderType
    /\ discard \in Nat
    /\ remaining \in Nat \cup {-1}
    /\ loops \in Nat \cup {-1}
BufferTypes ==
    /\ buffers \in Seq(Nat) /\ eof \in BOOLEAN
    /\ plays \in Nat
    /\ queue \in Seq(EntryType)
HeardTypes == heard \in Nat \cup {-1} /\ left \in Nat \cup {-1}
FadingTypes == fade \in FadeType /\ level \in 0..FullGain /\ stops \in 0..MaxStops
CacheTypes == RangeTypeOK /\ capture \in StretchType

\* The groups make up the types,
LEMMA TypeGroups ==
    RangeTypeOK /\ PlayTypeOK <=>
        (ControlTypes /\ SourceTypes /\ BufferTypes /\ HeardTypes /\ FadingTypes
         /\ CacheTypes)
BY DEF PlayTypeOK, ControlTypes, SourceTypes, BufferTypes, HeardTypes, FadingTypes,
       CacheTypes, DecoderType, FadeType, StretchType

\* after a step, too.
LEMMA TypeGroupsNext ==
    ASSUME ControlTypes', SourceTypes', BufferTypes', HeardTypes', FadingTypes', CacheTypes'
    PROVE  RangeTypeOK' /\ PlayTypeOK'
BY DEF PlayTypeOK, ControlTypes, SourceTypes, BufferTypes, HeardTypes, FadingTypes,
       CacheTypes, DecoderType, FadeType, StretchType

\* The types of what a playback reads from are kept.
LEMMA PlayKeepsSourceTypes ==
    ASSUME RangeTypeOK, PlayTypeOK, DecoderPosition, VoiceInv, PlayNext
    PROVE  SourceTypes'
<1>0. /\ SourceTypes /\ input.pos \in Nat /\ input.duration \in Nat \cup {-1}
      /\ asset.from \in Nat
  BY TypeGroups, InputFields DEF RangeTypeOK
<1>1. CASE OpenFile /\ loops' \in {loops, LoopsAfter}
  <2>1. decoder' \in DecoderType  BY <1>1, NewDecoderIs DEF OpenFile
  <2> QED BY <1>0, <1>1, <2>1 DEF OpenFile, LoopsAfter, SourceTypes
<1>2. CASE UNCHANGED source
  BY <1>0, <1>2 DEF SourceTypes, source
<1>3. CASE PlayStreamed
  BY <1>1, <1>2, <1>3 DEF PlayStreamed
<1>4. CASE Seek
  <2> DEFINE n == Delivered(Smaller(discard, BufferFrames), Rest)
  <2>1. n \in Nat /\ n <= discard
    BY <1>0, <1>4, SeekReads DEF Seek, SourceTypes
  <2>2. /\ decoder' = [decoder EXCEPT !.next = @ + n] /\ discard' = discard - n
        /\ UNCHANGED <<remaining, loops>>
    BY <1>4 DEF Seek
  <2> HIDE DEF n
  <2>3. decoder' \in DecoderType  BY <1>0, <2>1, <2>2, MovedDecoderIs DEF SourceTypes
  <2> QED BY <1>0, <2>1, <2>2, <2>3 DEF SourceTypes
<1>5. CASE Restart
  <2>1. CASE Cached /\ ~input.filtered
    <3>1. decoder' \in DecoderType  BY <1>0, <1>5, <2>1, NewDecoderIs DEF Restart
    <3>2. /\ remaining' = input.duration /\ discard' = discard /\ loops' = LoopsAfter
      BY <1>5, <2>1 DEF Restart
    <3> QED BY <1>0, <3>1, <3>2 DEF LoopsAfter, SourceTypes
  <2> QED BY <1>1, <1>5, <2>1 DEF Restart
<1>6. CASE Fill
  <2> DEFINE n == Delivered(ToRead, Rest)
  <2>1. n \in Nat /\ (remaining >= 0 => n <= remaining)
    BY <1>0, <1>6, FillReads DEF Fill, SourceTypes
  <2>2. /\ decoder' = [decoder EXCEPT !.next = @ + n]
        /\ remaining' = IF remaining >= 0 THEN remaining - n ELSE remaining
        /\ UNCHANGED <<discard, loops>>
    BY <1>6 DEF Fill
  <2> HIDE DEF n
  <2>3. decoder' \in DecoderType  BY <1>0, <2>1, <2>2, MovedDecoderIs DEF SourceTypes
  <2> QED BY <1>0, <2>1, <2>2, <2>3 DEF SourceTypes
<1>7. CASE FreeAll
  BY <1>0, <1>7, NoDecoderIs DEF FreeAll, SourceTypes
<1>8. CASE \/ PlayCached \/ Sought \/ FillCached \/ Filled \/ Tick \/ UpdateFadeOut
           \/ Reclaim \/ Refill \/ DestroyVoice \/ Fails \/ Stop \/ SetPosition
           \/ Clock \/ VoicePlays \/ \E time \in FadeTimes : StartFadeOut(time)
  <2>1. UNCHANGED source
    BY <1>8 DEF PlayCached, Sought, FillCached, Filled, Tick, UpdateFadeOut, Reclaim,
       Refill, DestroyVoice, Fails, Stop, SetPosition, Clock, VoicePlays, StartFadeOut
  <2> QED BY <1>2, <2>1
<1> QED BY <1>3, <1>4, <1>5, <1>6, <1>7, <1>8 DEF PlayNext, WorkerStep

\* The types of its control state are kept.
LEMMA PlayKeepsControlTypes ==
    ASSUME RangeTypeOK, PlayTypeOK, PlayNext
    PROVE  ControlTypes'
<1>0. ControlTypes /\ 1 \in 1..Targets /\ Targets \in 1..Targets
      /\ (target < Targets => target + 1 \in 1..Targets)
  BY TypeGroups, PlaybackAssumption DEF ControlTypes
<1>1. /\ at' \in {"open", "begin", "seek", "fill", "restart", "idle", "update",
                  "reclaim", "closing", "freeing", "closed"}
      /\ outcome' \in {"none", "refused", "error", "finished", "stopped"}
  BY <1>0 DEF ControlTypes, PlayNext, WorkerStep, PlayCached, PlayStreamed, Seek, Sought,
     Restart, FillCached, Fill, Filled, Tick, UpdateFadeOut, Reclaim, Refill,
     DestroyVoice, FreeAll, Fails, Stop, StartFadeOut, SetPosition, Clock, VoicePlays, End
<1>2. target' \in 1..Targets
  BY <1>0 DEF ControlTypes, PlayNext, WorkerStep, PlayCached, PlayStreamed, Seek, Sought,
     Restart, FillCached, Fill, Filled, Tick, UpdateFadeOut, Reclaim, Refill,
     DestroyVoice, FreeAll, Fails, Stop, StartFadeOut, SetPosition, Clock, VoicePlays, End
<1>3. creating' \in {creating, FALSE} /\ leased' \in {leased, TRUE, FALSE}
  BY <1>0 DEF ControlTypes, PlayNext, WorkerStep, PlayCached, PlayStreamed, Seek, Sought,
     Restart, FillCached, Fill, Filled, Tick, UpdateFadeOut, Reclaim, Refill,
     DestroyVoice, FreeAll, Fails, Stop, StartFadeOut, SetPosition, Clock, VoicePlays, End
<1>4. creating' \in BOOLEAN /\ leased' \in BOOLEAN
  BY <1>0, <1>3 DEF ControlTypes
<1> QED BY <1>1, <1>2, <1>4 DEF ControlTypes

\* The types of what it has submitted are kept.
LEMMA PlayKeepsBufferTypes ==
    ASSUME RangeTypeOK, PlayTypeOK, DecoderPosition, VoiceInv, PlayNext
    PROVE  BufferTypes'
<1>0. /\ BufferTypes /\ input \in Inputs /\ asset.from \in Nat /\ asset.frames \in Nat
      /\ loops \in Nat \cup {-1} /\ decoder.next \in Nat
  BY TypeGroups DEF RangeTypeOK, SourceTypes, DecoderType
<1>1. CASE PlayCached
  <2> DEFINE endless == Entry(asset.from, asset.frames, -1, FALSE)
  <2>1. endless \in EntryType
    BY <1>0, EntryIs
  <2>2. CASE loops < 0
    <3>1. queue' = <<endless>> /\ UNCHANGED <<plays, buffers, eof>>
      BY <1>1, <2>2 DEF PlayCached
    <3> HIDE DEF endless
    <3>2. <<endless>> \in Seq(EntryType)
      BY <2>1
    <3> QED BY <1>0, <3>1, <3>2 DEF BufferTypes
  <2>3. CASE ~(loops < 0)
    <3>1. plays' = loops + 1 /\ UNCHANGED <<queue, buffers, eof>>
      BY <1>1, <2>3 DEF PlayCached
    <3>2. plays' \in Nat
      BY <1>0, <2>3, <3>1
    <3> QED BY <1>0, <3>1, <3>2 DEF BufferTypes
  <2> QED BY <2>2, <2>3
<1>2. CASE FillCached
  <2> DEFINE n == Smaller(plays, MaxRepeats)
  <2>1. n \in Nat /\ plays - n \in Nat
    BY <1>0, PlaybackAssumption DEF Smaller, BufferTypes
  <2>2. queue' = Append(queue, Chunk(n)) /\ plays' = plays - n /\ UNCHANGED <<buffers, eof>>
    BY <1>2 DEF FillCached
  <2> HIDE DEF n
  <2>3. Chunk(n) \in EntryType
    BY <1>0, <2>1, EntryIs DEF Chunk
  <2>4. queue' \in Seq(EntryType)
    BY <1>0, <2>2, <2>3, AppendProperties DEF BufferTypes
  <2> QED BY <1>0, <2>1, <2>2, <2>4 DEF BufferTypes
<1>3. CASE Fill
  <2> DEFINE n == Delivered(ToRead, Rest)
             over == Finished(ToRead) \/ (remaining >= 0 /\ remaining = n)
  <2>1. n \in Nat
    BY <1>3, FillReads DEF Fill
  <2>2. /\ IF n > 0 THEN SubmitFrames(n, over) ELSE SubmitNothing(over)
        /\ eof' = (over /\ loops = 0)
        /\ UNCHANGED plays
    BY <1>3 DEF Fill
  <2>o. (over /\ loops = 0) \in BOOLEAN
    OBVIOUS
  <2> HIDE DEF n, over
  <2>3. queue' \in Seq(EntryType) /\ buffers' \in Seq(Nat)
    <3>1. CASE n > 0
      <4>1. Entry(decoder.next, n, 1, over /\ loops = 0) \in EntryType
        BY <1>0, <2>1, <2>o, EntryIs
      <4>2. queue' = Append(queue, Entry(decoder.next, n, 1, over /\ loops = 0))
            /\ buffers' = Append(buffers, decoder.next)
        BY <2>2, <3>1 DEF SubmitFrames
      <4> QED BY <1>0, <4>1, <4>2, AppendProperties DEF BufferTypes
    <3>2. CASE ~(n > 0)
      <4>1. /\ queue' = queue \/ (queue # <<>> /\ queue' = MarkedQueue)
            /\ buffers' = buffers
        BY <2>2, <3>2 DEF SubmitNothing, MarkedQueue
      <4> QED BY <1>0, <4>1, MarkedQueueIs DEF BufferTypes
    <3> QED BY <3>1, <3>2
  <2>4. eof' \in BOOLEAN
    BY <2>2, <2>o
  <2>5. plays' \in Nat
    BY <1>0, <2>2 DEF BufferTypes
  <2> QED BY <2>3, <2>4, <2>5 DEF BufferTypes
<1>4. CASE Reclaim
  <2>1. buffers' \in Seq(Nat)
    BY <1>0, <1>4, StillQueuedIs DEF Reclaim, VoiceInv, BuffersOutliveVoice, BufferTypes
  <2>2. eof' \in {eof, queue = <<>> /\ plays = 0} /\ UNCHANGED <<plays, queue>>
    BY <1>4 DEF Reclaim, voice
  <2>3. eof' \in BOOLEAN
    BY <1>0, <2>2 DEF BufferTypes
  <2> QED BY <1>0, <2>1, <2>2, <2>3 DEF BufferTypes
<1>5. CASE VoicePlays
  <2>1. queue # <<>> /\ UNCHANGED <<plays, buffers, eof>>
    BY <1>5 DEF VoicePlays
  <2>2. queue[1] \in EntryType /\ Tail(queue) \in Seq(EntryType)
    BY <1>0, <2>1, HeadTailProperties DEF BufferTypes
  <2>3. \/ queue' = Tail(queue) \/ queue' = queue
        \/ queue[1].times >= 0 /\ queue' = [queue EXCEPT ![1].times = @ - 1]
    BY <1>5, <2>2 DEF VoicePlays, EntryType
  <2>4. queue' \in Seq(EntryType)
    BY <1>0, <2>1, <2>2, <2>3, RepeatedQueue DEF BufferTypes
  <2> QED BY <1>0, <2>1, <2>4 DEF BufferTypes
<1>6. CASE DestroyVoice \/ FreeAll
  <2>1. /\ queue' = queue \/ queue' = <<>>
        /\ buffers' = buffers \/ buffers' = <<>>
        /\ UNCHANGED <<plays, eof>>
    BY <1>6 DEF DestroyVoice, FreeAll, voice
  <2>2. <<>> \in Seq(EntryType) /\ <<>> \in Seq(Nat)
    BY EmptySeq
  <2>3. queue' \in Seq(EntryType) /\ buffers' \in Seq(Nat)
    BY <1>0, <2>1, <2>2 DEF BufferTypes
  <2> QED BY <1>0, <2>1, <2>3 DEF BufferTypes
<1>7. CASE \/ PlayStreamed \/ Seek \/ Sought \/ Restart \/ Filled \/ Tick \/ UpdateFadeOut
           \/ Refill \/ Fails \/ Stop \/ SetPosition \/ Clock
           \/ \E time \in FadeTimes : StartFadeOut(time)
  <2>1. UNCHANGED <<buffers, eof, plays, queue>>
    BY <1>7 DEF PlayStreamed, Seek, Sought, Restart, Filled, Tick, UpdateFadeOut,
       Refill, Fails, Stop, SetPosition, Clock, StartFadeOut, voice
  <2> QED BY <1>0, <2>1 DEF BufferTypes
<1> QED BY <1>1, <1>2, <1>3, <1>4, <1>5, <1>6, <1>7 DEF PlayNext, WorkerStep

\* The types of what has been heard are kept.
LEMMA PlayKeepsHeardTypes ==
    ASSUME RangeTypeOK, PlayTypeOK, PlayNext
    PROVE  HeardTypes'
<1>0. HeardTypes /\ queue \in Seq(EntryType)
  BY TypeGroups DEF BufferTypes
<1>1. CASE VoicePlays
  <2>1. queue[1] \in EntryType
    BY <1>0, <1>1 DEF VoicePlays
  <2>2. queue[1].frames \in Nat
    BY <2>1 DEF EntryType
  <2>3. Listen(queue[1].from, queue[1].frames)
    BY <1>1 DEF VoicePlays
  <2> QED BY <1>0, <2>2, <2>3 DEF Listen, HeardTypes
<1>2. CASE ~VoicePlays
  <2>1. UNCHANGED <<heard, left>>
    BY <1>2 DEF PlayNext, WorkerStep, PlayCached, PlayStreamed, Seek, Sought,
       Restart, FillCached, Fill, Filled, Tick, UpdateFadeOut, Reclaim, Refill,
       DestroyVoice, FreeAll, Fails, Stop, StartFadeOut, SetPosition, Clock, voice
  <2> QED BY <1>0, <2>1 DEF HeardTypes
<1> QED BY <1>1, <1>2

\* The types of the fade-out are kept.
LEMMA PlayKeepsFadingTypes ==
    ASSUME RangeTypeOK, PlayTypeOK, FadeInv, PlayNext
    PROVE  FadingTypes'
<1>0. FadingTypes /\ Gain(fade) \in 0..FullGain /\ FullGain \in Nat /\ MaxStops \in Nat
  <2>1. FadingTypes /\ FullGain \in Nat /\ MaxStops \in Nat
    BY TypeGroups, PlaybackAssumption
  <2>2. Gain(fade) \in Nat
    BY <2>1, GainFalls DEF FadingTypes, FadeType, FadeInv
  <2> QED BY <2>1, <2>2 DEF FadingTypes, FadeInv
<1>1. CASE \E time \in FadeTimes : StartFadeOut(time)
  <2>1. PICK time \in FadeTimes : StartFadeOut(time)
    BY <1>1
  <2>2. fade' \in FadeType
    BY <1>0, <2>1, PlaybackAssumption DEF StartFadeOut, FadeType
  <2>3. stops' \in 0..MaxStops /\ level' = level
    BY <1>0, <2>1 DEF StartFadeOut, FadingTypes
  <2> QED BY <1>0, <2>2, <2>3 DEF FadingTypes
<1>2. CASE Clock
  <2>1. fade' = [fade EXCEPT !.elapsed = @ + 1] /\ UNCHANGED <<level, stops>>
    BY <1>2 DEF Clock
  <2>2. fade' \in FadeType
    BY <1>0, <2>1 DEF FadingTypes, FadeType
  <2> QED BY <1>0, <2>1, <2>2 DEF FadingTypes
<1>3. CASE ~Clock /\ ~\E time \in FadeTimes : StartFadeOut(time)
  <2>1. fade' = fade /\ stops' = stops /\ level' \in {level, Gain(fade)}
    BY <1>3 DEF PlayNext, WorkerStep, PlayCached, PlayStreamed, Seek, Sought,
       Restart, FillCached, Fill, Filled, Tick, UpdateFadeOut, Reclaim, Refill,
       DestroyVoice, FreeAll, Fails, Stop, SetPosition, VoicePlays, fading
  <2> QED BY <1>0, <2>1 DEF FadingTypes
<1> QED BY <1>1, <1>2, <1>3

\* The types of the cache entry and of the capture are kept.
LEMMA PlayKeepsCacheTypes ==
    ASSUME RangeTypeOK, PlayTypeOK, DecoderPosition, PlayNext
    PROVE  CacheTypes'
<1>0. /\ CacheTypes /\ decoder.next \in Nat /\ asset \in StretchType
      /\ producer \in {"nobody", "capture", "build"} /\ tooLarge \in BOOLEAN
      /\ capture \in StretchType /\ capture.from \in Nat /\ capture.frames \in Nat
  BY TypeGroups DEF RangeTypeOK, CacheTypes, StretchType, SourceTypes, DecoderType
<1>i. input' = input
  BY DEF PlayNext, WorkerStep, PlayCached, PlayStreamed, Seek, Sought, Restart,
     FillCached, Fill, Filled, Tick, UpdateFadeOut, Reclaim, Refill, DestroyVoice,
     FreeAll, Fails, Stop, StartFadeOut, SetPosition, Clock, VoicePlays, rangeVars
<1>1. CASE Sought
  <2>1. capture' \in StretchType
    BY <1>0, <1>1, StretchIs DEF Sought, BeginCapture
  <2>2. producer' \in {producer, "capture"} /\ UNCHANGED <<input, asset, tooLarge>>
    BY <1>1 DEF Sought, BeginCapture
  <2> QED BY <1>0, <2>1, <2>2 DEF CacheTypes, RangeTypeOK
<1>2. CASE Fill
  <2> DEFINE n == Delivered(ToRead, Rest)
             over == Finished(ToRead) \/ (remaining >= 0 /\ remaining = n)
  <2>1. n \in Nat
    BY <1>2, FillReads DEF Fill
  <2>2. Captured(n, over)
    BY <1>2 DEF Fill
  <2> HIDE DEF n, over
  <2>3. capture.frames + n \in Nat
    BY <1>0, <2>1
  <2>4. /\ Stretch(capture.from, capture.frames + n) \in StretchType
        /\ [capture EXCEPT !.frames = capture.frames + n] \in StretchType
    BY <1>0, <2>3, StretchIs, LongerStretchIs
  <2>5. capture' \in StretchType /\ asset' \in StretchType
    BY <1>0, <2>2, <2>4, NoFramesIs DEF Captured, Commit
  <2>6. producer' \in {producer, "nobody"}
    BY <2>2 DEF Captured, Commit
  <2>7. tooLarge' \in BOOLEAN
    BY <1>0, <2>2 DEF Captured, Commit
  <2> QED BY <1>0, <1>i, <2>5, <2>6, <2>7 DEF CacheTypes, RangeTypeOK, StretchType
<1>3. CASE DestroyVoice
  <2>1. capture' = NoFrames /\ producer' \in {producer, "nobody"}
        /\ UNCHANGED <<input, asset, tooLarge>>
    BY <1>3 DEF DestroyVoice
  <2> QED BY <1>0, <2>1, NoFramesIs DEF CacheTypes, RangeTypeOK
<1>4. CASE ~Sought /\ ~Fill /\ ~DestroyVoice
  <2>1. UNCHANGED <<input, asset, producer, tooLarge, capture>>
    BY <1>4 DEF PlayNext, WorkerStep, PlayCached, PlayStreamed, Seek, Restart,
       FillCached, Filled, Tick, UpdateFadeOut, Reclaim, Refill, FreeAll, Fails, Stop,
       StartFadeOut, SetPosition, Clock, VoicePlays, rangeVars
  <2> QED BY <1>0, <2>1 DEF CacheTypes, RangeTypeOK
<1> QED BY <1>1, <1>2, <1>3, <1>4

\* The types of the playback are kept.
LEMMA PlayKeepsTypes ==
    ASSUME RangeTypeOK, PlayTypeOK, DecoderPosition, VoiceInv, FadeInv, PlayNext
    PROVE  RangeTypeOK' /\ PlayTypeOK'
BY PlayKeepsControlTypes, PlayKeepsSourceTypes, PlayKeepsBufferTypes, PlayKeepsHeardTypes,
   PlayKeepsFadingTypes, PlayKeepsCacheTypes, TypeGroupsNext

--------------------------------------------------------------------------------
(***************************************************************************)
(* What a playback does to the cache's entry, and where its decoder is.    *)
(***************************************************************************)

PlayCacheInv ==
    /\ DecoderPosition
    /\ CapturePosition
    /\ OneProducer
    /\ TooLargeIsTooLarge
    /\ AssetIsRange

\* A read of a capture adds frames of the range, and the last one has the rest.
LEMMA CaptureReads ==
    ASSUME RangeTypeOK, PlayTypeOK, DecoderPosition, CapturePosition, Filling,
           producer = "capture",
           NEW n, n = Delivered(ToRead, Rest)
    PROVE  /\ n \in Nat /\ capture.frames + n \in Nat
           /\ capture.from = input.pos
           /\ capture.frames + n <= RangeLength
           /\ decoder.next + n <= input.frames
           /\ input.duration < 0 \/ capture.frames + n <= input.duration
           /\ Finished(ToRead) \/ (remaining >= 0 /\ remaining = n)
                  => capture.frames + n = RangeLength
<1>1. /\ input \in Inputs /\ input.frames \in Nat /\ input.pos \in Nat
      /\ input.duration \in Nat \cup {-1}
      /\ capture.frames \in Nat /\ decoder.next \in Nat
  BY TypeGroups, InputFields DEF RangeTypeOK, CacheTypes, StretchType, SourceTypes,
     DecoderType
<1>2. /\ ToRead \in Nat /\ (remaining >= 0 => ToRead <= remaining)
      /\ n \in Nat /\ n <= ToRead
  BY FillReads
<1>3. /\ decoder.kind = "file" /\ capture.from = input.pos
      /\ decoder.next = input.pos + capture.frames
      /\ remaining = IF input.duration < 0 THEN -1
                     ELSE input.duration - capture.frames
      /\ input.duration < 0 \/ capture.frames <= input.duration
  BY DEF CapturePosition
<1>4. /\ decoder.next + n <= input.frames
      /\ Finished(ToRead) => decoder.next + n = input.frames
  BY <1>2, <1>3, PlaybackReads DEF Filling, Working
<1>5. /\ capture.frames + n \in Nat
      /\ input.pos + (capture.frames + n) <= input.frames
      /\ input.duration < 0 \/ capture.frames + n <= input.duration
  BY <1>1, <1>2, <1>3, <1>4
<1>6. capture.frames + n <= RangeLength
  BY <1>1, <1>5, InRange
<1>7. ASSUME Finished(ToRead) \/ (remaining >= 0 /\ remaining = n)
      PROVE  capture.frames + n = RangeLength
  <2>1. input.pos + (capture.frames + n) = input.frames
        \/ capture.frames + n = input.duration
    BY <1>1, <1>2, <1>3, <1>4, <1>7
  <2> QED BY <1>1, <1>5, <2>1, WholeRange
<1> QED BY <1>2, <1>3, <1>4, <1>5, <1>6, <1>7

\* No step of the playback breaks these.
LEMMA PlayKeepsCacheInv ==
    ASSUME RangeTypeOK, PlayTypeOK, PlayCacheInv, VoiceInv, PlayNext, UNCHANGED buildVars
    PROVE  PlayCacheInv'
<1> USE DEF PlayCacheInv
<1>0. /\ input \in Inputs /\ input.frames \in Nat /\ input.pos \in Nat
      /\ input.duration \in Nat \cup {-1}
      /\ SourceTypes /\ decoder \in DecoderType /\ decoder.next \in Nat
      /\ asset.from \in Nat /\ asset.frames \in Nat
      /\ capture \in StretchType /\ capture.frames \in Nat
  BY TypeGroups, InputFields
     DEF RangeTypeOK, SourceTypes, DecoderType, CacheTypes, StretchType
<1>i. input' = input /\ RangeLength' = RangeLength /\ stage' = stage
  BY DEF PlayNext, WorkerStep, PlayCached, PlayStreamed, Seek, Sought, Restart,
     FillCached, Fill, Filled, Tick, UpdateFadeOut, Reclaim, Refill, DestroyVoice,
     FreeAll, Fails, Stop, StartFadeOut, SetPosition, Clock, VoicePlays, rangeVars,
     RangeLength, buildVars
<1>c. ASSUME UNCHANGED <<asset, producer, tooLarge>>
      PROVE  OneProducer' /\ TooLargeIsTooLarge' /\ AssetIsRange' /\ Cached' = Cached
  BY <1>c, <1>i DEF OneProducer, TooLargeIsTooLarge, AssetIsRange, Cached, Stretch
<1>1. CASE PlayCached
  <2>1. /\ at = "open" /\ at' = "fill" /\ leased'
        /\ UNCHANGED <<asset, producer, tooLarge, decoder, discard, remaining, capture>>
    BY <1>1 DEF PlayCached, rangeVars, source
  <2> QED BY <1>c, <1>i, <2>1 DEF DecoderPosition, CapturePosition, Working, Cached
<1>2. CASE PlayStreamed
  <2>1. /\ at = "open" /\ UNCHANGED <<asset, producer, tooLarge, capture, leased>>
    BY <1>2 DEF PlayStreamed, rangeVars
  <2>2. CASE input.duration = 0
    <3>1. at' = "closing" /\ UNCHANGED <<decoder, discard, remaining>>
      BY <1>2, <2>2 DEF PlayStreamed, source
    <3> QED BY <1>c, <1>i, <2>1, <3>1 DEF DecoderPosition, CapturePosition, Working, Cached
  <2>3. CASE input.duration # 0
    <3>1. /\ at' = "begin" /\ discard' = input.pos /\ remaining' = input.duration
          /\ decoder'.kind = "file" /\ decoder'.next = 0
      BY <1>2, <2>3, NewDecoderIs DEF PlayStreamed, OpenFile
    <3> QED BY <1>0, <1>c, <1>i, <2>1, <3>1 DEF DecoderPosition, CapturePosition, Working
  <2> QED BY <2>2, <2>3
<1>3. CASE Seek
  <2> DEFINE n == Delivered(Smaller(discard, BufferFrames), Rest)
  <2>1. /\ at \in {"begin", "seek"} /\ at' \in {at, "closing"}
        /\ decoder' = [decoder EXCEPT !.next = @ + n]
        /\ discard' = discard - n
        /\ UNCHANGED <<asset, producer, tooLarge, remaining, capture, leased>>
    BY <1>3 DEF Seek, End, rangeVars
  <2>2. n \in Nat /\ decoder.next + n <= input.frames /\ discard \in Nat
    BY <1>0, <2>1, SeekReads DEF SourceTypes
  <2> HIDE DEF n
  <2>3. /\ decoder'.kind = decoder.kind /\ decoder'.next = decoder.next + n
    BY <1>0, <2>1, <2>2, MovedDecoderIs
  <2> QED BY <1>0, <1>c, <1>i, <2>1, <2>2, <2>3 DEF DecoderPosition, CapturePosition, Working
<1>4. CASE Sought
  <2>1. /\ at \in {"begin", "seek"} /\ at' = "fill" /\ discard = 0
        /\ UNCHANGED <<asset, tooLarge, decoder, discard, remaining, leased>>
        /\ decoder.next = input.pos /\ ~leased /\ decoder.kind = "file"
        /\ remaining = input.duration
    BY <1>0, <1>4 DEF Sought, source, DecoderPosition, VoiceInv
  <2>2. DecoderPosition'
    BY <1>0, <1>i, <2>1 DEF DecoderPosition, Working, Cached
  <2>3. CASE UNCHANGED <<producer, capture>>
    BY <1>c, <1>i, <2>1, <2>2, <2>3 DEF CapturePosition
  <2>4. CASE BeginCapture
    <3>1. /\ ~Cached /\ ~tooLarge /\ producer = "nobody" /\ producer' = "capture"
          /\ capture'.from = input.pos /\ capture'.frames = 0
      BY <1>0, <2>1, <2>4, StretchIs DEF BeginCapture
    <3>2. CapturePosition'
      BY <1>0, <1>i, <2>1, <3>1 DEF CapturePosition
    <3> QED BY <1>i, <2>1, <2>2, <3>1, <3>2
            DEF OneProducer, TooLargeIsTooLarge, AssetIsRange, Cached, Stretch
  <2> QED BY <1>4, <2>3, <2>4 DEF Sought
<1>5. CASE Restart
  <2>1. /\ at = "restart" /\ UNCHANGED <<asset, producer, tooLarge, capture, leased>>
        /\ ~leased
    BY <1>5 DEF Restart, rangeVars, VoiceInv
  <2>2. CASE Cached /\ ~input.filtered
    <3>1. at' = "fill" /\ decoder'.kind = "memory" /\ decoder'.next = asset.from
      BY <1>0, <1>5, <2>2, NewDecoderIs DEF Restart
    <3> QED BY <1>0, <1>c, <1>i, <2>1, <2>2, <3>1
            DEF DecoderPosition, CapturePosition, Working, Cached
  <2>3. CASE ~(Cached /\ ~input.filtered)
    <3>1. /\ at' = "seek" /\ discard' = input.pos /\ remaining' = input.duration
          /\ decoder'.kind = "file" /\ decoder'.next = 0
      BY <1>5, <2>3, NewDecoderIs DEF Restart, OpenFile
    <3> QED BY <1>0, <1>c, <1>i, <2>1, <3>1 DEF DecoderPosition, CapturePosition, Working
  <2> QED BY <2>2, <2>3
<1>6. CASE Fill
  <2> DEFINE n == Delivered(ToRead, Rest)
             over == Finished(ToRead) \/ (remaining >= 0 /\ remaining = n)
  <2>1. /\ Filling /\ at = "fill" /\ ~leased /\ UNCHANGED <<leased, discard>>
        /\ decoder' = [decoder EXCEPT !.next = @ + n]
        /\ remaining' = IF remaining >= 0 THEN remaining - n ELSE remaining
        /\ Captured(n, over)
        /\ at' \in {"fill", "restart"} /\ (at' = "restart" => over)
    BY <1>6 DEF Fill, Filling
  <2>2. /\ n \in Nat
        /\ decoder.kind = "file" => decoder.next + n <= input.frames
        /\ decoder.kind = "memory" => decoder.next + n <= asset.from + asset.frames
        /\ decoder.kind # "none"
    BY <2>1, FillReads, PlaybackReads DEF Filling, Working, DecoderPosition
  <2>3. decoder'.kind = decoder.kind /\ decoder'.next = decoder.next + n
    BY <1>0, <2>1, <2>2, MovedDecoderIs
  <2>4. producer = "capture" =>
          /\ capture.frames + n \in Nat /\ capture.from = input.pos
          /\ capture.frames + n <= RangeLength
          /\ input.duration < 0 \/ capture.frames + n <= input.duration
          /\ over => capture.frames + n = RangeLength
    BY <2>1, CaptureReads
  <2> HIDE DEF n, over
  <2>5. CASE producer # "capture"
    <3>1. UNCHANGED <<asset, producer, tooLarge, capture>>
      BY <2>1, <2>5 DEF Captured
    <3>2. DecoderPosition'
      BY <1>i, <1>c, <2>1, <2>2, <2>3, <3>1 DEF DecoderPosition, Working
    <3> QED BY <1>c, <2>5, <3>1, <3>2 DEF CapturePosition
  <2>6. CASE producer = "capture"
    <3> DEFINE frames == capture.frames + n
    <3>0. decoder.kind = "file" /\ ~Cached /\ frames \in Nat /\ frames <= RangeLength
          /\ RangeLength \in Nat /\ MaxBytes \in Nat
      <4>1. RangeLength \in Nat
        BY <1>0 DEF RangeLength, Smaller
      <4> QED BY <2>4, <2>6, <4>1, BudgetAssumption DEF CapturePosition, OneProducer
    <3>1. CASE /\ tooLarge' = (tooLarge \/ frames * FrameBytes > MaxBytes)
               /\ producer' = "nobody" /\ UNCHANGED asset
      <4>1. frames * FrameBytes \in Nat /\ RangeLength * FrameBytes \in Nat
            /\ frames * FrameBytes <= RangeLength * FrameBytes
        BY <3>0, BytesMonotone
      <4>2. tooLarge' => RangeLength * FrameBytes > MaxBytes
        <5>1. tooLarge' => tooLarge \/ frames * FrameBytes > MaxBytes
          BY <3>1
        <5>2. frames * FrameBytes > MaxBytes => RangeLength * FrameBytes > MaxBytes
          BY <3>0, <4>1
        <5> QED BY <5>1, <5>2 DEF TooLargeIsTooLarge
      <4>3. DecoderPosition'
        BY <1>i, <2>1, <2>2, <2>3, <3>0, <3>1 DEF DecoderPosition, Working, Cached
      <4> QED BY <1>i, <2>6, <3>0, <3>1, <4>2, <4>3
              DEF CapturePosition, OneProducer, TooLargeIsTooLarge, AssetIsRange, Cached
    <3>2. CASE /\ over /\ frames > 0 /\ Commit(Stretch(capture.from, frames))
      <4>1. asset' = Stretch(input.pos, RangeLength) /\ producer' = "nobody"
            /\ tooLarge' = tooLarge
        BY <2>4, <2>6, <3>2 DEF Commit
      <4>2. DecoderPosition'
        BY <1>i, <2>1, <2>2, <2>3, <3>0, <4>1 DEF DecoderPosition, Working
      <4>3. AssetIsRange'
        BY <1>i, <4>1 DEF AssetIsRange, Stretch
      <4> QED BY <1>i, <2>6, <3>0, <4>1, <4>2, <4>3
              DEF CapturePosition, OneProducer, TooLargeIsTooLarge
    <3>3. CASE /\ ~over /\ capture' = [capture EXCEPT !.frames = frames]
               /\ UNCHANGED <<asset, producer, tooLarge>>
      <4>1. capture'.from = capture.from /\ capture'.frames = frames
        BY <1>0, <3>0, <3>3, LongerStretchIs
      <4>2. at' = "fill"
        BY <2>1, <3>3
      <4>3. DecoderPosition'
        BY <1>i, <1>c, <2>1, <2>2, <2>3, <3>0, <3>3, <4>2 DEF DecoderPosition, Working
      <4>4. CapturePosition'
        BY <1>0, <1>i, <2>1, <2>2, <2>3, <2>4, <2>6, <3>3, <4>1, <4>2 DEF CapturePosition
      <4> QED BY <1>c, <3>3, <4>3, <4>4
    <3> QED BY <2>1, <2>6, <3>1, <3>2, <3>3 DEF Captured
  <2> QED BY <2>5, <2>6
<1>7. CASE DestroyVoice
  <2>1. /\ at = "closing" /\ at' = "freeing"
        /\ producer' = IF producer = "capture" THEN "nobody" ELSE producer
        /\ UNCHANGED <<asset, tooLarge, decoder, leased>>
    BY <1>7 DEF DestroyVoice, source
  <2> QED BY <1>i, <2>1 DEF DecoderPosition, CapturePosition, Working, OneProducer,
          TooLargeIsTooLarge, AssetIsRange, Cached, Stretch
<1>8. CASE FreeAll
  <2>1. /\ at = "freeing" /\ at' = "closed" /\ decoder'.kind = "none"
        /\ UNCHANGED <<asset, producer, tooLarge>>
    BY <1>8, NoDecoderIs DEF FreeAll, rangeVars
  <2> QED BY <1>c, <1>i, <2>1 DEF DecoderPosition, CapturePosition, Working
<1>9. CASE \/ FillCached \/ Filled \/ Tick \/ UpdateFadeOut \/ Reclaim \/ Refill \/ Fails
           \/ Stop \/ SetPosition \/ Clock \/ VoicePlays
           \/ \E time \in FadeTimes : StartFadeOut(time)
  <2>1. /\ UNCHANGED <<asset, producer, tooLarge, decoder, discard, remaining, capture,
                       leased>>
        /\ \/ at' = at
           \/ at' = "closing"
           \/ at = "open" /\ at' = "closed"
           \/ at \in {"fill", "idle", "update", "reclaim"}
              /\ at' \in {"fill", "idle", "update", "reclaim"}
    BY <1>9 DEF FillCached, Filled, Tick, UpdateFadeOut, Reclaim, Refill, Fails, Stop,
       SetPosition, Clock, VoicePlays, StartFadeOut, End, rangeVars, source
  <2>2. DecoderPosition'
    BY <1>i, <1>c, <2>1 DEF DecoderPosition, Working
  <2>3. CapturePosition'
    BY <1>i, <2>1 DEF CapturePosition
  <2> QED BY <1>c, <2>1, <2>2, <2>3
<1> QED BY <1>1, <1>2, <1>3, <1>4, <1>5, <1>6, <1>7, <1>8, <1>9 DEF PlayNext, WorkerStep

--------------------------------------------------------------------------------
(***************************************************************************)
(* What the voice plays.                                                   *)
(***************************************************************************)

\* The frames of a queue's entries: what leased PCM or the buffers begin with.
QueueIsAllocated(q, bufs, lease) ==
    IF lease THEN \A i \in 1..Len(q) : q[i].from = asset.from
    ELSE /\ Len(q) <= Len(bufs)
         /\ \A i \in 1..Len(q) : q[i].from = bufs[Len(bufs) - Len(q) + i]

\* Where a queue has its end mark.
QueueIsMarked(q, done, endless) ==
    /\ \A i \in 1..Len(q) : q[i].end => i = Len(q) /\ done
    /\ q # <<>> /\ done /\ ~endless => q[Len(q)].end

Done == IF leased THEN plays = 0 ELSE eof
Endless == leased /\ input.loops < 0

\* The properties TLC checks, in these terms.
LEMMA VoiceInvIs ==
    ASSUME queue \in Seq(EntryType), input.loops \in Nat \cup {-1}
    PROVE  /\ BuffersOutliveVoice <=>
                  /\ leased => Cached
                  /\ QueueIsAllocated(queue, buffers, leased)
                  /\ decoder.kind = "memory" => Cached
           /\ EndMarks <=> QueueIsMarked(queue, Done, Endless)
<1>1. DOMAIN queue = 1..Len(queue)
  OBVIOUS
<1>2. BuffersOutliveVoice <=>
          /\ leased => Cached
          /\ QueueIsAllocated(queue, buffers, leased)
          /\ decoder.kind = "memory" => Cached
  BY <1>1 DEF BuffersOutliveVoice, QueueIsAllocated
<1>3. EndMarks <=> QueueIsMarked(queue, Done, Endless)
  <2>1. input.loops >= 0 <=> ~(input.loops < 0)
    OBVIOUS
  <2>2. (IF leased THEN plays = 0 /\ input.loops >= 0 ELSE eof) <=> (Done /\ ~Endless)
    BY <2>1 DEF Done, Endless
  <2>3. (IF leased THEN plays = 0 ELSE eof) <=> Done
    BY DEF Done
  <2> QED BY <1>1, <2>2, <2>3, Zenon DEF EndMarks, QueueIsMarked
<1> QED BY <1>2, <1>3

\* ... and after a step.
LEMMA VoiceInvNext ==
    ASSUME queue' \in Seq(EntryType), input'.loops \in Nat \cup {-1}
    PROVE  /\ BuffersOutliveVoice' <=>
                  /\ leased' => Cached'
                  /\ QueueIsAllocated(queue, buffers, leased)'
                  /\ decoder'.kind = "memory" => Cached'
           /\ EndMarks' <=> QueueIsMarked(queue', Done', Endless')
<1>1. DOMAIN queue' = 1..Len(queue')
  OBVIOUS
<1>2. BuffersOutliveVoice' <=>
          /\ leased' => Cached'
          /\ QueueIsAllocated(queue, buffers, leased)'
          /\ decoder'.kind = "memory" => Cached'
  BY <1>1 DEF BuffersOutliveVoice, QueueIsAllocated
<1>3. EndMarks' <=> QueueIsMarked(queue', Done', Endless')
  <2>1. input'.loops >= 0 <=> ~(input'.loops < 0)
    OBVIOUS
  <2>2. (IF leased THEN plays = 0 /\ input.loops >= 0 ELSE eof)' <=> (Done' /\ ~Endless')
    BY <2>1 DEF Done, Endless
  <2>3. (IF leased THEN plays = 0 ELSE eof)' <=> Done'
    BY DEF Done
  <2> QED BY <1>1, <2>2, <2>3, Zenon DEF EndMarks, QueueIsMarked
<1> QED BY <1>2, <1>3

\* An empty queue needs nothing.
LEMMA EmptyQueue ==
    ASSUME NEW bufs \in Seq(Nat), NEW lease \in BOOLEAN, NEW done, NEW endless
    PROVE  QueueIsAllocated(<<>>, bufs, lease) /\ QueueIsMarked(<<>>, done, endless)
BY DEF QueueIsAllocated, QueueIsMarked

\* A queue that is longer by one.
LEMMA LongerQueue ==
    ASSUME NEW q \in Seq(EntryType), NEW e \in EntryType, NEW done \in BOOLEAN,
           e.end <=> done,
           \A i \in 1..Len(q) : ~q[i].end
    PROVE  QueueIsMarked(Append(q, e), done, FALSE)
<1>1. /\ Len(q) \in Nat /\ Len(Append(q, e)) = Len(q) + 1
      /\ \A i \in 1..Len(q) : Append(q, e)[i] = q[i]
      /\ Append(q, e)[Len(q) + 1] = e
  BY AppendProperties
<1>2. ASSUME NEW i \in 1..Len(q) + 1, Append(q, e)[i].end
      PROVE  i = Len(q) + 1 /\ done
  BY <1>1, <1>2
<1> QED BY <1>1, <1>2 DEF QueueIsMarked

\* The voice repeats its first buffer or returns it.
LEMMA PlayedQueue ==
    ASSUME NEW q \in Seq(EntryType), queue \in Seq(EntryType), queue # <<>>,
           \/ q = queue
           \/ q = Tail(queue)
           \/ queue[1].times >= 0 /\ q = [queue EXCEPT ![1].times = @ - 1],
           buffers \in Seq(Nat), NEW done,
           NEW endless, NEW lease,
           QueueIsAllocated(queue, buffers, lease),
           QueueIsMarked(queue, done, endless)
    PROVE  QueueIsAllocated(q, buffers, lease) /\ QueueIsMarked(q, done, endless)
<1>0. Len(queue) \in Nat \ {0} /\ Len(buffers) \in Nat
  OBVIOUS
<1>1. CASE q = queue
  BY <1>1
<1>2. CASE q = Tail(queue)
  <2>1. /\ Len(q) = Len(queue) - 1
        /\ \A i \in 1..Len(q) : q[i] = queue[i + 1]
    BY <1>2, HeadTailProperties
  <2>2. \A i \in 1..Len(q) : i + 1 \in 1..Len(queue) /\ i \in Nat
    BY <1>0, <2>1
  <2>3. QueueIsAllocated(q, buffers, lease)
    <3>1. CASE lease
      BY <2>1, <2>2, <3>1 DEF QueueIsAllocated
    <3>2. CASE ~lease
      <4>1. Len(queue) <= Len(buffers)
            /\ \A i \in 1..Len(queue) :
                   queue[i].from = buffers[Len(buffers) - Len(queue) + i]
        BY <3>2 DEF QueueIsAllocated
      <4>2. ASSUME NEW i \in 1..Len(q)
            PROVE  q[i].from = buffers[Len(buffers) - Len(q) + i]
        <5>1. Len(buffers) - Len(q) + i = Len(buffers) - Len(queue) + (i + 1)
          BY <1>0, <2>1
        <5> QED BY <2>1, <2>2, <4>1, <5>1
      <4> QED BY <1>0, <2>1, <3>2, <4>1, <4>2 DEF QueueIsAllocated
    <3> QED BY <3>1, <3>2
  <2>4. QueueIsMarked(q, done, endless)
    <3>1. ASSUME NEW i \in 1..Len(q), q[i].end
          PROVE  i = Len(q) /\ done
      BY <1>0, <2>1, <2>2, <3>1 DEF QueueIsMarked
    <3>2. ASSUME q # <<>>, done, ~endless
          PROVE  q[Len(q)].end
      <4>1. Len(q) \in 1..Len(q) /\ Len(q) + 1 = Len(queue)
        BY <1>0, <2>1, <3>2
      <4>2. q[Len(q)] = queue[Len(queue)]
        BY <2>1, <4>1
      <4>3. queue[Len(queue)].end
        BY <3>2 DEF QueueIsMarked
      <4> QED BY <4>2, <4>3
    <3> QED BY <3>1, <3>2 DEF QueueIsMarked
  <2> QED BY <2>3, <2>4
<1>3. CASE queue[1].times >= 0 /\ q = [queue EXCEPT ![1].times = @ - 1]
  <2>1. /\ Len(q) = Len(queue)
        /\ \A i \in 1..Len(queue) : q[i].from = queue[i].from /\ q[i].end = queue[i].end
    BY <1>3, RepeatedQueue
  <2>2. QueueIsAllocated(q, buffers, lease)
    BY <2>1 DEF QueueIsAllocated
  <2>3. q # <<>> /\ Len(queue) \in 1..Len(queue)
    BY <1>0, <2>1
  <2>4. QueueIsMarked(q, done, endless)
    BY <2>1, <2>3 DEF QueueIsMarked
  <2> QED BY <2>2, <2>4
<1> QED BY <1>1, <1>2, <1>3

\* No step of the playback lets the voice play what has been freed, or puts the
\* end mark elsewhere.
LEMMA PlayKeepsVoice ==
    ASSUME RangeTypeOK, PlayTypeOK, RangeTypeOK', PlayTypeOK',
           DecoderPosition, DecoderPosition', OneProducer,
           VoiceInv, EndMarks, PlayNext
    PROVE  VoiceInv' /\ EndMarks'
<1> DEFINE Allocated == QueueIsAllocated(queue, buffers, leased)
           Marked == QueueIsMarked(queue, Done, Endless)
<1>0. /\ BufferTypes /\ buffers \in Seq(Nat) /\ queue \in Seq(EntryType)
      /\ eof \in BOOLEAN /\ plays \in Nat /\ Len(queue) \in Nat
      /\ input.loops \in Nat \cup {-1} /\ loops \in Nat \cup {-1}
      /\ asset.from \in Nat /\ asset.frames \in Nat /\ decoder.next \in Nat
      /\ leased \in BOOLEAN
  <2>1. BufferTypes /\ SourceTypes /\ ControlTypes
    BY TypeGroups
  <2> QED BY <2>1, InputFields
          DEF RangeTypeOK, BufferTypes, SourceTypes, DecoderType, ControlTypes
<1>1. /\ queue' \in Seq(EntryType) /\ buffers' \in Seq(Nat) /\ leased' \in BOOLEAN
      /\ plays' \in Nat
  BY DEF PlayTypeOK
<1>2. (leased => Cached) /\ Allocated /\ (decoder.kind = "memory" => Cached) /\ Marked
  BY <1>0, VoiceInvIs DEF VoiceInv
<1>i. input' = input
  BY DEF PlayNext, WorkerStep, PlayCached, PlayStreamed, Seek, Sought, Restart,
     FillCached, Fill, Filled, Tick, UpdateFadeOut, Reclaim, Refill, DestroyVoice,
     FreeAll, Fails, Stop, StartFadeOut, SetPosition, Clock, VoicePlays, rangeVars
<1>3. /\ at' # "open"
      /\ at' \in {"begin", "seek", "restart"} => ~leased'
      /\ at' \in {"freeing", "closed"} => queue' = <<>>
  <2>0. CASE PlayCached
    BY <2>0 DEF PlayCached
  <2>1. CASE PlayStreamed
    <3>1. at' \in {"begin", "closing"} /\ leased' = leased /\ ~leased
      BY <2>1 DEF VoiceInv, PlayStreamed
    <3> QED BY <3>1
  <2>2. CASE Seek \/ Sought
    BY <2>2 DEF VoiceInv, Seek, Sought, End
  <2>3. CASE Restart \/ Fill
    BY <2>3 DEF VoiceInv, Restart, Fill, Filling
  <2>4. CASE \/ FillCached \/ Filled \/ Tick \/ UpdateFadeOut
             \/ Reclaim \/ Refill \/ DestroyVoice \/ FreeAll \/ Fails \/ Stop
             \/ \E time \in FadeTimes : StartFadeOut(time)
    BY <2>4 DEF VoiceInv, HasVoice, FillCached, Filled, Tick, UpdateFadeOut,
       Reclaim, Refill, DestroyVoice, FreeAll, Fails, Stop, StartFadeOut, End, voice
  <2>5. CASE SetPosition \/ Clock \/ VoicePlays
    BY <2>5 DEF VoiceInv, HasVoice, SetPosition, Clock, VoicePlays
  <2> QED BY <2>0, <2>1, <2>2, <2>3, <2>4, <2>5 DEF PlayNext, WorkerStep
<1>g. ASSUME leased' => Cached', Allocated', QueueIsMarked(queue', Done', Endless')
      PROVE  VoiceInv' /\ EndMarks'
  <2>1. decoder'.kind = "memory" => Cached'
    BY DEF DecoderPosition
  <2>2. BuffersOutliveVoice' /\ EndMarks'
    BY <1>0, <1>1, <1>i, <1>g, <2>1, VoiceInvNext
  <2> QED BY <1>3, <1>i, <2>2 DEF VoiceInv, HasVoice
<1>4. CASE PlayCached
  <2>1. /\ at = "open" /\ Cached /\ leased' = TRUE /\ queue = <<>> /\ loops = input.loops
        /\ UNCHANGED <<asset, buffers>>
    BY <1>4 DEF PlayCached, rangeVars, VoiceInv, HasVoice
  <2>2. CASE loops < 0
    <3> DEFINE endless == Entry(asset.from, asset.frames, -1, FALSE)
    <3>1. queue' = <<endless>>
      BY <1>4, <2>2 DEF PlayCached
    <3>2. endless \in EntryType /\ endless.from = asset.from
      BY <1>0, EntryIs
    <3>e. endless.end = FALSE
      BY DEF Entry
    <3> HIDE DEF endless
    <3>3. Len(queue') = 1 /\ queue'[1] = endless
      BY <3>1
    <3>4. Allocated'
      BY <2>1, <3>2, <3>3 DEF QueueIsAllocated
    <3>5. Endless'
      BY <1>i, <2>1, <2>2 DEF Endless
    <3>6. QueueIsMarked(queue', Done', Endless')
      BY <3>e, <3>3, <3>5 DEF QueueIsMarked
    <3> QED BY <1>g, <2>1, <3>4, <3>6 DEF Cached
  <2>3. CASE ~(loops < 0)
    <3>1. queue' = <<>>
      BY <1>4, <2>1, <2>3 DEF PlayCached
    <3>2. Allocated' /\ QueueIsMarked(queue', Done', Endless')
      BY <1>1, <3>1 DEF QueueIsAllocated, QueueIsMarked
    <3> QED BY <1>g, <2>1, <3>2 DEF Cached
  <2> QED BY <2>2, <2>3
<1>5. CASE FillCached
  <2> DEFINE n == Smaller(plays, MaxRepeats)
             more == Chunk(n)
  <2>1. /\ leased /\ plays > 0 /\ plays' = plays - n /\ queue' = Append(queue, more)
        /\ UNCHANGED <<asset, buffers, leased>>
    BY <1>5 DEF FillCached, rangeVars
  <2>2. n \in Nat
    BY <1>0, PlaybackAssumption DEF Smaller
  <2>e. more.end = (n = plays)
    BY DEF Chunk, Entry
  <2>3. more \in EntryType /\ more.from = asset.from
    BY <1>0, <2>2, EntryIs DEF Chunk
  <2> HIDE DEF n, more
  <2>4. /\ Len(queue') = Len(queue) + 1
        /\ \A i \in 1..Len(queue) : queue'[i] = queue[i]
        /\ queue'[Len(queue) + 1] = more
    BY <1>0, <2>1, <2>3, AppendProperties
  <2>5. Allocated'
    <3>1. \A i \in 1..Len(queue) : queue[i].from = asset.from
      BY <1>2, <2>1 DEF QueueIsAllocated
    <3>2. \A i \in 1..Len(queue) + 1 : queue'[i].from = asset.from
      BY <1>0, <2>3, <2>4, <3>1
    <3> QED BY <2>1, <2>4, <3>2 DEF QueueIsAllocated
  <2>6. \A i \in 1..Len(queue) : ~queue[i].end
    BY <1>0, <1>2, <2>1 DEF QueueIsMarked, Done
  <2>7. Done' \in BOOLEAN /\ (more.end <=> Done')
    <3>1. n = plays <=> plays' = 0
      BY <1>0, <2>1, <2>2
    <3>2. Done' = (plays' = 0)
      BY <2>1 DEF Done
    <3> QED BY <2>e, <3>1, <3>2
  <2>8. QueueIsMarked(queue', Done', FALSE)
    BY <1>0, <2>1, <2>3, <2>6, <2>7, LongerQueue
  <2>9. QueueIsMarked(queue', Done', Endless')
    BY <2>8 DEF QueueIsMarked
  <2> QED BY <1>g, <1>2, <2>1, <2>5, <2>9 DEF Cached
<1>6. CASE Fill
  <2> DEFINE n == Delivered(ToRead, Rest)
             over == Finished(ToRead) \/ (remaining >= 0 /\ remaining = n)
             more == Entry(decoder.next, n, 1, over /\ loops = 0)
  <2>1. /\ ~leased /\ ~eof /\ leased' = leased /\ eof' = (over /\ loops = 0)
        /\ IF n > 0 THEN SubmitFrames(n, over) ELSE SubmitNothing(over)
    BY <1>6 DEF Fill, Filling
  <2>2. n \in Nat
    BY <1>6, FillReads DEF Fill
  <2>e. more.end = eof'
    BY <2>1 DEF Entry
  <2>3. more \in EntryType /\ more.from = decoder.next
    <3> DEFINE last == over /\ loops = 0
    <3>1. last \in BOOLEAN
      OBVIOUS
    <3> HIDE DEF last
    <3>2. Entry(decoder.next, n, 1, last) \in EntryType
          /\ Entry(decoder.next, n, 1, last).from = decoder.next
      BY <1>0, <2>2, <3>1, EntryIs
    <3> QED BY <3>2 DEF last
  <2>4. n > 0 => queue' = Append(queue, more) /\ buffers' = Append(buffers, decoder.next)
    BY <2>1 DEF SubmitFrames
  <2>5. ~(n > 0) =>
          /\ buffers' = buffers
          /\ queue' = IF eof' /\ buffers # <<>> /\ queue # <<>> THEN MarkedQueue ELSE queue
    <3> HIDE DEF n, over
    <3> QED BY <2>1 DEF SubmitNothing, MarkedQueue
  <2> HIDE DEF n, over, more
  <2>6. /\ Len(queue) <= Len(buffers) /\ Len(buffers) \in Nat
        /\ \A i \in 1..Len(queue) :
               queue[i].from = buffers[Len(buffers) - Len(queue) + i]
    BY <1>0, <1>2, <2>1 DEF QueueIsAllocated
  <2>7. \A i \in 1..Len(queue) : ~queue[i].end
    BY <1>2, <2>1 DEF QueueIsMarked, Done
  <2>d. ~leased' /\ (Done' <=> eof') /\ ~Endless' /\ eof' \in BOOLEAN
    BY <2>1 DEF Done, Endless
  <2>8. CASE n > 0
    <3>1. /\ Len(queue') = Len(queue) + 1 /\ Len(buffers') = Len(buffers) + 1
          /\ \A i \in 1..Len(queue) : queue'[i] = queue[i]
          /\ queue'[Len(queue) + 1] = more
          /\ \A i \in 1..Len(buffers) : buffers'[i] = buffers[i]
          /\ buffers'[Len(buffers) + 1] = decoder.next
      <4>1. queue' = Append(queue, more) /\ buffers' = Append(buffers, decoder.next)
        BY <2>4, <2>8
      <4> QED BY <1>0, <2>3, <4>1, AppendProperties
    <3>2. ASSUME NEW i \in 1..Len(queue')
          PROVE  queue'[i].from = buffers'[Len(buffers') - Len(queue') + i]
      <4>1. Len(buffers') - Len(queue') + i = Len(buffers) - Len(queue) + i
        BY <1>0, <2>6, <3>1
      <4>2. CASE i = Len(queue) + 1
        <5>1. Len(buffers) - Len(queue) + i = Len(buffers) + 1
          BY <1>0, <2>6, <4>2
        <5> QED BY <2>3, <3>1, <4>1, <4>2, <5>1
      <4>3. CASE i # Len(queue) + 1
        <5>1. i \in 1..Len(queue) /\ Len(buffers) - Len(queue) + i \in 1..Len(buffers)
          BY <1>0, <2>6, <3>1, <4>3
        <5> QED BY <2>6, <3>1, <4>1, <5>1
      <4> QED BY <4>2, <4>3
    <3>3. Allocated'
      BY <1>0, <2>6, <2>d, <3>1, <3>2 DEF QueueIsAllocated
    <3>4. QueueIsMarked(queue', eof', FALSE)
      BY <1>0, <2>e, <2>3, <2>4, <2>7, <2>8, <2>d, LongerQueue
    <3>5. QueueIsMarked(queue', Done', Endless')
      BY <2>d, <3>4 DEF QueueIsMarked
    <3> QED BY <1>g, <2>d, <3>3, <3>5
  <2>9. CASE ~(n > 0)
    <3>1. CASE queue' = queue /\ (eof' => queue = <<>>)
      <4>1. Allocated'
        BY <2>5, <2>6, <2>9, <2>d, <3>1 DEF QueueIsAllocated
      <4>2. QueueIsMarked(queue', Done', Endless')
        BY <2>7, <2>d, <3>1 DEF QueueIsMarked
      <4> QED BY <1>g, <2>d, <4>1, <4>2
    <3>2. CASE eof' /\ queue # <<>> /\ queue' = MarkedQueue
      <4>1. /\ Len(queue') = Len(queue) /\ Len(queue) \in 1..Len(queue)
            /\ \A i \in 1..Len(queue) :
                   /\ queue'[i].from = queue[i].from
                   /\ i # Len(queue) => queue'[i] = queue[i]
            /\ queue'[Len(queue)].end = TRUE
        <5>1. Len(queue) \in 1..Len(queue)
          BY <1>0, <3>2
        <5> QED BY <1>0, <3>2, <5>1, MarkedQueueIs, Zenon
      <4>2. Allocated'
        BY <2>5, <2>6, <2>9, <2>d, <4>1 DEF QueueIsAllocated
      <4>3. QueueIsMarked(queue', Done', Endless')
        BY <2>7, <2>d, <3>2, <4>1 DEF QueueIsMarked
      <4> QED BY <1>g, <2>d, <4>2, <4>3
    <3>3. queue # <<>> => buffers # <<>>
      BY <1>0, <2>6
    <3> QED BY <2>5, <2>9, <3>1, <3>2, <3>3
  <2> QED BY <2>8, <2>9, <2>2
<1>7. CASE Reclaim
  <2>1. UNCHANGED <<asset, queue, leased, plays>>
    BY <1>7 DEF Reclaim, rangeVars, voice
  <2>2. CASE leased
    <3>1. Done' = Done /\ Endless' = Endless
      BY <1>i, <2>1, <2>2 DEF Done, Endless
    <3>2. buffers' = buffers
      BY <1>7, <2>2 DEF Reclaim
    <3> QED BY <1>2, <1>g, <2>1, <3>1, <3>2 DEF Cached, QueueIsAllocated
  <2>3. CASE ~leased
    <3>1. buffers' = StillQueued /\ eof' = eof
      BY <1>7, <2>3 DEF Reclaim
    <3>2. Done' = Done /\ Endless' = Endless
      BY <1>i, <2>1, <2>3, <3>1 DEF Done, Endless
    <3>3. /\ Len(queue) <= Len(buffers)
          /\ \A i \in 1..Len(queue) :
                 queue[i].from = buffers[Len(buffers) - Len(queue) + i]
      BY <1>2, <2>3 DEF QueueIsAllocated
    <3>4. /\ Len(buffers') = Len(queue)
          /\ \A i \in 1..Len(queue) :
                 buffers'[i] = buffers[Len(buffers) - Len(queue) + i]
      BY <1>0, <3>1, <3>3, StillQueuedIs
    <3>5. \A i \in 1..Len(queue) : Len(buffers') - Len(queue) + i = i
      BY <1>0, <3>4
    <3>6. Allocated'
      BY <1>0, <2>1, <2>3, <3>3, <3>4, <3>5 DEF QueueIsAllocated
    <3> QED BY <1>2, <1>g, <2>1, <2>3, <3>2, <3>6
  <2> QED BY <2>2, <2>3
<1>8. CASE VoicePlays
  <2>1. /\ queue # <<>> /\ queue[1] \in EntryType
        /\ UNCHANGED <<asset, buffers, leased, plays, eof>>
    BY <1>0, <1>8 DEF VoicePlays, rangeVars
  <2>2. \/ queue' = Tail(queue) \/ queue' = queue
        \/ queue[1].times >= 0 /\ queue' = [queue EXCEPT ![1].times = @ - 1]
    BY <1>8, <2>1 DEF VoicePlays, EntryType
  <2>3. Done' = Done /\ Endless' = Endless
    BY <1>i, <2>1 DEF Done, Endless
  <2>4. QueueIsAllocated(queue', buffers, leased) /\ QueueIsMarked(queue', Done, Endless)
    BY <1>0, <1>1, <1>2, <2>1, <2>2, PlayedQueue
  <2> QED BY <1>2, <1>g, <2>1, <2>3, <2>4 DEF Cached, QueueIsAllocated
<1>9. CASE DestroyVoice \/ FreeAll
  <2>1. queue' = <<>> /\ leased' \in {leased, FALSE} /\ asset' = asset
    BY <1>9 DEF DestroyVoice, FreeAll, VoiceInv, HasVoice, rangeVars, voice
  <2>2. Allocated' /\ QueueIsMarked(queue', Done', Endless')
    BY <1>1, <2>1 DEF QueueIsAllocated, QueueIsMarked
  <2> QED BY <1>0, <1>2, <1>g, <2>1, <2>2 DEF Cached
<1>10. CASE \/ PlayStreamed \/ Seek \/ Sought \/ Restart \/ Filled \/ Tick \/ UpdateFadeOut
            \/ Refill \/ Fails \/ Stop \/ SetPosition \/ Clock
            \/ \E time \in FadeTimes : StartFadeOut(time)
  <2>1. UNCHANGED <<asset, queue, buffers, eof, leased, plays>>
    BY <1>10 DEF PlayStreamed, Seek, Sought, Restart, Filled, Tick, UpdateFadeOut, Refill,
       Fails, Stop, SetPosition, Clock, StartFadeOut, rangeVars, voice
  <2>2. Done' = Done /\ Endless' = Endless
    BY <1>i, <2>1 DEF Done, Endless
  <2> QED BY <1>2, <1>g, <2>1, <2>2 DEF Cached, QueueIsAllocated
<1> QED BY <1>4, <1>5, <1>6, <1>7, <1>8, <1>9, <1>10 DEF PlayNext, WorkerStep

--------------------------------------------------------------------------------
(***************************************************************************)
(* Playback, build and eviction together.                                  *)
(***************************************************************************)

\* The types of the build are kept.
LEMMA BuildKeepsTypes ==
    ASSUME RangeTypeOK, BuildTypeOK, BuildInv, BuildNext
    PROVE  RangeTypeOK' /\ BuildTypeOK'
<1>0. /\ input \in Inputs /\ input.pos \in Nat /\ input.duration \in Nat \cup {-1}
      /\ input.frames \in Nat /\ asset \in StretchType
      /\ tooLarge \in BOOLEAN /\ producer \in {"nobody", "capture", "build"}
      /\ MaxBytes \in Nat
  BY InputFields, BudgetAssumption DEF RangeTypeOK, StretchType
<1>r. RangeTypeOK <=> /\ input \in Inputs /\ asset \in StretchType /\ tooLarge \in BOOLEAN
                      /\ producer \in {"nobody", "capture", "build"}
  BY DEF RangeTypeOK, StretchType
<1>g. ASSUME GiveUp, tooLarge' \in {tooLarge, TRUE} PROVE RangeTypeOK' /\ BuildTypeOK'
  <2>1. tooLarge' \in BOOLEAN
    BY <1>0, <1>g
  <2> QED BY <1>0, <1>g, <2>1 DEF GiveUp, EndBuild, RangeTypeOK, BuildTypeOK, StretchType
<1>u. ASSUME UNCHANGED rangeVars PROVE RangeTypeOK'
  BY <1>u DEF rangeVars, RangeTypeOK
<1>1. CASE StartBuild
  BY <1>0, <1>1 DEF StartBuild, RangeTypeOK, BuildTypeOK, StretchType
<1>2. CASE BuildFails
  BY <1>2, <1>g DEF BuildFails
<1>3. CASE DiscardFrames
  <2> DEFINE max == Smaller(toDiscard, BufferFrames)
             n == Delivered(max, BuildRest)
  <2>1. CASE FileFinished(max, BuildRest)
    BY <1>3, <1>g, <2>1 DEF DiscardFrames
  <2>2. CASE ~FileFinished(max, BuildRest)
    <3>1. max \in Nat /\ max <= toDiscard
      BY BufferAssumption DEF Smaller, BuildTypeOK
    <3>2. n = max
      BY <3>1, <2>2, <1>3, BuildReads DEF DiscardFrames, BuildInv, BuildPosition
    <3>3. /\ next' = next + n /\ toDiscard' = toDiscard - n
          /\ UNCHANGED <<rangeVars, stage, toGo, capacity, reservation, totalBytes>>
      BY <1>3, <2>2 DEF DiscardFrames
    <3> HIDE DEF max, n
    <3> QED BY <1>u, <3>1, <3>2, <3>3 DEF BuildTypeOK
  <2> QED BY <2>1, <2>2
<1>4. CASE ReserveBuffer
  <2>1. capacity' \in Nat /\ reservation' = capacity'
    <3>1. PICK guess \in Estimates : capacity' = InitialCapacity(input.duration, guess)
      BY <1>4 DEF ReserveBuffer
    <3>2. capacity' \in 1..MaxBytes
      BY <1>0, <3>1, InitialCapacityFits, EstimatesAssumption
    <3> QED BY <1>0, <1>4, <3>2 DEF ReserveBuffer
  <2> QED BY <1>0, <1>u, <1>4, <2>1 DEF ReserveBuffer, BuildTypeOK
<1>5. CASE GrowBuffer
  <2>1. Grown \in Nat /\ Grown > capacity
    BY <1>5, GrownFits DEF GrowBuffer, MustGrow, Decoding, BuildInv, BuildBuffer
  <2> QED BY <1>u, <1>5, <2>1 DEF GrowBuffer, BuildTypeOK
<1>6. CASE NoGrowth \/ AllRead
  BY <1>u, <1>6 DEF NoGrowth, AllRead, BuildTypeOK
<1>7. CASE ReadBlock
  <2> DEFINE n == Delivered(Room, BuildRest)
  <2>1. Decoding /\ Whole(capacity) /\ Whole(totalBytes)
    BY <1>7, TotalIsWhole DEF ReadBlock, Decoding, BuildInv, BuildBuffer
  <2>2. Room \in Nat /\ (toGo >= 0 => Room <= toGo)
    BY <2>1, RoomFits DEF BuildInv, BuildBuffer
  <2>3. n \in Nat /\ n <= Room
    BY <1>7, <2>2, BuildReads DEF ReadBlock, BuildInv, BuildPosition
  <2>4. n * FrameBytes \in Nat
    BY <2>3, BudgetAssumption
  <2>5. /\ next' = next + n /\ totalBytes' = totalBytes + n * FrameBytes
        /\ toGo' = IF toGo >= 0 THEN toGo - n ELSE toGo
        /\ stage' \in {"commit", "decode"}
        /\ UNCHANGED <<rangeVars, toDiscard, capacity, reservation>>
    BY <1>7 DEF ReadBlock
  <2> HIDE DEF n
  <2> QED BY <1>u, <2>2, <2>3, <2>4, <2>5 DEF BuildTypeOK
<1>8. CASE Probe
  <2>1. CASE BuildRest > 0
    BY <1>8, <1>g, <2>1 DEF Probe
  <2>2. CASE ~(BuildRest > 0)
    BY <1>8, <1>u, <2>2 DEF Probe, BuildTypeOK
  <2> QED BY <2>1, <2>2
<1>9. CASE CommitBuild
  <2> DEFINE frames == totalBytes \div FrameBytes
  <2>1. CASE frames = 0
    BY <1>9, <1>g, <2>1 DEF CommitBuild
  <2>2. CASE frames # 0
    <3>1. frames = next - input.pos /\ next - input.pos \in Nat
          /\ next - frames \in Nat
      <4>1. /\ next - input.pos \in Nat /\ totalBytes = (next - input.pos) * FrameBytes
        BY <1>9, TotalIsWhole DEF CommitBuild, BuildInv, BuildPosition, Decoding
      <4> QED BY <1>0, <4>1, BudgetAssumption DEF BuildTypeOK
    <3>2. asset' = Stretch(next - frames, frames) /\ producer' = "nobody"
          /\ UNCHANGED <<input, tooLarge>> /\ EndBuild
      BY <1>9, <2>2 DEF CommitBuild, Commit
    <3> HIDE DEF frames
    <3>3. asset' \in StretchType
      BY <3>1, <3>2, StretchIs
    <3> QED BY <1>0, <3>2, <3>3 DEF EndBuild, RangeTypeOK, BuildTypeOK, StretchType
  <2> QED BY <2>1, <2>2
<1> QED BY <1>1, <1>2, <1>3, <1>4, <1>5, <1>6, <1>7, <1>8, <1>9 DEF BuildNext

\* What a playback relies on: the cache's entry it leases or reads stays, the
\* mark of its capture too.
LEMMA OthersKeepPlayback ==
    ASSUME RangeTypeOK, PlayTypeOK, RangeTypeOK', input' = input, UNCHANGED playVars,
           DecoderPosition, CapturePosition, VoiceInv, EndMarks, FadeInv,
           leased \/ decoder.kind = "memory" => asset' = asset,
           producer' = "capture" => producer = "capture"
    PROVE  /\ PlayTypeOK' /\ DecoderPosition' /\ CapturePosition'
           /\ VoiceInv' /\ EndMarks' /\ FadeInv' /\ level' = level
<1>1. UNCHANGED <<at, creating, outcome, decoder, discard, remaining, loops, buffers, eof,
                  leased, plays, capture, target, queue, heard, left, fade, level, stops>>
  BY DEF playVars, source, voice, fading
<1>2. PlayTypeOK'
  BY <1>1 DEF PlayTypeOK
<1>3. DecoderPosition'
  BY <1>1 DEF DecoderPosition, Working, Cached
<1>4. CapturePosition'
  BY <1>1 DEF CapturePosition
<1>5. BuffersOutliveVoice'
  BY <1>1 DEF VoiceInv, BuffersOutliveVoice, Cached
<1>6. VoiceInv'
  BY <1>1, <1>5 DEF VoiceInv, HasVoice
<1>7. EndMarks'
  BY <1>1 DEF EndMarks
<1>8. FadeInv'
  BY <1>1 DEF FadeInv, Stopping, Gain
<1> QED BY <1>1, <1>2, <1>3, <1>4, <1>6, <1>7, <1>8

\* The inductive invariant.
PInv ==
    /\ RangeTypeOK /\ PlayTypeOK /\ BuildTypeOK
    /\ BuildInv
    /\ DecoderPosition /\ CapturePosition
    /\ AssetIsRange
    /\ VoiceInv /\ EndMarks
    /\ FadeInv

\* The invariant holds initially.
LEMMA InitPInv == Init => PInv
<1> SUFFICES ASSUME Init PROVE PInv
  OBVIOUS
<1>1. /\ RangeInit /\ PlayInit /\ BuildInit
      /\ input.loops \in Nat \cup {-1} /\ ~Cached
  BY InputFields DEF Init, RangeInit, Cached
<1>2. RangeTypeOK
  BY <1>1, NoFramesIs DEF RangeInit, RangeTypeOK, StretchType
<1>3. PlayTypeOK
  <2>1. /\ NoDecoder \in DecoderType /\ NoFrames \in StretchType /\ NoFade \in FadeType
        /\ FullGain \in Nat
    BY NoDecoderIs, NoFramesIs, PlaybackAssumption DEF NoFade, FadeType
  <2>2. ControlTypes
    <3>1. creating \in BOOLEAN /\ leased \in BOOLEAN
      BY <1>1 DEF PlayInit
    <3>2. at = "open" /\ outcome = "none" /\ target = Targets
      BY <1>1 DEF PlayInit
    <3> QED BY <3>1, <3>2, PlaybackAssumption DEF ControlTypes
  <2>3. SourceTypes
    BY <1>1, <2>1 DEF PlayInit, SourceTypes
  <2>4. BufferTypes
    <3>1. buffers = <<>> /\ queue = <<>> /\ plays = 0
      BY <1>1 DEF PlayInit
    <3>2. buffers \in Seq(Nat) /\ queue \in Seq(EntryType)
      BY <3>1, EmptySeq
    <3>3. eof \in BOOLEAN
      BY <1>1 DEF PlayInit
    <3> QED BY <3>1, <3>2, <3>3 DEF BufferTypes
  <2>5. HeardTypes
    BY <1>1 DEF PlayInit, HeardTypes
  <2>6. FadingTypes
    BY <1>1, <2>1, PlaybackAssumption DEF PlayInit, FadingTypes
  <2>7. CacheTypes
    BY <1>1, <1>2, <2>1 DEF PlayInit, CacheTypes
  <2> QED BY <2>2, <2>3, <2>4, <2>5, <2>6, <2>7, TypeGroups
<1>4. BuildTypeOK
  BY <1>1 DEF BuildInit, BuildTypeOK
<1>5. BuildInv
  BY <1>1, BudgetAssumption
     DEF RangeInit, BuildInit, BuildInv, OneProducer, BuildPosition, BuildBuffer, Decoding,
         TooLargeIsTooLarge
<1>6. DecoderPosition /\ CapturePosition
  BY <1>1, NoDecoderIs
     DEF RangeInit, PlayInit, DecoderPosition, CapturePosition, Working
<1>7. AssetIsRange
  BY <1>1 DEF AssetIsRange
<1>8. VoiceInv /\ EndMarks
  <2>1. decoder.kind = "none" /\ queue = <<>> /\ at = "open" /\ buffers = <<>> /\ leased = FALSE
        /\ eof = FALSE /\ loops = input.loops
    BY <1>1, NoDecoderIs DEF PlayInit
  <2> QED BY <2>1 DEF VoiceInv, BuffersOutliveVoice, EndMarks, HasVoice
<1>9. FadeInv
  BY <1>1, NoFadeIs, PlaybackAssumption DEF PlayInit, FadeInv, Stopping, Gain
<1> QED BY <1>2, <1>3, <1>4, <1>5, <1>6, <1>7, <1>8, <1>9 DEF PInv

\* Every step keeps the invariant, and no step raises the gain of a fading sound.
LEMMA NextPInv ==
    ASSUME PInv, [Next]_vars
    PROVE  PInv' /\ (Stopping => level' <= level)
<1> USE DEF PInv
<1>0. level \in Nat
  BY PlaybackAssumption DEF PlayTypeOK
<1>1. CASE PlayNext /\ UNCHANGED buildVars
  <2>1. RangeTypeOK' /\ PlayTypeOK'
    BY <1>1, PlayKeepsTypes
  <2>2. PlayCacheInv'
    BY <1>1, PlayKeepsCacheInv DEF PlayCacheInv, BuildInv
  <2>3. VoiceInv' /\ EndMarks'
    BY <1>1, <2>1, <2>2, PlayKeepsVoice DEF PlayCacheInv, BuildInv
  <2>4. FadeInv' /\ (Stopping => level' <= level)
    BY <1>1, PlayKeepsFade
  <2>5. input' = input
    BY <1>1 DEF PlayNext, WorkerStep, PlayCached, PlayStreamed, Seek, Sought, Restart,
       FillCached, Fill, Filled, Tick, UpdateFadeOut, Reclaim, Refill, DestroyVoice,
       FreeAll, Fails, Stop, StartFadeOut, SetPosition, Clock, VoicePlays, rangeVars
  <2>6. BuildTypeOK' /\ BuildPosition' /\ BuildBuffer'
    BY <1>1, <2>5 DEF buildVars, BuildTypeOK, BuildInv, BuildPosition, BuildBuffer, Decoding,
       RangeLength
  <2> QED BY <2>1, <2>2, <2>3, <2>4, <2>6 DEF PlayCacheInv, BuildInv
<1>2. CASE BuildNext /\ UNCHANGED playVars
  <2>1. RangeTypeOK' /\ BuildTypeOK'
    BY <1>2, BuildKeepsTypes
  <2>2. BuildInv'
    BY <1>2, <2>1, BuildKeepsInv
  <2>3. /\ input' = input /\ RangeLength' = RangeLength
        /\ producer' = "capture" => producer = "capture"
        /\ asset' = asset \/ (CommitBuild /\ ~Cached)
    BY <1>2 DEF BuildNext, StartBuild, BuildFails, DiscardFrames, ReserveBuffer, GrowBuffer,
       NoGrowth, ReadBlock, Probe, AllRead, CommitBuild, Commit, GiveUp, rangeVars,
       RangeLength, BuildInv, OneProducer
  <2>4. leased \/ decoder.kind = "memory" => asset' = asset
    BY <2>3 DEF VoiceInv, BuffersOutliveVoice
  <2>5. AssetIsRange'
    <3>1. CASE asset' = asset
      BY <2>3, <3>1 DEF AssetIsRange, Cached, Stretch
    <3>2. CASE CommitBuild
      BY <2>3, <3>1, <3>2, BuildCommitsRange DEF AssetIsRange, Stretch
    <3> QED BY <2>3, <3>1, <3>2
  <2>6. /\ PlayTypeOK' /\ DecoderPosition' /\ CapturePosition'
        /\ VoiceInv' /\ EndMarks' /\ FadeInv' /\ level' = level
    BY <1>2, <2>1, <2>3, <2>4, OthersKeepPlayback
  <2> QED BY <1>0, <2>1, <2>2, <2>5, <2>6
<1>3. CASE Evict /\ UNCHANGED <<playVars, buildVars>>
  <2>1. /\ asset' = NoFrames /\ ~Cached' /\ UNCHANGED <<input, producer, tooLarge>>
        /\ ~leased /\ decoder.kind # "memory" /\ RangeLength' = RangeLength
    BY <1>3 DEF Evict, Cached, NoFrames, Stretch, RangeLength
  <2>2. RangeTypeOK'
    BY <2>1, NoFramesIs DEF RangeTypeOK, StretchType
  <2>3. /\ PlayTypeOK' /\ DecoderPosition' /\ CapturePosition'
        /\ VoiceInv' /\ EndMarks' /\ FadeInv' /\ level' = level
    BY <1>3, <2>1, <2>2, OthersKeepPlayback
  <2>4. BuildTypeOK' /\ BuildInv' /\ AssetIsRange'
    BY <1>3, <2>1 DEF buildVars, BuildTypeOK, BuildInv, OneProducer, BuildPosition,
       BuildBuffer, Decoding, TooLargeIsTooLarge, AssetIsRange
  <2> QED BY <1>0, <2>2, <2>3, <2>4
<1>4. CASE UNCHANGED vars
  <2>1. /\ UNCHANGED <<input, asset, producer, tooLarge>>
        /\ UNCHANGED playVars /\ UNCHANGED buildVars /\ RangeLength' = RangeLength
    BY <1>4 DEF vars, rangeVars, RangeLength
  <2>2. RangeTypeOK'
    BY <2>1 DEF RangeTypeOK
  <2>3. /\ PlayTypeOK' /\ DecoderPosition' /\ CapturePosition'
        /\ VoiceInv' /\ EndMarks' /\ FadeInv' /\ level' = level
    BY <2>1, <2>2, OthersKeepPlayback
  <2>4. BuildTypeOK' /\ BuildInv' /\ AssetIsRange'
    BY <2>1 DEF buildVars, BuildTypeOK, BuildInv, OneProducer, BuildPosition,
       BuildBuffer, Decoding, TooLargeIsTooLarge, AssetIsRange, Cached, Stretch
  <2> QED BY <1>0, <2>2, <2>3, <2>4
<1> QED BY <1>1, <1>2, <1>3, <1>4 DEF Next

\* In every reachable state the decoders, the buffers and the cache's entry agree.
THEOREM PlaybackInvariant == Spec => []PInv
<1>1. Init => PInv
  BY InitPInv
<1>2. PInv /\ [Next]_vars => PInv'
  BY NextPInv
<1> QED BY <1>1, <1>2, PTL DEF Spec

\* Types: every variable has its values, whatever the files, ranges and fade-outs.
THEOREM PlaybackTypes == Spec => []TypeOK
<1>1. PInv => TypeOK
  BY DEF PInv, TypeOK
<1> QED BY <1>1, PlaybackInvariant, PTL

\* commitPCMLocked only ever publishes the whole range, from pos, whether a first
\* play (pcm_capture.go) or decodePCMAsset made it.
THEOREM CachedPcmIsTheRange == Spec => []AssetIsRange
<1>1. PInv => AssetIsRange
  BY DEF PInv
<1> QED BY <1>1, PlaybackInvariant, PTL

\* decodePCMAsset asks for at least a frame and at most the room in its buffer,
\* which is reserved, and only what exceeds the budget is given up for ever.
THEOREM BuildStaysInItsBuffer == Spec => []BuildIsSound
<1>1. PInv => BuildIsSound
  BY BuildInvIsSound DEF PInv
<1> QED BY <1>1, PlaybackInvariant, PTL

\* XAudio2 never plays a buffer that fillTo's bookkeeping has freed or that the
\* cache has evicted.
THEOREM VoicePlaysWhatIsThere == Spec => []BuffersOutliveVoice
<1>1. PInv => BuffersOutliveVoice
  BY DEF PInv, VoiceInv
<1> QED BY <1>1, PlaybackInvariant, PTL

\* The end-of-stream mark is on the last buffer of the last play, and nowhere else.
THEOREM EndIsMarked == Spec => []EndMarks
<1>1. PInv => EndMarks
  BY DEF PInv
<1> QED BY <1>1, PlaybackInvariant, PTL

\* A fading sound never gets louder (startFadeOut, fadeGainAt, applyOutput).
THEOREM FadeFalls == Spec => FadeNeverRises
<1>1. PInv /\ [Next]_vars => [Stopping => level' <= level]_playVars
  BY NextPInv
<1> QED BY <1>1, PlaybackInvariant, PTL DEF Spec, FadeNeverRises

--------------------------------------------------------------------------------
(***************************************************************************)
(* What the listener hears.                                                *)
(***************************************************************************)

\* A point of a playback: the frames heard of a play, and the plays that follow it.
Point == [heard: Nat, left: Nat \cup {-1}]
PointAt(h, l) == [heard |-> h, left |-> l]

Fewer(l) == IF l > 0 THEN l - 1 ELSE l

\* n frames after p; the next play follows without a gap.
After(length, p, n) ==
    IF p.heard + n = length /\ p.left # 0
    THEN PointAt(0, Fewer(p.left))
    ELSE PointAt(p.heard + n, p.left)

\* The decoded frames of entry e are played from p to r.
Streams(pos, length, p, e, r) ==
    /\ e.times = 1
    /\ e.from = pos + p.heard
    /\ e.frames > 0 /\ p.heard + e.frames <= length
    /\ r = After(length, p, e.frames)

\* The cached PCM of entry e is played from p to r, or for ever.
Repeats(pos, length, p, e, r) ==
    /\ e.from = pos /\ e.frames = length /\ length > 0
    /\ p.heard = 0
    /\ IF e.times < 0 THEN p.left < 0
       ELSE /\ 0 < e.times /\ e.times <= p.left + 1
            /\ r = IF e.times <= p.left THEN PointAt(0, p.left - e.times)
                   ELSE PointAt(length, 0)

Leads(lease, pos, length, p, e, r) ==
    IF lease THEN Repeats(pos, length, p, e, r) ELSE Streams(pos, length, p, e, r)

\* The queue q is played from s to r: points has where each of its entries begins,
\* and the end.
Chain(points, lease, pos, length, q) ==
    /\ Len(points) = Len(q) + 1
    /\ \A i \in 1..Len(q) : Leads(lease, pos, length, points[i], q[i], points[i + 1])
Path(lease, pos, length, q, s, r) ==
    \E points \in Seq(Point) :
        Chain(points, lease, pos, length, q) /\ points[1] = s /\ points[Len(q) + 1] = r

\* A point has its two numbers.
LEMMA PointFields ==
    /\ \A h \in Nat, l \in Nat \cup {-1} : PointAt(h, l) \in Point
    /\ \A h, l : PointAt(h, l).heard = h /\ PointAt(h, l).left = l
    /\ \A p \in Point : p = PointAt(p.heard, p.left) /\ p.heard \in Nat /\ p.left \in Nat \cup {-1}
BY DEF Point, PointAt

\* An empty queue ends where it begins.
LEMMA EmptyPath ==
    ASSUME NEW lease, NEW pos, NEW length, NEW s, NEW r
    PROVE  Path(lease, pos, length, <<>>, s, r) <=> s = r /\ s \in Point
<1>1. ASSUME s \in Point PROVE Path(lease, pos, length, <<>>, s, s)
  <2>1. PICK points \in Seq(Point) : Len(points) = 1 /\ points[1] = s
    <3>1. <<s>> \in Seq(Point) /\ Len(<<s>>) = 1 /\ <<s>>[1] = s
      BY <1>1
    <3> QED BY <3>1
  <2>2. Len(<<>>) = 0 /\ 0 + 1 = 1 /\ 1..0 = {}
    OBVIOUS
  <2>3. Chain(points, lease, pos, length, <<>>)
    BY <2>1, <2>2 DEF Chain
  <2>4. points[Len(<<>>) + 1] = s
    BY <2>1, <2>2
  <2> QED BY <2>1, <2>3, <2>4 DEF Path
<1>2. ASSUME Path(lease, pos, length, <<>>, s, r) PROVE s = r /\ s \in Point
  <2>1. PICK points \in Seq(Point) : Len(points) = 1 /\ points[1] = s /\ points[0 + 1] = r
    BY <1>2 DEF Path, Chain
  <2> QED BY <2>1
<1> QED BY <1>1, <1>2

\* One entry more begins where the queue ended.
LEMMA LongerPath ==
    ASSUME NEW lease, NEW pos, NEW length, NEW q \in Seq(EntryType), NEW s, NEW r,
           Path(lease, pos, length, q, s, r),
           NEW e \in EntryType, NEW t \in Point, Leads(lease, pos, length, r, e, t)
    PROVE  Path(lease, pos, length, Append(q, e), s, t)
<1>1. PICK points \in Seq(Point) :
         Chain(points, lease, pos, length, q) /\ points[1] = s /\ points[Len(q) + 1] = r
  BY DEF Path
<1> DEFINE more == Append(points, t)
           n == Len(q)
<1>2. /\ Len(points) = n + 1 /\ n \in Nat
      /\ \A i \in 1..n : Leads(lease, pos, length, points[i], q[i], points[i + 1])
  BY <1>1 DEF Chain
<1>3. /\ more \in Seq(Point) /\ Len(more) = n + 2 /\ more[n + 2] = t
      /\ \A i \in 1..n + 1 : more[i] = points[i]
  BY <1>2, AppendProperties
<1>4. /\ Len(Append(q, e)) = n + 1 /\ Append(q, e)[n + 1] = e
      /\ \A i \in 1..n : Append(q, e)[i] = q[i]
  BY AppendProperties
<1> HIDE DEF more, n
<1>5. ASSUME NEW i \in 1..n + 1
      PROVE  Leads(lease, pos, length, more[i], Append(q, e)[i], more[i + 1])
  <2>1. CASE i = n + 1
    <3>1. more[i] = r /\ more[i + 1] = t /\ Append(q, e)[i] = e
      BY <1>1, <1>2, <1>3, <1>4, <2>1 DEF n
    <3> QED BY <3>1
  <2>2. CASE i # n + 1
    <3>1. i \in 1..n /\ i + 1 \in 1..n + 1 /\ i \in 1..n + 1
      BY <1>2, <2>2
    <3>2. more[i] = points[i] /\ more[i + 1] = points[i + 1] /\ Append(q, e)[i] = q[i]
      BY <1>3, <1>4, <3>1
    <3> QED BY <1>2, <3>1, <3>2
  <2> QED BY <2>1, <2>2
<1>6. more[1] = s /\ (n + 1) + 1 = n + 2 /\ more[(n + 1) + 1] = t
  BY <1>1, <1>2, <1>3
<1>7. Chain(more, lease, pos, length, Append(q, e))
  BY <1>3, <1>4, <1>5, <1>6 DEF Chain
<1> QED BY <1>3, <1>4, <1>6, <1>7 DEF Path

\* What is heard of the first entry leads to where the others begin, and another
\* entry that leads there may take its place.
LEMMA ShorterPath ==
    ASSUME NEW lease, NEW pos, NEW length, NEW q \in Seq(EntryType), q # <<>>, NEW s, NEW r,
           Path(lease, pos, length, q, s, r)
    PROVE  \E t \in Point :
              /\ Leads(lease, pos, length, s, q[1], t)
              /\ Path(lease, pos, length, Tail(q), t, r)
              /\ \A e \in EntryType, p \in Point :
                    Leads(lease, pos, length, p, e, t)
                        => Path(lease, pos, length, [q EXCEPT ![1] = e], p, r)
<1>1. PICK points \in Seq(Point) :
         Chain(points, lease, pos, length, q) /\ points[1] = s /\ points[Len(q) + 1] = r
  BY DEF Path
<1> DEFINE n == Len(q)
           rest == Tail(points)
<1>2. /\ Len(points) = n + 1 /\ n \in Nat \ {0}
      /\ \A i \in 1..n : Leads(lease, pos, length, points[i], q[i], points[i + 1])
  BY <1>1 DEF Chain
<1>3. Len(Tail(q)) = n - 1 /\ \A i \in 1..n - 1 : Tail(q)[i] = q[i + 1]
  BY HeadTailProperties
<1>4. /\ rest \in Seq(Point) /\ Len(rest) = n
      /\ \A i \in 1..n : rest[i] = points[i + 1]
  <2>1. points # <<>> /\ Len(points) - 1 = n
    BY <1>2
  <2> QED BY <2>1, HeadTailProperties
<1>5. PICK t \in Point : t = points[2]
  <2>1. 2 \in 1..Len(points)
    BY <1>2
  <2> QED BY <2>1
<1>6. Leads(lease, pos, length, s, q[1], t)
  <2>1. 1 \in 1..n /\ 1 + 1 = 2
    BY <1>2
  <2> QED BY <1>1, <1>2, <1>5, <2>1
<1> HIDE DEF n, rest
<1>7. Path(lease, pos, length, Tail(q), t, r)
  <2>1. ASSUME NEW i \in 1..n - 1
        PROVE  Leads(lease, pos, length, rest[i], Tail(q)[i], rest[i + 1])
    <3>1. i \in 1..n /\ i + 1 \in 1..n
      BY <1>2
    <3>2. Leads(lease, pos, length, points[i + 1], q[i + 1], points[(i + 1) + 1])
      BY <1>2, <3>1
    <3> QED BY <1>3, <1>4, <3>1, <3>2
  <2>2. rest[1] = t /\ rest[n] = r /\ (n - 1) + 1 = n
    <3>1. 1 \in 1..n /\ n \in 1..n /\ 1 + 1 = 2 /\ (n - 1) + 1 = n
      BY <1>2
    <3>2. points[n + 1] = r
      BY <1>1 DEF n
    <3> QED BY <1>4, <1>5, <3>1, <3>2
  <2>3. Chain(rest, lease, pos, length, Tail(q))
    BY <1>3, <1>4, <2>1, <2>2 DEF Chain
  <2> QED BY <1>3, <1>4, <2>2, <2>3 DEF Path
<1>8. ASSUME NEW e \in EntryType, NEW p \in Point, Leads(lease, pos, length, p, e, t)
      PROVE  Path(lease, pos, length, [q EXCEPT ![1] = e], p, r)
  <2> DEFINE other == [points EXCEPT ![1] = p]
             new == [q EXCEPT ![1] = e]
  <2>1. /\ other \in Seq(Point) /\ Len(other) = n + 1 /\ other[1] = p
        /\ \A i \in 2..n + 1 : other[i] = points[i]
    BY <1>2, ExceptSeq
  <2>2. Len(new) = n /\ new[1] = e /\ \A i \in 2..n : new[i] = q[i]
    BY <1>2, ExceptSeq DEF n
  <2> HIDE DEF other, new
  <2>3. ASSUME NEW i \in 1..n PROVE Leads(lease, pos, length, other[i], new[i], other[i + 1])
    <3>1. CASE i = 1
      <4>1. other[2] = t /\ i + 1 = 2
        BY <1>2, <1>5, <2>1, <3>1
      <4> QED BY <1>8, <2>1, <2>2, <3>1, <4>1
    <3>2. CASE i # 1
      <4>1. i \in 2..n /\ i \in 2..n + 1 /\ i + 1 \in 2..n + 1
        BY <1>2, <3>2
      <4> QED BY <1>2, <2>1, <2>2, <4>1
    <3> QED BY <3>1, <3>2
  <2>4. other[n + 1] = r
    <3>1. n + 1 \in 2..n + 1 /\ points[n + 1] = r
      BY <1>1, <1>2 DEF n
    <3> QED BY <2>1, <3>1
  <2>5. Chain(other, lease, pos, length, new)
    BY <2>1, <2>2, <2>3 DEF Chain
  <2>6. Path(lease, pos, length, new, p, r)
    BY <2>1, <2>2, <2>4, <2>5 DEF Path
  <2> QED BY <2>6 DEF new
<1> QED BY <1>6, <1>7, <1>8

\* An end mark changes nothing that is heard.
LEMMA SamePath ==
    ASSUME NEW lease, NEW pos, NEW length, NEW q \in Seq(EntryType), NEW new, NEW s, NEW r,
           Path(lease, pos, length, q, s, r), Len(new) = Len(q),
           \A i \in 1..Len(q) : /\ new[i].from = q[i].from /\ new[i].frames = q[i].frames
                                /\ new[i].times = q[i].times
    PROVE  Path(lease, pos, length, new, s, r)
<1>1. PICK points \in Seq(Point) :
         Chain(points, lease, pos, length, q) /\ points[1] = s /\ points[Len(q) + 1] = r
  BY DEF Path
<1>2. ASSUME NEW i \in 1..Len(q)
      PROVE  Leads(lease, pos, length, points[i], new[i], points[i + 1])
  <2>1. Leads(lease, pos, length, points[i], q[i], points[i + 1])
    BY <1>1 DEF Chain
  <2> QED BY <2>1 DEF Leads, Repeats, Streams
<1>3. Chain(points, lease, pos, length, new)
  BY <1>1, <1>2 DEF Chain
<1> QED BY <1>1, <1>3 DEF Path


\* Up to where a playback has submitted that has read k frames of a play, with l
\* plays to follow: at the end of the play it is at the next one's beginning.
StreamedTo(k, l, length) ==
    IF k = length /\ l # 0 THEN PointAt(0, Fewer(l)) ELSE PointAt(k, l)

\* ... and up to where one that has n plays of the cached PCM left to submit.
RepeatedTo(n, length) == IF n > 0 THEN PointAt(0, n - 1) ELSE PointAt(length, 0)

\* A read's frames begin where the playback had submitted to.
LEMMA StreamedOn ==
    ASSUME NEW pos \in Nat, NEW length \in Nat, NEW k \in Nat, NEW n \in Nat \ {0},
           k + n <= length, NEW l \in Nat \cup {-1},
           NEW e, e.times = 1, e.from = pos + k, e.frames = n
    PROVE  /\ StreamedTo(k + n, l, length) \in Point
           /\ Streams(pos, length, StreamedTo(k, l, length), e,
                    StreamedTo(k + n, l, length))
<1>1. StreamedTo(k, l, length) = PointAt(k, l)
  BY DEF StreamedTo
<1>2. k + n \in Nat /\ Fewer(l) \in Nat \cup {-1}
  BY DEF Fewer
<1>3. StreamedTo(k + n, l, length) \in Point
  BY <1>2, PointFields DEF StreamedTo
<1>4. PointAt(k, l).heard = k /\ PointAt(k, l).left = l
  BY PointFields
<1>5. After(length, PointAt(k, l), n) = StreamedTo(k + n, l, length)
  BY <1>4 DEF After, StreamedTo
<1>6. Streams(pos, length, PointAt(k, l), e, StreamedTo(k + n, l, length))
  BY <1>4, <1>5 DEF Streams
<1> QED BY <1>1, <1>3, <1>6

\* A submission of n of the plays begins there, too.
LEMMA RepeatedOn ==
    ASSUME NEW pos \in Nat, NEW length \in Nat \ {0}, NEW m \in Nat, NEW n \in Nat \ {0},
           n <= m,
           NEW e, e.times = n, e.from = pos, e.frames = length
    PROVE  /\ RepeatedTo(m - n, length) \in Point
           /\ Repeats(pos, length, RepeatedTo(m, length), e, RepeatedTo(m - n, length))
<1>1. RepeatedTo(m, length) = PointAt(0, m - 1) /\ m - 1 \in Nat
  BY DEF RepeatedTo
<1>2. PointAt(0, m - 1).heard = 0 /\ PointAt(0, m - 1).left = m - 1
  BY PointFields
<1>3. RepeatedTo(m - n, length) = IF n <= m - 1 THEN PointAt(0, (m - 1) - n) ELSE PointAt(length, 0)
  <2>1. m - n > 0 <=> n <= m - 1
    BY <1>1
  <2>2. (m - n) - 1 = (m - 1) - n
    BY <1>1
  <2> QED BY <2>1, <2>2 DEF RepeatedTo
<1>4. RepeatedTo(m - n, length) \in Point
  <2>1. m - n \in Nat /\ (m - n > 0 => (m - n) - 1 \in Nat)
    OBVIOUS
  <2> QED BY <2>1, PointFields DEF RepeatedTo
<1>5. Repeats(pos, length, PointAt(0, m - 1), e, RepeatedTo(m - n, length))
  <2>1. ~(e.times < 0) /\ 0 < e.times /\ e.times <= (m - 1) + 1
    BY <1>1
  <2> QED BY <1>1, <1>2, <1>3, <2>1 DEF Repeats
<1> QED BY <1>1, <1>4, <1>5

\* When h frames of a play have been heard and l plays follow it, the frames of the first buffer are the ones that are expected, and at most the rest
\* of the play; what is then left of the buffer begins where they end.
LEMMA HeardStream ==
    ASSUME NEW pos \in Nat, NEW length \in Nat, NEW h \in Nat, NEW l \in Nat \cup {-1},
           NEW e \in EntryType, NEW t, Streams(pos, length, PointAt(h, l), e, t)
    PROVE  /\ e.from = pos + h /\ e.times = 1
           /\ e.frames \in 1..length - h
           /\ t = IF h + e.frames = length /\ l # 0
                  THEN PointAt(0, Fewer(l)) ELSE PointAt(h + e.frames, l)
<1>1. PointAt(h, l).heard = h /\ PointAt(h, l).left = l
  BY PointFields
<1>2. e.frames \in Nat
  BY DEF EntryType
<1> QED BY <1>1, <1>2 DEF Streams, After

\* Of the cached PCM it is the whole play that is heard, and one repetition is used up:
LEMMA HeardRepeat ==
    ASSUME NEW pos \in Nat, NEW length \in Nat,
           NEW h \in Nat, NEW l \in Nat \cup {-1},
           NEW e \in EntryType, NEW t, Repeats(pos, length, PointAt(h, l), e, t)
    PROVE  /\ e.from = pos + h /\ h = 0 /\ length > 0
           /\ e.frames = length /\ e.frames \in 1..length - h
           /\ e.times \in Nat \cup {-1}
           /\ e.times < 0 => l < 0
           /\ e.times >= 0 =>
                  /\ e.times > 0 /\ e.times <= l + 1
                  /\ t = IF e.times <= l THEN PointAt(0, l - e.times) ELSE PointAt(length, 0)
<1>1. /\ PointAt(h, l).heard = h /\ PointAt(h, l).left = l
  BY PointFields
<1>2. e.frames \in Nat /\ e.times \in Nat \cup {-1}
  BY DEF EntryType
<1>4. /\ e.from = pos /\ e.frames = length /\ length > 0 /\ h = 0
      /\ IF e.times < 0 THEN l < 0
         ELSE /\ 0 < e.times /\ e.times <= l + 1
              /\ t = IF e.times <= l THEN PointAt(0, l - e.times) ELSE PointAt(length, 0)
  BY <1>1 DEF Repeats
<1>5. e.times >= 0 <=> ~(e.times < 0)
  BY <1>2
<1> QED BY <1>2, <1>4, <1>5

\* the others lead from the next play's beginning to the same point.
LEMMA LessRepeated ==
    ASSUME NEW pos \in Nat, NEW length \in Nat \ {0},
           NEW l \in Nat \cup {-1}, NEW times \in Nat, times > 1, times <= l + 1,
           NEW e, e.from = pos, e.frames = length, e.times = times - 1,
           NEW t, t = IF times <= l THEN PointAt(0, l - times) ELSE PointAt(length, 0)
    PROVE  Repeats(pos, length, PointAt(0, l - 1), e, t)
<1>1. PointAt(0, l - 1).heard = 0 /\ PointAt(0, l - 1).left = l - 1
  BY PointFields
<1>2. /\ ~(e.times < 0) /\ 0 < e.times /\ e.times <= (l - 1) + 1
      /\ l - times = (l - 1) - e.times
  OBVIOUS
<1>3. times <= l <=> e.times <= l - 1
  OBVIOUS
<1>4. t = IF e.times <= l - 1 THEN PointAt(0, (l - 1) - e.times) ELSE PointAt(length, 0)
  BY <1>2, <1>3
<1> QED BY <1>1, <1>2, <1>4 DEF Repeats

--------------------------------------------------------------------------------
(***************************************************************************)
(* What the worker has submitted is what is to be heard.                   *)
(***************************************************************************)

Streaming == at \in {"fill", "idle", "update", "reclaim"} /\ ~leased
Submitting == at \in {"fill", "idle", "update", "reclaim"} /\ leased

\* A streaming playback reads within the range and counts what it has left of it.
StreamPosition ==
    Streaming =>
        /\ input.pos <= decoder.next /\ decoder.next - input.pos <= RangeLength
        /\ remaining = IF input.duration < 0 THEN -1
                       ELSE input.duration - (decoder.next - input.pos)

\* The point up to which the worker has submitted.
Submitted(r) ==
    /\ at \in {"open", "begin", "seek"} => r = PointAt(0, loops) /\ ~eof
    /\ at = "restart" => loops # 0 /\ r = PointAt(0, Fewer(loops)) /\ ~eof
    /\ Streaming => /\ r = StreamedTo(decoder.next - input.pos, loops, RangeLength)
                    /\ eof => decoder.next - input.pos = RangeLength /\ loops = 0
    /\ Submitting => IF input.loops < 0 THEN plays = 0 /\ queue # <<>>
                     ELSE r = RepeatedTo(plays, RangeLength)

\* The voice's queue leads from what is heard to what is submitted.
QueueLeadsOn ==
    HasVoice \/ at = "open" =>
        \E r \in Point :
            /\ Path(leased, input.pos, RangeLength, queue, PointAt(heard, left), r)
            /\ RangeLength > 0 => Submitted(r)

\* Nothing is cached or played of a range without frames.
NothingOfNothing == Cached \/ buffers # <<>> \/ ~creating => RangeLength > 0

\* The plays are counted once: by the loops or by the submissions.
PlaysAreCounted ==
    /\ at = "open" => plays = 0
    /\ heard \in Nat
    /\ left < 0 <=> input.loops < 0

\* A playback that has finished has been heard to the end.
FinishedIsHeard ==
    outcome = "finished" =>
        /\ at \in {"closing", "freeing", "closed"}
        /\ queue = <<>> /\ left = 0 /\ heard = RangeLength

HearInv ==
    /\ StreamPosition /\ QueueLeadsOn
    /\ NothingOfNothing /\ PlaysAreCounted /\ FinishedIsHeard

\* A read of a stream adds frames of the range, and the last one has the rest.
LEMMA StreamReads ==
    ASSUME RangeTypeOK, PlayTypeOK, DecoderPosition, AssetIsRange, StreamPosition, Filling,
           NEW n, n = Delivered(ToRead, Rest),
           NEW k, k = decoder.next - input.pos
    PROVE  /\ n \in Nat /\ k \in Nat
           /\ k + n <= RangeLength /\ RangeLength \in Nat
           /\ remaining = IF input.duration < 0 THEN -1 ELSE input.duration - k
           /\ remaining >= 0 => n <= remaining
           /\ Finished(ToRead) \/ (remaining >= 0 /\ remaining = n) => k + n = RangeLength
<1>1. /\ input \in Inputs /\ input.frames \in Nat /\ input.pos \in Nat
      /\ input.duration \in Nat \cup {-1} /\ decoder.next \in Nat
  BY TypeGroups, InputFields DEF RangeTypeOK, SourceTypes, DecoderType
<1>2. /\ ToRead \in Nat /\ (remaining >= 0 => ToRead <= remaining)
      /\ n \in Nat /\ n <= ToRead
  BY FillReads
<1>3. /\ k \in Nat /\ k <= RangeLength
      /\ remaining = IF input.duration < 0 THEN -1 ELSE input.duration - k
      /\ decoder.next = input.pos + k
  BY <1>1 DEF StreamPosition, Streaming, Filling
<1>4. RangeLength \in Nat
  BY <1>1 DEF RangeLength, Smaller
<1>5. decoder.kind \in {"file", "memory"} /\ ~leased /\ Working
  BY TypeGroups DEF Filling, Working, DecoderPosition, SourceTypes, DecoderType
<1>6. input.duration < 0 \/ k + n <= input.duration
  <2>1. CASE remaining >= 0
    BY <1>1, <1>2, <1>3, <2>1
  <2>2. CASE ~(remaining >= 0)
    <3>1. RangeLength <= input.duration \/ input.duration < 0
      BY <1>1 DEF RangeLength, Smaller
    <3> QED BY <1>1, <1>3, <1>4, <2>2, <3>1
  <2> QED BY <2>1, <2>2
<1>7. CASE decoder.kind = "file"
  <2>1. /\ decoder.next + n <= input.frames
        /\ Finished(ToRead) => decoder.next + n = input.frames
    BY <1>2, <1>5, <1>7, PlaybackReads
  <2>2. k + n \in Nat /\ input.pos + (k + n) <= input.frames
    BY <1>1, <1>2, <1>3, <2>1
  <2>3. k + n <= RangeLength
    BY <1>1, <1>6, <2>2, InRange
  <2>4. ASSUME Finished(ToRead) \/ (remaining >= 0 /\ remaining = n)
        PROVE  k + n = RangeLength
    <3>1. input.pos + (k + n) = input.frames \/ k + n = input.duration
      BY <1>1, <1>2, <1>3, <2>1, <2>4
    <3> QED BY <1>1, <1>6, <2>2, <3>1, WholeRange
  <2> QED BY <1>2, <1>3, <1>4, <2>3, <2>4
<1>8. CASE decoder.kind = "memory"
  <2>1. asset.from = input.pos /\ asset.frames = RangeLength
    <3>1. asset = Stretch(input.pos, RangeLength)
      BY <1>8 DEF DecoderPosition, AssetIsRange
    <3> QED BY <1>1, <1>4, <3>1, StretchIs
  <2>2. Rest = RangeLength - k /\ (Finished(ToRead) <=> Rest <= ToRead)
    <3>1. decoder.kind # "file"
      BY <1>8
    <3>2. Rest = asset.from + asset.frames - decoder.next
      BY <3>1 DEF Rest
    <3>3. (Finished(ToRead) <=> Rest <= ToRead)
      BY <3>1 DEF Finished, MemoryFinished
    <3> QED BY <1>1, <1>3, <1>4, <2>1, <3>2, <3>3
  <2>3. n = IF ToRead <= RangeLength - k THEN ToRead ELSE RangeLength - k
    BY <2>2 DEF Delivered, Smaller
  <2>4. k + n <= RangeLength
    BY <1>2, <1>3, <1>4, <2>3
  <2>5. ASSUME Finished(ToRead) PROVE k + n = RangeLength
    <3>1. RangeLength - k <= ToRead
      BY <2>2, <2>5
    <3> QED BY <1>2, <1>3, <1>4, <2>3, <3>1
  <2>6. ASSUME remaining >= 0, remaining = n PROVE k + n = RangeLength
    <3>1. RangeLength <= input.duration \/ input.duration < 0
      BY <1>1 DEF RangeLength, Smaller
    <3>2. k + n = input.duration
      BY <1>1, <1>3, <2>6
    <3> QED BY <1>1, <1>2, <1>3, <1>4, <2>4, <3>1, <3>2
  <2> QED BY <1>2, <1>3, <1>4, <2>4, <2>5, <2>6
<1> QED BY <1>5, <1>7, <1>8

\* The steps of the worker, its commands and the clock that neither read nor submit.
Quiet ==
    \/ Filled \/ Tick \/ UpdateFadeOut \/ Reclaim \/ Refill \/ Stop
    \/ SetPosition \/ Clock
    \/ \E time \in FadeTimes : StartFadeOut(time)

Flow == {"fill", "idle", "update", "reclaim"}

\* Such a step goes on in the same way, or closes.
LEMMA QuietSteps ==
    ASSUME Quiet
    PROVE  /\ UNCHANGED <<rangeVars, decoder, discard, remaining, loops, leased, plays,
                          queue, heard, left>>
           /\ leased \/ eof' = eof
           /\ at' = at \/ at' = "closing" \/ (at \in Flow /\ at' \in Flow)
BY DEF Quiet, Filled, Tick, UpdateFadeOut, Reclaim, Refill, Stop, SetPosition, Clock,
       StartFadeOut, End, Flow, source, voice

\* The range stays.
LEMMA PlayKeepsRange ==
    ASSUME PlayNext
    PROVE  input' = input /\ RangeLength' = RangeLength
BY DEF PlayNext, WorkerStep, PlayCached, PlayStreamed, Seek, Sought, Restart,
   FillCached, Fill, Filled, Tick, UpdateFadeOut, Reclaim, Refill, DestroyVoice,
   FreeAll, Fails, Stop, StartFadeOut, SetPosition, Clock, VoicePlays, rangeVars, RangeLength

\* Fill, as its arithmetic needs it.
LEMMA FillStep ==
    ASSUME RangeTypeOK, PlayTypeOK, DecoderPosition, AssetIsRange, StreamPosition, Fill,
           NEW n, n = Delivered(ToRead, Rest),
           NEW k, k = decoder.next - input.pos
    PROVE  /\ n \in Nat /\ k \in Nat /\ k + n <= RangeLength /\ RangeLength \in Nat
           /\ at' \in {"fill", "restart"} /\ at = "fill" /\ ~leased /\ ~eof /\ leased' = leased
           /\ decoder'.next - input.pos = k + n
           /\ remaining' = IF input.duration < 0 THEN -1 ELSE input.duration - (k + n)
           /\ UNCHANGED <<loops, heard, left, creating, outcome>>
           /\ at' = "restart" => k + n = RangeLength /\ loops # 0 /\ ~eof'
           /\ eof' => k + n = RangeLength /\ loops = 0
<1> DEFINE over == Finished(ToRead) \/ (remaining >= 0 /\ remaining = n)
<1>1. /\ Filling
      /\ decoder' = [decoder EXCEPT !.next = @ + n]
      /\ remaining' = IF remaining >= 0 THEN remaining - n ELSE remaining
      /\ at' = IF over /\ loops # 0 THEN "restart" ELSE "fill"
      /\ eof' = (over /\ loops = 0)
      /\ UNCHANGED <<loops, leased, heard, left, creating, outcome>>
  BY DEF Fill
<1>2. /\ n \in Nat /\ k \in Nat /\ k + n <= RangeLength /\ RangeLength \in Nat
      /\ remaining = IF input.duration < 0 THEN -1 ELSE input.duration - k
      /\ remaining >= 0 => n <= remaining
      /\ over => k + n = RangeLength
  BY <1>1, StreamReads
<1>3. /\ input.pos \in Nat /\ input.duration \in Nat \cup {-1}
      /\ decoder \in DecoderType /\ decoder.next \in Nat
  BY TypeGroups, InputFields DEF RangeTypeOK, SourceTypes, DecoderType
<1>4. decoder'.next = decoder.next + n
  BY <1>1, <1>2, <1>3, MovedDecoderIs
<1>5. decoder'.next - input.pos = k + n
  BY <1>2, <1>3, <1>4
<1>6. remaining \in Nat \cup {-1}
  BY TypeGroups DEF SourceTypes
<1>7. remaining' = IF input.duration < 0 THEN -1 ELSE input.duration - (k + n)
  <2>1. CASE input.duration < 0
    BY <1>1, <1>2, <2>1
  <2>2. CASE ~(input.duration < 0)
    <3>1. RangeLength <= input.duration
      BY <1>3, <2>2, InputFields DEF RangeTypeOK, RangeLength, Smaller
    <3>2. remaining = input.duration - k /\ remaining >= 0
      BY <1>2, <1>3, <2>2, <3>1
    <3> QED BY <1>1, <1>2, <1>3, <2>2, <3>2
  <2> QED BY <2>1, <2>2
<1> HIDE DEF over
<1>8. at' = "restart" => k + n = RangeLength /\ loops # 0 /\ ~eof'
  BY <1>1, <1>2
<1>9. eof' => k + n = RangeLength /\ loops = 0
  BY <1>1, <1>2
<1>10. at = "fill" /\ ~leased /\ ~eof /\ at' \in {"fill", "restart"}
  BY <1>1 DEF Filling
<1> QED BY <1>1, <1>2, <1>5, <1>7, <1>8, <1>9, <1>10

\* A streaming playback stays in its range.
LEMMA PlayKeepsStream ==
    ASSUME RangeTypeOK, PlayTypeOK, RangeTypeOK', PlayTypeOK', DecoderPosition, AssetIsRange,
           StreamPosition, PlayNext
    PROVE  StreamPosition'
<1>1. /\ input.pos \in Nat /\ input.duration \in Nat \cup {-1}
      /\ RangeLength \in Nat /\ input' = input /\ RangeLength' = RangeLength
  BY InputFields, PlayKeepsRange DEF RangeTypeOK, RangeLength, Smaller
<1>g. ASSUME NEW k \in Nat, k <= RangeLength, decoder'.next = input.pos + k,
             remaining' = IF input.duration < 0 THEN -1 ELSE input.duration - k
      PROVE  StreamPosition'
  <2>1. decoder'.next - input.pos = k /\ input.pos <= decoder'.next
    BY <1>1, <1>g
  <2> QED BY <1>1, <1>g, <2>1 DEF StreamPosition
<1>n. ASSUME ~Streaming' PROVE StreamPosition'
  BY <1>n DEF StreamPosition
<1>2. CASE PlayCached \/ FillCached
  <2>1. CASE PlayCached
    <3>1. leased' = TRUE
      BY <2>1 DEF PlayCached
    <3> QED BY <1>n, <3>1 DEF Streaming
  <2>2. CASE FillCached
    <3>1. leased' = leased /\ leased
      BY <2>2 DEF FillCached
    <3> QED BY <1>n, <3>1 DEF Streaming
  <2> QED BY <1>2, <2>1, <2>2
<1>3. CASE PlayStreamed \/ Seek \/ DestroyVoice \/ FreeAll \/ Fails
  BY <1>3, <1>n DEF PlayStreamed, Seek, DestroyVoice, FreeAll, Fails, End, Streaming
<1>4. CASE Sought
  <2>1. decoder'.next = input.pos /\ remaining' = input.duration
    <3>1. /\ at \in {"begin", "seek"} /\ discard = 0 /\ UNCHANGED <<decoder, remaining>>
      BY <1>4 DEF Sought, source
    <3>2. decoder.next + discard = input.pos /\ decoder.next \in Nat
      BY <3>1, TypeGroups DEF DecoderPosition, SourceTypes, DecoderType
    <3> QED BY <3>1, <3>2 DEF DecoderPosition
  <2> QED BY <1>1, <1>g, <2>1
<1>5. CASE Restart
  <2>1. CASE Cached /\ ~input.filtered
    <3>1. decoder' = [kind |-> "memory", next |-> asset.from] /\ remaining' = input.duration
      BY <1>5, <2>1 DEF Restart
    <3>2. asset.from = input.pos
      BY <1>1, <2>1, StretchIs DEF AssetIsRange
    <3>3. decoder'.next = input.pos
      BY <3>1, <3>2
    <3> QED BY <1>1, <1>g, <3>1, <3>3
  <2>2. CASE ~(Cached /\ ~input.filtered)
    BY <1>5, <1>n, <2>2 DEF Restart, Streaming
  <2> QED BY <2>1, <2>2
<1>6. CASE Fill
  <2>1. PICK n : n = Delivered(ToRead, Rest)
    OBVIOUS
  <2>2. PICK k : k = decoder.next - input.pos
    OBVIOUS
  <2>3. /\ n \in Nat /\ k \in Nat /\ k + n <= RangeLength
        /\ decoder'.next - input.pos = k + n
        /\ remaining' = IF input.duration < 0 THEN -1 ELSE input.duration - (k + n)
    BY <1>6, <2>1, <2>2, FillStep
  <2>4. decoder'.next \in Nat
    BY DEF PlayTypeOK
  <2>5. k + n \in Nat /\ decoder'.next = input.pos + (k + n)
    BY <1>1, <2>3, <2>4
  <2> QED BY <1>g, <2>3, <2>5
<1>7. CASE Quiet
  <2>1. CASE Streaming'
    <3>1. Streaming
      BY <1>7, <2>1, QuietSteps DEF Streaming, Flow
    <3>2. UNCHANGED <<decoder, remaining>>
      BY <1>7, QuietSteps
    <3> QED BY <1>1, <3>1, <3>2 DEF StreamPosition
  <2> QED BY <1>n, <2>1
<1>8. CASE VoicePlays
  BY <1>1, <1>8 DEF VoicePlays, StreamPosition, Streaming, source
<1> QED BY <1>2, <1>3, <1>4, <1>5, <1>6, <1>7, <1>8 DEF PlayNext, WorkerStep, Quiet

\* The listener expects the frames that the voice plays, and what is left of the queue
\* leads on from where they end.
LEMMA VoiceIsHeard ==
    ASSUME RangeTypeOK, PlayTypeOK, QueueLeadsOn, PlaysAreCounted, VoicePlays
    PROVE  /\ queue # <<>>
           /\ queue[1].frames \in 1..RangeLength - heard
           /\ IF heard + queue[1].frames = RangeLength /\ left # 0
              THEN heard' = 0 /\ left' = Fewer(left)
              ELSE heard' = heard + queue[1].frames /\ left' = left
           /\ heard' \in Nat /\ left' \in Nat \cup {-1} /\ (left' < 0 <=> left < 0)
           /\ leased /\ left < 0 => queue' # <<>>
           /\ \E r \in Point :
                 /\ Path(leased, input.pos, RangeLength, queue', PointAt(heard', left'), r)
                 /\ RangeLength > 0 => Submitted(r)
<1>1. /\ input.pos \in Nat /\ RangeLength \in Nat
      /\ queue \in Seq(EntryType) /\ heard \in Nat /\ left \in Nat \cup {-1}
      /\ leased \in BOOLEAN
  BY TypeGroups, InputFields
     DEF RangeTypeOK, RangeLength, Smaller, BufferTypes, HeardTypes, PlaysAreCounted,
         ControlTypes
<1>2. HasVoice /\ queue # <<>> /\ Listen(queue[1].from, queue[1].frames)
      /\ queue' = IF queue[1].times = 1 THEN Tail(queue)
                  ELSE IF queue[1].times < 0 THEN queue
                  ELSE [queue EXCEPT ![1].times = @ - 1]
  BY DEF VoicePlays
<1>3. PICK e \in EntryType : e = queue[1]
  BY <1>1, <1>2
<1>4. /\ e.frames \in Nat /\ e.times \in Nat \cup {-1}
  BY DEF EntryType
<1>5. PICK r \in Point :
         /\ Path(leased, input.pos, RangeLength, queue, PointAt(heard, left), r)
         /\ RangeLength > 0 => Submitted(r)
  BY <1>2 DEF QueueLeadsOn
<1>6. PICK t \in Point :
         /\ Leads(leased, input.pos, RangeLength, PointAt(heard, left), e, t)
         /\ Path(leased, input.pos, RangeLength, Tail(queue), t, r)
         /\ \A new \in EntryType, p \in Point :
               Leads(leased, input.pos, RangeLength, p, new, t)
                   => Path(leased, input.pos, RangeLength, [queue EXCEPT ![1] = new], p, r)
  BY <1>1, <1>2, <1>3, <1>5, ShorterPath
<1>7. e.from = input.pos + heard /\ e.frames \in 1..RangeLength - heard
  <2>1. CASE leased
    <3>1. Repeats(input.pos, RangeLength, PointAt(heard, left), e, t)
      BY <1>6, <2>1 DEF Leads
    <3> QED BY <1>1, <3>1, HeardRepeat
  <2>2. CASE ~leased
    <3>1. Streams(input.pos, RangeLength, PointAt(heard, left), e, t)
      BY <1>6, <2>2 DEF Leads
    <3> QED BY <1>1, <3>1, HeardStream
  <2> QED BY <2>1, <2>2
<1>8. IF heard + e.frames = RangeLength /\ left # 0
      THEN heard' = 0 /\ left' = Fewer(left)
      ELSE heard' = heard + e.frames /\ left' = left
  BY <1>2, <1>3, <1>7 DEF Listen, Fewer
<1>9. heard' \in Nat /\ left' \in Nat \cup {-1} /\ (left' < 0 <=> left < 0)
  BY <1>1, <1>4, <1>8 DEF Fewer
<1>t. e.times = 1 => queue' = Tail(queue)
  BY <1>2, <1>3
<1>10. (leased /\ left < 0 => queue' # <<>>)
       /\ Path(leased, input.pos, RangeLength, queue', PointAt(heard', left'), r)
  <2>1. CASE ~leased
    <3>0. Streams(input.pos, RangeLength, PointAt(heard, left), e, t)
      BY <1>6, <2>1 DEF Leads
    <3>1. /\ e.times = 1
          /\ t = IF heard + e.frames = RangeLength /\ left # 0
                 THEN PointAt(0, Fewer(left)) ELSE PointAt(heard + e.frames, left)
      BY <1>1, <3>0, HeardStream
    <3>2. t = PointAt(heard', left')
      BY <1>8, <3>1
    <3> QED BY <1>6, <1>t, <2>1, <3>1, <3>2
  <2>2. CASE leased
    <3>0. Repeats(input.pos, RangeLength, PointAt(heard, left), e, t)
      BY <1>6, <2>2 DEF Leads
    <3>1. /\ heard = 0 /\ RangeLength > 0 /\ e.frames = RangeLength
          /\ e.times < 0 => left < 0
          /\ e.times >= 0 =>
                 /\ e.times > 0 /\ e.times <= left + 1
                 /\ t = IF e.times <= left THEN PointAt(0, left - e.times)
                        ELSE PointAt(RangeLength, 0)
      BY <1>1, <3>0, HeardRepeat
    <3>r. IF left # 0 THEN heard' = 0 /\ left' = Fewer(left)
          ELSE heard' = RangeLength /\ left' = left
      BY <1>1, <1>8, <3>1
    <3>l. left > 0 => heard' = 0 /\ left' = left - 1
      BY <1>1, <3>r DEF Fewer
    <3>2. CASE e.times = 1
      <4>1. left \in Nat
        BY <1>1, <3>1, <3>2
      <4>2. t = IF left > 0 THEN PointAt(0, left - 1) ELSE PointAt(RangeLength, 0)
        BY <3>1, <3>2, <4>1
      <4>3. t = PointAt(heard', left')
        <5>1. CASE left > 0
          BY <3>l, <4>2, <5>1
        <5>2. CASE left = 0
          BY <3>r, <4>2, <5>2
        <5> QED BY <4>1, <5>1, <5>2
      <4>4. ~(left < 0)
        BY <4>1
      <4> QED BY <1>6, <1>t, <3>2, <4>3, <4>4
    <3>3. CASE e.times = -1
      <4>1. queue' = queue
        BY <1>2, <1>3, <3>3
      <4>2. left = -1 /\ heard' = heard /\ left' = left
        BY <1>1, <3>1, <3>3, <3>r DEF Fewer
      <4> QED BY <1>2, <1>5, <4>1, <4>2
    <3>4. CASE e.times > 1
      <4> DEFINE less == [e EXCEPT !.times = @ - 1]
      <4>1. /\ less \in EntryType /\ less.from = e.from /\ less.frames = e.frames
            /\ less.times = e.times - 1
        BY <1>4, <3>4 DEF EntryType
      <4>2. queue' = [queue EXCEPT ![1] = less]
        BY <1>2, <1>3, <1>4, <3>4
      <4> HIDE DEF less
      <4>3. left > 0 /\ left \in Nat
        BY <1>1, <1>4, <3>1, <3>4
      <4>4. heard' = 0 /\ left' = left - 1
        BY <3>l, <4>3
      <4>5. PointAt(0, left - 1) \in Point
        BY <4>3, PointFields
      <4>6. Path(leased, input.pos, RangeLength, queue', PointAt(0, left - 1), r)
        <5>1. Repeats(input.pos, RangeLength, PointAt(0, left - 1), less, t)
          <6>1. /\ e.times \in Nat /\ e.times <= left + 1 /\ e.from = input.pos
                /\ t = IF e.times <= left THEN PointAt(0, left - e.times)
                       ELSE PointAt(RangeLength, 0)
            BY <1>1, <1>4, <1>7, <3>1, <3>4
          <6>2. RangeLength \in Nat \ {0} /\ e.times > 1
            BY <1>1, <3>1, <3>4
          <6>3. less.from = input.pos /\ less.frames = RangeLength /\ less.times = e.times - 1
            BY <3>1, <4>1, <6>1
          <6> QED BY <1>1, <6>1, <6>2, <6>3, LessRepeated
        <5>2. Leads(leased, input.pos, RangeLength, PointAt(0, left - 1), less, t)
          BY <2>2, <5>1 DEF Leads
        <5> QED BY <1>6, <4>1, <4>2, <4>5, <5>2
      <4>7. ~(left < 0)
        BY <4>3
      <4> QED BY <4>4, <4>6, <4>7
    <3> QED BY <1>4, <3>1, <3>2, <3>3, <3>4
  <2> QED BY <2>1, <2>2
<1> QED BY <1>2, <1>3, <1>5, <1>7, <1>8, <1>9, <1>10

\* Where the worker has submitted to after a step.
LEMMA SubmittedNext ==
    ASSUME NEW r, input' = input, RangeLength' = RangeLength,
           at' \in {"open", "begin", "seek"} => r = PointAt(0, loops') /\ ~eof',
           at' = "restart" => loops' # 0 /\ r = PointAt(0, Fewer(loops')) /\ ~eof',
           Streaming' => /\ r = StreamedTo(decoder'.next - input.pos, loops', RangeLength)
                         /\ eof' => decoder'.next - input.pos = RangeLength /\ loops' = 0,
           Submitting' => IF input.loops < 0 THEN plays' = 0 /\ queue' # <<>>
                          ELSE r = RepeatedTo(plays', RangeLength)
    PROVE  Submitted(r)'
BY DEF Submitted

\* It is enough to name the point that the queue leads to.
LEMMA QueueLeadsNext ==
    ASSUME NEW r \in Point, input' = input, RangeLength' = RangeLength,
           Path(leased', input.pos, RangeLength, queue', PointAt(heard', left'), r),
           RangeLength > 0 => Submitted(r)'
    PROVE  QueueLeadsOn'
BY DEF QueueLeadsOn

\* An end mark changes neither the frames of a buffer nor how often they are played.
LEMMA MarkedQueueLeads ==
    ASSUME queue \in Seq(EntryType), queue # <<>>
    PROVE  /\ Len(MarkedQueue) = Len(queue)
           /\ \A i \in 1..Len(queue) : /\ MarkedQueue[i].from = queue[i].from
                                       /\ MarkedQueue[i].frames = queue[i].frames
                                       /\ MarkedQueue[i].times = queue[i].times
<1>1. Len(queue) \in 1..Len(queue) /\ queue[Len(queue)] \in EntryType
  OBVIOUS
<1>2. PICK last \in 1..Len(queue) : last = Len(queue)
  BY <1>1
<1>3. PICK entry \in EntryType :
         /\ entry = [queue[last] EXCEPT !.end = TRUE]
         /\ entry.from = queue[last].from /\ entry.frames = queue[last].frames
         /\ entry.times = queue[last].times
  <2>1. PICK first \in EntryType : first = queue[last]
    BY <1>1, <1>2
  <2> DEFINE marked == [first EXCEPT !.end = TRUE]
  <2>2. /\ marked \in EntryType /\ marked.from = first.from
        /\ marked.frames = first.frames /\ marked.times = first.times
    BY DEF EntryType
  <2> QED BY <2>1, <2>2
<1>4. MarkedQueue = [queue EXCEPT ![last] = entry]
  BY <1>2, <1>3 DEF MarkedQueue
<1>5. /\ Len(MarkedQueue) = Len(queue)
      /\ \A i \in 1..Len(queue) : MarkedQueue[i] = IF i = last THEN entry ELSE queue[i]
  BY <1>4, ReplacedEntry
<1> QED BY <1>3, <1>5

\* Every step of the playback keeps what is submitted and what is heard in line.
LEMMA PlayKeepsQueue ==
    ASSUME RangeTypeOK, PlayTypeOK, RangeTypeOK', PlayTypeOK', DecoderPosition, VoiceInv,
           AssetIsRange, HearInv, PlayNext
    PROVE  QueueLeadsOn'
<1> USE DEF HearInv
<1>1. /\ input.pos \in Nat /\ RangeLength \in Nat /\ input.loops \in Nat \cup {-1}
      /\ queue \in Seq(EntryType) /\ heard \in Nat /\ left \in Nat \cup {-1}
      /\ loops \in Nat \cup {-1} /\ plays \in Nat /\ decoder.next \in Nat
      /\ leased \in BOOLEAN /\ eof \in BOOLEAN
  BY TypeGroups, InputFields
     DEF RangeTypeOK, RangeLength, Smaller, BufferTypes, HeardTypes, PlaysAreCounted,
         ControlTypes, SourceTypes, DecoderType
<1>i. input' = input /\ RangeLength' = RangeLength
  BY PlayKeepsRange
<1>c. ASSUME at' \in {"freeing", "closed"} PROVE QueueLeadsOn'
  BY <1>c DEF QueueLeadsOn, HasVoice
<1>d. ASSUME at' = "closing", NEW r PROVE Submitted(r)'
  BY <1>d, <1>i, SubmittedNext DEF Streaming, Submitting
<1>s. ASSUME HasVoice \/ at = "open", UNCHANGED <<leased, queue, heard, left>>,
             \A r \in Point : RangeLength > 0 /\ Submitted(r) => Submitted(r)'
      PROVE  QueueLeadsOn'
  <2>1. PICK r \in Point :
           /\ Path(leased, input.pos, RangeLength, queue, PointAt(heard, left), r)
           /\ RangeLength > 0 => Submitted(r)
    BY <1>s DEF QueueLeadsOn
  <2>2. Path(leased', input.pos, RangeLength, queue', PointAt(heard', left'), r)
    BY <1>s, <2>1
  <2>3. RangeLength > 0 => Submitted(r)'
    BY <1>s, <2>1
  <2> QED BY <1>i, <2>2, <2>3, QueueLeadsNext
<1>2. CASE DestroyVoice \/ FreeAll
  BY <1>2, <1>c DEF DestroyVoice, FreeAll
<1>3. CASE Fails
  <2>1. CASE at = "open"
    BY <1>3, <1>c, <2>1 DEF Fails
  <2>2. CASE at # "open"
    <3>1. HasVoice /\ at' = "closing" /\ UNCHANGED <<leased, queue, heard, left>>
      BY <1>3, <2>2 DEF Fails, HasVoice, voice
    <3> QED BY <1>d, <1>s, <3>1
  <2> QED BY <2>1, <2>2
<1>4. CASE PlayCached
  <2>1. /\ at = "open" /\ Cached /\ leased' = TRUE /\ at' = "fill" /\ queue = <<>>
        /\ plays = 0 /\ loops = input.loops
        /\ UNCHANGED <<heard, left>>
    BY <1>4 DEF PlayCached, VoiceInv, HasVoice, PlaysAreCounted
  <2>2. RangeLength > 0 /\ asset.from = input.pos /\ asset.frames = RangeLength
    <3>1. asset = Stretch(input.pos, RangeLength)
      BY <2>1 DEF AssetIsRange
    <3> QED BY <1>1, <2>1, <3>1, StretchIs DEF NothingOfNothing
  <2>3. PICK r \in Point :
           Path(leased, input.pos, RangeLength, <<>>, PointAt(heard, left), r) /\ Submitted(r)
    BY <2>1, <2>2 DEF QueueLeadsOn
  <2>4. PointAt(heard, left) = r /\ r = PointAt(0, loops)
    BY <2>1, <2>3, EmptyPath DEF Submitted
  <2>5. Path(leased', input.pos, RangeLength, <<>>, PointAt(heard', left'), r)
    BY <2>1, <2>4, EmptyPath
  <2>6. CASE loops < 0
    <3> DEFINE endless == Entry(asset.from, asset.frames, -1, FALSE)
    <3>1. queue' = <<endless>> /\ plays' = 0
      BY <1>4, <2>1, <2>6 DEF PlayCached
    <3>2. /\ endless \in EntryType /\ endless.from = input.pos
          /\ endless.frames = RangeLength /\ endless.times = -1
      BY <1>1, <2>2 DEF Entry, EntryType
    <3> HIDE DEF endless
    <3>3. queue' = Append(<<>>, endless) /\ queue' # <<>>
      BY <3>1
    <3>4. Repeats(input.pos, RangeLength, r, endless, r)
      BY <2>2, <2>4, <2>6, <3>2, PointFields DEF Repeats
    <3>5. Leads(leased', input.pos, RangeLength, r, endless, r)
      BY <2>1, <3>4 DEF Leads
    <3>6. <<>> \in Seq(EntryType)
      BY EmptySeq
    <3>7. Path(leased', input.pos, RangeLength, queue', PointAt(heard', left'), r)
      BY <2>5, <3>2, <3>3, <3>5, <3>6, LongerPath
    <3>8. Submitted(r)'
      <4>1. ~Streaming' /\ input.loops < 0
        BY <2>1, <2>6 DEF Streaming
      <4> QED BY <1>i, <2>1, <3>1, <3>3, <4>1, SubmittedNext
    <3> QED BY <1>i, <3>7, <3>8, QueueLeadsNext
  <2>7. CASE ~(loops < 0)
    <3>1. queue' = <<>> /\ plays' = loops + 1
      BY <1>4, <2>1, <2>7 DEF PlayCached
    <3>2. RepeatedTo(plays', RangeLength) = r
      BY <1>1, <2>4, <2>7, <3>1 DEF RepeatedTo
    <3>3. Submitted(r)'
      <4>1. ~Streaming' /\ ~(input.loops < 0)
        BY <2>1, <2>7 DEF Streaming
      <4> QED BY <1>i, <2>1, <3>2, <4>1, SubmittedNext
    <3> QED BY <1>i, <2>5, <3>1, <3>3, QueueLeadsNext
  <2> QED BY <2>6, <2>7
<1>5. CASE PlayStreamed
  <2>1. /\ at = "open" /\ UNCHANGED <<leased, queue, heard, left, eof>>
        /\ at' = "closing" \/ (at' = "begin" /\ loops' = loops)
    BY <1>5 DEF PlayStreamed, voice
  <2>2. ASSUME NEW r \in Point, Submitted(r) PROVE Submitted(r)'
    <3>1. CASE at' = "closing"
      BY <1>d, <3>1
    <3>2. CASE at' = "begin" /\ loops' = loops
      <4>1. r = PointAt(0, loops) /\ ~eof
        BY <2>1, <2>2 DEF Submitted
      <4>2. ~Streaming' /\ ~Submitting'
        BY <3>2 DEF Streaming, Submitting
      <4> QED BY <1>i, <2>1, <3>2, <4>1, <4>2, SubmittedNext
    <3> QED BY <2>1, <3>1, <3>2
  <2> QED BY <1>s, <2>1, <2>2
<1>6. CASE Seek
  <2>1. /\ at \in {"begin", "seek"} /\ UNCHANGED <<leased, queue, heard, left, eof, loops>>
        /\ at' = "closing" \/ at' = at
    BY <1>6 DEF Seek, End, voice
  <2>2. ASSUME NEW r \in Point, Submitted(r) PROVE Submitted(r)'
    <3>1. CASE at' = "closing"
      BY <1>d, <3>1
    <3>2. CASE at' = at
      <4>1. r = PointAt(0, loops) /\ ~eof
        BY <2>1, <2>2 DEF Submitted
      <4>2. ~Streaming' /\ ~Submitting'
        BY <2>1, <3>2 DEF Streaming, Submitting
      <4> QED BY <1>i, <2>1, <3>2, <4>1, <4>2, SubmittedNext
    <3> QED BY <2>1, <3>1, <3>2
  <2>3. HasVoice
    BY <2>1 DEF HasVoice
  <2> QED BY <1>s, <2>1, <2>2, <2>3
<1>7. CASE Sought
  <2>1. /\ at \in {"begin", "seek"} /\ discard = 0 /\ at' = "fill" /\ ~leased
        /\ UNCHANGED <<leased, queue, heard, left, eof, loops, decoder>>
    BY <1>7 DEF Sought, source, voice, VoiceInv
  <2>2. decoder.next - input.pos = 0
    BY <1>1, <2>1 DEF DecoderPosition
  <2>3. ASSUME NEW r \in Point, RangeLength > 0, Submitted(r) PROVE Submitted(r)'
    <3>1. r = PointAt(0, loops) /\ ~eof
      BY <2>1, <2>3 DEF Submitted
    <3>2. r = StreamedTo(decoder'.next - input.pos, loops', RangeLength)
      BY <1>1, <2>1, <2>2, <2>3, <3>1 DEF StreamedTo
    <3>3. ~Submitting'
      BY <2>1 DEF Submitting
    <3> QED BY <1>i, <2>1, <3>1, <3>2, <3>3, SubmittedNext
  <2>4. HasVoice
    BY <2>1 DEF HasVoice
  <2> QED BY <1>s, <2>1, <2>3, <2>4
<1>8. CASE Restart
  <2>1. /\ at = "restart" /\ loops' = Fewer(loops) /\ ~leased
        /\ UNCHANGED <<leased, queue, heard, left, eof, asset>>
    BY <1>8 DEF Restart, LoopsAfter, Fewer, voice, VoiceInv, rangeVars
  <2>2. ASSUME NEW r \in Point, RangeLength > 0, Submitted(r) PROVE Submitted(r)'
    <3>1. r = PointAt(0, loops') /\ ~eof
      BY <2>1, <2>2 DEF Submitted
    <3>2. CASE Cached /\ ~input.filtered
      <4>1. decoder' = [kind |-> "memory", next |-> asset.from] /\ at' = "fill"
        BY <1>8, <3>2 DEF Restart
      <4>2. asset.from = input.pos
        BY <1>1, <3>2, StretchIs DEF AssetIsRange
      <4>3. decoder'.next - input.pos = 0
        BY <1>1, <4>1, <4>2
      <4>4. r = StreamedTo(decoder'.next - input.pos, loops', RangeLength)
        BY <1>1, <2>2, <3>1, <4>3 DEF StreamedTo
      <4>5. ~Submitting'
        BY <2>1 DEF Submitting
      <4> QED BY <1>i, <2>1, <3>1, <4>1, <4>4, <4>5, SubmittedNext
    <3>3. CASE ~(Cached /\ ~input.filtered)
      <4>1. at' = "seek"
        BY <1>8, <3>3 DEF Restart
      <4>2. ~Streaming' /\ ~Submitting'
        BY <4>1 DEF Streaming, Submitting
      <4> QED BY <1>i, <2>1, <3>1, <4>1, <4>2, SubmittedNext
    <3> QED BY <3>2, <3>3
  <2>3. HasVoice
    BY <2>1 DEF HasVoice
  <2> QED BY <1>s, <2>1, <2>2, <2>3
<1>9. CASE FillCached
  <2> DEFINE n == Smaller(plays, MaxRepeats)
             more == Chunk(n)
  <2>1. /\ at = "fill" /\ leased /\ plays > 0 /\ plays' = plays - n
        /\ queue' = Append(queue, more)
        /\ UNCHANGED <<at, leased, heard, left>>
    BY <1>9 DEF FillCached
  <2>2. n \in Nat \ {0} /\ n <= plays
    BY <1>1, <2>1, PlaybackAssumption DEF Smaller
  <2>3. Cached /\ RangeLength > 0 /\ asset.from = input.pos /\ asset.frames = RangeLength
    <3>1. Cached
      BY <2>1 DEF VoiceInv, BuffersOutliveVoice
    <3>2. asset = Stretch(input.pos, RangeLength)
      BY <3>1 DEF AssetIsRange
    <3> QED BY <1>1, <3>1, <3>2, StretchIs DEF NothingOfNothing
  <2>4. more \in EntryType /\ more.from = input.pos /\ more.frames = RangeLength /\ more.times = n
    <3>1. (n = plays) \in BOOLEAN
      OBVIOUS
    <3>2. more = Entry(input.pos, RangeLength, n, n = plays)
      BY <2>3 DEF Chunk
    <3> HIDE DEF n, more
    <3> QED BY <1>1, <2>2, <3>1, <3>2 DEF Entry, EntryType
  <2> HIDE DEF n, more
  <2>5. PICK r \in Point :
           /\ Path(leased, input.pos, RangeLength, queue, PointAt(heard, left), r)
           /\ Submitted(r)
    BY <2>1, <2>3 DEF QueueLeadsOn, HasVoice
  <2>6. ~(input.loops < 0) /\ r = RepeatedTo(plays, RangeLength)
    <3>1. Submitting
      BY <2>1 DEF Submitting
    <3> QED BY <1>1, <2>1, <2>5, <3>1 DEF Submitted
  <2>7. PICK t \in Point : t = RepeatedTo(plays', RangeLength)
                           /\ Repeats(input.pos, RangeLength, r, more, t)
    <3>1. RangeLength \in Nat \ {0}
      BY <1>1, <2>3
    <3> QED BY <1>1, <2>1, <2>2, <2>4, <2>6, <3>1, RepeatedOn
  <2>8. Path(leased', input.pos, RangeLength, queue', PointAt(heard', left'), t)
    <3>1. Leads(leased, input.pos, RangeLength, r, more, t)
      BY <2>1, <2>7 DEF Leads
    <3>2. Path(leased, input.pos, RangeLength, Append(queue, more), PointAt(heard, left), t)
      BY <1>1, <2>4, <2>5, <3>1, LongerPath
    <3> QED BY <2>1, <3>2
  <2>9. Submitted(t)'
    <3>1. ~Streaming'
      BY <2>1 DEF Streaming
    <3>2. at' = "fill"
      BY <2>1
    <3> QED BY <1>i, <2>6, <2>7, <3>1, <3>2, SubmittedNext
  <2> QED BY <1>i, <2>8, <2>9, QueueLeadsNext
<1>10. CASE Fill
  <2>1. PICK n : n = Delivered(ToRead, Rest)
    OBVIOUS
  <2>2. PICK k : k = decoder.next - input.pos
    OBVIOUS
  <2>3. /\ n \in Nat /\ k \in Nat /\ k + n <= RangeLength
        /\ at' \in {"fill", "restart"} /\ at = "fill" /\ ~leased /\ ~eof /\ leased' = leased
        /\ decoder'.next - input.pos = k + n
        /\ UNCHANGED <<loops, heard, left>>
        /\ at' = "restart" => k + n = RangeLength /\ loops # 0 /\ ~eof'
        /\ eof' => k + n = RangeLength /\ loops = 0
    BY <1>10, <2>1, <2>2, FillStep
  <2>4. PICK r \in Point :
           /\ Path(leased, input.pos, RangeLength, queue, PointAt(heard, left), r)
           /\ RangeLength > 0 => Submitted(r)
    BY <2>3 DEF QueueLeadsOn, HasVoice
  <2>5. RangeLength > 0 => r = StreamedTo(k, loops, RangeLength)
    <3>1. Streaming
      BY <2>3 DEF Streaming
    <3> QED BY <2>2, <2>4, <3>1 DEF Submitted
  <2>6. PICK t : t = StreamedTo(k + n, loops, RangeLength)
    OBVIOUS
  <2>7. Submitted(t)'
    <3>1. ~Submitting'
      BY <2>3 DEF Submitting
    <3>2. at' = "restart" => t = PointAt(0, Fewer(loops'))
      BY <2>3, <2>6 DEF StreamedTo
    <3>3. t = StreamedTo(decoder'.next - input.pos, loops', RangeLength)
      BY <2>3, <2>6
    <3>4. eof' => decoder'.next - input.pos = RangeLength /\ loops' = 0
      BY <2>3
    <3>5. at' = "restart" => loops' # 0 /\ ~eof'
      BY <2>3
    <3>6. ~(at' \in {"open", "begin", "seek"})
      BY <2>3
    <3> QED BY <1>i, <3>1, <3>2, <3>3, <3>4, <3>5, <3>6, SubmittedNext
  <2>8. CASE n > 0
    <3> DEFINE over == Finished(ToRead) \/ (remaining >= 0 /\ remaining = n)
               more == Entry(decoder.next, n, 1, over /\ loops = 0)
    <3>1. queue' = Append(queue, more)
      BY <1>10, <2>1, <2>8 DEF Fill, SubmitFrames
    <3>2. /\ more \in EntryType /\ more.from = input.pos + k
          /\ more.frames = n /\ more.times = 1
      <4>1. PICK b \in BOOLEAN : b = (over /\ loops = 0)
        OBVIOUS
      <4>2. more = Entry(decoder.next, n, 1, b)
        BY <4>1
      <4>3. decoder.next = input.pos + k
        BY <1>1, <2>2, <2>3
      <4> HIDE DEF over, more
      <4> QED BY <1>1, <2>3, <4>2, <4>3 DEF Entry, EntryType
    <3> HIDE DEF over, more
    <3>3. n \in Nat \ {0} /\ RangeLength > 0
      BY <1>1, <2>3, <2>8
    <3>4. t \in Point /\ Streams(input.pos, RangeLength, r, more, t)
      <4>1. /\ StreamedTo(k + n, loops, RangeLength) \in Point
            /\ Streams(input.pos, RangeLength, StreamedTo(k, loops, RangeLength), more,
                       StreamedTo(k + n, loops, RangeLength))
        <5>1. k \in Nat /\ k + n <= RangeLength
          BY <2>3
        <5> QED BY <1>1, <3>2, <3>3, <5>1, StreamedOn
      <4> QED BY <2>5, <2>6, <3>3, <4>1
    <3>5. Leads(leased, input.pos, RangeLength, r, more, t)
      BY <2>3, <3>4 DEF Leads
    <3>6. Path(leased, input.pos, RangeLength, Append(queue, more), PointAt(heard, left), t)
      BY <1>1, <2>4, <3>2, <3>4, <3>5, LongerPath
    <3>7. Path(leased', input.pos, RangeLength, queue', PointAt(heard', left'), t)
      BY <2>3, <3>1, <3>6
    <3> QED BY <1>i, <2>7, <3>4, <3>7, QueueLeadsNext
  <2>9. CASE ~(n > 0)
    <3>1. n = 0 /\ k + n = k
      BY <2>3, <2>9
    <3>2. RangeLength > 0 => Submitted(r)'
      BY <2>5, <2>6, <2>7, <3>1
    <3>3. queue' = queue \/ (queue # <<>> /\ queue' = MarkedQueue)
      BY <1>10, <2>1, <2>9 DEF Fill, SubmitNothing, MarkedQueue
    <3>4. Path(leased, input.pos, RangeLength, queue', PointAt(heard, left), r)
      <4>1. CASE queue' = queue
        BY <2>4, <4>1
      <4>2. CASE queue # <<>> /\ queue' = MarkedQueue
        <5>1. /\ Len(queue') = Len(queue)
              /\ \A i \in 1..Len(queue) :
                     /\ queue'[i].from = queue[i].from
                     /\ queue'[i].frames = queue[i].frames
                     /\ queue'[i].times = queue[i].times
          BY <1>1, <4>2, MarkedQueueLeads
        <5> QED BY <1>1, <2>4, <5>1, SamePath
      <4> QED BY <3>3, <4>1, <4>2
    <3>5. Path(leased', input.pos, RangeLength, queue', PointAt(heard', left'), r)
      BY <2>3, <3>4
    <3> QED BY <1>i, <3>2, <3>5, QueueLeadsNext
  <2> QED BY <2>8, <2>9
<1>11. CASE Quiet
  <2>1. /\ UNCHANGED <<leased, queue, heard, left, loops, decoder, plays>>
        /\ leased \/ eof' = eof
        /\ at' = at \/ at' = "closing" \/ (at \in Flow /\ at' \in Flow)
    BY <1>11, QuietSteps
  <2>2. ASSUME NEW r \in Point, Submitted(r) PROVE Submitted(r)'
    <3>1. CASE at' = "closing"
      BY <1>d, <3>1
    <3>2. CASE at' = at \/ (at \in Flow /\ at' \in Flow)
      <4>1. at \in {"open", "begin", "seek", "restart"} => ~leased
        BY DEF VoiceInv
      <4>2. (Streaming' <=> Streaming) /\ (Submitting' <=> Submitting)
        BY <2>1, <3>2 DEF Streaming, Submitting, Flow
      <4>3. /\ at' \in {"open", "begin", "seek"} => at \in {"open", "begin", "seek"} /\ eof' = eof
            /\ at' = "restart" => at = "restart" /\ eof' = eof
            /\ Streaming => eof' = eof
        BY <2>1, <3>2, <4>1 DEF Flow, Streaming
      <4> QED BY <1>i, <2>1, <2>2, <4>2, <4>3, SubmittedNext DEF Submitted
    <3> QED BY <2>1, <3>1, <3>2
  <2>3. HasVoice \/ at = "open"
    BY <1>11 DEF Quiet, Filled, Tick, UpdateFadeOut, Reclaim, Refill, Stop, SetPosition,
       Clock, StartFadeOut, HasVoice
  <2> QED BY <1>s, <2>1, <2>2, <2>3
<1>12. CASE VoicePlays
  <2>1. UNCHANGED <<at, leased, loops, decoder, plays, eof>>
    BY <1>12 DEF VoicePlays, source
  <2>2. leased /\ left < 0 => queue' # <<>>
    BY <1>12, VoiceIsHeard
  <2>3. PICK r \in Point :
           /\ Path(leased, input.pos, RangeLength, queue', PointAt(heard', left'), r)
           /\ RangeLength > 0 => Submitted(r)
    BY <1>12, VoiceIsHeard
  <2>4. ASSUME Submitted(r) PROVE Submitted(r)'
    <3>1. Streaming' = Streaming /\ Submitting' = Submitting
      BY <2>1 DEF Streaming, Submitting
    <3>2. Submitting /\ input.loops < 0 => queue' # <<>>
      BY <2>2 DEF Submitting, PlaysAreCounted
    <3> QED BY <1>i, <2>1, <2>4, <3>1, <3>2, SubmittedNext DEF Submitted
  <2>5. Path(leased', input.pos, RangeLength, queue', PointAt(heard', left'), r)
    BY <2>1, <2>3
  <2> QED BY <1>i, <2>3, <2>4, <2>5, QueueLeadsNext
<1> QED BY <1>2, <1>3, <1>4, <1>5, <1>6, <1>7, <1>8, <1>9, <1>10, <1>11, <1>12
        DEF PlayNext, WorkerStep, Quiet

\* The rest of it: what is cached or queued has frames, and what has finished was heard.
LEMMA PlayKeepsHearing ==
    ASSUME RangeTypeOK, PlayTypeOK, RangeTypeOK', PlayTypeOK', DecoderPosition,
           CapturePosition, VoiceInv, AssetIsRange, HearInv, PlayNext
    PROVE  HearInv'
<1>1. /\ RangeLength \in Nat
      /\ queue \in Seq(EntryType) /\ buffers \in Seq(Nat) /\ target \in 1..Targets
      /\ heard \in Nat /\ left \in Nat \cup {-1}
  <2>1. ControlTypes /\ BufferTypes /\ HeardTypes
    BY TypeGroups
  <2>2. RangeLength \in Nat
    BY InputFields DEF RangeTypeOK, RangeLength, Smaller
  <2> QED BY <2>1, <2>2 DEF ControlTypes, BufferTypes, HeardTypes, HearInv, PlaysAreCounted
<1>i. input' = input /\ RangeLength' = RangeLength
  BY PlayKeepsRange
<1>2. StreamPosition' /\ QueueLeadsOn'
  BY PlayKeepsStream, PlayKeepsQueue DEF HearInv
<1>3. NothingOfNothing'
  <2>1. CASE Fill
    <3>1. PICK n : n = Delivered(ToRead, Rest)
      OBVIOUS
    <3>2. PICK k : k = decoder.next - input.pos
      OBVIOUS
    <3>3. n \in Nat /\ k \in Nat /\ k + n <= RangeLength /\ UNCHANGED creating
      BY <2>1, <3>1, <3>2, FillStep DEF HearInv
    <3>4. n > 0 => RangeLength > 0
      BY <1>1, <3>3
    <3>5. buffers' # <<>> => RangeLength > 0
      <4>1. ~(n > 0) => buffers' = buffers
        BY <2>1, <3>1 DEF Fill, SubmitNothing
      <4> QED BY <3>4, <4>1 DEF HearInv, NothingOfNothing
    <3>6. Cached' => RangeLength > 0
      <4> DEFINE over == Finished(ToRead) \/ (remaining >= 0 /\ remaining = n)
      <4>1. Filling /\ Captured(n, over)
        BY <2>1, <3>1 DEF Fill
      <4>2. CASE asset' = asset
        BY <4>2 DEF HearInv, NothingOfNothing, Cached
      <4>3. CASE asset' # asset
        <5>1. producer = "capture" /\ over /\ capture.frames + n > 0
          BY <4>1, <4>3 DEF Captured
        <5>2. capture.frames + n = RangeLength
          BY <3>1, <4>1, <5>1, CaptureReads
        <5> QED BY <1>1, <3>3, <5>1, <5>2
      <4> QED BY <4>2, <4>3
    <3> QED BY <1>i, <3>3, <3>5, <3>6 DEF HearInv, NothingOfNothing
  <2>2. CASE Filled
    <3>1. UNCHANGED <<asset, buffers>>
      BY <2>2 DEF Filled, rangeVars
    <3>2. ASSUME creating, ~creating' PROVE RangeLength > 0
      <4>1. leased \/ buffers # <<>>
        <5>1. ~(eof /\ buffers = <<>>) /\ ~Filling /\ at = "fill"
          BY <2>2, <3>2 DEF Filled
        <5>2. buffers = <<>> => Len(buffers) < target
          BY <1>1
        <5> QED BY <5>1, <5>2 DEF Filling
      <4> QED BY <4>1 DEF HearInv, NothingOfNothing, VoiceInv, BuffersOutliveVoice
    <3> QED BY <1>i, <3>1, <3>2 DEF HearInv, NothingOfNothing, Cached
  <2>3. CASE Reclaim
    <3>1. UNCHANGED <<asset, creating>>
      BY <2>3 DEF Reclaim, End, rangeVars
    <3>2. buffers' # <<>> => buffers # <<>>
      <4>1. CASE leased
        BY <2>3, <4>1 DEF Reclaim
      <4>2. CASE ~leased
        <5>1. buffers' = StillQueued /\ Len(queue) <= Len(buffers)
          BY <2>3, <4>2 DEF Reclaim, VoiceInv, BuffersOutliveVoice
        <5>2. Len(buffers') = Len(queue) /\ buffers' \in Seq(Nat)
          BY <1>1, <5>1, StillQueuedIs
        <5> QED BY <1>1, <5>1, <5>2
      <4> QED BY <4>1, <4>2
    <3> QED BY <1>i, <3>1, <3>2 DEF HearInv, NothingOfNothing, Cached
  <2>4. CASE FreeAll
    <3>1. buffers' = <<>> /\ UNCHANGED <<asset, creating>>
      BY <2>4 DEF FreeAll, rangeVars
    <3> QED BY <1>i, <3>1 DEF HearInv, NothingOfNothing, Cached
  <2>5. CASE PlayCached \/ PlayStreamed \/ Seek \/ Sought \/ Restart \/ FillCached
             \/ DestroyVoice \/ Fails \/ VoicePlays
    <3>1. UNCHANGED <<asset, buffers, creating>>
      BY <2>5 DEF PlayCached, PlayStreamed, Seek, Sought, Restart, FillCached, DestroyVoice,
         Fails, VoicePlays, End, rangeVars
    <3> QED BY <1>i, <3>1 DEF HearInv, NothingOfNothing, Cached
  <2>6. CASE Tick \/ UpdateFadeOut \/ Refill \/ Stop \/ SetPosition \/ Clock
             \/ \E time \in FadeTimes : StartFadeOut(time)
    <3>1. UNCHANGED <<asset, buffers, creating>>
      BY <2>6 DEF Tick, UpdateFadeOut, Refill, Stop, SetPosition, Clock, StartFadeOut, End,
         rangeVars
    <3> QED BY <1>i, <3>1 DEF HearInv, NothingOfNothing, Cached
  <2> QED BY <2>1, <2>2, <2>3, <2>4, <2>5, <2>6 DEF PlayNext, WorkerStep
<1>4. PlaysAreCounted'
  <2>1. at' # "open"
    BY DEF PlayNext, WorkerStep, PlayCached, PlayStreamed, Seek, Sought, Restart,
       FillCached, Fill, Filling, Filled, Tick, UpdateFadeOut, Reclaim, Refill, DestroyVoice,
       FreeAll, Fails, Stop, StartFadeOut, SetPosition, Clock, VoicePlays, End, HasVoice
  <2>2. CASE VoicePlays
    <3>1. heard' \in Nat /\ (left' < 0 <=> left < 0)
      BY <2>2, VoiceIsHeard DEF HearInv
    <3> QED BY <1>i, <2>1, <3>1 DEF HearInv, PlaysAreCounted
  <2>3. CASE ~VoicePlays
    <3>1. UNCHANGED <<heard, left>>
      BY <2>3 DEF PlayNext, WorkerStep, PlayCached, PlayStreamed, Seek, Sought, Restart,
         FillCached, Fill, Filled, Tick, UpdateFadeOut, Reclaim, Refill, DestroyVoice,
         FreeAll, Fails, Stop, StartFadeOut, SetPosition, Clock, voice
    <3> QED BY <1>1, <1>i, <2>1, <3>1 DEF HearInv, PlaysAreCounted
  <2> QED BY <2>2, <2>3
<1>5. FinishedIsHeard'
  <2>1. CASE Reclaim
    <3>1. /\ at = "reclaim" /\ UNCHANGED <<queue, heard, left, creating>>
          /\ outcome' = "finished" =>
                \/ outcome = "finished"
                \/ /\ eof' /\ buffers' = <<>> /\ at' = "closing" /\ ~creating
      BY <2>1 DEF Reclaim, End, voice
    <3>2. ASSUME eof', buffers' = <<>>, ~creating
          PROVE  queue = <<>> /\ left = 0 /\ heard = RangeLength
      <4>1. RangeLength > 0
        BY <3>2 DEF HearInv, NothingOfNothing
      <4>2. PICK r \in Point :
               /\ Path(leased, input.pos, RangeLength, queue, PointAt(heard, left), r)
               /\ Submitted(r)
        BY <3>1, <4>1 DEF HearInv, QueueLeadsOn, HasVoice
      <4>3. queue = <<>> /\ r = PointAt(RangeLength, 0)
        <5>1. CASE leased
          <6>1. queue = <<>> /\ plays = 0 /\ Submitting
            BY <2>1, <3>1, <3>2, <5>1 DEF Reclaim, Submitting
          <6>2. r = RepeatedTo(plays, RangeLength)
            BY <4>2, <6>1 DEF Submitted
          <6> QED BY <6>1, <6>2 DEF RepeatedTo
        <5>2. CASE ~leased
          <6>1. buffers' = StillQueued /\ eof /\ Len(queue) <= Len(buffers) /\ Streaming
            BY <2>1, <3>1, <3>2, <5>2 DEF Reclaim, VoiceInv, BuffersOutliveVoice, Streaming
          <6>2. Len(queue) = 0
            BY <1>1, <3>2, <6>1, StillQueuedIs
          <6>3. r = StreamedTo(RangeLength, 0, RangeLength)
            BY <4>2, <6>1 DEF Submitted
          <6> QED BY <1>1, <6>2, <6>3 DEF StreamedTo
        <5> QED BY <5>1, <5>2
      <4>4. PointAt(heard, left) = PointAt(RangeLength, 0)
        BY <4>2, <4>3, EmptyPath
      <4> QED BY <4>3, <4>4, PointFields
    <3>3. outcome # "finished"
      BY <3>1 DEF HearInv, FinishedIsHeard
    <3> QED BY <1>i, <3>1, <3>2, <3>3 DEF FinishedIsHeard
  <2>2. CASE DestroyVoice \/ FreeAll \/ Clock
    <3>1. /\ UNCHANGED <<outcome, heard, left>> /\ queue' \in {queue, <<>>}
          /\ at' \in {at, "freeing", "closed"}
      BY <2>2 DEF DestroyVoice, FreeAll, Clock, voice
    <3> QED BY <1>i, <3>1 DEF HearInv, FinishedIsHeard
  <2>3. CASE VoicePlays
    <3>1. outcome' = outcome /\ queue # <<>>
      BY <2>3 DEF VoicePlays
    <3> QED BY <3>1 DEF HearInv, FinishedIsHeard
  <2>4. CASE PlayCached \/ PlayStreamed \/ Seek \/ Sought \/ Restart \/ FillCached \/ Fill
             \/ Filled \/ Fails
    <3>1. ~(at \in {"closing", "freeing", "closed"})
      BY <2>4 DEF PlayCached, PlayStreamed, Seek, Sought, Restart, FillCached, Fill, Filling,
         Filled, Fails
    <3>2. outcome' \in {outcome, "refused", "error"}
      BY <2>4 DEF PlayCached, PlayStreamed, Seek, Sought, Restart, FillCached, Fill,
         Filled, Fails, End
    <3> QED BY <3>1, <3>2 DEF HearInv, FinishedIsHeard
  <2>5. CASE Tick \/ UpdateFadeOut \/ Refill \/ Stop \/ SetPosition
             \/ \E time \in FadeTimes : StartFadeOut(time)
    <3>1. ~(at \in {"closing", "freeing", "closed"})
      BY <2>5 DEF Tick, UpdateFadeOut, Refill, Stop, SetPosition, StartFadeOut
    <3>2. outcome' \in {outcome, "refused", "stopped"}
      BY <2>5 DEF Tick, UpdateFadeOut, Refill, Stop, SetPosition, StartFadeOut, End
    <3> QED BY <3>1, <3>2 DEF HearInv, FinishedIsHeard
  <2> QED BY <2>1, <2>2, <2>3, <2>4, <2>5 DEF PlayNext, WorkerStep
<1> QED BY <1>2, <1>3, <1>4, <1>5 DEF HearInv

\* The build and the eviction change nothing of it.
LEMMA OthersKeepHearing ==
    ASSUME HearInv, UNCHANGED playVars, input' = input, Cached' => Cached \/ RangeLength > 0
    PROVE  HearInv' /\ RangeLength' = RangeLength
<1>1. UNCHANGED <<at, creating, outcome, decoder, remaining, loops, buffers, eof, leased,
                  plays, queue, heard, left>>
  BY DEF playVars, source, voice
<1>2. RangeLength' = RangeLength
  BY DEF RangeLength
<1>3. StreamPosition'
  BY <1>1, <1>2 DEF HearInv, StreamPosition, Streaming
<1>4. QueueLeadsOn'
  <2>1. ASSUME NEW r \in Point, Submitted(r) PROVE Submitted(r)'
    BY <1>1, <1>2, <2>1 DEF Submitted, Streaming, Submitting
  <2> QED BY <1>1, <1>2, <2>1 DEF HearInv, QueueLeadsOn, HasVoice
<1>5. NothingOfNothing' /\ PlaysAreCounted' /\ FinishedIsHeard'
  BY <1>1, <1>2 DEF HearInv, NothingOfNothing, PlaysAreCounted, FinishedIsHeard
<1> QED BY <1>2, <1>3, <1>4, <1>5 DEF HearInv

--------------------------------------------------------------------------------
(***************************************************************************)
(* The playback implements the safety half of RangeContract.               *)
(***************************************************************************)

\* What the listener is to hear is in line initially,
LEMMA InitHearInv == ASSUME Init PROVE HearInv
<1>1. /\ RangeInit /\ PlayInit /\ ~Cached
      /\ input.loops \in Nat \cup {-1} /\ input \in Inputs
  BY InputFields DEF Init, RangeInit, Cached
<1>2. /\ at = "open" /\ creating = TRUE /\ outcome = "none" /\ queue = <<>>
      /\ buffers = <<>> /\ heard = 0 /\ left = input.loops /\ loops = input.loops
      /\ eof = FALSE /\ plays = 0 /\ leased = FALSE
  BY <1>1 DEF PlayInit
<1>3. PointAt(0, input.loops) \in Point
  BY <1>1, PointFields
<1>4. Path(leased, input.pos, RangeLength, queue, PointAt(heard, left), PointAt(0, input.loops))
  BY <1>2, <1>3, EmptyPath
<1>5. Submitted(PointAt(0, input.loops))
  BY <1>2 DEF Submitted, Streaming, Submitting
<1>6. QueueLeadsOn
  BY <1>3, <1>4, <1>5 DEF QueueLeadsOn
<1>7. StreamPosition /\ NothingOfNothing /\ PlaysAreCounted /\ FinishedIsHeard
  BY <1>1, <1>2 DEF StreamPosition, Streaming, NothingOfNothing, PlaysAreCounted,
     FinishedIsHeard
<1> QED BY <1>6, <1>7 DEF HearInv

\* and after every step.
LEMMA NextHearInv == ASSUME PInv, HearInv, [Next]_vars PROVE HearInv'
<1>0. PInv'
  BY NextPInv
<1>1. CASE PlayNext /\ UNCHANGED buildVars
  BY <1>0, <1>1, PlayKeepsHearing DEF PInv
<1>2. CASE BuildNext /\ UNCHANGED playVars
  <2>1. input' = input /\ (asset' = asset \/ CommitBuild)
    BY <1>2 DEF BuildNext, StartBuild, BuildFails, DiscardFrames, ReserveBuffer, GrowBuffer,
       NoGrowth, ReadBlock, Probe, AllRead, CommitBuild, Commit, GiveUp, rangeVars
  <2>2. asset' = asset \/ RangeLength > 0
    BY <2>1, BuildCommitsRange DEF PInv
  <2> QED BY <1>2, <2>1, <2>2, OthersKeepHearing DEF Cached
<1>3. CASE Evict /\ UNCHANGED <<playVars, buildVars>>
  BY <1>3, OthersKeepHearing DEF Evict, Cached
<1>4. CASE UNCHANGED vars
  BY <1>4, OthersKeepHearing DEF vars, rangeVars, Cached
<1> QED BY <1>1, <1>2, <1>3, <1>4 DEF Next

\* How the playback has ended, in the contract's words.
Ended == IF at \notin {"freeing", "closed"} THEN "no"
         ELSE IF outcome = "finished" THEN "finished" ELSE "cut"

\* A step that ends nothing, is not heard and asks for no stop is none of the contract's.
LEMMA NotHeard ==
    ASSUME RangeLength' = RangeLength, left' = left, heard' = heard,
           Stopping' = Stopping, Ended' = Ended
    PROVE  UNCHANGED Contract!rvars
BY DEF Contract!rvars, Ended

\* Every step of the playback is one of the contract's, or none.
LEMMA PlayKeepsContract ==
    ASSUME PInv, HearInv, PlayNext
    PROVE  [Contract!RNext]_(Contract!rvars)
<1> USE DEF PInv
<1>1. RangeLength' = RangeLength
  BY PlayKeepsRange
<1>2. CASE VoicePlays
  <2>1. HasVoice /\ UNCHANGED <<at, outcome, fade>>
    BY <1>2 DEF VoicePlays, fading
  <2>2. PICK n : n = queue[1].frames
    OBVIOUS
  <2>3. /\ n \in 1..RangeLength - heard
        /\ IF heard + n = RangeLength /\ left # 0
           THEN heard' = 0 /\ left' = Fewer(left)
           ELSE heard' = heard + n /\ left' = left
    BY <1>2, <2>2, VoiceIsHeard DEF HearInv
  <2>4. heard \in Nat /\ RangeLength \in Nat
    BY InputFields DEF RangeTypeOK, RangeLength, Smaller, HearInv, PlaysAreCounted
  <2>5. heard + n <= RangeLength
    BY <2>3, <2>4
  <2>6. Ended = "no" /\ Ended' = "no" /\ Stopping' = Stopping
    BY <2>1 DEF Ended, HasVoice, Stopping
  <2>7. Contract!Hear(n)
    BY <1>1, <2>3, <2>5, <2>6 DEF Contract!Hear, Ended, Fewer
  <2> QED BY <2>3, <2>7 DEF Contract!RNext
<1>3. CASE \E time \in FadeTimes : StartFadeOut(time)
  <2>1. PICK time \in FadeTimes : StartFadeOut(time)
    BY <1>3
  <2>2. /\ at = "idle" /\ UNCHANGED <<at, outcome, heard, left>>
        /\ fade' = [gain |-> Gain(fade), elapsed |-> 0, time |-> time]
    BY <2>1 DEF StartFadeOut, voice
  <2>3. Stopping' = TRUE
    <3>1. time \in Nat \ {0}
      BY PlaybackAssumption
    <3>2. fade'.time = time
      BY <2>2
    <3> QED BY <3>1, <3>2 DEF Stopping
  <2>4. Contract!AskStop
    BY <1>1, <2>2, <2>3 DEF Contract!AskStop
  <2> QED BY <2>4 DEF Contract!RNext
<1>4. CASE DestroyVoice
  <2>1. /\ at = "closing" /\ at' = "freeing"
        /\ UNCHANGED <<outcome, heard, left, fade>>
    BY <1>4 DEF DestroyVoice, fading
  <2>2. Stopping' = Stopping
    BY <2>1 DEF Stopping
  <2>3. CASE outcome = "finished"
    <3>1. left = 0 /\ heard = RangeLength
      BY <2>3 DEF HearInv, FinishedIsHeard
    <3>2. Contract!Finish
      BY <1>1, <2>1, <2>2, <2>3, <3>1 DEF Contract!Finish
    <3> QED BY <3>2 DEF Contract!RNext
  <2>4. CASE outcome # "finished"
    <3>1. Contract!Cut
      BY <1>1, <2>1, <2>2, <2>4 DEF Contract!Cut
    <3> QED BY <3>1 DEF Contract!RNext
  <2> QED BY <2>3, <2>4
<1>5. CASE Fails
  <2>1. /\ UNCHANGED <<heard, left, fade>> /\ outcome' # "finished"
        /\ at \notin {"freeing", "closed"}
        /\ at' = IF at = "open" THEN "closed" ELSE "closing"
    BY <1>5 DEF Fails, voice, fading
  <2>2. Stopping' = Stopping
    BY <2>1 DEF Stopping
  <2>3. CASE at = "open"
    <3>1. Contract!Cut
      BY <1>1, <2>1, <2>2, <2>3 DEF Contract!Cut
    <3> QED BY <3>1 DEF Contract!RNext
  <2>4. CASE at # "open"
    <3>1. Ended' = Ended
      BY <2>1, <2>4 DEF Ended
    <3> QED BY <1>1, <2>1, <2>2, <3>1, NotHeard
  <2> QED BY <2>3, <2>4
<1>6. CASE FreeAll
  <2>1. /\ at = "freeing" /\ at' = "closed" /\ UNCHANGED <<outcome, heard, left, fade>>
    BY <1>6 DEF FreeAll, voice, fading
  <2>2. Stopping' = Stopping /\ Ended' = Ended
    BY <2>1 DEF Stopping, Ended
  <2> QED BY <1>1, <2>1, <2>2, NotHeard
<1>7. CASE \/ PlayCached \/ PlayStreamed \/ Seek \/ Sought \/ Restart
           \/ FillCached \/ Fill \/ Filled
           \/ Tick \/ UpdateFadeOut \/ Reclaim \/ Refill
           \/ Stop \/ SetPosition \/ Clock
  <2>1. UNCHANGED <<heard, left>>
    BY <1>7 DEF PlayCached, PlayStreamed, Seek, Sought, Restart, FillCached, Fill, Filled,
       Tick, UpdateFadeOut, Reclaim, Refill, Stop, SetPosition, Clock, voice
  <2>2. Ended' = Ended
    <3>1. at \notin {"freeing", "closed"} \/ (Clock /\ at' = at)
      BY <1>7 DEF PlayCached, PlayStreamed, Seek, Sought, Restart, FillCached, Fill, Filling,
         Filled, Tick, UpdateFadeOut, Reclaim, Refill, Stop, SetPosition, Clock
    <3>2. at' \notin {"freeing", "closed"} \/ (Clock /\ at' = at)
      BY <1>7 DEF PlayCached, PlayStreamed, Seek, Sought, Restart, FillCached, Fill, Filling,
         Filled, Tick, UpdateFadeOut, Reclaim, Refill, Stop, SetPosition, Clock, End
    <3>3. Clock => outcome' = outcome
      BY DEF Clock
    <3> QED BY <3>1, <3>2, <3>3 DEF Ended
  <2>3. Stopping' = Stopping
    <3>1. CASE Clock
      <4>1. fade \in FadeType
        BY TypeGroups DEF FadingTypes
      <4>2. fade'.time = fade.time
        BY <3>1, <4>1 DEF Clock, FadeType
      <4> QED BY <4>2 DEF Stopping
    <3>2. CASE ~Clock
      <4>1. fade' = fade
        BY <1>7, <3>2 DEF PlayCached, PlayStreamed, Seek, Sought, Restart, FillCached, Fill,
           Filled, Tick, UpdateFadeOut, Reclaim, Refill, Stop, SetPosition, fading
      <4> QED BY <4>1 DEF Stopping
    <3> QED BY <3>1, <3>2
  <2> QED BY <1>1, <2>1, <2>2, <2>3, NotHeard
<1> QED BY <1>2, <1>3, <1>4, <1>5, <1>6, <1>7 DEF PlayNext, WorkerStep

\* The listener hears the frames of the range in order and without a gap, as many plays as
\* asked for, and a playback says that it has finished only when all of it was heard:
\* file_playback.go, whatever the file, the range, the cache and the commands.
THEOREM PlaybackKeepsPromise == Spec => ImplementsContractSafety
<1>1. Init => Contract!RInit
  <2> SUFFICES ASSUME Init PROVE Contract!RInit
    OBVIOUS
  <2>1. RangeInit /\ PlayInit /\ input.loops \in Nat \cup {-1} /\ RangeLength \in Nat
    BY InputFields DEF Init, RangeInit, RangeLength, Smaller
  <2>2. Stopping = FALSE
    BY <2>1, NoFadeIs DEF PlayInit, Stopping
  <2> QED BY <2>1, <2>2 DEF Contract!RInit, PlayInit
<1>2. Init => PInv /\ HearInv
  BY InitPInv, InitHearInv
<1>3. PInv /\ HearInv /\ [Next]_vars => (PInv /\ HearInv)'
  BY NextPInv, NextHearInv
<1>4. PInv /\ HearInv /\ [Next]_vars => [Contract!RNext]_(Contract!rvars)
  <2> SUFFICES ASSUME PInv, HearInv, [Next]_vars PROVE [Contract!RNext]_(Contract!rvars)
    OBVIOUS
  <2>1. CASE PlayNext
    BY <2>1, PlayKeepsContract
  <2>2. CASE ~PlayNext
    <3>1. UNCHANGED playVars /\ input' = input
      BY <2>2 DEF Next, BuildNext, StartBuild, BuildFails, DiscardFrames, ReserveBuffer,
         GrowBuffer, NoGrowth, ReadBlock, Probe, AllRead, CommitBuild, Commit, GiveUp, Evict,
         rangeVars, vars
    <3>2. UNCHANGED <<at, outcome, heard, left, fade>> /\ RangeLength' = RangeLength
      BY <3>1 DEF playVars, voice, fading, RangeLength
    <3> QED BY <3>2, NotHeard DEF Ended, Stopping
  <2> QED BY <2>1, <2>2
<1> QED BY <1>1, <1>2, <1>3, <1>4, PTL DEF Spec, ImplementsContractSafety,
        Contract!RSafety
================================================================================
