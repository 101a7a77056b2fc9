------------------------------ MODULE FFmpegProofs ------------------------------
(***************************************************************************)
(* Proofs about the loader and the decoder of src/internal/ffmpeg, for any *)
(* number of threads, of libraries and functions, and for files, filters   *)
(* and reads of any size.                                                  *)
(*                                                                         *)
(* A second thread may store into the table of FFmpeg's functions while a  *)
(* first one already uses it.  The invariant says why that is harmless:    *)
(* what a thread has passed is set and stays set, because what is not      *)
(* there is not there for any thread, and only that is stored as NULL.     *)
(*                                                                         *)
(* That a read of the decoder is exact follows from an account of every    *)
(* sample: what no read has delivered yet is in the buffer of the call, in *)
(* an output frame that did not fit, in the converter or the filter graph, *)
(* in the frame at hand, in the codec, or in the container.                *)
(***************************************************************************)
EXTENDS FFmpegDecoder, TotalsProofs, SequenceTheorems


\* What a thread in step with the table has behind it: the fields it has passed,
\* or all of them.
Passed(t) ==
    /\ loader[t] \in 1..Fields + 1 => \A f \in 1..Fields : f < loader[t] => f \in table
    /\ loader[t] = Ready => table = 1..Fields

\* What is set is what every thread finds.
LoaderInv ==
    /\ LoaderTypeOK
    /\ table \cap missing = {}
    /\ loaded => table = 1..Fields
    /\ \A t \in Threads : Passed(t)

\* A step that stores nothing, and ready is told only with a full table.
LEMMA QuietStepKeepsLoaderInv ==
    ASSUME LoaderInv, NEW s \in Threads, NEW l \in Failed..Ready,
           loader' = [loader EXCEPT ![s] = l], UNCHANGED <<table, missing>>,
           loaded' \in BOOLEAN, loaded' => table = 1..Fields,
           l = Ready => table = 1..Fields,
           l \notin 2..Fields + 1
    PROVE  LoaderInv'
<1>1. LoaderTypeOK'
  BY DEF LoaderInv, LoaderTypeOK
<1>2. ASSUME NEW t \in Threads PROVE Passed(t)'
  <2>1. Passed(t)
    BY DEF LoaderInv
  <2>2. CASE t = s
    BY <2>2, FieldsAssumption DEF LoaderInv, LoaderTypeOK, Passed, Ready, Failed
  <2>3. CASE t # s
    <3>1. loader'[t] = loader[t]
      BY <2>3 DEF LoaderInv, LoaderTypeOK
    <3> QED BY <2>1, <3>1 DEF Passed, Ready
  <2> QED BY <2>2, <2>3
<1>3. (loaded => table = 1..Fields)' /\ (table \cap missing = {})'
  BY DEF LoaderInv
<1> QED BY <1>1, <1>2, <1>3 DEF LoaderInv

\* Storing NULL takes nothing out, for the field is missing to every thread.
LEMMA FailedLoadKeepsLoaderInv ==
    ASSUME LoaderInv, NEW s \in Threads, Load(s), loader[s] \in missing
    PROVE  LoaderInv'
<1>1. UNCHANGED <<loaded, missing>> /\ loader' = [loader EXCEPT ![s] = Failed]
  BY DEF Load
<1>2. table' = table
  BY DEF Load, LoaderInv
<1>3. Failed \in Failed..Ready /\ Failed # Ready /\ Failed \notin 2..Fields + 1
  BY FieldsAssumption DEF Failed, Ready
<1>4. loaded' \in BOOLEAN /\ (loaded' => table = 1..Fields)
  BY <1>1 DEF LoaderInv, LoaderTypeOK
<1> QED BY <1>1, <1>2, <1>3, <1>4, QuietStepKeepsLoaderInv

\* Storing a field adds it, if it was not there already.
LEMMA LoadKeepsLoaderInv ==
    ASSUME LoaderInv, NEW s \in Threads, Load(s), loader[s] \notin missing
    PROVE  LoaderInv'
<1>1. /\ loader[s] \in 1..Fields
      /\ UNCHANGED <<loaded, missing>>
      /\ table' = table \cup {loader[s]}
      /\ loader' = [loader EXCEPT ![s] = loader[s] + 1]
  BY DEF Load, Loading
<1>2. LoaderTypeOK'
  <2>1. loader[s] + 1 \in Failed..Ready
    BY <1>1, FieldsAssumption DEF Failed, Ready
  <2>2. loader' \in [Threads -> Failed..Ready]
    BY <1>1, <2>1 DEF LoaderInv, LoaderTypeOK
  <2>3. loaded' \in BOOLEAN
    BY <1>1 DEF LoaderInv, LoaderTypeOK
  <2> QED BY <1>1, <2>2, <2>3 DEF LoaderInv, LoaderTypeOK
<1>3. (table \cap missing = {})'
  BY <1>1 DEF LoaderInv
<1>4. table = 1..Fields => table' = 1..Fields
  BY <1>1
<1>5. (loaded => table = 1..Fields)'
  <2>1. loaded => table = 1..Fields
    BY DEF LoaderInv
  <2> QED BY <1>1, <1>4, <2>1
<1>6. ASSUME NEW t \in Threads PROVE Passed(t)'
  <2>1. Passed(t)
    BY DEF LoaderInv
  <2>2. CASE t = s
    <3>1. Passed(s) /\ loader'[s] = loader[s] + 1 /\ loader[s] \in 1..Fields + 1
      BY <1>1, <2>1, <2>2, FieldsAssumption DEF LoaderInv, LoaderTypeOK
    <3>2. \A f \in 1..Fields : f < loader[s] => f \in table
      BY <3>1 DEF Passed
    <3>3. \A f \in 1..Fields : f < loader'[s] => f \in table'
      BY <1>1, <3>1, <3>2
    <3>4. loader'[s] # Ready
      BY <1>1, <3>1, FieldsAssumption DEF Ready
    <3> QED BY <2>2, <3>3, <3>4 DEF Passed, Ready
  <2>3. CASE t # s
    <3>1. loader'[t] = loader[t]
      BY <1>1, <2>3 DEF LoaderInv, LoaderTypeOK
    <3>2. \A f \in 1..Fields : f \in table => f \in table'
      BY <1>1
    <3>3. (loader[t] \in 1..Fields + 1 => \A f \in 1..Fields : f < loader[t] => f \in table)'
      BY <2>1, <3>1, <3>2 DEF Passed
    <3>4. (loader[t] = Ready => table = 1..Fields)'
      BY <1>4, <2>1, <3>1 DEF Passed, Ready
    <3> QED BY <3>3, <3>4 DEF Passed, Ready
  <2> QED BY <2>2, <2>3
<1> QED BY <1>2, <1>3, <1>5, <1>6 DEF LoaderInv

\* No step of a thread takes anything back that another one relies on.
LEMMA StepKeepsLoaderInv ==
    ASSUME LoaderInv, NEW s \in Threads, LoaderStep(s)
    PROVE  LoaderInv'
<1>1. CASE Enter(s)
  <2>1. UNCHANGED <<loaded, table, missing>>
    BY <1>1 DEF Enter
  <2>2. loaded \in BOOLEAN /\ (loaded => table = 1..Fields)
    BY DEF LoaderInv, LoaderTypeOK
  <2>3. PICK l \in Failed..Ready :
          /\ loader' = [loader EXCEPT ![s] = l]
          /\ l = Ready => table = 1..Fields
          /\ l \notin 2..Fields + 1
    <3>1. CASE loaded
      <4>1. Ready \in Failed..Ready /\ Ready \notin 2..Fields + 1
        BY FieldsAssumption DEF Failed, Ready
      <4> QED BY <1>1, <2>2, <3>1, <4>1 DEF Enter
    <3>2. CASE ~loaded
      <4>1. 1 \in Failed..Ready /\ 1 # Ready /\ 1 \notin 2..Fields + 1
        BY FieldsAssumption DEF Failed, Ready
      <4> QED BY <1>1, <3>2, <4>1 DEF Enter
    <3> QED BY <3>1, <3>2
  <2> QED BY <2>1, <2>2, <2>3, QuietStepKeepsLoaderInv
<1>2. CASE Load(s)
  BY <1>2, FailedLoadKeepsLoaderInv, LoadKeepsLoaderInv
<1>3. CASE Announce(s)
  <2>1. /\ loader[s] = Fields + 1
        /\ UNCHANGED <<table, missing>>
        /\ loaded' = TRUE
        /\ loader' = [loader EXCEPT ![s] = Ready]
    BY <1>3 DEF Announce
  <2>2. \A f \in 1..Fields : f \in table
    BY <2>1, FieldsAssumption DEF LoaderInv, Passed
  <2>3. table = 1..Fields
    BY <2>2 DEF LoaderInv, LoaderTypeOK
  <2>4. Ready \in Failed..Ready /\ Ready \notin 2..Fields + 1
    BY FieldsAssumption DEF Failed, Ready
  <2> QED BY <2>1, <2>3, <2>4, QuietStepKeepsLoaderInv
<1>4. CASE Return(s)
  <2>1. UNCHANGED <<loaded, table, missing>> /\ loader' = [loader EXCEPT ![s] = Out]
    BY <1>4 DEF Return
  <2>2. Out \in Failed..Ready /\ Out # Ready /\ Out \notin 2..Fields + 1
    BY FieldsAssumption DEF Out, Failed, Ready
  <2>3. loaded' \in BOOLEAN /\ (loaded' => table = 1..Fields)
    BY <2>1 DEF LoaderInv, LoaderTypeOK
  <2> QED BY <2>1, <2>2, <2>3, QuietStepKeepsLoaderInv
<1> QED BY <1>1, <1>2, <1>3, <1>4 DEF LoaderStep

\* The table is empty and nobody has been in the loader.
LEMMA LoaderStarts == LoaderInit => LoaderInv
<1> SUFFICES ASSUME LoaderInit PROVE LoaderInv
  OBVIOUS
<1>1. Out \in Failed..Ready /\ Out # Ready /\ Out \notin 1..Fields + 1
  BY FieldsAssumption DEF Out, Failed, Ready
<1>2. \A t \in Threads : loader[t] = Out
  BY DEF LoaderInit
<1>3. loader \in [Threads -> Failed..Ready]
  BY <1>1 DEF LoaderInit
<1>4. LoaderTypeOK
  <2>1. loaded \in BOOLEAN /\ table \subseteq 1..Fields
    BY DEF LoaderInit
  <2>2. missing \subseteq 1..Fields
    BY FieldsAssumption DEF LoaderInit
  <2> QED BY <1>3, <2>1, <2>2 DEF LoaderTypeOK
<1>5. \A t \in Threads : Passed(t)
  BY <1>1, <1>2 DEF Passed
<1> QED BY <1>4, <1>5 DEF LoaderInit, LoaderInv

\* Outside the loader nothing of it changes.
LEMMA LoaderStays == ASSUME LoaderInv, UNCHANGED loaderVars PROVE LoaderInv'
BY DEF loaderVars, LoaderInv, LoaderTypeOK, Passed, Ready, Failed

\* Whoever is ready has the whole table.
LEMMA LoadedTable == LoaderInv => TableIsLoaded
BY DEF LoaderInv, Passed, TableIsLoaded

\* sa_ffmpeg_initialize returns success only with a complete table, and no other
\* call of it takes a library or a function out again.
THEOREM TableStaysLoaded == LoaderSpec => []TableIsLoaded
<1>1. LoaderInv /\ [\E t \in Threads : LoaderStep(t)]_loaderVars => LoaderInv'
  BY LoaderStays, StepKeepsLoaderInv
<1> QED BY <1>1, LoaderStarts, LoadedTable, PTL DEF LoaderSpec


--------------------------------------------------------------------------------
\* The decoder

InCall == at \notin {"closed", "idle", "failed"}

\* What the call has put into the buffer, which counts as left until it returns.
Delivering == IF InCall THEN written ELSE 0

\* Samples that have not reached the converter or the graph.
Coming == (IF at = "convert" THEN frame ELSE 0) + Samples(packets) + Samples(pending)
          + Samples(codec)

\* Samples that the reads will get of all that has not left the decoder.
Passable ==
    IF Filters THEN Smaller(limit - passed, held + Coming) + rest ELSE held + Coming

\* What is left is what the call has, and what is still to come out.
LeftIsAccounted ==
    kind # "raw" /\ at # "failed" => left = Delivering + Passable

\* The counters and sequences have their types, and a graph holds no more than it
\* may still pass.
Amounts ==
    /\ kind \in Kinds \cup {"replay"} /\ at \in Places /\ finished \in BOOLEAN
    /\ packets \in Seq(Nat) /\ codec \in Seq(Nat) /\ raw \in Seq(Nat)
    /\ pending \in Seq(Nat) /\ Len(pending) <= 1
    /\ frame \in Nat /\ held \in Nat /\ rest \in Nat
    /\ limit \in Nat /\ max \in Nat /\ left \in Nat
    /\ passed \in 0..limit /\ written \in 0..max
    /\ Filters => held <= limit - passed

\* Where a decoder of each kind can be.
Stations ==
    /\ kind = "raw" => at \in {"closed", "failed", "next", "packets", "skip", "append", "kept"}
    /\ at \in {"append", "kept"} => kind = "raw"
    /\ at \in {"packets", "skip"} => kind # "replay"
    /\ at \in {"drain", "flushing"} => Filters /\ graph
    /\ kind = "raw" => /\ ~graph /\ ~finished
                       /\ held = 0 /\ rest = 0 /\ passed = 0 /\ written = 0
    /\ ~Filters => ~sentEof /\ ~graphFinished

\* The input has ended when the decoder says so, and a graph that was told has all.
InputEnds ==
    /\ at \in {"packets", "skip"} => pending = <<>> /\ ~inputEof
    /\ inputEof => packets = <<>> \/ kind = "replay"
    /\ sentFlush => inputEof /\ pending = <<>>
    /\ kind = "replay" \/ at = "kept" => pending = <<>> /\ codec = <<>>
    /\ at = "flush" \/ sentEof =>
          /\ packets = <<>> /\ codec = <<>> /\ pending = <<>> /\ at # "convert"
          /\ sentFlush \/ kind = "replay"
    /\ at = "flushing" => sentEof
    /\ ~graph => held = 0 /\ rest = 0 /\ passed = 0
    /\ graphFinished => held = 0 /\ (sentEof \/ passed = limit)

\* A call goes on only while there is room, and ends a decoder only with nothing left.
CallGoesOn ==
    /\ InCall /\ at # "full" /\ kind # "raw" => written < max /\ ~finished
    /\ at = "full" => written = max \/ finished
    /\ at = "full" /\ finished => written = 0
    /\ at = "full" => max > 0
    /\ finished /\ at # "failed" => left = 0

DInv == Amounts /\ Stations /\ InputEnds /\ CallGoesOn /\ LeftIsAccounted /\ ReadsAreExact

\* What the operators on frames give.
LEMMA FrameFacts ==
    /\ Samples(<<>>) = 0
    /\ \A s \in Seq(Nat) : Samples(s) \in Nat
    /\ \A s \in Seq(Nat) : s # <<>> =>
          /\ s[1] \in Nat /\ Tail(s) \in Seq(Nat)
          /\ Samples(s) = s[1] + Samples(Tail(s))
    /\ \A s \in Seq(Nat), n \in Nat : Samples(Append(s, n)) = Samples(s) + n
<1>1. ASSUME NEW s \in Seq(Nat), s # <<>>
      PROVE  /\ s[1] \in Nat /\ Tail(s) \in Seq(Nat)
             /\ Samples(s) = s[1] + Samples(Tail(s))
  <2>1. s[1] \in Nat /\ Tail(s) \in Seq(Nat) /\ s \in Seq(Int)
    BY <1>1
  <2>2. Total(Tail(s)) = Total(s) - s[1]
    BY <1>1, <2>1, TotalTail
  <2>3. Total(s) \in Nat /\ Total(Tail(s)) \in Nat
    BY <2>1, TotalNatural
  <2> QED BY <2>1, <2>2, <2>3 DEF Samples
<1>2. ASSUME NEW s \in Seq(Nat), NEW n \in Nat
      PROVE  Samples(Append(s, n)) = Samples(s) + n
  <2>1. s \in Seq(Int) /\ n \in Int
    OBVIOUS
  <2> QED BY <2>1, TotalAppend DEF Samples
<1> QED BY <1>1, <1>2, TotalEmpty, TotalNatural DEF Samples

\* One packet is read, or none.
LEMMA PendingFacts ==
    ASSUME NEW s \in Seq(Nat), Len(s) <= 1, s # <<>>
    PROVE  s[1] \in Nat /\ Samples(s) = s[1]
<1>1. Len(s) \in Nat \ {0} /\ Tail(s) \in Seq(Nat) /\ Len(Tail(s)) = Len(s) - 1
  BY EmptySeq, HeadTailProperties
<1>2. Tail(s) = <<>>
  BY <1>1, EmptySeq
<1>3. Samples(s) = s[1] + Samples(Tail(s))
  BY FrameFacts
<1>4. s[1] \in Nat /\ Samples(Tail(s)) = 0
  BY <1>2, FrameFacts
<1> QED BY <1>3, <1>4

\* The last result stays as it was.
LEMMA ResultStays ==
    ASSUME ReadsAreExact, result' = result PROVE ReadsAreExact'
BY DEF ReadsAreExact

\* A read that delivers what it should is exact.
LEMMA DoneIsExact ==
    ASSUME NEW n, NEW end \in BOOLEAN, Done(n, end), n = Smaller(max, left), end <=> left < max
    PROVE  ReadsAreExact'
<1>1. end = FileFinished(max, left)
  BY DEF FileFinished
<1> QED BY <1>1 DEF Done, ReadsAreExact, Delivered

\* What is still to come is a number.
LEMMA SampleTypes ==
    ASSUME Amounts
    PROVE  /\ Samples(packets) \in Nat /\ Samples(pending) \in Nat /\ Samples(codec) \in Nat
           /\ Samples(raw) \in Nat
BY FrameFacts DEF Amounts

\* Steps that move no sample.
LEMMA QuietSteps ==
    ASSUME DInv,
           Open \/ Cancel \/ Fails \/ IfCancelled \/ ReceiveEof \/ WantPackets
           \/ SkipPacket \/ ReplayEof \/ SkipEmpty \/ SinkAgain \/ SendFlush
    PROVE  DInv'
<1>1. CASE Open
  BY <1>1, ResultStays, SampleTypes DEF Open, DInv, Amounts, Stations, InputEnds,
     CallGoesOn, LeftIsAccounted, Passable, Delivering, Coming,
       InCall, Filters, Places, input, filter, call, Unread, Draining
<1>2. CASE Cancel
  BY <1>2, ResultStays, SampleTypes DEF Cancel, DInv, Amounts, Stations, InputEnds,
     CallGoesOn, LeftIsAccounted, Passable, Delivering, Coming,
       InCall, Filters, Places, input, filter, call, Unread, Draining
<1>3. CASE Fails
  BY <1>3, ResultStays, SampleTypes DEF Fails, DInv, Amounts, Stations, InputEnds,
     CallGoesOn, LeftIsAccounted, Passable, Delivering, Coming,
       InCall, Filters, Places, input, filter, call, Unread, Draining
<1>4. CASE IfCancelled
  BY <1>4, ResultStays, SampleTypes DEF IfCancelled, DInv, Amounts, Stations, InputEnds,
     CallGoesOn, LeftIsAccounted, Passable, Delivering, Coming,
       InCall, Filters, Places, input, filter, call, Unread, Draining
<1>5. CASE ReceiveEof
  BY <1>5, ResultStays, SampleTypes DEF ReceiveEof, DInv, Amounts, Stations, InputEnds,
     CallGoesOn, LeftIsAccounted, Passable, Delivering, Coming,
       InCall, Filters, Places, input, filter, call, Unread, Draining
<1>6. CASE WantPackets
  BY <1>6, ResultStays, SampleTypes DEF WantPackets, DInv, Amounts, Stations, InputEnds,
     CallGoesOn, LeftIsAccounted, Passable, Delivering, Coming,
       InCall, Filters, Places, input, filter, call, Unread, Draining
<1>7. CASE SkipPacket
  BY <1>7, ResultStays, SampleTypes DEF SkipPacket, DInv, Amounts, Stations, InputEnds,
     CallGoesOn, LeftIsAccounted, Passable, Delivering, Coming,
       InCall, Filters, Places, input, filter, call, Unread, Draining
<1>8. CASE ReplayEof
  BY <1>8, ResultStays, SampleTypes DEF ReplayEof, DInv, Amounts, Stations, InputEnds,
     CallGoesOn, LeftIsAccounted, Passable, Delivering, Coming,
       InCall, Filters, Places, input, filter, call, Unread, Draining
<1>9. CASE SkipEmpty
  BY <1>9, ResultStays, SampleTypes DEF SkipEmpty, DInv, Amounts, Stations, InputEnds,
     CallGoesOn, LeftIsAccounted, Passable, Delivering, Coming,
       InCall, Filters, Places, input, filter, call, Unread, Draining
<1>10. CASE SinkAgain
  BY <1>10, ResultStays, SampleTypes DEF SinkAgain, DInv, Amounts, Stations, InputEnds,
     CallGoesOn, LeftIsAccounted, Passable, Delivering, Coming,
       InCall, Filters, Places, input, filter, call, Unread, Draining
<1>11. CASE SendFlush
  BY <1>11, ResultStays, SampleTypes DEF SendFlush, DInv, Amounts, Stations, InputEnds,
     CallGoesOn, LeftIsAccounted, Passable, Delivering, Coming,
       InCall, Filters, Places, input, filter, call, Unread, Draining
<1> QED BY <1>1, <1>2, <1>3, <1>4, <1>5, <1>6, <1>7, <1>8, <1>9, <1>10, <1>11

\* The smaller of two numbers is a number.
LEMMA SmallerType == ASSUME NEW a \in Nat, NEW b \in Nat PROVE Smaller(a, b) \in Nat
BY DEF Smaller

\* What has not reached the converter or the graph is a number of samples.
LEMMA ComingType == ASSUME Amounts PROVE Coming \in Nat
<1>1. (IF at = "convert" THEN frame ELSE 0) \in Nat
  BY DEF Amounts
<1> QED BY <1>1, SampleTypes DEF Coming

\* Taking a frame does not change what the graph will pass.
LEMMA GraphTakes ==
    \A l, h, f, c \in Nat : Smaller(l, Smaller(h + f, l) + c) = Smaller(l, h + (f + c))
BY DEF Smaller

\* A frame comes out of the codec.
LEMMA ReceiveKeeps == ASSUME DInv, Receive PROVE DInv'
<1>1. codec \in Seq(Nat) /\ codec # <<>> /\ frame' = codec[1] /\ codec' = Tail(codec)
  BY DEF Receive, NoFrameYet, DInv, Amounts
<1>2. /\ frame' \in Nat /\ codec' \in Seq(Nat)
      /\ Samples(codec) = frame' + Samples(codec')
  BY <1>1, FrameFacts
<1>3. Samples(codec') \in Nat
  BY <1>2, FrameFacts
<1>4. Amounts
  BY DEF DInv
<1>5. Amounts'
  BY <1>1, <1>2, <1>3, <1>4, SampleTypes DEF Receive, Unread, Amounts, Filters, Places,
     DInv, input, filter, call
<1>6. Stations'
  BY <1>1, <1>2, <1>3, <1>4, SampleTypes DEF Receive, Unread, Stations, Filters, Amounts,
     DInv, input, filter, call
<1>7. InputEnds'
  BY <1>1, <1>2, <1>3, <1>4, SampleTypes DEF Receive, Unread, InputEnds, Stations,
     Filters, Amounts, DInv, input, filter, call
<1>8. CallGoesOn'
  BY <1>1, <1>2, <1>3, <1>4, SampleTypes DEF Receive, Unread, CallGoesOn, Stations,
     InCall, Filters, Amounts, DInv, input, filter, call
<1>9. LeftIsAccounted'
  <2>1. kind # "raw" => Coming' = Coming
    BY <1>1, <1>2, <1>3, SampleTypes, <1>4 DEF Coming, Receive, input
  <2>2. Delivering' = Delivering
    BY DEF Delivering, InCall, Receive, call
  <2> QED BY <2>1, <2>2 DEF Receive, DInv, LeftIsAccounted, Passable, Filters, filter,
     input, call
<1>10. ReadsAreExact'
  BY ResultStays DEF DInv, Receive, call
<1> QED BY <1>5, <1>6, <1>7, <1>8, <1>9, <1>10 DEF DInv

\* The packet goes into the codec.
LEMMA SendPacketKeeps == ASSUME DInv, SendPacket PROVE DInv'
<1>1. /\ codec \in Seq(Nat) /\ pending \in Seq(Nat) /\ Len(pending) <= 1 /\ pending # <<>>
      /\ codec' = Append(codec, pending[1]) /\ pending' = <<>>
  BY DEF SendPacket, DInv, Amounts
<1>2. pending[1] \in Nat /\ Samples(pending) = pending[1]
  BY <1>1, PendingFacts
<1>3. Samples(codec') = Samples(codec) + Samples(pending) /\ Samples(pending') = 0
  BY <1>1, <1>2, FrameFacts
<1>4. codec' \in Seq(Nat) /\ pending' \in Seq(Nat) /\ Len(pending') <= 1
  BY <1>1, <1>2
<1>5. Amounts
  BY DEF DInv
<1>6. Amounts'
  BY <1>1, <1>3, <1>4, <1>5, SampleTypes DEF SendPacket, Unread, Amounts, Filters, Places,
     DInv, input, filter, call
<1>7. Stations'
  BY <1>1, <1>3, <1>4, <1>5, SampleTypes DEF SendPacket, Unread, Stations, Filters,
     Amounts, DInv, input, filter, call
<1>8. InputEnds'
  BY <1>1, <1>3, <1>4, <1>5, SampleTypes DEF SendPacket, Unread, InputEnds, Stations,
     Filters, Amounts, DInv, input, filter, call
<1>9. CallGoesOn'
  BY <1>1, <1>3, <1>4, <1>5, SampleTypes DEF SendPacket, Unread, CallGoesOn, Stations,
     InCall, Filters, Amounts, DInv, input, filter, call
<1>10. LeftIsAccounted'
  BY <1>1, <1>3, <1>4, <1>5, SampleTypes DEF SendPacket, Unread, LeftIsAccounted,
     CallGoesOn, Stations, InputEnds, Passable, Delivering, Coming, InCall, Filters,
     Amounts, DInv, input, filter, call
<1>11. ReadsAreExact'
  BY ResultStays DEF DInv, SendPacket, call
<1> QED BY <1>6, <1>7, <1>8, <1>9, <1>10, <1>11 DEF DInv

\* A packet is read, or the end, or a packet of another stream.
LEMMA ReadPacketKeeps == ASSUME DInv, ReadPacket PROVE DInv'
<1>1. packets \in Seq(Nat) /\ pending = <<>> /\ Amounts
  BY DEF ReadPacket, DInv, Amounts, InputEnds
<1>2. CASE packets # <<>> /\ pending' = <<packets[1]>> /\ packets' = Tail(packets) /\ at' = "next"
           /\ inputEof' = inputEof
  <2>1. /\ packets[1] \in Nat /\ packets' \in Seq(Nat)
        /\ Samples(packets) = packets[1] + Samples(packets')
    BY <1>1, <1>2, FrameFacts
  <2>2. pending' \in Seq(Nat) /\ Len(pending') <= 1 /\ pending' # <<>> /\ pending'[1] = packets[1]
    BY <1>2, <2>1
  <2>3. Samples(pending') = packets[1]
    BY <2>2, PendingFacts
  <2>4. Samples(packets') \in Nat /\ Samples(pending) = 0
    BY <1>1, <2>1, FrameFacts
  <2>5. Amounts'
    BY <1>1, <1>2, <2>1, <2>2, <2>3, <2>4, SampleTypes DEF ReadPacket, Amounts, Filters,
       Places, DInv, input, filter, call
  <2>6. Stations'
    BY <1>1, <1>2, <2>1, <2>2, <2>3, <2>4, SampleTypes DEF ReadPacket, Stations,
       Filters, Amounts, DInv, input, filter, call
  <2>7. InputEnds'
    BY <1>1, <1>2, <2>1, <2>2, <2>3, <2>4, SampleTypes DEF ReadPacket, InputEnds,
       Stations, Filters, Amounts, DInv, input, filter, call
  <2>8. CallGoesOn'
    BY <1>1, <1>2, <2>1, <2>2, <2>3, <2>4, SampleTypes DEF ReadPacket, CallGoesOn,
       Stations, InCall, Filters, Amounts, DInv, input, filter, call
  <2>9. LeftIsAccounted'
    BY <1>1, <1>2, <2>1, <2>2, <2>3, <2>4, SampleTypes DEF ReadPacket, LeftIsAccounted,
       CallGoesOn, Stations, InputEnds, Passable, Delivering, Coming, InCall, Filters,
       Amounts, DInv, input, filter, call
  <2>10. ReadsAreExact'
    BY ResultStays DEF DInv, ReadPacket, call
  <2> QED BY <2>5, <2>6, <2>7, <2>8, <2>9, <2>10 DEF DInv
<1>3. CASE \/ packets = <<>> /\ inputEof' = TRUE /\ at' = "next" /\ UNCHANGED <<pending, packets>>
           \/ at' = "skip" /\ UNCHANGED <<pending, packets, inputEof>>
  <2>1. Amounts'
    BY <1>1, <1>3, SampleTypes DEF ReadPacket, Amounts, Filters, Places, DInv, input,
       filter, call
  <2>2. Stations'
    BY <1>1, <1>3, SampleTypes DEF ReadPacket, Stations, Filters, Amounts, DInv, input,
       filter, call
  <2>3. InputEnds'
    BY <1>1, <1>3, SampleTypes DEF ReadPacket, InputEnds, Stations, Filters, Amounts,
       DInv, input, filter, call
  <2>4. CallGoesOn'
    BY <1>1, <1>3, SampleTypes DEF ReadPacket, CallGoesOn, Stations, InCall, Filters,
       Amounts, DInv, input, filter, call
  <2>5. LeftIsAccounted'
    BY <1>1, <1>3, SampleTypes DEF ReadPacket, LeftIsAccounted, CallGoesOn, Stations,
       InputEnds, Passable, Delivering, Coming, InCall, Filters, Amounts, DInv, input,
       filter, call
  <2>6. ReadsAreExact'
    BY ResultStays DEF DInv, ReadPacket, call
  <2> QED BY <2>1, <2>2, <2>3, <2>4, <2>5, <2>6 DEF DInv
<1> QED BY <1>2, <1>3 DEF ReadPacket, NextPacket

\* A kept frame is replayed.
LEMMA ReplayFrameKeeps == ASSUME DInv, ReplayFrame PROVE DInv'
<1>1. /\ packets \in Seq(Nat) /\ packets # <<>> /\ frame' = packets[1]
      /\ packets' = Tail(packets) /\ Amounts
  BY DEF ReplayFrame, DInv, Amounts
<1>2. /\ frame' \in Nat /\ packets' \in Seq(Nat)
      /\ Samples(packets) = frame' + Samples(packets')
  BY <1>1, FrameFacts
<1>3. Samples(packets') \in Nat
  BY <1>2, FrameFacts
<1>4. Amounts'
  BY <1>1, <1>2, <1>3, SampleTypes DEF ReplayFrame, Amounts, Filters, Places, DInv, input,
     filter, call
<1>5. Stations'
  BY <1>1, <1>2, <1>3, SampleTypes DEF ReplayFrame, Stations, Filters, Amounts, DInv,
     input, filter, call
<1>6. InputEnds'
  BY <1>1, <1>2, <1>3, SampleTypes DEF ReplayFrame, InputEnds, Stations, Filters, Amounts,
     DInv, input, filter, call
<1>7. CallGoesOn'
  BY <1>1, <1>2, <1>3, SampleTypes DEF ReplayFrame, CallGoesOn, Stations, InCall, Filters,
     Amounts, DInv, input, filter, call
<1>8. LeftIsAccounted'
  BY <1>1, <1>2, <1>3, SampleTypes DEF ReplayFrame, LeftIsAccounted, CallGoesOn, Stations,
     InputEnds, Passable, Delivering, Coming, InCall, Filters, Amounts, DInv, input,
     filter, call
<1>9. ReadsAreExact'
  BY ResultStays DEF DInv, ReplayFrame, call
<1> QED BY <1>4, <1>5, <1>6, <1>7, <1>8, <1>9 DEF DInv

\* A frame is kept, or is too much.
LEMMA AppendFrameKeeps == ASSUME DInv, AppendFrame PROVE DInv'
<1>1. raw' \in Seq(Nat) /\ at' \in {"next", "failed"} /\ Amounts
  BY DEF AppendFrame, DInv, Amounts
<1>2. Amounts'
  BY <1>1, SampleTypes DEF AppendFrame, Amounts, Filters, Places, DInv, input, filter, call
<1>3. Stations'
  BY <1>1, SampleTypes DEF AppendFrame, Stations, Filters, Amounts, DInv, input, filter,
     call
<1>4. InputEnds'
  BY <1>1, SampleTypes DEF AppendFrame, InputEnds, Stations, Filters, Amounts, DInv,
     input, filter, call
<1>5. CallGoesOn'
  BY <1>1, SampleTypes DEF AppendFrame, CallGoesOn, Stations, InCall, Filters, Amounts,
     DInv, input, filter, call
<1>6. LeftIsAccounted'
  BY <1>1, SampleTypes DEF AppendFrame, LeftIsAccounted, CallGoesOn, Stations, InputEnds,
     Passable, Delivering, Coming, InCall, Filters, Amounts, DInv, input, filter, call
<1>7. ReadsAreExact'
  BY ResultStays DEF DInv, AppendFrame, call
<1> QED BY <1>2, <1>3, <1>4, <1>5, <1>6, <1>7 DEF DInv

\* All frames are kept, and are replayed from now on.
LEMMA KeepKeeps == ASSUME DInv, Keep PROVE DInv'
<1>1. Samples(pending) = 0 /\ Samples(codec) = 0 /\ Samples(raw) \in Nat /\ Amounts
  BY FrameFacts, SampleTypes DEF Keep, DInv, Amounts, InputEnds
<1>2. Amounts'
  <2>1. \/ kind' = kind /\ packets' = packets /\ left' = left /\ at' = "failed"
        \/ /\ kind' = "replay" /\ packets' = raw /\ at' = "idle"
           /\ left' = Smaller(limit, Samples(raw))
    BY DEF Keep
  <2>2. held = 0 /\ Smaller(limit, Samples(raw)) \in Nat
    BY <1>1, SmallerType DEF Amounts, DInv, Stations, Keep
  <2> QED BY <1>1, <2>1, <2>2 DEF Keep, Amounts, Filters, Places, input, filter
<1>3. Stations'
  BY <1>1, SampleTypes DEF Keep, Smaller, Stations, Filters, Amounts, DInv, input, filter,
     call
<1>4. InputEnds'
  BY <1>1, SampleTypes DEF Keep, Smaller, InputEnds, Stations, Filters, Amounts, DInv,
     input, filter, call
<1>5. CallGoesOn'
  BY <1>1, SampleTypes DEF Keep, Smaller, CallGoesOn, Stations, InCall, Filters, Amounts,
     DInv, input, filter, call
<1>6. LeftIsAccounted'
  BY <1>1, SampleTypes DEF Keep, Smaller, LeftIsAccounted, CallGoesOn, Stations,
     InputEnds, Passable, Delivering, Coming, InCall, Filters, Amounts, DInv, input,
     filter, call
<1>7. ReadsAreExact'
  BY ResultStays DEF DInv, Keep, call
<1> QED BY <1>2, <1>3, <1>4, <1>5, <1>6, <1>7 DEF DInv

\* The converter takes a frame and gives what fits into the buffer.
LEMMA ConvertKeeps == ASSUME DInv, Convert PROVE DInv'
<1>1. PICK n \in Nat :
        /\ written' = written + n /\ held' = held + frame - n
        /\ n <= held + frame /\ written + n <= max
        /\ at' = IF written + n < max THEN "next" ELSE "full"
  BY DEF Convert, Onward, Smaller, DInv, Amounts
<1>2. Amounts
  BY DEF DInv
<1>3. /\ at = "convert" /\ kind = "plain" /\ graph' = TRUE /\ frame > 0
      /\ UNCHANGED <<kind, packets, delay, limit, codec, pending, inputEof, sentFlush, frame,
                     raw, passed, rest, sentEof, graphFinished, max, left, finished>>
  BY DEF Convert, input
<1>4. Amounts'
  BY <1>1, <1>2, <1>3, SampleTypes DEF Amounts, Filters, Places, DInv, input, filter, call
<1>5. Stations'
  BY <1>1, <1>2, <1>3, SampleTypes DEF Stations, Filters, Amounts, DInv, input, filter, call
<1>6. InputEnds'
  BY <1>1, <1>2, <1>3, SampleTypes DEF InputEnds, Stations, Filters, Amounts, DInv, input,
     filter, call
<1>7. CallGoesOn'
  BY <1>1, <1>2, <1>3, SampleTypes DEF CallGoesOn, Stations, InCall, Filters, Amounts,
     DInv, input, filter, call
<1>8. LeftIsAccounted'
  BY <1>1, <1>2, <1>3, SampleTypes DEF LeftIsAccounted, CallGoesOn, Stations, InputEnds,
     Passable, Delivering, Coming, InCall, Filters, Amounts, DInv, input, filter, call
<1>9. ReadsAreExact'
  BY ResultStays DEF DInv, Convert, call
<1> QED BY <1>4, <1>5, <1>6, <1>7, <1>8, <1>9 DEF DInv

\* The graph takes a frame, or no more than it may still pass.
LEMMA AddFrameKeeps == ASSUME DInv, AddFrame PROVE DInv'
<1>1. Amounts
  BY DEF DInv
<1>2. Amounts'
  BY <1>1, SampleTypes DEF AddFrame, Smaller, Amounts, Filters, Places, DInv, input,
     filter, call
<1>3. Stations'
  BY <1>1, SampleTypes DEF AddFrame, Smaller, Stations, Filters, Amounts, DInv, input,
     filter, call
<1>4. InputEnds'
  BY <1>1, SampleTypes DEF AddFrame, Smaller, InputEnds, Stations, Filters, Amounts, DInv,
     input, filter, call
<1>5. CallGoesOn'
  BY <1>1, SampleTypes DEF AddFrame, Smaller, CallGoesOn, Stations, InCall, Filters,
     Amounts, DInv, input, filter, call
<1>6. LeftIsAccounted'
  <2>0. /\ at = "convert" /\ at' \in {"failed", "drain"}
        /\ UNCHANGED <<packets, pending, codec>> /\ frame \in Nat
    BY <1>1 DEF AddFrame, input, Amounts
  <2>1. PICK c \in Nat : Coming = frame + c /\ Coming' = c
    <3>1. PICK c \in Nat : c = Samples(packets) + Samples(pending) + Samples(codec)
      BY <1>1, SampleTypes
    <3>2. Coming = frame + c /\ Coming' = c
      BY <1>1, <2>0, <3>1, SampleTypes DEF Coming
    <3> QED BY <3>2
  <2>2. PICK l \in Nat : l = limit - passed /\ l' = l
    BY <1>1 DEF Amounts, AddFrame, input
  <2>3. Filters /\ Filters' /\ held' = Smaller(held + frame, l)
    BY <2>2 DEF AddFrame, Filters
  <2>4. Smaller(l, held' + c) = Smaller(l, held + Coming)
    <3>1. held \in Nat /\ frame \in Nat
      BY <1>1 DEF Amounts
    <3>2. Smaller(l, Smaller(held + frame, l) + c) = Smaller(l, held + (frame + c))
      BY <3>1, GraphTakes, Zenon
    <3> QED BY <2>1, <2>3, <3>2
  <2>5. Delivering' = Delivering \/ at' = "failed"
    BY DEF AddFrame, Delivering, InCall, call
  <2>6. Passable' = Passable
    BY <2>1, <2>2, <2>3, <2>4 DEF Passable, AddFrame, input
  <2> QED BY <2>5, <2>6 DEF AddFrame, DInv, LeftIsAccounted, call
<1>7. ReadsAreExact'
  BY ResultStays DEF DInv, AddFrame, call
<1> QED BY <1>2, <1>3, <1>4, <1>5, <1>6, <1>7 DEF DInv

\* What did not fit into an earlier buffer goes into this one.
LEMMA CopyRestKeeps == ASSUME DInv, CopyRest PROVE DInv'
<1>1. PICK n \in Nat :
        /\ written' = written + n /\ rest' = rest - n
        /\ n <= rest /\ written + n <= max
        /\ at' = IF written + n < max THEN at ELSE "full"
  BY DEF CopyRest, Draining, Smaller, DInv, Amounts
<1>2. Amounts
  BY DEF DInv
<1>3. /\ at \in {"drain", "flushing"} /\ Filters
      /\ UNCHANGED <<kind, packets, delay, limit, codec, pending, inputEof, sentFlush, frame,
                     raw, graph, held, passed, sentEof, graphFinished, max, left, finished>>
  BY DEF CopyRest, Draining, DInv, Stations, input
<1>4. Amounts'
  BY <1>1, <1>2, <1>3, SampleTypes DEF Amounts, Filters, Places, DInv, input, filter, call
<1>5. Stations'
  BY <1>1, <1>2, <1>3, SampleTypes DEF Stations, Filters, Amounts, DInv, input, filter, call
<1>6. InputEnds'
  BY <1>1, <1>2, <1>3, SampleTypes DEF InputEnds, Stations, Filters, Amounts, DInv, input,
     filter, call
<1>7. CallGoesOn'
  BY <1>1, <1>2, <1>3, SampleTypes DEF CallGoesOn, Stations, InCall, Filters, Amounts,
     DInv, input, filter, call
<1>8. LeftIsAccounted'
  <2>1. Coming' = Coming /\ Filters'
    BY <1>1, <1>3 DEF Coming, Filters
  <2>2. PICK b \in Nat : b = Smaller(limit - passed, held + Coming)
    <3>1. held + Coming \in Nat /\ limit - passed \in Nat
      BY <1>2, ComingType DEF Amounts
    <3> QED BY <3>1, SmallerType
  <2>3. Passable = b + rest /\ Passable' = b + rest'
    BY <1>3, <2>1, <2>2 DEF Passable
  <2>4. Delivering = written /\ Delivering' = written'
    BY <1>1, <1>3 DEF Delivering, InCall
  <2>5. rest \in Nat /\ written \in Nat
    BY <1>2 DEF Amounts
  <2> QED BY <1>1, <1>3, <2>2, <2>3, <2>4, <2>5 DEF DInv, LeftIsAccounted
<1>9. ReadsAreExact'
  BY ResultStays DEF DInv, CopyRest, call
<1> QED BY <1>4, <1>5, <1>6, <1>7, <1>8, <1>9 DEF DInv

\* The graph gives some of what it holds.
LEMMA SinkFrameKeeps == ASSUME DInv, SinkFrame PROVE DInv'
<1>1. PICK samples \in 1..held, n \in Nat :
        /\ written' = written + n /\ rest' = samples - n
        /\ held' = held - samples /\ passed' = passed + samples
        /\ n <= samples /\ written + n <= max
        /\ at' = IF written + n < max THEN at ELSE "full"
  BY DEF SinkFrame, Draining, Stored, Smaller, DInv, Amounts
<1>2. Amounts /\ held <= limit - passed
  BY DEF DInv, SinkFrame, Draining, Stations, Amounts
<1>3. /\ at \in {"drain", "flushing"} /\ Filters /\ ~graphFinished /\ rest = 0
      /\ UNCHANGED <<kind, packets, delay, limit, codec, pending, inputEof, sentFlush, frame,
                     raw, graph, sentEof, graphFinished, max, left, finished>>
  BY DEF SinkFrame, Draining, DInv, Stations, input
<1>4. Amounts'
  BY <1>1, <1>2, <1>3, SampleTypes DEF Amounts, Filters, Places, DInv, input, filter, call
<1>5. Stations'
  BY <1>1, <1>2, <1>3, SampleTypes DEF Stations, Filters, Amounts, DInv, input, filter, call
<1>6. InputEnds'
  BY <1>1, <1>2, <1>3, SampleTypes DEF InputEnds, Stations, Filters, Amounts, DInv, input,
     filter, call
<1>7. CallGoesOn'
  BY <1>1, <1>2, <1>3, SampleTypes DEF CallGoesOn, Stations, InCall, Filters, Amounts,
     DInv, input, filter, call
<1>8. LeftIsAccounted'
  <2>1. Coming' = Coming /\ Filters' /\ Coming \in Nat
    BY <1>1, <1>2, <1>3, SampleTypes DEF Coming, Filters, Amounts
  <2>2. PICK l \in Nat : l = limit - passed /\ limit' - passed' = l - samples /\ held <= l
    BY <1>1, <1>2, <1>3 DEF Amounts
  <2>3. PICK b \in Nat : b = Smaller(l, held + Coming)
    <3>1. held + Coming \in Nat
      BY <1>2, <2>1 DEF Amounts
    <3> QED BY <2>2, <3>1, SmallerType
  <2>4. Smaller(l - samples, held' + Coming) = b - samples
    <3>1. held \in Nat /\ samples \in Nat /\ samples <= held /\ held <= l
      BY <1>1, <1>2, <2>2 DEF Amounts
    <3>2. Coming \in Nat
      BY <2>1
    <3>3. Smaller(l - samples, held - samples + Coming) = Smaller(l, held + Coming) - samples
      <4>1. ASSUME NEW s \in Nat, s = samples, NEW h \in Nat, h = held, NEW c \in Nat, c = Coming
            PROVE  Smaller(l - s, h - s + c) = Smaller(l, h + c) - s
        <5>1. s <= h /\ h <= l
          BY <3>1, <4>1
        <5> QED BY <5>1 DEF Smaller
      <4> QED BY <3>1, <3>2, <4>1
    <3> QED BY <1>1, <2>3, <3>3
  <2>5. Passable = b /\ Passable' = b - samples + rest'
    BY <1>3, <2>1, <2>2, <2>3, <2>4 DEF Passable
  <2>6. Delivering = written /\ Delivering' = written'
    BY <1>1, <1>3 DEF Delivering, InCall
  <2>7. written \in Nat
    BY <1>2 DEF Amounts
  <2> QED BY <1>1, <1>3, <2>3, <2>5, <2>6, <2>7 DEF DInv, LeftIsAccounted
<1>9. ReadsAreExact'
  BY ResultStays DEF DInv, SinkFrame, call
<1> QED BY <1>4, <1>5, <1>6, <1>7, <1>8, <1>9 DEF DInv

\* A read begins.
LEMMA ReadKeeps == ASSUME DInv, Read PROVE DInv'
<1>1. max' \in Nat \ {0} /\ Amounts
  BY DecoderAssumption DEF Read, DecoderAssumption, DInv
<1>2. Amounts'
  BY <1>1, SampleTypes DEF Read, Amounts, Filters, Places, DInv, input, filter, call
<1>3. Stations'
  BY <1>1, SampleTypes DEF Read, Stations, Filters, Amounts, DInv, input, filter, call
<1>4. InputEnds'
  BY <1>1, SampleTypes DEF Read, InputEnds, Stations, Filters, Amounts, DInv, input,
     filter, call
<1>5. CallGoesOn'
  BY <1>1, SampleTypes DEF Read, CallGoesOn, Stations, InCall, Filters, Amounts, DInv,
     input, filter, call
<1>6. LeftIsAccounted'
  BY <1>1, SampleTypes DEF Read, LeftIsAccounted, CallGoesOn, Stations, InputEnds,
     Passable, Delivering, Coming, InCall, Filters, Amounts, DInv, input, filter, call
<1>7. ReadsAreExact'
  BY ResultStays DEF DInv, Read, call
<1> QED BY <1>2, <1>3, <1>4, <1>5, <1>6, <1>7 DEF DInv


\* The end of a read

\* What the reads will get is a number of samples.
LEMMA PassableType == ASSUME Amounts PROVE Passable \in Nat
<1>1. held + Coming \in Nat /\ rest \in Nat
  BY ComingType DEF Amounts
<1>2. CASE Filters
  <2>1. limit - passed \in Nat
    BY DEF Amounts
  <2>2. Smaller(limit - passed, held + Coming) \in Nat
    BY <1>1, <2>1, SmallerType
  <2> QED BY <1>1, <1>2, <2>2 DEF Passable
<1>3. CASE ~Filters
  BY <1>1, <1>3 DEF Passable
<1> QED BY <1>2, <1>3

\* A read that returns takes what it has delivered out of what is left.
LEMMA DoneCounts ==
    ASSUME NEW m \in Nat, NEW l \in Nat, NEW n \in Nat, NEW p \in Nat, l = n + p,
           n = Smaller(m, l)
    PROVE  l - n = p /\ (l < m => p = 0)
BY DEF Smaller

\* Nothing of the call is left to count when it has returned.
LEMMA ZeroPlus == \A p \in Nat : 0 + p = p
OBVIOUS

\* Then the account is right again.
LEMMA DoneKeeps ==
    ASSUME DInv, NEW p \in Nat, at' = "idle", left' = p, p = Passable', finished' => p = 0,
           Amounts', Stations', InputEnds', ReadsAreExact'
    PROVE  DInv'
<1>1. LeftIsAccounted'
  <2>1. Delivering' = 0
    BY DEF Delivering, InCall
  <2>2. left' = Delivering' + Passable'
    BY <2>1, ZeroPlus, Zenon
  <2> QED BY <2>2 DEF LeftIsAccounted
<1>2. CallGoesOn'
  BY DEF CallGoesOn, InCall
<1> QED BY <1>1, <1>2 DEF DInv

\* The buffer is full, or there was nothing left.
LEMMA ReturnFullKeeps == ASSUME DInv, ReturnFull PROVE DInv'
<1>1. /\ at = "full" /\ at' = "idle" /\ finished' = finished /\ left' = left - written
      /\ kind # "raw" /\ Amounts /\ Done(written, finished)
      /\ UNCHANGED <<kind, packets, delay, limit, codec, pending, inputEof, sentFlush, frame,
                     raw, graph, held, passed, rest, sentEof, graphFinished, max, written>>
  BY DEF ReturnFull, Done, input, filter, DInv, Stations
<1>2. Coming' = Coming /\ Passable' = Passable /\ Passable \in Nat
  BY <1>1, PassableType DEF Coming, Passable, Filters
<1>3. left = written + Passable
  BY <1>1 DEF DInv, LeftIsAccounted, Delivering, InCall
<1>4. max > 0 /\ written \in Nat /\ max \in Nat /\ finished \in BOOLEAN
  BY <1>1 DEF DInv, CallGoesOn, Amounts
<1>5. \/ written = max /\ finished = FALSE
      \/ written = 0 /\ left = 0 /\ finished = TRUE
  BY <1>1, <1>4 DEF DInv, CallGoesOn
<1>6. written = Smaller(max, left) /\ (finished <=> left < max)
  BY <1>2, <1>3, <1>4, <1>5 DEF Smaller
<1>7. Amounts'
  BY <1>1, <1>2, <1>3, <1>4 DEF Amounts, Filters, Places
<1>8. Stations' /\ InputEnds'
  BY <1>1 DEF DInv, Stations, InputEnds, Filters
<1>9. ReadsAreExact'
  BY <1>1, <1>4, <1>6, DoneIsExact
<1>10. PICK p \in Nat : p = Passable /\ left = written + p
  BY <1>2, <1>3
<1>11. left \in Nat
  BY <1>1 DEF Amounts
<1>12. left - written = p /\ (left < max => p = 0)
  BY <1>4, <1>6, <1>10, <1>11, DoneCounts
<1> QED BY <1>1, <1>2, <1>6, <1>7, <1>8, <1>9, <1>10, <1>12, DoneKeeps

\* The graph has given everything: for now, or for good.
LEMMA SinkEofKeeps == ASSUME DInv, SinkEof PROVE DInv'
<1>1. /\ at \in {"drain", "flushing"} /\ written < max /\ rest = 0 /\ Filters /\ graph
      /\ held = 0 /\ (sentEof \/ passed = limit) /\ Amounts /\ graphFinished' = TRUE
      /\ UNCHANGED <<kind, packets, delay, limit, codec, pending, inputEof, sentFlush, frame,
                     raw, graph, held, passed, rest, sentEof, max, written>>
  BY DEF SinkEof, Draining, input, DInv, Stations, InputEnds
<1>2. Coming' = Coming \/ at' = "convert"
  BY <1>1 DEF Coming
<1>3. CASE at = "flushing"
  <2>1. Done(written, TRUE) /\ at' = "idle" /\ left' = left - written
    BY <1>3 DEF SinkEof, Done
  <2>2. Coming = 0
    <3>1. packets = <<>> /\ codec = <<>> /\ pending = <<>>
      BY <1>3 DEF DInv, InputEnds
    <3>2. Samples(<<>>) = 0
      BY FrameFacts
    <3> QED BY <1>3, <3>1, <3>2 DEF Coming
  <2>3. Passable = 0
    <3>1. Smaller(limit - passed, 0) = 0
      BY <1>1 DEF Smaller, Amounts
    <3> QED BY <1>1, <2>2, <3>1 DEF Passable
  <2>4. Coming' = Coming /\ Passable' = 0
    BY <1>1, <1>2, <2>1, <2>3 DEF Passable, Filters
  <2>5. kind # "raw"
    BY <1>1 DEF Filters
  <2>6. left = written + 0
    BY <1>3, <2>3, <2>5 DEF DInv, LeftIsAccounted, Delivering, InCall
  <2>7. written \in Nat /\ max \in Nat
    BY <1>1 DEF Amounts
  <2>8. written = Smaller(max, left) /\ left < max /\ max > 0
    BY <1>1, <2>6, <2>7 DEF Smaller
  <2>9. Amounts'
    BY <1>1, <2>1, <2>6, <2>7 DEF Amounts, Filters, Places, SinkEof, Done
  <2>10. Stations' /\ InputEnds'
    BY <1>1, <1>3, <2>1 DEF DInv, Stations, InputEnds, Filters
  <2>11. ReadsAreExact'
    BY <2>1, <2>7, <2>8, DoneIsExact
  <2>12. left' = 0
    BY <2>1, <2>6, <2>7
  <2> QED BY <2>1, <2>4, <2>9, <2>10, <2>11, <2>12, DoneKeeps
<1>4. CASE at = "drain"
  <2>1. at' = "next" /\ UNCHANGED <<left, result, finished>>
    BY <1>4 DEF SinkEof
  <2>2. Amounts'
    BY <1>1, <1>4, <2>1, SampleTypes DEF Amounts, Filters, Places, DInv, input, filter, call
  <2>3. Stations'
    BY <1>1, <1>4, <2>1, SampleTypes DEF Stations, Filters, Amounts, DInv, input,
       filter, call
  <2>4. InputEnds'
    BY <1>1, <1>4, <2>1, SampleTypes DEF InputEnds, Stations, Filters, Amounts, DInv,
       input, filter, call
  <2>5. CallGoesOn'
    BY <1>1, <1>4, <2>1, SampleTypes DEF CallGoesOn, Stations, InCall, Filters, Amounts,
       DInv, input, filter, call
  <2>6. LeftIsAccounted'
    BY <1>1, <1>4, <2>1, SampleTypes DEF LeftIsAccounted, CallGoesOn, Stations,
       InputEnds, Passable, Delivering, Coming, InCall, Filters, Amounts, DInv, input,
       filter, call
  <2>7. ReadsAreExact'
    BY <2>1, ResultStays DEF DInv
  <2> QED BY <2>2, <2>3, <2>4, <2>5, <2>6, <2>7 DEF DInv
<1> QED BY <1>1, <1>3, <1>4

\* The converter gives the rest.
LEMMA FlushPlainKeeps == ASSUME DInv, FlushPlain PROVE DInv'
<1>0. PICK n : /\ n = Smaller(held, max - written)
               /\ held' = held - n /\ written' = written + n
               /\ Done(written + n, written + n < max)
  BY DEF FlushPlain
<1>1. /\ at = "flush" /\ kind = "plain" /\ at' = "idle" /\ Amounts /\ written < max
      /\ UNCHANGED <<kind, packets, delay, limit, codec, pending, inputEof, sentFlush, frame,
                     raw, graph, passed, rest, sentEof, graphFinished, max>>
  BY DEF FlushPlain, Done, input, DInv, CallGoesOn, InCall
<1>2. Coming' = 0 /\ Coming = 0
  <2>1. packets = <<>> /\ codec = <<>> /\ pending = <<>>
    BY <1>1 DEF DInv, InputEnds
  <2>2. Samples(<<>>) = 0
    BY FrameFacts
  <2> QED BY <1>1, <2>1, <2>2 DEF Coming
<1>3. held \in Nat /\ written \in Nat /\ max \in Nat /\ left \in Nat /\ written <= max
  BY <1>1 DEF Amounts
<1>4. left = written + held
  <2>1. ~Filters /\ held + 0 = held
    BY <1>1, <1>3 DEF Filters
  <2>2. Passable = held
    BY <1>2, <2>1 DEF Passable
  <2> QED BY <1>1, <2>2 DEF DInv, LeftIsAccounted, Delivering, InCall
<1>5. PICK m \in Nat, h \in Nat :
        /\ m = written + n /\ h = held - n /\ left = m + h /\ m = Smaller(max, left)
        /\ m <= max /\ h <= held /\ (m < max <=> left < max)
  <2>1. n = Smaller(held, max - written)
    BY <1>0
  <2> QED BY <1>1, <1>3, <1>4, <2>1 DEF Smaller
<1>6. written' = m /\ held' = h /\ Done(m, m < max)
  BY <1>0, <1>5
<1>7. PICK end \in BOOLEAN : end <=> m < max
  <2>1. CASE m < max
    BY <2>1
  <2>2. CASE ~(m < max)
    BY <2>2
  <2> QED BY <2>1, <2>2
<1>8. end = (m < max)
  <2>1. CASE m < max
    <3>1. (m < max) = TRUE /\ end = TRUE
      BY <1>7, <2>1
    <3> QED BY <3>1
  <2>2. CASE ~(m < max)
    <3>1. (m < max) = FALSE /\ end = FALSE
      BY <1>7, <2>2
    <3> QED BY <3>1
  <2> QED BY <2>1, <2>2
<1>9. Done(m, end) /\ finished' = end /\ left' = left - m
  BY <1>6, <1>8 DEF Done
<1>10. ReadsAreExact'
  <2>1. end <=> left < max
    BY <1>5, <1>7
  <2>2. Done(m, end)
    BY <1>9
  <2>3. m = Smaller(max, left)
    BY <1>5
  <2> QED BY <2>1, <2>2, <2>3, DoneIsExact
<1>11. left - m = h /\ (left < max => h = 0)
  BY <1>3, <1>5, DoneCounts
<1>12. Passable' = h
  <2>1. ~Filters' /\ h + 0 = h
    BY <1>1 DEF Filters
  <2> QED BY <1>2, <1>6, <2>1 DEF Passable
<1>13. left' = h /\ (finished' => h = 0)
  <2>1. left' = left - m /\ finished' = end
    BY <1>9
  <2> QED BY <1>5, <1>7, <1>11, <2>1
<1>14. Amounts'
  <2>1. left' \in Nat /\ held' \in Nat /\ written' \in 0..max' /\ finished' \in BOOLEAN
    <3>1. left' = h /\ held' = h /\ written' = m /\ finished' = end
      BY <1>6, <1>9, <1>13
    <3> QED BY <1>1, <1>3, <1>5, <3>1
  <2> QED BY <1>1, <2>1 DEF Amounts, Filters, Places
<1>15. Stations' /\ InputEnds'
  <2>1. ~graph => held' = 0
    <3>1. ~graph => held = 0
      BY DEF DInv, InputEnds
    <3>2. held' = h
      BY <1>6
    <3> QED BY <1>3, <1>5, <3>1, <3>2
  <2> QED BY <1>1, <2>1 DEF DInv, Stations, InputEnds, Filters
<1> QED BY <1>1, <1>12, <1>13, <1>14, <1>15, <1>10, DoneKeeps

\* The graph is told, or there was never a frame.
LEMMA FlushFilterKeeps == ASSUME DInv, FlushFilter PROVE DInv'
<1>1. /\ at = "flush" /\ Filters /\ Amounts /\ written < max
      /\ packets = <<>> /\ codec = <<>> /\ pending = <<>> /\ (sentFlush \/ kind = "replay")
      /\ UNCHANGED <<kind, packets, delay, limit, codec, pending, inputEof, sentFlush, frame,
                     raw, graph, held, passed, rest, graphFinished, max, written>>
  BY DEF FlushFilter, input, DInv, CallGoesOn, InCall, Filters, InputEnds
<1>2. CASE graph
  <2>1. sentEof' = TRUE /\ at' = "flushing" /\ UNCHANGED <<left, result, finished>>
    BY <1>2 DEF FlushFilter
  <2>2. Amounts'
    BY <1>1, <1>2, <2>1, SampleTypes DEF Amounts, Filters, Places, DInv, input, filter, call
  <2>3. Stations'
    BY <1>1, <1>2, <2>1, SampleTypes DEF Stations, Filters, Amounts, DInv, input,
       filter, call
  <2>4. InputEnds'
    BY <1>1, <1>2, <2>1, SampleTypes DEF InputEnds, Stations, Filters, Amounts, DInv,
       input, filter, call
  <2>5. CallGoesOn'
    BY <1>1, <1>2, <2>1, SampleTypes DEF CallGoesOn, Stations, InCall, Filters, Amounts,
       DInv, input, filter, call
  <2>6. LeftIsAccounted'
    BY <1>1, <1>2, <2>1, SampleTypes DEF LeftIsAccounted, CallGoesOn, Stations,
       InputEnds, Passable, Delivering, Coming, InCall, Filters, Amounts, DInv, input,
       filter, call
  <2>7. ReadsAreExact'
    BY <2>1, ResultStays DEF DInv
  <2> QED BY <2>2, <2>3, <2>4, <2>5, <2>6, <2>7 DEF DInv
<1>3. CASE ~graph
  <2>1. Done(written, TRUE) /\ at' = "idle" /\ left' = left - written /\ sentEof' = sentEof
    BY <1>3 DEF FlushFilter, Done
  <2>2. Coming' = 0 /\ Coming = 0 /\ held = 0 /\ rest = 0 /\ passed = 0
    <3>1. Samples(<<>>) = 0
      BY FrameFacts
    <3> QED BY <1>1, <1>3, <2>1, <3>1 DEF Coming, DInv, InputEnds
  <2>3. Passable = 0 /\ Passable' = 0
    <3>1. Smaller(limit - passed, 0) = 0
      BY <1>1 DEF Smaller, Amounts
    <3> QED BY <1>1, <2>2, <3>1 DEF Passable, Filters
  <2>4. kind # "raw"
    BY <1>1 DEF Filters
  <2>5. left = written + 0
    BY <1>1, <2>3, <2>4 DEF DInv, LeftIsAccounted, Delivering, InCall
  <2>6. written \in Nat /\ max \in Nat
    BY <1>1 DEF Amounts
  <2>7. written = Smaller(max, left) /\ left < max /\ max > 0
    BY <1>1, <2>5, <2>6 DEF Smaller
  <2>8. Amounts'
    BY <1>1, <2>1, <2>5, <2>6 DEF Amounts, Filters, Places, FlushFilter, Done
  <2>9. Stations' /\ InputEnds'
    BY <1>1, <1>3, <2>1 DEF DInv, Stations, InputEnds, Filters
  <2>10. ReadsAreExact'
    BY <2>1, <2>6, <2>7, DoneIsExact
  <2>11. left' = 0
    BY <2>1, <2>5, <2>6
  <2> QED BY <2>1, <2>3, <2>8, <2>9, <2>10, <2>11, DoneKeeps
<1> QED BY <1>2, <1>3

\* Every step of the decoder keeps the account.
LEMMA DecoderStep ==
    ASSUME DInv, Open \/ Read \/ Cancel \/ Fails \/ CallStep PROVE DInv'
BY QuietSteps, ReceiveKeeps, SendPacketKeeps, ReadPacketKeeps, ReplayFrameKeeps,
   AppendFrameKeeps, KeepKeeps, ConvertKeeps, AddFrameKeeps, CopyRestKeeps, SinkFrameKeeps,
   ReadKeeps, ReturnFullKeeps, SinkEofKeeps, FlushPlainKeeps, FlushFilterKeeps DEF CallStep

\* The loader does not touch the decoder.
LEMMA DecoderStays == ASSUME DInv, UNCHANGED decoderVars PROVE DInv'
BY ResultStays DEF decoderVars, DInv, Amounts, Stations, InputEnds, CallGoesOn,
   LeftIsAccounted,
   Passable, Delivering, Coming, InCall, Filters, input, filter, call

\* Nothing has been read or delivered yet.
LEMMA InitAccounts == Init => DInv
<1> SUFFICES ASSUME Init PROVE DInv
  OBVIOUS
<1>1. packets \in Seq(Nat) /\ limit \in Nat
  BY DecoderAssumption DEF Init, DecoderAssumption
<1>2. Samples(packets) \in Nat /\ Samples(codec) = 0 /\ Samples(pending) = 0
  BY <1>1, FrameFacts DEF Init
<1>3. Smaller(limit, Samples(packets)) \in Nat
  BY <1>1, <1>2, SmallerType
<1>4. Amounts
  <2>1. left \in Nat
    BY <1>2, <1>3 DEF Init, Output
  <2>2. /\ codec \in Seq(Nat) /\ raw \in Seq(Nat) /\ pending \in Seq(Nat) /\ Len(pending) <= 1
    BY EmptySeq DEF Init
  <2>3. passed \in 0..limit /\ written \in 0..max /\ held <= limit - passed
    BY <1>1 DEF Init
  <2> QED BY <1>1, <2>1, <2>2, <2>3 DEF Init, Amounts, Places
<1>5. Stations /\ InputEnds /\ CallGoesOn /\ ReadsAreExact
  BY DEF Init, Stations, InputEnds, CallGoesOn, ReadsAreExact, InCall
<1>6. LeftIsAccounted
  <2>1. Coming = Samples(packets) /\ Delivering = 0 /\ held = 0 /\ rest = 0 /\ passed = 0
    BY <1>2 DEF Init, Coming, Delivering, InCall
  <2>2. limit - passed = limit /\ held + Coming = Samples(packets)
    BY <1>1, <1>2, <2>1
  <2> QED BY <1>2, <1>3, <2>1, <2>2 DEF Init, LeftIsAccounted, Passable, Output, Filters
<1> QED BY <1>4, <1>5, <1>6 DEF DInv

\* The account of samples and what is known of the function table.
THEOREM DecoderInvariant == Spec => [](LoaderInv /\ DInv)
<1>1. Init => LoaderInv /\ DInv
  BY InitAccounts, LoaderStarts DEF Init
<1>2. LoaderInv /\ DInv /\ [Next]_vars => LoaderInv' /\ DInv'
  <2> SUFFICES ASSUME LoaderInv, DInv, [Next]_vars PROVE LoaderInv' /\ DInv'
    OBVIOUS
  <2>1. CASE \E t \in Threads : ~Busy(t) /\ LoaderStep(t) /\ UNCHANGED decoderVars
    BY <2>1, StepKeepsLoaderInv, DecoderStays
  <2>2. CASE Open \/ Read \/ Cancel \/ Fails \/ CallStep
    <3>1. UNCHANGED loaderVars
      BY <2>2 DEF Open, Read, Cancel, Fails, CallStep, ReturnFull, IfCancelled, Receive,
         ReceiveEof, SendPacket, SendFlush, WantPackets, ReadPacket, SkipPacket, AppendFrame,
         Keep, ReplayFrame, ReplayEof, SkipEmpty, Convert, AddFrame, CopyRest, SinkFrame,
         SinkAgain, SinkEof, FlushPlain, FlushFilter
    <3> QED BY <2>2, <3>1, LoaderStays, DecoderStep
  <2>3. CASE UNCHANGED vars
    BY <2>3, LoaderStays, DecoderStays DEF vars
  <2> QED BY <2>1, <2>2, <2>3 DEF Next
<1> QED BY <1>1, <1>2, PTL DEF Spec

\* The counters of a decoder have their types: no more is written than the buffer
\* holds, and no more leaves a filter graph than it may pass.
THEOREM DecoderTyped == Spec => []TypeOK
<1>1. LoaderInv /\ DInv => TypeOK
  BY DEF LoaderInv, DInv, Amounts, TypeOK
<1> QED BY <1>1, DecoderInvariant, PTL

\* Every read of a decoder, of a file or of kept frames, fills the buffer unless the
\* samples run out, and says so exactly when they do not fill it (sa_decoder_read,
\* sa_raw_filter_decoder_read), for files, filters, delays and buffers of any size.
THEOREM ReadsStayExact == Spec => []ReadsAreExact
<1>1. DInv => ReadsAreExact
  BY DEF DInv
<1> QED BY <1>1, DecoderInvariant, PTL

\* A decoder finds every function in the table for as long as it is open, though
\* other threads enter the loader meanwhile (sa_ffmpeg_initialize).
THEOREM DecoderFindsTable == Spec => []TableIsLoaded
<1>1. LoaderInv => TableIsLoaded
  BY LoadedTable
<1> QED BY <1>1, DecoderInvariant, PTL
================================================================================
