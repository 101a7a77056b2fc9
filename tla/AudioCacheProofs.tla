----------------------------- MODULE AudioCacheProofs -----------------------------
(***************************************************************************)
(* Proofs about AudioCache for every set of keys, playbacks and workers,   *)
(* every budget, queue capacity and retention.                             *)
(*                                                                         *)
(* The inductive invariant CInv has four parts.  TInv: the types, and what *)
(* a job or a playback holds at each of its steps, which bounds every      *)
(* step's effect on the counters.  BudgetKept follows from it step by      *)
(* step.  Marks: every mark in building or capturing has one owner, is of  *)
(* a known key and of one without an asset.  CloseCancelsBuilds stands on  *)
(* its own.  Each part has a lemma about the steps of a worker, one about  *)
(* those of a playback, and one about Next.                                *)
(***************************************************************************)
EXTENDS AudioCache, TLAPS

\* What a build holds: it decodes into what it has reserved, asks for no more
\* than the budget has, and has a victim while it frees one.
JobShape(j) ==
    /\ j.total <= j.held
    /\ j.pc # "finish" => j.total = 0
    /\ j.pc \in {"token", "open"} => j.held = 0
    /\ j.pc \in {"lock", "reserve", "freeing"} => j.held + j.need <= MaxBytes
    /\ j.pc = "grown" => j.need <= j.held
    /\ j.pc = "freeing" => j.victim # None

\* What a playback holds: a capture fits its buffer, exists only while the file
\* plays, and is of a PCM range.
FileShape(r) ==
    /\ r.capture.count <= r.capture.capacity
    /\ r.pc = "growing" => r.capture.count < r.capture.capacity
    /\ r.pc \in {"growing", "aborting"} => r.capture.on
    /\ r.capture.on => r.pc \in {"playing", "growing", "aborting"} /\ r.key \in PcmKeys
    /\ r.pc = "opened" => r.key \in PcmKeys
    /\ r.pc # "none" => r.key \in Keys

Shapes ==
    /\ \A w \in Workers : JobShape(job[w])
    /\ \A f \in Files : FileShape(file[f])

TInv == TypeOK /\ Shapes

\* Every mark has one owner and is of a key that is known and not cached.
Marks == MarksAreOwned /\ SingleProducer /\ UsagePresent

CInv == TInv /\ BudgetKept /\ Marks /\ CloseCancelsBuilds

--------------------------------------------------------------------------------
LEMMA Sizes ==
    /\ MaxBytes \in Nat \ {0} /\ QueueCap \in Nat \ {0}
    /\ Retention \in Nat \ {0} /\ MaxTime \in Nat \ {0}
BY CacheAssumption DEF CacheAssumption

LEMMA NoneApart == None \notin Keys /\ None \notin Workers /\ None \notin Assets
BY CacheAssumption DEF CacheAssumption

LEMMA NoJobFacts ==
    /\ NoJob \in Job
    /\ NoJob.pc = "idle" /\ NoJob.held = 0 /\ NoJob.need = 0 /\ NoJob.total = 0
    /\ NoJob.err = "none" /\ NoJob.victim = None
BY Sizes DEF NoJob, Job, Bytes

LEMMA NoFileFacts ==
    /\ NoFile \in Playback /\ NoFile.capture = NoCapture
    /\ NoFile.pc = "none" /\ NoFile.lease = None /\ ~NoFile.first /\ ~NoFile.loops
    /\ ~NoCapture.on /\ NoCapture.count = 0 /\ NoCapture.capacity = 0
    /\ NoCapture \in [on : BOOLEAN, count : Bytes, capacity : Bytes]
BY Sizes DEF NoFile, NoCapture, Playback, Bytes

LEMMA NewUsageType == NewUsage \in UsageRecord
BY Sizes DEF NewUsage, UsageRecord, Times

\* The invariant holds initially.
LEMMA InitCInv == Init => CInv
<1> SUFFICES ASSUME Init PROVE CInv
  OBVIOUS
<1> USE Sizes DEF Init, NoJob, NoFile, NoCapture
<1>1. TypeOK
  <2>1. asset \in [Assets -> AssetRecord]
    BY DEF NoAsset, AssetRecord, Bytes, Times
  <2>2. usage \in [Keys -> UsageRecord]
    BY NewUsageType
  <2>3. queue \in Seq(Keys) /\ Len(queue) <= QueueCap
    OBVIOUS
  <2>4. job \in [Workers -> Job]
    BY DEF Job, Bytes
  <2>5. file \in [Files -> Playback]
    BY DEF Playback, Bytes
  <2>6. now \in Times /\ lastPrune \in Times
    BY DEF Times
  <2>7. entry \in [Keys -> Assets \cup {None}] /\ evictor \in Workers \cup {None}
    OBVIOUS
  <2>8. closing \in BOOLEAN /\ closed \in BOOLEAN
    OBVIOUS
  <2>9. resident \in Int /\ reserved \in Int /\ reclaiming \in Int
    OBVIOUS
  <2>10. live \subseteq Assets /\ known \subseteq Keys /\ building \subseteq Keys
         /\ capturing \subseteq PcmKeys /\ tokens \subseteq Workers /\ cancelled \subseteq Workers
    OBVIOUS
  <2> HIDE DEF Init
  <2> QED BY <2>1, <2>2, <2>3, <2>4, <2>5, <2>6, <2>7, <2>8, <2>9, <2>10 DEF TypeOK
<1>2. Shapes
  BY DEF Shapes, JobShape, FileShape, Bytes
<1>3. BudgetKept
  BY DEF BudgetKept, Used
<1>4. Marks
  BY DEF Marks, MarksAreOwned, SingleProducer, UsagePresent, OneOwner, Queued, Built, Active,
         Captures
<1>5. CloseCancelsBuilds
  BY DEF CloseCancelsBuilds
<1> QED BY <1>1, <1>2, <1>3, <1>4, <1>5 DEF CInv, TInv

--------------------------------------------------------------------------------
\* Types and shapes

\* Most steps of a worker change its job and little else.
LEMMA JobChange ==
    ASSUME TInv, NEW w \in Workers, NEW j \in Job, JobShape(j), job' = [job EXCEPT ![w] = j]
    PROVE  job' \in [Workers -> Job] /\ \A v \in Workers : JobShape(job'[v])
BY DEF TInv, TypeOK, Shapes

LEMMA ForgetTypes ==
    ASSUME TInv, NEW as, Forget(as)
    PROVE  live' \subseteq Assets /\ asset' \in [Assets -> AssetRecord]
<1>1. NoAsset \in AssetRecord
  BY Sizes DEF NoAsset, AssetRecord, Bytes, Times
<1> QED BY <1>1 DEF TInv, TypeOK, Forget

LEMMA AssetFacts ==
    ASSUME NEW r \in AssetRecord
    PROVE  /\ r.bytes \in Bytes /\ r.bytes \in Int /\ r.refs \in Int
           /\ [r EXCEPT !.cached = FALSE] \in AssetRecord
           /\ \A n \in Int : [r EXCEPT !.refs = n] \in AssetRecord
           /\ \A n \in Int, t \in Times : [r EXCEPT !.refs = n, !.lastUsed = t] \in AssetRecord
<1>1. r.bytes \in Bytes /\ r.refs \in Int /\ [r EXCEPT !.cached = FALSE] \in AssetRecord
  BY DEF AssetRecord
<1>2. r.bytes \in Int
  BY <1>1, Sizes DEF Bytes
<1>3. \A n \in Int : [r EXCEPT !.refs = n] \in AssetRecord
  BY DEF AssetRecord
<1>4. \A n \in Int, t \in Times : [r EXCEPT !.refs = n, !.lastUsed = t] \in AssetRecord
  BY DEF AssetRecord
<1> QED BY <1>1, <1>2, <1>3, <1>4

LEMMA AdmitTypes ==
    ASSUME TInv, NEW k, NEW bytes \in Bytes, Admit(k, bytes)
    PROVE  /\ entry' \in [Keys -> Assets \cup {None}] /\ live' \subseteq Assets
           /\ asset' \in [Assets -> AssetRecord] /\ resident' \in Int
<1>1. PICK a \in Assets \ live :
        /\ live' = live \cup {a}
        /\ asset' = [asset EXCEPT ![a] = [bytes |-> bytes, refs |-> 0, cached |-> TRUE,
                                         lastUsed |-> now]]
        /\ entry' = [entry EXCEPT ![k] = a]
        /\ resident' = resident + bytes
  BY DEF Admit
<1>2. [bytes |-> bytes, refs |-> 0, cached |-> TRUE, lastUsed |-> now] \in AssetRecord
  BY DEF TInv, TypeOK, AssetRecord
<1>3. resident' \in Int
  BY <1>1, Sizes DEF TInv, TypeOK, Bytes
<1> QED BY <1>1, <1>2, <1>3 DEF TInv, TypeOK

\* What a failure writes into a usage keeps it a usage.
LEMMA UsageFacts ==
    ASSUME NEW u \in UsageRecord, NEW t \in Times
    PROVE  /\ [u EXCEPT !.tooLarge = TRUE] \in UsageRecord
           /\ [u EXCEPT !.retryAfter = t + Retention] \in UsageRecord
           /\ [u EXCEPT !.lastPlay = t] \in UsageRecord
           /\ \A plays \in 0..2 : [u EXCEPT !.plays = plays, !.lastPlay = t] \in UsageRecord
<1>1. t + Retention \in 0..MaxTime + Retention
  BY Sizes DEF Times
<1> QED BY <1>1 DEF UsageRecord

\* The numbers of a job.
LEMMA JobNumbers ==
    ASSUME NEW j \in Job
    PROVE  /\ j.held \in Int /\ 0 <= j.held /\ j.held <= MaxBytes
           /\ j.need \in Int /\ 0 <= j.need /\ j.need <= MaxBytes
           /\ j.total \in Int /\ 0 <= j.total /\ j.total <= MaxBytes
BY Sizes DEF Job, Bytes

\* No step of a worker breaks the types or the shape of its job.
LEMMA WorkerKeepsTInv ==
    ASSUME TInv, NEW w \in Workers, WorkerStep(w) PROVE TInv'
<1> USE Sizes DEF TInv, TypeOK, Shapes, Step, assets, usages, budget, jobs, ending
<1> job[w] \in Job /\ JobShape(job[w])
  OBVIOUS
<1>1. CASE TakeJob(w)
  <2> DEFINE j == [NoJob EXCEPT !.pc = "token", !.key = Head(queue)]
  <2>3. Head(queue) \in Keys
    BY <1>1 DEF TakeJob
  <2>4. j \in Job
    BY <2>3, NoJobFacts DEF Job
  <2>5. j.pc = "token" /\ j.held = 0 /\ j.total = 0
    BY NoJobFacts DEF Job
  <2>1. j \in Job /\ JobShape(j)
    BY <2>4, <2>5 DEF JobShape
  <2>2. job' = [job EXCEPT ![w] = j] /\ queue' \in Seq(Keys) /\ Len(queue') <= QueueCap
    BY <1>1 DEF TakeJob
  <2> HIDE DEF j
  <2> QED BY <1>1, <2>1, <2>2, JobChange DEF TakeJob
<1>2. CASE WorkerExits(w)
  <2> DEFINE j == [job[w] EXCEPT !.pc = "gone"]
  <2>1. j \in Job /\ JobShape(j)
    BY <1>2 DEF WorkerExits, Job, JobShape, Bytes
  <2>2. job' = [job EXCEPT ![w] = j]
    BY <1>2 DEF WorkerExits
  <2> HIDE DEF j
  <2> QED BY <1>2, <2>1, <2>2, JobChange DEF WorkerExits
<1>3. CASE NewToken(w)
  <2> DEFINE j == [job[w] EXCEPT !.pc = "open"]
             e == [job[w] EXCEPT !.pc = "finish", !.err = "other"]
  <2>1. j \in Job /\ JobShape(j) /\ e \in Job /\ JobShape(e)
    BY <1>3 DEF NewToken, Job, JobShape, Bytes
  <2>2. CASE job' = [job EXCEPT ![w] = j] /\ tokens' = tokens \cup {w}
    <3> HIDE DEF j, e
    <3> QED BY <1>3, <2>1, <2>2, JobChange DEF NewToken
  <2>3. CASE job' = [job EXCEPT ![w] = e] /\ UNCHANGED tokens
    <3> HIDE DEF j, e
    <3> QED BY <1>3, <2>1, <2>3, JobChange DEF NewToken
  <2> QED BY <1>3, <2>2, <2>3 DEF NewToken
<1>4. CASE OpenFails(w)
  <2> DEFINE j == [job[w] EXCEPT !.pc = "finish", !.err = "other"]
  <2>1. j \in Job /\ JobShape(j)
    BY <1>4 DEF OpenFails, Job, JobShape, Bytes
  <2>2. job' = [job EXCEPT ![w] = j]
    BY <1>4 DEF OpenFails
  <2> HIDE DEF j
  <2> QED BY <1>4, <2>1, <2>2, JobChange DEF OpenFails
<1>5. CASE Opened(w)
  <2>1. PICK need \in 1..MaxBytes : job' = [job EXCEPT ![w].pc = "lock", ![w].need = need]
    BY <1>5 DEF Opened
  <2> DEFINE j == [job[w] EXCEPT !.pc = "lock", !.need = need]
  <2>4. job[w].held = 0 /\ job[w].total = 0 /\ need \in Bytes
    BY <1>5, Sizes DEF Opened, JobShape, Bytes
  <2>5. j \in Job
    BY <2>4 DEF Job
  <2>6. j.pc = "lock" /\ j.need = need /\ j.held = 0 /\ j.total = 0
    BY <2>4 DEF Job
  <2>2. j \in Job /\ JobShape(j)
    <3> HIDE DEF j
    <3> QED BY <2>4, <2>5, <2>6 DEF JobShape, Bytes
  <2>3. job' = [job EXCEPT ![w] = j]
    BY <2>1
  <2> HIDE DEF j
  <2> QED BY <1>5, <2>2, <2>3, JobChange DEF Opened
<1>6. CASE LockEviction(w)
  <2> DEFINE j == [job[w] EXCEPT !.pc = "reserve"]
  <2>1. j \in Job /\ JobShape(j)
    BY <1>6 DEF LockEviction, Job, JobShape, Bytes
  <2>2. job' = [job EXCEPT ![w] = j]
    BY <1>6 DEF LockEviction
  <2> HIDE DEF j
  <2> QED BY <1>6, <2>1, <2>2, JobChange DEF LockEviction
<1>7. CASE Reserve(w)
  <2> DEFINE fresh == job[w].held = 0
             j == [job[w] EXCEPT !.held = @ + job[w].need,
                                 !.pc = IF fresh THEN "decode" ELSE "grown",
                                 !.need = IF fresh THEN 0 ELSE @]
  <2>3. job[w].pc = "reserve" /\ job[w].held + job[w].need <= MaxBytes
        /\ job[w].total = 0 /\ job[w].total <= job[w].held
    BY <1>7 DEF Reserve, JobShape
  <2>4. job[w].held + job[w].need \in Bytes /\ 0 \in Bytes
    BY <2>3, JobNumbers DEF Bytes
  <2>5. j \in Job
    BY <2>4 DEF Job
  <2>6. /\ j.held = job[w].held + job[w].need /\ j.total = 0
        /\ j.pc = IF fresh THEN "decode" ELSE "grown"
        /\ j.need = IF fresh THEN 0 ELSE job[w].need
    BY <2>3 DEF Job
  <2>2. job' = [job EXCEPT ![w] = j]
    BY <1>7 DEF Reserve
  <2>7. reserved' \in Int
    BY <1>7, JobNumbers DEF Reserve
  <2> HIDE DEF j
  <2>1. j \in Job /\ JobShape(j)
    <3>1. 0 <= j.held /\ (~fresh => j.need <= j.held)
      BY <2>6, JobNumbers
    <3> QED BY <2>5, <2>6, <3>1 DEF JobShape
  <2> QED BY <1>7, <2>1, <2>2, <2>7, JobChange DEF Reserve
<1>8. CASE Detach(w)
  <2>1. PICK k \in Victims :
           /\ entry' = [entry EXCEPT ![k] = None]
           /\ asset' = [asset EXCEPT ![entry[k]].cached = FALSE]
           /\ resident' = resident - asset[entry[k]].bytes
           /\ reclaiming' = reclaiming + asset[entry[k]].bytes
           /\ job' = [job EXCEPT ![w].pc = "freeing", ![w].victim = entry[k]]
    BY <1>8 DEF Detach
  <2>2. k \in Keys /\ entry[k] \in Assets
    BY DEF Victims, Evictable
  <2> DEFINE j == [job[w] EXCEPT !.pc = "freeing", !.victim = entry[k]]
  <2>3. j \in Job /\ JobShape(j)
    BY <1>8, <2>2, NoneApart DEF Detach, Job, JobShape
  <2>4. job' = [job EXCEPT ![w] = j]
    BY <2>1
  <2>5. resident' \in Int /\ reclaiming' \in Int
    <3>1. asset[entry[k]].bytes \in Int
      BY <2>2, AssetFacts
    <3> QED BY <2>1, <3>1
  <2> HIDE DEF j
  <2>6. entry' \in [Keys -> Assets \cup {None}]
    BY <2>1
  <2>7. asset' \in [Assets -> AssetRecord]
    <3>1. [asset[entry[k]] EXCEPT !.cached = FALSE] \in AssetRecord
      BY <2>2, AssetFacts
    <3>2. asset' = [asset EXCEPT ![entry[k]] = [asset[entry[k]] EXCEPT !.cached = FALSE]]
      BY <2>1
    <3> QED BY <3>1, <3>2
  <2>8. job' \in [Workers -> Job] /\ \A v \in Workers : JobShape(job'[v])
    BY <2>3, <2>4, JobChange
  <2> QED BY <1>8, <2>5, <2>6, <2>7, <2>8 DEF Detach
<1>9. CASE FreeVictim(w)
  <2> DEFINE j == [job[w] EXCEPT !.pc = "reserve", !.victim = None]
  <2>1. j \in Job /\ JobShape(j)
    BY <1>9 DEF FreeVictim, Job, JobShape
  <2>2. job' = [job EXCEPT ![w] = j]
    BY <1>9 DEF FreeVictim
  <2>3. job[w].victim \in Assets
    BY <1>9 DEF FreeVictim, Job, JobShape
  <2>4. reclaiming' \in Int
    <3>1. asset[job[w].victim].bytes \in Int
      BY <2>3, AssetFacts
    <3>2. reclaiming' = reclaiming - asset[job[w].victim].bytes
      BY <1>9 DEF FreeVictim
    <3> QED BY <3>1, <3>2
  <2> HIDE DEF j
  <2> QED BY <1>9, <2>1, <2>2, <2>4, ForgetTypes, JobChange DEF FreeVictim
<1>10. CASE Refused(w)
  <2> DEFINE end == IF job[w].held = 0 THEN "finish" ELSE "release"
             j == [job[w] EXCEPT !.err = "budget", !.need = 0,
                                 !.pc = end]
  <2>6. 0 \in Bytes /\ end \in {"finish", "release"}
    BY Sizes DEF Bytes
  <2>3. j \in Job
    <3> HIDE DEF end
    <3> QED BY <2>6 DEF Job
  <2>4. j.pc \in {"finish", "release"} /\ j.need = 0 /\ j.held = job[w].held
        /\ j.total = job[w].total
    BY DEF Job
  <2>5. job[w].total = 0 /\ job[w].total <= job[w].held
    BY <1>10 DEF Refused, JobShape
  <2>1. j \in Job /\ JobShape(j)
    <3> HIDE DEF j
    <3> QED BY <2>3, <2>4, <2>5 DEF JobShape
  <2>2. job' = [job EXCEPT ![w] = j]
    BY <1>10 DEF Refused, Failed
  <2> HIDE DEF j
  <2> QED BY <1>10, <2>1, <2>2, JobChange DEF Refused
<1>11. CASE GrowSucceeds(w)
  <2> DEFINE j == [job[w] EXCEPT !.pc = "decode", !.need = 0]
  <2>1. j \in Job /\ JobShape(j)
    BY <1>11 DEF GrowSucceeds, Job, JobShape, Bytes
  <2>2. job' = [job EXCEPT ![w] = j]
    BY <1>11 DEF GrowSucceeds
  <2> HIDE DEF j
  <2> QED BY <1>11, <2>1, <2>2, JobChange DEF GrowSucceeds
<1>12. CASE GrowFails(w)
  <2> DEFINE j == [job[w] EXCEPT !.pc = "release", !.held = @ - job[w].need, !.need = 0,
                                 !.err = "other"]
  <2>3. job[w].pc = "grown" /\ job[w].total = 0 /\ job[w].need <= job[w].held
    BY <1>12 DEF GrowFails, JobShape
  <2>4. job[w].held - job[w].need \in Bytes /\ 0 \in Bytes
    BY <2>3, JobNumbers DEF Bytes
  <2>5. j \in Job
    BY <2>4 DEF Job
  <2>6. j.pc = "release" /\ j.held \in Bytes /\ j.total = 0
    BY <2>3, <2>4 DEF Job
  <2>1. j \in Job /\ JobShape(j)
    <3> HIDE DEF j
    <3> QED BY <2>5, <2>6 DEF JobShape, Bytes
  <2>7. job' = [job EXCEPT ![w] = j]
    BY <1>12 DEF GrowFails
  <2>8. reserved' = reserved - job[w].need /\ reserved \in Int /\ job[w].need \in Int
    BY <1>12, JobNumbers DEF GrowFails
  <2>2. job' = [job EXCEPT ![w] = j] /\ reserved' \in Int
    BY <2>7, <2>8
  <2> HIDE DEF j
  <2> QED BY <1>12, <2>1, <2>2, JobChange DEF GrowFails
<1>13. CASE Decoded(w)
  <2>1. PICK total \in 1..job[w].held : job' = [job EXCEPT ![w].pc = "finish", ![w].total = total]
    BY <1>13 DEF Decoded
  <2> DEFINE j == [job[w] EXCEPT !.pc = "finish", !.total = total]
  <2>4. total \in Bytes /\ total <= job[w].held
    BY JobNumbers DEF Bytes
  <2>5. j \in Job
    BY <2>4 DEF Job
  <2>6. j.pc = "finish" /\ j.total = total /\ j.held = job[w].held
    BY DEF Job
  <2>2. j \in Job /\ JobShape(j)
    <3> HIDE DEF j
    <3> QED BY <2>4, <2>5, <2>6 DEF JobShape
  <2>3. job' = [job EXCEPT ![w] = j]
    BY <2>1
  <2> HIDE DEF j
  <2> QED BY <1>13, <2>2, <2>3, JobChange DEF Decoded
<1>14. CASE DecodeFails(w)
  <2> DEFINE j == [job[w] EXCEPT !.err = "other",
                                 !.pc = IF job[w].key \in PcmKeys THEN "release" ELSE "finish"]
  <2>1. j \in Job /\ JobShape(j)
    BY <1>14 DEF DecodeFails, Job, JobShape, Bytes
  <2>2. job' = [job EXCEPT ![w] = j]
    BY <1>14 DEF DecodeFails
  <2> HIDE DEF j
  <2> QED BY <1>14, <2>1, <2>2, JobChange DEF DecodeFails
<1>15. CASE TooSmall(w)
  <2> DEFINE held == job[w].held
             twice == IF 2 * held > MaxBytes THEN MaxBytes ELSE 2 * held
             end == IF job[w].key \in PcmKeys THEN "release" ELSE "finish"
  <2>1. held \in Bytes /\ twice \in Bytes /\ (held # MaxBytes => twice - held \in Bytes)
    <3>1. MaxBytes \in Int /\ held \in Int /\ 0 <= held /\ held <= MaxBytes
      BY JobNumbers, Sizes
    <3> HIDE DEF TypeOK, Shapes, TInv, held
    <3>2. CASE 2 * held > MaxBytes
      BY <3>1, <3>2 DEF Bytes
    <3>3. CASE ~(2 * held > MaxBytes)
      BY <3>1, <3>3 DEF Bytes
    <3> QED BY <3>2, <3>3
  <2> HIDE DEF held, twice, end
  <2>2. end \in {"release", "finish"}
    BY DEF end
  <2>3. CASE held = MaxBytes
    <3> DEFINE j == [job[w] EXCEPT !.err = "tooLarge", !.pc = end]
    <3>1. j \in Job /\ JobShape(j)
      BY <1>15, <2>2 DEF TooSmall, Job, JobShape, Bytes
    <3>2. job' = [job EXCEPT ![w] = j]
      BY <1>15, <2>3 DEF TooSmall, held, end
    <3> HIDE DEF j
    <3> QED BY <1>15, <3>1, <3>2, JobChange DEF TooSmall
  <2>4. CASE held # MaxBytes /\ job[w].key \in PcmKeys
    <3> DEFINE j == [job[w] EXCEPT !.pc = "lock", !.need = twice - held]
    <3>3. job[w].total = 0 /\ 0 <= held /\ held + (twice - held) <= MaxBytes
      BY <1>15, <2>1 DEF TooSmall, JobShape, Bytes
    <3>4. j \in Job
      BY <2>1, <2>4 DEF Job
    <3>5. j.pc = "lock" /\ j.need = twice - held /\ j.held = held /\ j.total = job[w].total
      BY DEF Job, held
    <3>1. j \in Job /\ JobShape(j)
      <4> HIDE DEF j
      <4> QED BY <3>3, <3>4, <3>5 DEF JobShape
    <3>2. job' = [job EXCEPT ![w] = j]
      BY <1>15, <2>4 DEF TooSmall, held, twice
    <3> HIDE DEF j
    <3> QED BY <1>15, <3>1, <3>2, JobChange DEF TooSmall
  <2>5. CASE held # MaxBytes /\ job[w].key \notin PcmKeys
    <3> DEFINE j == [job[w] EXCEPT !.pc = "release", !.need = twice]
    <3>1. j \in Job /\ JobShape(j)
      BY <1>15, <2>1 DEF TooSmall, Job, JobShape
    <3>2. job' = [job EXCEPT ![w] = j]
      BY <1>15, <2>5 DEF TooSmall, held, twice
    <3> HIDE DEF j
    <3> QED BY <1>15, <3>1, <3>2, JobChange DEF TooSmall
  <2> QED BY <2>3, <2>4, <2>5
<1>16. CASE Release(w)
  <2> DEFINE next == IF job[w].need > 0 THEN "lock" ELSE "finish"
             j == [job[w] EXCEPT !.held = 0, !.pc = next]
  <2>7. 0 \in Bytes /\ next \in {"lock", "finish"}
    BY Sizes DEF Bytes
  <2>3. j \in Job
    <3> HIDE DEF next
    <3> QED BY <2>7 DEF Job
  <2>4. j.pc \in {"lock", "finish"} /\ j.need = job[w].need /\ j.held = 0 /\ j.total = job[w].total
    BY DEF Job
  <2>5. job[w].total = 0
    BY <1>16 DEF Release, JobShape
  <2>1. j \in Job /\ JobShape(j)
    <3> HIDE DEF j
    <3> QED BY <2>3, <2>4, <2>5, JobNumbers DEF JobShape
  <2>6. job' = [job EXCEPT ![w] = j]
    BY <1>16 DEF Release
  <2>8. reserved' = reserved - job[w].held /\ reserved \in Int /\ job[w].held \in Int
    BY <1>16, JobNumbers DEF Release
  <2>2. job' = [job EXCEPT ![w] = j] /\ reserved' \in Int
    BY <2>6, <2>8
  <2> HIDE DEF j
  <2> QED BY <1>16, <2>1, <2>2, JobChange DEF Release
<1>17. CASE Finish(w)
  <2> DEFINE j == Finished(w)
             k == job[w].key
  <2>1. j \in Job /\ JobShape(j)
    <3>1. j \in Job /\ j.pc \in {"drop", "idle"} /\ j.held = 0 /\ j.total = 0
      BY NoJobFacts DEF Finished, Job
    <3> QED BY <3>1 DEF JobShape
  <2>2. job' = [job EXCEPT ![w] = j] /\ reserved' \in Int
    <3>1. job' = [job EXCEPT ![w] = j] /\ reserved' = reserved - job[w].held
      BY <1>17 DEF Finish
    <3> QED BY <3>1, JobNumbers
  <2>3. usage' \in [Keys -> UsageRecord]
    <3>1. \/ usage' = usage
          \/ usage' = [usage EXCEPT ![k] = [usage[k] EXCEPT !.tooLarge = TRUE]]
          \/ usage' = [usage EXCEPT ![k] = [usage[k] EXCEPT !.retryAfter = now + Retention]]
      BY <1>17 DEF Finish
    <3>2. usage \in [Keys -> UsageRecord] /\ now \in Times
      OBVIOUS
    <3> HIDE DEF TInv, TypeOK, Shapes
    <3>3. k \in Keys => /\ [usage[k] EXCEPT !.tooLarge = TRUE] \in UsageRecord
                        /\ [usage[k] EXCEPT !.retryAfter = now + Retention] \in UsageRecord
      BY <3>2, UsageFacts
    <3> QED BY <3>1, <3>2, <3>3
  <2>4. /\ entry' \in [Keys -> Assets \cup {None}] /\ live' \subseteq Assets
        /\ asset' \in [Assets -> AssetRecord]
        /\ resident' \in Int
    <3>1. CASE UNCHANGED <<assets, resident>>
      BY <3>1
    <3>2. CASE Admit(k, job[w].total)
      BY <3>2, AdmitTypes DEF Job
    <3> QED BY <1>17, <3>1, <3>2 DEF Finish
  <2>5. building' \subseteq Keys
    BY <1>17 DEF Finish
  <2> HIDE DEF j, k
  <2> QED BY <1>17, <2>1, <2>2, <2>3, <2>4, <2>5, JobChange DEF Finish
<1>18. CASE DropToken(w)
  <2> DEFINE j == [job[w] EXCEPT !.pc = "idle"]
  <2>1. j \in Job /\ JobShape(j)
    BY <1>18 DEF DropToken, Job, JobShape, Bytes
  <2>2. job' = [job EXCEPT ![w] = j]
    BY <1>18 DEF DropToken
  <2> HIDE DEF j
  <2> QED BY <1>18, <2>1, <2>2, JobChange DEF DropToken
<1> QED BY <1>1, <1>2, <1>3, <1>4, <1>5, <1>6, <1>7, <1>8, <1>9, <1>10, <1>11, <1>12, <1>13,
      <1>14, <1>15, <1>16, <1>17, <1>18 DEF WorkerStep

LEMMA FileChange ==
    ASSUME TInv, NEW f \in Files, NEW r \in Playback, FileShape(r), Set(f, r)
    PROVE  file' \in [Files -> Playback] /\ \A g \in Files : FileShape(file'[g])
BY DEF TInv, TypeOK, Shapes, Set

LEMMA PlaybackFacts ==
    ASSUME NEW r \in Playback
    PROVE  /\ r.capture.on \in BOOLEAN
           /\ r.capture.count \in Int /\ 0 <= r.capture.count /\ r.capture.count <= MaxBytes
           /\ r.capture.capacity \in Int /\ 0 <= r.capture.capacity
           /\ r.capture.capacity <= MaxBytes
<1>1. r.capture \in [on : BOOLEAN, count : Bytes, capacity : Bytes]
  BY DEF Playback
<1>2. r.capture.on \in BOOLEAN /\ r.capture.count \in Bytes /\ r.capture.capacity \in Bytes
  BY <1>1
<1> QED BY <1>2, Sizes DEF Bytes

LEMMA NoFileShape == NoFile \in Playback /\ FileShape(NoFile)
BY NoFileFacts DEF FileShape

\* A playback goes on, its lease and its first block aside, as it was.
LEMMA GotoTypes ==
    ASSUME TInv, NEW f \in Files, file[f].pc # "none", ~file[f].capture.on,
           NEW pc \in {"playing", "cached", "restarting", "missed", "closing"},
           NEW lease \in Assets \cup {None},
           Set(f, [file[f] EXCEPT !.pc = pc, !.lease = lease])
    PROVE  file' \in [Files -> Playback] /\ \A g \in Files : FileShape(file'[g])
<1> DEFINE r == [file[f] EXCEPT !.pc = pc, !.lease = lease]
<1>1. file[f] \in Playback /\ FileShape(file[f])
  BY DEF TInv, TypeOK, Shapes
<1>2. r \in Playback /\ r.pc = pc /\ r.capture = file[f].capture /\ r.key = file[f].key
  BY <1>1 DEF Playback
<1>3. r \in Playback /\ FileShape(r)
  <2> HIDE DEF r
  <2> QED BY <1>1, <1>2 DEF FileShape
<1> HIDE DEF r
<1>4. Set(f, r)
  BY DEF r
<1> QED BY <1>3, <1>4, FileChange

LEMMA AbortTypes ==
    ASSUME TInv, NEW f \in Files, file[f].capture.on, NEW err,
           NEW pc \in {"playing", "closing"}, Abort(f, err, pc)
    PROVE  /\ capturing' \subseteq PcmKeys /\ reserved' \in Int
           /\ usage' \in [Keys -> UsageRecord]
           /\ file' \in [Files -> Playback] /\ \A g \in Files : FileShape(file'[g])
<1> DEFINE k == file[f].key
           r == [file[f] EXCEPT !.pc = pc, !.capture = NoCapture]
<1>1. file[f] \in Playback /\ FileShape(file[f]) /\ capturing \subseteq PcmKeys
      /\ usage \in [Keys -> UsageRecord] /\ now \in Times /\ reserved \in Int
  BY DEF TInv, TypeOK, Shapes
<1>2. k \in Keys
  BY <1>1 DEF FileShape
<1>3. capturing' \subseteq PcmKeys
  BY <1>1 DEF Abort
<1>4. reserved' \in Int
  <2>1. reserved' = reserved - file[f].capture.capacity
    BY DEF Abort
  <2> QED BY <2>1, <1>1, PlaybackFacts
<1>5. usage' \in [Keys -> UsageRecord]
  <2>1. /\ [usage[k] EXCEPT !.tooLarge = TRUE] \in UsageRecord
        /\ [usage[k] EXCEPT !.retryAfter = now + Retention] \in UsageRecord
    BY <1>1, <1>2, UsageFacts
  <2>2. \/ usage' = usage
        \/ usage' = [usage EXCEPT ![k] = [usage[k] EXCEPT !.tooLarge = TRUE]]
        \/ usage' = [usage EXCEPT ![k] = [usage[k] EXCEPT !.retryAfter = now + Retention]]
    BY DEF Abort, AbortUsage
  <2> QED BY <2>1, <2>2, <1>1
<1>6. r \in Playback /\ r.pc = pc /\ r.capture = NoCapture /\ r.key = k
  BY <1>1, NoFileFacts DEF Playback
<1>7. r \in Playback /\ FileShape(r)
  <2> HIDE DEF r
  <2> QED BY <1>2, <1>6, NoFileFacts DEF FileShape
<1>8. Set(f, r)
  BY DEF Abort
<1> HIDE DEF r
<1> QED BY <1>3, <1>4, <1>5, <1>7, <1>8, FileChange

LEMMA LeaseTypes ==
    ASSUME TInv, NEW a \in Assets, Lease(a)
    PROVE  asset' \in [Assets -> AssetRecord]
<1>1. asset \in [Assets -> AssetRecord] /\ now \in Times
  BY DEF TInv, TypeOK
<1>2. asset[a].refs + 1 \in Int
  <2>1. asset[a].refs \in Int
    BY <1>1, AssetFacts
  <2> QED BY <2>1
<1>3. [asset[a] EXCEPT !.refs = asset[a].refs + 1, !.lastUsed = now] \in AssetRecord
  BY <1>1, <1>2, AssetFacts
<1>4. asset' = [asset EXCEPT ![a] = [asset[a] EXCEPT !.refs = asset[a].refs + 1, !.lastUsed = now]]
  BY DEF Lease
<1> QED BY <1>1, <1>3, <1>4

LEMMA UnleaseTypes ==
    ASSUME TInv, NEW a \in Assets \cup {None}, Unlease(a)
    PROVE  live' \subseteq Assets /\ asset' \in [Assets -> AssetRecord]
<1>1. asset \in [Assets -> AssetRecord] /\ live \subseteq Assets
  BY DEF TInv, TypeOK
<1>2. CASE a = None
  BY <1>1, <1>2 DEF Unlease
<1>3. CASE a # None /\ asset[a].refs = 1 /\ ~asset[a].cached
  <2>1. Forget({a})
    BY <1>3 DEF Unlease
  <2> QED BY <2>1, ForgetTypes
<1>4. CASE a # None /\ ~(asset[a].refs = 1 /\ ~asset[a].cached)
  <2>4. asset' = [asset EXCEPT ![a].refs = @ - 1] /\ UNCHANGED live
    BY <1>4 DEF Unlease
  <2>5. a \in Assets /\ asset[a].refs \in Int
    BY <1>1, <1>4, AssetFacts
  <2>1. asset[a].refs - 1 \in Int
    BY <2>5
  <2>2. [asset[a] EXCEPT !.refs = asset[a].refs - 1] \in AssetRecord
    BY <1>1, <1>4, <2>1, AssetFacts
  <2>3. asset' = [asset EXCEPT ![a] = [asset[a] EXCEPT !.refs = asset[a].refs - 1]]
    BY <2>4
  <2> QED BY <1>1, <1>4, <2>2, <2>3, <2>4
<1> QED BY <1>2, <1>3, <1>4

LEMMA ObserveTypes ==
    ASSUME TInv, NEW k \in Keys, Observe(k)
    PROVE  /\ known' \subseteq Keys /\ usage' \in [Keys -> UsageRecord] /\ lastPrune' \in Times
<1> DEFINE old == IF k \in known \ Pruned THEN usage[k] ELSE NewUsage
           plays == IF Stale(k) /\ k \in known THEN 1 ELSE IF old.plays = 0 THEN 1 ELSE 2
<1>1. /\ known \subseteq Keys /\ usage \in [Keys -> UsageRecord]
      /\ now \in Times /\ lastPrune \in Times
  BY DEF TInv, TypeOK
<1>2. old \in UsageRecord /\ plays \in 0..2
  <2>1. old \in UsageRecord
    BY <1>1, NewUsageType
  <2>2. plays = 1 \/ plays = 2
    <3>1. CASE Stale(k) /\ k \in known
      BY <3>1
    <3>2. CASE ~(Stale(k) /\ k \in known)
      <4> HIDE DEF old
      <4> QED BY <3>2
    <3> QED BY <3>1, <3>2
  <2> HIDE DEF old, plays
  <2> QED BY <2>1, <2>2
<1>3. known' \subseteq Keys /\ lastPrune' \in Times
  BY <1>1 DEF Observe
<1>4. usage' = [j \in Keys |-> IF j = k THEN [old EXCEPT !.plays = plays, !.lastPlay = now]
                              ELSE IF j \in Pruned THEN NewUsage ELSE usage[j]]
  BY DEF Observe
<1> HIDE DEF old, plays
<1>5. [old EXCEPT !.plays = plays, !.lastPlay = now] \in UsageRecord
  BY <1>1, <1>2, UsageFacts
<1> QED BY <1>1, <1>3, <1>4, <1>5, NewUsageType

LEMMA ScheduleTypes ==
    ASSUME TInv, NEW k \in Keys, NEW minimum \in {0, 2}, Schedule(k, minimum)
    PROVE  /\ usage' \in [Keys -> UsageRecord] /\ building' \subseteq Keys
           /\ queue' \in Seq(Keys) /\ Len(queue') <= QueueCap
<1>1. /\ usage \in [Keys -> UsageRecord] /\ now \in Times
      /\ building \subseteq Keys /\ queue \in Seq(Keys) /\ Len(queue) <= QueueCap
  BY DEF TInv, TypeOK
<1>2. usage' \in [Keys -> UsageRecord]
  <2>1. [usage[k] EXCEPT !.plays = minimum, !.lastPlay = now] \in UsageRecord
    <3>1. minimum \in 0..2
      OBVIOUS
    <3>2. usage[k] \in UsageRecord
      BY <1>1
    <3> QED BY <1>1, <3>1, <3>2, UsageFacts
  <2>2. \/ usage' = usage
        \/ usage' = [usage EXCEPT ![k] = [usage[k] EXCEPT !.plays = minimum, !.lastPlay = now]]
    <3>1. CASE k \in known /\ usage[k].plays < minimum
      BY <3>1 DEF Schedule
    <3>2. CASE ~(k \in known /\ usage[k].plays < minimum)
      BY <3>2 DEF Schedule
    <3> QED BY <3>1, <3>2
  <2> QED BY <1>1, <2>1, <2>2
<1>3. CASE UNCHANGED <<building, queue>>
  BY <1>1, <1>2, <1>3
<1>4. CASE Len(queue) < QueueCap /\ Enqueued(k)
  <2>1. building' \subseteq Keys /\ queue' \in Seq(Keys) /\ Len(queue') = Len(queue) + 1
    <3>1. building' = building \cup {k} /\ queue' = Append(queue, k)
      BY <1>4 DEF Enqueued
    <3> QED BY <1>1, <3>1
  <2>2. Len(queue') <= QueueCap
    <3>1. Len(queue) \in Nat /\ Len(queue) < QueueCap
      BY <1>1, <1>4
    <3> QED BY <2>1, <3>1, Sizes
  <2> QED BY <1>2, <2>1, <2>2
<1> QED BY <1>3, <1>4 DEF Schedule, Enqueue

\* No step of a playback breaks the types or its shape.
LEMMA FileKeepsTInv ==
    ASSUME TInv, NEW f \in Files, FileStep(f) PROVE TInv'
<1> DEFINE r == file[f]
           FileOK == file' \in [Files -> Playback] /\ \A g \in Files : FileShape(file'[g])
<1> USE DEF assets, usages, budget, jobs, ending
<1>0. /\ r \in Playback /\ FileShape(r) /\ TypeOK /\ Shapes
      /\ r.lease \in Assets \cup {None}
  BY DEF TInv, TypeOK, Shapes, Playback
<1>1. CASE \E k \in Keys : Play(f, k)
  <2> PICK k \in Keys : Play(f, k)
    BY <1>1
  <2> DEFINE hit == entry[k] # None
             new == [NoFile EXCEPT !.key = k, !.lease = entry[k]]
  <2>1. /\ known' \subseteq Keys /\ usage' \in [Keys -> UsageRecord] /\ lastPrune' \in Times
    BY ObserveTypes DEF Play
  <2>2. entry[k] \in Assets \cup {None} /\ (hit => entry[k] \in Assets)
    BY <1>0 DEF TypeOK
  <2>3. asset' \in [Assets -> AssetRecord]
    <3>1. CASE hit
      BY <2>2, <3>1, LeaseTypes DEF Play
    <3>2. CASE ~hit
      BY <1>0, <3>2 DEF Play, TypeOK
    <3> QED BY <3>1, <3>2
  <2>4. FileOK
    <3>1. new \in Playback /\ new.key = k /\ new.capture = NoCapture
      BY <2>2, NoFileFacts DEF Playback
    <3> HIDE DEF new
    <3>2. CASE k \in PcmKeys /\ hit
      <4> DEFINE c == [new EXCEPT !.pc = "cached"]
      <4>1. c \in Playback /\ c.pc = "cached" /\ c.key = k /\ c.capture = NoCapture
        BY <3>1 DEF Playback
      <4>2. Set(f, c)
        BY <3>2 DEF Play, new
      <4> HIDE DEF c
      <4>3. FileShape(c)
        BY <4>1, NoFileFacts DEF FileShape
      <4> QED BY <4>1, <4>2, <4>3, FileChange
    <3>3. CASE ~(k \in PcmKeys /\ hit)
      <4>0. PICK loops \in BOOLEAN :
               Set(f, [new EXCEPT !.pc = IF k \in PcmKeys THEN "opened" ELSE "playing",
                                  !.first = TRUE, !.loops = loops])
        BY <3>3 DEF Play, new
      <4> DEFINE pc == IF k \in PcmKeys THEN "opened" ELSE "playing"
                 c == [new EXCEPT !.pc = pc, !.first = TRUE, !.loops = loops]
      <4>5. pc \in {"opened", "playing"} /\ (pc = "opened" => k \in PcmKeys)
        OBVIOUS
      <4>2. Set(f, c)
        BY <4>0
      <4> HIDE DEF pc
      <4>1. c \in Playback /\ c.pc = pc /\ c.key = k /\ c.capture = NoCapture
        BY <3>1, <4>5 DEF Playback
      <4> HIDE DEF c
      <4>3. FileShape(c)
        BY <4>1, <4>5, NoFileFacts DEF FileShape
      <4> QED BY <4>1, <4>2, <4>3, FileChange
    <3> QED BY <3>2, <3>3
  <2> QED BY <1>0, <2>1, <2>3, <2>4 DEF Play, TInv, TypeOK, Shapes
<1>2. CASE PlayFails(f)
  <2>1. FileOK
    BY <1>2, NoFileShape, FileChange DEF PlayFails
  <2> QED BY <1>0, <1>2, <2>1 DEF PlayFails, TInv, TypeOK, Shapes
<1>3. CASE BeginCapture(f)
  <2> DEFINE capture == [NoCapture EXCEPT !.on = Producible(r.key)]
             c == [r EXCEPT !.pc = "playing", !.capture = capture]
  <2>1. r.pc = "opened" /\ r.key \in PcmKeys /\ r.key \in Keys
    BY <1>0, <1>3 DEF BeginCapture, FileShape, Keys
  <2>2. capture \in [on : BOOLEAN, count : Bytes, capacity : Bytes]
        /\ capture.count = 0 /\ capture.capacity = 0
    BY NoFileFacts DEF Producible
  <2>5. Set(f, c) /\ capturing' \subseteq PcmKeys
    BY <1>0, <1>3, <2>1 DEF BeginCapture, TypeOK
  <2> HIDE DEF capture
  <2>3. c \in Playback /\ c.pc = "playing" /\ c.key = r.key /\ c.capture = capture
    BY <1>0, <2>2 DEF Playback
  <2> HIDE DEF c
  <2>4. FileShape(c)
    BY <2>1, <2>2, <2>3 DEF FileShape
  <2>6. FileOK
    BY <2>3, <2>4, <2>5, FileChange
  <2> QED BY <1>0, <1>3, <2>5, <2>6 DEF BeginCapture, TInv, TypeOK, Shapes
<1>4. CASE Capture(f)
  <2> DEFINE capture == r.capture
             required == capture.count + 1
             doubled == IF capture.capacity = 0 THEN 1
                        ELSE IF 2 * capture.capacity > MaxBytes THEN MaxBytes
                        ELSE 2 * capture.capacity
             growth == doubled - capture.capacity
  <2>1. r.pc = "playing" /\ capture.on /\ UNCHANGED <<now, assets, jobs, ending>>
    BY <1>4 DEF Capture
  <2>2. capture \in [on : BOOLEAN, count : Bytes, capacity : Bytes]
        /\ capture.count <= capture.capacity
    BY <1>0 DEF FileShape, Playback
  <2>3. CASE \E err \in {"none", "tooLarge", "budget"} : Abort(f, err, "playing")
    <3> PICK err \in {"none", "tooLarge", "budget"} : Abort(f, err, "playing")
      BY <2>3
    <3>1. /\ capturing' \subseteq PcmKeys /\ reserved' \in Int
          /\ usage' \in [Keys -> UsageRecord] /\ FileOK
      BY <2>1, AbortTypes
    <3> QED BY <1>0, <2>1, <3>1 DEF Abort, TInv, TypeOK, Shapes
  <2>4. CASE /\ required <= capture.capacity
             /\ Set(f, [r EXCEPT !.capture.count = required])
             /\ UNCHANGED <<capturing, usages, budget>>
    <3> DEFINE c == [r EXCEPT !.capture.count = required]
    <3>1. required \in Bytes
      <4>1. /\ capture.count \in Int /\ 0 <= capture.count /\ capture.capacity \in Int
            /\ capture.capacity <= MaxBytes /\ MaxBytes \in Int
        BY <1>0, PlaybackFacts, Sizes
      <4> HIDE DEF capture
      <4> QED BY <2>4, <4>1 DEF Bytes
    <3> HIDE DEF required
    <3>2. c \in Playback /\ c.pc = r.pc /\ c.key = r.key /\ c.capture.on = r.capture.on
          /\ c.capture.count = required /\ c.capture.capacity = r.capture.capacity
      BY <1>0, <2>2, <3>1 DEF Playback
    <3> HIDE DEF c
    <3>3. FileShape(c)
      BY <1>0, <2>1, <2>4, <3>2 DEF FileShape
    <3>4. Set(f, c)
      BY <2>4 DEF c
    <3>5. FileOK
      BY <3>2, <3>3, <3>4, FileChange
    <3> QED BY <1>0, <2>1, <2>4, <3>5 DEF TInv, TypeOK, Shapes
  <2>5. CASE /\ required <= MaxBytes /\ ~(required <= capture.capacity)
             /\ reserved' = reserved + growth
             /\ Set(f, [r EXCEPT !.pc = "growing", !.capture.capacity = doubled])
             /\ UNCHANGED <<capturing, usages, resident, reclaiming>>
    <3> DEFINE c == [r EXCEPT !.pc = "growing", !.capture.capacity = doubled]
    <3>1. doubled \in Bytes /\ growth \in Int /\ capture.count < doubled
      <4>1. /\ capture.count \in Int /\ capture.capacity \in Int /\ MaxBytes \in Int
            /\ capture.count = capture.capacity /\ 0 <= capture.count
            /\ capture.count + 1 <= MaxBytes
        BY <1>0, <2>2, <2>5, PlaybackFacts, Sizes
      <4> HIDE DEF capture
      <4> QED BY <4>1 DEF Bytes
    <3>6. Set(f, c)
      BY <2>5
    <3>7. reserved' \in Int
      BY <1>0, <2>5, <3>1 DEF TypeOK
    <3> HIDE DEF doubled
    <3>2. c \in Playback /\ c.pc = "growing" /\ c.key = r.key /\ c.capture.on = r.capture.on
          /\ c.capture.count = r.capture.count /\ c.capture.capacity = doubled
      BY <1>0, <2>2, <3>1 DEF Playback
    <3> HIDE DEF c
    <3>4. capture.count <= doubled
      BY <1>0, <3>1, PlaybackFacts DEF doubled
    <3>3. FileShape(c)
      BY <1>0, <2>1, <3>1, <3>2, <3>4 DEF FileShape
    <3>5. FileOK
      BY <3>2, <3>3, <3>6, FileChange
    <3> QED BY <1>0, <2>1, <2>5, <3>5, <3>7 DEF TInv, TypeOK, Shapes
  <2>6. required \in Int /\ MaxBytes \in Int
    BY <1>0, PlaybackFacts, Sizes
  <2> QED BY <1>4, <2>3, <2>4, <2>5, <2>6 DEF Capture
<1>5. CASE CaptureGrows(f)
  <2> DEFINE count == r.capture.count + 1
             c == [r EXCEPT !.pc = "playing", !.capture.count = count]
  <2>1. r.pc = "growing" /\ r.capture.on /\ r.capture.count < r.capture.capacity
    BY <1>0, <1>5 DEF CaptureGrows, FileShape
  <2>2. count \in Bytes /\ count <= r.capture.capacity
    <3>1. /\ r.capture.count \in Int /\ 0 <= r.capture.count /\ r.capture.capacity \in Int
          /\ r.capture.capacity <= MaxBytes /\ MaxBytes \in Int
      BY <1>0, PlaybackFacts, Sizes
    <3> QED BY <2>1, <3>1 DEF Bytes
  <2>3. r.capture \in [on : BOOLEAN, count : Bytes, capacity : Bytes]
    BY <1>0 DEF Playback
  <2>4. Set(f, c)
    BY <1>5 DEF CaptureGrows
  <2> HIDE DEF count
  <2>5. c \in Playback /\ c.pc = "playing" /\ c.key = r.key
        /\ c.capture.count = count /\ c.capture.capacity = r.capture.capacity
    BY <1>0, <2>2, <2>3 DEF Playback
  <2> HIDE DEF c
  <2>6. FileShape(c)
    BY <1>0, <2>1, <2>2, <2>5 DEF FileShape
  <2>7. FileOK
    BY <2>4, <2>5, <2>6, FileChange
  <2> QED BY <1>0, <1>5, <2>7 DEF CaptureGrows, TInv, TypeOK, Shapes
<1>6. CASE CaptureShrinks(f)
  <2> DEFINE c == [r EXCEPT !.pc = "aborting", !.capture.capacity = r.capture.count]
  <2>1. r.pc = "growing" /\ r.capture.on
    BY <1>0, <1>6 DEF CaptureShrinks, FileShape
  <2>3. r.capture \in [on : BOOLEAN, count : Bytes, capacity : Bytes]
    BY <1>0 DEF Playback
  <2>4. Set(f, c) /\ reserved' = reserved - (r.capture.capacity - r.capture.count)
    BY <1>6 DEF CaptureShrinks
  <2>8. reserved' \in Int
    <3>1. reserved \in Int
      BY <1>0 DEF TypeOK
    <3> QED BY <1>0, <2>4, <3>1, PlaybackFacts
  <2>5. c \in Playback /\ c.pc = "aborting" /\ c.key = r.key /\ c.capture.on = r.capture.on
        /\ c.capture.count = r.capture.count /\ c.capture.capacity = r.capture.count
    BY <1>0, <2>3 DEF Playback
  <2> HIDE DEF c
  <2>6. FileShape(c)
    BY <1>0, <2>1, <2>5, PlaybackFacts DEF FileShape
  <2>7. FileOK
    BY <2>4, <2>5, <2>6, FileChange
  <2> QED BY <1>0, <1>6, <2>7, <2>8 DEF CaptureShrinks, TInv, TypeOK, Shapes
<1>7. CASE CaptureAborted(f)
  <2>1. Abort(f, "other", "playing") /\ r.capture.on
    BY <1>0, <1>7 DEF CaptureAborted, FileShape
  <2>2. /\ capturing' \subseteq PcmKeys /\ reserved' \in Int
        /\ usage' \in [Keys -> UsageRecord] /\ FileOK
    BY <2>1, AbortTypes
  <2> QED BY <1>0, <1>7, <2>2 DEF CaptureAborted, Abort, TInv, TypeOK, Shapes
<1>8. CASE FinishCapture(f)
  <2> DEFINE k == r.key
  <2>1. r.pc = "playing" /\ r.capture.on /\ UNCHANGED <<now, jobs, ending>>
    BY <1>8 DEF FinishCapture
  <2>2. CASE Abort(f, "other", "playing") /\ UNCHANGED assets
    <3>1. /\ capturing' \subseteq PcmKeys /\ reserved' \in Int
          /\ usage' \in [Keys -> UsageRecord] /\ FileOK
      BY <2>1, <2>2, AbortTypes
    <3> QED BY <1>0, <2>1, <2>2, <3>1 DEF Abort, TInv, TypeOK, Shapes
  <2>3. CASE /\ capturing' = capturing \ {k}
             /\ reserved' = reserved - r.capture.capacity
             /\ \/ Admit(k, r.capture.count)
                \/ UNCHANGED <<assets, resident>>
             /\ Set(f, [r EXCEPT !.capture = NoCapture])
             /\ UNCHANGED <<usages, reclaiming>>
    <3> DEFINE c == [r EXCEPT !.capture = NoCapture]
    <3>1. c \in Playback /\ c.pc = r.pc /\ c.key = r.key /\ c.capture = NoCapture
      BY <1>0, NoFileFacts DEF Playback
    <3>2. Set(f, c)
      BY <2>3
    <3> HIDE DEF c
    <3>3. FileShape(c)
      BY <1>0, <2>1, <3>1, NoFileFacts DEF FileShape
    <3>4. FileOK
      BY <3>1, <3>2, <3>3, FileChange
    <3>5. reserved' \in Int
      <4>1. reserved \in Int
        BY <1>0 DEF TypeOK
      <4> QED BY <1>0, <2>3, <4>1, PlaybackFacts
    <3>6. /\ entry' \in [Keys -> Assets \cup {None}] /\ live' \subseteq Assets
          /\ asset' \in [Assets -> AssetRecord] /\ resident' \in Int
      <4>1. CASE Admit(k, r.capture.count)
        <5>1. r.capture.count \in Bytes
          BY <1>0 DEF Playback
        <5> QED BY <4>1, <5>1, AdmitTypes
      <4>2. CASE UNCHANGED <<assets, resident>>
        BY <1>0, <4>2 DEF TypeOK
      <4> QED BY <2>3, <4>1, <4>2
    <3> QED BY <1>0, <2>1, <2>3, <3>4, <3>5, <3>6 DEF TInv, TypeOK, Shapes
  <2> QED BY <1>8, <2>2, <2>3 DEF FinishCapture
<1>9. CASE Started(f)
  <2> DEFINE c == [r EXCEPT !.first = FALSE]
  <2>1. r.pc = "playing" /\ r.key \in Keys
    BY <1>0, <1>9 DEF Started, FileShape
  <2>2. /\ usage' \in [Keys -> UsageRecord] /\ building' \subseteq Keys
        /\ queue' \in Seq(Keys) /\ Len(queue') <= QueueCap
        /\ UNCHANGED <<known, lastPrune>>
    <3>1. PICK minimum \in {0, 2} : Schedule(r.key, minimum)
      BY <1>9 DEF Started
    <3> QED BY <2>1, <3>1, ScheduleTypes DEF Schedule
  <2>3. c \in Playback /\ c.pc = r.pc /\ c.key = r.key /\ c.capture = r.capture
    BY <1>0 DEF Playback
  <2>4. Set(f, c)
    BY <1>9 DEF Started
  <2> HIDE DEF c
  <2>5. FileShape(c)
    BY <1>0, <2>3 DEF FileShape
  <2>6. FileOK
    BY <2>3, <2>4, <2>5, FileChange
  <2> QED BY <1>0, <1>9, <2>2, <2>6 DEF Started, TInv, TypeOK, Shapes
<1>10. CASE Restart(f)
  <2>1. r.pc = "playing" /\ ~r.capture.on
    BY <1>10 DEF Restart
  <2>2. CASE r.key \in PcmKeys
    <3>1. Unlease(r.lease) /\ Set(f, [r EXCEPT !.pc = "restarting", !.lease = None])
      BY <1>10, <2>2 DEF Restart
    <3>2. FileOK /\ live' \subseteq Assets /\ asset' \in [Assets -> AssetRecord]
      BY <1>0, <2>1, <3>1, GotoTypes, UnleaseTypes
    <3> QED BY <1>0, <1>10, <3>2 DEF Restart, TInv, TypeOK, Shapes
  <2>3. CASE r.key \notin PcmKeys
    <3>1. Goto(f, "restarting") /\ UNCHANGED <<live, asset>>
      BY <1>10, <2>3 DEF Restart
    <3>2. Set(f, [r EXCEPT !.pc = "restarting", !.lease = r.lease])
      BY <1>0, <3>1 DEF Goto, Playback
    <3>3. FileOK
      BY <1>0, <2>1, <3>2, GotoTypes
    <3> QED BY <1>0, <1>10, <3>1, <3>3 DEF Restart, TInv, TypeOK, Shapes
  <2> QED BY <2>2, <2>3
<1>11. CASE Reacquire(f)
  <2> DEFINE k == r.key
  <2>1. r.pc = "restarting" /\ ~r.capture.on /\ k \in Keys
    BY <1>0, <1>11 DEF Reacquire, FileShape
  <2>2. entry[k] \in Assets \cup {None} /\ (entry[k] # None => entry[k] \in Assets)
    BY <1>0, <2>1 DEF TypeOK
  <2>3. usage' \in [Keys -> UsageRecord]
    <3>1. usage \in [Keys -> UsageRecord] /\ now \in Times
      BY <1>0 DEF TypeOK
    <3>2. [usage[k] EXCEPT !.lastPlay = now] \in UsageRecord
      BY <2>1, <3>1, UsageFacts
    <3>3. usage' = usage \/ usage' = [usage EXCEPT ![k] = [usage[k] EXCEPT !.lastPlay = now]]
      BY <1>11 DEF Reacquire, Touch
    <3> QED BY <3>1, <3>2, <3>3
  <2>4. asset' \in [Assets -> AssetRecord]
    <3>1. CASE entry[k] # None
      BY <1>11, <2>2, <3>1, LeaseTypes DEF Reacquire
    <3>2. CASE entry[k] = None
      BY <1>0, <1>11, <3>2 DEF Reacquire, TypeOK
    <3> QED BY <3>1, <3>2
  <2>5. FileOK
    <3>1. PICK pc \in {"playing", "missed"} : Set(f, [r EXCEPT !.pc = pc, !.lease = entry[k]])
      BY <1>11 DEF Reacquire
    <3> QED BY <2>1, <2>2, <3>1, GotoTypes
  <2> QED BY <1>0, <1>11, <2>3, <2>4, <2>5 DEF Reacquire, TInv, TypeOK, Shapes
<1>12. CASE KeepRaw(f)
  <2>1. r.pc = "restarting" /\ ~r.capture.on
    BY <1>0, <1>12 DEF KeepRaw, FileShape
  <2>2. Set(f, [r EXCEPT !.pc = "playing", !.lease = r.lease])
    BY <1>0, <1>12 DEF KeepRaw, Goto, Playback
  <2>3. FileOK
    BY <1>0, <2>1, <2>2, GotoTypes
  <2> QED BY <1>0, <1>12, <2>3 DEF KeepRaw, TInv, TypeOK, Shapes
<1>13. CASE Missed(f)
  <2>1. r.pc = "missed" /\ ~r.capture.on /\ r.key \in Keys
    BY <1>0, <1>13 DEF Missed, FileShape
  <2>2. Set(f, [r EXCEPT !.pc = "playing", !.lease = r.lease])
    BY <1>0, <1>13 DEF Missed, Goto, Playback
  <2>3. FileOK
    BY <1>0, <2>1, <2>2, GotoTypes
  <2>4. /\ usage' \in [Keys -> UsageRecord] /\ building' \subseteq Keys
        /\ queue' \in Seq(Keys) /\ Len(queue') <= QueueCap
        /\ UNCHANGED <<known, lastPrune>>
    BY <1>13, <2>1, ScheduleTypes DEF Missed, Schedule
  <2> QED BY <1>0, <1>13, <2>3, <2>4 DEF Missed, TInv, TypeOK, Shapes
<1>14. CASE CloseFile(f)
  <2>1. CASE r.capture.on
    <3>1. Abort(f, "none", "closing")
      BY <1>14, <2>1 DEF CloseFile
    <3>2. /\ capturing' \subseteq PcmKeys /\ reserved' \in Int
          /\ usage' \in [Keys -> UsageRecord] /\ FileOK
      BY <2>1, <3>1, AbortTypes
    <3> QED BY <1>0, <1>14, <3>1, <3>2 DEF CloseFile, Abort, TInv, TypeOK, Shapes
  <2>2. CASE ~r.capture.on
    <3>1. Goto(f, "closing") /\ UNCHANGED <<usages, capturing, budget>> /\ r.pc # "none"
      BY <1>14, <2>2 DEF CloseFile
    <3>2. Set(f, [r EXCEPT !.pc = "closing", !.lease = r.lease])
      BY <1>0, <3>1 DEF Goto, Playback
    <3>3. FileOK
      BY <1>0, <2>2, <3>1, <3>2, GotoTypes
    <3> QED BY <1>0, <1>14, <3>1, <3>3 DEF CloseFile, TInv, TypeOK, Shapes
  <2> QED BY <2>1, <2>2
<1>15. CASE GiveBack(f)
  <2>1. FileOK
    BY <1>15, NoFileShape, FileChange DEF GiveBack
  <2>2. live' \subseteq Assets /\ asset' \in [Assets -> AssetRecord]
    BY <1>0, <1>15, UnleaseTypes DEF GiveBack
  <2> QED BY <1>0, <1>15, <2>1, <2>2 DEF GiveBack, TInv, TypeOK, Shapes
<1> QED BY <1>1, <1>2, <1>3, <1>4, <1>5, <1>6, <1>7, <1>8, <1>9, <1>10, <1>11, <1>12, <1>13,
           <1>14, <1>15 DEF FileStep

LEMMA NextKeepsTInv == ASSUME TInv, [Next]_vars PROVE TInv'
<1> USE DEF assets, usages, budget, jobs, ending
<1>1. CASE Tick
  <2>1. now' \in Times
    BY <1>1, Sizes DEF TInv, TypeOK, Tick, Times
  <2> QED BY <1>1, <2>1 DEF TInv, TypeOK, Shapes, Tick
<1>2. CASE \E w \in Workers : WorkerStep(w)
  BY <1>2, WorkerKeepsTInv
<1>3. CASE \E f \in Files : FileStep(f)
  BY <1>3, FileKeepsTInv
<1>4. CASE CloseBegins
  BY <1>4 DEF TInv, TypeOK, Shapes, CloseBegins
<1>5. CASE CloseEnds
  <2>1. live' \subseteq Assets /\ asset' \in [Assets -> AssetRecord]
    BY <1>5, ForgetTypes DEF CloseEnds
  <2> QED BY <1>5, <2>1 DEF TInv, TypeOK, Shapes, CloseEnds
<1>6. CASE UNCHANGED vars
  BY <1>6 DEF TInv, TypeOK, Shapes, vars
<1> QED BY <1>1, <1>2, <1>3, <1>4, <1>5, <1>6 DEF Next, Done

--------------------------------------------------------------------------------
\* The budget

\* What a worker does to the three counters.
LEMMA WorkerWithinBudget ==
    ASSUME TInv, Used <= MaxBytes, NEW w \in Workers, WorkerStep(w) PROVE Used' <= MaxBytes
<1> DEFINE j == job[w]
<1> USE DEF budget
<1>1. /\ resident \in Int /\ reserved \in Int /\ reclaiming \in Int /\ MaxBytes \in Int
      /\ Used = resident + reserved + reclaiming
  BY Sizes DEF TInv, TypeOK, Used
<1>2. /\ j \in Job /\ JobShape(j)
      /\ j.held \in Int /\ 0 <= j.held /\ j.need \in Int /\ 0 <= j.need /\ j.total \in Int
  <2>1. j \in Job /\ JobShape(j)
    BY DEF TInv, TypeOK, Shapes
  <2> QED BY <2>1, JobNumbers
<1>3. CASE UNCHANGED budget
  BY <1>1, <1>3 DEF Used
<1>4. CASE Reserve(w)
  <2>1. /\ Used + j.need <= MaxBytes
        /\ reserved' = reserved + j.need /\ resident' = resident /\ reclaiming' = reclaiming
    BY <1>4 DEF Reserve, Fits
  <2> HIDE DEF j
  <2> QED BY <1>1, <1>2, <2>1 DEF Used
<1>5. CASE Detach(w)
  <2>1. PICK k \in Victims : /\ resident' = resident - asset[entry[k]].bytes
                             /\ reclaiming' = reclaiming + asset[entry[k]].bytes
                             /\ reserved' = reserved
    BY <1>5 DEF Detach
  <2>2. entry[k] \in Assets
    BY DEF TInv, TypeOK, Victims, Evictable
  <2>3. asset[entry[k]].bytes \in Int
    BY <2>2, AssetFacts DEF TInv, TypeOK
  <2> QED BY <1>1, <2>1, <2>3 DEF Used
<1>6. CASE FreeVictim(w)
  <2>1. /\ reclaiming' = reclaiming - asset[j.victim].bytes
        /\ resident' = resident /\ reserved' = reserved /\ j.victim \in Assets
    BY <1>2, <1>6 DEF FreeVictim, Job, JobShape
  <2>2. asset[j.victim].bytes \in Bytes
    BY <2>1, AssetFacts DEF TInv, TypeOK
  <2>3. asset[j.victim].bytes \in Int /\ 0 <= asset[j.victim].bytes
    BY <2>2, Sizes DEF Bytes
  <2> HIDE DEF j
  <2> QED BY <1>1, <2>1, <2>3 DEF Used
<1>7. CASE GrowFails(w)
  <2>1. reserved' = reserved - j.need /\ resident' = resident /\ reclaiming' = reclaiming
    BY <1>7 DEF GrowFails
  <2> HIDE DEF j
  <2> QED BY <1>1, <1>2, <2>1 DEF Used
<1>8. CASE Release(w)
  <2>1. reserved' = reserved - j.held /\ resident' = resident /\ reclaiming' = reclaiming
    BY <1>8 DEF Release
  <2> HIDE DEF j
  <2> QED BY <1>1, <1>2, <2>1 DEF Used
<1>9. CASE Finish(w)
  <2>1. /\ reserved' = reserved - j.held /\ reclaiming' = reclaiming
        /\ resident' = resident \/ resident' = resident + j.total
    BY <1>9 DEF Finish, Admit
  <2>2. j.total <= j.held
    BY <1>2 DEF JobShape
  <2> HIDE DEF j
  <2> QED BY <1>1, <1>2, <2>1, <2>2 DEF Used
<1>10. \/ UNCHANGED budget
       \/ Reserve(w) \/ Detach(w) \/ FreeVictim(w) \/ GrowFails(w) \/ Release(w) \/ Finish(w)
  BY DEF WorkerStep, TakeJob, WorkerExits, NewToken, OpenFails, Opened, LockEviction, Refused,
         GrowSucceeds, Decoded, DecodeFails, TooSmall, DropToken
<1> QED BY <1>3, <1>4, <1>5, <1>6, <1>7, <1>8, <1>9, <1>10

\* What a playback does to them.
LEMMA FileWithinBudget ==
    ASSUME TInv, Used <= MaxBytes, NEW f \in Files, FileStep(f) PROVE Used' <= MaxBytes
<1> DEFINE c == file[f].capture
<1> USE DEF budget
<1>1. /\ resident \in Int /\ reserved \in Int /\ reclaiming \in Int /\ MaxBytes \in Int
      /\ Used = resident + reserved + reclaiming
  BY Sizes DEF TInv, TypeOK, Used
<1>2. /\ c.count \in Int /\ c.capacity \in Int
      /\ 0 <= c.count /\ c.count <= c.capacity /\ c.capacity <= MaxBytes
  <2>1. file[f] \in Playback /\ FileShape(file[f])
    BY DEF TInv, TypeOK, Shapes
  <2> QED BY <2>1, PlaybackFacts DEF FileShape
<1>3. CASE UNCHANGED budget
  BY <1>1, <1>3 DEF Used
<1>4. CASE \E err, pc : Abort(f, err, pc)
  <2>1. reserved' = reserved - c.capacity /\ resident' = resident /\ reclaiming' = reclaiming
    BY <1>4 DEF Abort
  <2> HIDE DEF c
  <2> QED BY <1>1, <1>2, <2>1 DEF Used
<1>5. CASE \E growth \in Int : Fits(growth) /\ reserved' = reserved + growth
                               /\ UNCHANGED <<resident, reclaiming>>
  BY <1>1, <1>5 DEF Used, Fits
<1>6. CASE CaptureShrinks(f)
  <2>1. /\ reserved' = reserved - (c.capacity - c.count)
        /\ resident' = resident /\ reclaiming' = reclaiming
    BY <1>6 DEF CaptureShrinks
  <2> HIDE DEF c
  <2> QED BY <1>1, <1>2, <2>1 DEF Used
<1>7. CASE /\ reserved' = reserved - c.capacity /\ reclaiming' = reclaiming
           /\ resident' = resident \/ resident' = resident + c.count
  <2> HIDE DEF c
  <2> QED BY <1>1, <1>2, <1>7 DEF Used
<1>8. CASE Capture(f)
  <2> DEFINE doubled == IF c.capacity = 0 THEN 1
                        ELSE IF 2 * c.capacity > MaxBytes THEN MaxBytes ELSE 2 * c.capacity
             growth == doubled - c.capacity
  <2>1. growth \in Int
    <3> HIDE DEF c
    <3> QED BY <1>1, <1>2
  <2>2. \/ \E err, pc : Abort(f, err, pc)
        \/ UNCHANGED budget
        \/ Fits(growth) /\ reserved' = reserved + growth /\ UNCHANGED <<resident, reclaiming>>
    BY <1>8 DEF Capture
  <2> HIDE DEF growth
  <2> QED BY <1>3, <1>4, <1>5, <2>1, <2>2
<1>9. CASE FinishCapture(f)
  <2>1. \/ \E err, pc : Abort(f, err, pc)
        \/ /\ reserved' = reserved - c.capacity /\ reclaiming' = reclaiming
           /\ resident' = resident \/ resident' = resident + c.count
    BY <1>9 DEF FinishCapture, Admit
  <2> QED BY <1>4, <1>7, <2>1
<1>10. CASE CaptureAborted(f) \/ CloseFile(f)
  <2>1. \/ \E err, pc : Abort(f, err, pc)
        \/ UNCHANGED budget
    BY <1>10 DEF CaptureAborted, CloseFile
  <2> QED BY <1>3, <1>4, <2>1
<1>11. \/ UNCHANGED budget
       \/ CaptureShrinks(f) \/ Capture(f) \/ FinishCapture(f) \/ CaptureAborted(f) \/ CloseFile(f)
  BY DEF FileStep, Play, PlayFails, BeginCapture, CaptureGrows, Started, Restart, Reacquire,
         KeepRaw, Missed, GiveBack
<1> QED BY <1>3, <1>6, <1>8, <1>9, <1>10, <1>11

LEMMA NextKeepsBudget == ASSUME TInv, BudgetKept, [Next]_vars PROVE BudgetKept'
<1> SUFFICES ASSUME ~closed' PROVE Used' <= MaxBytes
  BY DEF BudgetKept
<1>1. ~closed
  BY DEF Next, Tick, CloseBegins, CloseEnds, Done, vars, ending, WorkerStep, TakeJob,
        WorkerExits,
         NewToken, OpenFails, Opened, LockEviction, Reserve, Detach, FreeVictim, Refused,
         GrowSucceeds, GrowFails, Decoded, DecodeFails, TooSmall, Release, Finish, DropToken,
         FileStep, Play, PlayFails, BeginCapture, Capture, CaptureGrows, CaptureShrinks,
         CaptureAborted, FinishCapture, Started, Restart, Reacquire, KeepRaw, Missed, CloseFile,
         GiveBack
<1>2. Used <= MaxBytes
  BY <1>1 DEF BudgetKept
<1>3. CASE \E w \in Workers : WorkerStep(w)
  BY <1>2, <1>3, WorkerWithinBudget
<1>4. CASE \E f \in Files : FileStep(f)
  BY <1>2, <1>4, FileWithinBudget
<1>5. CASE UNCHANGED budget
  BY <1>2, <1>5 DEF Used, budget
<1>6. CASE Tick \/ CloseBegins \/ UNCHANGED vars
  BY <1>5, <1>6 DEF Tick, CloseBegins, vars, budget
<1>7. ~CloseEnds
  BY DEF CloseEnds
<1> QED BY <1>3, <1>4, <1>6, <1>7 DEF Next, Done

--------------------------------------------------------------------------------
\* The marks

\* The jobs of the workers are about the same keys as before.
JobsStay ==
    \A w \in Workers : /\ Active(w)' <=> Active(w)
                       /\ Active(w) => job'[w].key = job[w].key

\* The captures are about the same keys as before.
CapturesStay ==
    \A f \in Files : /\ file'[f].capture.on <=> file[f].capture.on
                     /\ file[f].capture.on => file'[f].key = file[f].key

\* A step that neither starts nor ends a job or a capture, keeps the usage of
\* what is produced and caches nothing, keeps the marks.
LEMMA MarksStay ==
    ASSUME Marks, JobsStay, CapturesStay, UNCHANGED <<building, capturing, queue>>,
           building \cup capturing \subseteq known',
           \A k \in building \cup capturing : entry[k] = None => entry'[k] = None
    PROVE  Marks'
<1>1. Built' = Built /\ Captures' = Captures /\ Queued' = Queued
  BY DEF JobsStay, CapturesStay, Built, Captures, Queued
<1>2. {file'[f].key : f \in Captures} = {file[f].key : f \in Captures}
  BY DEF CapturesStay, Captures
<1>3. OneOwner'
  BY <1>1 DEF Marks, MarksAreOwned, OneOwner, JobsStay, CapturesStay, Captures
<1>4. MarksAreOwned'
  BY <1>1, <1>2, <1>3 DEF Marks, MarksAreOwned
<1>5. SingleProducer' /\ UsagePresent'
  BY DEF Marks, SingleProducer, UsagePresent
<1> QED BY <1>4, <1>5 DEF Marks

LEMMA FileStays ==
    ASSUME TInv, NEW f \in Files, NEW r, Set(f, r),
           r.capture.on <=> file[f].capture.on, file[f].capture.on => r.key = file[f].key
    PROVE  CapturesStay
BY DEF TInv, TypeOK, Set, CapturesStay

\* What the marks of a key in work imply about it.
LEMMA MarkedKeys ==
    ASSUME TInv, Marks
    PROVE  /\ building \subseteq Keys /\ capturing \subseteq Keys
           /\ \A w \in Workers : Active(w) => job[w].key \in building
           /\ \A f \in Files : file[f].capture.on => file[f].key \in capturing
BY DEF TInv, TypeOK, Keys, Marks, MarksAreOwned, Built, Captures

\* The first key of the queue becomes the job of a worker.
LEMMA TakeKeepsMarks ==
    ASSUME TInv, Marks, NEW w \in Workers, TakeJob(w) PROVE Marks'
<1> DEFINE k == Head(queue)
           j == [NoJob EXCEPT !.pc = "token", !.key = k]
<1>1. /\ queue \in Seq(Keys) /\ queue # <<>> /\ queue' = Tail(queue)
      /\ job' = [job EXCEPT ![w] = j] /\ ~Active(w) /\ job \in [Workers -> Job]
      /\ UNCHANGED <<entry, known, building, capturing, file>>
  BY DEF TInv, TypeOK, TakeJob, Active, assets, usages
<1>2. /\ Len(queue) \in Nat \ {0} /\ DOMAIN queue = 1..Len(queue) /\ k = queue[1]
      /\ DOMAIN queue' = 1..(Len(queue) - 1)
      /\ \A n \in 1..(Len(queue) - 1) : queue'[n] = queue[n + 1]
  BY <1>1
<1>3. \A m, n \in DOMAIN queue : queue[m] = queue[n] => m = n
  BY DEF Marks, MarksAreOwned, OneOwner
<1>4. Queued = Queued' \cup {k} /\ k \notin Queued'
      /\ \A m, n \in DOMAIN queue' : queue'[m] = queue'[n] => m = n
  <2>1. \A n \in DOMAIN queue' : n + 1 \in DOMAIN queue /\ n + 1 # 1
    BY <1>2
  <2>2. \A n \in DOMAIN queue : n = 1 \/ (n - 1 \in DOMAIN queue' /\ queue'[n - 1] = queue[n])
    BY <1>2
  <2>3. 1 \in DOMAIN queue
    BY <1>2
  <2>4. Queued = Queued' \cup {k}
    BY <1>2, <2>1, <2>2, <2>3 DEF Queued
  <2>5. k \notin Queued'
    BY <1>2, <1>3, <2>1, <2>3 DEF Queued
  <2>6. \A m, n \in DOMAIN queue' : queue'[m] = queue'[n] => m = n
    <3> TAKE m, n \in DOMAIN queue'
    <3>1. queue'[m] = queue[m + 1] /\ queue'[n] = queue[n + 1] /\ m \in Int /\ n \in Int
      BY <1>2
    <3>2. queue'[m] = queue'[n] => m + 1 = n + 1
      BY <1>3, <2>1, <3>1
    <3> QED BY <3>1, <3>2
  <2> QED BY <2>4, <2>5, <2>6
<1>5. j.pc = "token" /\ j.key = k
  BY NoJobFacts DEF Job
<1> HIDE DEF j, k
<1>6. /\ \A v \in Workers : Active(v)' <=> (v = w \/ Active(v))
      /\ \A v \in Workers \ {w} : job'[v] = job[v]
      /\ job'[w].key = k
  BY <1>1, <1>5 DEF Active
<1>7. Built' = Built \cup {k} /\ Captures' = Captures
  BY <1>1, <1>6 DEF Built, Captures
<1>8. k \in Queued /\ k \notin Built
  BY <1>4 DEF Marks, MarksAreOwned, OneOwner, Built
<1>9. OneOwner'
  <2>1. \A u, v \in Workers : Active(u)' /\ Active(v)' /\ job'[u].key = job'[v].key => u = v
    BY <1>6, <1>8 DEF Marks, MarksAreOwned, OneOwner, Built
  <2>2. \A v \in Workers : Active(v)' => job'[v].key \notin Queued'
    BY <1>4, <1>6 DEF Marks, MarksAreOwned, OneOwner
  <2> QED BY <1>1, <1>4, <1>7, <2>1, <2>2 DEF Marks, MarksAreOwned, OneOwner
<1>10. MarksAreOwned'
  BY <1>1, <1>4, <1>7, <1>9 DEF Marks, MarksAreOwned
<1>11. SingleProducer' /\ UsagePresent'
  BY <1>1 DEF Marks, SingleProducer, UsagePresent
<1> QED BY <1>10, <1>11 DEF Marks

\* A worker gives up its key as it leaves it.
LEMMA FinishKeepsMarks ==
    ASSUME TInv, Marks, NEW w \in Workers, Finish(w) PROVE Marks'
<1> DEFINE k == job[w].key
<1>1. /\ Active(w) /\ job \in [Workers -> Job] /\ job' = [job EXCEPT ![w] = Finished(w)]
      /\ building' = building \ {k} /\ UNCHANGED <<known, capturing, queue, file>>
  BY DEF TInv, TypeOK, Finish, Active
<1>2. Finished(w).pc \in {"drop", "idle"}
  BY NoJobFacts DEF Finished, Job
<1> HIDE DEF k
<1>3. /\ \A v \in Workers : Active(v)' <=> (v # w /\ Active(v))
      /\ \A v \in Workers \ {w} : job'[v] = job[v]
  BY <1>1, <1>2 DEF Active
<1>4. /\ k \in building /\ k \notin capturing /\ k \notin Queued
      /\ \A v \in Workers \ {w} : Active(v) => job[v].key # k
  BY <1>1, MarkedKeys DEF Marks, SingleProducer, MarksAreOwned, OneOwner, k
<1>5. Built' = Built \ {k} /\ Queued' = Queued /\ Captures' = Captures
  BY <1>1, <1>3, <1>4 DEF Built, Queued, Captures, k
<1>6. OneOwner'
  BY <1>1, <1>3, <1>5 DEF Marks, MarksAreOwned, OneOwner
<1>7. MarksAreOwned'
  BY <1>1, <1>4, <1>5, <1>6 DEF Marks, MarksAreOwned
<1>8. \A m \in Keys \ {k} : entry'[m] = entry[m]
  BY DEF TInv, TypeOK, Finish, Admit, assets, k
<1>9. SingleProducer' /\ UsagePresent'
  BY <1>1, <1>4, <1>8, MarkedKeys DEF Marks, SingleProducer, UsagePresent
<1> QED BY <1>7, <1>9 DEF Marks

LEMMA WorkerKeepsMarks ==
    ASSUME TInv, Marks, NEW w \in Workers, WorkerStep(w) PROVE Marks'
<1>1. CASE TakeJob(w)
  BY <1>1, TakeKeepsMarks
<1>2. CASE Finish(w)
  BY <1>2, FinishKeepsMarks
<1>3. CASE ~TakeJob(w) /\ ~Finish(w)
  <2>1. job \in [Workers -> Job] /\ entry \in [Keys -> Assets \cup {None}]
    BY DEF TInv, TypeOK
  <2>2. JobsStay
    <3>1. CASE WorkerExits(w)
      BY <2>1, <3>1 DEF WorkerExits, JobsStay, Active, Job, Step
    <3>2. CASE NewToken(w)
      BY <2>1, <3>2 DEF NewToken, JobsStay, Active, Job, Step
    <3>3. CASE OpenFails(w)
      BY <2>1, <3>3 DEF OpenFails, JobsStay, Active, Job
    <3>4. CASE Opened(w)
      BY <2>1, <3>4 DEF Opened, JobsStay, Active, Job
    <3>5. CASE LockEviction(w)
      BY <2>1, <3>5 DEF LockEviction, JobsStay, Active, Job, Step
    <3>6. CASE Reserve(w)
      BY <2>1, <3>6 DEF Reserve, JobsStay, Active, Job
    <3>7. CASE Detach(w)
      BY <2>1, <3>7 DEF Detach, JobsStay, Active, Job
    <3>8. CASE FreeVictim(w)
      BY <2>1, <3>8 DEF FreeVictim, JobsStay, Active, Job
    <3>9. CASE Refused(w)
      BY <2>1, <3>9 DEF Refused, JobsStay, Active, Job, Failed
    <3>10. CASE GrowSucceeds(w)
      BY <2>1, <3>10 DEF GrowSucceeds, JobsStay, Active, Job
    <3>11. CASE GrowFails(w)
      BY <2>1, <3>11 DEF GrowFails, JobsStay, Active, Job
    <3>12. CASE Decoded(w)
      BY <2>1, <3>12 DEF Decoded, JobsStay, Active, Job
    <3>13. CASE DecodeFails(w)
      BY <2>1, <3>13 DEF DecodeFails, JobsStay, Active, Job
    <3>14. CASE TooSmall(w)
      BY <2>1, <3>14 DEF TooSmall, JobsStay, Active, Job
    <3>15. CASE Release(w)
      BY <2>1, <3>15 DEF Release, JobsStay, Active, Job
    <3>16. CASE DropToken(w)
      BY <2>1, <3>16 DEF DropToken, JobsStay, Active, Job, Step
    <3> QED BY <1>3, <3>1, <3>2, <3>3, <3>4, <3>5, <3>6, <3>7, <3>8, <3>9, <3>10, <3>11,
          <3>12, <3>13, <3>14, <3>15, <3>16 DEF WorkerStep
  <2>3. UNCHANGED <<building, capturing, queue, known, file>>
    BY <1>3 DEF WorkerStep, usages, WorkerExits, NewToken, OpenFails, Opened, LockEviction,
          Reserve, Detach, FreeVictim, Refused, GrowSucceeds, GrowFails, Decoded,
          DecodeFails, TooSmall, Release, DropToken
  <2>4. \A k \in Keys : entry[k] = None => entry'[k] = None
    BY <1>3, <2>1 DEF WorkerStep, assets, WorkerExits, NewToken, OpenFails, Opened,
          LockEviction, Reserve, Detach, FreeVictim, Refused, GrowSucceeds, GrowFails,
          Decoded, DecodeFails, TooSmall, Release, DropToken
  <2>5. CapturesStay
    BY <2>3 DEF CapturesStay
  <2> QED BY <2>2, <2>3, <2>4, <2>5, MarksStay, MarkedKeys DEF Marks, UsagePresent
<1> QED BY <1>1, <1>2, <1>3

\* A key that nobody produces is queued for a build.
LEMMA EnqueueKeepsMarks ==
    ASSUME TInv, Marks, NEW k \in Keys, Producible(k), Enqueued(k), CapturesStay,
           UNCHANGED <<job, entry, known, capturing>>
    PROVE  Marks'
<1>1. /\ queue \in Seq(Keys) /\ queue' = Append(queue, k) /\ building' = building \cup {k}
      /\ k \in known /\ entry[k] = None /\ k \notin building \cup capturing
  BY DEF TInv, TypeOK, Producible, Enqueued
<1>2. /\ Len(queue) \in Nat /\ DOMAIN queue = 1..Len(queue)
      /\ DOMAIN queue' = 1..(Len(queue) + 1) /\ queue'[Len(queue) + 1] = k
      /\ \A n \in 1..Len(queue) : queue'[n] = queue[n]
  BY <1>1
<1>3. DOMAIN queue' = DOMAIN queue \cup {Len(queue) + 1} /\ Len(queue) + 1 \notin DOMAIN queue
  BY <1>2
<1>4. Queued' = Queued \cup {k}
  BY <1>2, <1>3 DEF Queued
<1>5. k \notin Queued /\ k \notin Built
  BY <1>1 DEF Marks, MarksAreOwned
<1>6. \A m, n \in DOMAIN queue' : queue'[m] = queue'[n] => m = n
  <2>1. \A n \in DOMAIN queue : queue[n] # k
    BY <1>5 DEF Queued
  <2> QED BY <1>2, <1>3, <2>1 DEF Marks, MarksAreOwned, OneOwner
<1>7. Built' = Built /\ Captures' = Captures
      /\ {file'[f].key : f \in Captures} = {file[f].key : f \in Captures}
  BY DEF Built, Active, Captures, CapturesStay
<1>8. OneOwner'
  <2>1. \A w \in Workers : Active(w)' => job'[w].key \notin Queued'
    BY <1>4, <1>5 DEF Marks, MarksAreOwned, OneOwner, Active, Built
  <2>2. \A v, w \in Workers : Active(v)' /\ Active(w)' /\ job'[v].key = job'[w].key => v = w
    BY DEF Marks, MarksAreOwned, OneOwner, Active
  <2>3. \A f, g \in Captures' : file'[f].key = file'[g].key => f = g
    BY <1>7 DEF Marks, MarksAreOwned, OneOwner, Captures, CapturesStay
  <2> QED BY <1>6, <2>1, <2>2, <2>3 DEF OneOwner
<1>9. MarksAreOwned'
  BY <1>1, <1>4, <1>7, <1>8 DEF Marks, MarksAreOwned
<1>10. SingleProducer' /\ UsagePresent'
  BY <1>1 DEF Marks, SingleProducer, UsagePresent
<1> QED BY <1>9, <1>10 DEF Marks

LEMMA ScheduleKeepsMarks ==
    ASSUME TInv, Marks, NEW k \in Keys, NEW minimum, Schedule(k, minimum), CapturesStay,
           UNCHANGED <<job, entry, capturing>>
    PROVE  Marks'
<1>1. UNCHANGED known /\ JobsStay
  BY DEF Schedule, JobsStay, Active
<1>2. CASE Producible(k) /\ Enqueued(k)
  BY <1>1, <1>2, EnqueueKeepsMarks
<1>3. CASE UNCHANGED <<building, queue>>
  BY <1>1, <1>3, MarksStay DEF Marks, UsagePresent
<1> QED BY <1>2, <1>3 DEF Schedule, Enqueue

\* A capture ends, with an asset of its own key or without.
LEMMA EndKeepsMarks ==
    ASSUME TInv, Marks, NEW f \in Files, file[f].capture.on, NEW r, ~r.capture.on, Set(f, r),
           capturing' = capturing \ {file[f].key}, UNCHANGED <<building, queue, job, known>>,
           \A m \in Keys \ {file[f].key} : entry'[m] = entry[m]
    PROVE  Marks'
<1> DEFINE k == file[f].key
<1>1. file' = [file EXCEPT ![f] = r] /\ file \in [Files -> Playback]
  BY DEF TInv, TypeOK, Set
<1>2. k \in capturing /\ k \notin building
  BY MarkedKeys DEF Marks, SingleProducer
<1>3. Captures' = Captures \ {f} /\ \A g \in Captures \ {f} : file'[g] = file[g] /\ file[g].key # k
  BY <1>1 DEF Captures, Marks, MarksAreOwned, OneOwner
<1>4. Built' = Built /\ Queued' = Queued
  BY DEF Built, Active, Queued
<1>5. f \in Captures
  BY DEF Captures
<1>6. capturing' = {file'[g].key : g \in Captures'}
  <2>1. capturing' = {file[g].key : g \in Captures} \ {k}
    BY DEF Marks, MarksAreOwned
  <2> HIDE DEF k
  <2>2. {file[g].key : g \in Captures} \ {k} = {file[g].key : g \in Captures \ {f}}
    BY <1>3, <1>5 DEF k
  <2> QED BY <1>3, <2>1, <2>2
<1>7. OneOwner'
  BY <1>3, <1>4 DEF Marks, MarksAreOwned, OneOwner, Active
<1>8. MarksAreOwned'
  BY <1>4, <1>6, <1>7 DEF Marks, MarksAreOwned
<1>9. SingleProducer' /\ UsagePresent'
  BY <1>2, MarkedKeys DEF Marks, SingleProducer, UsagePresent
<1> QED BY <1>8, <1>9 DEF Marks

LEMMA AbortKeepsMarks ==
    ASSUME TInv, Marks, NEW f \in Files, file[f].capture.on, NEW err, NEW pc, Abort(f, err, pc),
           UNCHANGED <<building, queue, job, entry>>
    PROVE  Marks'
<1> DEFINE r == [file[f] EXCEPT !.pc = pc, !.capture = NoCapture]
<1>1. file[f] \in Playback
  BY DEF TInv, TypeOK
<1>2. r.capture = NoCapture
  BY <1>1 DEF Playback
<1>3. ~r.capture.on
  BY <1>2, NoFileFacts
<1>4. Set(f, r) /\ capturing' = capturing \ {file[f].key} /\ UNCHANGED known
  BY DEF Abort
<1> HIDE DEF r
<1> QED BY <1>3, <1>4, EndKeepsMarks

\* A key that nobody produces is captured by the file that plays it.
LEMMA BeginKeepsMarks ==
    ASSUME TInv, Marks, NEW f \in Files, BeginCapture(f) PROVE Marks'
<1> DEFINE k == file[f].key
           capture == [NoCapture EXCEPT !.on = Producible(k)]
           r == [file[f] EXCEPT !.pc = "playing", !.capture = capture]
<1>1. /\ file[f] \in Playback /\ file \in [Files -> Playback] /\ ~file[f].capture.on
      /\ k \in PcmKeys
  BY DEF TInv, TypeOK, Shapes, FileShape, BeginCapture
<1>2. /\ file' = [file EXCEPT ![f] = r]
      /\ capturing' = IF capture.on THEN capturing \cup {k} ELSE capturing
      /\ UNCHANGED <<entry, known, building, queue, job>>
  BY DEF BeginCapture, Set, assets, usages, jobs
<1>3. capture.on = Producible(k)
  BY DEF NoCapture
<1> HIDE DEF capture
<1>4. r.capture = capture /\ r.key = k
  BY <1>1 DEF Playback
<1> HIDE DEF r
<1>5. CASE ~Producible(k)
  <2>1. CapturesStay
    BY <1>1, <1>2, <1>3, <1>4, <1>5 DEF CapturesStay
  <2>2. JobsStay
    BY <1>2 DEF JobsStay, Active
  <2> QED BY <1>2, <1>3, <1>5, <2>1, <2>2, MarksStay DEF Marks, UsagePresent
<1>6. CASE Producible(k)
  <2>1. k \in known /\ entry[k] = None /\ k \notin building \cup capturing
    BY <1>6 DEF Producible
  <2>2. capturing' = capturing \cup {k}
    BY <1>2, <1>3, <1>6
  <2>3. /\ Captures' = Captures \cup {f} /\ f \notin Captures /\ file'[f].key = k
        /\ \A g \in Captures : file'[g] = file[g] /\ file[g].key # k
    BY <1>1, <1>2, <1>3, <1>4, <1>6, <2>1 DEF Captures, Marks, MarksAreOwned
  <2>4. Built' = Built /\ Queued' = Queued
    BY <1>2 DEF Built, Active, Queued
  <2>5. OneOwner'
    BY <1>2, <2>3, <2>4 DEF Marks, MarksAreOwned, OneOwner, Active
  <2>6. MarksAreOwned'
    BY <1>2, <2>2, <2>3, <2>4, <2>5 DEF Marks, MarksAreOwned
  <2>7. SingleProducer' /\ UsagePresent'
    BY <1>2, <2>1, <2>2 DEF Marks, SingleProducer, UsagePresent
  <2> QED BY <2>6, <2>7 DEF Marks
<1> QED BY <1>5, <1>6

\* A playback captures what it captured before.
SameCapture(c, r) ==
    /\ c.capture.on <=> r.capture.on
    /\ r.capture.on => c.key = r.key

LEMMA FileKeepsMarks ==
    ASSUME TInv, Marks, NEW f \in Files, FileStep(f) PROVE Marks'
<1> DEFINE r == file[f]
<1> USE DEF assets, usages, budget, jobs, ending
<1>0. /\ r \in Playback /\ FileShape(r) /\ file \in [Files -> Playback]
      /\ entry \in [Keys -> Assets \cup {None}]
  BY DEF TInv, TypeOK, Shapes
<1>1. CASE \E k \in Keys : Play(f, k)
  <2> PICK k \in Keys : Play(f, k)
    BY <1>1
  <2>1. ~r.capture.on /\ UNCHANGED <<entry, building, capturing, queue, job>>
    BY <1>0 DEF Play, FileShape
  <2>2. building \cup capturing \subseteq known'
    BY DEF Play, Observe, Pruned, Marks, UsagePresent
  <2>3. PICK c : Set(f, c) /\ ~c.capture.on
    <3> DEFINE new == [NoFile EXCEPT !.key = k, !.lease = entry[k]]
    <3>1. new \in Playback /\ new.capture = NoCapture
      BY <1>0, NoFileFacts DEF Playback
    <3> HIDE DEF new
    <3> DEFINE Hit(pc) == [new EXCEPT !.pc = pc]
               Streamed(pc, loops) == [new EXCEPT !.pc = pc, !.first = TRUE, !.loops = loops]
    <3>3. \E pc, loops : Set(f, Hit(pc)) \/ Set(f, Streamed(pc, loops))
      <4> DEFINE start == IF k \in PcmKeys THEN "opened" ELSE "playing"
      <4>1. Set(f, Hit("cached")) \/ \E loops \in BOOLEAN : Set(f, Streamed(start, loops))
        BY DEF Play, new
      <4> HIDE DEF start, Hit, Streamed
      <4> QED BY <4>1
    <3>2. \A pc, loops : Hit(pc).capture = NoCapture /\ Streamed(pc, loops).capture = NoCapture
      BY <3>1 DEF Playback
    <3> HIDE DEF Hit, Streamed
    <3> QED BY <3>2, <3>3, NoFileFacts
  <2>4. CapturesStay
    BY <2>1, <2>3, FileStays
  <2>5. JobsStay
    BY <2>1 DEF JobsStay, Active
  <2> QED BY <2>1, <2>2, <2>4, <2>5, MarksStay
<1>2. CASE BeginCapture(f)
  BY <1>2, BeginKeepsMarks
<1>3. CASE r.capture.on /\ (\E err, pc : Abort(f, err, pc)) /\ UNCHANGED <<assets, jobs>>
  BY <1>3, AbortKeepsMarks
<1>4. CASE FinishCapture(f)
  <2>1. CASE Abort(f, "other", "playing") /\ UNCHANGED assets
    BY <1>3, <1>4, <2>1 DEF FinishCapture
  <2>2. CASE ~(Abort(f, "other", "playing") /\ UNCHANGED assets)
    <3> DEFINE c == [r EXCEPT !.capture = NoCapture]
    <3>1. /\ r.capture.on /\ Set(f, c) /\ capturing' = capturing \ {r.key}
          /\ UNCHANGED <<building, queue, job, known>>
      BY <1>4, <2>2 DEF FinishCapture
    <3>2. \A m \in Keys \ {r.key} : entry'[m] = entry[m]
      BY <1>0, <1>4, <2>2 DEF FinishCapture, Admit
    <3>3. ~c.capture.on
      <4>1. c.capture = NoCapture
        BY <1>0 DEF Playback
      <4> QED BY <4>1, NoFileFacts
    <3> HIDE DEF c
    <3> QED BY <3>1, <3>2, <3>3, EndKeepsMarks
  <2> QED BY <2>1, <2>2
<1>5. ASSUME NEW c, Set(f, c), SameCapture(c, r),
             UNCHANGED <<entry, known, building, capturing, queue, job>>
      PROVE  Marks'
  <2>1. CapturesStay
    BY <1>5, FileStays DEF SameCapture
  <2>2. JobsStay
    BY <1>5 DEF JobsStay, Active
  <2> QED BY <1>5, <2>1, <2>2, MarksStay DEF Marks, UsagePresent
<1>6. CASE Capture(f)
  <2>1. r.capture.on /\ UNCHANGED <<assets, jobs>>
    BY <1>6 DEF Capture
  <2>2. CASE \E err, pc : Abort(f, err, pc)
    BY <1>3, <2>1, <2>2
  <2>3. CASE ~\E err, pc : Abort(f, err, pc)
    <3>1. /\ UNCHANGED <<known, capturing>>
          /\ \/ Set(f, [r EXCEPT !.capture.count = r.capture.count + 1])
             \/ \E doubled : Set(f, [r EXCEPT !.pc = "growing", !.capture.capacity = doubled])
      BY <1>6, <2>3 DEF Capture
    <3>2. \A n, pc : /\ SameCapture([r EXCEPT !.capture.count = n], r)
                     /\ SameCapture([r EXCEPT !.pc = pc, !.capture.capacity = n], r)
      BY <1>0 DEF Playback, SameCapture
    <3> QED BY <1>5, <2>1, <3>1, <3>2
  <2> QED BY <2>2, <2>3
<1>7. CASE CaptureGrows(f) \/ CaptureShrinks(f)
  <2>1. \A n, pc : /\ SameCapture([r EXCEPT !.pc = pc, !.capture.count = n], r)
                   /\ SameCapture([r EXCEPT !.pc = pc, !.capture.capacity = n], r)
    BY <1>0 DEF Playback, SameCapture
  <2>2. \/ Set(f, [r EXCEPT !.pc = "playing", !.capture.count = r.capture.count + 1])
        \/ Set(f, [r EXCEPT !.pc = "aborting", !.capture.capacity = r.capture.count])
    BY <1>7 DEF CaptureGrows, CaptureShrinks
  <2>3. UNCHANGED <<entry, known, building, capturing, queue, job>>
    BY <1>7 DEF CaptureGrows, CaptureShrinks
  <2> QED BY <1>5, <2>1, <2>2, <2>3
<1>8. CASE CaptureAborted(f)
  BY <1>0, <1>3, <1>8 DEF CaptureAborted, FileShape
<1>9. CASE Started(f) \/ Missed(f)
  <2>1. \A pc : /\ [r EXCEPT !.pc = pc].capture = r.capture /\ [r EXCEPT !.pc = pc].key = r.key
                /\ [r EXCEPT !.first = FALSE].capture = r.capture
                /\ [r EXCEPT !.first = FALSE].key = r.key
    BY <1>0 DEF Playback
  <2>2. CapturesStay
    BY <1>9, <2>1, FileStays DEF Started, Missed, Goto
  <2>3. r.key \in Keys
    BY <1>0, <1>9 DEF FileShape, Started, Missed
  <2>4. PICK minimum \in {0, 2} : Schedule(r.key, minimum)
    BY <1>9 DEF Started, Missed
  <2> QED BY <1>9, <2>2, <2>3, <2>4, ScheduleKeepsMarks DEF Started, Missed
<1>10. CASE Restart(f) \/ KeepRaw(f) \/ Reacquire(f) \/ (CloseFile(f) /\ ~r.capture.on)
  <2>1. \A pc, lease : /\ SameCapture([r EXCEPT !.pc = pc], r)
                      /\ SameCapture([r EXCEPT !.pc = pc, !.lease = lease], r)
    BY <1>0 DEF Playback, SameCapture
  <2>2. \E pc, lease : Set(f, [r EXCEPT !.pc = pc]) \/ Set(f, [r EXCEPT !.pc = pc, !.lease = lease])
    BY <1>10 DEF Restart, KeepRaw, Reacquire, CloseFile, Goto
  <2>3. UNCHANGED <<entry, known, building, capturing, queue, job>>
    BY <1>10 DEF Restart, KeepRaw, Reacquire, CloseFile
  <2> QED BY <1>5, <2>1, <2>2, <2>3
<1>11. CASE CloseFile(f) /\ r.capture.on
  BY <1>3, <1>11 DEF CloseFile
<1>12. CASE PlayFails(f) \/ GiveBack(f)
  <2>1. ~r.capture.on /\ Set(f, NoFile)
        /\ UNCHANGED <<entry, known, building, capturing, queue, job>>
    BY <1>0, <1>12 DEF PlayFails, GiveBack, FileShape
  <2>2. SameCapture(NoFile, r)
    BY <2>1, NoFileFacts DEF SameCapture
  <2> QED BY <1>5, <2>1, <2>2
<1> QED BY <1>1, <1>2, <1>4, <1>6, <1>7, <1>8, <1>9, <1>10, <1>11, <1>12 DEF FileStep

LEMMA NextKeepsMarks == ASSUME TInv, Marks, [Next]_vars PROVE Marks'
<1>1. CASE \E w \in Workers : WorkerStep(w)
  BY <1>1, WorkerKeepsMarks
<1>2. CASE \E f \in Files : FileStep(f)
  BY <1>2, FileKeepsMarks
<1>3. CASE Tick \/ CloseBegins \/ CloseEnds \/ UNCHANGED vars
  <2>1. UNCHANGED <<known, building, capturing, queue, job, file>>
    BY <1>3 DEF Tick, CloseBegins, CloseEnds, vars, usages, jobs
  <2>2. \A k \in Keys : entry[k] = None => entry'[k] = None
    BY <1>3 DEF Tick, CloseBegins, CloseEnds, vars, assets
  <2>3. JobsStay /\ CapturesStay
    BY <2>1 DEF JobsStay, CapturesStay, Active
  <2> QED BY <2>1, <2>2, <2>3, MarksStay, MarkedKeys DEF Marks, UsagePresent
<1> QED BY <1>1, <1>2, <1>3 DEF Next, Done

--------------------------------------------------------------------------------
\* Close, and the theorems

LEMMA NextKeepsCancels == ASSUME CloseCancelsBuilds, [Next]_vars PROVE CloseCancelsBuilds'
<1> USE DEF CloseCancelsBuilds
<1>1. CASE CloseBegins
  BY <1>1 DEF CloseBegins, jobs
<1>2. CASE \E w \in Workers : NewToken(w)
  BY <1>2 DEF NewToken, MayRegister, ending
<1>3. CASE \E w \in Workers : DropToken(w)
  BY <1>3 DEF DropToken
<1>4. CASE UNCHANGED <<tokens, cancelled, closing>>
  BY <1>4
<1>5. ASSUME NEW w \in Workers, WorkerStep(w)
      PROVE  NewToken(w) \/ DropToken(w) \/ UNCHANGED <<tokens, cancelled, closing>>
  BY <1>5 DEF WorkerStep, TakeJob, WorkerExits, OpenFails, Opened, LockEviction, Reserve,
        Detach,
              FreeVictim, Refused, GrowSucceeds, GrowFails, Decoded, DecodeFails, TooSmall,
              Release, Finish, ending
<1>6. ASSUME NEW f \in Files, FileStep(f)
      PROVE  UNCHANGED <<tokens, cancelled, closing>>
  BY <1>6 DEF FileStep, Play, PlayFails, BeginCapture, Capture, CaptureGrows, CaptureShrinks,
              CaptureAborted, FinishCapture, Started, Restart, Reacquire, KeepRaw, Missed,
              CloseFile, GiveBack, jobs, ending
<1>7. CASE Tick \/ CloseEnds \/ UNCHANGED vars
  BY <1>4, <1>7 DEF Tick, CloseEnds, vars, jobs, ending
<1> QED BY <1>1, <1>2, <1>3, <1>4, <1>5, <1>6, <1>7 DEF Next, Done

\* The inductive invariant: the types and what jobs and playbacks hold at each
\* step, the budget, the marks and the tokens.
THEOREM Inductive == Spec => []CInv
<1>1. Init => CInv
  BY InitCInv
<1>2. CInv /\ [Next]_vars => CInv'
  BY NextKeepsTInv, NextKeepsBudget, NextKeepsMarks, NextKeepsCancels DEF CInv
<1> QED BY <1>1, <1>2, PTL DEF Spec

\* Every variable of the cache keeps its type, and no queue, count or size
\* leaves its range (audio_cache.go, pcm_cache.go, pcm_capture.go).
THEOREM TypeCorrect == Spec => []TypeOK
<1>1. CInv => TypeOK
  BY DEF CInv, TInv
<1> QED BY <1>1, Inductive, PTL

\* Whatever builds, captures and evictions do at the same time, the cache never
\* accounts for more memory than its budget (cache_budget.go, tryReserve).
THEOREM BudgetNeverExceeded == Spec => []BudgetKept
<1>1. CInv => BudgetKept
  BY DEF CInv
<1> QED BY <1>1, Inductive, PTL

\* A build and a capture of one key exclude each other, and neither runs while
\* the key is cached (beginPCMCapture, schedulePCMBuildWithMinimumUsage).
THEOREM OneProducer == Spec => []SingleProducer
<1>1. CInv => SingleProducer
  BY DEF CInv, Marks
<1> QED BY <1>1, Inductive, PTL

\* A mark in building or capturing has one owner that will take it off: no path
\* leaks one, and no two jobs or captures share one (buildPCM, finishRawBuild,
\* finish and abort of pcmCapture).
THEOREM MarksHaveOneOwner == Spec => []MarksAreOwned
<1>1. CInv => MarksAreOwned
  BY DEF CInv, Marks
<1> QED BY <1>1, Inductive, PTL

\* Pruning never takes the usage of a key that is being produced, which the end
\* of the build or capture dereferences (pruneUsageLocked).
THEOREM UsageIsPresent == Spec => []UsagePresent
<1>1. CInv => UsagePresent
  BY DEF CInv, Marks
<1> QED BY <1>1, Inductive, PTL

\* Close cancels every build it finds, and none starts uncancelled after it
\* (newBuildCancelToken, close).
THEOREM CloseCancelsEveryBuild == Spec => []CloseCancelsBuilds
<1>1. CInv => CloseCancelsBuilds
  BY DEF CInv
<1> QED BY <1>1, Inductive, PTL
================================================================================
