------------------------ MODULE AudioCacheAccountsProofs -------------------------
(***************************************************************************)
(* Proofs of AccountsMatch and CloseFreesAll of AudioCache, for every set  *)
(* of keys, playbacks and workers.                                         *)
(*                                                                         *)
(* A step changes one job, one playback, or one asset and its key, so each *)
(* sum changes in one place (TotalUpdate) and the counter of the sum has   *)
(* to change by as much.  Neither property is inductive: what a step gives *)
(* back must be all that its job or its capture held (Emptied), and the    *)
(* end of close finds nothing because the workers that have gone found the *)
(* queue empty, gave up their tokens and hold no lock (Departed).          *)
(***************************************************************************)
EXTENDS AudioCacheLeaseProofs, TotalsProofs

\* Who does nothing holds nothing.
Emptied ==
    /\ \A w \in Workers : job[w].pc \in {"idle", "drop", "gone"} => job[w].held = 0
    /\ \A f \in Files : ~file[f].capture.on => file[f].capture.capacity = 0

ReservedMatches == reserved = Total(Held) + Total(Captured)
ReclaimingMatches == reclaiming = Total(Reclaimed)
ResidentMatches == resident = Total(Resident)

\* Workers leave when the cache closes and its queue is empty; who has a token
\* or the eviction lock has not left; close ends when all have left.
Departed ==
    /\ \A w \in Workers : job[w].pc = "gone" => closing /\ queue = <<>>
    /\ \A w \in tokens : job[w].pc \notin {"idle", "token", "gone"}
    /\ evictor # None => job[evictor].pc \in {"reserve", "freeing"}
    /\ closed => closing /\ AllGone /\ live = {}

AInv == Emptied /\ AccountsMatch /\ Departed

--------------------------------------------------------------------------------
\* The sums

\* What is summed, and each sum, is an integer.
LEMMA SumTypes ==
    ASSUME TInv
    PROVE  /\ Held \in [Workers -> Int] /\ Captured \in [Files -> Int]
           /\ Reclaimed \in [Workers -> Int] /\ Resident \in [Keys -> Int]
           /\ Total(Held) \in Int /\ Total(Captured) \in Int
           /\ Total(Reclaimed) \in Int /\ Total(Resident) \in Int
<1>1. Held \in [Workers -> Int]
  BY LeaseFacts, JobNumbers DEF Held
<1>2. Captured \in [Files -> Int]
  BY LeaseFacts, PlaybackFacts DEF Captured
<1>3. \A a \in Assets : asset[a].bytes \in Int
  BY LeaseFacts, AssetFacts
<1>4. Reclaimed \in [Workers -> Int]
  BY <1>3, LeaseFacts DEF Reclaimed
<1>5. Resident \in [Keys -> Int]
  BY <1>3, LeaseFacts DEF Resident
<1> QED BY <1>1, <1>2, <1>4, <1>5, TotalType, FilesAssumption, FiniteAssumption
        DEF FilesAssumption, FiniteAssumption

\* The parts of AccountsMatch.
LEMMA AccountsParts ==
    AccountsMatch <=> ReservedMatches /\ ReclaimingMatches /\ ResidentMatches
BY DEF AccountsMatch, ReservedMatches, ReclaimingMatches, ResidentMatches

\* The same after a step that keeps the types.
LEMMA NextSumTypes ==
    ASSUME TInv'
    PROVE  /\ Held' \in [Workers -> Int] /\ Captured' \in [Files -> Int]
           /\ Reclaimed' \in [Workers -> Int] /\ Resident' \in [Keys -> Int]
<1>1. /\ entry' \in [Keys -> Assets \cup {None}] /\ asset' \in [Assets -> AssetRecord]
      /\ job' \in [Workers -> Job] /\ file' \in [Files -> Playback]
  BY DEF TInv, TypeOK
<1>2. Held' \in [Workers -> Int]
  BY <1>1, JobNumbers DEF Held
<1>3. Captured' \in [Files -> Int]
  BY <1>1, PlaybackFacts DEF Captured
<1>4. \A a \in Assets : asset'[a].bytes \in Int
  BY <1>1, AssetFacts
<1>5. Reclaimed' \in [Workers -> Int]
  <2>1. \A w \in Workers : job'[w].victim \in Assets \cup {None}
    BY <1>1 DEF Job
  <2> QED BY <1>4, <2>1 DEF Reclaimed
<1>6. Resident' \in [Keys -> Int]
  BY <1>1, <1>4 DEF Resident
<1> QED BY <1>2, <1>3, <1>5, <1>6

\* A job changes, and the counter by as much as it holds more.
LEMMA JobReserves ==
    ASSUME TInv, TInv', ReservedMatches, NEW w \in Workers,
           \A v \in Workers \ {w} : job'[v] = job[v], UNCHANGED file,
           reserved' = reserved + (job'[w].held - job[w].held)
    PROVE  ReservedMatches'
<1>1. PICK g : g = Held'
  OBVIOUS
<1>2. g \in [Workers -> Int] /\ g = [v \in Workers |-> job'[v].held]
  BY <1>1, NextSumTypes DEF Held
<1>3. Held \in [Workers -> Int] /\ Total(Held) \in Int /\ Total(Captured) \in Int
  BY SumTypes
<1>4. /\ g[w] = job'[w].held /\ Held[w] = job[w].held
      /\ \A v \in Workers \ {w} : Held[v] = g[v]
  BY <1>2 DEF Held
<1>5. Total(g) = Total(Held) + g[w] - Held[w]
  BY <1>2, <1>3, <1>4, TotalUpdate, FiniteAssumption DEF FiniteAssumption
<1>6. Captured' = Captured
  BY DEF Captured
<1>7. g[w] \in Int /\ Held[w] \in Int
  BY <1>2, <1>3
<1> QED BY <1>1, <1>3, <1>4, <1>5, <1>6, <1>7 DEF ReservedMatches

\* A capture changes, and the counter by as much as its buffer grows.
LEMMA FileReserves ==
    ASSUME TInv, TInv', ReservedMatches, NEW f \in Files,
           \A g \in Files \ {f} : file'[g] = file[g], UNCHANGED job,
           reserved' = reserved + (file'[f].capture.capacity - file[f].capture.capacity)
    PROVE  ReservedMatches'
<1>1. PICK h : h = Captured'
  OBVIOUS
<1>2. h \in [Files -> Int] /\ h = [g \in Files |-> file'[g].capture.capacity]
  BY <1>1, NextSumTypes DEF Captured
<1>3. Captured \in [Files -> Int] /\ Total(Held) \in Int /\ Total(Captured) \in Int
  BY SumTypes
<1>4. /\ h[f] = file'[f].capture.capacity /\ Captured[f] = file[f].capture.capacity
      /\ \A g \in Files \ {f} : Captured[g] = h[g]
  BY <1>2 DEF Captured
<1>5. Total(h) = Total(Captured) + h[f] - Captured[f]
  BY <1>2, <1>3, <1>4, TotalUpdate, FilesAssumption DEF FilesAssumption
<1>6. Held' = Held
  BY DEF Held
<1>7. h[f] \in Int /\ Captured[f] \in Int
  BY <1>2, <1>3
<1> QED BY <1>1, <1>3, <1>4, <1>5, <1>6, <1>7 DEF ReservedMatches

\* The assets of keys and of victims keep their sizes.
SizesStay ==
    /\ \A w \in Workers : /\ job'[w].victim = job[w].victim
                          /\ job[w].victim # None =>
                                asset'[job[w].victim].bytes = asset[job[w].victim].bytes
    /\ \A k \in Keys : /\ entry'[k] = entry[k]
                       /\ entry[k] # None => asset'[entry[k]].bytes = asset[entry[k]].bytes
    /\ UNCHANGED <<resident, reclaiming>>

\* A step that frees, commits and detaches nothing keeps both of the sums of assets.
LEMMA SizesStayMatched ==
    ASSUME ReclaimingMatches, ResidentMatches, SizesStay
    PROVE  ReclaimingMatches' /\ ResidentMatches'
<1>1. Reclaimed' = Reclaimed
  BY DEF SizesStay, Reclaimed
<1>2. Resident' = Resident
  BY DEF SizesStay, Resident
<1> QED BY <1>1, <1>2 DEF SizesStay, ReclaimingMatches, ResidentMatches

\* An asset enters the cache and the account of what is resident.
LEMMA AdmitMatched ==
    ASSUME TInv, TInv', LInv, ReclaimingMatches, ResidentMatches, NEW k \in Keys, NEW n \in Bytes,
           entry[k] = None, Admit(k, n), UNCHANGED reclaiming,
           \A w \in Workers : job'[w].victim = job[w].victim
    PROVE  ReclaimingMatches' /\ ResidentMatches'
<1>1. PICK a \in Assets \ live :
        /\ asset' = [asset EXCEPT ![a] = [bytes |-> n, refs |-> 0, cached |-> TRUE,
                                          lastUsed |-> now]]
        /\ entry' = [entry EXCEPT ![k] = a]
        /\ resident' = resident + n
  BY DEF Admit
<1>2. asset'[a].bytes = n /\ \A b \in Assets \ {a} : asset'[b] = asset[b]
  BY <1>1, LeaseFacts
<1>3. a # None /\ \A j \in Keys : entry[j] # a
  BY <1>1, LeaseFacts DEF LInv, EntriesAreCached
<1>4. \A w \in Workers : job[w].victim # a
  BY <1>1, <1>3 DEF LInv, VictimsAreDetached
<1>5. Reclaimed' = Reclaimed
  BY <1>2, <1>4, LeaseFacts DEF Reclaimed
<1>6. PICK g : g = Resident'
  OBVIOUS
<1>7. entry'[k] = a /\ \A j \in Keys \ {k} : entry'[j] = entry[j]
  BY <1>1, LeaseFacts
<1>8. g[k] = n /\ Resident[k] = 0 /\ \A j \in Keys \ {k} : Resident[j] = g[j]
  BY <1>2, <1>3, <1>6, <1>7, LeaseFacts DEF Resident
<1>9. Total(g) = Total(Resident) + g[k] - Resident[k]
  <2>1. g \in [Keys -> Int] /\ Resident \in [Keys -> Int] /\ IsFiniteSet(Keys)
    BY <1>6, SumTypes, NextSumTypes, FiniteAssumption DEF FiniteAssumption
  <2> QED BY <1>8, <2>1, TotalUpdate
<1>10. Total(Resident) \in Int /\ n \in Int
  BY SumTypes, Sizes DEF Bytes
<1> QED BY <1>1, <1>5, <1>6, <1>8, <1>9, <1>10 DEF ReclaimingMatches, ResidentMatches

\* An eviction moves the size of the asset from one account to the other.
LEMMA DetachMatched ==
    ASSUME TInv, TInv', LInv, ReclaimingMatches, ResidentMatches, NEW w \in Workers, Detach(w)
    PROVE  ReclaimingMatches' /\ ResidentMatches'
<1>1. PICK k \in Victims :
        /\ entry' = [entry EXCEPT ![k] = None]
        /\ asset' = [asset EXCEPT ![entry[k]].cached = FALSE]
        /\ resident' = resident - asset[entry[k]].bytes
        /\ reclaiming' = reclaiming + asset[entry[k]].bytes
        /\ job' = [job EXCEPT ![w].pc = "freeing", ![w].victim = entry[k]]
  BY DEF Detach
<1>2. k \in Keys /\ entry[k] # None
  BY DEF Victims, Evictable
<1>3. PICK a \in Assets : a = entry[k]
  BY <1>2, LeaseFacts
<1>4. \A b \in Assets : asset'[b].bytes = asset[b].bytes
  <2>1. asset[a] \in AssetRecord
    BY LeaseFacts
  <2> QED BY <1>1, <1>3, <2>1, LeaseFacts DEF AssetRecord
<1>5. /\ job[w].victim = None /\ job'[w].victim = a
      /\ \A v \in Workers \ {w} : job'[v] = job[v]
  <2>1. job[w] \in Job /\ job[w].pc = "reserve"
    BY LeaseFacts DEF Detach
  <2>2. job[w].victim = None
    BY <2>1 DEF LInv, VictimsAreDetached
  <2> QED BY <1>1, <1>3, <2>1, <2>2, LeaseFacts DEF Job
<1>6. entry'[k] = None /\ \A j \in Keys \ {k} : entry'[j] = entry[j]
  BY <1>1, <1>2, LeaseFacts
<1>7. a # None /\ asset[a].bytes \in Int
  BY <1>2, <1>3, LeaseFacts, AssetFacts
<1>8. Total(Resident') = Total(Resident) - asset[a].bytes
  <2>1. PICK g : g = Resident'
    OBVIOUS
  <2>2. /\ g[k] = 0 /\ Resident[k] = asset[a].bytes
        /\ \A j \in Keys \ {k} : Resident[j] = g[j]
    BY <1>2, <1>3, <1>4, <1>6, <2>1, LeaseFacts DEF Resident
  <2>3. Total(g) = Total(Resident) + g[k] - Resident[k]
    <3>1. g \in [Keys -> Int] /\ Resident \in [Keys -> Int] /\ IsFiniteSet(Keys)
      BY <2>1, SumTypes, NextSumTypes, FiniteAssumption DEF FiniteAssumption
    <3> QED BY <1>2, <2>2, <3>1, TotalUpdate
  <2> QED BY <1>7, <2>1, <2>2, <2>3, SumTypes
<1>9. Total(Reclaimed') = Total(Reclaimed) + asset[a].bytes
  <2>1. PICK g : g = Reclaimed'
    OBVIOUS
  <2>2. /\ g[w] = asset[a].bytes /\ Reclaimed[w] = 0
        /\ \A v \in Workers \ {w} : Reclaimed[v] = g[v]
    BY <1>4, <1>5, <1>7, <2>1, LeaseFacts DEF Reclaimed
  <2>3. Total(g) = Total(Reclaimed) + g[w] - Reclaimed[w]
    <3>1. g \in [Workers -> Int] /\ Reclaimed \in [Workers -> Int] /\ IsFiniteSet(Workers)
      BY <2>1, SumTypes, NextSumTypes, FiniteAssumption DEF FiniteAssumption
    <3> QED BY <2>2, <3>1, TotalUpdate
  <2> QED BY <1>7, <2>1, <2>2, <2>3, SumTypes
<1> QED BY <1>1, <1>3, <1>8, <1>9 DEF ReclaimingMatches, ResidentMatches

\* Once a victim is freed its size leaves the account.
LEMMA FreeMatched ==
    ASSUME TInv, TInv', LInv, ReclaimingMatches, ResidentMatches, NEW w \in Workers,
           FreeVictim(w)
    PROVE  ReclaimingMatches' /\ ResidentMatches'
<1>1. /\ asset' = [b \in Assets |-> IF b \in {job[w].victim} THEN NoAsset ELSE asset[b]]
      /\ job' = [job EXCEPT ![w].pc = "reserve", ![w].victim = None]
      /\ reclaiming' = reclaiming - asset[job[w].victim].bytes
      /\ UNCHANGED <<entry, resident>> /\ job[w].pc = "freeing"
  BY DEF FreeVictim, Forget
<1>2. PICK a \in Assets : a = job[w].victim
  BY <1>1, LeaseFacts DEF TInv, Shapes, JobShape
<1>3. a # None /\ ~asset[a].cached /\ asset[a].bytes \in Int
      /\ \A v \in Workers \ {w} : job[v].victim # a
  BY <1>2, LeaseFacts, AssetFacts DEF LInv, VictimsAreDetached
<1>4. \A k \in Keys : entry[k] # a
  BY <1>3 DEF LInv, EntriesAreCached
<1>5. \A b \in Assets \ {a} : asset'[b] = asset[b]
  BY <1>1, <1>2
<1>6. job'[w].victim = None /\ \A v \in Workers \ {w} : job'[v] = job[v]
  <2>1. job[w] \in Job
    BY LeaseFacts
  <2> QED BY <1>1, <2>1, LeaseFacts DEF Job
<1>7. Resident' = Resident
  BY <1>1, <1>4, <1>5, LeaseFacts DEF Resident
<1>8. Total(Reclaimed') = Total(Reclaimed) - asset[a].bytes
  <2>1. PICK g : g = Reclaimed'
    OBVIOUS
  <2>2. /\ g[w] = 0 /\ Reclaimed[w] = asset[a].bytes
        /\ \A v \in Workers \ {w} : Reclaimed[v] = g[v]
    BY <1>2, <1>3, <1>5, <1>6, <2>1, LeaseFacts DEF Reclaimed
  <2>3. Total(g) = Total(Reclaimed) + g[w] - Reclaimed[w]
    <3>1. g \in [Workers -> Int] /\ Reclaimed \in [Workers -> Int] /\ IsFiniteSet(Workers)
      BY <2>1, SumTypes, NextSumTypes, FiniteAssumption DEF FiniteAssumption
    <3> QED BY <2>2, <3>1, TotalUpdate
  <2> QED BY <1>3, <2>1, <2>2, <2>3, SumTypes
<1> QED BY <1>1, <1>2, <1>7, <1>8 DEF ReclaimingMatches, ResidentMatches

--------------------------------------------------------------------------------
\* The steps of the workers

\* What a step of a worker does to the account of what is reserved: it changes
\* as much as the worker holds more or less.
LEMMA WorkerReserves ==
    ASSUME TInv, Emptied, NEW w \in Workers, WorkerStep(w)
    PROVE  /\ \A v \in Workers \ {w} : job'[v] = job[v]
           /\ reserved' = reserved + (job'[w].held - job[w].held)
           /\ job'[w].pc \in {"idle", "drop", "gone"} => job'[w].held = 0
<1>1. /\ job \in [Workers -> Job] /\ job[w] \in Job /\ reserved \in Int
      /\ job[w].held \in Int /\ job[w].need \in Int /\ NoJob \in Job
  BY LeaseFacts, JobNumbers, NoJobFacts DEF TInv, TypeOK
<1>2. CASE TakeJob(w) \/ Finish(w)
  <2>2. job'[w].held = 0 /\ \A v \in Workers \ {w} : job'[v] = job[v]
    <3>1. CASE TakeJob(w)
      <4>1. job' = [job EXCEPT ![w] = [NoJob EXCEPT !.pc = "token", !.key = Head(queue)]]
        BY <3>1 DEF TakeJob
      <4> QED BY <1>1, <4>1, NoJobFacts DEF Job
    <3>2. CASE Finish(w)
      <4>1. job' = [job EXCEPT ![w] = Finished(w)]
        BY <3>2 DEF Finish
      <4>2. Finished(w).held = 0
        BY NoJobFacts DEF Finished, Job
      <4> QED BY <1>1, <4>1, <4>2
    <3> QED BY <1>2, <3>1, <3>2
  <2>3. reserved' = reserved - job[w].held
    BY <1>1, <1>2 DEF TakeJob, Finish, Emptied, budget
  <2> QED BY <1>1, <2>2, <2>3
<1>3. CASE Reserve(w) \/ GrowFails(w) \/ Release(w)
  <2>1. \A v \in Workers \ {w} : job'[v] = job[v]
    BY <1>1, <1>3 DEF Reserve, GrowFails, Release
  <2>2. reserved' = reserved + (job'[w].held - job[w].held)
    <3>1. CASE Reserve(w)
      <4>1. job'[w].held = job[w].held + job[w].need /\ reserved' = reserved + job[w].need
        BY <1>1, <3>1 DEF Reserve, Job
      <4> QED BY <1>1, <4>1
    <3>2. CASE GrowFails(w)
      <4>1. job'[w].held = job[w].held - job[w].need /\ reserved' = reserved - job[w].need
        BY <1>1, <3>2 DEF GrowFails, Job
      <4> QED BY <1>1, <4>1
    <3>3. CASE Release(w)
      <4>1. job'[w].held = 0 /\ reserved' = reserved - job[w].held
        BY <1>1, <3>3 DEF Release, Job
      <4> QED BY <1>1, <4>1
    <3> QED BY <1>3, <3>1, <3>2, <3>3
  <2>3. job'[w].pc \in {"decode", "grown", "release", "lock", "finish"}
    BY <1>1, <1>3 DEF Reserve, GrowFails, Release, Job
  <2> QED BY <2>1, <2>2, <2>3
<1>4. CASE \/ WorkerExits(w) \/ NewToken(w) \/ OpenFails(w) \/ Opened(w) \/ LockEviction(w)
           \/ Detach(w) \/ FreeVictim(w) \/ Refused(w) \/ GrowSucceeds(w) \/ Decoded(w)
           \/ DecodeFails(w) \/ TooSmall(w) \/ DropToken(w)
  <2>1. UNCHANGED reserved
    BY <1>4 DEF WorkerExits, NewToken, OpenFails, Opened, LockEviction, Detach, FreeVictim,
       Refused, GrowSucceeds, Decoded, DecodeFails, TooSmall, DropToken, budget
  <2>2. /\ \A v \in Workers \ {w} : job'[v] = job[v]
        /\ job'[w].held = job[w].held
        /\ job'[w].pc \in {"idle", "drop", "gone"} => job[w].pc \in {"idle", "drop"}
    <3>1. CASE WorkerExits(w) \/ NewToken(w) \/ OpenFails(w) \/ Opened(w) \/ LockEviction(w)
      BY <1>1, <3>1 DEF WorkerExits, NewToken, OpenFails, Opened, LockEviction, Step, Job
    <3>2. CASE FreeVictim(w) \/ GrowSucceeds(w)
      BY <1>1, <3>2 DEF FreeVictim, GrowSucceeds, Job
    <3>6. CASE Detach(w)
      <4>1. PICK a : job' = [job EXCEPT ![w].pc = "freeing", ![w].victim = a]
        BY <3>6 DEF Detach
      <4> QED BY <1>1, <4>1 DEF Job
    <3>5. CASE Refused(w)
      <4>1. PICK pc \in {"finish", "release"} :
              job' = [job EXCEPT ![w].err = "budget", ![w].need = 0, ![w].pc = pc]
        BY <3>5 DEF Refused, Failed
      <4> QED BY <1>1, <4>1 DEF Job
    <3>3. CASE Decoded(w) \/ DecodeFails(w) \/ DropToken(w)
      BY <1>1, <3>3 DEF Decoded, DecodeFails, DropToken, Step, Job
    <3>4. CASE TooSmall(w)
      BY <1>1, <3>4 DEF TooSmall, Job
    <3> QED BY <1>4, <3>1, <3>2, <3>3, <3>4, <3>5, <3>6
  <2> QED BY <1>1, <2>1, <2>2 DEF Emptied
<1> QED BY <1>2, <1>3, <1>4 DEF WorkerStep

\* The sizes of assets change only with Finish, Detach and FreeVictim.
LEMMA WorkerSizes ==
    ASSUME TInv, TInv', Marks, LInv, ReclaimingMatches, ResidentMatches,
           NEW w \in Workers, WorkerStep(w)
    PROVE  ReclaimingMatches' /\ ResidentMatches'
<1>1. /\ job \in [Workers -> Job] /\ job[w] \in Job /\ NoJob \in Job /\ NoJob.victim = None
  BY LeaseFacts, NoJobFacts
<1>2. CASE Detach(w)
  BY <1>2, DetachMatched
<1>3. CASE FreeVictim(w)
  BY <1>3, FreeMatched
<1>4. CASE TakeJob(w) \/ Finish(w)
  <2>1. job[w].victim = None
    BY <1>4 DEF TakeJob, Finish, LInv, VictimsAreDetached
  <2>2. \A v \in Workers : job'[v].victim = job[v].victim
    <3>1. CASE TakeJob(w)
      <4>1. job' = [job EXCEPT ![w] = [NoJob EXCEPT !.pc = "token", !.key = Head(queue)]]
        BY <3>1 DEF TakeJob
      <4> QED BY <1>1, <2>1, <4>1 DEF Job
    <3>2. CASE Finish(w)
      <4>1. job' = [job EXCEPT ![w] = Finished(w)]
        BY <3>2 DEF Finish
      <4>2. Finished(w).victim = None
        BY <1>1 DEF Finished, Job
      <4> QED BY <1>1, <2>1, <4>1, <4>2
    <3> QED BY <1>4, <3>1, <3>2
  <2>3. CASE UNCHANGED <<assets, resident>>
    <3>1. UNCHANGED reclaiming
      BY <1>4 DEF TakeJob, Finish, budget
    <3>2. SizesStay
      BY <2>2, <2>3, <3>1 DEF SizesStay, assets
    <3> QED BY <3>2, SizesStayMatched
  <2>4. CASE ~UNCHANGED <<assets, resident>>
    <3>1. Finish(w)
      BY <1>4, <2>4 DEF TakeJob, budget
    <3>2. /\ entry[job[w].key] = None /\ Admit(job[w].key, job[w].total)
          /\ UNCHANGED reclaiming
      BY <2>4, <3>1 DEF Finish
    <3>3. job[w].key \in Keys /\ job[w].total \in Bytes
      BY <1>1, <3>1, MarkedKeys DEF Finish, Active, Job
    <3> QED BY <2>2, <3>2, <3>3, AdmitMatched
  <2> QED BY <2>3, <2>4
<1>5. CASE \/ WorkerExits(w) \/ NewToken(w) \/ OpenFails(w) \/ Opened(w) \/ LockEviction(w)
           \/ Reserve(w) \/ Refused(w) \/ GrowSucceeds(w) \/ GrowFails(w) \/ Decoded(w)
           \/ DecodeFails(w) \/ TooSmall(w) \/ Release(w) \/ DropToken(w)
  <2>1. UNCHANGED <<entry, live, asset, resident, reclaiming>>
    BY <1>5 DEF WorkerExits, NewToken, OpenFails, Opened, LockEviction, Reserve, Refused,
       GrowSucceeds, GrowFails, Decoded, DecodeFails, TooSmall, Release, DropToken, budget, assets
  <2>2. \A v \in Workers : job'[v].victim = job[v].victim
    <3>1. CASE WorkerExits(w) \/ NewToken(w) \/ OpenFails(w) \/ Opened(w) \/ LockEviction(w)
      BY <1>1, <3>1 DEF WorkerExits, NewToken, OpenFails, Opened, LockEviction, Step, Job
    <3>2. CASE Reserve(w) \/ Refused(w) \/ GrowSucceeds(w) \/ GrowFails(w)
      BY <1>1, <3>2 DEF Reserve, Refused, Failed, GrowSucceeds, GrowFails, Job
    <3>3. CASE Decoded(w) \/ DecodeFails(w) \/ Release(w) \/ DropToken(w)
      BY <1>1, <3>3 DEF Decoded, DecodeFails, Release, DropToken, Step, Job
    <3>4. CASE TooSmall(w)
      BY <1>1, <3>4 DEF TooSmall, Job
    <3> QED BY <1>5, <3>1, <3>2, <3>3, <3>4
  <2>3. SizesStay
    BY <2>1, <2>2 DEF SizesStay
  <2> QED BY <2>3, SizesStayMatched
<1> QED BY <1>2, <1>3, <1>4, <1>5 DEF WorkerStep

\* A step of a worker keeps the accounts.
LEMMA WorkerMatches ==
    ASSUME TInv, TInv', Marks, LInv, Emptied, AccountsMatch, NEW w \in Workers, WorkerStep(w)
    PROVE  Emptied' /\ AccountsMatch'
<1>1. /\ \A v \in Workers \ {w} : job'[v] = job[v]
      /\ reserved' = reserved + (job'[w].held - job[w].held)
      /\ job'[w].pc \in {"idle", "drop", "gone"} => job'[w].held = 0
  BY WorkerReserves
<1>2. UNCHANGED file
  BY DEF WorkerStep, TakeJob, WorkerExits, NewToken, OpenFails, Opened, LockEviction, Reserve,
         Detach, FreeVictim, Refused, GrowSucceeds, GrowFails, Decoded, DecodeFails, TooSmall,
         Release, Finish, DropToken
<1>3. Emptied'
  BY <1>1, <1>2 DEF Emptied
<1>4. ReservedMatches'
  BY <1>1, <1>2, AccountsParts, JobReserves
<1>5. ReclaimingMatches' /\ ResidentMatches'
  BY AccountsParts, WorkerSizes
<1>6. AccountsMatch'
  BY <1>4, <1>5 DEF AccountsMatch, ReservedMatches, ReclaimingMatches, ResidentMatches
<1> QED BY <1>3, <1>6

--------------------------------------------------------------------------------
\* The steps of the playbacks

\* What a step of a playback does to its capture and to what is reserved.
LEMMA FileReserved ==
    ASSUME TInv, Emptied, NEW f \in Files, FileStep(f)
    PROVE  /\ \A g \in Files \ {f} : file'[g] = file[g]
           /\ reserved' = reserved + (file'[f].capture.capacity - file[f].capture.capacity)
           /\ ~file'[f].capture.on => file'[f].capture.capacity = 0
<1>1. /\ file \in [Files -> Playback] /\ file[f] \in Playback /\ FileShape(file[f])
      /\ reserved \in Int
      /\ file[f].capture.count \in Int /\ file[f].capture.capacity \in Int
  BY LeaseFacts, PlaybackFacts DEF TInv, TypeOK, Shapes
<1>2. ~file[f].capture.on => file[f].capture.capacity = 0
  BY DEF Emptied
<1>3. file[f].capture \in [on : BOOLEAN, count : Bytes, capacity : Bytes]
  BY <1>1 DEF Playback
<1>4. ASSUME NEW r, Set(f, r), r.capture = file[f].capture, UNCHANGED reserved
      PROVE  /\ \A g \in Files \ {f} : file'[g] = file[g]
             /\ reserved' = reserved + (file'[f].capture.capacity - file[f].capture.capacity)
             /\ ~file'[f].capture.on => file'[f].capture.capacity = 0
  BY <1>1, <1>2, <1>4 DEF Set
<1>5. ASSUME NEW r, Set(f, r), ~r.capture.on, r.capture.capacity = 0,
             reserved' = reserved - file[f].capture.capacity
      PROVE  /\ \A g \in Files \ {f} : file'[g] = file[g]
             /\ reserved' = reserved + (file'[f].capture.capacity - file[f].capture.capacity)
             /\ ~file'[f].capture.on => file'[f].capture.capacity = 0
  BY <1>1, <1>5 DEF Set
<1>6. ASSUME NEW err, NEW pc, Abort(f, err, pc)
      PROVE  /\ \A g \in Files \ {f} : file'[g] = file[g]
             /\ reserved' = reserved + (file'[f].capture.capacity - file[f].capture.capacity)
             /\ ~file'[f].capture.on => file'[f].capture.capacity = 0
  <2> DEFINE r == [file[f] EXCEPT !.pc = pc, !.capture = NoCapture]
  <2>1. r.capture = NoCapture
    BY <1>1 DEF Playback
  <2>2. Set(f, r) /\ reserved' = reserved - file[f].capture.capacity
    BY <1>6 DEF Abort
  <2> HIDE DEF r
  <2> QED BY <1>5, <2>1, <2>2, NoFileFacts
<1>7. CASE (\E k \in Keys : Play(f, k)) \/ PlayFails(f) \/ GiveBack(f)
  <2>1. ~file[f].capture.on /\ UNCHANGED reserved
    BY <1>1, <1>7 DEF Play, PlayFails, GiveBack, FileShape, budget
  <2>2. PICK r : Set(f, r) /\ r.capture = NoCapture
    <3>1. ASSUME NEW k \in Keys, Play(f, k) PROVE \E r : Set(f, r) /\ r.capture = NoCapture
      <4> DEFINE new == [NoFile EXCEPT !.key = k, !.lease = entry[k]]
      <4>1. CASE Set(f, [new EXCEPT !.pc = "cached"])
        <5>1. [new EXCEPT !.pc = "cached"].capture = NoCapture
          BY NoFileFacts DEF Playback
        <5> QED BY <4>1, <5>1
      <4>2. ASSUME NEW pc, NEW loops,
                   Set(f, [new EXCEPT !.pc = pc, !.first = TRUE, !.loops = loops])
            PROVE  \E r : Set(f, r) /\ r.capture = NoCapture
        <5>1. [new EXCEPT !.pc = pc, !.first = TRUE, !.loops = loops].capture = NoCapture
          BY NoFileFacts DEF Playback
        <5> QED BY <4>2, <5>1
      <4>3. \/ Set(f, [new EXCEPT !.pc = "cached"])
            \/ \E pc, loops : Set(f, [new EXCEPT !.pc = pc, !.first = TRUE, !.loops = loops])
        BY <3>1 DEF Play
      <4> HIDE DEF new
      <4> QED BY <4>1, <4>2, <4>3
    <3>2. ASSUME PlayFails(f) \/ GiveBack(f) PROVE \E r : Set(f, r) /\ r.capture = NoCapture
      BY <3>2, NoFileFacts DEF PlayFails, GiveBack
    <3> QED BY <1>7, <3>1, <3>2
  <2>3. reserved' = reserved - file[f].capture.capacity
    BY <1>1, <1>2, <2>1
  <2> QED BY <1>5, <2>2, <2>3, NoFileFacts
<1>8. CASE BeginCapture(f)
  <2> DEFINE c == [NoCapture EXCEPT !.on = Producible(file[f].key)]
             r == [file[f] EXCEPT !.pc = "playing", !.capture = c]
  <2>1. Set(f, r) /\ UNCHANGED reserved /\ file[f].capture.capacity = 0
    BY <1>1, <1>2, <1>8 DEF BeginCapture, FileShape, budget
  <2>2. r.capture = c
    BY <1>1 DEF Playback
  <2>3. c.capacity = 0
    BY DEF NoCapture
  <2> HIDE DEF r, c
  <2> QED BY <1>1, <2>1, <2>2, <2>3 DEF Set
<1>9. CASE Capture(f)
  <2>1. CASE \E err \in {"none", "tooLarge", "budget"} : Abort(f, err, "playing")
    BY <1>6, <2>1
  <2>2. ASSUME NEW n, Set(f, [file[f] EXCEPT !.capture.count = n]), UNCHANGED reserved
        PROVE  /\ \A g \in Files \ {f} : file'[g] = file[g]
               /\ reserved' = reserved + (file'[f].capture.capacity - file[f].capture.capacity)
               /\ ~file'[f].capture.on => file'[f].capture.capacity = 0
    <3>1. /\ file'[f].capture.capacity = file[f].capture.capacity
          /\ file'[f].capture.on = file[f].capture.on
          /\ \A g \in Files \ {f} : file'[g] = file[g]
      BY <1>1, <1>3, <2>2 DEF Set, Playback
    <3> QED BY <1>1, <1>2, <2>2, <3>1
  <2>3. ASSUME NEW doubled \in Int, reserved' = reserved + (doubled - file[f].capture.capacity),
               Set(f, [file[f] EXCEPT !.pc = "growing", !.capture.capacity = doubled])
        PROVE  /\ \A g \in Files \ {f} : file'[g] = file[g]
               /\ reserved' = reserved + (file'[f].capture.capacity - file[f].capture.capacity)
               /\ ~file'[f].capture.on => file'[f].capture.capacity = 0
    <3>1. /\ file'[f].capture.capacity = doubled /\ file'[f].capture.on = file[f].capture.on
          /\ \A g \in Files \ {f} : file'[g] = file[g]
      BY <1>1, <1>3, <2>3 DEF Set, Playback
    <3>2. file[f].capture.on
      BY <1>9 DEF Capture
    <3> QED BY <2>3, <3>1, <3>2
  <2> DEFINE capacity == file[f].capture.capacity
             doubled == IF capacity = 0 THEN 1
                        ELSE IF 2 * capacity > MaxBytes THEN MaxBytes ELSE 2 * capacity
  <2>4. doubled \in Int
    <3> HIDE DEF capacity
    <3>1. capacity \in Int /\ MaxBytes \in Int /\ 2 * capacity \in Int
      BY <1>1, Sizes DEF capacity
    <3> QED BY <3>1
  <2>5. \/ \E err \in {"none", "tooLarge", "budget"} : Abort(f, err, "playing")
        \/ UNCHANGED reserved /\ \E n : Set(f, [file[f] EXCEPT !.capture.count = n])
        \/ /\ reserved' = reserved + (doubled - capacity)
           /\ Set(f, [file[f] EXCEPT !.pc = "growing", !.capture.capacity = doubled])
    BY <1>9 DEF Capture, budget
  <2> HIDE DEF doubled
  <2> QED BY <2>1, <2>2, <2>3, <2>4, <2>5
<1>10. CASE CaptureGrows(f) \/ CaptureShrinks(f)
  <2>1. file[f].capture.on /\ \A g \in Files \ {f} : file'[g] = file[g]
    BY <1>1, <1>10 DEF CaptureGrows, CaptureShrinks, FileShape, Set
  <2>2. file'[f].capture.on = file[f].capture.on
    <3>1. CASE CaptureGrows(f)
      BY <1>1, <1>3, <3>1 DEF CaptureGrows, Set, Playback
    <3>2. CASE CaptureShrinks(f)
      BY <1>1, <1>3, <3>2 DEF CaptureShrinks, Set, Playback
    <3> QED BY <1>10, <3>1, <3>2
  <2>3. CASE CaptureGrows(f)
    <3>1. file'[f].capture.capacity = file[f].capture.capacity /\ UNCHANGED reserved
      BY <1>1, <1>3, <2>3 DEF CaptureGrows, Set, Playback, budget
    <3> QED BY <1>1, <2>1, <2>2, <3>1
  <2>4. CASE CaptureShrinks(f)
    <3>1. /\ file'[f].capture.capacity = file[f].capture.count
          /\ reserved' = reserved - (file[f].capture.capacity - file[f].capture.count)
      BY <1>1, <1>3, <2>4 DEF CaptureShrinks, Set, Playback
    <3> QED BY <1>1, <2>1, <2>2, <3>1
  <2> QED BY <1>10, <2>3, <2>4
<1>11. CASE CaptureAborted(f)
  BY <1>6, <1>11 DEF CaptureAborted
<1>12. CASE FinishCapture(f)
  <2>1. CASE Abort(f, "other", "playing")
    BY <1>6, <2>1
  <2>2. CASE /\ reserved' = reserved - file[f].capture.capacity
             /\ Set(f, [file[f] EXCEPT !.capture = NoCapture])
    <3> DEFINE r == [file[f] EXCEPT !.capture = NoCapture]
    <3>1. r.capture = NoCapture
      BY <1>1 DEF Playback
    <3>2. Set(f, r)
      BY <2>2
    <3> HIDE DEF r
    <3> QED BY <1>5, <2>2, <3>1, <3>2, NoFileFacts
  <2> QED BY <1>12, <2>1, <2>2 DEF FinishCapture
<1>13. CASE Started(f) \/ Restart(f) \/ Reacquire(f) \/ KeepRaw(f) \/ Missed(f)
  <2>1. UNCHANGED reserved
    BY <1>13 DEF Started, Restart, Reacquire, KeepRaw, Missed, budget
  <2>2. PICK r : Set(f, r) /\ r.capture = file[f].capture
    <3>1. ASSUME NEW pc, NEW a
          PROVE  /\ [file[f] EXCEPT !.pc = pc].capture = file[f].capture
                 /\ [file[f] EXCEPT !.pc = pc, !.lease = a].capture = file[f].capture
                 /\ [file[f] EXCEPT !.first = FALSE].capture = file[f].capture
      BY <1>1 DEF Playback
    <3>2. \/ \E pc : Set(f, [file[f] EXCEPT !.pc = pc])
          \/ \E pc, a : Set(f, [file[f] EXCEPT !.pc = pc, !.lease = a])
          \/ Set(f, [file[f] EXCEPT !.first = FALSE])
      <4>1. CASE Started(f)
        BY <4>1 DEF Started
      <4>2. CASE Restart(f) \/ KeepRaw(f) \/ Missed(f)
        BY <4>2 DEF Restart, KeepRaw, Missed, Goto
      <4>3. CASE Reacquire(f)
        <5> DEFINE a == entry[file[f].key]
                   pc == IF a # None THEN "playing" ELSE "missed"
        <5>1. Set(f, [file[f] EXCEPT !.pc = pc, !.lease = a])
          BY <4>3 DEF Reacquire
        <5> HIDE DEF a, pc
        <5> QED BY <5>1
      <4> QED BY <1>13, <4>1, <4>2, <4>3
    <3>3. CASE \E pc : Set(f, [file[f] EXCEPT !.pc = pc])
      <4>1. PICK pc : Set(f, [file[f] EXCEPT !.pc = pc])
        BY <3>3
      <4> QED BY <3>1, <4>1
    <3>4. CASE \E pc, a : Set(f, [file[f] EXCEPT !.pc = pc, !.lease = a])
      <4>1. PICK pc, a : Set(f, [file[f] EXCEPT !.pc = pc, !.lease = a])
        BY <3>4
      <4> DEFINE r == [file[f] EXCEPT !.pc = pc, !.lease = a]
      <4>2. Set(f, r) /\ r.capture = file[f].capture
        BY <3>1, <4>1
      <4> QED BY <4>2
    <3>5. CASE Set(f, [file[f] EXCEPT !.first = FALSE])
      BY <3>1, <3>5
    <3> QED BY <3>2, <3>3, <3>4, <3>5
  <2> QED BY <1>4, <2>1, <2>2
<1>14. CASE CloseFile(f)
  <2>1. CASE file[f].capture.on
    BY <1>6, <1>14, <2>1 DEF CloseFile
  <2>2. CASE ~file[f].capture.on
    <3>1. Set(f, [file[f] EXCEPT !.pc = "closing"]) /\ UNCHANGED reserved
      BY <1>14, <2>2 DEF CloseFile, Goto, budget
    <3>2. [file[f] EXCEPT !.pc = "closing"].capture = file[f].capture
      BY <1>1 DEF Playback
    <3> QED BY <1>4, <3>1, <3>2
  <2> QED BY <2>1, <2>2
<1> QED BY <1>7, <1>8, <1>9, <1>10, <1>11, <1>12, <1>13, <1>14 DEF FileStep

\* A lease and its return leave the sizes of the assets alone, for what is
\* leased is in the cache.  Only FinishCapture admits an asset.
LEMMA FileSizes ==
    ASSUME TInv, TInv', LInv, ReclaimingMatches, ResidentMatches, NEW f \in Files, FileStep(f)
    PROVE  ReclaimingMatches' /\ ResidentMatches'
<1>1. UNCHANGED job
  BY DEF FileStep, Play, PlayFails, BeginCapture, Capture, CaptureGrows, CaptureShrinks,
         CaptureAborted, FinishCapture, Started, Restart, Reacquire, KeepRaw, Missed,
         CloseFile, GiveBack, jobs
<1>2. ASSUME UNCHANGED <<entry, resident, reclaiming>>,
             \A a \in Assets : asset'[a].bytes = asset[a].bytes
      PROVE  ReclaimingMatches' /\ ResidentMatches'
  <2>1. SizesStay
    BY <1>1, <1>2, LeaseFacts DEF SizesStay
  <2> QED BY <2>1, SizesStayMatched
<1>3. ASSUME NEW a \in Assets, Lease(a) PROVE \A b \in Assets : asset'[b].bytes = asset[b].bytes
  <2>1. asset \in [Assets -> AssetRecord] /\ asset[a] \in AssetRecord
    BY LeaseFacts
  <2> QED BY <1>3, <2>1 DEF Lease, AssetRecord
<1>4. ASSUME Unlease(file[f].lease) PROVE \A b \in Assets : asset'[b].bytes = asset[b].bytes
  <2>1. CASE file[f].lease = None
    BY <1>4, <2>1 DEF Unlease
  <2>2. CASE file[f].lease # None
    <3>1. PICK a \in Assets : a = file[f].lease
      BY <2>2, LeaseFacts
    <3>2. asset[a].cached
      BY <2>2, <3>1, LeaseFacts DEF LInv, LeasesAreCached, EntriesAreCached
    <3>3. asset' = [asset EXCEPT ![a].refs = @ - 1]
      BY <1>4, <2>2, <3>1, <3>2 DEF Unlease
    <3>4. asset \in [Assets -> AssetRecord] /\ asset[a] \in AssetRecord
      BY LeaseFacts
    <3> QED BY <3>3, <3>4 DEF AssetRecord
  <2> QED BY <2>1, <2>2
<1>5. CASE (\E k \in Keys : Play(f, k)) \/ Reacquire(f)
  <2>1. UNCHANGED <<entry, resident, reclaiming>>
    BY <1>5 DEF Play, Reacquire, budget
  <2>2. (\E k \in Keys : entry[k] # None /\ Lease(entry[k])) \/ UNCHANGED asset
    <3>1. file[f].pc = "restarting" => file[f].key \in Keys
      BY DEF TInv, Shapes, FileShape
    <3> QED BY <1>5, <3>1 DEF Play, Reacquire
  <2> QED BY <1>2, <1>3, <2>1, <2>2, LeaseFacts
<1>6. CASE Restart(f) \/ GiveBack(f)
  <2>1. UNCHANGED <<entry, resident, reclaiming>>
    BY <1>6 DEF Restart, GiveBack, budget
  <2>2. Unlease(file[f].lease) \/ UNCHANGED asset
    BY <1>6 DEF Restart, GiveBack
  <2> QED BY <1>2, <1>4, <2>1, <2>2
<1>7. CASE FinishCapture(f)
  <2>1. UNCHANGED reclaiming
    BY <1>7 DEF FinishCapture, Abort, budget
  <2>2. CASE UNCHANGED <<assets, resident>>
    BY <1>2, <2>1, <2>2 DEF assets
  <2>3. CASE ~UNCHANGED <<assets, resident>>
    <3>1. entry[file[f].key] = None /\ Admit(file[f].key, file[f].capture.count)
      BY <1>7, <2>3 DEF FinishCapture, Abort
    <3>2. file[f].key \in Keys /\ file[f].capture.count \in Bytes
      <4>1. file[f] \in Playback /\ file[f].pc # "none"
        BY <1>7, LeaseFacts DEF FinishCapture
      <4>2. file[f].capture \in [on : BOOLEAN, count : Bytes, capacity : Bytes]
        BY <4>1 DEF Playback
      <4> QED BY <4>1, <4>2 DEF TInv, Shapes, FileShape
    <3> QED BY <1>1, <2>1, <3>1, <3>2, AdmitMatched
  <2> QED BY <2>2, <2>3
<1>8. CASE \/ PlayFails(f) \/ BeginCapture(f) \/ Capture(f) \/ CaptureGrows(f)
           \/ CaptureShrinks(f) \/ CaptureAborted(f) \/ Started(f) \/ KeepRaw(f)
           \/ Missed(f) \/ CloseFile(f)
  <2>1. UNCHANGED <<entry, asset, resident, reclaiming>>
    BY <1>8 DEF PlayFails, BeginCapture, Capture, CaptureGrows, CaptureShrinks,
       CaptureAborted, Started, KeepRaw, Missed, CloseFile, Abort, assets, budget
  <2> QED BY <1>2, <2>1
<1> QED BY <1>5, <1>6, <1>7, <1>8 DEF FileStep

\* A step of a playback keeps the accounts.
LEMMA FileMatches ==
    ASSUME TInv, TInv', LInv, Emptied, AccountsMatch, NEW f \in Files, FileStep(f)
    PROVE  Emptied' /\ AccountsMatch'
<1>1. /\ \A g \in Files \ {f} : file'[g] = file[g]
      /\ reserved' = reserved + (file'[f].capture.capacity - file[f].capture.capacity)
      /\ ~file'[f].capture.on => file'[f].capture.capacity = 0
  BY FileReserved
<1>2. UNCHANGED job
  BY DEF FileStep, Play, PlayFails, BeginCapture, Capture, CaptureGrows, CaptureShrinks,
         CaptureAborted, FinishCapture, Started, Restart, Reacquire, KeepRaw, Missed,
         CloseFile, GiveBack, jobs
<1>3. Emptied'
  BY <1>1, <1>2 DEF Emptied
<1>4. ReservedMatches'
  BY <1>1, <1>2, AccountsParts, FileReserves
<1>5. ReclaimingMatches' /\ ResidentMatches'
  BY AccountsParts, FileSizes
<1>6. AccountsMatch'
  BY <1>4, <1>5 DEF AccountsMatch, ReservedMatches, ReclaimingMatches, ResidentMatches
<1> QED BY <1>3, <1>6

--------------------------------------------------------------------------------
\* The accounts at all times

\* The end of close empties the account of what is resident with the cache.
LEMMA CloseMatches ==
    ASSUME TInv, TInv', LInv, Emptied, AccountsMatch, CloseEnds
    PROVE  Emptied' /\ AccountsMatch'
<1>1. /\ UNCHANGED <<job, file, reserved, reclaiming>> /\ resident' = 0
      /\ entry' = [k \in Keys |-> None] /\ \A w \in Workers : job[w].pc = "gone"
  BY DEF CloseEnds, AllGone, jobs
<1>2. Emptied' /\ Held' = Held /\ Captured' = Captured
  BY <1>1 DEF Emptied, Held, Captured
<1>3. Reclaimed' = Reclaimed
  BY <1>1 DEF Reclaimed, LInv, VictimsAreDetached
<1>4. \A k \in Keys : Resident'[k] = 0
  BY <1>1 DEF Resident
<1>5. Total(Resident') = 0
  <2>1. PICK g : g = Resident'
    OBVIOUS
  <2>2. g \in [Keys -> Int] /\ IsFiniteSet(Keys) /\ \A k \in Keys : g[k] = 0
    BY <1>4, <2>1, NextSumTypes, FiniteAssumption DEF FiniteAssumption
  <2>3. Total(g) = 0
    BY <2>2, TotalZero
  <2> QED BY <2>1, <2>3
<1>6. AccountsMatch'
  BY <1>1, <1>2, <1>3, <1>5 DEF AccountsMatch
<1> QED BY <1>2, <1>6

\* Initially nobody holds anything.
LEMMA InitMatches == Init => Emptied /\ AccountsMatch
<1> SUFFICES ASSUME Init PROVE Emptied /\ AccountsMatch
  OBVIOUS
<1>1. TInv
  BY InitCInv DEF CInv
<1>2. /\ \A w \in Workers : job[w].held = 0 /\ job[w].victim = None
      /\ \A f \in Files : file[f].capture.capacity = 0
      /\ \A k \in Keys : entry[k] = None
      /\ resident = 0 /\ reserved = 0 /\ reclaiming = 0
  BY NoJobFacts, NoFileFacts DEF Init
<1>3. Total(Held) = 0
  BY <1>1, <1>2, SumTypes, TotalZero, FiniteAssumption DEF FiniteAssumption, Held
<1>4. Total(Captured) = 0
  BY <1>1, <1>2, SumTypes, TotalZero, FilesAssumption DEF FilesAssumption, Captured
<1>5. Total(Reclaimed) = 0
  BY <1>1, <1>2, SumTypes, TotalZero, FiniteAssumption DEF FiniteAssumption, Reclaimed
<1>6. Total(Resident) = 0
  BY <1>1, <1>2, SumTypes, TotalZero, FiniteAssumption DEF FiniteAssumption, Resident
<1> QED BY <1>2, <1>3, <1>4, <1>5, <1>6 DEF Emptied, AccountsMatch

\* Every step keeps the accounts, and leaves nothing counted when the cache is emptied.
LEMMA NextMatches ==
    ASSUME TInv, TInv', Marks, LInv, Emptied, AccountsMatch, [Next]_vars
    PROVE  Emptied' /\ AccountsMatch'
<1>1. CASE \E w \in Workers : WorkerStep(w)
  BY <1>1, WorkerMatches
<1>2. CASE \E f \in Files : FileStep(f)
  BY <1>2, FileMatches
<1>3. CASE CloseEnds
  BY <1>3, CloseMatches
<1>4. CASE Tick \/ CloseBegins \/ UNCHANGED vars
  <2>1. UNCHANGED <<entry, asset, job, file, resident, reserved, reclaiming>>
    BY <1>4 DEF Tick, CloseBegins, vars, assets, jobs, budget
  <2>2. Held' = Held /\ Captured' = Captured /\ Reclaimed' = Reclaimed /\ Resident' = Resident
    BY <2>1 DEF Held, Captured, Reclaimed, Resident
  <2> QED BY <2>1, <2>2 DEF Emptied, AccountsMatch
<1> QED BY <1>1, <1>2, <1>3, <1>4 DEF Next, Done

\* The three counters are exactly what builds and captures hold, what is cached
\* and what is being freed: no path, failing or not, loses bytes or gives them
\* back twice (tryReserve, releaseReservation, detachOneLocked, commitPCMLocked).
THEOREM AccountsAlwaysMatch == Spec => []AccountsMatch
<1>1. Init => Emptied /\ AccountsMatch
  BY InitMatches
<1>2. CInv /\ CInv' /\ LInv /\ Emptied /\ AccountsMatch /\ [Next]_vars
        => Emptied' /\ AccountsMatch'
  BY NextMatches DEF CInv
<1> QED BY <1>1, <1>2, LeaseInvariant, PTL DEF Spec

--------------------------------------------------------------------------------
\* What close leaves

\* The steps of a worker: who has left does nothing, who leaves has no token and
\* not the lock, and nobody is sent back to where a token is registered.
LEMMA WorkerDeparts ==
    ASSUME TInv, Departed, NEW w \in Workers, WorkerStep(w) PROVE Departed'
<1>1. /\ job \in [Workers -> Job] /\ job[w] \in Job /\ NoJob \in Job
      /\ None \notin Workers /\ evictor \in Workers \cup {None} /\ tokens \subseteq Workers
  BY LeaseFacts, NoJobFacts, NoneApart DEF TInv, TypeOK
<1>2. job[w].pc # "gone" /\ ~closed
  BY DEF Departed, AllGone, WorkerStep, TakeJob, WorkerExits, NewToken, OpenFails, Opened,
     LockEviction, Reserve, Detach, FreeVictim, Refused, GrowSucceeds, GrowFails, Decoded,
     DecodeFails, TooSmall, Release, Finish, DropToken
<1>3. UNCHANGED <<closing, closed>>
  BY DEF WorkerStep, TakeJob, WorkerExits, NewToken, OpenFails, Opened, LockEviction, Reserve,
     Detach, FreeVictim, Refused, GrowSucceeds, GrowFails, Decoded, DecodeFails, TooSmall,
     Release, Finish, DropToken, ending
<1>4. ASSUME \A v \in Workers \ {w} : job'[v] = job[v],
             job'[w].pc = "gone" => closing /\ queue = <<>>,
             queue' = queue \/ (job'[w].pc # "gone" /\ queue # <<>>),
             tokens' \subseteq tokens \cup {w},
             w \in tokens' => job'[w].pc \notin {"idle", "token", "gone"},
             \/ evictor' = evictor /\ evictor # w
             \/ evictor' = None
             \/ evictor' = w /\ job'[w].pc \in {"reserve", "freeing"}
      PROVE  Departed'
  <2>1. \A v \in Workers : job'[v].pc = "gone" => closing' /\ queue' = <<>>
    BY <1>3, <1>4 DEF Departed
  <2>2. \A v \in tokens' : job'[v].pc \notin {"idle", "token", "gone"}
    BY <1>1, <1>4 DEF Departed
  <2>3. evictor' # None => job'[evictor'].pc \in {"reserve", "freeing"}
    BY <1>1, <1>4 DEF Departed
  <2> QED BY <1>2, <1>3, <2>1, <2>2, <2>3 DEF Departed
<1>5. evictor = w => job[w].pc \in {"reserve", "freeing"}
  BY <1>1 DEF Departed
<1>6. w \in tokens => job[w].pc \notin {"idle", "token", "gone"}
  BY DEF Departed
<1>7. CASE TakeJob(w)
  <2> DEFINE j == [NoJob EXCEPT !.pc = "token", !.key = Head(queue)]
  <2>1. job' = [job EXCEPT ![w] = j] /\ j.pc = "token"
    BY <1>1, <1>7 DEF TakeJob, Job
  <2>2. /\ UNCHANGED <<tokens, evictor>> /\ queue # <<>> /\ job[w].pc = "idle"
    BY <1>7 DEF TakeJob
  <2> HIDE DEF j
  <2>3. job'[w].pc = "token" /\ \A v \in Workers \ {w} : job'[v] = job[v]
    BY <1>1, <2>1
  <2> QED BY <1>4, <1>5, <1>6, <2>2, <2>3
<1>8. CASE WorkerExits(w)
  <2>1. job'[w].pc = "gone" /\ \A v \in Workers \ {w} : job'[v] = job[v]
    BY <1>1, <1>8 DEF WorkerExits, Step, Job
  <2> QED BY <1>4, <1>5, <1>6, <1>8, <2>1 DEF WorkerExits
<1>9. CASE NewToken(w)
  <2>1. \/ job'[w].pc = "open" /\ tokens' = tokens \cup {w}
        \/ job'[w].pc = "finish" /\ tokens' = tokens
    BY <1>1, <1>9 DEF NewToken, Step, Job
  <2>2. \A v \in Workers \ {w} : job'[v] = job[v]
    BY <1>1, <1>9 DEF NewToken, Step
  <2>3. UNCHANGED <<queue, evictor>> /\ job[w].pc = "token"
    BY <1>9 DEF NewToken
  <2> QED BY <1>4, <1>5, <2>1, <2>2, <2>3
<1>10. CASE LockEviction(w)
  <2>1. job'[w].pc = "reserve" /\ \A v \in Workers \ {w} : job'[v] = job[v]
    BY <1>1, <1>10 DEF LockEviction, Step, Job
  <2>2. evictor' = w /\ UNCHANGED <<queue, tokens>>
    BY <1>10 DEF LockEviction
  <2> QED BY <1>4, <2>1, <2>2
<1>11. CASE Reserve(w) \/ Refused(w)
  <2>1. PICK pc \in {"decode", "grown", "finish", "release"} : job'[w].pc = pc
    <3>1. CASE Reserve(w)
      BY <1>1, <3>1 DEF Reserve, Job
    <3>2. CASE Refused(w)
      BY <1>1, <3>2 DEF Refused, Failed, Job
    <3> QED BY <1>11, <3>1, <3>2
  <2>2. \A v \in Workers \ {w} : job'[v] = job[v]
    BY <1>1, <1>11 DEF Reserve, Refused, Failed
  <2>3. evictor' = None /\ UNCHANGED <<queue, tokens>>
    BY <1>11 DEF Reserve, Refused
  <2> QED BY <1>4, <2>1, <2>2, <2>3
<1>12. CASE Detach(w) \/ FreeVictim(w)
  <2>1. job'[w].pc \in {"reserve", "freeing"}
    <3>1. CASE Detach(w)
      <4>1. PICK a : job' = [job EXCEPT ![w].pc = "freeing", ![w].victim = a]
        BY <3>1 DEF Detach
      <4> QED BY <1>1, <4>1 DEF Job
    <3>2. CASE FreeVictim(w)
      BY <1>1, <3>2 DEF FreeVictim, Job
    <3> QED BY <1>12, <3>1, <3>2
  <2>2. \A v \in Workers \ {w} : job'[v] = job[v]
    BY <1>1, <1>12 DEF Detach, FreeVictim
  <2>3. UNCHANGED <<queue, tokens, evictor>>
    BY <1>12 DEF Detach, FreeVictim
  <2> QED BY <1>4, <2>1, <2>2, <2>3
<1>13. CASE \/ OpenFails(w) \/ Opened(w) \/ GrowSucceeds(w) \/ GrowFails(w) \/ Decoded(w)
            \/ DecodeFails(w) \/ TooSmall(w) \/ Release(w)
  <2>1. job'[w].pc \in {"finish", "lock", "decode", "release"}
    <3>1. CASE OpenFails(w) \/ Opened(w) \/ GrowSucceeds(w) \/ GrowFails(w)
      BY <1>1, <3>1 DEF OpenFails, Opened, GrowSucceeds, GrowFails, Job
    <3>2. CASE Decoded(w) \/ DecodeFails(w) \/ Release(w)
      BY <1>1, <3>2 DEF Decoded, DecodeFails, Release, Job
    <3>3. CASE TooSmall(w)
      BY <1>1, <3>3 DEF TooSmall, Job
    <3> QED BY <1>13, <3>1, <3>2, <3>3
  <2>2. \A v \in Workers \ {w} : job'[v] = job[v]
    BY <1>1, <1>13 DEF OpenFails, Opened, GrowSucceeds, GrowFails, Decoded, DecodeFails,
       TooSmall, Release
  <2>3. UNCHANGED <<queue, tokens, evictor>> /\ job[w].pc \notin {"reserve", "freeing"}
    BY <1>13 DEF OpenFails, Opened, GrowSucceeds, GrowFails, Decoded, DecodeFails,
       TooSmall, Release
  <2> QED BY <1>4, <1>5, <2>1, <2>2, <2>3
<1>14. CASE Finish(w)
  <2>1. job' = [job EXCEPT ![w] = Finished(w)] /\ UNCHANGED <<queue, tokens, evictor>>
        /\ job[w].pc = "finish"
    BY <1>14 DEF Finish
  <2>2. Finished(w).pc = IF w \in tokens THEN "drop" ELSE "idle"
    BY <1>1 DEF Finished, Job
  <2>3. job'[w].pc = Finished(w).pc /\ \A v \in Workers \ {w} : job'[v] = job[v]
    BY <1>1, <2>1
  <2> QED BY <1>4, <1>5, <2>1, <2>2, <2>3
<1>15. CASE DropToken(w)
  <2>1. job'[w].pc = "idle" /\ \A v \in Workers \ {w} : job'[v] = job[v]
    BY <1>1, <1>15 DEF DropToken, Step, Job
  <2>2. /\ tokens' = tokens \ {w} /\ UNCHANGED <<queue, evictor>> /\ job[w].pc = "drop"
    BY <1>15 DEF DropToken
  <2> QED BY <1>4, <1>5, <2>1, <2>2
<1> QED BY <1>7, <1>8, <1>9, <1>10, <1>11, <1>12, <1>13, <1>14, <1>15 DEF WorkerStep

\* No playback is open once close has begun, so nothing is queued any more.
LEMMA FileDeparts ==
    ASSUME TInv, LInv, Departed, NEW f \in Files, FileStep(f) PROVE Departed'
<1>1. ~closing
  <2>1. file[f].pc # "none" \/ \E k \in Keys : Play(f, k)
    BY DEF FileStep, PlayFails, BeginCapture, Capture, CaptureGrows, CaptureShrinks,
       CaptureAborted, FinishCapture, Started, Restart, Reacquire, KeepRaw, Missed,
       CloseFile, GiveBack
  <2> QED BY <2>1 DEF LInv, IdleFiles, Play
<1>2. UNCHANGED <<job, evictor, tokens, closing, closed>>
  BY DEF FileStep, Play, PlayFails, BeginCapture, Capture, CaptureGrows, CaptureShrinks,
     CaptureAborted, FinishCapture, Started, Restart, Reacquire, KeepRaw, Missed,
     CloseFile, GiveBack, jobs, ending
<1>3. ~closed /\ \A w \in Workers : job[w].pc # "gone"
  BY <1>1 DEF Departed
<1> QED BY <1>2, <1>3 DEF Departed

\* Every step keeps Departed: who has left holds nothing, and nobody comes back.
LEMMA NextDeparts == ASSUME TInv, LInv, Departed, [Next]_vars PROVE Departed'
<1>1. CASE \E w \in Workers : WorkerStep(w)
  BY <1>1, WorkerDeparts
<1>2. CASE \E f \in Files : FileStep(f)
  BY <1>2, FileDeparts
<1>3. CASE CloseEnds
  <2>1. live' = {}
    BY <1>3, CloseKeeps
  <2> QED BY <1>3, <2>1 DEF CloseEnds, Departed, AllGone, jobs
<1>4. CASE CloseBegins
  <2>1. UNCHANGED <<job, queue, tokens, evictor, closed, live>> /\ closing' /\ ~closing
    BY <1>4 DEF CloseBegins, jobs, assets
  <2> QED BY <2>1 DEF Departed
<1>5. CASE Tick \/ UNCHANGED vars
  <2>1. UNCHANGED <<job, queue, tokens, evictor, closing, closed, live>>
    BY <1>5 DEF Tick, vars, jobs, assets, ending
  <2> QED BY <2>1 DEF Departed, AllGone
<1> QED BY <1>1, <1>2, <1>3, <1>4, <1>5 DEF Next, Done

\* No worker has left at the start.
LEMMA InitDeparted == Init => Departed
<1> SUFFICES ASSUME Init PROVE Departed
  OBVIOUS
<1>1. \A w \in Workers : job[w].pc = "idle"
  BY NoJobFacts DEF Init
<1> QED BY <1>1 DEF Init, Departed

\* What holds when all workers have left.
LEMMA NothingIsLeft ==
    ASSUME TInv, Marks, LInv, AInv, closed
    PROVE  /\ live = {} /\ Used = 0
           /\ building = {} /\ capturing = {} /\ queue = <<>>
           /\ tokens = {} /\ evictor = None
<1>1. /\ closing /\ live = {} /\ \A w \in Workers : job[w].pc = "gone"
      /\ \A f \in Files : file[f].pc = "none"
  BY DEF AInv, Departed, AllGone, LInv, IdleFiles
<1>2. queue = <<>>
  BY <1>1, FiniteAssumption DEF FiniteAssumption, AInv, Departed
<1>3. tokens = {} /\ evictor = None
  <2>1. tokens \subseteq Workers /\ evictor \in Workers \cup {None}
    BY DEF TInv, TypeOK
  <2> QED BY <1>1, <2>1 DEF AInv, Departed
<1>4. \A f \in Files : ~file[f].capture.on
  BY <1>1 DEF TInv, Shapes, FileShape
<1>5. building = {} /\ capturing = {}
  <2>1. Queued = {} /\ Built = {} /\ Captures = {}
    BY <1>1, <1>2, <1>4 DEF Queued, Built, Active, Captures
  <2> QED BY <2>1 DEF Marks, MarksAreOwned
<1>6. \A w \in Workers : Held[w] = 0 /\ Reclaimed[w] = 0
  BY <1>1 DEF Held, Reclaimed, AInv, Emptied, LInv, VictimsAreDetached
<1>7. \A f \in Files : Captured[f] = 0
  BY <1>4 DEF Captured, AInv, Emptied
<1>8. \A k \in Keys : Resident[k] = 0
  BY <1>1 DEF Resident, LInv, EntriesAreCached
<1>9. /\ Total(Held) = 0 /\ Total(Reclaimed) = 0
      /\ Total(Captured) = 0 /\ Total(Resident) = 0
  BY <1>6, <1>7, <1>8, SumTypes, TotalZero, FilesAssumption, FiniteAssumption
     DEF FilesAssumption, FiniteAssumption
<1>10. Used = 0
  BY <1>9 DEF Used, AInv, AccountsMatch
<1> QED BY <1>1, <1>2, <1>3, <1>5, <1>10

\* The invariant of the accounts and of the end, on top of that of the leases.
THEOREM AccountsInvariant == Spec => [](CInv /\ LInv /\ AInv)
<1>1. Init => AInv
  BY InitMatches, InitDeparted DEF AInv
<1>2. CInv /\ CInv' /\ LInv /\ AInv /\ [Next]_vars => AInv'
  BY NextMatches, NextDeparts DEF CInv, AInv
<1> QED BY <1>1, <1>2, LeaseInvariant, PTL DEF Spec

\* When close has returned no memory is allocated or accounted for, no key is
\* marked, no job is queued, no token is registered and the eviction lock is
\* free, whatever builds, captures and failures came before.
THEOREM CloseLeavesNothing == Spec => []CloseFreesAll
<1>1. CInv /\ LInv /\ AInv => CloseFreesAll
  BY NothingIsLeft DEF CInv, CloseFreesAll
<1> QED BY <1>1, AccountsInvariant, PTL
================================================================================
