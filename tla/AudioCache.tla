------------------------------- MODULE AudioCache -------------------------------
(***************************************************************************)
(* The audio cache of the player (src/internal/player/audio_cache.go,      *)
(* cache_budget.go, pcm_cache.go, raw_cache.go, pcm_capture.go) and the    *)
(* use file_playback.go makes of it.  The playback thread observes plays,  *)
(* leases cached assets, captures the PCM of a first play and schedules    *)
(* builds; build workers decode assets in the background; all of them      *)
(* share one memory budget, and reserving may evict what nobody uses.      *)
(*                                                                         *)
(* Every critical section of audioCache.mu is one step, and evictionMu is  *)
(* a variable.  Sizes are in decode blocks, time in abstract ticks; what a *)
(* decoder delivers, and every allocation, is nondeterministic.  An asset  *)
(* is an identity with its memory ("live"), so that a use after free or a  *)
(* double free would be seen.  A definition marked "mutant" is a plausible *)
(* bug a property must notice.                                             *)
(***************************************************************************)
EXTENDS Integers, Sequences, FiniteSets, Totals

CONSTANTS
    PcmKeys,    \* pcmCacheKey values: file, channels and range
    RawKeys,    \* files whose decoded frames are cached for filtered playback
    Files,      \* playbacks that exist at the same time
    Workers,    \* build workers
    Assets,     \* identities for assets; enough for every live one
    None,       \* no asset, no worker, no key
    MaxBytes,   \* audioCache.maxBytes, in blocks
    QueueCap,   \* cacheBuildQueueCapacity (64)
    Retention,  \* cacheRetention, in ticks
    MaxTime     \* bound: the last tick of the clock

Keys == PcmKeys \cup RawKeys
Bytes == 0..MaxBytes
Times == 0..MaxTime

ASSUME CacheAssumption ==
    /\ PcmKeys \cap RawKeys = {}
    /\ None \notin Keys \cup Workers \cup Assets \cup Files
    /\ {MaxBytes, QueueCap, Retention, MaxTime} \subseteq Nat \ {0}

\* A player has finitely many files: the references to an asset can be counted.
ASSUME FilesAssumption == IsFiniteSet(Files)

\* newAudioCache starts at least one worker and at most cacheBuildWorkerLimit.  A
\* key is a path of limited length and a few numbers of limited width.
ASSUME FiniteAssumption == IsFiniteSet(Workers) /\ Workers # {} /\ IsFiniteSet(Keys)

VARIABLES
    now,        \* the clock
    entry,      \* entries and rawEntries: the cached asset of a key, or None
    live,       \* assets whose memory is allocated
    asset,      \* byteCount, refs, cached and lastUsed of each asset
    known,      \* the keys with a cacheUsage
    usage,      \* their cacheUsage
    lastPrune,  \* audioCache.lastPrune
    building,   \* building and rawBuilding
    capturing,  \* capturing
    queue,      \* the buildJobs channel
    resident,   \* residentBytes
    reserved,   \* reservedBytes
    reclaiming, \* reclaimingBytes
    evictor,    \* the holder of evictionMu
    tokens,     \* buildCancels: the workers whose token is registered
    cancelled,  \* the workers whose token close has cancelled
    closing,    \* audioCache.closing
    closed,     \* close has returned
    job,        \* what each build worker is doing
    file        \* each playback: its lease, its capture and where it is

assets == <<entry, live, asset>>
usages == <<known, usage, lastPrune>>
budget == <<resident, reserved, reclaiming>>
jobs == <<building, queue, evictor, tokens, job>>
ending == <<closing, closed, cancelled>>
vars == <<now, entry, live, asset, known, usage, lastPrune, building, capturing, queue,
          resident, reserved, reclaiming, evictor, tokens, cancelled, closing, closed, job,
          file>>

NoAsset == [bytes |-> 0, refs |-> 0, cached |-> FALSE, lastUsed |-> 0]
NewUsage == [plays |-> 0, lastPlay |-> 0, retryAfter |-> 0, tooLarge |-> FALSE]
NoJob == [pc |-> "idle", key |-> None, held |-> 0, need |-> 0, total |-> 0,
          err |-> "none", victim |-> None]
NoCapture == [on |-> FALSE, count |-> 0, capacity |-> 0]
NoFile == [pc |-> "none", key |-> None, lease |-> None, capture |-> NoCapture, first |-> FALSE,
           loops |-> FALSE]

AssetRecord == [bytes : Bytes, refs : Int, cached : BOOLEAN, lastUsed : Times]
UsageRecord ==
    [plays : 0..2, lastPlay : Times, retryAfter : 0..MaxTime + Retention, tooLarge : BOOLEAN]

Job ==
    [pc : {"idle", "token", "open", "lock", "reserve", "freeing", "grown", "decode",
           "release", "finish", "drop", "gone"},
     key : Keys \cup {None}, held : Bytes, need : Bytes, total : Bytes,
     err : {"none", "other", "tooLarge", "budget"}, victim : Assets \cup {None}]

Playback ==
    [pc : {"none", "opened", "playing", "growing", "aborting", "cached", "restarting",
           "missed", "closing"},
     key : Keys \cup {None}, lease : Assets \cup {None},
     capture : [on : BOOLEAN, count : Bytes, capacity : Bytes],
     first : BOOLEAN, loops : BOOLEAN]

TypeOK ==
    /\ now \in Times
    /\ entry \in [Keys -> Assets \cup {None}]
    /\ live \subseteq Assets
    /\ asset \in [Assets -> AssetRecord]
    /\ known \subseteq Keys
    /\ usage \in [Keys -> UsageRecord]
    /\ lastPrune \in Times
    /\ building \subseteq Keys
    /\ capturing \subseteq PcmKeys
    /\ queue \in Seq(Keys) /\ Len(queue) <= QueueCap
    /\ resident \in Int /\ reserved \in Int /\ reclaiming \in Int
    /\ evictor \in Workers \cup {None}
    /\ tokens \subseteq Workers /\ cancelled \subseteq Workers
    /\ closing \in BOOLEAN /\ closed \in BOOLEAN
    /\ job \in [Workers -> Job]
    /\ file \in [Files -> Playback]

Init ==
    /\ now = 0
    /\ entry = [k \in Keys |-> None]
    /\ live = {}
    /\ asset = [a \in Assets |-> NoAsset]
    /\ known = {}
    /\ usage = [k \in Keys |-> NewUsage]
    /\ lastPrune = 0
    /\ building = {}
    /\ capturing = {}
    /\ queue = <<>>
    /\ resident = 0 /\ reserved = 0 /\ reclaiming = 0
    /\ evictor = None
    /\ tokens = {} /\ cancelled = {}
    /\ closing = FALSE /\ closed = FALSE
    /\ job = [w \in Workers |-> NoJob]
    /\ file = [f \in Files |-> NoFile]

Tick ==
    /\ now < MaxTime
    /\ now' = now + 1
    /\ UNCHANGED <<assets, usages, capturing, budget, jobs, ending, file>>

--------------------------------------------------------------------------------
\* Budget, eviction and leases

Used == resident + reserved + reclaiming
FitsIgnoringReclaim(bytes) == resident + reserved + bytes <= MaxBytes  \* mutant
Fits(bytes) == Used + bytes <= MaxBytes

\* A key played twice within the retention time keeps its asset.
Wanted(k) == k \in known /\ usage[k].plays >= 2 /\ now - usage[k].lastPlay < Retention

EvictableLeased == {k \in Keys : entry[k] # None /\ ~Wanted(k)}        \* mutant

Evictable == {k \in Keys : entry[k] # None /\ asset[entry[k]].refs = 0 /\ ~Wanted(k)}

\* The least recently used candidate; a raw asset goes before a PCM asset
\* that is as old.
Victims ==
    {k \in Evictable :
        \A j \in Evictable :
            IF k \in PcmKeys /\ j \in RawKeys
            THEN asset[entry[k]].lastUsed < asset[entry[j]].lastUsed
            ELSE asset[entry[k]].lastUsed <= asset[entry[j]].lastUsed}

\* A new asset for k of the given size enters the cache.
Admit(k, bytes) ==
    \E a \in Assets \ live :
        /\ live' = live \cup {a}
        /\ asset' = [asset EXCEPT ![a] = [bytes |-> bytes, refs |-> 0, cached |-> TRUE,
                                          lastUsed |-> now]]
        /\ entry' = [entry EXCEPT ![k] = a]
        /\ resident' = resident + bytes

\* The memory of assets is given back.
Forget(as) ==
    /\ live' = live \ as
    /\ asset' = [a \in Assets |-> IF a \in as THEN NoAsset ELSE asset[a]]

LeaseUncounted(a) == asset' = [asset EXCEPT ![a].lastUsed = now]       \* mutant
Lease(a) == asset' = [asset EXCEPT ![a].refs = @ + 1, ![a].lastUsed = now]

\* The last lease of an asset that has left the cache frees it.
Unlease(a) ==
    IF a = None THEN UNCHANGED <<live, asset>>
    ELSE IF asset[a].refs = 1 /\ ~asset[a].cached THEN Forget({a})
    ELSE asset' = [asset EXCEPT ![a].refs = @ - 1] /\ UNCHANGED live

--------------------------------------------------------------------------------
\* Usage and scheduling

Stale(k) == now - usage[k].lastPlay > Retention

PrunedAnyStale ==                                                      \* mutant
    IF now - lastPrune < Retention THEN {}
    ELSE {k \in known : Stale(k) /\ entry[k] = None}

\* What pruneUsageLocked forgets: old usage of keys nothing is done for.
Pruned ==
    IF now - lastPrune < Retention THEN {}
    ELSE {k \in known : Stale(k) /\ entry[k] = None /\ k \notin building \cup capturing}

\* pruneUsageLocked and observeCacheUsage: k is played.
Observe(k) ==
    LET old == IF k \in known \ Pruned THEN usage[k] ELSE NewUsage
        plays == IF Stale(k) /\ k \in known THEN 1 ELSE IF old.plays = 0 THEN 1 ELSE 2
    IN /\ known' = (known \ Pruned) \cup {k}
       /\ usage' = [j \in Keys |->
                        IF j = k THEN [old EXCEPT !.plays = plays, !.lastPlay = now]
                        ELSE IF j \in Pruned THEN NewUsage ELSE usage[j]]
       /\ lastPrune' = IF now - lastPrune < Retention THEN lastPrune ELSE now

ProducibleDuringCapture(k) ==                                          \* mutant
    /\ k \in known /\ entry[k] = None /\ k \notin building
    /\ ~usage[k].tooLarge /\ now >= usage[k].retryAfter /\ ~closing

\* Nobody produces k and its last failure is old enough.
Producible(k) ==
    /\ k \in known /\ entry[k] = None /\ k \notin building \cup capturing
    /\ ~usage[k].tooLarge /\ now >= usage[k].retryAfter /\ ~closing

Enqueued(k) == building' = building \cup {k} /\ queue' = Append(queue, k)

EnqueueKeepsMark(k) ==                                                 \* mutant
    IF Len(queue) < QueueCap THEN Enqueued(k)
    ELSE building' = building \cup {k} /\ UNCHANGED queue

\* The queue may be full: then the build is left to a later play.
Enqueue(k) ==
    IF Len(queue) < QueueCap THEN Enqueued(k) ELSE UNCHANGED <<building, queue>>

Schedule(k, minimumPlays) ==
    LET raised == k \in known /\ usage[k].plays < minimumPlays
        plays == IF raised THEN minimumPlays ELSE usage[k].plays
    IN /\ usage' = IF raised THEN [usage EXCEPT ![k].plays = plays, ![k].lastPlay = now]
                   ELSE usage
       /\ IF Producible(k) /\ plays >= 2 THEN Enqueue(k) ELSE UNCHANGED <<building, queue>>
       /\ UNCHANGED <<known, lastPrune>>

--------------------------------------------------------------------------------
\* Build workers

Step(w, pc) == job' = [job EXCEPT ![w].pc = pc]

TakeJob(w) ==
    /\ job[w].pc = "idle" /\ queue # <<>>
    /\ job' = [job EXCEPT ![w] = [NoJob EXCEPT !.pc = "token", !.key = Head(queue)]]
    /\ queue' = Tail(queue)
    /\ UNCHANGED <<now, assets, usages, building, capturing, budget, evictor, tokens, ending,
                   file>>

\* The closed channel is drained before its workers leave.
WorkerExits(w) ==
    /\ job[w].pc = "idle" /\ closing /\ queue = <<>>
    /\ Step(w, "gone")
    /\ UNCHANGED <<now, assets, usages, building, capturing, queue, budget, evictor, tokens,
                   ending, file>>

MayRegisterLate == ~closed                                             \* mutant
MayRegister == ~closing

\* The token is registered in the critical section that reads closing.
NewToken(w) ==
    /\ job[w].pc = "token"
    /\ \/ /\ MayRegister
          /\ tokens' = tokens \cup {w}
          /\ Step(w, "open")
       \/ /\ job' = [job EXCEPT ![w].pc = "finish", ![w].err = "other"]
          /\ UNCHANGED tokens
    /\ UNCHANGED <<now, assets, usages, building, capturing, queue, budget, evictor, ending,
                   file>>

\* The decoder does not open, or the range starts behind its end.
OpenFails(w) ==
    /\ job[w].pc = "open"
    /\ job' = [job EXCEPT ![w].pc = "finish", ![w].err = "other"]
    /\ UNCHANGED <<now, assets, usages, building, capturing, queue, budget, evictor, tokens,
                   ending, file>>

\* The first estimate.  Builds look at closing between their steps, and close
\* may come right after they looked.
Opened(w) ==
    /\ job[w].pc = "open"
    /\ \E need \in 1..MaxBytes : job' = [job EXCEPT ![w].pc = "lock", ![w].need = need]
    /\ UNCHANGED <<now, assets, usages, building, capturing, queue, budget, evictor, tokens,
                   ending, file>>

LockEviction(w) ==
    /\ job[w].pc = "lock" /\ evictor = None
    /\ evictor' = w
    /\ Step(w, "reserve")
    /\ UNCHANGED <<now, assets, usages, building, capturing, queue, budget, tokens, ending, file>>

\* A PCM buffer that already holds memory still has to be reallocated.
Reserve(w) ==
    /\ job[w].pc = "reserve" /\ ~closing /\ Fits(job[w].need)
    /\ reserved' = reserved + job[w].need
    /\ job' = [job EXCEPT ![w].held = @ + job[w].need,
                          ![w].pc = IF job[w].held = 0 THEN "decode" ELSE "grown",
                          ![w].need = IF job[w].held = 0 THEN 0 ELSE @]
    /\ evictor' = None
    /\ UNCHANGED <<now, assets, usages, building, capturing, queue, resident, reclaiming, tokens,
                   ending, file>>

Detach(w) ==
    /\ job[w].pc = "reserve" /\ ~closing /\ ~Fits(job[w].need)
    /\ \E k \in Victims :
          LET a == entry[k] IN
          /\ entry' = [entry EXCEPT ![k] = None]
          /\ asset' = [asset EXCEPT ![a].cached = FALSE]
          /\ resident' = resident - asset[a].bytes
          /\ reclaiming' = reclaiming + asset[a].bytes
          /\ job' = [job EXCEPT ![w].pc = "freeing", ![w].victim = a]
    /\ UNCHANGED <<now, live, usages, building, capturing, queue, reserved, evictor, tokens,
                   ending, file>>

FreeVictimUncounted(w) ==                                              \* mutant
    /\ job[w].pc = "freeing"
    /\ Forget({job[w].victim})
    /\ job' = [job EXCEPT ![w].pc = "reserve", ![w].victim = None]
    /\ UNCHANGED <<now, entry, usages, building, capturing, queue, budget, evictor, tokens,
                   ending, file>>

\* Outside the lock; the bytes leave the account once they are free.
FreeVictim(w) ==
    /\ job[w].pc = "freeing"
    /\ Forget({job[w].victim})
    /\ reclaiming' = reclaiming - asset[job[w].victim].bytes
    /\ job' = [job EXCEPT ![w].pc = "reserve", ![w].victim = None]
    /\ UNCHANGED <<now, entry, usages, building, capturing, queue, resident, reserved, evictor,
                   tokens, ending, file>>

Failed(w, err) ==
    job' = [job EXCEPT ![w].err = err, ![w].need = 0,
                       ![w].pc = IF job[w].held = 0 THEN "finish" ELSE "release"]

RefusedKeepsLock(w) ==                                                 \* mutant
    /\ job[w].pc = "reserve"
    /\ closing \/ (~Fits(job[w].need) /\ Victims = {})
    /\ Failed(w, "budget")
    /\ UNCHANGED <<now, assets, usages, building, capturing, queue, budget, evictor, tokens,
                   ending, file>>

Refused(w) ==
    /\ job[w].pc = "reserve"
    /\ closing \/ (~Fits(job[w].need) /\ Victims = {})
    /\ Failed(w, "budget")
    /\ evictor' = None
    /\ UNCHANGED <<now, assets, usages, building, capturing, queue, budget, tokens, ending, file>>

GrowSucceeds(w) ==
    /\ job[w].pc = "grown"
    /\ job' = [job EXCEPT ![w].pc = "decode", ![w].need = 0]
    /\ UNCHANGED <<now, assets, usages, building, capturing, queue, budget, evictor, tokens,
                   ending, file>>

\* A failed realloc gives the growth back, and then the build fails.
GrowFails(w) ==
    /\ job[w].pc = "grown"
    /\ reserved' = reserved - job[w].need
    /\ job' = [job EXCEPT ![w].pc = "release", ![w].held = @ - job[w].need, ![w].need = 0,
                          ![w].err = "other"]
    /\ UNCHANGED <<now, assets, usages, building, capturing, queue, resident, reclaiming, evictor,
                   tokens, ending, file>>

\* The stream ends within what is reserved.
Decoded(w) ==
    /\ job[w].pc = "decode"
    /\ \E total \in 1..job[w].held : job' = [job EXCEPT ![w].pc = "finish", ![w].total = total]
    /\ UNCHANGED <<now, assets, usages, building, capturing, queue, budget, evictor, tokens,
                   ending, file>>

\* The decoder or an allocation fails, or the build is cancelled.  A PCM build
\* gives its buffer back first, a raw one with its result.
DecodeFails(w) ==
    /\ job[w].pc = "decode"
    /\ job' = [job EXCEPT ![w].err = "other",
                          ![w].pc = IF job[w].key \in PcmKeys THEN "release" ELSE "finish"]
    /\ UNCHANGED <<now, assets, usages, building, capturing, queue, budget, evictor, tokens,
                   ending, file>>

\* More is decoded than is reserved.  A PCM buffer doubles; a raw build gives
\* everything back and starts again with twice as much; at the limit of the
\* cache both give up.
TooSmall(w) ==
    /\ job[w].pc = "decode"
    /\ LET held == job[w].held
           twice == IF 2 * held > MaxBytes THEN MaxBytes ELSE 2 * held
           pcm == job[w].key \in PcmKeys
       IN job' = [job EXCEPT ![w] =
             IF held = MaxBytes
             THEN [@ EXCEPT !.err = "tooLarge", !.pc = IF pcm THEN "release" ELSE "finish"]
             ELSE IF pcm THEN [@ EXCEPT !.pc = "lock", !.need = twice - held]
             ELSE [@ EXCEPT !.pc = "release", !.need = twice]]
    /\ UNCHANGED <<now, assets, usages, building, capturing, queue, budget, evictor, tokens,
                   ending, file>>

ReleaseKeepsHeld(w) ==                                                 \* mutant
    /\ job[w].pc = "release"
    /\ reserved' = reserved - job[w].held
    /\ job' = [job EXCEPT ![w].pc = IF job[w].need > 0 THEN "lock" ELSE "finish"]
    /\ UNCHANGED <<now, assets, usages, building, capturing, queue, resident, reclaiming, evictor,
                   tokens, ending, file>>

Release(w) ==
    /\ job[w].pc = "release"
    /\ reserved' = reserved - job[w].held
    /\ job' = [job EXCEPT ![w].held = 0, ![w].pc = IF job[w].need > 0 THEN "lock" ELSE "finish"]
    /\ UNCHANGED <<now, assets, usages, building, capturing, queue, resident, reclaiming, evictor,
                   tokens, ending, file>>

Finished(w) == [NoJob EXCEPT !.pc = IF w \in tokens THEN "drop" ELSE "idle"]

FinishKeepsMark(w) ==                                                  \* mutant
    /\ job[w].pc = "finish"
    /\ reserved' = reserved - job[w].held
    /\ IF job[w].err = "none" /\ ~closing /\ entry[job[w].key] = None
       THEN Admit(job[w].key, job[w].total) /\ UNCHANGED building
       ELSE UNCHANGED <<assets, resident>> /\ building' = building \ {job[w].key}
    /\ job' = [job EXCEPT ![w] = Finished(w)]
    /\ UNCHANGED <<now, usages, capturing, queue, reclaiming, evictor, tokens, ending, file>>

\* One critical section: the key is free again, a finished asset enters the
\* cache unless it is closing or has one, and a failure is remembered.
Finish(w) ==
    LET k == job[w].key
        result == job[w].err = "none" /\ job[w].total > 0
        room == ~closing /\ entry[k] = None
        admitted == result /\ room
    IN /\ job[w].pc = "finish"
       /\ building' = building \ {k}
       /\ reserved' = reserved - job[w].held
       /\ usage' = IF job[w].err = "tooLarge" THEN [usage EXCEPT ![k].tooLarge = TRUE]
                   ELSE IF ~admitted /\ room /\ ~usage[k].tooLarge /\ job[w].err # "budget"
                   THEN [usage EXCEPT ![k].retryAfter = now + Retention]
                   ELSE usage
       /\ IF admitted THEN Admit(k, job[w].total) ELSE UNCHANGED <<assets, resident>>
       /\ job' = [job EXCEPT ![w] = Finished(w)]
       /\ UNCHANGED <<now, known, lastPrune, capturing, queue, reclaiming, evictor, tokens, ending,
                      file>>

DropToken(w) ==
    /\ job[w].pc = "drop"
    /\ tokens' = tokens \ {w}
    /\ cancelled' = cancelled \ {w}
    /\ Step(w, "idle")
    /\ UNCHANGED <<now, assets, usages, building, capturing, queue, budget, evictor, closing,
                   closed, file>>

WorkerStep(w) ==
    \/ TakeJob(w) \/ WorkerExits(w) \/ NewToken(w) \/ OpenFails(w) \/ Opened(w)
    \/ LockEviction(w) \/ Reserve(w) \/ Detach(w) \/ FreeVictim(w) \/ Refused(w)
    \/ GrowSucceeds(w) \/ GrowFails(w) \/ Decoded(w) \/ DecodeFails(w) \/ TooSmall(w)
    \/ Release(w) \/ Finish(w) \/ DropToken(w)

--------------------------------------------------------------------------------
\* Playback: every operation of file_playback.go runs on the player's worker
\* goroutine, one file at a time

Set(f, r) == file' = [file EXCEPT ![f] = r]
Goto(f, pc) == Set(f, [file[f] EXCEPT !.pc = pc])

Turn(f) == \A g \in Files \ {f} : file[g].pc \in {"none", "playing", "cached"} /\ ~file[g].first

\* acquireOrObserve and acquireRawOrObserve: the play is counted, and a cached
\* asset is leased.  Without one the file is opened and streamed.
Play(f, k) ==
    LET hit == entry[k] # None
        new == [NoFile EXCEPT !.key = k, !.lease = entry[k]]
    IN /\ file[f].pc = "none" /\ Turn(f) /\ ~closing
       /\ Observe(k)
       /\ IF hit THEN Lease(entry[k]) ELSE UNCHANGED asset
       /\ IF k \in PcmKeys /\ hit THEN Set(f, [new EXCEPT !.pc = "cached"])
          ELSE \E loops \in BOOLEAN :
                  Set(f, [new EXCEPT !.pc = IF k \in PcmKeys THEN "opened" ELSE "playing",
                                     !.first = TRUE, !.loops = loops])
       /\ UNCHANGED <<now, entry, live, capturing, budget, jobs, ending>>

\* The file does not open, has no voice, or its range is empty.
PlayFails(f) ==
    /\ file[f].pc = "opened"
    /\ Set(f, NoFile)
    /\ UNCHANGED <<now, assets, usages, capturing, budget, jobs, ending>>

BeginCapture(f) ==
    LET k == file[f].key
        capture == [NoCapture EXCEPT !.on = Producible(k)]
    IN /\ file[f].pc = "opened"
       /\ Set(f, [file[f] EXCEPT !.pc = "playing", !.capture = capture])
       /\ capturing' = IF capture.on THEN capturing \cup {k} ELSE capturing
       /\ UNCHANGED <<now, assets, usages, budget, jobs, ending>>

\* abort: what was captured is given up; a failure may put off the next try.
AbortUsage(k, err) ==
    IF err = "none" \/ k \notin known \/ entry[k] # None THEN usage
    ELSE IF err = "tooLarge" THEN [usage EXCEPT ![k].tooLarge = TRUE]
    ELSE IF err = "other" /\ k \notin building
    THEN [usage EXCEPT ![k].retryAfter = now + Retention]
    ELSE usage

Abort(f, err, pc) ==
    LET k == file[f].key IN
    /\ capturing' = capturing \ {k}
    /\ reserved' = reserved - file[f].capture.capacity
    /\ usage' = AbortUsage(k, err)
    /\ Set(f, [file[f] EXCEPT !.pc = pc, !.capture = NoCapture])
    /\ UNCHANGED <<known, lastPrune, resident, reclaiming>>

\* fillTo reads a block while the file is captured.
Capture(f) ==
    LET capture == file[f].capture
        required == capture.count + 1
        doubled == IF capture.capacity = 0 THEN 1
                   ELSE IF 2 * capture.capacity > MaxBytes THEN MaxBytes
                   ELSE 2 * capture.capacity
        growth == doubled - capture.capacity
    IN /\ file[f].pc = "playing" /\ capture.on /\ Turn(f)
       /\ IF closing \/ entry[file[f].key] # None THEN Abort(f, "none", "playing")
          ELSE IF required > MaxBytes THEN Abort(f, "tooLarge", "playing")
          ELSE IF required <= capture.capacity
          THEN /\ Set(f, [file[f] EXCEPT !.capture.count = required])
               /\ UNCHANGED <<capturing, usages, budget>>
          ELSE IF Fits(growth)
          THEN /\ reserved' = reserved + growth
               /\ Set(f, [file[f] EXCEPT !.pc = "growing", !.capture.capacity = doubled])
               /\ UNCHANGED <<capturing, usages, resident, reclaiming>>
          ELSE Abort(f, "budget", "playing")
       /\ UNCHANGED <<now, assets, jobs, ending>>

CaptureGrows(f) ==
    /\ file[f].pc = "growing"
    /\ Set(f, [file[f] EXCEPT !.pc = "playing", !.capture.count = @ + 1])
    /\ UNCHANGED <<now, assets, usages, capturing, budget, jobs, ending>>

\* The realloc fails: the growth is given back before the capture is aborted.
CaptureShrinks(f) ==
    LET growth == file[f].capture.capacity - file[f].capture.count IN
    /\ file[f].pc = "growing"
    /\ reserved' = reserved - growth
    /\ Set(f, [file[f] EXCEPT !.pc = "aborting", !.capture.capacity = file[f].capture.count])
    /\ UNCHANGED <<now, assets, usages, capturing, resident, reclaiming, jobs, ending>>

CaptureAborted(f) ==
    /\ file[f].pc = "aborting"
    /\ Abort(f, "other", "playing")
    /\ UNCHANGED <<now, assets, jobs, ending>>

\* The segment ends: the capture becomes a cached asset, unless it is empty,
\* its last realloc fails, or the key has an asset.
FinishCapture(f) ==
    LET k == file[f].key
        capture == file[f].capture
        room == ~closing /\ entry[k] = None
    IN /\ file[f].pc = "playing" /\ capture.on /\ Turn(f)
       /\ \/ /\ Abort(f, "other", "playing")
             /\ UNCHANGED assets
          \/ /\ capture.count > 0
             /\ capturing' = capturing \ {k}
             /\ reserved' = reserved - capture.capacity
             /\ IF room THEN Admit(k, capture.count) ELSE UNCHANGED <<assets, resident>>
             /\ Set(f, [file[f] EXCEPT !.capture = NoCapture])
             /\ UNCHANGED <<usages, reclaiming>>
       /\ UNCHANGED <<now, jobs, ending>>

\* The first queue is filled and the play succeeds.
Started(f) ==
    /\ file[f].pc = "playing" /\ file[f].first
    /\ Schedule(file[f].key, IF file[f].loops THEN 2 ELSE 0)
    /\ Set(f, [file[f] EXCEPT !.first = FALSE])
    /\ UNCHANGED <<now, assets, capturing, budget, evictor, tokens, job, ending>>

\* restart, at the end of a segment of a looping file.  The PCM lease is given
\* back with its decoder, a raw lease is kept.
Restart(f) ==
    /\ file[f].pc = "playing" /\ file[f].loops /\ ~file[f].capture.on /\ Turn(f)
    /\ IF file[f].key \in PcmKeys
       THEN /\ Unlease(file[f].lease)
            /\ Set(f, [file[f] EXCEPT !.pc = "restarting", !.lease = None])
       ELSE Goto(f, "restarting") /\ UNCHANGED <<live, asset>>
    /\ UNCHANGED <<now, entry, usages, capturing, budget, jobs, ending>>

\* acquirePCM and acquireRaw: a loop keeps its key in use, but counts no play.
Touch(k) == usage' = IF k \in known THEN [usage EXCEPT ![k].lastPlay = now] ELSE usage

Reacquire(f) ==
    LET k == file[f].key IN
    /\ file[f].pc = "restarting" /\ file[f].lease = None
    /\ Touch(k)
    /\ IF entry[k] # None THEN Lease(entry[k]) ELSE UNCHANGED asset
    /\ Set(f, [file[f] EXCEPT !.pc = IF entry[k] # None THEN "playing" ELSE "missed",
                              !.lease = entry[k]])
    /\ UNCHANGED <<now, entry, live, known, lastPrune, capturing, budget, jobs, ending>>

KeepRaw(f) ==
    /\ file[f].pc = "restarting" /\ file[f].lease # None
    /\ Goto(f, "playing")
    /\ UNCHANGED <<now, assets, usages, capturing, budget, jobs, ending>>

Missed(f) ==
    /\ file[f].pc = "missed"
    /\ Schedule(file[f].key, 2)
    /\ Goto(f, "playing")
    /\ UNCHANGED <<now, assets, capturing, budget, evictor, tokens, job, ending>>

\* close: the capture goes first, then voice, decoder and lease.
CloseFile(f) ==
    /\ file[f].pc \in {"playing", "cached"} /\ Turn(f)
    /\ IF file[f].capture.on THEN Abort(f, "none", "closing")
       ELSE Goto(f, "closing") /\ UNCHANGED <<usages, capturing, budget>>
    /\ UNCHANGED <<now, assets, jobs, ending>>

GiveBack(f) ==
    /\ file[f].pc = "closing"
    /\ Unlease(file[f].lease)
    /\ Set(f, NoFile)
    /\ UNCHANGED <<now, entry, usages, capturing, budget, jobs, ending>>

FileStep(f) ==
    \/ \E k \in Keys : Play(f, k)
    \/ PlayFails(f) \/ BeginCapture(f) \/ Capture(f) \/ CaptureGrows(f) \/ CaptureShrinks(f)
    \/ CaptureAborted(f) \/ FinishCapture(f) \/ Started(f) \/ Restart(f) \/ Reacquire(f)
    \/ KeepRaw(f) \/ Missed(f) \/ CloseFile(f) \/ GiveBack(f)

--------------------------------------------------------------------------------
\* Shutdown of the cache, after the last file has been closed

CloseBegins ==
    /\ ~closing /\ \A f \in Files : file[f].pc = "none"
    /\ closing' = TRUE
    /\ cancelled' = tokens
    /\ UNCHANGED <<now, assets, usages, capturing, budget, jobs, closed, file>>

QueueDrained == queue = <<>>                                           \* mutant
AllGone == \A w \in Workers : job[w].pc = "gone"

CloseEnds ==
    /\ closing /\ ~closed /\ AllGone
    /\ entry' = [k \in Keys |-> None]
    /\ Forget({entry[k] : k \in {j \in Keys : entry[j] # None /\ asset[entry[j]].refs = 0}})
    /\ resident' = 0
    /\ closed' = TRUE
    /\ UNCHANGED <<now, usages, capturing, reserved, reclaiming, jobs, closing, cancelled, file>>

Done == closed /\ UNCHANGED vars

Next ==
    \/ Tick
    \/ \E w \in Workers : WorkerStep(w)
    \/ \E f \in Files : FileStep(f)
    \/ CloseBegins \/ CloseEnds \/ Done

Spec == Init /\ [][Next]_vars

\* Go schedules every goroutine, and a sync.Mutex is handed over to a waiter
\* that starves.
Fairness ==
    /\ \A w \in Workers : WF_vars(WorkerStep(w)) /\ SF_vars(LockEviction(w))
    /\ WF_vars(CloseEnds)

FairSpec == Spec /\ Fairness

--------------------------------------------------------------------------------
\* Properties

Held == [w \in Workers |-> job[w].held]
Captured == [f \in Files |-> file[f].capture.capacity]
Reclaimed ==
    [w \in Workers |-> IF job[w].victim = None THEN 0 ELSE asset[job[w].victim].bytes]
Resident == [k \in Keys |-> IF entry[k] = None THEN 0 ELSE asset[entry[k]].bytes]

\* The budget of audioCacheBudget is never exceeded by what the cache accounts
\* for, although captures, builds, commits and evictions reserve, convert and
\* give back at any time (tryReserve, reserveWithEviction, commitPCMLocked).
\* What close leaves is the subject of CloseFreesAll.
BudgetKept == ~closed => Used <= MaxBytes

\* The three counters are exactly what builds and captures hold, what is
\* cached and what is being freed: no failure path loses or returns bytes twice.
AccountsMatch ==
    /\ reserved = Total(Held) + Total(Captured)
    /\ reclaiming = Total(Reclaimed)
    /\ resident = Total(Resident)

\* A key is produced at most once at a time, and not while it is cached: a
\* first-play capture and a background build exclude each other.
SingleProducer ==
    /\ building \cap capturing = {}
    /\ \A k \in building \cup capturing : entry[k] = None

\* A worker or a capture that finishes dereferences the usage of its key
\* without looking (pcm_cache.go:112, raw_cache.go:158): pruning left it.
UsagePresent == building \cup capturing \subseteq known

Active(w) == job[w].pc \notin {"idle", "drop", "gone"}
Queued == {queue[n] : n \in DOMAIN queue}
Built == {job[w].key : w \in {v \in Workers : Active(v)}}
Captures == {f \in Files : file[f].capture.on}

\* No two jobs, no two workers and no two captures are about one key.
OneOwner ==
    /\ \A m, n \in DOMAIN queue : queue[m] = queue[n] => m = n
    /\ \A v, w \in Workers : Active(v) /\ Active(w) /\ job[v].key = job[w].key => v = w
    /\ \A w \in Workers : Active(w) => job[w].key \notin Queued
    /\ \A f, g \in Captures : file[f].key = file[g].key => f = g

\* A mark in building belongs to one queued job or one worker, a mark in
\* capturing to one playback: a mark nobody owns would keep the key from ever
\* being cached, one with two owners would be taken off too early.
MarksAreOwned ==
    /\ building = Queued \cup Built
    /\ capturing = {file[f].key : f \in Captures}
    /\ OneOwner

\* What a playback reads from is allocated and still cached, its references
\* are exactly its leases, and nothing is allocated that is neither cached nor
\* on its way to be freed.
LeaseSafe ==
    /\ \A f \in Files : file[f].lease # None =>
          file[f].lease \in live /\ entry[file[f].key] = file[f].lease
    /\ \A a \in Assets : asset[a].refs = Cardinality({f \in Files : file[f].lease = a})
    /\ \A a \in live : \/ \E k \in Keys : entry[k] = a /\ asset[a].cached
                       \/ \E w \in Workers : job[w].victim = a /\ ~asset[a].cached

\* A build that close does not cancel would keep Shutdown waiting for a whole
\* decode: a token is registered before close walks the tokens, or not at all.
CloseCancelsBuilds == closing => tokens \subseteq cancelled

\* After close nothing is left: no memory, no reservation, no job, no worker.
CloseFreesAll ==
    closed => /\ live = {} /\ Used = 0
              /\ building = {} /\ capturing = {} /\ queue = <<>>
              /\ tokens = {} /\ evictor = None

\* The worker goroutine of the player waits in close for all build workers:
\* they always leave, whatever they were doing.
CloseReturns == closing ~> closed

\* A scheduled build comes to an end, with an asset or without.
BuildsEnd == \A k \in Keys : k \in building ~> k \notin building
================================================================================
