# Verification of the SimpleAudio runtime

The runtime is a Windows DLL (Go with C and C++) that plays audio files for a
game.  The game calls exported functions from any thread; a worker thread
decodes with FFmpeg and plays with XAudio2; build workers cache decoded audio.
This directory holds TLA+ models of it, the TLC runs that check them and TLAPS
proofs.  Each definition is translated from the source lines that
`PROJECT.json` ("map") names for it.

## The system

| part | source | state | operations | interacts with |
|---|---|---|---|---|
| runtime lifecycle | `runtime/main.go` | `runtimeInitialization` (status, error, stage, shutdownRequested) under `runtimeMu` | StartInitialize, the initializing goroutine, Shutdown, status queries | loads FFmpeg, starts and shuts down the player |
| runtime calls | `runtime/main.go` | none | argument checks, error and message copies | player |
| player | `player.go` | running, nextID, active, the two channels under `Player.mu` | Start, Play, SetPosition, Stop, StopAll, IsPlaying, PollEvent, Shutdown | worker, through a command channel (64), an event channel (1024) and one result channel per call |
| worker loop | `worker.go` | activeFiles, engine | one command at a time; on each tick (5 ms): recovery, fades, reclaim, refill passes | files, engine, cache, player maps |
| file playback | `file_playback.go`, `pcm_memory_decoder.go` | buffers, decoder, voice, loop counts, leases, capture | create, fill, restart, close | cache, decoder, voice |
| fade-out | `fade_out.go` | start, duration, gain | start, update | voice volume |
| audio cache | `audio_cache.go`, `cache_budget.go` | entries, usage, marks, byte counters under `mu`; `evictionMu` | acquire, reserve, evict, schedule, prune, close | playback thread and 1 to 4 build workers |
| PCM and raw builds | `pcm_cache.go`, `raw_cache.go` | one job per worker | open, reserve, decode, grow, commit | cache, decoder |
| first-play capture | `pcm_capture.go` | one buffer per capturing playback | begin, append, finish, abort | cache |
| XAudio2 | `xaudio.cpp`, `xaudio.go` | stage, engine, voices, critical error | create, submit, destroy | XAudio2 threads set the error flag |
| FFmpeg | `loader.c`, `decoder.c`, `filter.c`, `raw_cache.c`, `ffmpeg.go` | library handles, decoder and filter graphs, cancel flag | load, open, read, close | file playback, builds |
| Windows glue | `winapi_windows.go`, `memory_windows.go` | none | dialogs, file information, physical memory | none |

What is hard in it:

* **Concurrency.**  Host threads, the initializing goroutine, the worker thread,
  the build workers and XAudio2's threads share four locks, three channels and
  several flags.  Shared state is read under a lock and used after it.
* **Failure.**  Every allocation, every FFmpeg and XAudio2 call may fail in the
  middle of an operation that has reserved, marked or registered something.
* **Ordering.**  Ids are active before their play is sent, events are pushed
  before or after an id is unmarked, voices must go before the engine.
* **Limits.**  Channels, event queue, job queue and memory budget can be full.

`PROJECT.json` ("hazards") lists these at their lines with the properties that
cover them.

## The modules

| module | what it is |
|---|---|
| `RuntimeContract` | what the host relies on: a status, and a player that is up exactly when the status says so |
| `RuntimeLifecycle` | `main.go` and the start and stop of the player, step by step |
| `RuntimeLifecycleProofs` | its TLAPS proofs |
| `PlayerWorker` | clients, channels, the worker loop, the engine's failure and recovery |
| `PlayerWorkerProofs` | its TLAPS proofs |
| `AudioCache` | the cache, its build workers, and the playbacks' use of it |
| `AudioCacheProofs` | its TLAPS proofs: types, budget, marks, tokens |
| `AudioCacheLeaseProofs` | its TLAPS proofs: leases, on top of the others |
| `AudioCacheAccountsProofs` | its TLAPS proofs: the accounts and what close leaves, on top of both |
| `Totals` | the sum of a function's values |
| `TotalsProofs` | what such a sum adds up to, for the proofs of `AudioCache` and `FFmpegDecoder` |
| `DecoderContract` | what one read of a decoder delivers, and when it says that it was the last |
| `RangeContract` | what a listener of one playback is promised |
| `DecodedRange` | one range of one file, and the cache's entry for it |
| `FilePlayback` | one playback, its decoder, its voice and its fade-out, frame by frame |
| `PcmBuild` | one background build, in bytes |
| `PlaybackAndBuild` | the two together, with eviction; refines `RangeContract` |
| `PlaybackProofs` | its TLAPS proofs, the safety half of the refinement included |
| `FFmpegLoader` | the loading of the FFmpeg libraries by several threads |
| `FFmpegDecoder` | a read of a file, plain, filtered, kept raw and replayed; takes in `FFmpegLoader` and keeps `DecoderContract` |
| `FFmpegProofs` | the TLAPS proofs of both |
| `MC*` | instances for TLC: concrete sets and symmetry |

A definition whose comment says **mutant** is no part of a model.  It is a
plausible bug in the definition that follows it, and the property named with it
in `PROJECT.json` must notice when the one replaces the other.

### RuntimeLifecycle

State: the fields of `runtimeInitialization` as `status`, `stage`, `error` and
`shutdownRequested`; the static stage of `xaudio.cpp`; where each initializing
goroutine, each host thread and the worker thread stand.  One step is one
critical section of `runtimeMu` or `Player.mu`, one call into FFmpeg or
XAudio2, or one channel operation.  Every stage of engine creation can fail.
`RuntimeContract` is refined with the mapping stated at the end of the module.

### PlayerWorker

State: `Player`'s fields; a command and an event channel for each successful
Start (an "epoch", because clients keep the channel they read); each client's
call and result; the worker's control point, its files and engine.  A handler
is one step on the worker's own state, and the operations it does on shared
state are queued in `agenda` and done one by one, in program order, so that
clients see each intermediate state.  A `range` over `activeFiles` visits ids in
any order, and the refill pass takes a command between two files.

### AudioCache

State: the fields of `audioCache`; the job of each build worker; the lease and
the capture of each playback.  One step is one critical section of `mu`, or
what happens between two of them; `evictionMu` is the variable `evictor`.
Sizes are counted in decode blocks.  A check of `closing` between two
steps of a build only shortens it (close may follow right after the check), so a
decode that stops early is the step `DecodeFails`.  All playbacks run on the
player's worker goroutine, so `Turn` lets a playback begin an operation only
when no other one is in the middle of one.  `close` starts when all files
are closed, as `handleCommand` closes them before the loop returns.

### FilePlayback, PcmBuild and PlaybackAndBuild

`AudioCache` has builds and captures as jobs with accounts, in blocks, and does not
say what is in them.  These modules have one range and say exactly that.

`FilePlayback` is one playback on the worker: where the worker is in it (`at`), the
fields of `filePlayback` (decoder, framesToDiscard, remainingFrames, loops, buffers,
eof, lease, plays, capture, fade-out), and its voice: the queue of submitted
buffers, each with its first frame, frames, repeats and end-of-stream mark.  One
step is one read with the submission of what it delivers, one submission of cached
PCM, one release.  The voice plays, and the clock of the fade-out runs, between any
two.  `heard` and `left` are a listener: the frames heard of the present play and the
plays that follow it.  A frame that does not continue what was heard sets `heard`
to -1, which the contract does not allow.

`PcmBuild` is `decodePCMAsset` with its estimate, its doubling up to the budget, its
reads and its probe at the limit, in bytes.  `DecodedRange` is what both share.
`PlaybackAndBuild` puts them together: the entry may be made by a capture or a build
and be evicted at any time, and a loop of a playback goes on with the file or with
the cached PCM, whichever there is.

Observed and harmless, kept in the model as they are: `superseded` never holds,
because of `SingleProducer`; the test for nothing to read in `fillTo` never holds,
because the play is over in the read that took its last frame; the buffer of a
build of known length is doubled once more for its last, shorter block although
that would fit.

### FFmpegLoader and FFmpegDecoder

`FFmpegLoader` is `sa_ffmpeg_initialize`: a flag, a table of libraries and functions,
and where each thread is in filling it.  Nothing locks it.  One step is the test of
the flag, one field, or the setting of the flag.  What is missing is missing to all
threads.  That stores become visible in their order is a property of the processor
the DLL is built for (x86-64) and of the compiler's keeping the two stores
around an external call; C itself promises nothing.

`FFmpegDecoder` is one decoder and one call of it at a time: `sa_decoder_next_frame`
and `sa_decoder_read` step by step, the filter graph's pending samples and its
flush, the raw frames with their limit, and their replay.  The cancel token may be set
at any time.  Container, codec, converter and graph are external: the header of the
module says what is assumed of them.  Two of their habits are left out.  The
converter may keep samples of one frame of the codec that did not fit into a
read; the next read begins with them, as the model's `held` does.  A graph that
ends before its input (`atrim`) may refuse frames instead of taking them and
dropping them; then the read fails, which the model also allows at any time.

## The runs

| run | question | bounds |
|---|---|---|
| lifecycle | is there one driver, a truthful status and stage, no lost shutdown, and is `RuntimeContract` kept with its liveness? | 3 host threads, enough for a starter, a stopper and a late caller; a host may call again at any time, so histories are unbounded |
| worker_one_client | for a host that calls from one thread: is every playing file stoppable by its id? | 3 plays, 2 refill passes, 2 events: a nested command in the refill and a full event queue both occur |
| worker_two_clients | what holds when calls race? | 2 clients, 2 plays, 2 starts, queues of one element, so both fill |
| worker_liveness | does every call return until a shutdown begins, and every shutdown? | 2 clients, 1 play, 1 start: liveness needs no symmetry, so the instance is smaller |
| cache_pcm | accounts, marks, leases and shutdown with two build workers | 2 ranges, 2 workers, 2 blocks, a job queue of one, 3 instants with a retention of one: eviction, growth, a full queue, retry and pruning all occur |
| cache_mixed | the same when two playbacks share leases and raw frames compete with PCM | 1 range, 1 raw file, 2 playbacks, 1 worker |
| cache_liveness | does every build end, and does close return? | 1 range, 1 raw file, 1 worker, 2 blocks, so a build grows and a raw build retries; that two workers do not block each other is seen as absence of deadlock in cache_pcm |
| playback | is what is heard the range, as often as asked for, and then the end? | 9 ranges: whole buffers and parts, with and without loops, endless, sought, cut by duration or file end, filtered, empty; buffers and refill of 2, 2 plays in one submission, a budget of 5 frames that one range fills exactly and another exceeds, estimates that are unknown, right or wrong, 2 fade-outs |
| decoder | are reads exact, whatever buffers in between, and do cancelled calls return? | 4 files of up to 3 frames, one of them empty, reads of 1 and 3 samples, a codec that holds back none or one frame, graphs that let pass all or part, a raw limit that one file exceeds; 2 threads in the loader, 2 functions, the last of which may be missing |
| stop_all_race, late_command, empty_loop | the three findings below | |

Symmetry is used in safety runs only.  `CHECK_DEADLOCK FALSE` stands only in
the runs of `PlayerWorker`, of one playback and of one decoder: the system really
stops after the last shutdown (where a late caller hangs, a finding), when the playback
has ended, and when a decoder has failed.  The bounds `MaxPlays`, `MaxEpochs`,
`MaxTime` and `MaxStops` stop counters; all others are capacities of the code made small.

### Fairness

The Go scheduler runs every goroutine that can run, and the operating system
every thread: weak fairness of each goroutine.  A `sync.Mutex` is handed to a
waiter that has waited for a millisecond, so a worker that waits for the
eviction lock gets it although others take it again and again: strong fairness of
`LockEviction`.  Nothing is assumed of hosts or of playbacks: they need not call or
play.  The clock stops at `MaxTime`, so `BuildsEnd` does not speak about a
host that plays, for ever and in step with one eviction, a new range each retention time.

In `PlaybackAndBuild` the worker goes on with its playback, the voice plays what it
has, and time passes.  Nothing is assumed of the build, of eviction or of the host.
In `FFmpegDecoder` the thread of a call runs: reading the container returns, or the
interrupt callback ends it.

### Findings

* `stop_all_race`: the id of a play is active before its command is sent.
  If another thread's StopAll is handled in between, the file plays and is not
  active: IsPlaying denies it and SetPosition refuses it.
* `late_command`: a call that read the command channel before Shutdown cleared
  it sends to a channel that nobody receives from, and never returns.

* `empty_loop`: Play means to refuse a range without frames with "Playback range is
  empty".  If LoopCount is -1, each read of `fillTo` delivers nothing and is the last,
  and `restartOrMarkEOF` restarts: Play does not return, and the worker, which is in it,
  handles no command any more (`file_playback.go:390`).  With a finite LoopCount the
  same range is refused, after as many restarts.

The first two need two host threads.  `worker_one_client` shows that a host with one
thread meets neither the first nor, as its calls follow each other, the second.

## The proofs

`RuntimeLifecycleProofs` proves, for any number of hosts and initializing
goroutines, type correctness, all the safety invariants of the run `lifecycle`,
the action property `ShutdownIsFinal` and the safety half of the refinement.
The invariants are not inductive alone: a truthful status follows only from
where the driving thread stands.  `LInv` therefore adds to them which control points
of driver, worker and engine stage go together; it holds initially, every action
preserves it (one step of the proof per action), and each property follows.

`PlayerWorkerProofs` proves, for any number of clients, plays and starts of the
player and any capacity of its two channels: types (no channel holds more than its
capacity), `OneOutcome`, `ActiveIsAccounted`, `EndedIsInactive`,
`NewestEventIsKept`, `AnswersAreAwaited`, `StoppedIsEmpty` and the action property
`EngineOutlivesVoices`.  Their invariant `WInv` adds who waits for what (`QueueInv`,
`CmdInv`, `ClientInv`: a command that is queued or being handled belongs to one client
that waits, and no two clients have reserved the same id) and what the worker still
owes (`AgendaShape`, `AgendaInv`, `FilesInv`: which agendas there can be, that an end
on the agenda is of a file that is gone, and that a Play without an answer has no
file).  `OneOutcome` needs all of it: an outcome is added only by a step whose id is
open for one reason alone.  The steps are first reduced to their effects, and the
invariant is then shown to survive each effect.

`PlayingIsActive` is false with two host threads (see the violations above), and
`LonePlaysAreActive` proves it for one, its only hypothesis being that any two clients are
the same.  `Lone` adds to `WInv` where an id can be without its mark: a Play that was
refused has no file, a Play that still waits has its id marked, and no file plays while
the worker is about to clear all marks.  The last is where a second thread would break it.

`AudioCacheProofs` proves, for every set of keys, playbacks and workers and every
budget, queue capacity and retention: types, `BudgetKept`, `SingleProducer`,
`MarksAreOwned`, `UsagePresent` and `CloseCancelsBuilds`.  Its invariant `CInv` adds what
a job and a playback hold at each of their steps (`JobShape`, `FileShape`).  With that
the budget needs no sums: a build never decodes more than it holds
(`total <= held`) and a capture never more than its capacity, so a commit can only
lower what is used.  `SingleProducer` and `UsagePresent` hold only together with
`MarksAreOwned`: a mark may be taken off by the one who finishes because nobody else
has it, and a playback begins to capture only a key no mark is on.

`AudioCacheLeaseProofs` proves `LeaseSafe` on top of `CInv`: what a playback reads
from is never evicted or freed, its references are its leases, and no asset is leaked.
`LInv` adds that the asset of a key is allocated and of no other key
(`EntriesAreCached`), that a victim has left the cache and has one worker that frees
it (`VictimsAreDetached`), and that no playback is open while the cache closes
(`IdleFiles`).  An eviction is harmless because references are counted exactly
(`RefsAreLeases`): zero references are no readers, which needs that there are finitely
many playbacks (`FilesAssumption`).

`PlaybackProofs` proves of `PlaybackAndBuild`, for every file, range, number of loops,
buffer, refill and budget: types, `AssetIsRange`, `BuildIsSound`,
`BuffersOutliveVoice`, `EndMarks` and the action property `FadeNeverRises`.  All of
them follow from one invariant, `PInv`, because each needs another: a build commits
the range only if its reads were never cut short by the buffer, which needs
buffer and budget to be whole frames (`BuildBuffer`, from `BudgetAssumption`: the
budget is made of pages and the frame is 2 or 4 bytes); a capture has
the range only if it stands where the decoder of the playback stands
(`CapturePosition`), and it can be committed only if nobody else is making the same
entry (`OneProducer`); what a loop reads from memory is the range only because what
was committed was (`AssetIsRange` again).  `EndMarks` needs that `eof` is set only
after the last play, and `FadeNeverRises` that the gain which the voice was given
last is at least the fade-out's.

It also proves `PlaybackKeepsPromise`: the playback implements the safety half of
`RangeContract` (`ImplementsContractSafety`).  A listener hears the frames of the range in order and without a
gap, as many plays as asked for, across buffers, loops, the change from the file to cached
PCM and every stop, failure or eviction; and a playback says that it has finished only when
all of it was heard.  `HearInv`, on top of `PInv`, is a path: every entry of the voice's queue
begins at a point (frames heard of a play, plays to follow) and ends at the next one's, the
first point is what the listener has heard (`heard`, `left`) and the last is what the
worker has submitted, which its own counters give (`Submitted`: the decoder's place and `loops`
for a stream, `plays` for cached PCM).  A read appends an entry at the far end, the
voice takes from the near one, and the end is reached only when both meet
(`FinishedIsHeard`).  The operators on paths (`LongerPath`, `ShorterPath`, `StreamedOn`,
`RepeatedOn`) are proved apart from any state.

`TotalsProofs` proves what `Total`, the sum of a function over a finite domain, adds up to:
any element can be taken out, a change in one place changes the sum by as much, and a sum over
a sequence grows and shrinks with it.  The sum is a fold of the community modules, that is
a recursive choice, and its value for every finite domain is shown by the least
counterexample: the sizes of the subsets for which a claim fails, if there are any, have a
least one, and the claim holds there.  No theorem with an operator parameter is needed.

`AudioCacheAccountsProofs` proves `AccountsMatch` and `CloseFreesAll`: after every step, with
every failure, `reservedBytes` is what the builds and captures hold, `residentBytes` what is
cached and `reclaimingBytes` what is being freed, and when close has returned nothing is
left.  `AInv` adds to `CInv` and `LInv` that who does nothing holds nothing (`Emptied`: else a
step that ends a job would have to give back more than it knows of) and what is true of
workers that have left (`Departed`: the queue was empty, they hold neither token nor
eviction lock; `close` waits for all of them).  `FiniteAssumption` says that there are
finitely many keys and workers and at least one worker, which `newAudioCache` starts.

`FFmpegProofs` proves `TableIsLoaded`, of the loader alone (`TableStaysLoaded`) and of a decoder
among other threads that load (`DecoderFindsTable`), for any number of threads and functions.
The invariant says why a second thread that writes the table while the first one uses it
is harmless: what a thread has passed is in the table (`Passed`), NULL is stored only for what
is missing, and what is missing is missing to all.  It also proves `TypeOK` and
`ReadsAreExact` of the decoder, for files, filters, delays and buffers of any size: a read
fills the buffer unless the samples run out, and says so exactly then, so that what
`DecoderContract` assumes of a decoder is what this one does.  `DInv` is an account of every
sample (`LeftIsAccounted`): what no read has delivered is in the call's buffer, in an
output frame that did not fit, in the converter or graph, in the frame at hand, in the codec or
in the container; `Stations` and `InputEnds` say which of these are empty at which point of a call,
and `CallGoesOn` that a call ends a decoder only with nothing left.  `DecoderAssumption` has
that a read asks for at least one frame; others are refused (`decoder.c:363`, `raw_cache.c:182`).

The assumptions are the named ASSUMEs of the modules, which TLC checks on each run.

Every invariant and every action property that a run checks is proved.  Only model-checked
are liveness and everything else about fairness, out of the prover's reach: the temporal
properties of the fair specifications and the liveness halves of the two refinements.

## Not modelled

* `copyMessage`, argument checks, file dialogs, file information, the size of the
  budget: no state, one call each.  The short buffer of PollEvent
  (`main.go:418`) takes the event and loses its message; it is one argument of one call.
* The spatial matrix of XAudio2 and the gains of the host: floating-point
  arithmetic.  Of a gain only the part of the fade-out is modelled.
* What the filters of a graph do to the samples.
* The physical moment between giving a reservation back and freeing its memory
  (`pcm_capture.go:143-153`, `pcm_cache.go:123`): the cache's accounts stay within
  the budget, the process may exceed it by the assets being freed.
* That pruning also forgets that a range is too large: it is then tried again, which
  costs time and nothing else.
* A panic in Go and a crash inside XAudio2 or FFmpeg: nothing survives them.

## Plan

Done: lifecycle, player and worker, cache, playback and builds, FFmpeg; the invariants and
action properties of all of them proved, and the safety half of both refinements.  What is
left is proof of what no run states yet:

1. An abstract cache (what is leased stays, what is used stays within the budget) that
   `AudioCache` implements, and one of the player (a play, its outcome, its event) that
   `PlayerWorker` implements.
2. That a read of `FFmpegDecoder` is a step of a reader that `DecodedRange` could use: the
   two meet in `DecoderContract` today by the formula of `ReadsAreExact` only.
