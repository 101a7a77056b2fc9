---------------------------- MODULE RuntimeLifecycle ----------------------------
(***************************************************************************)
(* Initialization and shutdown of the DLL (src/runtime/main.go) together   *)
(* with the part of Player.Start and Player.Shutdown they call             *)
(* (src/internal/player/player.go).  Host threads call StartInitialize and *)
(* Shutdown; StartInitialize spawns an initializer goroutine that loads    *)
(* FFmpeg and starts the player's worker thread, which creates the XAudio2 *)
(* engine (src/internal/xaudio/xaudio.cpp).  Every critical section of     *)
(* runtimeInitialization.mu is one step.  Player.mu is a variable, because *)
(* Player.Start keeps it while it waits for the worker.  A definition      *)
(* marked "mutant" is a plausible bug that a property must notice.         *)
(***************************************************************************)
EXTENDS FiniteSets

CONSTANTS
    Hosts,          \* threads that call the exported functions
    Initializers,   \* goroutines StartInitialize may spawn
    None            \* nobody holds Player.mu

Actors == Hosts \cup Initializers

ASSUME LifecycleAssumption ==
    /\ Hosts \cap Initializers = {}
    /\ None \notin Actors

VARIABLES
    status,     \* runtimeInitialization.status
    stage,      \* runtimeInitialization.stage
    err,        \* runtimeInitialization.err is not empty
    mu,         \* the holder of Player.mu between two steps
    running,    \* Player.running
    worker,     \* the worker thread, from its creation to its last step
    xstage,     \* sa_xaudio_stage, the engine's progress
    pc          \* where each host thread and initializer goroutine is

hostView == <<status, stage, err>>
player == <<mu, running, worker, xstage>>
vars == <<status, stage, err, mu, running, worker, xstage, pc>>

Statuses == {"Uninitialized", "Initializing", "Ready", "Failed", "ShuttingDown"}
Stages == {"uninitialized", "starting", "loading_ffmpeg", "creating_xaudio_engine",
           "ready", "failed", "shutting_down"}
WorkerPhases == {"none", "spawned", "com", "engine", "mastering", "x3d", "up",
                 "unwinding", "done"}
XAudioStages == {"idle", "initializing_com", "creating_xaudio_engine",
                 "creating_mastering_voice", "initializing_x3daudio", "ready"}
InitSteps == {"spawned", "loading", "creating", "starting", "failing", "finishing"}
StopSteps == {"stopping", "awaiting", "clearing", "settling"}

TypeOK ==
    /\ status \in Statuses
    /\ stage \in Stages
    /\ err \in BOOLEAN
    /\ mu \in Actors \cup {None}
    /\ running \in BOOLEAN
    /\ worker \in WorkerPhases
    /\ xstage \in XAudioStages
    /\ pc \in [Actors -> {"idle"} \cup InitSteps \cup StopSteps]

Init ==
    /\ status = "Uninitialized"
    /\ stage = "uninitialized"
    /\ err = FALSE
    /\ mu = None
    /\ running = FALSE
    /\ worker = "none"
    /\ xstage = "idle"
    /\ pc = [a \in Actors |-> "idle"]

Goto(a, from, to) == pc[a] = from /\ pc' = [pc EXCEPT ![a] = to]

--------------------------------------------------------------------------------
\* startInitialize

MayInitializeWhileStopping ==                                          \* mutant
    status \in {"Uninitialized", "Failed", "ShuttingDown"}

MayInitialize == status \in {"Uninitialized", "Failed"}

\* A host's StartInitialize that finds nothing under way spawns an
\* initializer.  In every other status the call changes nothing.
StartInitialize(h, i) ==
    /\ pc[h] = "idle"
    /\ MayInitialize
    /\ status' = "Initializing"
    /\ stage' = "starting"
    /\ err' = FALSE
    /\ Goto(i, "idle", "spawned")
    /\ UNCHANGED player

--------------------------------------------------------------------------------
\* initializeRuntime

SetStageUnguarded(s) == stage' = s                                     \* mutant

StageFromStatus(s) ==                                                  \* mutant
    stage' = IF status = "Initializing" THEN s ELSE status

SetInitializationStage(s) ==
    stage' = IF status = "Initializing" THEN s ELSE stage

EnterFFmpeg(i) ==
    /\ Goto(i, "spawned", "loading")
    /\ SetInitializationStage("loading_ffmpeg")
    /\ UNCHANGED <<status, err, player>>

\* ffmpeg.Initialize returns; it may fail.
FFmpegFails(i) ==
    /\ Goto(i, "loading", "failing")
    /\ UNCHANGED <<hostView, player>>

FFmpegLoaded(i) ==
    /\ Goto(i, "loading", "creating")
    /\ SetInitializationStage("creating_xaudio_engine")
    /\ UNCHANGED <<status, err, player>>

\* Player.Start takes Player.mu and spawns the worker, or finds the player
\* running and returns.
StartPlayer(i) ==
    /\ mu = None
    /\ IF running
       THEN Goto(i, "creating", "finishing") /\ UNCHANGED player
       ELSE /\ Goto(i, "creating", "starting")
            /\ mu' = i
            /\ worker' = "spawned"
            /\ UNCHANGED <<running, xstage>>
    /\ UNCHANGED hostView

\* The worker created its engine and answered nil on "started".
PlayerStarted(i) ==
    /\ Goto(i, "starting", "finishing")
    /\ worker = "up"
    /\ running' = TRUE
    /\ mu' = None
    /\ UNCHANGED <<worker, xstage, hostView>>

\* The worker answered an error; Player.Start also waits until "done" closes.
StartFailed(i) ==
    /\ Goto(i, "starting", "failing")
    /\ worker = "done"
    /\ worker' = "none"
    /\ mu' = None
    /\ UNCHANGED <<running, xstage, hostView>>

--------------------------------------------------------------------------------
\* The worker thread: Player.loop up to its command loop, and after it

WorkerGoto(from, to) ==
    worker = from /\ worker' = to /\ UNCHANGED <<mu, running, hostView, pc>>

InitializeThread ==
    WorkerGoto("spawned", "com") /\ xstage' = "initializing_com"

\* CoInitializeEx fails: nothing is undone, so the stage stays.
ThreadFails == WorkerGoto("com", "done") /\ UNCHANGED xstage

CreateEngine ==
    WorkerGoto("com", "engine") /\ xstage' = "creating_xaudio_engine"

CreateMasteringVoice ==
    WorkerGoto("engine", "mastering") /\ xstage' = "creating_mastering_voice"

InitializeX3DAudio ==
    WorkerGoto("mastering", "x3d") /\ xstage' = "initializing_x3daudio"

EngineReady == WorkerGoto("x3d", "up") /\ xstage' = "ready"

\* A failed step of sa_xaudio_engine_create leaves the stage for the unwinding.
EngineFails ==
    /\ \E from \in {"com", "engine", "mastering", "x3d"} : WorkerGoto(from, "unwinding")
    /\ UNCHANGED xstage

\* The deferred calls: cache, engine, UninitializeThread, close(done).
Unwind == WorkerGoto("unwinding", "done") /\ xstage' = "idle"

WorkerStep ==
    \/ InitializeThread \/ ThreadFails \/ CreateEngine \/ CreateMasteringVoice
    \/ InitializeX3DAudio \/ EngineReady \/ EngineFails \/ Unwind

--------------------------------------------------------------------------------
\* failInitialization and finishInitialization

ResetToUninitialized ==
    /\ status' = "Uninitialized"
    /\ stage' = "uninitialized"
    /\ err' = FALSE

ReportFailed == status' = "Failed" /\ stage' = "failed" /\ err' = TRUE

FailInitialization(i) ==
    /\ Goto(i, "failing", "idle")
    /\ IF status = "ShuttingDown" THEN ResetToUninitialized ELSE ReportFailed
    /\ UNCHANGED player

ReportReady == status' = "Ready" /\ stage' = "ready" /\ err' = FALSE

FinishIgnoringShutdown(i) ==                                           \* mutant
    /\ Goto(i, "finishing", "idle")
    /\ ReportReady
    /\ UNCHANGED player

FinishWithoutPlayerShutdown(i) ==                                      \* mutant
    /\ Goto(i, "finishing", "idle")
    /\ IF status = "ShuttingDown" THEN ResetToUninitialized ELSE ReportReady
    /\ UNCHANGED player

\* A shutdown asked for meanwhile is carried out by the initializer itself.
FinishInitialization(i) ==
    /\ IF status = "ShuttingDown"
       THEN Goto(i, "finishing", "stopping") /\ UNCHANGED hostView
       ELSE Goto(i, "finishing", "idle") /\ ReportReady
    /\ UNCHANGED player

--------------------------------------------------------------------------------
\* SimpleAudioRuntime_Shutdown and Player.Shutdown

ShutdownTwice(h) ==                                                    \* mutant
    /\ IF status = "Initializing" THEN pc[h] = "idle" /\ UNCHANGED pc
                                  ELSE Goto(h, "idle", "stopping")
    /\ status' = "ShuttingDown"
    /\ stage' = "shutting_down"
    /\ UNCHANGED <<err, player>>

\* During initialization the request is only recorded; when a shutdown is
\* under way the call returns at once; otherwise the host performs it.
Shutdown(h) ==
    /\ status # "ShuttingDown"
    /\ IF status = "Initializing" THEN pc[h] = "idle" /\ UNCHANGED pc
                                  ELSE Goto(h, "idle", "stopping")
    /\ status' = "ShuttingDown"
    /\ stage' = "shutting_down"
    /\ UNCHANGED <<err, player>>

\* Player.Shutdown looks at "running" under Player.mu, then sends
\* commandShutdown to the worker after releasing it.
PlayerShutdown(a) ==
    /\ mu = None
    /\ Goto(a, "stopping", IF running THEN "awaiting" ELSE "settling")
    /\ UNCHANGED <<hostView, player>>

\* The worker handles commandShutdown, answers and leaves its loop.  A
\* second commandShutdown would find no worker and wait for ever.
WorkerStops(a) ==
    /\ Goto(a, "awaiting", "clearing")
    /\ worker = "up"
    /\ worker' = "unwinding"
    /\ UNCHANGED <<mu, running, xstage, hostView>>

\* "done" is closed: the closing critical section of Player.Shutdown.
PlayerCleared(a) ==
    /\ mu = None
    /\ worker = "done"
    /\ Goto(a, "clearing", "settling")
    /\ running' = FALSE
    /\ worker' = "none"
    /\ UNCHANGED <<mu, xstage, hostView>>

Settle(a) ==
    /\ Goto(a, "settling", "idle")
    /\ ResetToUninitialized
    /\ UNCHANGED player

--------------------------------------------------------------------------------
InitializerStep(i) ==
    \/ EnterFFmpeg(i) \/ FFmpegFails(i) \/ FFmpegLoaded(i)
    \/ StartPlayer(i) \/ PlayerStarted(i) \/ StartFailed(i)
    \/ FailInitialization(i) \/ FinishInitialization(i)

StopStep(a) == PlayerShutdown(a) \/ WorkerStops(a) \/ PlayerCleared(a) \/ Settle(a)

HostCall(h) == (\E i \in Initializers : StartInitialize(h, i)) \/ Shutdown(h)

Next ==
    \/ \E h \in Hosts : HostCall(h)
    \/ \E i \in Initializers : InitializerStep(i)
    \/ \E a \in Actors : StopStep(a)
    \/ WorkerStep

Spec == Init /\ [][Next]_vars

\* Goroutines and the worker thread are scheduled; a host need not call.
\* Loading FFmpeg and creating the engine return.
Fairness ==
    /\ \A i \in Initializers : WF_vars(InitializerStep(i))
    /\ \A a \in Actors : WF_vars(StopStep(a))
    /\ WF_vars(WorkerStep)

FairSpec == Spec /\ Fairness

--------------------------------------------------------------------------------
\* Properties

Busy(a) == pc[a] # "idle"
Stopping(a) == pc[a] \in StopSteps

\* At most one thread initializes or shuts the runtime down at any time,
\* although hosts call StartInitialize and Shutdown concurrently: this is
\* what keeps Player.Start from running against Player.Shutdown, and two
\* Player.Shutdown calls from waiting on one worker (main.go:146-151,446-455).
SingleDriver == \A a, b \in Actors : Busy(a) /\ Busy(b) => a = b

\* A transitional status always has a thread that will end it: a shutdown
\* recorded during initialization is not lost (main.go:88,108).
TransitionHasDriver ==
    status \in {"Initializing", "ShuttingDown"} => \E a \in Actors : Busy(a)

\* While the status is transitional exactly one thread drives it.
ExactlyOneDriver == SingleDriver /\ TransitionHasDriver

\* Whenever the status is not transitional it tells the truth about the
\* player: Ready with a running player and a ready engine, otherwise no
\* player and no worker thread (main.go:120,96,113,463).
StatusMatchesPlayer ==
    /\ status = "Ready" => running /\ worker = "up" /\ xstage = "ready"
    /\ status \in {"Uninitialized", "Failed"} => ~running /\ worker = "none"

\* A thread in Player.Shutdown waits for a worker that will answer it and
\* then for one that will close "done" (player.go:213-218).
ShutdownIsAnswered ==
    \A a \in Actors : /\ pc[a] = "awaiting" => worker = "up"
                      /\ pc[a] = "clearing" => worker \in {"unwinding", "done"}

\* No engine stage outlives its worker thread, so the next initialization
\* does not report the progress of the last one; only a failed
\* CoInitializeEx leaves its own stage behind (xaudio.cpp:145,158).
NoStaleEngineStage ==
    worker \in {"none", "spawned"} => xstage \in {"idle", "initializing_com"}

\* The stage a host polls never belongs to another status, whatever the
\* initializer was doing when the shutdown was asked for (main.go:80).
StageMatchesStatus ==
    /\ status = "Uninitialized" => stage = "uninitialized"
    /\ status = "Initializing" =>
          stage \in {"starting", "loading_ffmpeg", "creating_xaudio_engine"}
    /\ status = "Ready" => stage = "ready"
    /\ status = "Failed" => stage = "failed"
    /\ status = "ShuttingDown" => stage = "shutting_down"

\* InitializationError is empty unless the last initialization failed; a
\* shutdown after a failure keeps the message until it completes.
ErrorOnlyAfterFailure ==
    /\ status = "Failed" => err
    /\ err => status \in {"Failed", "ShuttingDown"}

\* What a host polls during and after any sequence of attempts is about the
\* current one: stage, error and engine progress (main.go:78-124).
ReportIsTruthful == StageMatchesStatus /\ ErrorOnlyAfterFailure /\ NoStaleEngineStage

\* What every step of the driving thread relies on about the player and the
\* worker thread it finds, although it holds no lock between its steps: for
\* instance Player.Start never finds the player running (player.go:62).
DriverKnowsPlayer(a) ==
    /\ pc[a] \in InitSteps => a \in Initializers /\ status \in {"Initializing", "ShuttingDown"}
    /\ pc[a] \in StopSteps => status = "ShuttingDown"
    /\ pc[a] \in {"spawned", "loading", "creating", "failing", "settling"} =>
          ~running /\ worker = "none"
    /\ pc[a] = "starting" => ~running /\ worker # "none" /\ mu = a
    /\ pc[a] \in {"finishing", "awaiting"} => running /\ worker = "up"
    /\ pc[a] = "stopping" => IF running THEN worker = "up" ELSE worker = "none"
    /\ pc[a] = "clearing" => running /\ worker \in {"unwinding", "done"}

DriverInControl == \A a \in Actors : DriverKnowsPlayer(a)

\* Once a shutdown is under way nothing but its completion changes the
\* status: neither a late success nor a late failure of the initializer.
ShutdownIsFinal ==
    [][status = "ShuttingDown" => status' \in {"ShuttingDown", "Uninitialized"}]_status

\* The runtime implements the contract its hosts rely on, including that no
\* transitional status lasts for ever.
Contract == INSTANCE RuntimeContract WITH up <- running
ImplementsContract == Contract!CSpec
ImplementsContractSafety == Contract!CSafety
================================================================================
