------------------------- MODULE RuntimeLifecycleProofs -------------------------
(***************************************************************************)
(* Proofs about RuntimeLifecycle for any number of host threads and any    *)
(* pool of initializer goroutines.  One inductive invariant, LInv, joins   *)
(* the properties TLC checks with two facts about who owns Player.mu and   *)
(* the engine's progress; each theorem then follows from it.               *)
(***************************************************************************)
EXTENDS RuntimeLifecycle, TLAPS

\* Player.mu is kept between two steps only by a thread inside Player.Start.
MutexOwner == mu # None => pc[mu] = "starting"

\* The worker's phase and the engine's progress agree.
EngineProgress ==
    /\ worker \in {"none", "spawned", "done"} => xstage \in {"idle", "initializing_com"}
    /\ worker = "com" => xstage = "initializing_com"
    /\ worker = "up" => xstage = "ready"

LInv ==
    /\ TypeOK
    /\ SingleDriver
    /\ DriverInControl
    /\ TransitionHasDriver
    /\ StatusMatchesPlayer
    /\ StageMatchesStatus
    /\ ErrorOnlyAfterFailure
    /\ MutexOwner
    /\ EngineProgress

\* The invariant holds initially.
LEMMA InitLInv == Init => LInv
<1> SUFFICES ASSUME Init PROVE LInv
  OBVIOUS
<1> USE DEF Init
<1>1. TypeOK
  BY DEF TypeOK, Statuses, Stages, WorkerPhases, XAudioStages
<1>2. SingleDriver /\ DriverInControl /\ TransitionHasDriver
  BY DEF SingleDriver, DriverInControl, DriverKnowsPlayer, TransitionHasDriver, Busy,
         InitSteps, StopSteps
<1>3. StatusMatchesPlayer /\ StageMatchesStatus /\ ErrorOnlyAfterFailure
  BY DEF StatusMatchesPlayer, StageMatchesStatus, ErrorOnlyAfterFailure
<1>4. MutexOwner /\ EngineProgress
  BY DEF MutexOwner, EngineProgress
<1> QED BY <1>1, <1>2, <1>3, <1>4 DEF LInv

--------------------------------------------------------------------------------
\* No step of an initializer goroutine breaks the invariant.
LEMMA InitializerKeepsLInv ==
    ASSUME LInv, NEW i \in Initializers, InitializerStep(i) PROVE LInv'
<1> USE LifecycleAssumption DEF LInv, Actors, Goto, hostView, player,
        TypeOK, Statuses, Stages, WorkerPhases, XAudioStages, InitSteps, StopSteps,
        SingleDriver, DriverInControl, DriverKnowsPlayer, TransitionHasDriver, Busy,
        StatusMatchesPlayer, StageMatchesStatus, ErrorOnlyAfterFailure, MutexOwner,
        EngineProgress, SetInitializationStage, ResetToUninitialized, ReportFailed,
        ReportReady
<1>1. CASE EnterFFmpeg(i)
  BY <1>1 DEF EnterFFmpeg
<1>2. CASE FFmpegFails(i)
  BY <1>2 DEF FFmpegFails
<1>3. CASE FFmpegLoaded(i)
  BY <1>3 DEF FFmpegLoaded
<1>4. CASE StartPlayer(i)
  BY <1>4 DEF StartPlayer
<1>5. CASE PlayerStarted(i)
  BY <1>5 DEF PlayerStarted
<1>6. CASE StartFailed(i)
  BY <1>6 DEF StartFailed
<1>7. CASE FailInitialization(i)
  BY <1>7 DEF FailInitialization
<1>8. CASE FinishInitialization(i)
  <2>1. CASE status = "ShuttingDown"
    BY <1>8, <2>1 DEF FinishInitialization
  <2>2. CASE status # "ShuttingDown"
    <3>1. status = "Initializing"
      BY <1>8, <2>2 DEF FinishInitialization
    <3>2. pc' = [pc EXCEPT ![i] = "idle"] /\ ReportReady /\ UNCHANGED player
      BY <1>8, <2>2 DEF FinishInitialization
    <3>3. running /\ worker = "up" /\ xstage = "ready" /\ pc[i] = "finishing"
      BY <1>8, <2>2 DEF FinishInitialization
    <3>4. \A a \in Actors : pc'[a] = "idle"
      BY <3>2, <3>3
    <3>5. TypeOK' /\ SingleDriver'
      BY <3>2, <3>4
    <3>6. DriverInControl' /\ MutexOwner'
      BY <3>2, <3>3, <3>4
    <3> QED BY <3>2, <3>3, <3>5, <3>6
  <2> QED BY <2>1, <2>2
<1> HIDE DEF LInv
<1> QED BY <1>1, <1>2, <1>3, <1>4, <1>5, <1>6, <1>7, <1>8 DEF InitializerStep

\* No step of Player.Shutdown, whoever runs it, breaks the invariant.
LEMMA StopKeepsLInv ==
    ASSUME LInv, NEW a \in Actors, StopStep(a) PROVE LInv'
<1> USE LifecycleAssumption DEF LInv, Actors, Goto, hostView, player,
        TypeOK, Statuses, Stages, WorkerPhases, XAudioStages, InitSteps, StopSteps,
        SingleDriver, DriverInControl, DriverKnowsPlayer, TransitionHasDriver, Busy,
        StatusMatchesPlayer, StageMatchesStatus, ErrorOnlyAfterFailure, MutexOwner,
        EngineProgress, ResetToUninitialized
<1>1. CASE PlayerShutdown(a)
  BY <1>1 DEF PlayerShutdown
<1>2. CASE WorkerStops(a)
  BY <1>2 DEF WorkerStops
<1>3. CASE PlayerCleared(a)
  BY <1>3 DEF PlayerCleared
<1>4. CASE Settle(a)
  BY <1>4 DEF Settle
<1> HIDE DEF LInv
<1> QED BY <1>1, <1>2, <1>3, <1>4 DEF StopStep

\* No step of the worker thread breaks the invariant: while it creates the
\* engine some thread waits in Player.Start, and while it unwinds some thread
\* waits in Player.Start or Player.Shutdown.
LEMMA WorkerKeepsLInv == ASSUME LInv, WorkerStep PROVE LInv'
<1> USE DEF LInv, Actors, WorkerGoto, hostView,
        TypeOK, Statuses, Stages, WorkerPhases, XAudioStages, InitSteps, StopSteps,
        SingleDriver, DriverInControl, DriverKnowsPlayer, TransitionHasDriver, Busy,
        StatusMatchesPlayer, StageMatchesStatus, ErrorOnlyAfterFailure, MutexOwner,
        EngineProgress
<1>1. CASE InitializeThread
  BY <1>1 DEF InitializeThread
<1>2. CASE ThreadFails
  BY <1>2 DEF ThreadFails
<1>3. CASE CreateEngine
  BY <1>3 DEF CreateEngine
<1>4. CASE CreateMasteringVoice
  BY <1>4 DEF CreateMasteringVoice
<1>5. CASE InitializeX3DAudio
  BY <1>5 DEF InitializeX3DAudio
<1>6. CASE EngineReady
  BY <1>6 DEF EngineReady
<1>7. CASE EngineFails
  BY <1>7 DEF EngineFails
<1>8. CASE Unwind
  BY <1>8 DEF Unwind
<1> HIDE DEF LInv
<1> QED BY <1>1, <1>2, <1>3, <1>4, <1>5, <1>6, <1>7, <1>8 DEF WorkerStep

\* No call of a host thread breaks the invariant.
LEMMA HostKeepsLInv ==
    ASSUME LInv, NEW h \in Hosts, HostCall(h) PROVE LInv'
<1> USE LifecycleAssumption DEF LInv, Actors, Goto, hostView, player,
        TypeOK, Statuses, Stages, WorkerPhases, XAudioStages, InitSteps, StopSteps,
        SingleDriver, DriverInControl, DriverKnowsPlayer, TransitionHasDriver, Busy,
        StatusMatchesPlayer, StageMatchesStatus, ErrorOnlyAfterFailure, MutexOwner,
        EngineProgress
<1>1. ASSUME NEW i \in Initializers, StartInitialize(h, i) PROVE LInv'
  BY <1>1 DEF StartInitialize, MayInitialize
<1>2. CASE Shutdown(h)
  BY <1>2 DEF Shutdown
<1> HIDE DEF LInv
<1> QED BY <1>1, <1>2 DEF HostCall

\* A stuttering step changes nothing the invariant reads.
LEMMA StutterKeepsLInv == ASSUME LInv, UNCHANGED vars PROVE LInv'
BY DEF LInv, vars, TypeOK, SingleDriver, DriverInControl, DriverKnowsPlayer,
       TransitionHasDriver, Busy, StatusMatchesPlayer, StageMatchesStatus,
       ErrorOnlyAfterFailure, MutexOwner, EngineProgress

LEMMA NextKeepsLInv == LInv /\ [Next]_vars => LInv'
BY InitializerKeepsLInv, StopKeepsLInv, WorkerKeepsLInv, HostKeepsLInv, StutterKeepsLInv
   DEF Next

LEMMA Invariance == Spec => []LInv
BY InitLInv, NextKeepsLInv, PTL DEF Spec

--------------------------------------------------------------------------------
\* The variables keep their types in every behaviour of the runtime.
THEOREM TypeCorrect == Spec => []TypeOK
BY Invariance, PTL DEF LInv

\* However many hosts call StartInitialize and Shutdown at once, at most one
\* thread initializes or shuts down, and a transitional status has one that
\* will end it (main.go:146-151,446-455).
THEOREM OneDriver == Spec => []ExactlyOneDriver
BY Invariance, PTL DEF LInv, ExactlyOneDriver

\* The player and the worker are what the driving thread takes them for.
THEOREM DriverKnows == Spec => []DriverInControl
BY Invariance, PTL DEF LInv

\* Ready means a running player with a ready engine; Uninitialized and Failed
\* mean no player and no worker thread.
THEOREM StatusIsTruthful == Spec => []StatusMatchesPlayer
BY Invariance, PTL DEF LInv

\* Nobody in Player.Shutdown waits for a worker that will not answer.
THEOREM ShutdownAnswered == Spec => []ShutdownIsAnswered
<1>1. LInv => ShutdownIsAnswered
  BY DEF LInv, DriverInControl, DriverKnowsPlayer, ShutdownIsAnswered
<1> QED BY <1>1, Invariance, PTL

\* The polled stage belongs to the reported status, an error is reported only
\* after a failure, and no engine stage outlives its worker thread.
THEOREM ReportTruthful == Spec => []ReportIsTruthful
<1>1. LInv => ReportIsTruthful
  BY DEF LInv, EngineProgress, ReportIsTruthful, NoStaleEngineStage
<1> QED BY <1>1, Invariance, PTL

--------------------------------------------------------------------------------
\* Every step of the runtime is a step of the contract or leaves what the
\* contract shows unchanged.
LEMMA StepImplementsContract ==
    ASSUME LInv, [Next]_vars PROVE [Contract!CNext]_(Contract!cvars)
<1> USE DEF LInv, Goto, hostView, player, Contract!cvars
<1>1. CASE UNCHANGED vars
  BY <1>1 DEF vars
<1>2. ASSUME NEW h \in Hosts, HostCall(h) PROVE [Contract!CNext]_(Contract!cvars)
  <2>1. ASSUME NEW i \in Initializers, StartInitialize(h, i) PROVE Contract!Request
    BY <2>1 DEF StartInitialize, MayInitialize, Contract!Request
  <2>2. ASSUME Shutdown(h) PROVE Contract!AskShutdown
    BY <2>2 DEF Shutdown, Contract!AskShutdown
  <2> QED BY <1>2, <2>1, <2>2 DEF HostCall, Contract!CNext
<1>3. ASSUME NEW i \in Initializers, InitializerStep(i)
      PROVE  [Contract!CNext]_(Contract!cvars)
  <2> DriverKnowsPlayer(i)
    BY DEF DriverInControl, Actors
  <2>1. ASSUME EnterFFmpeg(i) \/ FFmpegFails(i) \/ FFmpegLoaded(i) \/ StartPlayer(i)
               \/ StartFailed(i)
        PROVE  UNCHANGED <<status, running>>
    BY <2>1 DEF EnterFFmpeg, FFmpegFails, FFmpegLoaded, StartPlayer, StartFailed
  <2>2. ASSUME PlayerStarted(i) PROVE Contract!BringUp
    BY <2>2 DEF PlayerStarted, DriverKnowsPlayer, InitSteps, Contract!BringUp
  <2>3. ASSUME FailInitialization(i) PROVE Contract!BecomeFailed \/ Contract!EndShutdown
    BY <2>3 DEF FailInitialization, DriverKnowsPlayer, InitSteps, ReportFailed,
                ResetToUninitialized, Contract!BecomeFailed, Contract!EndShutdown
  <2>4. ASSUME FinishInitialization(i)
        PROVE  Contract!BecomeReady \/ UNCHANGED <<status, running>>
    BY <2>4 DEF FinishInitialization, DriverKnowsPlayer, InitSteps, ReportReady,
                Contract!BecomeReady
  <2> QED BY <1>3, <2>1, <2>2, <2>3, <2>4 DEF InitializerStep, Contract!CNext
<1>4. ASSUME NEW a \in Actors, StopStep(a) PROVE [Contract!CNext]_(Contract!cvars)
  <2> DriverKnowsPlayer(a)
    BY DEF DriverInControl
  <2>1. ASSUME PlayerShutdown(a) \/ WorkerStops(a) PROVE UNCHANGED <<status, running>>
    BY <2>1 DEF PlayerShutdown, WorkerStops
  <2>2. ASSUME PlayerCleared(a) PROVE Contract!TakeDown
    BY <2>2 DEF PlayerCleared, DriverKnowsPlayer, StopSteps, Contract!TakeDown
  <2>3. ASSUME Settle(a) PROVE Contract!EndShutdown
    BY <2>3 DEF Settle, DriverKnowsPlayer, StopSteps, ResetToUninitialized,
                Contract!EndShutdown
  <2> QED BY <1>4, <2>1, <2>2, <2>3 DEF StopStep, Contract!CNext
<1>5. CASE WorkerStep
  BY <1>5 DEF WorkerStep, WorkerGoto, InitializeThread, ThreadFails, CreateEngine,
              CreateMasteringVoice, InitializeX3DAudio, EngineReady, EngineFails, Unwind
<1> QED BY <1>1, <1>2, <1>3, <1>4, <1>5 DEF Next

\* The runtime keeps the safety half of the contract with its hosts; that the
\* transitional statuses end is model-checked.
THEOREM Refinement == Spec => ImplementsContractSafety
<1>1. Init => Contract!CInit
  BY DEF Init, Contract!CInit
<1> QED BY <1>1, StepImplementsContract, Invariance, PTL
        DEF Spec, ImplementsContractSafety, Contract!CSafety

\* Once a shutdown is under way only its completion changes the status.
THEOREM ShutdownStaysFinal == Spec => ShutdownIsFinal
<1>1. ASSUME LInv, [Next]_vars
      PROVE  [status = "ShuttingDown" => status' \in {"ShuttingDown", "Uninitialized"}]_status
  <2>1. [Contract!CNext]_(Contract!cvars)
    BY <1>1, StepImplementsContract
  <2> QED BY <2>1 DEF Contract!cvars, Contract!CNext, Contract!Request, Contract!BringUp,
                      Contract!BecomeReady, Contract!BecomeFailed, Contract!AskShutdown,
                      Contract!TakeDown, Contract!EndShutdown
<1> QED BY <1>1, Invariance, PTL DEF Spec, ShutdownIsFinal
================================================================================
