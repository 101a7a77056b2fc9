------------------------------ MODULE PlayerWorker ------------------------------
(***************************************************************************)
(* The player (src/internal/player/player.go) and its worker thread        *)
(* (worker.go).  Client threads reserve play ids under Player.mu, send     *)
(* commands through a bounded channel and wait for the answer; the worker  *)
(* owns the playing files and the engine, handles one command at a time,   *)
(* maintains the files on every tick, and reports their ends in a bounded  *)
(* event queue that clients poll.                                          *)
(*                                                                         *)
(* Every critical section of Player.mu and every channel operation is one  *)
(* step.  A handler of the worker is one step on the worker's own state;   *)
(* the operations on shared state it performs, in program order, are left  *)
(* in "agenda" and done one per step, so clients interleave with them.     *)
(* What a file does (decode, fade, end, fail) is nondeterministic.  A      *)
(* definition marked "mutant" is a plausible bug a property must notice.   *)
(***************************************************************************)
EXTENDS Integers, Sequences, FiniteSets

CONSTANTS
    Clients,        \* threads that call the exported functions
    MaxPlays,       \* bound: play ids reserved in one behaviour
    MaxEpochs,      \* bound: successful calls of Player.Start
    CommandCap,     \* capacity of the command channel (64)
    EventCap,       \* capacity of the event channel (1024)
    Targets,        \* targetQueuedBuffers (3)
    Nobody          \* no client

ASSUME PlayerAssumption ==
    /\ {MaxPlays, MaxEpochs, CommandCap, EventCap, Targets} \subseteq Nat \ {0}
    /\ Nobody \notin Clients

PlayIDs == 1..MaxPlays
Epochs == 1..MaxEpochs

VARIABLES
    running,    \* Player.running
    nextID,     \* Player.nextID
    active,     \* Player.active
    epoch,      \* which Start created the player's current channels
    commands,   \* the command channel of each epoch
    events,     \* the event channel of each epoch
    call,       \* what each client is doing
    reply,      \* each client's result channel
    at,         \* where the worker is
    back,       \* where processCommand returns to: "head" or "refill"
    cmd,        \* the command being processed, or NoCommand during a tick
    visit,      \* the ids a range over activeFiles has still to visit
    target,     \* the refill pass
    agenda,     \* operations on shared state the worker has still to do
    files,      \* activeFiles
    fading,     \* the files with a fade-out
    engine,     \* "ok", "critical" (flag set by an XAudio2 thread) or "none"
    outcomes    \* history: how many outcomes each play id has had

shared == <<running, nextID, active, epoch>>
client == <<call, reply>>
control == <<at, back, cmd, visit, target>>
voices == <<files, fading, engine>>
vars == <<running, nextID, active, epoch, commands, events, call, reply, at, back, cmd,
          visit, target, agenda, files, fading, engine, outcomes>>

Kinds == {"Play", "SetPosition", "Stop", "StopAll", "Shutdown"}
Command(kind, id, fade, c) == [kind |-> kind, id |-> id, fade |-> fade, from |-> c]
NoCommand == Command("none", 0, FALSE, Nobody)
IsCommand(x) ==
    x = NoCommand \/ x \in [kind : Kinds, id : 0..MaxPlays, fade : BOOLEAN, from : Clients]

EventTypes == {"Finished", "Stopped", "Error"}
Event(type, id) == [type |-> type, id |-> id]
Events == [type : EventTypes, id : PlayIDs]

\* The operations on shared state.
Op(op, id, arg) == [op |-> op, id |-> id, arg |-> arg]
Unmark(id) == Op("unmark", id, "")
Clear == Op("clear", 0, "")
Push(type, id) == Op("push", id, type)
Reply(result) == Op("reply", 0, result)
OpIDs == {agenda[n].id : n \in DOMAIN agenda}

IdleCall == [pc |-> "idle", cmd |-> NoCommand, epoch |-> 0]

TypeOK ==
    /\ running \in BOOLEAN
    /\ nextID \in 1..MaxPlays + 1
    /\ active \subseteq PlayIDs
    /\ epoch \in 0..MaxEpochs
    /\ \A e \in Epochs :
          /\ Len(commands[e]) <= CommandCap
          /\ \A n \in DOMAIN commands[e] : IsCommand(commands[e][n])
          /\ Len(events[e]) <= EventCap
          /\ \A n \in DOMAIN events[e] : events[e][n] \in Events
    /\ \A c \in Clients :
          /\ call[c].pc \in {"idle", "send", "wait", "unmark", "done", "clear", "poll"}
          /\ IsCommand(call[c].cmd)
          /\ call[c].epoch \in 0..MaxEpochs
          /\ reply[c] \in {"none", "ok", "failed"}
    /\ at \in {"down", "head", "check", "recover", "handle", "fade", "reclaim",
               "refill", "poll", "exit"}
    /\ back \in {"head", "refill"}
    /\ IsCommand(cmd)
    /\ visit \subseteq PlayIDs
    /\ target \in 1..Targets
    /\ files \subseteq PlayIDs
    /\ fading \subseteq files
    /\ engine \in {"ok", "critical", "none"}
    /\ outcomes \in [PlayIDs -> 0..1]

Init ==
    /\ running = FALSE
    /\ nextID = 1
    /\ active = {}
    /\ epoch = 0
    /\ commands = [e \in Epochs |-> <<>>]
    /\ events = [e \in Epochs |-> <<>>]
    /\ call = [c \in Clients |-> IdleCall]
    /\ reply = [c \in Clients |-> "none"]
    /\ at = "down"
    /\ back = "head"
    /\ cmd = NoCommand
    /\ visit = {}
    /\ target = 1
    /\ agenda = <<>>
    /\ files = {}
    /\ fading = {}
    /\ engine = "none"
    /\ outcomes = [id \in PlayIDs |-> 0]

--------------------------------------------------------------------------------
\* Player.Start and Player.Shutdown.  The runtime never runs two of them at
\* once (RuntimeLifecycle, SingleDriver).

InShutdown(c) == call[c].cmd.kind = "Shutdown"

\* A successful Start; Player.mu is held from the first check to the return.
Start ==
    /\ ~running
    /\ \A c \in Clients : ~InShutdown(c)
    /\ epoch < MaxEpochs
    /\ epoch' = epoch + 1
    /\ running' = TRUE
    /\ active' = {}
    /\ at' = "head"
    /\ engine' = "ok"
    /\ UNCHANGED <<nextID, commands, events, client, back, cmd, visit, target, agenda,
                   files, fading, outcomes>>

\* A client holding the command channel goes on to send c's command.
Submit(c, command) ==
    /\ call[c].pc = "idle"
    /\ running
    /\ call' = [call EXCEPT ![c] = [pc |-> "send", cmd |-> command, epoch |-> epoch]]
    /\ UNCHANGED <<running, epoch, commands, events, reply, control, agenda, voices, outcomes>>

Shutdown(c) ==
    /\ \A d \in Clients : ~InShutdown(d)
    /\ Submit(c, Command("Shutdown", 0, FALSE, c))
    /\ UNCHANGED <<nextID, active>>

ShutdownDoesNotWait(c) ==                                              \* mutant
    /\ call[c].pc = "done"
    /\ call' = [call EXCEPT ![c].pc = "clear"]
    /\ UNCHANGED <<shared, commands, events, reply, control, agenda, voices, outcomes>>

\* <-done: the worker thread has ended.
ShutdownDone(c) ==
    /\ call[c].pc = "done"
    /\ at = "down"
    /\ call' = [call EXCEPT ![c].pc = "clear"]
    /\ UNCHANGED <<shared, commands, events, reply, control, agenda, voices, outcomes>>

ShutdownClear(c) ==
    /\ call[c].pc = "clear"
    /\ running' = FALSE
    /\ active' = {}
    /\ call' = [call EXCEPT ![c] = IdleCall]
    /\ UNCHANGED <<nextID, epoch, commands, events, reply, control, agenda, voices, outcomes>>

--------------------------------------------------------------------------------
\* Play, Stop, SetPosition, StopAll and PollEvent.  Calls that return at once
\* because the player is not running or the play is not active change nothing.

\* reservePlayID makes the id active before its command is sent.
Play(c) ==
    /\ nextID \in PlayIDs
    /\ active' = active \cup {nextID}
    /\ nextID' = nextID + 1
    /\ Submit(c, Command("Play", nextID, FALSE, c))

Stop(c, id, fade) ==
    /\ id \in active
    /\ Submit(c, Command("Stop", id, fade, c))
    /\ UNCHANGED <<nextID, active>>

SetPosition(c, id) ==
    /\ id \in active
    /\ Submit(c, Command("SetPosition", id, FALSE, c))
    /\ UNCHANGED <<nextID, active>>

StopAll(c, fade) ==
    /\ Submit(c, Command("StopAll", 0, fade, c))
    /\ UNCHANGED <<nextID, active>>

\* commands <- command, on the channel the client read under Player.mu.
Send(c) ==
    /\ call[c].pc = "send"
    /\ Len(commands[call[c].epoch]) < CommandCap
    /\ commands' = [commands EXCEPT ![call[c].epoch] = Append(@, call[c].cmd)]
    /\ call' = [call EXCEPT ![c].pc = "wait"]
    /\ UNCHANGED <<shared, events, reply, control, agenda, voices, outcomes>>

AnswerKeepsRefused(c) ==                                               \* mutant
    IF call[c].cmd.kind = "Shutdown" THEN [call[c] EXCEPT !.pc = "done"] ELSE IdleCall

\* What a client does with its answer: a refused Play unmarks its id, Shutdown
\* waits for the worker's end, everything else returns.
AfterAnswer(c) ==
    IF call[c].cmd.kind = "Play" /\ reply[c] = "failed"
      THEN [call[c] EXCEPT !.pc = "unmark"]
    ELSE IF call[c].cmd.kind = "Shutdown"
      THEN [call[c] EXCEPT !.pc = "done"]
    ELSE IdleCall

Answered(c) ==
    /\ call[c].pc = "wait"
    /\ reply[c] # "none"
    /\ call' = [call EXCEPT ![c] = AfterAnswer(c)]
    /\ reply' = [reply EXCEPT ![c] = "none"]
    /\ UNCHANGED <<shared, commands, events, control, agenda, voices, outcomes>>

UnmarkRefused(c) ==
    /\ call[c].pc = "unmark"
    /\ active' = active \ {call[c].cmd.id}
    /\ call' = [call EXCEPT ![c] = IdleCall]
    /\ UNCHANGED <<running, nextID, epoch, commands, events, reply, control, agenda, voices, outcomes>>

\* PollEvent reads the queue under Player.mu and receives after releasing it.
PollEvent(c) ==
    /\ call[c].pc = "idle"
    /\ running
    /\ call' = [call EXCEPT ![c].pc = "poll", ![c].epoch = epoch]
    /\ UNCHANGED <<shared, commands, events, reply, control, agenda, voices, outcomes>>

PollReceive(c) ==
    /\ call[c].pc = "poll"
    /\ events' = [events EXCEPT ![call[c].epoch] = IF @ = <<>> THEN @ ELSE Tail(@)]
    /\ call' = [call EXCEPT ![c] = IdleCall]
    /\ UNCHANGED <<shared, commands, reply, control, agenda, voices, outcomes>>

ClientCall(c) ==
    \/ Play(c) \/ PollEvent(c) \/ Shutdown(c)
    \/ \E id \in PlayIDs : SetPosition(c, id) \/ \E fade \in BOOLEAN : Stop(c, id, fade)
    \/ \E fade \in BOOLEAN : StopAll(c, fade)

ClientStep(c) ==
    \/ Send(c) \/ Answered(c) \/ UnmarkRefused(c) \/ PollReceive(c)
    \/ ShutdownDone(c) \/ ShutdownClear(c)

--------------------------------------------------------------------------------
\* Operations on shared state: unmarkActive, clearActive, pushEvent, results

PushFirst == Append(events[epoch], Event(Head(agenda).arg, Head(agenda).id))

EventFitsOffByOne == Len(events[epoch]) <= EventCap                     \* mutant

EventFits == Len(events[epoch]) < EventCap

Reported(id) == outcomes' = [outcomes EXCEPT ![id] = @ + 1]

DoUnmark ==
    /\ Head(agenda).op = "unmark"
    /\ active' = active \ {Head(agenda).id}
    /\ agenda' = Tail(agenda)
    /\ UNCHANGED <<events, reply, cmd, outcomes>>

DoClear ==
    /\ Head(agenda).op = "clear"
    /\ active' = {}
    /\ agenda' = Tail(agenda)
    /\ UNCHANGED <<events, reply, cmd, outcomes>>

\* pushEvent: when the queue is full the oldest event is dropped and the send
\* tried once more.
DoPush ==
    /\ Head(agenda).op = "push"
    /\ IF EventFits
       THEN /\ events' = [events EXCEPT ![epoch] = PushFirst]
            /\ Reported(Head(agenda).id)
            /\ agenda' = Tail(agenda)
       ELSE /\ agenda' = <<[Head(agenda) EXCEPT !.op = "drop"]>> \o Tail(agenda)
            /\ UNCHANGED <<events, outcomes>>
    /\ UNCHANGED <<active, reply, cmd>>

DropNothing ==                                                         \* mutant
    /\ Head(agenda).op = "drop"
    /\ agenda' = <<[Head(agenda) EXCEPT !.op = "retry"]>> \o Tail(agenda)
    /\ UNCHANGED <<active, events, reply, cmd, outcomes>>

DoDrop ==
    /\ Head(agenda).op = "drop"
    /\ events' = [events EXCEPT ![epoch] = IF @ = <<>> THEN @ ELSE Tail(@)]
    /\ agenda' = <<[Head(agenda) EXCEPT !.op = "retry"]>> \o Tail(agenda)
    /\ UNCHANGED <<active, reply, cmd, outcomes>>

\* The second send; without room the event is lost.
DoRetry ==
    /\ Head(agenda).op = "retry"
    /\ IF EventFits
       THEN /\ events' = [events EXCEPT ![epoch] = PushFirst]
            /\ Reported(Head(agenda).id)
       ELSE UNCHANGED <<events, outcomes>>
    /\ agenda' = Tail(agenda)
    /\ UNCHANGED <<active, reply, cmd>>

\* The result channel holds one answer, so the worker does not wait here.  An
\* answer is the last thing done for a command.
DoReply ==
    /\ Head(agenda).op = "reply"
    /\ reply[cmd.from] = "none"
    /\ reply' = [reply EXCEPT ![cmd.from] = Head(agenda).arg]
    /\ outcomes' = IF cmd.kind = "Play" /\ Head(agenda).arg = "failed"
                   THEN [outcomes EXCEPT ![cmd.id] = @ + 1] ELSE outcomes
    /\ agenda' = Tail(agenda)
    /\ cmd' = NoCommand
    /\ UNCHANGED <<active, events>>

SharedStep ==
    /\ agenda # <<>>
    /\ DoUnmark \/ DoClear \/ DoPush \/ DoDrop \/ DoRetry \/ DoReply
    /\ UNCHANGED <<running, nextID, epoch, commands, call, at, back, visit, target, voices>>

--------------------------------------------------------------------------------
\* The worker's own steps.  Each starts with the agenda of the last one done.

WorkerAt(place) == at = place /\ agenda = <<>>
Untouched == UNCHANGED <<shared, events, client>>

\* activeFile.close, delete(activeFiles, id)
Close(ids) ==
    /\ files' = files \ ids
    /\ fading' = fading \ ids

\* A file that is closed without an event has had its outcome.
Silently(ids) == outcomes' = [id \in PlayIDs |-> outcomes[id] + IF id \in ids THEN 1 ELSE 0]

\* processCommand looks at the engine before a Play, and before any command
\* but Shutdown while files are playing.
NeedsEngine(c) == c.kind # "Shutdown" /\ (c.kind = "Play" \/ files # {})

\* Receive a command; "from" is where its processing returns to.
Receive(from) ==
    /\ commands[epoch] # <<>>
    /\ commands' = [commands EXCEPT ![epoch] = Tail(@)]
    /\ cmd' = Head(commands[epoch])
    /\ back' = from
    /\ at' = IF NeedsEngine(Head(commands[epoch])) THEN "check" ELSE "handle"

TakeCommand ==
    /\ WorkerAt("head")
    /\ Receive("head")
    /\ Untouched /\ UNCHANGED <<visit, target, agenda, voices, outcomes>>

\* The ticker fired while files are playing.
Tick ==
    /\ WorkerAt("head")
    /\ files # {}
    /\ cmd' = NoCommand
    /\ at' = "check"
    /\ Untouched /\ UNCHANGED <<commands, back, visit, target, agenda, voices, outcomes>>

\* An XAudio2 thread reports a critical error of the engine.
CriticalError ==
    /\ engine = "ok"
    /\ engine' = "critical"
    /\ Untouched /\ UNCHANGED <<commands, control, agenda, files, fading, outcomes>>

\* recoverCriticalError succeeded: handle the command, or go on with the tick.
Recovered ==
    IF cmd # NoCommand THEN at' = "handle" /\ UNCHANGED visit
    ELSE IF files = {} THEN at' = "head" /\ UNCHANGED visit
    ELSE at' = "fade" /\ visit' = files

EngineFine ==
    /\ WorkerAt("check")
    /\ engine = "ok"
    /\ Recovered
    /\ Untouched
    /\ UNCHANGED <<commands, back, cmd, target, agenda, voices, outcomes>>

EngineCritical ==
    /\ WorkerAt("check")
    /\ engine = "critical"
    /\ at' = "recover"
    /\ visit' = files
    /\ Untouched
    /\ UNCHANGED <<commands, back, cmd, target, agenda, voices, outcomes>>

\* Every ended file but one that failed to refill is unmarked before its event.
EndOf(id, type) == <<Unmark(id), Push(type, id)>>

CloseAfterCritical ==
    /\ WorkerAt("recover")
    /\ \E id \in visit :
          /\ visit' = visit \ {id}
          /\ Close({id})
          /\ agenda' = EndOf(id, "Error")
    /\ Untouched
    /\ UNCHANGED <<commands, at, back, cmd, target, engine, outcomes>>

RecreateEarly ==                                                       \* mutant
    \/ WorkerAt("check") /\ engine = "none"
    \/ WorkerAt("recover")

MayRecreate ==
    \/ WorkerAt("check") /\ engine = "none"
    \/ WorkerAt("recover") /\ visit = {}

\* The old engine, if any, is destroyed and a new one created.
RecreateEngine ==
    /\ MayRecreate
    /\ engine' = "ok"
    /\ Recovered
    /\ Untouched
    /\ UNCHANGED <<commands, back, cmd, target, agenda, files, fading, outcomes>>

RecreateFails ==
    /\ MayRecreate
    /\ engine' = "none"
    /\ IF cmd # NoCommand
       THEN at' = back /\ agenda' = <<Reply("failed")>>
       ELSE at' = "head" /\ UNCHANGED agenda
    /\ back' = "head"
    /\ Untouched
    /\ UNCHANGED <<commands, cmd, visit, target, files, fading, outcomes>>

--------------------------------------------------------------------------------
\* handleCommand

\* The handler is done with its own state; what is left is on the agenda.
Return(operations) ==
    /\ at' = back
    /\ back' = "head"
    /\ agenda' = operations

Handling(kind) ==
    /\ WorkerAt("handle")
    /\ cmd.kind = kind
    /\ Untouched
    /\ UNCHANGED <<commands, cmd, target, engine>>

\* newFilePlayback succeeds.  A range of refillFilePlaybacks that is under way
\* may or may not come to visit the new file.
HandlePlay ==
    /\ Handling("Play")
    /\ files' = files \cup {cmd.id}
    /\ visit' \in {visit} \cup IF back = "refill" THEN {visit \cup {cmd.id}} ELSE {}
    /\ Return(<<Reply("ok")>>)
    /\ UNCHANGED <<fading, outcomes>>

HandlePlayFails ==
    /\ Handling("Play")
    /\ Return(<<Reply("failed")>>)
    /\ UNCHANGED <<visit, files, fading, outcomes>>

\* setPosition may fail; a file that is gone is answered with a failure.
HandleSetPosition ==
    /\ Handling("SetPosition")
    /\ \E result \in {"failed"} \cup IF cmd.id \in files THEN {"ok"} ELSE {} :
          Return(<<Reply(result)>>)
    /\ UNCHANGED <<visit, files, fading, outcomes>>

HandleStopUnknown ==
    /\ Handling("Stop")
    /\ cmd.id \notin files
    /\ Return(<<Reply("failed")>>)
    /\ UNCHANGED <<visit, files, fading, outcomes>>

HandleStopFading ==
    /\ Handling("Stop")
    /\ cmd.id \in files
    /\ cmd.fade
    /\ fading' = fading \cup {cmd.id}
    /\ Return(<<Reply("ok")>>)
    /\ UNCHANGED <<visit, files, outcomes>>

StopLeavesFile ==                                                      \* mutant
    /\ Handling("Stop")
    /\ cmd.id \in files
    /\ ~cmd.fade
    /\ Silently({cmd.id})
    /\ Return(<<Unmark(cmd.id), Reply("ok")>>)
    /\ UNCHANGED <<visit, files, fading>>

StopAnswersTwice ==                                                    \* mutant
    /\ Handling("Stop")
    /\ cmd.id \in files
    /\ ~cmd.fade
    /\ Close({cmd.id})
    /\ Silently({cmd.id})
    /\ Return(<<Unmark(cmd.id), Reply("ok"), Reply("failed")>>)
    /\ UNCHANGED visit

HandleStop ==
    /\ Handling("Stop")
    /\ cmd.id \in files
    /\ ~cmd.fade
    /\ Close({cmd.id})
    /\ Silently({cmd.id})
    /\ Return(<<Unmark(cmd.id), Reply("ok")>>)
    /\ UNCHANGED visit

HandleStopAllFading ==
    /\ Handling("StopAll")
    /\ cmd.fade
    /\ fading' = files
    /\ Return(<<Reply("ok")>>)
    /\ UNCHANGED <<visit, files, outcomes>>

CloseAll(operations) == Close(files) /\ Silently(files) /\ agenda' = operations

HandleStopAll ==
    /\ Handling("StopAll")
    /\ ~cmd.fade
    /\ CloseAll(<<Clear, Reply("ok")>>)
    /\ at' = back
    /\ back' = "head"
    /\ UNCHANGED visit

ShutdownKeepsLooping ==                                                \* mutant
    /\ Handling("Shutdown")
    /\ CloseAll(<<Clear, Reply("ok")>>)
    /\ at' = back
    /\ back' = "head"
    /\ UNCHANGED visit

HandleShutdown ==
    /\ Handling("Shutdown")
    /\ CloseAll(<<Clear, Reply("ok")>>)
    /\ at' = "exit"
    /\ back' = "head"
    /\ UNCHANGED visit

\* The deferred calls of loop: the cache, the engine, and close(done).
Exit ==
    /\ WorkerAt("exit")
    /\ at' = "down"
    /\ engine' = "none"
    /\ visit' = {}
    /\ target' = 1
    /\ Untouched
    /\ UNCHANGED <<commands, back, cmd, agenda, files, fading, outcomes>>

HandleCommand ==
    \/ HandlePlay \/ HandlePlayFails \/ HandleSetPosition
    \/ HandleStopUnknown \/ HandleStopFading \/ HandleStop
    \/ HandleStopAllFading \/ HandleStopAll \/ HandleShutdown

--------------------------------------------------------------------------------
\* The maintenance of a tick: updateFadeOuts, reclaimFilePlaybacks and
\* refillFilePlaybacks, each a range over activeFiles

Maintaining == Untouched /\ UNCHANGED <<commands, cmd, engine, outcomes>>

\* A visited file goes on playing.
GoesOn(place, id) ==
    /\ WorkerAt(place)
    /\ visit' = visit \ {id}
    /\ Maintaining /\ UNCHANGED <<at, back, target, agenda, files, fading>>

EndsReportedFirst(place, id, type) ==                                  \* mutant
    /\ WorkerAt(place)
    /\ visit' = visit \ {id}
    /\ Close({id})
    /\ agenda' = <<Push(type, id), Unmark(id)>>
    /\ Maintaining /\ UNCHANGED <<at, back, target>>

Ends(place, id, type) ==
    /\ WorkerAt(place)
    /\ visit' = visit \ {id}
    /\ Close({id})
    /\ agenda' = EndOf(id, type)
    /\ Maintaining /\ UNCHANGED <<at, back, target>>

\* The fade-out of a file ends, or setting its volume fails.
UpdateFadeOut ==
    \E id \in visit :
        \/ GoesOn("fade", id)
        \/ id \in fading /\ (Ends("fade", id, "Stopped") \/ Ends("fade", id, "Error"))

\* A file that is decoded to its end and has no buffer left has finished, or
\* stopped if it was fading.
ReclaimFile ==
    \E id \in visit :
        \/ GoesOn("reclaim", id)
        \/ Ends("reclaim", id, IF id \in fading THEN "Stopped" ELSE "Finished")

\* The range is over: go on to the next one, unless no file is left.
EndOfRange(place, next) ==
    /\ WorkerAt(place)
    /\ visit \cap files = {}
    /\ IF files = {} THEN at' = "head" /\ visit' = {} ELSE at' = next /\ visit' = files
    /\ Maintaining /\ UNCHANGED <<back, target, agenda, files, fading>>

\* fillTo succeeds, or fails: then the event is pushed before the file is
\* closed and unmarked.  A pass visits no file that was deleted meanwhile.
RefillFile ==
    \E id \in visit \cap files :
        /\ WorkerAt("refill")
        /\ visit' = visit \ {id}
        /\ at' = "poll"
        /\ \/ UNCHANGED <<files, fading, agenda>>
           \/ Close({id}) /\ agenda' = <<Push("Error", id), Unmark(id)>>
        /\ Maintaining /\ UNCHANGED <<back, target>>

\* After every file at most one command is received, without waiting.
PollCommand ==
    /\ WorkerAt("poll")
    /\ Receive("refill")
    /\ Untouched /\ UNCHANGED <<visit, target, agenda, voices, outcomes>>

PollForgotten ==                                                 \* mutant
    /\ WorkerAt("poll")
    /\ at' = "refill"
    /\ Maintaining /\ UNCHANGED <<back, visit, target, agenda, files, fading>>

PollNothing ==
    /\ WorkerAt("poll")
    /\ commands[epoch] = <<>>
    /\ at' = "refill"
    /\ Maintaining /\ UNCHANGED <<back, visit, target, agenda, files, fading>>

\* The end of one refill pass: the next one, or back to the loop's head.
EndOfRefill ==
    /\ WorkerAt("refill")
    /\ visit \cap files = {}
    /\ IF files # {} /\ target < Targets
       THEN target' = target + 1 /\ visit' = files /\ UNCHANGED at
       ELSE target' = 1 /\ visit' = {} /\ at' = "head"
    /\ Maintaining /\ UNCHANGED <<back, agenda, files, fading>>

Maintain ==
    \/ UpdateFadeOut \/ EndOfRange("fade", "reclaim")
    \/ ReclaimFile \/ EndOfRange("reclaim", "refill")
    \/ RefillFile \/ PollCommand \/ PollNothing \/ EndOfRefill

CheckEngine ==
    \/ EngineFine \/ EngineCritical \/ CloseAfterCritical
    \/ RecreateEngine \/ RecreateFails

WorkerStep ==
    \/ SharedStep \/ TakeCommand \/ Tick \/ CheckEngine
    \/ HandleCommand \/ Maintain \/ Exit

Next ==
    \/ Start \/ WorkerStep \/ CriticalError
    \/ \E c \in Clients : ClientCall(c) \/ ClientStep(c)

Spec == Init /\ [][Next]_vars

\* The worker thread runs, the ticker fires and a client that has made a call
\* goes on with it; senders blocked on a full channel are served in the order
\* they came (a Go channel queues them).  Nobody need call anything.
Fairness ==
    /\ WF_vars(WorkerStep)
    /\ \A c \in Clients : WF_vars(ClientStep(c)) /\ SF_vars(Send(c))

FairSpec == Spec /\ Fairness

--------------------------------------------------------------------------------
\* Properties

Waiting(c) == call[c].pc \in {"send", "wait"} /\ reply[c] = "none"

\* The Play of this id has not been answered yet.
PlayPending(id) ==
    \E c \in Clients : Waiting(c) /\ call[c].cmd.kind = "Play" /\ call[c].cmd.id = id

OnAgenda(id, ops) == \E n \in DOMAIN agenda : agenda[n].id = id /\ agenda[n].op \in ops

\* Every play id has exactly one outcome: a refusal, one event, or a stop that
\* is not reported.  None is lost and none is reported twice, whatever the
\* order of ticks, commands, engine errors and full queues (worker.go:212-300).
OneOutcome ==
    \A id \in 1..nextID - 1 :
        LET open == \/ id \in files
                    \/ PlayPending(id)
                    \/ OnAgenda(id, {"push", "drop", "retry"})
        IN  outcomes[id] = IF open THEN 0 ELSE 1

\* An id that IsPlaying still reports belongs to a file that is playing, to a
\* Play that is not answered or whose refusal its caller is about to clean up,
\* or to an end the worker is about to clean up: no id stays behind for ever
\* (player.go:104,270,279).
ActiveIsAccounted ==
    \A id \in active :
        \/ id \in files
        \/ PlayPending(id)
        \/ \E c \in Clients : call[c].cmd.kind = "Play" /\ call[c].cmd.id = id
                              /\ (reply[c] = "failed" \/ call[c].pc = "unmark")
        \/ OnAgenda(id, {"unmark"})
        \/ OnAgenda(0, {"clear"})

\* A host that has polled Finished or Stopped never sees that play reported as
\* playing: the id is unmarked before its event is queued (worker.go:225,241).
EndedIsInactive ==
    \A e \in Epochs : \A n \in DOMAIN events[e] :
        events[e][n].type \in {"Finished", "Stopped"} => events[e][n].id \notin active

\* Every file that is playing can be stopped: its id is active, so IsPlaying
\* reports it and Stop and SetPosition accept it (player.go:133-141,255).
PlayingIsActive == files \subseteq active

\* pushEvent never loses the newest event: after dropping the oldest one there
\* is room, because clients only remove events (worker.go:313-322).
NewestEventIsKept ==
    agenda # <<>> /\ Head(agenda).op = "retry" => EventFits

\* The engine is destroyed or replaced only when every voice is destroyed,
\* whatever a range over the files was doing (worker.go:284-293).
EngineOutlivesVoices == [][engine' = "critical" \/ files = {}]_engine

\* Every command is answered once, to a client that is waiting for it: the
\* one-place result channel never holds an answer when the worker sends one.
AnswersAreAwaited ==
    \A n \in DOMAIN agenda : agenda[n].op = "reply" =>
        /\ n = Len(agenda)
        /\ call[cmd.from].pc = "wait"
        /\ call[cmd.from].cmd = cmd
        /\ reply[cmd.from] = "none"

\* Once Shutdown has returned nothing is left: no worker, no file, no active id.
StoppedIsEmpty == ~running => at = "down" /\ files = {} /\ active = {}

\* Every call returns as long as the player is not shut down, however many
\* ticks, engine failures and commands of others come before it: each refill
\* pass takes a command after every file (worker.go:256).
CallsReturnUntilShutdown ==
    \A c \in Clients :
        call[c].pc # "idle" ~> call[c].pc = "idle" \/ ~running \/ \E d \in Clients : InShutdown(d)

\* Every call returns: a call that reaches a player that is shutting down is
\* refused as "SimpleAudio runtime is not running" (player.go:234).
EveryCallReturns == \A c \in Clients : call[c].pc # "idle" ~> call[c].pc = "idle"

\* Player.Shutdown returns, whatever the files and the other clients do.
ShutdownReturns == \A c \in Clients : InShutdown(c) ~> ~InShutdown(c)
================================================================================
