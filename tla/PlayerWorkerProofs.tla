--------------------------- MODULE PlayerWorkerProofs ----------------------------
(***************************************************************************)
(* Proofs about PlayerWorker, for every number of clients, plays and       *)
(* starts and every capacity of the two channels.                          *)
(*                                                                         *)
(* The argument is one inductive invariant, WInv.  To the properties that  *)
(* TLC checks it adds who waits for what: every queued command and the one *)
(* being handled belongs to one client that waits for its answer           *)
(* (QueueInv, CmdInv), no two clients reserve the same id (ClientInv); and *)
(* what the worker still owes: the agendas it can have (AgendaShape), that *)
(* an end on the agenda is of a file that is gone (AgendaInv), and that a  *)
(* Play which is not answered has no file (FilesInv).                      *)
(*                                                                         *)
(* The steps are first reduced to their effects on what the invariant      *)
(* speaks of (Aside, Grows, Marks, Shrinks for clients; Unmarks ... Answers*)
(* for the agenda; Receives ... StopsAll for the worker's own steps), and  *)
(* the invariant is then shown to survive each effect.                     *)
(*                                                                         *)
(* A last section has the case of one client.  That every playing file has *)
(* an active id does not hold with several (a StopAll races a Play), but   *)
(* with one it does: Lone says where the ids without a mark can be.        *)
(***************************************************************************)
EXTENDS PlayerWorker, SequenceTheorems, TLAPS

\* The commands and the calls there are.
Commands == [kind : Kinds, id : 0..MaxPlays, fade : BOOLEAN, from : Clients]
Places == {"idle", "send", "wait", "unmark", "done", "clear", "poll"}
Calls == [pc : Places, cmd : Commands \cup {NoCommand}, epoch : 0..MaxEpochs]

\* The types of the clients' state, of the state under Player.mu, of the channels
\* and of the worker.
ClientTypes ==
    /\ call \in [Clients -> Calls]
    /\ reply \in [Clients -> {"none", "ok", "failed"}]

SharedTypes ==
    /\ running \in BOOLEAN
    /\ nextID \in 1..MaxPlays + 1
    /\ active \subseteq PlayIDs
    /\ epoch \in 0..MaxEpochs
    /\ running \/ at # "down" => epoch \in Epochs

ChannelTypes ==
    /\ commands \in [Epochs -> Seq(Commands)]
    /\ events \in [Epochs -> Seq(Events)]
    /\ \A e \in Epochs : Len(commands[e]) <= CommandCap /\ Len(events[e]) <= EventCap

WorkerTypes ==
    /\ at \in {"down", "head", "check", "recover", "handle", "fade", "reclaim",
               "refill", "poll", "exit"}
    /\ back \in {"head", "refill"}
    /\ cmd \in Commands \cup {NoCommand}
    /\ visit \subseteq PlayIDs
    /\ target \in 1..Targets
    /\ files \subseteq PlayIDs
    /\ fading \subseteq files
    /\ engine \in {"ok", "critical", "none"}
    /\ outcomes \in [PlayIDs -> Nat]

\* All of them.
Types == ClientTypes /\ SharedTypes /\ ChannelTypes /\ WorkerTypes

\* A client's call, and no two that get in each other's way.
CallInv(c) ==
    /\ call[c].pc \in {"idle", "poll"} => call[c].cmd = NoCommand
    /\ call[c].pc \notin {"idle", "poll"} =>
           call[c].cmd \in Commands /\ call[c].cmd.from = c
    /\ call[c].pc # "idle" => call[c].epoch \in Epochs
    /\ call[c].pc # "wait" => reply[c] = "none"
    /\ call[c].pc = "unmark" => call[c].cmd.kind = "Play"
    /\ call[c].pc \in {"done", "clear"} => InShutdown(c)
    /\ call[c].pc = "clear" => at = "down"
    /\ call[c].cmd.kind = "Play" => call[c].cmd.id \in 1..nextID - 1
    /\ \A d \in Clients \ {c} :
           /\ call[c].cmd.kind = "Play" /\ call[d].cmd.kind = "Play"
                  => call[c].cmd.id # call[d].cmd.id
           /\ ~(InShutdown(c) /\ InShutdown(d))

\* Every call is as above.
ClientInv == \A c \in Clients : CallInv(c)

\* The client that sent a command waits for its answer.
Awaits(k) ==
    /\ k.from \in Clients
    /\ call[k.from].pc = "wait"
    /\ call[k.from].cmd = k
    /\ reply[k.from] = "none"

\* Every queued command is one a client waits for, and is queued once.
QueueInv ==
    \A e \in Epochs : \A n \in DOMAIN commands[e] :
        /\ Awaits(commands[e][n])
        /\ call[commands[e][n].from].epoch = e
        /\ \A m \in DOMAIN commands[e] : m # n => commands[e][m] # commands[e][n]

\* So is the command being handled, and it is queued no more.
CmdInv ==
    cmd # NoCommand =>
        /\ Awaits(cmd)
        /\ \A e \in Epochs : \A n \in DOMAIN commands[e] : commands[e][n] # cmd

\* What is on the agenda.
Members(s) == {s[n] : n \in DOMAIN s}
Todo == Members(agenda)
\* The operations that queue an event, and those that follow a file's end.
Reporting == {"push", "drop", "retry"}
Ending == Reporting \cup {"unmark"}

\* The agendas there are.
AgendaShape ==
    \/ agenda = <<>>
    \/ \E i \in PlayIDs, t \in EventTypes : agenda = EndOf(i, t)
    \/ \E i \in PlayIDs, t \in EventTypes, o \in Reporting : agenda = <<Op(o, i, t)>>
    \/ \E i \in PlayIDs, o \in Reporting : agenda = <<Op(o, i, "Error"), Unmark(i)>>
    \/ \E i \in PlayIDs : agenda = <<Unmark(i)>>
    \/ \E i \in PlayIDs : agenda = <<Unmark(i), Reply("ok")>>
    \/ agenda = <<Clear, Reply("ok")>>
    \/ \E r \in {"ok", "failed"} : agenda = <<Reply(r)>>

\* Where the worker is, and what it may have there.
ControlInv ==
    /\ at \in {"down", "check", "handle"} => Todo = {}
    /\ at = "handle" => cmd # NoCommand
    /\ at = "handle" /\ cmd.kind = "Play" => engine # "none"
    /\ engine = "none" => files = {}
    /\ at \in {"exit", "down"} => files = {}
    /\ at = "recover" => visit = files
    /\ at \in {"fade", "reclaim"} => visit \subseteq files
    /\ ~running => at = "down" /\ active = {}

\* What the worker owes: answers to the command at hand, and ends of files that are gone.
AgendaInv ==
    /\ \A x \in Todo :
           /\ x.op = "reply" => cmd # NoCommand
           /\ x.op = "reply" /\ cmd.kind = "Play" =>
                  Todo = {x} /\ (x.arg = "ok" <=> cmd.id \in files)
           /\ x.op \in Ending => x.id \in 1..nextID - 1 /\ x.id \notin files
                                 /\ ~PlayPending(x.id)
           /\ x.op \in Reporting /\ x.arg \in {"Finished", "Stopped"} =>
                  x.id \notin active \/ Unmark(x.id) \in Todo
           /\ x.op = "retry" => EventFits

\* A Play that is not answered has no file yet, unless the answer is about to be sent.
FilesInv ==
    /\ files \subseteq 1..nextID - 1
    /\ \A c \in Clients :
           Waiting(c) /\ call[c].cmd.kind = "Play" /\ call[c].cmd.id \in files =>
               Todo = {Reply("ok")} /\ cmd = call[c].cmd

\* Events are of reserved ids; an id that is not reserved has no outcome.
EventsInv ==
    \A e \in Epochs : \A n \in DOMAIN events[e] : events[e][n].id < nextID

\* An id that is not reserved has no outcome.
UnusedInv == \A id \in PlayIDs : id >= nextID => outcomes[id] = 0

\* The inductive invariant.
WInv ==
    /\ Types /\ ClientInv /\ QueueInv /\ CmdInv /\ AgendaShape /\ ControlInv /\ AgendaInv
    /\ FilesInv /\ EventsInv /\ UnusedInv
    /\ OneOutcome /\ ActiveIsAccounted /\ EndedIsInactive

\* What the assumptions on the constants say.
LEMMA Bounds ==
    /\ MaxPlays \in Nat \ {0} /\ MaxEpochs \in Nat \ {0} /\ CommandCap \in Nat \ {0}
    /\ EventCap \in Nat \ {0} /\ Targets \in Nat \ {0}
    /\ Nobody \notin Clients
    /\ PlayIDs = 1..MaxPlays /\ Epochs = 1..MaxEpochs
BY PlayerAssumption DEF PlayIDs, Epochs

\* NoCommand is not a command.
LEMMA NoCommandFields ==
    /\ NoCommand.kind = "none" /\ NoCommand.from = Nobody
    /\ NoCommand \notin Commands
BY DEF NoCommand, Command, Commands, Kinds

\* The fields of a command.
LEMMA CommandFields ==
    ASSUME NEW k \in Commands
    PROVE  /\ k.kind \in Kinds /\ k.id \in 0..MaxPlays /\ k.fade \in BOOLEAN
           /\ k.from \in Clients /\ k # NoCommand /\ k.kind # "none"
<1>1. k.kind \in Kinds /\ k.id \in 0..MaxPlays /\ k.fade \in BOOLEAN /\ k.from \in Clients
  BY DEF Commands
<1>2. k # NoCommand
  BY NoCommandFields
<1>3. k.kind # "none"
  BY <1>1 DEF Kinds
<1> QED BY <1>1, <1>2, <1>3

\* A command a client makes is one.
LEMMA CommandIn ==
    ASSUME NEW kind \in Kinds, NEW id \in 0..MaxPlays, NEW fade \in BOOLEAN, NEW c \in Clients
    PROVE  /\ Command(kind, id, fade, c) \in Commands
           /\ Command(kind, id, fade, c).kind = kind
           /\ Command(kind, id, fade, c).id = id
           /\ Command(kind, id, fade, c).from = c
BY DEF Command, Commands

--------------------------------------------------------------------------------
\* Client c goes on to pc with the command k on the channels of e.
Moves(c, pc, k, e) ==
    /\ call' \in [Clients -> Calls]
    /\ call'[c].pc = pc /\ call'[c].cmd = k /\ call'[c].epoch = e
    /\ \A d \in Clients : d # c => call'[d] = call[d]

\* The fields of a client's call and of its answer.
LEMMA CallFields ==
    ASSUME ClientTypes, NEW c \in Clients
    PROVE  /\ call[c].pc \in Places /\ call[c].cmd \in Commands \cup {NoCommand}
           /\ call[c].epoch \in 0..MaxEpochs
           /\ reply[c] \in {"none", "ok", "failed"}
           /\ call[c].cmd.kind \in Kinds \cup {"none"}
<1>1. call[c] \in Calls /\ reply[c] \in {"none", "ok", "failed"}
  BY DEF ClientTypes
<1>2. call[c].pc \in Places /\ call[c].cmd \in Commands \cup {NoCommand}
      /\ call[c].epoch \in 0..MaxEpochs
  BY <1>1 DEF Calls
<1>3. call[c].cmd.kind \in Kinds \cup {"none"}
  BY <1>2, NoCommandFields, CommandFields
<1> QED BY <1>1, <1>2, <1>3

\* A client's call becomes x.
LEMMA MovesBy ==
    ASSUME ClientTypes, NEW c \in Clients, NEW x \in Calls,
           call' = [call EXCEPT ![c] = x]
    PROVE  Moves(c, x.pc, x.cmd, x.epoch)
BY DEF ClientTypes, Moves

\* A client's call is given its three fields anew.
LEMMA MovesTo ==
    ASSUME ClientTypes, NEW c \in Clients, NEW pc \in Places,
           NEW k \in Commands \cup {NoCommand}, NEW e \in 0..MaxEpochs,
           call' = [call EXCEPT ![c] = [pc |-> pc, cmd |-> k, epoch |-> e]]
    PROVE  Moves(c, pc, k, e)
<1> DEFINE x == [pc |-> pc, cmd |-> k, epoch |-> e]
<1>1. x \in Calls /\ x.pc = pc /\ x.cmd = k /\ x.epoch = e
  BY DEF Calls
<1>2. call' = [call EXCEPT ![c] = x]
  OBVIOUS
<1> HIDE DEF x
<1>3. Moves(c, x.pc, x.cmd, x.epoch)
  BY <1>1, <1>2, MovesBy
<1> QED BY <1>1, <1>3

\* A client's call goes on to pc.
LEMMA MovesOn ==
    ASSUME ClientTypes, NEW c \in Clients, NEW pc \in Places,
           call' = [call EXCEPT ![c].pc = pc]
    PROVE  Moves(c, pc, call[c].cmd, call[c].epoch)
<1>1. call[c] \in Calls
  BY DEF ClientTypes
<1>2. /\ [call[c] EXCEPT !.pc = pc] \in Calls
      /\ [call[c] EXCEPT !.pc = pc].pc = pc
      /\ [call[c] EXCEPT !.pc = pc].cmd = call[c].cmd
      /\ [call[c] EXCEPT !.pc = pc].epoch = call[c].epoch
  BY <1>1 DEF Calls
<1>3. call' = [call EXCEPT ![c] = [call[c] EXCEPT !.pc = pc]]
  BY DEF ClientTypes
<1> DEFINE x == [call[c] EXCEPT !.pc = pc]
<1>4. x \in Calls /\ x.pc = pc /\ x.cmd = call[c].cmd /\ x.epoch = call[c].epoch
  BY <1>2
<1>5. call' = [call EXCEPT ![c] = x]
  BY <1>3
<1> HIDE DEF x
<1>6. Moves(c, x.pc, x.cmd, x.epoch)
  BY <1>4, <1>5, MovesBy
<1> QED BY <1>4, <1>6

\* A client's call returns.
LEMMA MovesToIdle ==
    ASSUME ClientTypes, NEW c \in Clients, call' = [call EXCEPT ![c] = IdleCall]
    PROVE  Moves(c, "idle", NoCommand, 0)
<1>1. "idle" \in Places /\ 0 \in 0..MaxEpochs /\ NoCommand \in Commands \cup {NoCommand}
  BY Bounds DEF Places
<1>2. call' = [call EXCEPT ![c] = [pc |-> "idle", cmd |-> NoCommand, epoch |-> 0]]
  BY DEF IdleCall
<1> QED BY <1>1, <1>2, MovesTo

\* What a client's steps do to its call.
Submits(c) ==
    /\ call[c].pc = "idle"
    /\ running
    /\ \E k \in Commands :
          /\ k.from = c
          /\ Moves(c, "send", k, epoch)
          /\ \/ k.kind \notin {"Play", "Shutdown"} /\ UNCHANGED <<nextID, active>>
             \/ /\ k.kind = "Shutdown"
                /\ \A d \in Clients : ~InShutdown(d)
                /\ UNCHANGED <<nextID, active>>
             \/ /\ k.kind = "Play"
                /\ nextID \in PlayIDs
                /\ k.id = nextID
                /\ nextID' = nextID + 1
                /\ active' = active \cup {nextID}
    /\ UNCHANGED <<running, epoch, commands, events, reply, control, agenda, voices, outcomes>>

\* Every call but PollEvent begins by submitting a command.
LEMMA CallIsSubmitted ==
    ASSUME Types, NEW c \in Clients, ClientCall(c)
    PROVE  Submits(c) \/ PollEvent(c)
<1> USE DEF Types, SharedTypes
<1>0. epoch \in 0..MaxEpochs /\ "send" \in Places /\ 0 \in 0..MaxPlays
      /\ PlayIDs \subseteq 0..MaxPlays
  BY Bounds DEF Places
<1>1. ASSUME NEW k \in Commands, Submit(c, k)
      PROVE  /\ call[c].pc = "idle" /\ running /\ Moves(c, "send", k, epoch)
             /\ UNCHANGED <<running, epoch, commands, events, reply, control, agenda,
                            voices, outcomes>>
  BY <1>0, <1>1, MovesTo DEF Submit
<1>2. CASE Play(c)
  <2>0. nextID \in PlayIDs /\ nextID \in 0..MaxPlays
    BY <1>0, <1>2 DEF Play
  <2>1. PICK k \in Commands : k.kind = "Play" /\ k.id = nextID /\ k.from = c
                              /\ k = Command("Play", nextID, FALSE, c)
    <3>1. "Play" \in Kinds /\ FALSE \in BOOLEAN
      BY DEF Kinds
    <3>2. /\ Command("Play", nextID, FALSE, c) \in Commands /\ Command("Play", nextID, FALSE, c).kind = "Play"
          /\ Command("Play", nextID, FALSE, c).id = nextID /\ Command("Play", nextID, FALSE, c).from = c
      BY <2>0, <3>1 DEF Command, Commands
    <3> QED BY <3>2
  <2>2. Submit(c, k)
    BY <1>2, <2>1 DEF Play, Submit
  <2> QED BY <1>1, <1>2, <2>1, <2>2 DEF Play, Submits
<1>3. CASE Shutdown(c)
  <2>1. PICK k \in Commands : k.kind = "Shutdown" /\ k.from = c /\ Submit(c, k)
    BY <1>0, <1>3, CommandIn DEF Shutdown, Kinds
  <2> QED BY <1>1, <1>3, <2>1 DEF Shutdown, Submits
<1>4. CASE \E id \in PlayIDs : SetPosition(c, id)
  <2>0. PICK id \in 0..MaxPlays : Submit(c, Command("SetPosition", id, FALSE, c))
                                  /\ UNCHANGED <<nextID, active>>
    BY <1>0, <1>4 DEF SetPosition
  <2>1. PICK k \in Commands : k.kind = "SetPosition" /\ k.from = c
                              /\ k = Command("SetPosition", id, FALSE, c)
    <3>1. "SetPosition" \in Kinds /\ FALSE \in BOOLEAN
      BY DEF Kinds
    <3>2. /\ Command("SetPosition", id, FALSE, c) \in Commands /\ Command("SetPosition", id, FALSE, c).kind = "SetPosition"
          /\ Command("SetPosition", id, FALSE, c).id = id /\ Command("SetPosition", id, FALSE, c).from = c
      BY <3>1 DEF Command, Commands
    <3> QED BY <3>2
  <2>2. Submit(c, k)
    BY <2>0, <2>1
  <2> QED BY <1>1, <2>0, <2>1, <2>2 DEF Submits
<1>5. CASE \E id \in PlayIDs, fade \in BOOLEAN : Stop(c, id, fade)
  <2>1. PICK k \in Commands : k.kind = "Stop" /\ k.from = c /\ Submit(c, k)
    BY <1>0, <1>5, CommandIn DEF Stop, Kinds
  <2> QED BY <1>1, <1>5, <2>1 DEF Stop, Submits
<1>6. CASE \E fade \in BOOLEAN : StopAll(c, fade)
  <2>1. PICK k \in Commands : k.kind = "StopAll" /\ k.from = c /\ Submit(c, k)
    BY <1>0, <1>6, CommandIn DEF StopAll, Kinds
  <2> QED BY <1>1, <1>6, <2>1 DEF StopAll, Submits
<1> QED BY <1>2, <1>3, <1>4, <1>5, <1>6 DEF ClientCall

\* PollEvent takes the epoch of the queue it read.
LEMMA PollMoves ==
    ASSUME Types, NEW c \in Clients, PollEvent(c)
    PROVE  Moves(c, "poll", call[c].cmd, epoch)
<1>1. call[c] \in Calls /\ epoch \in 0..MaxEpochs
  BY DEF Types, ClientTypes, SharedTypes
<1> DEFINE x == [call[c] EXCEPT !.pc = "poll", !.epoch = epoch]
<1>2. x \in Calls /\ x.pc = "poll" /\ x.cmd = call[c].cmd /\ x.epoch = epoch
  BY <1>1 DEF Calls, Places
<1>3. call' = [call EXCEPT ![c] = x]
  BY DEF PollEvent, Types, ClientTypes
<1> HIDE DEF x
<1>4. Moves(c, x.pc, x.cmd, x.epoch)
  BY <1>2, <1>3, MovesBy DEF Types
<1> QED BY <1>2, <1>4

\* Where a client goes with its answer.
LEMMA AnswerMoves ==
    ASSUME Types, NEW c \in Clients, Answered(c)
    PROVE  IF call[c].cmd.kind = "Play" /\ reply[c] = "failed"
           THEN Moves(c, "unmark", call[c].cmd, call[c].epoch)
           ELSE IF call[c].cmd.kind = "Shutdown"
           THEN Moves(c, "done", call[c].cmd, call[c].epoch)
           ELSE Moves(c, "idle", NoCommand, 0)
<1> USE DEF Types
<1>1. call' = [call EXCEPT ![c] = AfterAnswer(c)]
  BY DEF Answered
<1>2. ASSUME NEW pc \in Places, AfterAnswer(c) = [call[c] EXCEPT !.pc = pc]
      PROVE  Moves(c, pc, call[c].cmd, call[c].epoch)
  <2>1. call' = [call EXCEPT ![c].pc = pc]
    BY <1>1, <1>2
  <2> QED BY <2>1, MovesOn
<1>3. CASE call[c].cmd.kind = "Play" /\ reply[c] = "failed"
  BY <1>2, <1>3 DEF AfterAnswer, Places
<1>4. CASE ~(call[c].cmd.kind = "Play" /\ reply[c] = "failed") /\ call[c].cmd.kind = "Shutdown"
  <2>1. Moves(c, "done", call[c].cmd, call[c].epoch)
    BY <1>2, <1>4 DEF AfterAnswer, Places
  <2> QED BY <1>4, <2>1
<1>5. CASE ~(call[c].cmd.kind = "Play" /\ reply[c] = "failed") /\ call[c].cmd.kind # "Shutdown"
  <2>1. Moves(c, "idle", NoCommand, 0)
    BY <1>1, <1>5, MovesToIdle DEF AfterAnswer
  <2> QED BY <1>5, <2>1
<1> QED BY <1>3, <1>4, <1>5

--------------------------------------------------------------------------------
\* Another op of the same operation.
LEMMA OpChange ==
    ASSUME NEW A, NEW B, NEW C, NEW x \in [op : A, id : B, arg : C], NEW p \in A
    PROVE  [x EXCEPT !.op = p] = [op |-> p, id |-> x.id, arg |-> x.arg]
OBVIOUS

\* The fields of an operation.
LEMMA OpFields ==
    ASSUME NEW o, NEW i, NEW a
    PROVE  Op(o, i, a).op = o /\ Op(o, i, a).id = i /\ Op(o, i, a).arg = a
BY DEF Op

\* The event that is dropped or retried is the one that was pushed.
LEMMA OpRenamed ==
    ASSUME NEW o, NEW i, NEW a, NEW p
    PROVE  [Op(o, i, a) EXCEPT !.op = p] = Op(p, i, a)
<1> DEFINE x == Op(o, i, a)
<1>1. x \in [op : {o, p}, id : {i}, arg : {a}] /\ x.op = o /\ x.id = i /\ x.arg = a
  BY DEF Op
<1> HIDE DEF x
<1>2. [x EXCEPT !.op = p] = [op |-> p, id |-> x.id, arg |-> x.arg]
  <2>1. p \in {o, p}  OBVIOUS
  <2> QED BY <1>1, <2>1, OpChange
<1>3. [x EXCEPT !.op = p] = Op(p, i, a)
  BY <1>1, <1>2 DEF Op
<1> QED BY <1>3 DEF x

\* An empty agenda has no operation.
LEMMA NoOps == Members(<<>>) = {}
BY DEF Members

\* An agenda of one operation.
LEMMA OneOp ==
    ASSUME NEW x
    PROVE  /\ Head(<<x>>) = x /\ Tail(<<x>>) = <<>> /\ Members(<<x>>) = {x} /\ <<x>> # <<>>
           /\ Len(<<x>>) = 1 /\ <<x>>[1] = x
           /\ <<x>> \o <<>> = <<x>>
<1>1. <<x>> \in Seq({x})
  OBVIOUS
<1>2. <<x>> \o <<>> = <<x>>
  BY <1>1, ConcatEmptySeq
<1> QED BY <1>2 DEF Members

\* An agenda of two operations.
LEMMA TwoOps ==
    ASSUME NEW x, NEW y
    PROVE  /\ Head(<<x, y>>) = x /\ Tail(<<x, y>>) = <<y>>
           /\ Members(<<x, y>>) = {x, y} /\ <<x, y>> # <<>>
           /\ Len(<<x, y>>) = 2 /\ <<x, y>>[1] = x /\ <<x, y>>[2] = y
           /\ <<x>> \o <<y>> = <<x, y>>
<1> DEFINE s == <<x>>
           t == <<y>>
           u == <<x, y>>
           S == {x, y}
<1>1. /\ s \in Seq(S) /\ t \in Seq(S) /\ u \in Seq(S)
      /\ Len(s) = 1 /\ Len(t) = 1 /\ Len(u) = 2
      /\ s[1] = x /\ t[1] = y /\ u[1] = x /\ u[2] = y
  OBVIOUS
<1>2. s \o t = u
  <2> HIDE DEF s, t, u, S
  <2>1. s \o t \in Seq(S) /\ Len(s \o t) = 2 /\ (s \o t)[1] = x /\ (s \o t)[2] = y
    BY <1>1, ConcatProperties
  <2> QED BY <1>1, <2>1, SeqEqual
<1>3. Head(u) = x /\ Tail(u) = t /\ u # <<>>
  OBVIOUS
<1>4. Members(u) = {x, y}
  <2>1. DOMAIN u = {1, 2}
    OBVIOUS
  <2> QED BY <1>1, <2>1 DEF Members
<1> QED BY <1>1, <1>2, <1>3, <1>4

\* What the operations on the agenda do.
Unmarks ==
    \E i \in PlayIDs :
        /\ Unmark(i) \in Todo /\ Todo' = Todo \ {Unmark(i)}
        /\ active' = active \ {i}
        /\ UNCHANGED <<events, reply, cmd, outcomes>>

\* clearActive.
Clears ==
    /\ Todo = {Clear, Reply("ok")} /\ Todo' = {Reply("ok")}
    /\ active' = {}
    /\ UNCHANGED <<events, reply, cmd, outcomes>>

\* The event is queued.
Reports ==
    \E i \in PlayIDs, t \in EventTypes, o \in {"push", "retry"} :
        /\ EventFits
        /\ Todo = Todo' \cup {Op(o, i, t)}
        /\ Todo' = {} \/ (Todo' = {Unmark(i)} /\ t = "Error")
        /\ events' = [events EXCEPT ![epoch] = Append(events[epoch], Event(t, i))]
        /\ Reported(i)
        /\ UNCHANGED <<active, reply, cmd>>

\* The queue is full: the oldest event is dropped for a second try.
Delays ==
    \E i \in PlayIDs, t \in EventTypes, o \in Reporting :
        \/ /\ Op("push", i, t) \in Todo
           /\ Todo' = (Todo \ {Op("push", i, t)}) \cup {Op("drop", i, t)}
           /\ UNCHANGED <<active, events, reply, cmd, outcomes>>
        \/ /\ Op("drop", i, t) \in Todo
           /\ Todo' = (Todo \ {Op("drop", i, t)}) \cup {Op("retry", i, t)}
           /\ events' = [events EXCEPT ![epoch] = IF @ = <<>> THEN @ ELSE Tail(@)]
           /\ UNCHANGED <<active, reply, cmd, outcomes>>

\* The answer is sent.
Answers ==
    \E r \in {"ok", "failed"} :
        /\ Todo = {Reply(r)} /\ Todo' = {}
        /\ reply' = [reply EXCEPT ![cmd.from] = r]
        /\ outcomes' = IF cmd.kind = "Play" /\ r = "failed"
                       THEN [outcomes EXCEPT ![cmd.id] = @ + 1] ELSE outcomes
        /\ cmd' = NoCommand
        /\ UNCHANGED <<active, events>>

\* The operations differ where their names do.
LEMMA DistinctOps ==
    ASSUME NEW i, NEW t
    PROVE  /\ Unmark(i).op = "unmark" /\ Unmark(i).id = i
           /\ Push(t, i) = Op("push", i, t)
           /\ Clear.op = "clear" /\ Reply(t).op = "reply" /\ Reply(t).arg = t
           /\ Clear.id = 0 /\ Reply(t).id = 0
           /\ Unmark(i) # Push(t, i) /\ Unmark(i) # Reply(t) /\ Clear # Reply(t)
<1>1. Unmark(i).op = "unmark" /\ Unmark(i).id = i
  BY DEF Unmark, Op
<1>2. Push(t, i) = Op("push", i, t) /\ Push(t, i).op = "push"
  BY DEF Push, Op
<1>3. Clear.op = "clear" /\ Clear.id = 0
  BY DEF Clear, Op
<1>4. Reply(t).op = "reply" /\ Reply(t).arg = t /\ Reply(t).id = 0
  BY DEF Reply, Op
<1> QED BY <1>1, <1>2, <1>3, <1>4

\* A step of pushEvent: the event is queued, or its second try is prepared.
LEMMA ReportStep ==
    ASSUME NEW i \in PlayIDs, NEW t \in EventTypes, NEW o \in Reporting,
           \/ agenda = <<Op(o, i, t)>>
           \/ agenda = <<Op(o, i, t), Unmark(i)>> /\ t = "Error",
           DoUnmark \/ DoClear \/ DoPush \/ DoDrop \/ DoRetry \/ DoReply,
           o = "retry" => EventFits
    PROVE  /\ Reports \/ Delays
           /\ \/ agenda' = <<>>
              \/ \E q \in Reporting : agenda' = <<Op(q, i, t)>>
              \/ \E q \in Reporting : agenda' = <<Op(q, i, t), Unmark(i)>> /\ t = "Error"
              \/ agenda' = <<Unmark(i)>>
<1> DEFINE x == Op(o, i, t)
<1>1. Head(agenda) = x /\ x.op = o /\ x.id = i /\ x.arg = t
  BY OneOp, TwoOps, OpFields
<1>2. PICK rest : /\ rest = <<>> \/ (rest = <<Unmark(i)>> /\ t = "Error")
                  /\ Tail(agenda) = rest /\ Todo = {x} \cup Members(rest)
  <2>1. CASE agenda = <<x>>
    <3>1. Tail(agenda) = <<>> /\ Todo = {x} \cup Members(<<>>)
      BY <2>1, OneOp, NoOps DEF Todo
    <3> QED BY <3>1
  <2>2. CASE agenda = <<x, Unmark(i)>> /\ t = "Error"
    <3>1. Tail(agenda) = <<Unmark(i)>> /\ Todo = {x, Unmark(i)}
      BY <2>2, TwoOps DEF Todo
    <3>2. Members(<<Unmark(i)>>) = {Unmark(i)}
      BY OneOp
    <3> QED BY <2>2, <3>1, <3>2
  <2> QED BY <2>1, <2>2
<1>3. ASSUME NEW q \in Reporting
      PROVE  /\ [Head(agenda) EXCEPT !.op = q] = Op(q, i, t)
             /\ \/ <<Op(q, i, t)>> \o rest = <<Op(q, i, t)>>
                \/ <<Op(q, i, t)>> \o rest = <<Op(q, i, t), Unmark(i)>> /\ t = "Error"
             /\ Members(<<Op(q, i, t)>> \o rest) = {Op(q, i, t)} \cup Members(rest)
             /\ q # o => Members(<<Op(q, i, t)>> \o rest) = (Todo \ {x}) \cup {Op(q, i, t)}
  <2>1. [x EXCEPT !.op = q] = Op(q, i, t)
    BY OpRenamed
  <2>2. Members(rest) = {} \/ Members(rest) = {Unmark(i)}
    BY <1>2, NoOps, OneOp
  <2>3. x \notin Members(rest)
    BY <1>1, <2>2, DistinctOps DEF Reporting
  <2>4. Members(<<Op(q, i, t)>> \o rest) = {Op(q, i, t)} \cup Members(rest)
    <3>1. CASE rest = <<>>
      BY <3>1, OneOp, NoOps
    <3>2. CASE rest = <<Unmark(i)>>
      <4>1. Members(<<Op(q, i, t)>> \o rest) = {Op(q, i, t), Unmark(i)}
        <5> DEFINE y == Op(q, i, t)
                   z == Unmark(i)
        <5>1. rest = <<z>>
          BY <3>2
        <5> HIDE DEF y, z
        <5>2. <<y>> \o rest = <<y, z>> /\ Members(<<y, z>>) = {y, z}
          BY <5>1, TwoOps
        <5> QED BY <5>2 DEF y, z
      <4>2. Members(rest) = {Unmark(i)}
        BY <3>2, OneOp
      <4> QED BY <4>1, <4>2
    <3> QED BY <1>2, <3>1, <3>2
  <2>5. \/ <<Op(q, i, t)>> \o rest = <<Op(q, i, t)>>
        \/ <<Op(q, i, t)>> \o rest = <<Op(q, i, t), Unmark(i)>> /\ t = "Error"
    <3>1. CASE rest = <<>>
      BY <3>1, OneOp
    <3>2. CASE rest = <<Unmark(i)>> /\ t = "Error"
      BY <3>2, TwoOps
    <3> QED BY <1>2, <3>1, <3>2
  <2> HIDE DEF x
  <2>6. (Todo \ {x}) = Members(rest)
    BY <1>2, <2>3
  <2> QED BY <1>1, <2>1, <2>4, <2>5, <2>6
<1>4. x \in Todo /\ (Members(rest) = {} \/ (Members(rest) = {Unmark(i)} /\ Unmark(i) \in Todo))
  BY <1>2, NoOps, OneOp
<1>5. Todo' = Members(agenda')
  BY DEF Todo
<1>r. ASSUME agenda' = rest
      PROVE  Todo = Todo' \cup {x} /\ (Todo' = {} \/ (Todo' = {Unmark(i)} /\ t = "Error"))
  BY <1>2, <1>5, <1>r, NoOps, OneOp
<1>6. CASE o = "push"
  <2>1. DoPush
    BY <1>1, <1>6 DEF DoUnmark, DoClear, DoDrop, DoRetry, DoReply
  <2>2. CASE EventFits
    <3>1. /\ events' = [events EXCEPT ![epoch] = Append(events[epoch], Event(t, i))]
          /\ Reported(i) /\ agenda' = rest /\ UNCHANGED <<active, reply, cmd>>
      BY <1>1, <1>2, <2>1, <2>2 DEF DoPush, PushFirst
    <3>2. Reports
      BY <1>r, <1>6, <2>2, <3>1 DEF Reports
    <3> QED BY <1>2, <3>1, <3>2
  <2>3. CASE ~EventFits
    <3>1. /\ agenda' = <<Op("drop", i, t)>> \o rest
          /\ UNCHANGED <<active, events, reply, cmd, outcomes>>
      BY <1>2, <1>3, <2>1, <2>3 DEF DoPush, Reporting
    <3>2. "drop" \in Reporting /\ "drop" # o
      BY <1>6 DEF Reporting
    <3>3. Todo' = (Todo \ {x}) \cup {Op("drop", i, t)}
      BY <1>3, <1>5, <3>1, <3>2
    <3>4. Delays
      BY <1>4, <1>6, <3>1, <3>3 DEF Delays
    <3> QED BY <1>3, <3>1, <3>2, <3>4
  <2> QED BY <2>2, <2>3
<1>7. CASE o = "drop"
  <2>1. DoDrop
    BY <1>1, <1>7 DEF DoUnmark, DoClear, DoPush, DoRetry, DoReply
  <2>2. /\ agenda' = <<Op("retry", i, t)>> \o rest
        /\ events' = [events EXCEPT ![epoch] = IF @ = <<>> THEN @ ELSE Tail(@)]
        /\ UNCHANGED <<active, reply, cmd, outcomes>>
    BY <1>2, <1>3, <2>1 DEF DoDrop, Reporting
  <2>3. "retry" \in Reporting /\ "retry" # o
    BY <1>7 DEF Reporting
  <2>4. Todo' = (Todo \ {x}) \cup {Op("retry", i, t)}
    BY <1>3, <1>5, <2>2, <2>3
  <2>5. Delays
    BY <1>4, <1>7, <2>2, <2>4 DEF Delays
  <2> QED BY <1>3, <2>2, <2>3, <2>5
<1>8. CASE o = "retry"
  <2>1. DoRetry
    BY <1>1, <1>8 DEF DoUnmark, DoClear, DoPush, DoDrop, DoReply
  <2>2. /\ events' = [events EXCEPT ![epoch] = Append(events[epoch], Event(t, i))]
        /\ Reported(i) /\ agenda' = rest /\ UNCHANGED <<active, reply, cmd>>
    BY <1>1, <1>2, <1>8, <2>1 DEF DoRetry, PushFirst
  <2>3. Reports
    BY <1>r, <1>8, <2>2 DEF Reports
  <2> QED BY <1>2, <2>2, <2>3
<1> QED BY <1>6, <1>7, <1>8 DEF Reporting

\* The operations of an agenda of one or two.
LEMMA TodoOfShape ==
    ASSUME NEW x, NEW y
    PROVE  /\ agenda = <<x>> => Todo = {x} /\ Head(agenda) = x /\ Tail(agenda) = <<>>
           /\ agenda = <<x, y>> => Todo = {x, y} /\ Head(agenda) = x /\ Tail(agenda) = <<y>>
           /\ agenda' = <<x>> => Todo' = {x}
           /\ agenda' = <<x, y>> => Todo' = {x, y}
           /\ agenda = <<>> => Todo = {}
           /\ agenda' = <<>> => Todo' = {}
<1>1. Todo = Members(agenda) /\ Todo' = Members(agenda')
  BY DEF Todo
<1>2. agenda = <<x>> => Todo = {x} /\ Head(agenda) = x /\ Tail(agenda) = <<>>
  BY <1>1, OneOp
<1>0. /\ Head(<<x, y>>) = x /\ Tail(<<x, y>>) = <<y>>
      /\ Members(<<x, y>>) = {x, y}
  BY TwoOps
<1>3. ASSUME agenda = <<x, y>>
      PROVE  Todo = {x, y} /\ Head(agenda) = x /\ Tail(agenda) = <<y>>
  BY <1>0, <1>1, <1>3
<1>4. agenda' = <<x>> => Todo' = {x}
  BY <1>1, OneOp
<1>5. ASSUME agenda' = <<x, y>> PROVE Todo' = {x, y}
  BY <1>0, <1>1, <1>5
<1>6. (agenda = <<>> => Todo = {}) /\ (agenda' = <<>> => Todo' = {})
  BY <1>1, NoOps
<1> QED BY <1>2, <1>3, <1>4, <1>5, <1>6

\* The agenda is empty when no operation is left on it.
LEMMA EmptyTodo ==
    ASSUME AgendaShape
    PROVE  agenda = <<>> <=> Todo = {}
BY TodoOfShape DEF AgendaShape, EndOf

\* Every operation on shared state has one of the five effects.
LEMMA SharedEffect ==
    ASSUME AgendaShape, AgendaInv, SharedStep
    PROVE  /\ AgendaShape'
           /\ Unmarks \/ Clears \/ Reports \/ Delays \/ Answers
<1>0. DoUnmark \/ DoClear \/ DoPush \/ DoDrop \/ DoRetry \/ DoReply
  BY DEF SharedStep
<1>1. CASE \E i \in PlayIDs, t \in EventTypes, o \in Reporting :
             \/ agenda = <<Op(o, i, t)>>
             \/ agenda = <<Op(o, i, t), Unmark(i)>> /\ t = "Error"
  <2>1. PICK i \in PlayIDs, t \in EventTypes, o \in Reporting :
             \/ agenda = <<Op(o, i, t)>>
             \/ agenda = <<Op(o, i, t), Unmark(i)>> /\ t = "Error"
    BY <1>1
  <2>2. Op(o, i, t) \in Todo /\ Op(o, i, t).op = o
    BY <2>1, TodoOfShape, OpFields
  <2>3. o = "retry" => EventFits
    BY <2>2 DEF AgendaInv
  <2>4. /\ Reports \/ Delays
        /\ \/ agenda' = <<>>
           \/ \E q \in Reporting : agenda' = <<Op(q, i, t)>>
           \/ \E q \in Reporting : agenda' = <<Op(q, i, t), Unmark(i)>> /\ t = "Error"
           \/ agenda' = <<Unmark(i)>>
    BY <1>0, <2>1, <2>3, ReportStep
  <2>5. AgendaShape'
    BY <2>4 DEF AgendaShape
  <2> QED BY <2>4, <2>5
<1>2. CASE \E i \in PlayIDs, t \in EventTypes : agenda = EndOf(i, t)
  <2>1. PICK i \in PlayIDs, t \in EventTypes : agenda = <<Unmark(i), Push(t, i)>>
    BY <1>2 DEF EndOf
  <2>2. /\ Todo = {Unmark(i), Push(t, i)}
        /\ Head(agenda) = Unmark(i) /\ Tail(agenda) = <<Push(t, i)>>
    BY <2>1, TodoOfShape
  <2>3. Unmark(i).op = "unmark" /\ Unmark(i).id = i /\ Unmark(i) # Push(t, i)
        /\ Push(t, i) = Op("push", i, t)
    BY DistinctOps
  <2>4. DoUnmark
    BY <1>0, <2>2, <2>3 DEF DoClear, DoPush, DoDrop, DoRetry, DoReply
  <2>5. /\ active' = active \ {i} /\ agenda' = <<Push(t, i)>>
        /\ UNCHANGED <<events, reply, cmd, outcomes>>
    BY <2>2, <2>3, <2>4 DEF DoUnmark
  <2>6. Todo' = Todo \ {Unmark(i)}
    BY <2>2, <2>3, <2>5, TodoOfShape
  <2>7. Unmarks
    BY <2>2, <2>5, <2>6 DEF Unmarks
  <2>8. AgendaShape'
    BY <2>3, <2>5 DEF AgendaShape, Reporting
  <2> QED BY <2>7, <2>8
<1>3. CASE \E i \in PlayIDs : agenda = <<Unmark(i)>> \/ agenda = <<Unmark(i), Reply("ok")>>
  <2>1. PICK i \in PlayIDs : agenda = <<Unmark(i)>> \/ agenda = <<Unmark(i), Reply("ok")>>
    BY <1>3
  <2>2. /\ Head(agenda) = Unmark(i)
        /\ \/ Tail(agenda) = <<>> /\ Todo = {Unmark(i)}
           \/ Tail(agenda) = <<Reply("ok")>> /\ Todo = {Unmark(i), Reply("ok")}
    BY <2>1, TodoOfShape
  <2>3. Unmark(i).op = "unmark" /\ Unmark(i).id = i /\ Unmark(i) # Reply("ok")
    BY DistinctOps
  <2>4. DoUnmark
    BY <1>0, <2>2, <2>3 DEF DoClear, DoPush, DoDrop, DoRetry, DoReply
  <2>5. /\ active' = active \ {i} /\ agenda' = Tail(agenda)
        /\ UNCHANGED <<events, reply, cmd, outcomes>>
    BY <2>2, <2>3, <2>4 DEF DoUnmark
  <2>6. Todo' = Todo \ {Unmark(i)} /\ Unmark(i) \in Todo
    BY <2>2, <2>3, <2>5, TodoOfShape
  <2>7. Unmarks
    BY <2>5, <2>6 DEF Unmarks
  <2>8. AgendaShape'
    BY <2>2, <2>5 DEF AgendaShape
  <2> QED BY <2>7, <2>8
<1>4. CASE agenda = <<Clear, Reply("ok")>>
  <2>1. /\ Todo = {Clear, Reply("ok")}
        /\ Head(agenda) = Clear /\ Tail(agenda) = <<Reply("ok")>>
    BY <1>4, TodoOfShape
  <2>2. DoClear
    BY <1>0, <2>1, DistinctOps DEF DoUnmark, DoPush, DoDrop, DoRetry, DoReply
  <2>3. /\ active' = {} /\ agenda' = <<Reply("ok")>>
        /\ UNCHANGED <<events, reply, cmd, outcomes>>
    BY <2>1, <2>2 DEF DoClear
  <2>4. Todo' = {Reply("ok")}
    BY <2>3, TodoOfShape
  <2> QED BY <2>1, <2>3, <2>4 DEF Clears, AgendaShape
<1>5. CASE \E r \in {"ok", "failed"} : agenda = <<Reply(r)>>
  <2>1. PICK r \in {"ok", "failed"} : agenda = <<Reply(r)>>
    BY <1>5
  <2>2. Todo = {Reply(r)} /\ Head(agenda) = Reply(r) /\ Tail(agenda) = <<>>
        /\ Reply(r).op = "reply" /\ Reply(r).arg = r
    BY <2>1, TodoOfShape, DistinctOps
  <2>3. DoReply
    BY <1>0, <2>2 DEF DoUnmark, DoClear, DoPush, DoDrop, DoRetry
  <2>4. agenda' = <<>> /\ Todo' = {}
    BY <2>2, <2>3, TodoOfShape DEF DoReply
  <2>5. Answers
    BY <2>2, <2>3, <2>4 DEF DoReply, Answers
  <2> QED BY <2>4, <2>5 DEF AgendaShape
<1>6. agenda # <<>>
  BY DEF SharedStep
<1>7. CASE \E i \in PlayIDs, o \in Reporting : agenda = <<Op(o, i, "Error"), Unmark(i)>>
  <2>1. "Error" \in EventTypes
    BY DEF EventTypes
  <2> QED BY <1>1, <1>7, <2>1
<1>8. CASE \E i \in PlayIDs, t \in EventTypes, o \in Reporting : agenda = <<Op(o, i, t)>>
  BY <1>1, <1>8
<1>9. CASE \E i \in PlayIDs : agenda = <<Unmark(i)>>
  BY <1>3, <1>9
<1>10. CASE \E i \in PlayIDs : agenda = <<Unmark(i), Reply("ok")>>
  BY <1>3, <1>10
<1> QED BY <1>2, <1>4, <1>5, <1>6, <1>7, <1>8, <1>9, <1>10 DEF AgendaShape

--------------------------------------------------------------------------------
\* What the worker's own steps do to files, commands and the agenda.
Receives ==
    /\ commands[epoch] # <<>>
    /\ commands' = [commands EXCEPT ![epoch] = Tail(@)]
    /\ cmd' = Head(commands[epoch])
    /\ Todo' = {}
    /\ UNCHANGED <<files, outcomes>>

\* Nothing but where the worker is changes, or what it is doing.
Idles ==
    /\ cmd' = cmd \/ cmd' = NoCommand
    /\ Todo' = {}
    /\ UNCHANGED <<commands, files, outcomes>>

\* A file ends and its event is owed.
Closes ==
    /\ \E i \in files, t \in EventTypes :
          /\ files' = files \ {i}
          /\ Todo' = {Unmark(i), Op("push", i, t)}
    /\ UNCHANGED <<commands, cmd, outcomes>>

\* The command is answered.
Refuses ==
    /\ cmd # NoCommand
    /\ \E r \in {"ok", "failed"} :
          /\ Todo' = {Reply(r)}
          /\ cmd.kind = "Play" => r = "failed"
    /\ UNCHANGED <<commands, cmd, files, outcomes>>

\* A file begins to play.
Plays ==
    /\ cmd # NoCommand
    /\ cmd.kind = "Play"
    /\ files' = files \cup {cmd.id}
    /\ Todo' = {Reply("ok")}
    /\ UNCHANGED <<commands, cmd, outcomes>>

\* A file is stopped without an event.
Stops ==
    /\ cmd # NoCommand
    /\ cmd.kind = "Stop"
    /\ cmd.id \in files
    /\ files' = files \ {cmd.id}
    /\ Silently({cmd.id})
    /\ Todo' = {Unmark(cmd.id), Reply("ok")}
    /\ UNCHANGED <<commands, cmd>>

\* Every file is stopped without an event.
StopsAll ==
    /\ cmd # NoCommand
    /\ cmd.kind \in {"StopAll", "Shutdown"}
    /\ files' = {}
    /\ Silently(files)
    /\ Todo' = {Clear, Reply("ok")}
    /\ UNCHANGED <<commands, cmd>>

\* The steps that are no operation on shared state, and their effects.
Own == TakeCommand \/ Tick \/ CheckEngine \/ HandleCommand \/ Maintain \/ Exit

Effect ==
    \/ Receives \/ Idles \/ Closes \/ Refuses \/ Plays \/ Stops \/ StopsAll

\* The end of a file, in either order of its event and its unmarking.
LEMMA EndEffect ==
    ASSUME Types, AgendaShape, NEW i \in files, NEW t \in EventTypes,
           Close({i}), UNCHANGED <<commands, cmd, outcomes>>,
           agenda' = EndOf(i, t) \/ (t = "Error" /\ agenda' = <<Push(t, i), Unmark(i)>>)
    PROVE  Closes /\ AgendaShape'
<1>1. i \in PlayIDs
  BY DEF Types, WorkerTypes
<1>2. Push(t, i) = Op("push", i, t) /\ "push" \in Reporting
  BY DistinctOps DEF Reporting
<1>3. Todo' = {Unmark(i), Op("push", i, t)}
  BY <1>2, TodoOfShape DEF EndOf
<1>4. files' = files \ {i}
  BY DEF Close
<1>5. AgendaShape'
  BY <1>1, <1>2 DEF AgendaShape
<1> QED BY <1>3, <1>4, <1>5 DEF Closes

\* A step that neither closes a file nor answers.
LEMMA QuietEffect ==
    ASSUME agenda = <<>>, agenda' = agenda, cmd' = cmd \/ cmd' = NoCommand,
           UNCHANGED <<commands, files, outcomes>>
    PROVE  Idles /\ AgendaShape'
<1>1. Todo' = {}
  BY TodoOfShape
<1>2. AgendaShape'
  BY DEF AgendaShape
<1> QED BY <1>1, <1>2 DEF Idles

\* Receiving a command.
LEMMA ReceiveEffect ==
    ASSUME agenda = <<>>, agenda' = agenda, NEW from \in {"head", "refill"}, Receive(from),
           UNCHANGED <<files, outcomes>>
    PROVE  Receives /\ AgendaShape'
<1>1. Todo' = {}
  BY TodoOfShape
<1>2. AgendaShape'
  BY DEF AgendaShape
<1> QED BY <1>1, <1>2 DEF Receives, Receive

\* An answer is all that is left to do.
LEMMA ReplyEffect ==
    ASSUME NEW r \in {"ok", "failed"}, agenda' = <<Reply(r)>>
    PROVE  Todo' = {Reply(r)} /\ AgendaShape'
<1>1. Todo' = {Reply(r)}
  BY TodoOfShape
<1> QED BY <1>1 DEF AgendaShape

\* What handleCommand does (worker.go).
LEMMA HandleEffect ==
    ASSUME Types, AgendaShape, ControlInv, HandleCommand
    PROVE  Effect /\ AgendaShape'
<1>1. at = "handle" /\ cmd # NoCommand
  BY DEF ControlInv, HandleCommand, HandlePlay, HandlePlayFails, HandleSetPosition,
         HandleStopUnknown, HandleStopFading, HandleStop, HandleStopAllFading,
         HandleStopAll, HandleShutdown, Handling, WorkerAt
<1>2. CASE HandlePlay
  <2>1. agenda' = <<Reply("ok")>> /\ files' = files \cup {cmd.id} /\ cmd.kind = "Play"
        /\ UNCHANGED <<commands, cmd, outcomes>>
    BY <1>2 DEF HandlePlay, Handling, Return
  <2>2. Todo' = {Reply("ok")} /\ AgendaShape'
    BY <2>1, ReplyEffect
  <2> QED BY <1>1, <2>1, <2>2 DEF Effect, Plays
<1>3. ASSUME NEW r \in {"ok", "failed"}, Return(<<Reply(r)>>),
             cmd.kind = "Play" => r = "failed",
             UNCHANGED <<commands, cmd, files, outcomes>>
      PROVE  Effect /\ AgendaShape'
  <2>1. Todo' = {Reply(r)} /\ AgendaShape'
    BY <1>3, ReplyEffect DEF Return
  <2>2. Refuses
    BY <1>1, <1>3, <2>1 DEF Refuses
  <2> QED BY <2>1, <2>2 DEF Effect
<1>4. CASE HandlePlayFails
  BY <1>3, <1>4 DEF HandlePlayFails, Handling
<1>5. CASE HandleSetPosition
  <2>1. PICK r \in {"ok", "failed"} : Return(<<Reply(r)>>)
    BY <1>5 DEF HandleSetPosition
  <2> QED BY <1>3, <1>5, <2>1 DEF HandleSetPosition, Handling
<1>6. CASE HandleStopUnknown
  BY <1>3, <1>6 DEF HandleStopUnknown, Handling
<1>7. CASE HandleStopFading
  BY <1>3, <1>7 DEF HandleStopFading, Handling
<1>8. CASE HandleStopAllFading
  BY <1>3, <1>8 DEF HandleStopAllFading, Handling
<1>9. CASE HandleStop
  <2>1. /\ agenda' = <<Unmark(cmd.id), Reply("ok")>> /\ cmd.kind = "Stop" /\ cmd.id \in files
        /\ files' = files \ {cmd.id} /\ Silently({cmd.id})
        /\ UNCHANGED <<commands, cmd>>
    BY <1>9 DEF HandleStop, Handling, Return, Close
  <2>2. PICK i \in PlayIDs : i = cmd.id
    BY <2>1 DEF Types, WorkerTypes
  <2>3. agenda' = <<Unmark(i), Reply("ok")>>
    BY <2>1, <2>2
  <2>4. Todo' = {Unmark(i), Reply("ok")}
    BY <2>3, TodoOfShape
  <2>5. AgendaShape'
    BY <2>3 DEF AgendaShape
  <2> QED BY <1>1, <2>1, <2>2, <2>4, <2>5 DEF Effect, Stops
<1>10. CASE HandleStopAll \/ HandleShutdown
  <2>1. /\ agenda' = <<Clear, Reply("ok")>> /\ cmd.kind \in {"StopAll", "Shutdown"}
        /\ files' = {} /\ Silently(files)
        /\ UNCHANGED <<commands, cmd>>
    BY <1>10 DEF HandleStopAll, HandleShutdown, Handling, CloseAll, Close
  <2>2. Todo' = {Clear, Reply("ok")}
    BY <2>1, TodoOfShape
  <2>3. AgendaShape'
    BY <2>1 DEF AgendaShape
  <2> QED BY <1>1, <2>1, <2>2, <2>3 DEF Effect, StopsAll
<1> QED BY <1>2, <1>4, <1>5, <1>6, <1>7, <1>8, <1>9, <1>10 DEF HandleCommand

\* What recoverCriticalError does (worker.go:284).
LEMMA EngineEffect ==
    ASSUME Types, AgendaShape, ControlInv, CheckEngine
    PROVE  Effect /\ AgendaShape'
<1>1. CASE EngineFine
  BY <1>1, QuietEffect DEF EngineFine, WorkerAt, voices, Effect
<1>2. CASE EngineCritical
  BY <1>2, QuietEffect DEF EngineCritical, WorkerAt, voices, Effect
<1>3. CASE CloseAfterCritical
  <2>1. PICK i \in visit : Close({i}) /\ agenda' = EndOf(i, "Error")
    BY <1>3 DEF CloseAfterCritical
  <2>2. i \in files
    BY <1>3, <2>1 DEF CloseAfterCritical, ControlInv, WorkerAt
  <2>3. "Error" \in EventTypes /\ UNCHANGED <<commands, cmd, outcomes>>
    BY <1>3 DEF CloseAfterCritical, EventTypes
  <2> QED BY <2>1, <2>2, <2>3, EndEffect DEF Effect
<1>4. CASE RecreateEngine
  BY <1>4, QuietEffect DEF RecreateEngine, MayRecreate, WorkerAt, Effect
<1>5. CASE RecreateFails
  <2>1. agenda = <<>> /\ UNCHANGED <<commands, cmd, files, outcomes>>
    BY <1>5 DEF RecreateFails, MayRecreate, WorkerAt
  <2>2. CASE cmd = NoCommand
    <3>1. agenda' = agenda
      BY <1>5, <2>2 DEF RecreateFails
    <3> QED BY <2>1, <3>1, QuietEffect DEF Effect
  <2>3. CASE cmd # NoCommand
    <3>1. agenda' = <<Reply("failed")>>
      BY <1>5, <2>3 DEF RecreateFails
    <3>2. Todo' = {Reply("failed")} /\ AgendaShape'
      BY <3>1, ReplyEffect
    <3> QED BY <2>1, <2>3, <3>2 DEF Effect, Refuses
  <2> QED BY <2>2, <2>3
<1> QED BY <1>1, <1>2, <1>3, <1>4, <1>5 DEF CheckEngine

\* What updateFadeOuts, reclaimFilePlaybacks and refillFilePlaybacks do.
LEMMA MaintainEffect ==
    ASSUME Types, AgendaShape, ControlInv, Maintain
    PROVE  Effect /\ AgendaShape'
<1> USE DEF WorkerAt, Maintaining
<1>1. ASSUME NEW place, NEW i, GoesOn(place, i)
      PROVE  Effect /\ AgendaShape'
  BY <1>1, QuietEffect DEF GoesOn, Effect
<1>2. ASSUME NEW place, NEW i \in files, NEW t \in EventTypes, Ends(place, i, t)
      PROVE  Effect /\ AgendaShape'
  BY <1>2, EndEffect DEF Ends, Effect
<1>3. CASE UpdateFadeOut
  <2>1. PICK i \in visit :
           \/ GoesOn("fade", i)
           \/ i \in fading /\ (Ends("fade", i, "Stopped") \/ Ends("fade", i, "Error"))
    BY <1>3 DEF UpdateFadeOut
  <2>2. i \in fading => i \in files
    BY DEF Types, WorkerTypes
  <2>3. "Stopped" \in EventTypes /\ "Error" \in EventTypes
    BY DEF EventTypes
  <2> QED BY <1>1, <1>2, <2>1, <2>2, <2>3
<1>4. CASE ReclaimFile
  <2>1. PICK i \in visit : GoesOn("reclaim", i) \/ \E t \in EventTypes : Ends("reclaim", i, t)
    BY <1>4 DEF ReclaimFile, EventTypes
  <2>2. CASE GoesOn("reclaim", i)
    BY <1>1, <2>2
  <2>3. CASE \E t \in EventTypes : Ends("reclaim", i, t)
    <3>1. i \in files
      BY <2>3 DEF Ends, ControlInv
    <3> QED BY <1>2, <2>3, <3>1
  <2> QED BY <2>1, <2>2, <2>3
<1>5. ASSUME NEW place, NEW next, EndOfRange(place, next)
      PROVE  Effect /\ AgendaShape'
  BY <1>5, QuietEffect DEF EndOfRange, Effect
<1>6. CASE RefillFile
  <2>1. PICK i \in visit \cap files :
           \/ UNCHANGED <<files, fading, agenda>>
           \/ Close({i}) /\ agenda' = <<Push("Error", i), Unmark(i)>>
    BY <1>6 DEF RefillFile
  <2>2. agenda = <<>> /\ UNCHANGED <<commands, cmd, outcomes>>
    BY <1>6 DEF RefillFile
  <2>3. "Error" \in EventTypes
    BY DEF EventTypes
  <2>4. CASE UNCHANGED <<files, fading, agenda>>
    BY <2>2, <2>4, QuietEffect DEF Effect
  <2>5. CASE Close({i}) /\ agenda' = <<Push("Error", i), Unmark(i)>>
    <3>1. Closes /\ AgendaShape'
      BY <2>1, <2>2, <2>3, <2>5, EndEffect
    <3> QED BY <3>1 DEF Effect
  <2> QED BY <2>1, <2>4, <2>5
<1>7. CASE PollCommand
  BY <1>7, ReceiveEffect DEF PollCommand, voices, Effect
<1>8. CASE PollNothing
  BY <1>8, QuietEffect DEF PollNothing, Effect
<1>9. CASE EndOfRefill
  BY <1>9, QuietEffect DEF EndOfRefill, Effect
<1> QED BY <1>3, <1>4, <1>5, <1>6, <1>7, <1>8, <1>9 DEF Maintain

\* What own steps leave alone.
Others == UNCHANGED <<running, nextID, active, epoch, events, call, reply>>

\* The worker's own steps begin with an empty agenda and leave shared state alone.
LEMMA OwnUnchanged ==
    ASSUME Own
    PROVE  agenda = <<>> /\ Todo = {} /\ Others
<1> SUFFICES agenda = <<>> /\ Untouched
  BY TodoOfShape DEF Untouched, Others, shared, client
<1> USE DEF WorkerAt
<1>1. CASE TakeCommand \/ Tick \/ Exit
  BY <1>1 DEF TakeCommand, Tick, Exit
<1>2. CASE CheckEngine
  BY <1>2 DEF CheckEngine, EngineFine, EngineCritical, CloseAfterCritical, RecreateEngine,
              RecreateFails, MayRecreate
<1>3. CASE HandleCommand
  BY <1>3 DEF HandleCommand, HandlePlay, HandlePlayFails, HandleSetPosition,
         HandleStopUnknown, HandleStopFading, HandleStop, HandleStopAllFading,
         HandleStopAll, HandleShutdown, Handling
<1>4. CASE Maintain
  <2>1. CASE UpdateFadeOut \/ ReclaimFile
    BY <2>1 DEF UpdateFadeOut, ReclaimFile, GoesOn, Ends, Maintaining
  <2>2. CASE EndOfRange("fade", "reclaim") \/ EndOfRange("reclaim", "refill")
    BY <2>2 DEF EndOfRange, Maintaining
  <2>3. CASE RefillFile \/ PollCommand \/ PollNothing \/ EndOfRefill
    BY <2>3 DEF RefillFile, PollCommand, PollNothing, EndOfRefill, Maintaining
  <2> QED BY <1>4, <2>1, <2>2, <2>3 DEF Maintain
<1> QED BY <1>1, <1>2, <1>3, <1>4 DEF Own

\* Every own step of the worker has one of the seven effects.
LEMMA OwnEffect ==
    ASSUME Types, AgendaShape, ControlInv, Own
    PROVE  Effect /\ AgendaShape'
<1>1. CASE TakeCommand
  BY <1>1, ReceiveEffect DEF TakeCommand, WorkerAt, voices, Effect
<1>2. CASE Tick
  BY <1>2, QuietEffect DEF Tick, WorkerAt, voices, Effect
<1>3. CASE Exit
  BY <1>3, QuietEffect DEF Exit, WorkerAt, Effect
<1> QED BY <1>1, <1>2, <1>3, HandleEffect, EngineEffect, MaintainEffect DEF Own

--------------------------------------------------------------------------------
\* Client steps.  Client c leaves the worker and the other clients alone.
Aside(c) ==
    /\ ~(call[c].pc = "wait" /\ reply[c] = "none")
    /\ call' \in [Clients -> Calls]
    /\ reply' \in [Clients -> {"none", "ok", "failed"}]
    /\ \A d \in Clients : d # c => call'[d] = call[d] /\ reply'[d] = reply[d]
    /\ UNCHANGED <<control, agenda, voices, outcomes>>

\* Every client step leaves the worker, and what others wait for, alone.
LEMMA AsideStep ==
    ASSUME WInv, NEW c \in Clients, ClientCall(c) \/ ClientStep(c)
    PROVE  Aside(c)
<1>0. Types /\ ClientTypes /\ CallInv(c)
  BY DEF WInv, Types, ClientInv
<1> USE DEF Moves
<1>1. CASE Submits(c)
  BY <1>0, <1>1 DEF Submits, Aside, ClientTypes
<1>2. CASE PollEvent(c)
  BY <1>0, <1>2, PollMoves DEF PollEvent, Aside, ClientTypes
<1>3. CASE Send(c)
  <2>1. Moves(c, "wait", call[c].cmd, call[c].epoch)
    BY <1>0, <1>3, MovesOn DEF Send, Places
  <2> QED BY <1>0, <1>3, <2>1 DEF Send, Aside, ClientTypes
<1>4. CASE Answered(c)
  <2>1. call' \in [Clients -> Calls] /\ \A d \in Clients : d # c => call'[d] = call[d]
    BY <1>0, <1>4, AnswerMoves
  <2>2. reply' \in [Clients -> {"none", "ok", "failed"}]
        /\ \A d \in Clients : d # c => reply'[d] = reply[d]
    BY <1>0, <1>4 DEF Answered, ClientTypes
  <2> QED BY <1>0, <1>4, <2>1, <2>2 DEF Answered, Aside, ClientTypes
<1>5. CASE UnmarkRefused(c)
  <2>1. Moves(c, "idle", NoCommand, 0)
    BY <1>0, <1>5, MovesToIdle DEF UnmarkRefused
  <2> QED BY <1>0, <1>5, <2>1 DEF UnmarkRefused, Aside, ClientTypes
<1>6. CASE PollReceive(c)
  <2>1. Moves(c, "idle", NoCommand, 0)
    BY <1>0, <1>6, MovesToIdle DEF PollReceive
  <2> QED BY <1>0, <1>6, <2>1 DEF PollReceive, Aside, ClientTypes
<1>7. CASE ShutdownDone(c)
  <2>1. Moves(c, "clear", call[c].cmd, call[c].epoch)
    BY <1>0, <1>7, MovesOn DEF ShutdownDone, Places
  <2> QED BY <1>0, <1>7, <2>1 DEF ShutdownDone, Aside, ClientTypes
<1>8. CASE ShutdownClear(c)
  <2>1. Moves(c, "idle", NoCommand, 0)
    BY <1>0, <1>8, MovesToIdle DEF ShutdownClear
  <2> QED BY <1>0, <1>8, <2>1 DEF ShutdownClear, Aside, ClientTypes
<1> QED BY <1>0, <1>1, <1>2, <1>3, <1>4, <1>5, <1>6, <1>7, <1>8, CallIsSubmitted DEF ClientStep

\* The other clients' calls stay as they are, so only what relates them to c's
\* call has to be shown.
LEMMA CallInvKept ==
    ASSUME WInv, NEW c \in Clients, Aside(c), nextID \in Nat, nextID' \in Nat, nextID' >= nextID,
           CallInv(c)'
    PROVE  ClientInv'
<1> SUFFICES ASSUME NEW d \in Clients, d # c PROVE CallInv(d)'
  BY DEF ClientInv
<1>1. call'[d] = call[d] /\ reply'[d] = reply[d] /\ at' = at
  BY DEF Aside, control
<1>2. CallInv(d)
  BY DEF WInv, ClientInv
<1>3. /\ call[d].pc \in {"idle", "poll"} => call[d].cmd = NoCommand
      /\ call[d].pc \notin {"idle", "poll"} => call[d].cmd \in Commands /\ call[d].cmd.from = d
      /\ call[d].pc # "idle" => call[d].epoch \in Epochs
      /\ call[d].pc # "wait" => reply[d] = "none"
      /\ call[d].pc = "unmark" => call[d].cmd.kind = "Play"
      /\ call[d].pc \in {"done", "clear"} => InShutdown(d)
      /\ call[d].pc = "clear" => at = "down"
  BY <1>2 DEF CallInv
<1>4. call'[d].cmd.kind = "Play" => call'[d].cmd.id \in 1..nextID' - 1
  BY <1>1, <1>2 DEF CallInv
<1>5. ASSUME NEW e \in Clients \ {d}
      PROVE  /\ call'[d].cmd.kind = "Play" /\ call'[e].cmd.kind = "Play"
                    => call'[d].cmd.id # call'[e].cmd.id
             /\ ~(InShutdown(d) /\ InShutdown(e))'
  <2>1. CASE e = c
    BY <2>1, <1>1 DEF CallInv, InShutdown
  <2>2. CASE e # c
    BY <2>2, <1>1, <1>2 DEF CallInv, InShutdown, Aside
  <2> QED BY <2>1, <2>2
<1> QED BY <1>1, <1>3, <1>4, <1>5 DEF CallInv, InShutdown

\* Play ids are reserved in order.
LEMMA NextIDGrows ==
    ASSUME WInv, NEW c \in Clients, ClientCall(c) \/ ClientStep(c)
    PROVE  /\ nextID \in Nat /\ nextID' \in Nat /\ nextID' >= nextID
           /\ nextID' \in 1..MaxPlays + 1
<1>1. nextID \in 1..MaxPlays + 1
  BY DEF WInv, Types, SharedTypes
<1>2. CASE Submits(c)
  BY <1>1, <1>2, Bounds DEF Submits
<1>3. CASE PollEvent(c) \/ ClientStep(c)
  BY <1>1, <1>3, Bounds DEF PollEvent, ClientStep, Send, Answered, UnmarkRefused, PollReceive,
     ShutdownDone, ShutdownClear, shared
<1> QED BY <1>2, <1>3, CallIsSubmitted DEF WInv

\* Client steps keep what holds of the calls.
LEMMA ClientKeepsClients ==
    ASSUME WInv, NEW c \in Clients, ClientCall(c) \/ ClientStep(c)
    PROVE  ClientInv'
<1>0. Types /\ ClientTypes /\ CallInv(c) /\ Aside(c) /\ SharedTypes
  BY AsideStep DEF WInv, Types, ClientInv
<1>n. nextID \in Nat /\ nextID' \in Nat /\ nextID' >= nextID
  BY NextIDGrows
<1> SUFFICES CallInv(c)'
  BY <1>0, <1>n, CallInvKept
<1>d. ASSUME NEW d \in Clients, d # c PROVE call'[d] = call[d] /\ CallInv(d)
  BY <1>d, <1>0 DEF Aside, WInv, ClientInv
<1>i. ASSUME NEW e, Moves(c, "idle", NoCommand, e), reply'[c] = "none"
      PROVE  CallInv(c)'
  BY <1>i, NoCommandFields DEF CallInv, InShutdown, Moves
<1>a. at' = at
  BY <1>0 DEF Aside, control
<1>1. CASE Submits(c)
  <2>1. PICK k \in Commands :
          /\ k.from = c /\ Moves(c, "send", k, epoch)
          /\ k.kind = "Shutdown" => \A d \in Clients : ~InShutdown(d)
          /\ k.kind = "Play" => k.id = nextID /\ nextID' = nextID + 1 /\ nextID \in PlayIDs
    BY <1>1 DEF Submits
  <2>2. reply'[c] = "none" /\ running
    BY <1>0, <1>1 DEF Submits, CallInv
  <2>3. epoch \in Epochs
    BY <1>0, <2>2 DEF SharedTypes
  <2>4. call'[c].pc = "send" /\ call'[c].cmd = k /\ call'[c].epoch = epoch
    BY <2>1 DEF Moves
  <2>5. ASSUME NEW d \in Clients \ {c}
        PROVE  /\ k.kind = "Play" /\ call'[d].cmd.kind = "Play" => k.id # call'[d].cmd.id
               /\ ~(InShutdown(c) /\ InShutdown(d))'
    <3>1. call[d].cmd.kind = "Play" => call[d].cmd.id \in 1..nextID - 1
      BY <1>d DEF CallInv
    <3> QED BY <1>d, <1>n, <2>1, <2>4, <3>1 DEF InShutdown
  <2>6. k.kind = "Play" => k.id \in 1..nextID' - 1
    BY <2>1, <1>n, Bounds
  <2> QED BY <2>1, <2>2, <2>3, <2>4, <2>5, <2>6 DEF CallInv
<1>2. ASSUME NEW pc \in Places, Moves(c, pc, call[c].cmd, call[c].epoch),
             nextID' = nextID, pc \notin {"idle", "poll"}, call[c].pc \notin {"idle", "poll"},
             pc # "wait" => reply'[c] = "none",
             pc = "unmark" => call[c].cmd.kind = "Play",
             pc \in {"done", "clear"} => InShutdown(c),
             pc = "clear" => at = "down"
      PROVE  CallInv(c)'
  <2>1. call'[c].pc = pc /\ call'[c].cmd = call[c].cmd /\ call'[c].epoch = call[c].epoch
    BY <1>2 DEF Moves
  <2>2. ASSUME NEW d \in Clients \ {c}
        PROVE  /\ call[c].cmd.kind = "Play" /\ call'[d].cmd.kind = "Play"
                    => call[c].cmd.id # call'[d].cmd.id
               /\ ~(InShutdown(c) /\ InShutdown(d))'
    BY <1>0, <1>d, <2>1 DEF CallInv, InShutdown
  <2>3. /\ call[c].cmd \in Commands /\ call[c].cmd.from = c /\ call[c].epoch \in Epochs
        /\ call[c].cmd.kind = "Play" => call[c].cmd.id \in 1..nextID - 1
    BY <1>0, <1>2 DEF CallInv
  <2> QED BY <1>2, <1>a, <2>1, <2>2, <2>3 DEF CallInv, InShutdown
<1>3. CASE PollEvent(c)
  <2>1. Moves(c, "poll", call[c].cmd, epoch) /\ call[c].cmd = NoCommand /\ epoch \in Epochs
        /\ reply'[c] = "none"
    BY <1>0, <1>3, PollMoves DEF PollEvent, CallInv, SharedTypes
  <2> QED BY <2>1, NoCommandFields DEF CallInv, InShutdown, Moves
<1>4. CASE Send(c)
  <2>1. Moves(c, "wait", call[c].cmd, call[c].epoch)
    BY <1>0, <1>4, MovesOn DEF Send, Places
  <2> QED BY <1>2, <1>4, <2>1 DEF Send, shared, Places
<1>5. CASE Answered(c)
  <2>1. reply'[c] = "none" /\ nextID' = nextID /\ call[c].pc = "wait"
    BY <1>0, <1>5 DEF Answered, shared, ClientTypes
  <2>2. CASE Moves(c, "unmark", call[c].cmd, call[c].epoch) /\ call[c].cmd.kind = "Play"
    BY <1>2, <2>1, <2>2 DEF Places
  <2>3. CASE Moves(c, "done", call[c].cmd, call[c].epoch) /\ call[c].cmd.kind = "Shutdown"
    BY <1>2, <2>1, <2>3 DEF Places, InShutdown
  <2>4. CASE Moves(c, "idle", NoCommand, 0)
    BY <1>i, <2>1, <2>4
  <2> QED BY <1>0, <1>5, <2>2, <2>3, <2>4, AnswerMoves
<1>6. CASE UnmarkRefused(c) \/ PollReceive(c) \/ ShutdownClear(c)
  <2>1. Moves(c, "idle", NoCommand, 0)
    BY <1>0, <1>6, MovesToIdle DEF UnmarkRefused, PollReceive, ShutdownClear
  <2>2. reply'[c] = "none"
    BY <1>0, <1>6 DEF UnmarkRefused, PollReceive, ShutdownClear, CallInv
  <2> QED BY <1>i, <2>1, <2>2
<1>7. CASE ShutdownDone(c)
  <2>1. Moves(c, "clear", call[c].cmd, call[c].epoch)
    BY <1>0, <1>7, MovesOn DEF ShutdownDone, Places
  <2>2. reply'[c] = "none" /\ nextID' = nextID /\ call[c].pc = "done" /\ at = "down"
        /\ InShutdown(c)
    BY <1>0, <1>7 DEF ShutdownDone, shared, CallInv
  <2> QED BY <1>2, <2>1, <2>2 DEF Places
<1> QED BY <1>0, <1>1, <1>3, <1>4, <1>5, <1>6, <1>7, CallIsSubmitted DEF ClientStep

--------------------------------------------------------------------------------
\* The Plays that are not answered, client by client.
PendingOf(c) == IF Waiting(c) /\ call[c].cmd.kind = "Play" THEN {call[c].cmd.id} ELSE {}
\* The refused Plays whose ids are still to be unmarked.
RefusedOf(c) ==
    IF call[c].cmd.kind = "Play" /\ (reply[c] = "failed" \/ call[c].pc = "unmark")
    THEN {call[c].cmd.id} ELSE {}

\* A Play is pending when it is some client's.
LEMMA PendingIsOf ==
    ASSUME NEW id
    PROVE  /\ PlayPending(id) <=> \E c \in Clients : id \in PendingOf(c)
           /\ PlayPending(id)' <=> \E c \in Clients : id \in PendingOf(c)'
BY DEF PlayPending, PendingOf

\* The ids a step reserves: at most nextID.
Grows ==
    /\ nextID' \in {nextID, nextID + 1}
    /\ \A id \in Nat : PlayPending(id)' <=> PlayPending(id) \/ (id = nextID /\ nextID' = nextID + 1)
    /\ \A d \in Clients, id \in Nat : id \in PendingOf(d)' =>
          \/ id \in PendingOf(d) /\ call'[d].cmd = call[d].cmd
          \/ id = nextID /\ nextID' = nextID + 1

\* A step of client c that reserves at most one id.
LEMMA GrowsByOne ==
    ASSUME nextID \in Nat, nextID' \in {nextID, nextID + 1}, NEW c \in Clients,
           PendingOf(c)' = PendingOf(c) \cup (IF nextID' = nextID THEN {} ELSE {nextID}),
           PendingOf(c) # {} => call'[c].cmd = call[c].cmd,
           \A d \in Clients : d # c => call'[d] = call[d] /\ reply'[d] = reply[d]
    PROVE  Grows
<1>1. ASSUME NEW d \in Clients, d # c PROVE PendingOf(d)' = PendingOf(d) /\ call'[d] = call[d]
  BY <1>1 DEF PendingOf, Waiting
<1>2. ASSUME NEW id \in Nat, NEW d \in Clients, id \in PendingOf(d)'
      PROVE  \/ id \in PendingOf(d) /\ call'[d].cmd = call[d].cmd
             \/ id = nextID /\ nextID' = nextID + 1
  <2>1. CASE d = c
    BY <2>1, <1>2
  <2>2. CASE d # c
    BY <2>2, <1>1, <1>2
  <2> QED BY <2>1, <2>2
<1>3. ASSUME NEW id \in Nat
      PROVE  (\E d \in Clients : id \in PendingOf(d)')
                 <=> (\E d \in Clients : id \in PendingOf(d)) \/ (id = nextID /\ nextID' = nextID + 1)
  <2>1. ASSUME NEW d \in Clients, id \in PendingOf(d) PROVE id \in PendingOf(d)'
    <3>1. CASE d = c
      BY <2>1, <3>1
    <3>2. CASE d # c
      BY <2>1, <3>2, <1>1
    <3> QED BY <3>1, <3>2
  <2>2. (id = nextID /\ nextID' = nextID + 1) => id \in PendingOf(c)'
    OBVIOUS
  <2> QED BY <1>2, <2>1, <2>2
<1>4. ASSUME NEW id \in Nat
      PROVE  PlayPending(id)' <=> PlayPending(id) \/ (id = nextID /\ nextID' = nextID + 1)
  BY <1>3, PendingIsOf
<1> QED BY <1>2, <1>4 DEF Grows

\* Client steps only make the Play they reserve an id for pending.
LEMMA ClientGrows ==
    ASSUME WInv, NEW c \in Clients, ClientCall(c) \/ ClientStep(c)
    PROVE  Grows
<1>0. Types /\ ClientTypes /\ CallInv(c) /\ Aside(c) /\ nextID \in Nat
  BY AsideStep, NextIDGrows DEF WInv, Types, ClientInv
<1>i. NoCommand.kind # "Play"
  BY NoCommandFields
<1>c. \A d \in Clients : d # c => call'[d] = call[d] /\ reply'[d] = reply[d]
  BY <1>0 DEF Aside
<1>1. CASE Submits(c)
  <2>1. PICK k \in Commands :
          /\ Moves(c, "send", k, epoch)
          /\ IF k.kind = "Play" THEN k.id = nextID /\ nextID' = nextID + 1 ELSE nextID' = nextID
    BY <1>1 DEF Submits
  <2>2. reply'[c] = "none" /\ PendingOf(c) = {}
    BY <1>0, <1>1 DEF Submits, CallInv, PendingOf, Waiting
  <2>3. PendingOf(c)' = IF k.kind = "Play" THEN {k.id} ELSE {}
    BY <2>1, <2>2 DEF PendingOf, Waiting, Moves
  <2>4. PendingOf(c)' = PendingOf(c) \cup (IF nextID' = nextID THEN {} ELSE {nextID})
    BY <2>1, <2>2, <2>3, <1>0
  <2> QED BY <1>0, <1>c, <2>1, <2>2, <2>4, GrowsByOne
<1>2. ASSUME PendingOf(c)' = PendingOf(c), nextID' = nextID,
             PendingOf(c) # {} => call'[c].cmd = call[c].cmd
      PROVE  Grows
  BY <1>0, <1>2, <1>c, GrowsByOne
<1>3. ASSUME NEW pc, NEW k, NEW e, Moves(c, pc, k, e), pc \notin {"send", "wait"},
             call[c].pc \notin {"send", "wait"} \/ reply[c] # "none", nextID' = nextID
      PROVE  Grows
  <2>1. PendingOf(c) = {} /\ PendingOf(c)' = {}
    BY <1>3 DEF PendingOf, Waiting, Moves
  <2> QED BY <1>2, <1>3, <2>1
<1>4. CASE PollEvent(c)
  BY <1>0, <1>3, <1>4, PollMoves DEF PollEvent, shared
<1>5. CASE Send(c)
  <2>1. Moves(c, "wait", call[c].cmd, call[c].epoch)
    BY <1>0, <1>5, MovesOn DEF Send, Places
  <2>2. reply'[c] = reply[c] /\ call[c].pc = "send" /\ nextID' = nextID
    BY <1>0, <1>5 DEF Send, shared
  <2>3. PendingOf(c)' = PendingOf(c)
    BY <2>1, <2>2 DEF PendingOf, Waiting, Moves
  <2> QED BY <1>2, <2>1, <2>2, <2>3 DEF Moves
<1>6. CASE Answered(c)
  <2>1. \E pc, k, e : Moves(c, pc, k, e) /\ pc \notin {"send", "wait"}
    BY <1>0, <1>6, AnswerMoves
  <2> QED BY <1>3, <1>6, <2>1 DEF Answered, shared
<1>7. CASE UnmarkRefused(c) \/ PollReceive(c) \/ ShutdownClear(c)
  <2>1. Moves(c, "idle", NoCommand, 0)
    BY <1>0, <1>7, MovesToIdle DEF UnmarkRefused, PollReceive, ShutdownClear
  <2> QED BY <1>3, <1>7, <2>1 DEF UnmarkRefused, PollReceive, ShutdownClear, shared
<1>8. CASE ShutdownDone(c)
  <2>1. Moves(c, "clear", call[c].cmd, call[c].epoch)
    BY <1>0, <1>8, MovesOn DEF ShutdownDone, Places
  <2> QED BY <1>3, <1>8, <2>1 DEF ShutdownDone, shared
<1> QED BY <1>0, <1>1, <1>4, <1>5, <1>6, <1>7, <1>8, CallIsSubmitted DEF ClientStep

\* A step of c disturbs no client that waits for an answer.
LEMMA AwaitsKept ==
    ASSUME NEW c \in Clients, Aside(c), NEW k, Awaits(k)
    PROVE  k.from # c /\ Awaits(k)' /\ call'[k.from] = call[k.from]
BY DEF Awaits, Aside

\* The commands of one channel, seen as values.
Queued(e, k) == \E n \in DOMAIN commands[e] : commands[e][n] = k
Distinct(s) == \A m, n \in DOMAIN s : m # n => s[m] # s[n]

\* QueueInv and CmdInv, over the commands instead of their places.
LEMMA QueueInvBy ==
    /\ QueueInv <=> \A e \in Epochs :
           /\ Distinct(commands[e])
           /\ \A k : Queued(e, k) => Awaits(k) /\ call[k.from].epoch = e
    /\ QueueInv' <=> \A e \in Epochs :
           /\ Distinct(commands'[e])
           /\ \A k : Queued(e, k)' => Awaits(k)' /\ call'[k.from].epoch = e
    /\ CmdInv <=> (cmd # NoCommand => Awaits(cmd) /\ \A e \in Epochs : ~Queued(e, cmd))
BY DEF QueueInv, CmdInv, Queued, Distinct, Awaits

\* CmdInv of a command with a name.
LEMMA CmdInvBy ==
    ASSUME NEW k
    PROVE  /\ cmd = k => (CmdInv <=> (k # NoCommand => Awaits(k) /\ \A e \in Epochs : ~Queued(e, k)))
           /\ cmd' = k => (CmdInv' <=> (k # NoCommand => Awaits(k)'
                                                   /\ \A e \in Epochs : ~Queued(e, k)'))
BY DEF CmdInv, Queued, Awaits

\* Sending a command that is not in the queue.
LEMMA AppendQueue ==
    ASSUME NEW s \in Seq(Commands), NEW x \in Commands
    PROVE  /\ Append(s, x) \in Seq(Commands) /\ Len(Append(s, x)) = Len(s) + 1
           /\ \A k : (\E n \in DOMAIN Append(s, x) : Append(s, x)[n] = k)
                         <=> (\E n \in DOMAIN s : s[n] = k) \/ k = x
           /\ Distinct(s) /\ ~(\E n \in DOMAIN s : s[n] = x) => Distinct(Append(s, x))
<1>1. /\ Append(s, x) \in Seq(Commands) /\ Len(Append(s, x)) = Len(s) + 1
      /\ Append(s, x)[Len(s) + 1] = x
      /\ \A n \in 1..Len(s) : Append(s, x)[n] = s[n]
      /\ DOMAIN s = 1..Len(s) /\ DOMAIN Append(s, x) = 1..Len(s) + 1 /\ Len(s) \in Nat
  OBVIOUS
<1>2. \A n \in DOMAIN Append(s, x) : n \in DOMAIN s \/ n = Len(s) + 1
  BY <1>1
<1>3. DOMAIN s \subseteq DOMAIN Append(s, x) /\ Len(s) + 1 \in DOMAIN Append(s, x)
  BY <1>1
<1> DEFINE t == Append(s, x)
<1> HIDE DEF t
<1>4. ASSUME NEW k
      PROVE  (\E n \in DOMAIN t : t[n] = k) <=> (\E n \in DOMAIN s : s[n] = k) \/ k = x
  BY <1>1, <1>2, <1>3 DEF t
<1>5. Distinct(s) /\ ~(\E n \in DOMAIN s : s[n] = x) => Distinct(t)
  BY <1>1, <1>2 DEF t, Distinct
<1> QED BY <1>1, <1>4, <1>5 DEF t

\* Client steps keep the queues: Send adds the command its client waits for.
LEMMA ClientCommands ==
    ASSUME WInv, NEW c \in Clients, ClientCall(c) \/ ClientStep(c)
    PROVE  /\ commands' \in [Epochs -> Seq(Commands)]
           /\ \A e \in Epochs : Len(commands'[e]) <= CommandCap
           /\ QueueInv' /\ CmdInv'
<1>0. Types /\ ChannelTypes /\ ClientTypes /\ CallInv(c) /\ Aside(c) /\ QueueInv /\ CmdInv
  BY AsideStep DEF WInv, Types, ClientInv
<1>c. PICK k : k = cmd /\ cmd' = k
  BY <1>0 DEF Aside, control
<1>1. CASE Send(c)
  <2>1. PICK e \in Epochs : e = call[c].epoch
    BY <1>0, <1>1 DEF Send, CallInv
  <2>2. PICK x \in Commands : x = call[c].cmd /\ x.from = c
    BY <1>0, <1>1 DEF Send, CallInv
  <2>3. /\ commands' = [commands EXCEPT ![e] = Append(commands[e], x)]
        /\ Len(commands[e]) < CommandCap /\ reply'[c] = "none"
        /\ Moves(c, "wait", x, e) /\ call[c].pc = "send"
    BY <1>0, <1>1, <2>1, <2>2, MovesOn DEF Send, CallInv, Places
  <2>4. commands'[e] = Append(commands[e], x) /\ commands[e] \in Seq(Commands)
        /\ \A d \in Epochs : d # e => commands'[d] = commands[d]
    BY <1>0, <2>3 DEF ChannelTypes
  <2>5. Awaits(x)' /\ call'[x.from].epoch = e /\ ~Awaits(x)
    BY <2>2, <2>3 DEF Awaits, Moves
  <2>6. \A d \in Epochs : ~Queued(d, x)
    BY <1>0, <2>5, QueueInvBy
  <2>7. \A j : Queued(e, j)' <=> Queued(e, j) \/ j = x
    BY <2>4, AppendQueue DEF Queued
  <2>8. Distinct(commands'[e])
    BY <1>0, <2>4, <2>6, AppendQueue, QueueInvBy DEF Queued
  <2>9. ASSUME NEW d \in Epochs, d # e PROVE \A j : Queued(d, j)' <=> Queued(d, j)
    BY <2>4, <2>9 DEF Queued
  <2>10. QueueInv'
    <3>1. ASSUME NEW d \in Epochs, NEW j, Queued(d, j)'
          PROVE  Awaits(j)' /\ call'[j.from].epoch = d
      <4>1. CASE Queued(d, j)
        <5>1. Awaits(j) /\ call[j.from].epoch = d
          BY <1>0, <4>1, QueueInvBy
        <5> QED BY <1>0, <5>1, AwaitsKept
      <4>2. CASE j = x /\ d = e
        BY <4>2, <2>5
      <4> QED BY <2>7, <2>9, <3>1, <4>1, <4>2
    <3>2. ASSUME NEW d \in Epochs PROVE Distinct(commands'[d])
      BY <1>0, <2>4, <2>8, QueueInvBy
    <3> QED BY <3>1, <3>2, QueueInvBy
  <2>11. CmdInv'
    <3>1. k # NoCommand => Awaits(k) /\ \A d \in Epochs : ~Queued(d, k)
      BY <1>0, <1>c, CmdInvBy
    <3>2. k # NoCommand => Awaits(k)' /\ k # x
      BY <1>0, <3>1, <2>5, AwaitsKept
    <3> QED BY <1>c, <3>1, <3>2, <2>7, <2>9, CmdInvBy
  <2> QED
    <3>1. commands' \in [Epochs -> Seq(Commands)]
      BY <1>0, <2>3, <2>4, AppendQueue DEF ChannelTypes
    <3>2. ASSUME NEW d \in Epochs PROVE Len(commands'[d]) <= CommandCap
      <4>1. Len(commands'[e]) = Len(commands[e]) + 1 /\ Len(commands[e]) \in Nat
        BY <2>4, AppendQueue
      <4>2. Len(commands'[e]) <= CommandCap
        BY <4>1, <2>3, Bounds
      <4> QED BY <1>0, <2>4, <4>2 DEF ChannelTypes
    <3> QED BY <2>10, <2>11, <3>1, <3>2
<1>2. CASE commands' = commands
  <2>1. \A d \in Epochs : \A j : Queued(d, j)' <=> Queued(d, j)
    BY <1>2 DEF Queued
  <2>2. ASSUME NEW d \in Epochs, NEW j, Queued(d, j)'
        PROVE  Awaits(j)' /\ call'[j.from].epoch = d
    BY <1>0, <2>1, <2>2, QueueInvBy, AwaitsKept
  <2>3. QueueInv'
    BY <1>0, <1>2, <2>2, QueueInvBy
  <2>4. CmdInv'
    BY <1>0, <1>c, <2>1, CmdInvBy, AwaitsKept
  <2> QED BY <1>0, <1>2, <2>3, <2>4 DEF ChannelTypes
<1>3. ASSUME ~Send(c) PROVE commands' = commands
  BY <1>0, <1>3, CallIsSubmitted DEF ClientStep, Submits, PollEvent, Answered, UnmarkRefused,
     PollReceive, ShutdownDone, ShutdownClear
<1> QED BY <1>1, <1>2, <1>3

--------------------------------------------------------------------------------
\* A step that adds no event: clients and the worker's drop only remove them.
Shrinks ==
    /\ events' \in [Epochs -> Seq(Events)]
    /\ \A e \in Epochs :
          /\ Len(events'[e]) <= Len(events[e])
          /\ \A n \in DOMAIN events'[e] : \E m \in DOMAIN events[e] : events'[e][n] = events[e][m]

\* PollEvent's receive and pushEvent's drop take the oldest event.
LEMMA ShrinksBy ==
    ASSUME ChannelTypes,
           \/ events' = events
           \/ \E e \in Epochs : events' = [events EXCEPT ![e] = IF @ = <<>> THEN @ ELSE Tail(@)]
    PROVE  Shrinks
<1>1. CASE events' = events
  BY <1>1 DEF Shrinks, ChannelTypes
<1>2. CASE \E e \in Epochs : events' = [events EXCEPT ![e] = IF @ = <<>> THEN @ ELSE Tail(@)]
  <2>1. PICK e \in Epochs : events' = [events EXCEPT ![e] = IF @ = <<>> THEN @ ELSE Tail(@)]
    BY <1>2
  <2>2. PICK s \in Seq(Events) : s = events[e]
    BY DEF ChannelTypes
  <2>3. PICK t : t = (IF s = <<>> THEN s ELSE Tail(s))
    OBVIOUS
  <2>4. t \in Seq(Events) /\ Len(t) <= Len(s)
        /\ \A n \in DOMAIN t : \E m \in DOMAIN s : t[n] = s[m]
    <3>1. CASE s = <<>>
      BY <2>3, <3>1
    <3>2. CASE s # <<>>
      <4>1. t \in Seq(Events) /\ Len(t) = Len(s) - 1 /\ Len(s) \in Nat
            /\ \A n \in 1..Len(t) : t[n] = s[n + 1]
        BY <2>3, <3>2
      <4>2. ASSUME NEW n \in DOMAIN t PROVE n + 1 \in DOMAIN s /\ t[n] = s[n + 1]
        BY <4>1
      <4> QED BY <4>1, <4>2
    <3> QED BY <3>1, <3>2
  <2>5. events' = [events EXCEPT ![e] = t]
    BY <2>1, <2>2, <2>3
  <2>6. ASSUME NEW d \in Epochs
        PROVE  /\ Len(events'[d]) <= Len(events[d])
               /\ \A n \in DOMAIN events'[d] :
                     \E m \in DOMAIN events[d] : events'[d][n] = events[d][m]
    <3>1. CASE d = e
      <4>1. events'[d] = t /\ events[d] = s
        BY <2>2, <2>5, <3>1 DEF ChannelTypes
      <4> QED BY <2>4, <4>1
    <3>2. CASE d # e
      <4>1. events'[d] = events[d] /\ events[d] \in Seq(Events)
        BY <2>5, <3>2 DEF ChannelTypes
      <4> QED BY <4>1
    <3> QED BY <3>1, <3>2
  <2> QED BY <2>4, <2>5, <2>6 DEF Shrinks, ChannelTypes
<1> QED BY <1>1, <1>2

\* What a client step does to the state under Player.mu.
Marks ==
    /\ epoch' = epoch
    /\ running' \in BOOLEAN
    /\ ~running' => at = "down" /\ active' = {}
    /\ running' => running
    /\ \A id \in active' : id \in active \/ (id = nextID /\ nextID' = nextID + 1)
    /\ active' \subseteq PlayIDs
    /\ \A d \in Clients, id \in active' : id \in RefusedOf(d) => id \in RefusedOf(d)'

\* The refusals of the other clients stay as they are.
LEMMA RefusalsKept ==
    ASSUME NEW c \in Clients, \A d \in Clients : d # c => call'[d] = call[d] /\ reply'[d] = reply[d],
           \A id \in active' : id \in RefusedOf(c) => id \in RefusedOf(c)'
    PROVE  \A d \in Clients, id \in active' : id \in RefusedOf(d) => id \in RefusedOf(d)'
BY DEF RefusedOf

\* What a client step does under Player.mu.
LEMMA ClientMarks ==
    ASSUME WInv, NEW c \in Clients, ClientCall(c) \/ ClientStep(c)
    PROVE  Marks
<1>0. Types /\ ClientTypes /\ SharedTypes /\ CallInv(c) /\ Aside(c) /\ ControlInv
  BY AsideStep DEF WInv, Types, ClientInv
<1>r. ASSUME \A id \in active' : id \in RefusedOf(c) => id \in RefusedOf(c)'
      PROVE  \A d \in Clients, id \in active' : id \in RefusedOf(d) => id \in RefusedOf(d)'
  BY <1>r, <1>0, RefusalsKept DEF Aside
<1>d. running \in BOOLEAN /\ active \subseteq PlayIDs /\ (~running => at = "down" /\ active = {})
  BY <1>0 DEF SharedTypes, ControlInv
<1>1. ASSUME running' = running, epoch' = epoch, active' = active, RefusedOf(c) \subseteq RefusedOf(c)'
      PROVE  Marks
  BY <1>1, <1>d, <1>r DEF Marks
<1>2. CASE Submits(c)
  <2>1. running /\ running' = running /\ epoch' = epoch /\ RefusedOf(c) = {}
    BY <1>0, <1>2 DEF Submits, CallInv, RefusedOf
  <2>2. CASE active' = active
    BY <1>1, <2>1, <2>2
  <2>3. CASE nextID' = nextID + 1 /\ active' = active \cup {nextID} /\ nextID \in PlayIDs
    BY <1>d, <1>r, <2>1, <2>3 DEF Marks
  <2> QED BY <1>2, <2>2, <2>3 DEF Submits
<1>3. CASE PollEvent(c)
  BY <1>0, <1>1, <1>3 DEF PollEvent, shared, CallInv, RefusedOf
<1>4. CASE Send(c)
  BY <1>0, <1>1, <1>4 DEF Send, shared, CallInv, RefusedOf
<1>5. CASE Answered(c)
  <2>1. CASE call[c].cmd.kind = "Play" /\ reply[c] = "failed"
    <3>1. Moves(c, "unmark", call[c].cmd, call[c].epoch)
      BY <1>0, <1>5, <2>1, AnswerMoves
    <3>2. RefusedOf(c) \subseteq RefusedOf(c)'
      BY <2>1, <3>1 DEF Moves, RefusedOf
    <3> QED BY <1>1, <1>5, <3>2 DEF Answered, shared
  <2>2. CASE ~(call[c].cmd.kind = "Play" /\ reply[c] = "failed")
    BY <1>1, <1>5, <2>2 DEF Answered, shared, RefusedOf
  <2> QED BY <2>1, <2>2
<1>6. CASE UnmarkRefused(c)
  <2>1. running' = running /\ epoch' = epoch /\ active' = active \ {call[c].cmd.id}
    BY <1>6 DEF UnmarkRefused
  <2>2. RefusedOf(c) \subseteq {call[c].cmd.id}
    BY DEF RefusedOf
  <2> QED BY <1>d, <1>r, <2>1, <2>2 DEF Marks
<1>7. CASE PollReceive(c)
  BY <1>0, <1>1, <1>7 DEF PollReceive, shared, CallInv, RefusedOf
<1>8. CASE ShutdownDone(c)
  BY <1>0, <1>1, <1>8 DEF ShutdownDone, shared, CallInv, RefusedOf
<1>9. CASE ShutdownClear(c)
  <2>1. running' = FALSE /\ epoch' = epoch /\ active' = {} /\ at = "down"
    BY <1>0, <1>9 DEF ShutdownClear, CallInv
  <2> QED BY <2>1 DEF Marks
<1> QED BY <1>0, <1>2, <1>3, <1>4, <1>5, <1>6, <1>7, <1>8, <1>9, CallIsSubmitted DEF ClientStep

\* Client steps add no event.
LEMMA ClientShrinks ==
    ASSUME WInv, NEW c \in Clients, ClientCall(c) \/ ClientStep(c)
    PROVE  Shrinks
<1>0. Types /\ ChannelTypes /\ CallInv(c)
  BY DEF WInv, Types, ClientInv
<1>1. CASE PollReceive(c)
  <2>1. PICK e \in Epochs : e = call[c].epoch
    BY <1>0, <1>1 DEF PollReceive, CallInv
  <2>2. events' = [events EXCEPT ![e] = IF @ = <<>> THEN @ ELSE Tail(@)]
    BY <1>1, <2>1 DEF PollReceive
  <2> QED BY <1>0, <2>2, ShrinksBy
<1>2. ASSUME ~PollReceive(c) PROVE events' = events
  BY <1>0, <1>2, CallIsSubmitted DEF ClientStep, Submits, PollEvent, Answered, UnmarkRefused,
     Send, ShutdownDone, ShutdownClear
<1> QED BY <1>0, <1>1, <1>2, ShrinksBy

--------------------------------------------------------------------------------
\* The ids below the next one.
LEMMA NextRange ==
    ASSUME NEW a \in Nat, NEW b \in {a, a + 1}
    PROVE  /\ \A id \in 1..a - 1 : id \in 1..b - 1
           /\ \A id \in 1..b - 1 : id \in 1..a - 1 \/ (id = a /\ b = a + 1)
<1>1. CASE b = a
  BY <1>1
<1>2. CASE b = a + 1
  <2>1. \A id \in 1..a - 1 : id \in 1..b - 1
    BY <1>2
  <2>2. ASSUME NEW id \in 1..b - 1 PROVE id \in 1..a - 1 \/ id = a
    <3>1. id \in Int /\ 1 <= id /\ id <= a
      BY <1>2
    <3> QED BY <3>1
  <2> QED BY <1>2, <2>1, <2>2
<1> QED BY <1>1, <1>2

\* FilesInv, by what each client's Play is pending on.
LEMMA FilesInvBy ==
    /\ FilesInv <=> /\ files \subseteq 1..nextID - 1
                    /\ \A c \in Clients, id \in files :
                          id \in PendingOf(c) => Todo = {Reply("ok")} /\ cmd = call[c].cmd
    /\ FilesInv' <=> /\ files' \subseteq 1..nextID' - 1
                     /\ \A c \in Clients, id \in files' :
                           id \in PendingOf(c)' => Todo' = {Reply("ok")} /\ cmd' = call'[c].cmd
BY DEF FilesInv, PendingOf, Waiting

\* OnAgenda, over the operations instead of their places.
LEMMA OnTodo ==
    ASSUME NEW id, NEW ops
    PROVE  /\ OnAgenda(id, ops) <=> \E x \in Todo : x.id = id /\ x.op \in ops
           /\ OnAgenda(id, ops)' <=> \E x \in Todo' : x.id = id /\ x.op \in ops
BY DEF OnAgenda, Todo, Members

\* Without an outcome so far.
Open(id) == id \in files \/ PlayPending(id) \/ \E x \in Todo : x.id = id /\ x.op \in Reporting

\* OneOutcome, by what an id without an outcome is.
LEMMA OneOutcomeBy ==
    /\ OneOutcome <=> \A id \in 1..nextID - 1 : outcomes[id] = IF Open(id) THEN 0 ELSE 1
    /\ OneOutcome' <=> \A id \in 1..nextID' - 1 : outcomes'[id] = IF Open(id)' THEN 0 ELSE 1
<1>1. \A id : OnAgenda(id, Reporting) <=> \E x \in Todo : x.id = id /\ x.op \in Reporting
  BY OnTodo
<1>2. \A id : OnAgenda(id, Reporting)' <=> \E x \in Todo' : x.id = id /\ x.op \in Reporting
  BY OnTodo
<1>3. OneOutcome <=> \A id \in 1..nextID - 1 : outcomes[id] = IF Open(id) THEN 0 ELSE 1
  BY <1>1 DEF OneOutcome, Open, Reporting
<1>4. OneOutcome' <=> \A id \in 1..nextID' - 1 : outcomes'[id] = IF Open(id)' THEN 0 ELSE 1
  BY <1>2 DEF OneOutcome, Open, Reporting
<1> QED BY <1>3, <1>4

\* What an active id belongs to.
Accounted(id) ==
    \/ id \in files
    \/ PlayPending(id)
    \/ \E c \in Clients : id \in RefusedOf(c)
    \/ \E x \in Todo : x.op = "unmark" /\ x.id = id
    \/ \E x \in Todo : x.op = "clear" /\ x.id = 0

\* ActiveIsAccounted, by what accounts for an active id.
LEMMA ActiveBy ==
    /\ ActiveIsAccounted <=> \A id \in active : Accounted(id)
    /\ ActiveIsAccounted' <=> \A id \in active' : Accounted(id)'
<1>1. \A id : OnAgenda(id, {"unmark"}) <=> \E x \in Todo : x.op = "unmark" /\ x.id = id
  BY OnTodo
<1>2. \A id : OnAgenda(id, {"unmark"})' <=> \E x \in Todo' : x.op = "unmark" /\ x.id = id
  BY OnTodo
<1>3. OnAgenda(0, {"clear"}) <=> \E x \in Todo : x.op = "clear" /\ x.id = 0
  BY OnTodo
<1>4. OnAgenda(0, {"clear"})' <=> \E x \in Todo' : x.op = "clear" /\ x.id = 0
  BY OnTodo
<1>5. ActiveIsAccounted <=> \A id \in active : Accounted(id)
  BY <1>1, <1>3 DEF ActiveIsAccounted, Accounted, RefusedOf
<1>6. ActiveIsAccounted' <=> \A id \in active' : Accounted(id)'
  BY <1>2, <1>4 DEF ActiveIsAccounted, Accounted, RefusedOf
<1> QED BY <1>5, <1>6

\* Steps that remove events or leave them keep what holds of every event.
LEMMA ShrinkKeepsEvents ==
    ASSUME EventsInv, EndedIsInactive, Types, Shrinks, nextID \in Nat, nextID' \in Nat, nextID' >= nextID,
           \A id \in active' : id \in active \/ id = nextID
    PROVE  EventsInv' /\ EndedIsInactive'
<1>1. ASSUME NEW e \in Epochs, NEW n \in DOMAIN events'[e]
      PROVE  /\ events'[e][n].id < nextID'
             /\ events'[e][n].type \in {"Finished", "Stopped"} => events'[e][n].id \notin active'
  <2>1. PICK m \in DOMAIN events[e] : events'[e][n] = events[e][m]
    BY DEF Shrinks
  <2>2. events[e][m].id < nextID
        /\ (events[e][m].type \in {"Finished", "Stopped"} => events[e][m].id \notin active)
    BY DEF EventsInv, EndedIsInactive
  <2>3. events[e][m].id \in Nat
    <3>1. events[e] \in Seq(Events)
      BY DEF Types, ChannelTypes
    <3>2. events[e][m] \in Events
      BY <3>1
    <3> QED BY <3>2, Bounds DEF Events
  <2> QED BY <2>1, <2>2, <2>3
<1> QED BY <1>1 DEF EventsInv, EndedIsInactive

\* Steps that leave the worker alone keep what relates it to the clients.
LEMMA WorkerUntouched ==
    ASSUME WInv, Grows, Marks, Shrinks, nextID \in Nat, nextID' \in 1..MaxPlays + 1, UNCHANGED agenda,
           UNCHANGED <<control, voices, outcomes>>
    PROVE  /\ ControlInv' /\ AgendaShape' /\ AgendaInv' /\ FilesInv' /\ EventsInv' /\ UnusedInv'
           /\ OneOutcome' /\ ActiveIsAccounted' /\ EndedIsInactive'
<1>0. /\ Types /\ SharedTypes /\ ChannelTypes /\ ControlInv /\ AgendaShape /\ AgendaInv /\ FilesInv
      /\ EventsInv /\ UnusedInv /\ OneOutcome /\ ActiveIsAccounted /\ EndedIsInactive
  BY DEF WInv, Types
<1>n. nextID' \in Nat /\ nextID' >= nextID /\ nextID' \in {nextID, nextID + 1}
  BY Bounds DEF Grows
<1>m. /\ \A id \in 1..nextID - 1 : id \in 1..nextID' - 1
      /\ \A id \in 1..nextID' - 1 : id \in 1..nextID - 1 \/ (id = nextID /\ nextID' = nextID + 1)
  <2>1. PICK a \in Nat, b \in Nat : a = nextID /\ b = nextID' /\ b \in {a, a + 1}
    BY <1>n
  <2>2. /\ \A id \in 1..a - 1 : id \in 1..b - 1
        /\ \A id \in 1..b - 1 : id \in 1..a - 1 \/ (id = a /\ b = a + 1)
    BY <2>1, NextRange
  <2> QED BY <2>1, <2>2
<1>t. Todo' = Todo
  BY DEF Todo
<1>w. /\ at' = at /\ back' = back /\ cmd' = cmd /\ visit' = visit /\ files' = files
      /\ fading' = fading /\ engine' = engine /\ outcomes' = outcomes
  BY DEF control, voices
<1>1. ControlInv'
  BY <1>0, <1>t, <1>w DEF ControlInv, Marks
<1>2. AgendaShape'
  BY <1>0 DEF AgendaShape
<1>3. AgendaInv'
  <2>1. ASSUME NEW x \in Todo, x.op \in Ending
        PROVE  x.id \in 1..nextID' - 1 /\ x.id \notin files /\ ~PlayPending(x.id)'
    <3>1. x.id \in 1..nextID - 1 /\ x.id \notin files /\ ~PlayPending(x.id)
      BY <1>0, <2>1 DEF AgendaInv
    <3>2. x.id \in Nat /\ x.id # nextID
      BY <3>1
    <3>3. ~PlayPending(x.id)'
      BY <3>1, <3>2 DEF Grows
    <3> QED BY <1>n, <3>1, <3>3
  <2>2. ASSUME NEW x \in Todo, x.op \in Reporting, x.arg \in {"Finished", "Stopped"}
        PROVE  x.id \notin active' \/ Unmark(x.id) \in Todo
    <3>1. x.id \in 1..nextID - 1
      BY <1>0, <2>2 DEF AgendaInv, Ending
    <3>2. x.id # nextID
      BY <3>1
    <3> QED BY <1>0, <2>2, <3>2 DEF AgendaInv, Marks
  <2>3. ASSUME NEW x \in Todo, x.op = "retry" PROVE EventFits'
    <3>1. EventFits /\ epoch' = epoch
      BY <1>0, <2>3 DEF AgendaInv, Marks
    <3>2. epoch \in Epochs
      <4>1. at # "down"
        BY <1>0 DEF ControlInv
      <4> QED BY <1>0, <4>1 DEF SharedTypes
    <3>3. Len(events'[epoch]) <= Len(events[epoch])
          /\ Len(events'[epoch]) \in Nat /\ Len(events[epoch]) \in Nat
      BY <1>0, <3>2 DEF Shrinks, ChannelTypes
    <3> QED BY <3>1, <3>3, Bounds DEF EventFits
  <2>4. ASSUME NEW x \in Todo, x.op = "reply"
        PROVE  /\ cmd # NoCommand
               /\ cmd.kind = "Play" => Todo = {x} /\ (x.arg = "ok" <=> cmd.id \in files)
    BY <1>0, <2>4 DEF AgendaInv
  <2> QED BY <1>t, <1>w, <2>1, <2>2, <2>3, <2>4 DEF AgendaInv
<1>4. FilesInv'
  <2>1. files \subseteq 1..nextID - 1
    BY <1>0, FilesInvBy
  <2>2. ASSUME NEW d \in Clients, NEW id \in files, id \in PendingOf(d)'
        PROVE  Todo = {Reply("ok")} /\ cmd = call'[d].cmd
    <3>1. id \in Nat /\ id # nextID
      BY <2>1
    <3>2. id \in PendingOf(d) /\ call'[d].cmd = call[d].cmd
      BY <2>2, <3>1 DEF Grows
    <3> QED BY <1>0, <3>2, FilesInvBy
  <2>3. ASSUME NEW id \in files PROVE id \in 1..nextID' - 1
    <3>1. id \in 1..nextID - 1
      BY <2>1
    <3> QED BY <3>1, <1>m
  <2> QED BY <1>t, <1>w, <2>2, <2>3, FilesInvBy
<1>5. EventsInv' /\ EndedIsInactive'
  <2>1. \A id \in active' : id \in active \/ id = nextID
    BY DEF Marks
  <2> QED BY <1>0, <1>n, <2>1, ShrinkKeepsEvents
<1>6. UnusedInv'
  BY <1>0, <1>n, <1>w, Bounds DEF UnusedInv
<1>7. OneOutcome'
  <2>1. ASSUME NEW id \in 1..nextID' - 1
        PROVE  outcomes[id] = IF Open(id)' THEN 0 ELSE 1
    <3>1. PlayPending(id)' <=> PlayPending(id) \/ (id = nextID /\ nextID' = nextID + 1)
      BY DEF Grows
    <3>2. Open(id)' <=> Open(id) \/ (id = nextID /\ nextID' = nextID + 1)
      BY <3>1, <1>t, <1>w DEF Open
    <3>3. CASE id \in 1..nextID - 1
      <4>1. id # nextID
        BY <3>3
      <4> QED BY <1>0, <3>2, <3>3, <4>1, OneOutcomeBy
    <3>4. CASE id = nextID /\ nextID' = nextID + 1
      <4>1. id \in PlayIDs /\ id >= nextID
        BY <3>4, <1>n, Bounds
      <4>2. outcomes[id] = 0
        BY <1>0, <4>1 DEF UnusedInv
      <4>3. Open(id)'
        BY <3>2, <3>4
      <4> QED BY <4>2, <4>3
    <3> QED BY <1>m, <3>3, <3>4
  <2> QED BY <2>1, <1>w, OneOutcomeBy
<1>8. ActiveIsAccounted'
  <2>1. ASSUME NEW id \in active' PROVE Accounted(id)'
    <3>0. id \in Nat
      BY Bounds DEF Marks
    <3>1. CASE id = nextID /\ nextID' = nextID + 1
      BY <3>0, <3>1 DEF Accounted, Grows
    <3>2. CASE id \in active
      <4>1. Accounted(id)
        BY <1>0, <3>2, ActiveBy
      <4>2. PlayPending(id) => PlayPending(id)'
        BY <3>0 DEF Grows
      <4>3. (\E d \in Clients : id \in RefusedOf(d)) => \E d \in Clients : id \in RefusedOf(d)'
        BY <2>1 DEF Marks
      <4> QED BY <4>1, <4>2, <4>3, <1>t, <1>w DEF Accounted
    <3> QED BY <2>1, <3>1, <3>2 DEF Marks
  <2> QED BY <2>1, ActiveBy
<1> QED BY <1>1, <1>2, <1>3, <1>4, <1>5, <1>6, <1>7, <1>8

\* Client steps keep the invariant.
LEMMA ClientKeeps ==
    ASSUME WInv, NEW c \in Clients, ClientCall(c) \/ ClientStep(c)
    PROVE  WInv'
<1>1. Aside(c) /\ Grows /\ Marks /\ Shrinks
  BY AsideStep, ClientGrows, ClientMarks, ClientShrinks
<1>2. /\ commands' \in [Epochs -> Seq(Commands)]
      /\ \A e \in Epochs : Len(commands'[e]) <= CommandCap
      /\ QueueInv' /\ CmdInv'
  BY ClientCommands
<1>3. nextID \in Nat /\ nextID' \in 1..MaxPlays + 1
  BY NextIDGrows
<1>4. /\ ControlInv' /\ AgendaShape' /\ AgendaInv' /\ FilesInv' /\ EventsInv' /\ UnusedInv'
      /\ OneOutcome' /\ ActiveIsAccounted' /\ EndedIsInactive'
  BY <1>1, <1>3, WorkerUntouched DEF Aside
<1>5. ClientInv'
  BY ClientKeepsClients
<1>6. ClientTypes'
  BY <1>1 DEF Aside, ClientTypes
<1>7. SharedTypes'
  <2>1. at' = at
    BY <1>1 DEF Aside, control
  <2>2. epoch \in 0..MaxEpochs /\ (running \/ at # "down" => epoch \in Epochs)
    BY DEF WInv, Types, SharedTypes
  <2>3. epoch' = epoch /\ running' \in BOOLEAN /\ (running' => running) /\ active' \subseteq PlayIDs
    BY <1>1 DEF Marks
  <2> QED BY <1>3, <2>1, <2>2, <2>3 DEF SharedTypes
<1>8. ChannelTypes'
  <2>1. /\ events \in [Epochs -> Seq(Events)] /\ events' \in [Epochs -> Seq(Events)]
        /\ \A e \in Epochs : Len(events[e]) <= EventCap /\ Len(events'[e]) <= Len(events[e])
    BY <1>1 DEF WInv, Types, ChannelTypes, Shrinks
  <2>2. ASSUME NEW e \in Epochs PROVE Len(events'[e]) <= EventCap
    <3>1. Len(events[e]) \in Nat /\ Len(events'[e]) \in Nat
      BY <2>1
    <3> QED BY <2>1, <3>1, Bounds
  <2> QED BY <1>2, <2>1, <2>2 DEF ChannelTypes
<1>9. WorkerTypes'
  BY <1>1 DEF Aside, control, voices, WInv, Types, WorkerTypes
<1> QED BY <1>2, <1>4, <1>5, <1>6, <1>7, <1>8, <1>9 DEF WInv, Types

--------------------------------------------------------------------------------
\* Steps that leave the calls alone.
LEMMA CallsUnchanged ==
    ASSUME WInv, UNCHANGED <<call, reply, nextID>>,
           \A c \in Clients : call[c].pc = "clear" => at' = "down"
    PROVE  /\ ClientInv' /\ ClientTypes'
           /\ \A id : PlayPending(id)' <=> PlayPending(id)
           /\ \A c \in Clients : PendingOf(c)' = PendingOf(c) /\ RefusedOf(c)' = RefusedOf(c)
           /\ \A k : Awaits(k)' <=> Awaits(k)
<1>1. ASSUME NEW c \in Clients PROVE CallInv(c)'
  <2>1. CallInv(c)
    BY DEF WInv, ClientInv
  <2>2. /\ call' = call /\ reply' = reply /\ nextID' = nextID
        /\ call[c].pc = "clear" => at' = "down"
    OBVIOUS
  <2> QED BY <2>1, <2>2 DEF CallInv, InShutdown
<1>2. ClientInv'
  BY <1>1 DEF ClientInv
<1>3. ClientTypes'
  BY DEF WInv, Types, ClientTypes
<1>4. \A id : PlayPending(id)' <=> PlayPending(id)
  BY DEF PlayPending, Waiting
<1>5. \A c \in Clients : PendingOf(c)' = PendingOf(c) /\ RefusedOf(c)' = RefusedOf(c)
  BY DEF PendingOf, RefusedOf, Waiting
<1>6. \A k : Awaits(k)' <=> Awaits(k)
  BY DEF Awaits
<1> QED BY <1>2, <1>3, <1>4, <1>5, <1>6

\* A successful Start keeps the invariant: nothing is left of the last run.
LEMMA StartKeeps ==
    ASSUME WInv, Start
    PROVE  WInv'
<1>0. /\ Types /\ SharedTypes /\ ChannelTypes /\ WorkerTypes /\ ControlInv /\ AgendaShape
      /\ AgendaInv /\ FilesInv /\ EventsInv /\ UnusedInv /\ OneOutcome /\ ClientInv /\ QueueInv
      /\ CmdInv
  BY DEF WInv, Types
<1>1. /\ epoch' = epoch + 1 /\ running' = TRUE /\ active' = {} /\ at' = "head" /\ engine' = "ok"
      /\ nextID' = nextID /\ commands' = commands /\ events' = events
      /\ call' = call /\ reply' = reply
      /\ back' = back /\ cmd' = cmd /\ visit' = visit /\ target' = target /\ agenda' = agenda
      /\ files' = files /\ fading' = fading /\ outcomes' = outcomes
  BY DEF Start, client
<1>2. ~running /\ epoch < MaxEpochs /\ \A c \in Clients : ~InShutdown(c)
  BY DEF Start
<1>3. Todo = {} /\ files = {} /\ Todo' = Todo
  BY <1>0, <1>1, <1>2 DEF ControlInv, Todo
<1>4. \A c \in Clients : call[c].pc # "clear"
  BY <1>0, <1>2 DEF ClientInv, CallInv
<1>5. /\ ClientInv' /\ ClientTypes'
      /\ \A id : PlayPending(id)' <=> PlayPending(id)
      /\ \A c \in Clients : PendingOf(c)' = PendingOf(c) /\ RefusedOf(c)' = RefusedOf(c)
      /\ \A k : Awaits(k)' <=> Awaits(k)
  BY <1>1, <1>4, CallsUnchanged
<1>6. SharedTypes'
  <2>1. epoch' \in Epochs /\ epoch' \in 0..MaxEpochs
    BY <1>0, <1>1, <1>2, Bounds DEF SharedTypes
  <2> QED BY <1>0, <1>1, <2>1 DEF SharedTypes
<1>7. ChannelTypes' /\ WorkerTypes'
  BY <1>0, <1>1 DEF ChannelTypes, WorkerTypes
<1>8. QueueInv'
  BY <1>0, <1>1 DEF QueueInv, Awaits
<1>9. CmdInv'
  BY <1>0, <1>1 DEF CmdInv, Awaits
<1>10. AgendaShape' /\ AgendaInv'
  BY <1>0, <1>1, <1>3 DEF AgendaShape, AgendaInv
<1>11. ControlInv'
  BY <1>1, <1>3 DEF ControlInv
<1>12. FilesInv'
  BY <1>0, <1>1, <1>3, FilesInvBy
<1>13. EventsInv' /\ EndedIsInactive' /\ UnusedInv'
  BY <1>0, <1>1 DEF EventsInv, EndedIsInactive, UnusedInv
<1>14. OneOutcome'
  <2>1. \A id : Open(id)' <=> Open(id)
    BY <1>1, <1>3, <1>5 DEF Open
  <2> QED BY <1>0, <1>1, <2>1, OneOutcomeBy
<1>15. ActiveIsAccounted'
  BY <1>1, ActiveBy
<1> QED BY <1>5, <1>6, <1>7, <1>8, <1>9, <1>10, <1>11, <1>12, <1>13, <1>14, <1>15 DEF WInv, Types

\* An engine error keeps the invariant.
LEMMA CriticalErrorKeeps ==
    ASSUME WInv, CriticalError
    PROVE  WInv'
<1>0. /\ Types /\ SharedTypes /\ ChannelTypes /\ WorkerTypes /\ ControlInv /\ AgendaShape
      /\ AgendaInv /\ FilesInv /\ EventsInv /\ UnusedInv /\ OneOutcome /\ ClientInv /\ QueueInv
      /\ CmdInv /\ EndedIsInactive /\ ActiveIsAccounted
  BY DEF WInv, Types
<1>1. /\ epoch' = epoch /\ running' = running /\ active' = active /\ at' = at
      /\ engine = "ok" /\ engine' = "critical"
      /\ nextID' = nextID /\ commands' = commands /\ events' = events
      /\ call' = call /\ reply' = reply
      /\ back' = back /\ cmd' = cmd /\ visit' = visit /\ target' = target /\ agenda' = agenda
      /\ files' = files /\ fading' = fading /\ outcomes' = outcomes
  BY DEF CriticalError, client, control, shared, Untouched
<1>3. Todo' = Todo
  BY <1>1 DEF Todo
<1>4. \A c \in Clients : call[c].pc = "clear" => at' = "down"
  BY <1>0, <1>1 DEF ClientInv, CallInv
<1>5. /\ ClientInv' /\ ClientTypes'
      /\ \A id : PlayPending(id)' <=> PlayPending(id)
      /\ \A c \in Clients : PendingOf(c)' = PendingOf(c) /\ RefusedOf(c)' = RefusedOf(c)
      /\ \A k : Awaits(k)' <=> Awaits(k)
  BY <1>1, <1>4, CallsUnchanged
<1>6. SharedTypes' /\ ChannelTypes' /\ WorkerTypes'
  BY <1>0, <1>1 DEF SharedTypes, ChannelTypes, WorkerTypes
<1>8. QueueInv'
  BY <1>0, <1>1 DEF QueueInv, Awaits
<1>9. CmdInv'
  BY <1>0, <1>1 DEF CmdInv, Awaits
<1>10. AgendaShape' /\ AgendaInv'
  BY <1>0, <1>1, <1>3, <1>5 DEF AgendaShape, AgendaInv, EventFits
<1>11. ControlInv'
  BY <1>0, <1>1, <1>3 DEF ControlInv
<1>12. FilesInv'
  BY <1>0, <1>1, <1>3, <1>5, FilesInvBy
<1>13. EventsInv' /\ EndedIsInactive' /\ UnusedInv'
  BY <1>0, <1>1 DEF EventsInv, EndedIsInactive, UnusedInv
<1>14. OneOutcome'
  <2>1. \A id : Open(id)' <=> Open(id)
    BY <1>1, <1>3, <1>5 DEF Open
  <2> QED BY <1>0, <1>1, <2>1, OneOutcomeBy
<1>15. ActiveIsAccounted'
  <2>1. \A id : Accounted(id)' <=> Accounted(id)
    BY <1>1, <1>3, <1>5 DEF Accounted
  <2> QED BY <1>0, <1>1, <2>1, ActiveBy
<1> QED BY <1>5, <1>6, <1>8, <1>9, <1>10, <1>11, <1>12, <1>13, <1>14, <1>15 DEF WInv, Types

--------------------------------------------------------------------------------
\* Operations on shared state.
SharedFrame ==
    /\ Todo # {}
    /\ AgendaShape'
    /\ UNCHANGED <<running, nextID, epoch, commands, call, at, back, visit, target, voices>>

\* While there is something on the agenda the worker runs.
LEMMA SharedPlace ==
    ASSUME WInv, SharedFrame
    PROVE  /\ at \notin {"down", "check", "handle"} /\ running /\ epoch \in Epochs
           /\ \A c \in Clients : call[c].pc = "clear" => at' = "down"
           /\ files' = files /\ fading' = fading /\ engine' = engine
<1>1. at \notin {"down", "check", "handle"} /\ running /\ at' = at
  BY DEF WInv, ControlInv, SharedFrame
<1>2. epoch \in Epochs
  BY <1>1 DEF WInv, Types, SharedTypes
<1>3. \A c \in Clients : call[c].pc = "clear" => at' = "down"
  BY <1>1 DEF WInv, ClientInv, CallInv
<1> QED BY <1>1, <1>2, <1>3 DEF SharedFrame, voices

\* Operations that give no answer leave the calls and the queues alone.
LEMMA SharedSame ==
    ASSUME WInv, SharedFrame, UNCHANGED <<reply, cmd>>, active' \subseteq active
    PROVE  ClientTypes' /\ SharedTypes' /\ ClientInv' /\ QueueInv' /\ CmdInv' /\ ControlInv'
<1>0. Types /\ SharedTypes /\ ControlInv /\ QueueInv /\ CmdInv
  BY DEF WInv, Types
<1>1. ClientInv' /\ ClientTypes'
  BY SharedPlace, CallsUnchanged DEF SharedFrame
<1>2. SharedTypes'
  BY <1>0 DEF SharedFrame, SharedTypes
<1>3. QueueInv' /\ CmdInv'
  BY <1>0 DEF SharedFrame, QueueInv, CmdInv, Awaits
<1>4. ControlInv'
  BY <1>0, SharedPlace DEF SharedFrame, ControlInv
<1> QED BY <1>1, <1>2, <1>3, <1>4

\* Operations that give no answer leave every pending Play pending.
LEMMA SharedPending ==
    ASSUME WInv, SharedFrame, UNCHANGED reply
    PROVE  /\ \A id : PlayPending(id)' <=> PlayPending(id)
           /\ \A c \in Clients : PendingOf(c)' = PendingOf(c) /\ RefusedOf(c)' = RefusedOf(c)
BY SharedPlace, CallsUnchanged DEF SharedFrame

\* The types that a worker step can disturb.
LEMMA TypesBy ==
    ASSUME Types, ClientTypes', SharedTypes',
           UNCHANGED <<commands, at, back, visit, target, voices>>,
           cmd' \in Commands \cup {NoCommand}, outcomes' \in [PlayIDs -> Nat],
           events' \in [Epochs -> Seq(Events)], \A e \in Epochs : Len(events'[e]) <= EventCap
    PROVE  Types'
<1>1. ChannelTypes'
  BY DEF Types, ChannelTypes
<1>2. WorkerTypes'
  BY DEF Types, WorkerTypes, voices
<1> QED BY <1>1, <1>2 DEF Types

\* unmarkActive keeps the invariant.
LEMMA UnmarksKeeps ==
    ASSUME WInv, SharedFrame, Unmarks
    PROVE  WInv'
<1>0. /\ Types /\ SharedTypes /\ ChannelTypes /\ AgendaInv /\ FilesInv /\ EventsInv /\ UnusedInv
      /\ OneOutcome /\ ActiveIsAccounted /\ EndedIsInactive
  BY DEF WInv, Types
<1>1. PICK i \in PlayIDs :
        /\ Unmark(i) \in Todo /\ Todo' = Todo \ {Unmark(i)}
        /\ active' = active \ {i}
        /\ events' = events /\ reply' = reply /\ cmd' = cmd /\ outcomes' = outcomes
  BY DEF Unmarks
<1>2. Unmark(i).op = "unmark" /\ Unmark(i).id = i
  BY DistinctOps
<1>3. /\ nextID' = nextID /\ epoch' = epoch /\ call' = call
      /\ files' = files /\ fading' = fading /\ engine' = engine
  BY SharedPlace DEF SharedFrame
<1>4. ClientTypes' /\ SharedTypes' /\ ClientInv' /\ QueueInv' /\ CmdInv' /\ ControlInv'
  BY <1>1, SharedSame
<1>5. /\ \A id : PlayPending(id)' <=> PlayPending(id)
      /\ \A c \in Clients : PendingOf(c)' = PendingOf(c) /\ RefusedOf(c)' = RefusedOf(c)
  BY <1>1, SharedPending
<1>6. Types'
  BY <1>0, <1>1, <1>4, TypesBy DEF SharedFrame, WorkerTypes, ChannelTypes, Types
<1>7. AgendaInv'
  <2>1. ASSUME NEW x \in Todo', x.op = "reply"
        PROVE  /\ cmd # NoCommand
               /\ cmd.kind = "Play" => Todo' = {x} /\ (x.arg = "ok" <=> cmd.id \in files)
    <3>1. x \in Todo /\ x # Unmark(i)
      BY <1>1
    <3>2. cmd # NoCommand /\ (cmd.kind = "Play" => Todo = {x})
      BY <1>0, <2>1, <3>1 DEF AgendaInv
    <3> QED BY <1>1, <3>1, <3>2
  <2>2. ASSUME NEW x \in Todo', x.op \in Ending
        PROVE  x.id \in 1..nextID - 1 /\ x.id \notin files /\ ~PlayPending(x.id)'
    BY <1>0, <1>1, <1>5, <2>2 DEF AgendaInv
  <2>3. ASSUME NEW x \in Todo', x.op \in Reporting, x.arg \in {"Finished", "Stopped"}
        PROVE  x.id \notin active' \/ Unmark(x.id) \in Todo'
    <3>1. x.id \notin active \/ Unmark(x.id) \in Todo
      BY <1>0, <1>1, <2>3 DEF AgendaInv
    <3>2. CASE Unmark(x.id) = Unmark(i)
      <4>1. Unmark(x.id).id = x.id
        BY DistinctOps
      <4> QED BY <1>1, <1>2, <3>2, <4>1
    <3> QED BY <1>1, <3>1, <3>2
  <2>4. ASSUME NEW x \in Todo', x.op = "retry" PROVE EventFits'
    BY <1>0, <1>1, <1>3, <2>4 DEF AgendaInv, EventFits
  <2> QED BY <1>1, <1>3, <2>1, <2>2, <2>3, <2>4 DEF AgendaInv
<1>8. FilesInv'
  <2>1. Todo # {Reply("ok")}
    BY <1>1, DistinctOps
  <2> QED BY <1>0, <1>3, <1>5, <2>1, FilesInvBy
<1>9. EventsInv' /\ EndedIsInactive' /\ UnusedInv'
  BY <1>0, <1>1, <1>3 DEF EventsInv, EndedIsInactive, UnusedInv
<1>10. OneOutcome'
  <2>1. \A id : Open(id)' <=> Open(id)
    BY <1>1, <1>2, <1>3, <1>5 DEF Open, Reporting
  <2> QED BY <1>0, <1>1, <1>3, <2>1, OneOutcomeBy
<1>11. ActiveIsAccounted'
  <2>1. ASSUME NEW id \in active' PROVE Accounted(id)'
    <3>1. id # i /\ Accounted(id)
      BY <1>0, <1>1, <2>1, ActiveBy
    <3> QED BY <1>1, <1>2, <1>3, <1>5, <3>1 DEF Accounted
  <2> QED BY <2>1, ActiveBy
<1> QED BY <1>4, <1>6, <1>7, <1>8, <1>9, <1>10, <1>11 DEF WInv, SharedFrame

\* clearActive keeps the invariant.
LEMMA ClearsKeeps ==
    ASSUME WInv, SharedFrame, Clears
    PROVE  WInv'
<1>0. /\ Types /\ SharedTypes /\ ChannelTypes /\ AgendaInv /\ FilesInv /\ EventsInv /\ UnusedInv
      /\ OneOutcome /\ ActiveIsAccounted /\ EndedIsInactive
  BY DEF WInv, Types
<1>1. /\ Todo = {Clear, Reply("ok")} /\ Todo' = {Reply("ok")}
      /\ active' = {}
      /\ events' = events /\ reply' = reply /\ cmd' = cmd /\ outcomes' = outcomes
  BY DEF Clears
<1>2. Clear.op = "clear" /\ Reply("ok").op = "reply" /\ Clear # Reply("ok")
  BY DistinctOps
<1>3. /\ nextID' = nextID /\ epoch' = epoch /\ call' = call
      /\ files' = files /\ fading' = fading /\ engine' = engine
  BY SharedPlace DEF SharedFrame
<1>4. ClientTypes' /\ SharedTypes' /\ ClientInv' /\ QueueInv' /\ CmdInv' /\ ControlInv'
  BY <1>1, SharedSame
<1>5. /\ \A id : PlayPending(id)' <=> PlayPending(id)
      /\ \A c \in Clients : PendingOf(c)' = PendingOf(c) /\ RefusedOf(c)' = RefusedOf(c)
  BY <1>1, SharedPending
<1>6. Types'
  BY <1>0, <1>1, <1>4, TypesBy DEF SharedFrame, WorkerTypes, ChannelTypes, Types
<1>7. AgendaInv'
  <2>1. cmd # NoCommand /\ cmd.kind # "Play"
    BY <1>0, <1>1, <1>2 DEF AgendaInv
  <2> QED BY <1>1, <1>2, <2>1 DEF AgendaInv, Ending, Reporting
<1>8. FilesInv'
  <2>1. Todo # {Reply("ok")}
    BY <1>1, <1>2
  <2> QED BY <1>0, <1>3, <1>5, <2>1, FilesInvBy
<1>9. EventsInv' /\ EndedIsInactive' /\ UnusedInv'
  BY <1>0, <1>1, <1>3 DEF EventsInv, EndedIsInactive, UnusedInv
<1>10. OneOutcome'
  <2>1. \A id : Open(id)' <=> Open(id)
    BY <1>1, <1>2, <1>3, <1>5 DEF Open, Reporting
  <2> QED BY <1>0, <1>1, <1>3, <2>1, OneOutcomeBy
<1>11. ActiveIsAccounted'
  BY <1>1, ActiveBy
<1> QED BY <1>4, <1>6, <1>7, <1>8, <1>9, <1>10, <1>11 DEF WInv, SharedFrame

\* Queueing an event keeps the invariant: its file is closed and it had no outcome.
LEMMA ReportsKeeps ==
    ASSUME WInv, SharedFrame, Reports
    PROVE  WInv'
<1>0. /\ Types /\ SharedTypes /\ ChannelTypes /\ WorkerTypes /\ AgendaInv /\ FilesInv /\ EventsInv
      /\ UnusedInv /\ OneOutcome /\ ActiveIsAccounted /\ EndedIsInactive
  BY DEF WInv, Types
<1>1. PICK i \in PlayIDs, t \in EventTypes, o \in {"push", "retry"} :
        /\ EventFits
        /\ Todo = Todo' \cup {Op(o, i, t)}
        /\ Todo' = {} \/ (Todo' = {Unmark(i)} /\ t = "Error")
        /\ events' = [events EXCEPT ![epoch] = Append(events[epoch], Event(t, i))]
        /\ Reported(i)
        /\ active' = active /\ reply' = reply /\ cmd' = cmd
  BY DEF Reports
<1>2. /\ Unmark(i).op = "unmark" /\ Unmark(i).id = i
      /\ Op(o, i, t).op = o /\ Op(o, i, t).id = i /\ Op(o, i, t).arg = t
  BY DistinctOps, OpFields
<1>3. /\ nextID' = nextID /\ epoch' = epoch /\ call' = call
      /\ files' = files /\ fading' = fading /\ engine' = engine
  BY SharedPlace DEF SharedFrame
<1>4. ClientTypes' /\ SharedTypes' /\ ClientInv' /\ QueueInv' /\ CmdInv' /\ ControlInv'
  BY <1>1, SharedSame
<1>5. /\ \A id : PlayPending(id)' <=> PlayPending(id)
      /\ \A c \in Clients : PendingOf(c)' = PendingOf(c) /\ RefusedOf(c)' = RefusedOf(c)
  BY <1>1, SharedPending
<1>6. i \in 1..nextID - 1 /\ i \notin files /\ ~PlayPending(i)
  <2>1. PICK x \in Todo : x = Op(o, i, t)
    BY <1>1
  <2>2. x.op \in Ending /\ x.id = i
    BY <1>2, <2>1 DEF Ending, Reporting
  <2>3. x.id \in 1..nextID - 1 /\ x.id \notin files /\ ~PlayPending(x.id)
    BY <1>0, <2>2 DEF AgendaInv
  <2> QED BY <2>2, <2>3
<1>7. PICK k \in Events : k = Event(t, i) /\ k.id = i /\ k.type = t
  <2>1. Event(t, i) \in Events /\ Event(t, i).id = i /\ Event(t, i).type = t
    BY DEF Event, Events
  <2> QED BY <2>1
<1>8. PICK e \in Epochs : e = epoch
  BY SharedPlace
<1>9. PICK s \in Seq(Events) : s = events[e]
  BY <1>0 DEF ChannelTypes
<1>10. /\ Append(s, k) \in Seq(Events) /\ Len(Append(s, k)) = Len(s) + 1 /\ Len(s) \in Nat
       /\ \A n \in DOMAIN Append(s, k) : Append(s, k)[n] = k \/ \E m \in DOMAIN s : Append(s, k)[n] = s[m]
  <2>1. /\ Append(s, k) \in Seq(Events) /\ Len(Append(s, k)) = Len(s) + 1 /\ Len(s) \in Nat
        /\ Append(s, k)[Len(s) + 1] = k
        /\ \A n \in 1..Len(s) : Append(s, k)[n] = s[n]
        /\ DOMAIN s = 1..Len(s) /\ DOMAIN Append(s, k) = 1..Len(s) + 1
    OBVIOUS
  <2>2. \A n \in DOMAIN Append(s, k) : n \in DOMAIN s \/ n = Len(s) + 1
    BY <2>1
  <2> QED BY <2>1, <2>2
<1>11. PICK r : r = Append(s, k)
  OBVIOUS
<1>12. events' = [events EXCEPT ![e] = r]
  BY <1>1, <1>7, <1>8, <1>9, <1>11
<1>13. events' \in [Epochs -> Seq(Events)] /\ \A d \in Epochs : Len(events'[d]) <= EventCap
  <2>1. Len(r) <= EventCap
    BY <1>1, <1>8, <1>9, <1>10, <1>11, Bounds DEF EventFits
  <2> QED BY <1>0, <1>10, <1>11, <1>12, <2>1 DEF ChannelTypes
<1>14. ASSUME NEW d \in Epochs, NEW n \in DOMAIN events'[d]
       PROVE  events'[d][n] = k \/ \E m \in DOMAIN events[d] : events'[d][n] = events[d][m]
  <2>1. CASE d = e
    <3>1. events'[d] = r /\ events[d] = s
      BY <1>0, <1>9, <1>12, <2>1 DEF ChannelTypes
    <3> QED BY <1>10, <1>11, <3>1
  <2>2. CASE d # e
    <3>1. events'[d] = events[d]
      BY <1>0, <1>12, <2>2 DEF ChannelTypes
    <3> QED BY <3>1
  <2> QED BY <2>1, <2>2
<1>15. outcomes \in [PlayIDs -> Nat] /\ outcomes' = [outcomes EXCEPT ![i] = outcomes[i] + 1]
  BY <1>0, <1>1 DEF WorkerTypes, Reported
<1>16. Types'
  <2>1. cmd' \in Commands \cup {NoCommand} /\ outcomes' \in [PlayIDs -> Nat]
    BY <1>0, <1>1, <1>15 DEF WorkerTypes
  <2> QED BY <1>0, <1>4, <1>13, <2>1, TypesBy DEF SharedFrame
<1>17. AgendaInv'
  <2>1. ASSUME NEW x \in Todo'
        PROVE  x = Unmark(i) /\ x.op = "unmark" /\ x.id = i
    BY <1>1, <1>2
  <2>2. i \in 1..nextID' - 1 /\ i \notin files' /\ ~PlayPending(i)'
    BY <1>3, <1>5, <1>6
  <2> QED BY <2>1, <2>2 DEF AgendaInv, Ending, Reporting
<1>18. FilesInv'
  <2>1. Todo # {Reply("ok")}
    <3>1. Reply("ok").op = "reply"
      BY DistinctOps
    <3> QED BY <1>1, <1>2, <3>1
  <2> QED BY <1>0, <1>3, <1>5, <2>1, FilesInvBy
<1>19. EventsInv' /\ EndedIsInactive'
  <2>1. t \in {"Finished", "Stopped"} => i \notin active
    <3>1. t # "Error" => Unmark(i) \notin Todo
      BY <1>1, <1>2
    <3> QED BY <1>0, <1>1, <1>2, <3>1 DEF AgendaInv, Reporting
  <2>2. i < nextID
    <3>1. nextID \in Nat
      BY <1>0, Bounds DEF SharedTypes
    <3> QED BY <1>6, <3>1
  <2>3. ASSUME NEW d \in Epochs, NEW n \in DOMAIN events'[d]
        PROVE  /\ events'[d][n].id < nextID'
               /\ events'[d][n].type \in {"Finished", "Stopped"} => events'[d][n].id \notin active'
    <3>1. CASE events'[d][n] = k
      BY <1>1, <1>3, <1>7, <2>1, <2>2, <3>1
    <3>2. CASE \E m \in DOMAIN events[d] : events'[d][n] = events[d][m]
      BY <1>0, <1>1, <1>3, <3>2 DEF EventsInv, EndedIsInactive
    <3> QED BY <1>14, <3>1, <3>2
  <2> QED BY <2>3 DEF EventsInv, EndedIsInactive
<1>20. UnusedInv'
  <2>1. ASSUME NEW id \in PlayIDs, id >= nextID PROVE id # i
    <3>1. nextID \in Nat /\ id \in Nat
      BY <1>0, Bounds DEF SharedTypes
    <3> QED BY <1>6, <2>1, <3>1
  <2> QED BY <1>0, <1>3, <1>15, <2>1 DEF UnusedInv
<1>21. OneOutcome'
  <2>1. ASSUME NEW id \in 1..nextID - 1 PROVE outcomes'[id] = IF Open(id)' THEN 0 ELSE 1
    <3>0. id \in PlayIDs
      <4>1. nextID \in 1..MaxPlays + 1
        BY <1>0 DEF SharedTypes
      <4> QED BY <4>1, Bounds
    <3>1. CASE id = i
      <4>1. Open(id) /\ ~Open(id)'
        BY <1>1, <1>2, <1>3, <1>5, <1>6, <3>1 DEF Open, Reporting
      <4>2. outcomes[id] = 0
        BY <1>0, <4>1, OneOutcomeBy
      <4> QED BY <1>15, <3>0, <3>1, <4>1, <4>2
    <3>2. CASE id # i
      <4>1. Open(id)' <=> Open(id)
        BY <1>1, <1>2, <1>3, <1>5, <3>2 DEF Open, Reporting
      <4>2. outcomes'[id] = outcomes[id]
        BY <1>15, <3>0, <3>2
      <4> QED BY <1>0, <4>1, <4>2, OneOutcomeBy
    <3> QED BY <3>1, <3>2
  <2> QED BY <1>3, <2>1, OneOutcomeBy
<1>22. ActiveIsAccounted'
  <2>1. ASSUME NEW id \in active' PROVE Accounted(id)'
    <3>1. Accounted(id)
      BY <1>0, <1>1, <2>1, ActiveBy
    <3> QED BY <1>1, <1>2, <1>3, <1>5, <3>1 DEF Accounted
  <2> QED BY <2>1, ActiveBy
<1> QED BY <1>4, <1>16, <1>17, <1>18, <1>19, <1>20, <1>21, <1>22 DEF WInv, SharedFrame

\* Dropping the oldest event keeps the invariant, and leaves room for the newest.
LEMMA DelaysKeeps ==
    ASSUME WInv, SharedFrame, Delays
    PROVE  WInv'
<1>0. /\ Types /\ SharedTypes /\ ChannelTypes /\ WorkerTypes /\ AgendaInv /\ FilesInv /\ EventsInv
      /\ UnusedInv /\ OneOutcome /\ ActiveIsAccounted /\ EndedIsInactive
  BY DEF WInv, Types
<1>1. PICK i \in PlayIDs, t \in EventTypes, old \in Reporting, new \in Reporting :
        /\ Op(old, i, t) \in Todo
        /\ Todo' = (Todo \ {Op(old, i, t)}) \cup {Op(new, i, t)}
        /\ active' = active /\ reply' = reply /\ cmd' = cmd /\ outcomes' = outcomes
        /\ \/ old = "push" /\ new = "drop" /\ events' = events
           \/ /\ old = "drop" /\ new = "retry"
              /\ events' = [events EXCEPT ![epoch] = IF @ = <<>> THEN @ ELSE Tail(@)]
  BY DEF Delays, Reporting
<1>2. /\ Op(old, i, t).op = old /\ Op(old, i, t).id = i /\ Op(old, i, t).arg = t
      /\ Op(new, i, t).op = new /\ Op(new, i, t).id = i /\ Op(new, i, t).arg = t
      /\ "unmark" \notin Reporting /\ "reply" \notin Reporting /\ "clear" \notin Reporting
  BY OpFields DEF Reporting
<1>3. /\ nextID' = nextID /\ epoch' = epoch /\ call' = call
      /\ files' = files /\ fading' = fading /\ engine' = engine
  BY SharedPlace DEF SharedFrame
<1>4. ClientTypes' /\ SharedTypes' /\ ClientInv' /\ QueueInv' /\ CmdInv' /\ ControlInv'
  BY <1>1, SharedSame
<1>5. /\ \A id : PlayPending(id)' <=> PlayPending(id)
      /\ \A c \in Clients : PendingOf(c)' = PendingOf(c) /\ RefusedOf(c)' = RefusedOf(c)
  BY <1>1, SharedPending
<1>6. Shrinks
  BY <1>0, <1>1, SharedPlace, ShrinksBy
<1>7. EventFits => EventFits'
  <2>1. epoch \in Epochs
    BY SharedPlace
  <2>2. Len(events'[epoch]) <= Len(events[epoch])
        /\ Len(events'[epoch]) \in Nat /\ Len(events[epoch]) \in Nat
    BY <1>0, <1>6, <2>1 DEF Shrinks, ChannelTypes
  <2> QED BY <1>3, <2>2, Bounds DEF EventFits
<1>8. new = "retry" => EventFits'
  <2> SUFFICES ASSUME new = "retry" PROVE EventFits'
    OBVIOUS
  <2>1. PICK e \in Epochs : e = epoch
    BY SharedPlace
  <2>2. PICK s \in Seq(Events) : s = events[e] /\ Len(s) <= EventCap
    BY <1>0 DEF ChannelTypes
  <2>3. events'[e] = IF s = <<>> THEN s ELSE Tail(s)
    BY <1>0, <1>1, <2>1, <2>2 DEF ChannelTypes
  <2>4. CASE s = <<>>
    <3>1. Len(events'[e]) = 0
      BY <2>3, <2>4
    <3> QED BY <1>3, <2>1, <3>1, Bounds DEF EventFits
  <2>5. CASE s # <<>>
    <3>1. Len(events'[e]) = Len(s) - 1 /\ Len(s) \in Nat
      BY <2>3, <2>5
    <3> QED BY <1>3, <2>1, <2>2, <3>1, Bounds DEF EventFits
  <2> QED BY <2>4, <2>5
<1>9. events' \in [Epochs -> Seq(Events)] /\ \A e \in Epochs : Len(events'[e]) <= EventCap
  <2>1. events' \in [Epochs -> Seq(Events)] /\ events \in [Epochs -> Seq(Events)]
    BY <1>0, <1>6 DEF Shrinks, ChannelTypes
  <2>2. ASSUME NEW e \in Epochs PROVE Len(events'[e]) <= EventCap
    <3>1. /\ Len(events'[e]) <= Len(events[e]) /\ Len(events[e]) <= EventCap
          /\ Len(events'[e]) \in Nat /\ Len(events[e]) \in Nat
      BY <1>0, <1>6, <2>1 DEF Shrinks, ChannelTypes
    <3> QED BY <3>1, Bounds
  <2> QED BY <2>1, <2>2
<1>10. Types'
  BY <1>0, <1>1, <1>4, <1>9, TypesBy DEF SharedFrame, WorkerTypes
<1>11. ASSUME NEW x \in Todo' PROVE x \in Todo \/ x = Op(new, i, t)
  BY <1>1, <1>11
<1>12. \A id : Unmark(id) \in Todo => Unmark(id) \in Todo'
  <2>1. \A id : Unmark(id) # Op(old, i, t)
    BY <1>2, DistinctOps
  <2> QED BY <1>1, <2>1
<1>13. AgendaInv'
  <2>1. ASSUME NEW x \in Todo', x.op = "reply"
        PROVE  /\ cmd # NoCommand
               /\ cmd.kind # "Play"
    <3>1. x \in Todo /\ x # Op(old, i, t)
      BY <1>2, <1>11, <2>1
    <3>2. cmd # NoCommand /\ (cmd.kind = "Play" => Todo = {x})
      BY <1>0, <2>1, <3>1 DEF AgendaInv
    <3> QED BY <1>1, <3>1, <3>2
  <2>2. ASSUME NEW x \in Todo', x.op \in Ending
        PROVE  x.id \in 1..nextID - 1 /\ x.id \notin files /\ ~PlayPending(x.id)
    <3>1. i \in 1..nextID - 1 /\ i \notin files /\ ~PlayPending(i)
      BY <1>0, <1>1, <1>2 DEF AgendaInv, Ending
    <3>2. CASE x = Op(new, i, t)
      BY <1>2, <3>1, <3>2
    <3>3. CASE x \in Todo
      BY <1>0, <2>2, <3>3 DEF AgendaInv
    <3> QED BY <1>11, <2>2, <3>2, <3>3
  <2>3. ASSUME NEW x \in Todo', x.op \in Reporting, x.arg \in {"Finished", "Stopped"}
        PROVE  x.id \notin active' \/ Unmark(x.id) \in Todo'
    <3>1. CASE x = Op(new, i, t)
      <4>1. i \notin active \/ Unmark(i) \in Todo
        BY <1>0, <1>1, <1>2, <2>3, <3>1 DEF AgendaInv
      <4> QED BY <1>1, <1>2, <1>12, <3>1, <4>1
    <3>2. CASE x \in Todo
      <4>1. x.id \notin active \/ Unmark(x.id) \in Todo
        BY <1>0, <2>3, <3>2 DEF AgendaInv
      <4> QED BY <1>1, <1>12, <4>1
    <3> QED BY <1>11, <2>3, <3>1, <3>2
  <2>4. ASSUME NEW x \in Todo', x.op = "retry" PROVE EventFits'
    <3>1. CASE x = Op(new, i, t)
      BY <1>2, <1>8, <2>4, <3>1
    <3>2. CASE x \in Todo
      BY <1>0, <1>7, <2>4, <3>2 DEF AgendaInv
    <3> QED BY <1>11, <2>4, <3>1, <3>2
  <2> QED BY <1>1, <1>3, <1>5, <2>1, <2>2, <2>3, <2>4 DEF AgendaInv
<1>14. FilesInv'
  <2>1. Todo # {Reply("ok")}
    <3>1. Reply("ok").op = "reply"
      BY DistinctOps
    <3> QED BY <1>1, <1>2, <3>1
  <2> QED BY <1>0, <1>3, <1>5, <2>1, FilesInvBy
<1>15. EventsInv' /\ EndedIsInactive'
  <2>1. nextID \in Nat
    BY <1>0, Bounds DEF SharedTypes
  <2> QED BY <1>0, <1>1, <1>3, <1>6, <2>1, ShrinkKeepsEvents
<1>16. UnusedInv'
  BY <1>0, <1>1, <1>3 DEF UnusedInv
<1>17. OneOutcome'
  <2>1. \A id : Open(id)' <=> Open(id)
    BY <1>1, <1>2, <1>3, <1>5 DEF Open
  <2> QED BY <1>0, <1>1, <1>3, <2>1, OneOutcomeBy
<1>18. ActiveIsAccounted'
  <2>1. ASSUME NEW id \in active' PROVE Accounted(id)'
    <3>1. Accounted(id)
      BY <1>0, <1>1, <2>1, ActiveBy
    <3> QED BY <1>1, <1>2, <1>3, <1>5, <3>1 DEF Accounted
  <2> QED BY <2>1, ActiveBy
<1> QED BY <1>4, <1>10, <1>13, <1>14, <1>15, <1>16, <1>17, <1>18 DEF WInv, SharedFrame

\* Sending an answer keeps the invariant: only its client's Play is pending no more.
LEMMA AnswersKeeps ==
    ASSUME WInv, SharedFrame, Answers
    PROVE  WInv'
<1>0. /\ Types /\ ClientTypes /\ SharedTypes /\ ChannelTypes /\ WorkerTypes /\ AgendaInv /\ FilesInv
      /\ EventsInv /\ UnusedInv /\ OneOutcome /\ ActiveIsAccounted /\ EndedIsInactive /\ ControlInv
      /\ ClientInv /\ QueueInv /\ CmdInv
  BY DEF WInv, Types
<1>1. PICK r \in {"ok", "failed"} :
        /\ Todo = {Reply(r)} /\ Todo' = {}
        /\ reply' = [reply EXCEPT ![cmd.from] = r]
        /\ outcomes' = IF cmd.kind = "Play" /\ r = "failed"
                       THEN [outcomes EXCEPT ![cmd.id] = @ + 1] ELSE outcomes
        /\ cmd' = NoCommand
        /\ active' = active /\ events' = events
  BY DEF Answers
<1>2. Reply(r).op = "reply" /\ Reply(r).arg = r
  BY DistinctOps
<1>3. /\ nextID' = nextID /\ epoch' = epoch /\ call' = call /\ running' = running
      /\ files' = files /\ fading' = fading /\ engine' = engine /\ commands' = commands
      /\ at' = at /\ visit' = visit
  BY SharedPlace DEF SharedFrame
<1>4. PICK k \in Commands : k = cmd
  <2>1. cmd # NoCommand
    BY <1>0, <1>1, <1>2 DEF AgendaInv
  <2> QED BY <1>0, <2>1 DEF WorkerTypes
<1>5. k # NoCommand /\ Awaits(k) /\ \A e \in Epochs : ~Queued(e, k)
  BY <1>0, <1>4, NoCommandFields, CmdInvBy
<1>6. PICK c \in Clients : c = k.from /\ call[c].pc = "wait" /\ call[c].cmd = k /\ reply[c] = "none"
  BY <1>5 DEF Awaits
<1>7. /\ reply' \in [Clients -> {"none", "ok", "failed"}] /\ reply'[c] = r
      /\ \A d \in Clients : d # c => reply'[d] = reply[d]
  BY <1>0, <1>1, <1>4, <1>6 DEF ClientTypes
<1>8. k.kind = "Play" => /\ k.id \in 1..nextID - 1
                         /\ \A d \in Clients : d # c /\ call[d].cmd.kind = "Play" => call[d].cmd.id # k.id
                         /\ (r = "ok" <=> k.id \in files)
  <2>1. CallInv(c)
    BY <1>0 DEF ClientInv
  <2> QED BY <1>0, <1>1, <1>2, <1>4, <1>6, <2>1 DEF CallInv, AgendaInv
<1>9. ASSUME NEW d \in Clients
      PROVE  /\ PendingOf(d)' = IF d = c THEN {} ELSE PendingOf(d)
             /\ RefusedOf(d) \subseteq RefusedOf(d)'
             /\ k.id \in PendingOf(d) /\ k.kind = "Play" => d = c
             /\ d = c => (k.kind # "Play" => PendingOf(d) = {})
                         /\ (k.kind = "Play" => PendingOf(d) = {k.id})
             /\ d = c /\ k.kind = "Play" /\ r = "failed" => k.id \in RefusedOf(d)'
  <2>1. CASE d = c
    BY <1>3, <1>6, <1>7, <2>1 DEF PendingOf, RefusedOf, Waiting
  <2>2. CASE d # c
    BY <1>3, <1>7, <1>8, <2>2 DEF PendingOf, RefusedOf, Waiting
  <2> QED BY <2>1, <2>2
<1>10. ASSUME NEW id
       PROVE  /\ PlayPending(id)' => PlayPending(id)
              /\ PlayPending(id) /\ ~PlayPending(id)' => k.kind = "Play" /\ id = k.id
              /\ k.kind = "Play" /\ id = k.id => PlayPending(id) /\ ~PlayPending(id)'
  BY <1>9, PendingIsOf
<1>11. ClientInv'
  <2>1. ASSUME NEW d \in Clients PROVE CallInv(d)'
    <3>1. CallInv(d)
      BY <1>0 DEF ClientInv
    <3>2. call[d].pc # "wait" => reply'[d] = "none"
      BY <1>6, <1>7, <3>1 DEF CallInv
    <3> QED BY <1>3, <3>1, <3>2 DEF CallInv, InShutdown
  <2> QED BY <2>1 DEF ClientInv
<1>12. ClientTypes' /\ SharedTypes'
  BY <1>0, <1>1, <1>3, <1>7 DEF ClientTypes, SharedTypes
<1>13. QueueInv'
  <2>1. ASSUME NEW e \in Epochs, NEW j, Queued(e, j)' PROVE Awaits(j)' /\ call'[j.from].epoch = e
    <3>1. Queued(e, j) /\ Awaits(j) /\ call[j.from].epoch = e
      BY <1>0, <1>3, <2>1, QueueInvBy DEF Queued
    <3>2. j.from # c
      BY <1>5, <1>6, <3>1 DEF Awaits
    <3> QED BY <1>3, <1>7, <3>1, <3>2 DEF Awaits
  <2>2. \A e \in Epochs : Distinct(commands'[e])
    BY <1>0, <1>3, QueueInvBy
  <2> QED BY <2>1, <2>2, QueueInvBy
<1>14. CmdInv'
  BY <1>1, CmdInvBy
<1>15. outcomes' \in [PlayIDs -> Nat]
       /\ \A id \in PlayIDs : outcomes'[id] = IF k.kind = "Play" /\ r = "failed" /\ id = k.id
                                              THEN outcomes[id] + 1 ELSE outcomes[id]
  <2>1. outcomes \in [PlayIDs -> Nat]
        /\ outcomes' = IF k.kind = "Play" /\ r = "failed"
                       THEN [outcomes EXCEPT ![k.id] = @ + 1] ELSE outcomes
    BY <1>0, <1>1, <1>4 DEF WorkerTypes
  <2>2. CASE k.kind = "Play" /\ r = "failed"
    <3>1. outcomes' = [outcomes EXCEPT ![k.id] = outcomes[k.id] + 1]
      BY <2>1, <2>2
    <3>2. k.id \in PlayIDs
      <4>1. nextID \in 1..MaxPlays + 1
        BY <1>0 DEF SharedTypes
      <4> QED BY <1>8, <2>2, <4>1, Bounds
    <3>3. outcomes[k.id] + 1 \in Nat
      BY <2>1, <3>2
    <3>4. outcomes' \in [PlayIDs -> Nat]
      BY <2>1, <3>1, <3>3
    <3> QED BY <2>1, <2>2, <3>1, <3>4
  <2>3. CASE ~(k.kind = "Play" /\ r = "failed")
    BY <2>1, <2>3
  <2> QED BY <2>2, <2>3
<1>16. Types'
  BY <1>0, <1>1, <1>12, <1>15, TypesBy DEF SharedFrame, ChannelTypes
<1>17. AgendaInv' /\ ControlInv'
  BY <1>0, <1>1, <1>3, SharedPlace DEF AgendaInv, ControlInv
<1>18. FilesInv'
  <2>1. ASSUME NEW d \in Clients, NEW id \in files, id \in PendingOf(d)' PROVE FALSE
    <3>1. d # c /\ id \in PendingOf(d)
      BY <1>9, <2>1
    <3>2. call[d].cmd = k
      BY <1>0, <1>4, <3>1, FilesInvBy
    <3>3. CallInv(d) /\ call[d].cmd # NoCommand
      BY <1>0, <1>5, <3>2 DEF ClientInv
    <3>4. call[d].cmd.from = d
      BY <3>3 DEF CallInv
    <3> QED BY <1>6, <3>1, <3>2, <3>4
  <2> QED BY <1>0, <1>3, <2>1, FilesInvBy
<1>19. EventsInv' /\ EndedIsInactive'
  BY <1>0, <1>1, <1>3 DEF EventsInv, EndedIsInactive
<1>20. UnusedInv'
  <2>1. ASSUME NEW id \in PlayIDs, id >= nextID PROVE ~(k.kind = "Play" /\ id = k.id)
    <3>1. nextID \in Nat /\ id \in Nat
      BY <1>0, Bounds DEF SharedTypes
    <3> QED BY <1>8, <2>1, <3>1
  <2> QED BY <1>0, <1>3, <1>15, <2>1 DEF UnusedInv
<1>21. OneOutcome'
  <2>1. ASSUME NEW id \in 1..nextID - 1 PROVE outcomes'[id] = IF Open(id)' THEN 0 ELSE 1
    <3>0. id \in PlayIDs
      <4>1. nextID \in 1..MaxPlays + 1
        BY <1>0 DEF SharedTypes
      <4> QED BY <4>1, Bounds
    <3>1. outcomes[id] = IF Open(id) THEN 0 ELSE 1
      BY <1>0, OneOutcomeBy
    <3>2. /\ Open(id) <=> id \in files \/ PlayPending(id)
          /\ Open(id)' <=> id \in files \/ PlayPending(id)'
      BY <1>1, <1>2, <1>3 DEF Open, Reporting
    <3>3. CASE k.kind = "Play" /\ id = k.id /\ r = "failed"
      <4>1. Open(id) /\ ~Open(id)'
        BY <1>8, <1>10, <3>2, <3>3
      <4> QED BY <1>15, <3>0, <3>1, <3>3, <4>1
    <3>4. CASE k.kind = "Play" /\ id = k.id /\ r # "failed"
      <4>1. Open(id) /\ Open(id)'
        BY <1>8, <1>10, <3>2, <3>4
      <4> QED BY <1>15, <3>0, <3>1, <3>4, <4>1
    <3>5. CASE ~(k.kind = "Play" /\ id = k.id)
      <4>1. Open(id)' <=> Open(id)
        BY <1>10, <3>2, <3>5
      <4>2. outcomes'[id] = outcomes[id]
        BY <1>15, <3>0, <3>5
      <4> QED BY <3>1, <4>1, <4>2
    <3> QED BY <3>3, <3>4, <3>5
  <2> QED BY <1>3, <2>1, OneOutcomeBy
<1>22. ActiveIsAccounted'
  <2>1. ASSUME NEW id \in active' PROVE Accounted(id)'
    <3>1. Accounted(id)
      BY <1>0, <1>1, <2>1, ActiveBy
    <3>2. id \in files \/ PlayPending(id) \/ \E d \in Clients : id \in RefusedOf(d)
      BY <1>1, <1>2, <3>1 DEF Accounted
    <3>3. CASE id \in files \/ \E d \in Clients : id \in RefusedOf(d)
      BY <1>3, <1>9, <3>3 DEF Accounted
    <3>4. CASE PlayPending(id) /\ id \notin files
      <4>1. CASE PlayPending(id)'
        BY <4>1 DEF Accounted
      <4>2. CASE ~PlayPending(id)'
        <5>1. k.kind = "Play" /\ id = k.id /\ r = "failed"
          BY <1>8, <1>10, <3>4, <4>2
        <5>2. id \in RefusedOf(c)'
          BY <1>9, <5>1
        <5> QED BY <5>2 DEF Accounted
      <4> QED BY <4>1, <4>2
    <3> QED BY <3>2, <3>3, <3>4
  <2> QED BY <2>1, ActiveBy
<1> QED BY <1>11, <1>13, <1>14, <1>16, <1>17, <1>18, <1>19, <1>20, <1>21, <1>22 DEF WInv, SharedFrame

\* The operations on shared state keep the invariant.
LEMMA SharedKeeps ==
    ASSUME WInv, SharedStep
    PROVE  WInv'
<1>1. AgendaShape /\ AgendaInv
  BY DEF WInv
<1>2. AgendaShape' /\ (Unmarks \/ Clears \/ Reports \/ Delays \/ Answers)
  BY <1>1, SharedEffect
<1>3. Todo # {}
  BY <1>1, EmptyTodo DEF SharedStep
<1>4. SharedFrame
  BY <1>2, <1>3 DEF SharedFrame, SharedStep
<1> QED BY <1>2, <1>4, UnmarksKeeps, ClearsKeeps, ReportsKeeps, DelaysKeeps, AnswersKeeps

--------------------------------------------------------------------------------
\* The worker's own steps.
OwnFrame == Todo = {} /\ Others /\ AgendaShape'

\* An own step of the worker starts while it runs.
LEMMA OwnPlace ==
    ASSUME WInv, Own
    PROVE  /\ OwnFrame /\ Effect /\ at # "down" /\ running /\ epoch \in Epochs
           /\ agenda = <<>>
<1>1. OwnFrame /\ Effect /\ agenda = <<>>
  BY OwnUnchanged, OwnEffect DEF WInv, OwnFrame
<1>2. at # "down"
  <2> USE DEF WorkerAt
  <2>1. CASE TakeCommand \/ Tick \/ Exit
    BY <2>1 DEF TakeCommand, Tick, Exit
  <2>2. CASE CheckEngine
    BY <2>2 DEF CheckEngine, EngineFine, EngineCritical, CloseAfterCritical, RecreateEngine,
                RecreateFails, MayRecreate
  <2>3. CASE HandleCommand
    BY <2>3 DEF HandleCommand, HandlePlay, HandlePlayFails, HandleSetPosition,
           HandleStopUnknown, HandleStopFading, HandleStop, HandleStopAllFading,
           HandleStopAll, HandleShutdown, Handling
  <2>4. CASE Maintain
    <3>1. CASE UpdateFadeOut \/ ReclaimFile
      BY <3>1 DEF UpdateFadeOut, ReclaimFile, GoesOn, Ends
    <3>2. CASE EndOfRange("fade", "reclaim") \/ EndOfRange("reclaim", "refill")
      BY <3>2 DEF EndOfRange
    <3>3. CASE RefillFile \/ PollCommand \/ PollNothing \/ EndOfRefill
      BY <3>3 DEF RefillFile, PollCommand, PollNothing, EndOfRefill
    <3> QED BY <2>4, <3>1, <3>2, <3>3 DEF Maintain
  <2> QED BY <2>1, <2>2, <2>3, <2>4 DEF Own
<1>3. running /\ epoch \in Epochs
  BY <1>2 DEF WInv, ControlInv, Types, SharedTypes
<1> QED BY <1>1, <1>2, <1>3

\* Own steps leave calls and shared state alone.
LEMMA OwnSame ==
    ASSUME WInv, OwnFrame, at # "down", epoch \in Epochs
    PROVE  /\ ClientInv' /\ ClientTypes' /\ SharedTypes' /\ EventsInv' /\ EndedIsInactive'
           /\ \A id : PlayPending(id)' <=> PlayPending(id)
           /\ \A c \in Clients : PendingOf(c)' = PendingOf(c) /\ RefusedOf(c)' = RefusedOf(c)
           /\ \A k : Awaits(k)' <=> Awaits(k)
           /\ running' = running /\ nextID' = nextID /\ active' = active /\ epoch' = epoch
           /\ events' = events /\ call' = call
<1>0. /\ running' = running /\ nextID' = nextID /\ active' = active /\ epoch' = epoch
      /\ events' = events /\ call' = call /\ reply' = reply
  BY DEF OwnFrame, Others
<1>1. \A c \in Clients : call[c].pc # "clear"
  BY DEF WInv, ClientInv, CallInv
<1>2. /\ ClientInv' /\ ClientTypes'
      /\ \A id : PlayPending(id)' <=> PlayPending(id)
      /\ \A c \in Clients : PendingOf(c)' = PendingOf(c) /\ RefusedOf(c)' = RefusedOf(c)
      /\ \A k : Awaits(k)' <=> Awaits(k)
  BY <1>0, <1>1, CallsUnchanged
<1>3. SharedTypes'
  BY <1>0 DEF WInv, Types, SharedTypes
<1>4. EventsInv' /\ EndedIsInactive'
  BY <1>0 DEF WInv, EventsInv, EndedIsInactive
<1> QED BY <1>0, <1>2, <1>3, <1>4

\* With an empty agenda no Play that waits for its answer has a file, and the
\* command being handled is waited for.
LEMMA NoPendingFile ==
    ASSUME WInv, Todo = {}
    PROVE  /\ \A id \in files : ~PlayPending(id) /\ id \in PlayIDs /\ id \in 1..nextID - 1
           /\ \A id \in files, c \in Clients : id \notin PendingOf(c)
           /\ 1..nextID - 1 \subseteq PlayIDs
<1>1. \A id \in files, c \in Clients : id \notin PendingOf(c)
  BY FilesInvBy DEF WInv
<1>2. files \subseteq 1..nextID - 1 /\ files \subseteq PlayIDs /\ nextID \in 1..MaxPlays + 1
  BY DEF WInv, FilesInv, Types, WorkerTypes, SharedTypes
<1>3. 1..nextID - 1 \subseteq PlayIDs
  BY <1>2, Bounds
<1> QED BY <1>1, <1>2, <1>3, PendingIsOf

\* The Play being handled is pending, for its own client.
LEMMA CmdPending ==
    ASSUME WInv, cmd # NoCommand
    PROVE  /\ cmd \in Commands /\ cmd.from \in Clients /\ cmd = call[cmd.from].cmd
           /\ cmd.kind = "Play" =>
                 /\ cmd.id \in 1..nextID - 1 /\ PlayPending(cmd.id)
                 /\ \A d \in Clients : cmd.id \in PendingOf(d) => d = cmd.from
<1>1. cmd \in Commands /\ Awaits(cmd)
  BY DEF WInv, Types, WorkerTypes, CmdInv
<1>2. PICK k \in Commands : k = cmd
  BY <1>1
<1>3. PICK c \in Clients : /\ c = k.from /\ call[c].pc = "wait" /\ call[c].cmd = k /\ reply[c] = "none"
  BY <1>1, <1>2 DEF Awaits
<1>4. CallInv(c)
  BY DEF WInv, ClientInv
<1>5. ASSUME k.kind = "Play"
      PROVE  /\ k.id \in 1..nextID - 1 /\ PlayPending(k.id)
             /\ \A d \in Clients : k.id \in PendingOf(d) => d = c
  <2>1. k.id \in 1..nextID - 1
    BY <1>3, <1>4, <1>5 DEF CallInv
  <2>2. PlayPending(k.id)
    BY <1>3, <1>5 DEF PlayPending, Waiting
  <2>3. ASSUME NEW d \in Clients, k.id \in PendingOf(d) PROVE d = c
    BY <1>3, <1>4, <1>5, <2>3 DEF PendingOf, CallInv
  <2> QED BY <2>1, <2>2, <2>3
<1> QED BY <1>1, <1>2, <1>3, <1>5

\* What is left to show of an own step that leaves the queue alone.
Left == /\ QueueInv' /\ CmdInv' /\ AgendaInv' /\ FilesInv' /\ UnusedInv' /\ OneOutcome'
        /\ ActiveIsAccounted' /\ commands' \in [Epochs -> Seq(Commands)]
        /\ \A e \in Epochs : Len(commands'[e]) <= CommandCap
        /\ cmd' \in Commands \cup {NoCommand} /\ outcomes' \in [PlayIDs -> Nat]

\* Own steps that receive no command keep the queues.
LEMMA QueueSame ==
    ASSUME WInv, OwnFrame, at # "down", epoch \in Epochs, commands' = commands,
           cmd' = cmd \/ cmd' = NoCommand
    PROVE  /\ QueueInv' /\ CmdInv' /\ commands' \in [Epochs -> Seq(Commands)]
           /\ \A e \in Epochs : Len(commands'[e]) <= CommandCap
           /\ cmd' \in Commands \cup {NoCommand}
<1>1. \A k : Awaits(k)' <=> Awaits(k)
  BY OwnSame
<1>2. QueueInv /\ CmdInv /\ ChannelTypes /\ cmd \in Commands \cup {NoCommand} /\ call' = call
  BY OwnSame DEF WInv, Types, WorkerTypes
<1>3. \A e \in Epochs : \A j : Queued(e, j)' <=> Queued(e, j)
  BY DEF Queued
<1>4. QueueInv'
  BY <1>1, <1>2, <1>3, QueueInvBy
<1>5. CmdInv'
  <2>1. PICK k : k = cmd'
    OBVIOUS
  <2>2. CASE k = NoCommand
    BY <2>1, <2>2, CmdInvBy
  <2>3. CASE k # NoCommand
    <3>1. k = cmd
      BY <2>1, <2>3
    <3> QED BY <1>1, <1>2, <1>3, <2>1, <3>1, CmdInvBy
  <2> QED BY <2>2, <2>3
<1> QED BY <1>2, <1>4, <1>5 DEF ChannelTypes

\* Files, agenda and outcomes as they were.
LEMMA RestSame ==
    ASSUME WInv, OwnFrame, at # "down", epoch \in Epochs, Todo' = {},
           UNCHANGED <<files, outcomes>>
    PROVE  /\ AgendaInv' /\ FilesInv' /\ UnusedInv' /\ OneOutcome' /\ ActiveIsAccounted'
           /\ outcomes' \in [PlayIDs -> Nat]
<1>0. /\ AgendaInv /\ FilesInv /\ UnusedInv /\ OneOutcome /\ ActiveIsAccounted /\ WorkerTypes
      /\ Todo = {}
  BY DEF WInv, Types, OwnFrame
<1>1. /\ \A id : PlayPending(id)' <=> PlayPending(id)
      /\ \A c \in Clients : PendingOf(c)' = PendingOf(c) /\ RefusedOf(c)' = RefusedOf(c)
      /\ nextID' = nextID /\ active' = active /\ call' = call
  BY OwnSame
<1>2. AgendaInv'
  BY DEF AgendaInv
<1>3. FilesInv'
  BY <1>0, <1>1, FilesInvBy
<1>4. UnusedInv' /\ outcomes' \in [PlayIDs -> Nat]
  BY <1>0, <1>1 DEF UnusedInv, WorkerTypes
<1>5. OneOutcome'
  <2>1. \A id : Open(id)' <=> Open(id)
    BY <1>0, <1>1 DEF Open
  <2> QED BY <1>0, <1>1, <2>1, OneOutcomeBy
<1>6. ActiveIsAccounted'
  <2>1. \A id : Accounted(id)' <=> Accounted(id)
    BY <1>0, <1>1 DEF Accounted
  <2> QED BY <1>0, <1>1, <2>1, ActiveBy
<1> QED BY <1>2, <1>3, <1>4, <1>5, <1>6

\* A step that closes no file and answers nobody.
LEMMA IdlesKeeps ==
    ASSUME WInv, OwnFrame, at # "down", epoch \in Epochs, Idles
    PROVE  Left
<1>1. /\ cmd' = cmd \/ cmd' = NoCommand
      /\ Todo' = {} /\ commands' = commands /\ files' = files /\ outcomes' = outcomes
  BY DEF Idles
<1> QED BY <1>1, QueueSame, RestSame DEF Left

\* Receiving the oldest command.
LEMMA TailQueue ==
    ASSUME NEW s \in Seq(Commands), s # <<>>
    PROVE  /\ Head(s) \in Commands /\ Tail(s) \in Seq(Commands) /\ Len(Tail(s)) <= Len(s)
           /\ \E n \in DOMAIN s : s[n] = Head(s)
           /\ \A k : (\E n \in DOMAIN Tail(s) : Tail(s)[n] = k) => \E n \in DOMAIN s : s[n] = k
           /\ Distinct(s) => Distinct(Tail(s))
           /\ Distinct(s) => ~\E n \in DOMAIN Tail(s) : Tail(s)[n] = Head(s)
<1>1. /\ Head(s) = s[1] /\ 1 \in DOMAIN s /\ Head(s) \in Commands
      /\ Tail(s) \in Seq(Commands) /\ Len(Tail(s)) = Len(s) - 1 /\ Len(s) \in Nat
      /\ \A n \in 1..Len(Tail(s)) : Tail(s)[n] = s[n + 1]
      /\ DOMAIN s = 1..Len(s) /\ DOMAIN Tail(s) = 1..Len(Tail(s))
  OBVIOUS
<1>2. ASSUME NEW n \in DOMAIN Tail(s)
      PROVE  n \in Nat /\ n + 1 \in DOMAIN s /\ n + 1 # 1 /\ Tail(s)[n] = s[n + 1]
  BY <1>1
<1> DEFINE t == Tail(s)
<1> HIDE DEF t
<1>3. \A n \in DOMAIN t : n \in Nat /\ n + 1 \in DOMAIN s /\ n + 1 # 1 /\ t[n] = s[n + 1]
  BY <1>2 DEF t
<1>4. Distinct(s) => Distinct(t)
  <2> SUFFICES ASSUME Distinct(s), NEW m \in DOMAIN t, NEW n \in DOMAIN t, m # n
               PROVE  t[m] # t[n]
    BY DEF Distinct
  <2>1. m + 1 # n + 1
    BY <1>3
  <2> QED BY <1>3, <2>1 DEF Distinct
<1>5. Distinct(s) => ~\E n \in DOMAIN t : t[n] = Head(s)
  BY <1>1, <1>3 DEF Distinct
<1>6. Len(Tail(s)) <= Len(s)
  BY <1>1
<1> QED BY <1>1, <1>3, <1>4, <1>5, <1>6 DEF t

\* Receiving a command.
LEMMA ReceivesKeeps ==
    ASSUME WInv, OwnFrame, at # "down", epoch \in Epochs, Receives
    PROVE  Left
<1>0. ChannelTypes /\ QueueInv
  BY DEF WInv, Types
<1>1. PICK e \in Epochs : e = epoch
  OBVIOUS
<1>2. PICK s \in Seq(Commands) : s = commands[e] /\ s # <<>> /\ Len(s) <= CommandCap
  BY <1>0, <1>1 DEF ChannelTypes, Receives
<1>3. PICK k \in Commands : k = Head(s) /\ cmd' = k
  BY <1>1, <1>2, TailQueue DEF Receives
<1>4. PICK t \in Seq(Commands) : t = Tail(s)
  BY <1>2, TailQueue
<1>5. commands' = [commands EXCEPT ![e] = t]
  BY <1>1, <1>2, <1>4 DEF Receives
<1>6. commands'[e] = t /\ \A d \in Epochs : d # e => commands'[d] = commands[d]
  BY <1>0, <1>5 DEF ChannelTypes
<1>7. Distinct(s) /\ \A j : Queued(e, j) => Awaits(j) /\ call[j.from].epoch = e
  BY <1>0, <1>2, QueueInvBy
<1>8. /\ Queued(e, k) /\ Distinct(t) /\ ~Queued(e, k)'
      /\ \A j : Queued(e, j)' => Queued(e, j)
  BY <1>2, <1>3, <1>4, <1>6, <1>7, TailQueue DEF Queued
<1>9. ASSUME NEW d \in Epochs, d # e PROVE \A j : Queued(d, j)' <=> Queued(d, j)
  BY <1>6, <1>9 DEF Queued
<1>10. (\A j : Awaits(j)' <=> Awaits(j)) /\ call' = call
  BY OwnSame
<1>11. QueueInv'
  <2>1. ASSUME NEW d \in Epochs, NEW j, Queued(d, j)' PROVE Awaits(j)' /\ call'[j.from].epoch = d
    <3>1. Queued(d, j)
      BY <1>8, <1>9, <2>1
    <3> QED BY <1>0, <1>10, <3>1, QueueInvBy
  <2>2. ASSUME NEW d \in Epochs PROVE Distinct(commands'[d])
    BY <1>0, <1>6, <1>8, QueueInvBy
  <2> QED BY <2>1, <2>2, QueueInvBy
<1>12. CmdInv'
  <2>1. Awaits(k)' /\ call[k.from].epoch = e
    BY <1>7, <1>8, <1>10
  <2>2. ASSUME NEW d \in Epochs PROVE ~Queued(d, k)'
    <3>1. CASE d = e
      BY <1>8, <3>1
    <3>2. CASE d # e
      BY <1>0, <1>9, <2>1, <3>2, QueueInvBy
    <3> QED BY <3>1, <3>2
  <2> QED BY <1>3, <2>1, <2>2, CmdInvBy
<1>13. commands' \in [Epochs -> Seq(Commands)] /\ \A d \in Epochs : Len(commands'[d]) <= CommandCap
  <2>1. Len(t) <= CommandCap
    <3>1. Len(t) <= Len(s) /\ Len(t) \in Nat /\ Len(s) \in Nat
      BY <1>2, <1>4, TailQueue
    <3> QED BY <1>2, <3>1, Bounds
  <2> QED BY <1>0, <1>5, <2>1 DEF ChannelTypes
<1>14. Todo' = {} /\ UNCHANGED <<files, outcomes>>
  BY DEF Receives
<1> QED BY <1>3, <1>11, <1>12, <1>13, <1>14, RestSame DEF Left

\* The end of a file: its event is owed from now on.
LEMMA ClosesKeeps ==
    ASSUME WInv, OwnFrame, at # "down", epoch \in Epochs, Closes
    PROVE  Left
<1>0. /\ AgendaInv /\ FilesInv /\ UnusedInv /\ OneOutcome /\ ActiveIsAccounted /\ WorkerTypes
      /\ Todo = {}
  BY DEF WInv, Types, OwnFrame
<1>1. PICK i \in files, t \in EventTypes :
          /\ files' = files \ {i}
          /\ Todo' = {Unmark(i), Op("push", i, t)}
          /\ commands' = commands /\ cmd' = cmd /\ outcomes' = outcomes
  BY DEF Closes
<1>2. /\ Unmark(i).op = "unmark" /\ Unmark(i).id = i
      /\ Op("push", i, t).op = "push" /\ Op("push", i, t).id = i
  BY DistinctOps, OpFields
<1>3. /\ \A id : PlayPending(id)' <=> PlayPending(id)
      /\ \A c \in Clients : PendingOf(c)' = PendingOf(c) /\ RefusedOf(c)' = RefusedOf(c)
      /\ nextID' = nextID /\ active' = active /\ call' = call
  BY OwnSame
<1>4. i \in 1..nextID - 1 /\ ~PlayPending(i) /\ \A id \in files, c \in Clients : id \notin PendingOf(c)
  BY <1>0, NoPendingFile
<1>5. AgendaInv'
  <2>1. ASSUME NEW x \in Todo' PROVE x.id = i /\ x.op \in {"unmark", "push"}
    BY <1>1, <1>2
  <2>2. i \in 1..nextID' - 1 /\ i \notin files' /\ ~PlayPending(i)' /\ Unmark(i) \in Todo'
    BY <1>1, <1>3, <1>4
  <2> QED BY <2>1, <2>2 DEF AgendaInv
<1>6. FilesInv'
  BY <1>0, <1>1, <1>3, <1>4, FilesInvBy
<1>7. UnusedInv' /\ outcomes' \in [PlayIDs -> Nat]
  BY <1>0, <1>1, <1>3 DEF UnusedInv, WorkerTypes
<1>8. OneOutcome'
  <2>1. ASSUME NEW id PROVE Open(id)' <=> Open(id)
    <3>1. (\E x \in Todo' : x.id = id /\ x.op \in Reporting) <=> id = i
      BY <1>1, <1>2 DEF Reporting
    <3> QED BY <1>0, <1>1, <1>3, <3>1 DEF Open
  <2> QED BY <1>0, <1>1, <1>3, <2>1, OneOutcomeBy
<1>9. ActiveIsAccounted'
  <2>1. ASSUME NEW id \in active' PROVE Accounted(id)'
    <3>1. Accounted(id)
      BY <1>0, <1>3, <2>1, ActiveBy
    <3>2. id = i => \E x \in Todo' : x.op = "unmark" /\ x.id = id
      BY <1>1, <1>2
    <3> QED BY <1>0, <1>1, <1>3, <3>1, <3>2 DEF Accounted
  <2> QED BY <2>1, ActiveBy
<1> QED BY <1>1, <1>5, <1>6, <1>7, <1>8, <1>9, QueueSame DEF Left

\* An answer without a new file: a Play is refused.
LEMMA RefusesKeeps ==
    ASSUME WInv, OwnFrame, at # "down", epoch \in Epochs, Refuses
    PROVE  Left
<1>0. /\ AgendaInv /\ FilesInv /\ UnusedInv /\ OneOutcome /\ ActiveIsAccounted /\ WorkerTypes
      /\ Todo = {}
  BY DEF WInv, Types, OwnFrame
<1>1. PICK r \in {"ok", "failed"} :
          /\ Todo' = {Reply(r)} /\ (cmd.kind = "Play" => r = "failed") /\ cmd # NoCommand
          /\ commands' = commands /\ cmd' = cmd /\ files' = files /\ outcomes' = outcomes
  BY DEF Refuses
<1>2. Reply(r).op = "reply" /\ Reply(r).arg = r
  BY DistinctOps
<1>3. /\ \A id : PlayPending(id)' <=> PlayPending(id)
      /\ \A c \in Clients : PendingOf(c)' = PendingOf(c) /\ RefusedOf(c)' = RefusedOf(c)
      /\ nextID' = nextID /\ active' = active /\ call' = call
  BY OwnSame
<1>4. /\ \A id \in files : ~PlayPending(id)
      /\ \A id \in files, c \in Clients : id \notin PendingOf(c)
  BY <1>0, NoPendingFile
<1>5. AgendaInv'
  <2>1. cmd.kind = "Play" => r # "ok" /\ cmd.id \notin files
    BY <1>1, <1>4, CmdPending
  <2> QED BY <1>1, <1>2, <2>1 DEF AgendaInv, Ending, Reporting
<1>6. FilesInv'
  BY <1>0, <1>1, <1>3, <1>4, FilesInvBy
<1>7. UnusedInv' /\ outcomes' \in [PlayIDs -> Nat]
  BY <1>0, <1>1, <1>3 DEF UnusedInv, WorkerTypes
<1>8. OneOutcome'
  <2>1. \A id : Open(id)' <=> Open(id)
    BY <1>0, <1>1, <1>2, <1>3 DEF Open, Reporting
  <2> QED BY <1>0, <1>1, <1>3, <2>1, OneOutcomeBy
<1>9. ActiveIsAccounted'
  <2>1. ASSUME NEW id \in active' PROVE Accounted(id)'
    <3>1. Accounted(id)
      BY <1>0, <1>3, <2>1, ActiveBy
    <3> QED BY <1>0, <1>1, <1>3, <3>1 DEF Accounted
  <2> QED BY <2>1, ActiveBy
<1> QED BY <1>1, <1>5, <1>6, <1>7, <1>8, <1>9, QueueSame DEF Left

\* A new file: its Play is answered next.
LEMMA PlaysKeeps ==
    ASSUME WInv, OwnFrame, at # "down", epoch \in Epochs, Plays
    PROVE  Left
<1>0. /\ AgendaInv /\ FilesInv /\ UnusedInv /\ OneOutcome /\ ActiveIsAccounted /\ WorkerTypes
      /\ Todo = {}
  BY DEF WInv, Types, OwnFrame
<1>1. PICK i : i = cmd.id
  OBVIOUS
<1>2. /\ cmd # NoCommand /\ cmd.kind = "Play"
      /\ files' = files \cup {i} /\ Todo' = {Reply("ok")}
      /\ commands' = commands /\ cmd' = cmd /\ outcomes' = outcomes
  BY <1>1 DEF Plays
<1>3. /\ \A id : PlayPending(id)' <=> PlayPending(id)
      /\ \A c \in Clients : PendingOf(c)' = PendingOf(c) /\ RefusedOf(c)' = RefusedOf(c)
      /\ nextID' = nextID /\ active' = active /\ call' = call
  BY OwnSame
<1>4. \A id \in files, c \in Clients : id \notin PendingOf(c)
  BY <1>0, NoPendingFile
<1>5. /\ i \in 1..nextID - 1 /\ PlayPending(i)
      /\ \A d \in Clients : i \in PendingOf(d) => d = cmd.from
      /\ cmd = call[cmd.from].cmd
  BY <1>1, <1>2, CmdPending
<1>6. Reply("ok").op = "reply" /\ Reply("ok").arg = "ok"
  BY DistinctOps
<1>7. AgendaInv'
  <2>1. cmd'.id \in files'
    BY <1>1, <1>2
  <2> QED BY <1>2, <1>6, <2>1 DEF AgendaInv, Ending, Reporting
<1>8. FilesInv'
  <2>1. ASSUME NEW d \in Clients, NEW id \in files', id \in PendingOf(d)'
        PROVE  cmd' = call'[d].cmd
    <3>1. id = i /\ d = cmd.from
      BY <1>2, <1>3, <1>4, <1>5, <2>1
    <3> QED BY <1>2, <1>3, <1>5, <3>1
  <2>2. files' \subseteq 1..nextID' - 1
    BY <1>0, <1>2, <1>3, <1>5, FilesInvBy
  <2> QED BY <1>2, <2>1, <2>2, FilesInvBy
<1>9. UnusedInv' /\ outcomes' \in [PlayIDs -> Nat]
  BY <1>0, <1>2, <1>3 DEF UnusedInv, WorkerTypes
<1>10. OneOutcome'
  <2>1. \A id : Open(id)' <=> Open(id)
    BY <1>0, <1>2, <1>3, <1>5, <1>6 DEF Open, Reporting
  <2> QED BY <1>0, <1>2, <1>3, <2>1, OneOutcomeBy
<1>11. ActiveIsAccounted'
  <2>1. ASSUME NEW id \in active' PROVE Accounted(id)'
    <3>1. Accounted(id)
      BY <1>0, <1>3, <2>1, ActiveBy
    <3> QED BY <1>0, <1>2, <1>3, <3>1 DEF Accounted
  <2> QED BY <2>1, ActiveBy
<1> QED BY <1>2, <1>7, <1>8, <1>9, <1>10, <1>11, QueueSame DEF Left

\* Files that are closed without an event have their outcome at once.
LEMMA SilentOutcomes ==
    ASSUME WInv, OwnFrame, at # "down", epoch \in Epochs, NEW ids, ids \subseteq files,
           files' = files \ ids, Silently(ids),
           \A x \in Todo' : x.op \notin Reporting
    PROVE  OneOutcome' /\ UnusedInv' /\ outcomes' \in [PlayIDs -> Nat] /\ FilesInv'
<1>0. /\ FilesInv /\ UnusedInv /\ OneOutcome /\ WorkerTypes /\ Todo = {} /\ SharedTypes
  BY DEF WInv, Types, OwnFrame
<1>1. /\ \A id : PlayPending(id)' <=> PlayPending(id)
      /\ \A c \in Clients : PendingOf(c)' = PendingOf(c)
      /\ nextID' = nextID /\ call' = call
  BY OwnSame
<1>2. /\ \A id \in files : ~PlayPending(id) /\ id \in PlayIDs /\ id \in 1..nextID - 1
      /\ \A id \in files, c \in Clients : id \notin PendingOf(c)
      /\ 1..nextID - 1 \subseteq PlayIDs
  BY <1>0, NoPendingFile
<1>3. \A id \in PlayIDs : outcomes[id] \in Nat
                          /\ outcomes'[id] = IF id \in ids THEN outcomes[id] + 1 ELSE outcomes[id]
  BY <1>0 DEF WorkerTypes, Silently
<1>4. outcomes' \in [PlayIDs -> Nat]
  BY <1>0, <1>3 DEF WorkerTypes, Silently
<1>5. OneOutcome'
  <2>1. ASSUME NEW id \in 1..nextID - 1 PROVE outcomes'[id] = IF Open(id)' THEN 0 ELSE 1
    <3>0. id \in PlayIDs
      BY <1>2
    <3>1. CASE id \in ids
      <4>1. Open(id) /\ ~Open(id)'
        BY <1>1, <1>2, <3>1 DEF Open
      <4>2. outcomes[id] = 0
        BY <1>0, <4>1, OneOutcomeBy
      <4> QED BY <1>3, <3>0, <3>1, <4>1, <4>2
    <3>2. CASE id \notin ids
      <4>1. Open(id)' <=> Open(id)
        BY <1>0, <1>1, <3>2 DEF Open
      <4>2. outcomes'[id] = outcomes[id]
        BY <1>3, <3>0, <3>2
      <4> QED BY <1>0, <4>1, <4>2, OneOutcomeBy
    <3> QED BY <3>1, <3>2
  <2> QED BY <1>1, <2>1, OneOutcomeBy
<1>6. UnusedInv'
  <2>1. ASSUME NEW id \in PlayIDs, id >= nextID PROVE id \notin ids
    <3>1. nextID \in Nat /\ id \in Nat
      BY <1>0, Bounds DEF SharedTypes
    <3>2. id \in ids => id \in 1..nextID - 1
      BY <1>2
    <3> QED BY <2>1, <3>1, <3>2
  <2> QED BY <1>0, <1>1, <1>3, <2>1 DEF UnusedInv
<1>7. FilesInv'
  BY <1>0, <1>1, <1>2, FilesInvBy
<1> QED BY <1>4, <1>5, <1>6, <1>7

\* A Stop closes its file without an event.
LEMMA StopsKeeps ==
    ASSUME WInv, OwnFrame, at # "down", epoch \in Epochs, Stops
    PROVE  Left
<1>0. AgendaInv /\ ActiveIsAccounted /\ Todo = {}
  BY DEF WInv, OwnFrame
<1>1. PICK i \in files :
          /\ files' = files \ {i} /\ Silently({i}) /\ Todo' = {Unmark(i), Reply("ok")}
          /\ cmd # NoCommand /\ cmd.kind = "Stop"
          /\ commands' = commands /\ cmd' = cmd
  BY DEF Stops
<1>2. /\ Unmark(i).op = "unmark" /\ Unmark(i).id = i
      /\ Reply("ok").op = "reply"
  BY DistinctOps
<1>3. /\ \A id : PlayPending(id)' <=> PlayPending(id)
      /\ \A c \in Clients : PendingOf(c)' = PendingOf(c) /\ RefusedOf(c)' = RefusedOf(c)
      /\ nextID' = nextID /\ active' = active /\ call' = call
  BY OwnSame
<1>4. i \in 1..nextID - 1 /\ ~PlayPending(i)
  BY <1>0, NoPendingFile
<1>5. \A x \in Todo' : x.op \notin Reporting
  BY <1>1, <1>2 DEF Reporting
<1>6. OneOutcome' /\ UnusedInv' /\ outcomes' \in [PlayIDs -> Nat] /\ FilesInv'
  BY <1>1, <1>5, SilentOutcomes
<1>7. AgendaInv'
  <2>1. ASSUME NEW x \in Todo'
        PROVE  x.op = "reply" \/ (x.op = "unmark" /\ x.id = i)
    BY <1>1, <1>2
  <2>2. i \in 1..nextID' - 1 /\ i \notin files' /\ ~PlayPending(i)'
    BY <1>1, <1>3, <1>4
  <2> QED BY <1>1, <2>1, <2>2 DEF AgendaInv, Ending, Reporting
<1>8. ActiveIsAccounted'
  <2>1. ASSUME NEW id \in active' PROVE Accounted(id)'
    <3>1. Accounted(id)
      BY <1>0, <1>3, <2>1, ActiveBy
    <3>2. id = i => \E x \in Todo' : x.op = "unmark" /\ x.id = id
      BY <1>1, <1>2
    <3> QED BY <1>0, <1>1, <1>3, <3>1, <3>2 DEF Accounted
  <2> QED BY <2>1, ActiveBy
<1> QED BY <1>1, <1>6, <1>7, <1>8, QueueSame DEF Left

\* StopAll and Shutdown close every file without an event.
LEMMA StopsAllKeeps ==
    ASSUME WInv, OwnFrame, at # "down", epoch \in Epochs, StopsAll
    PROVE  Left
<1>1. /\ files' = {} /\ Silently(files) /\ Todo' = {Clear, Reply("ok")}
      /\ cmd # NoCommand /\ cmd.kind \in {"StopAll", "Shutdown"}
      /\ commands' = commands /\ cmd' = cmd
  BY DEF StopsAll
<1>2. /\ Clear.op = "clear" /\ Clear.id = 0 /\ Reply("ok").op = "reply"
  BY DistinctOps
<1>3. \A x \in Todo' : x.op \notin Reporting
  BY <1>1, <1>2 DEF Reporting
<1>4. PICK ids : ids = files
  OBVIOUS
<1>5. OneOutcome' /\ UnusedInv' /\ outcomes' \in [PlayIDs -> Nat] /\ FilesInv'
  <2>1. ids \subseteq files /\ files' = files \ ids /\ Silently(ids)
    BY <1>1, <1>4 DEF Silently
  <2> QED BY <1>3, <2>1, SilentOutcomes
<1>6. AgendaInv'
  <2>1. \A x \in Todo' : x.op \in {"clear", "reply"}
    BY <1>1, <1>2
  <2> QED BY <1>1, <2>1 DEF AgendaInv, Ending, Reporting
<1>7. ActiveIsAccounted'
  <2>1. \E x \in Todo' : x.op = "clear" /\ x.id = 0
    BY <1>1, <1>2
  <2> QED BY <2>1, ActiveBy DEF Accounted
<1> QED BY <1>1, <1>5, <1>6, <1>7, QueueSame DEF Left

--------------------------------------------------------------------------------
\* Where an own step leaves the worker.
Placed ==
    /\ at \in {"down", "head", "check", "recover", "handle", "fade", "reclaim",
               "refill", "poll", "exit"}
    /\ back \in {"head", "refill"}
    /\ visit \subseteq PlayIDs
    /\ target \in 1..Targets
    /\ files \subseteq PlayIDs
    /\ fading \subseteq files
    /\ engine \in {"ok", "critical", "none"}

OwnStart == WInv /\ Placed /\ ControlInv /\ Todo = {} /\ running /\ running' = running

\* What an own step of the worker starts from.
LEMMA OwnStarts ==
    ASSUME WInv, Own
    PROVE  OwnStart
<1>1. Placed /\ ControlInv
  BY DEF WInv, Types, WorkerTypes, Placed
<1> QED BY <1>1, OwnPlace, OwnSame DEF OwnStart, OwnFrame

\* Where a step of the loop leaves the worker.
LEMMA LoopControl ==
    ASSUME OwnStart, TakeCommand \/ Tick \/ Exit \/ PollCommand \/ PollNothing, epoch \in Epochs
    PROVE  Placed' /\ ControlInv'
<1>1. agenda' = agenda /\ Todo' = {}
  <2>1. agenda' = agenda
    BY DEF TakeCommand, Tick, Exit, PollCommand, PollNothing, Maintaining
  <2> QED BY <2>1 DEF OwnStart, Todo
<1> USE DEF OwnStart, Placed, WorkerAt
<1>2. CASE TakeCommand \/ PollCommand
  <2>1. PICK from \in {"head", "refill"} : Receive(from)
    BY <1>2 DEF TakeCommand, PollCommand
  <2>2. PICK s \in Seq(Commands) : s = commands[epoch] /\ s # <<>>
    BY <2>1 DEF WInv, Types, ChannelTypes, Receive
  <2>3. PICK k \in Commands : k = Head(s)
    BY <2>2, TailQueue
  <2>4. /\ cmd' = k /\ back' = from
        /\ at' = IF NeedsEngine(k) THEN "check" ELSE "handle"
    BY <2>1, <2>2, <2>3 DEF Receive
  <2>5. /\ visit' = visit /\ target' = target /\ files' = files /\ fading' = fading
        /\ engine' = engine /\ (at = "head" \/ at = "poll")
    BY <1>2 DEF TakeCommand, PollCommand, voices
  <2>6. k.kind = "Play" => at' = "check"
    BY <2>4 DEF NeedsEngine
  <2>7. Placed'
    BY <2>4, <2>5
  <2>8. k # NoCommand
    BY CommandFields
  <2> QED BY <1>1, <2>4, <2>5, <2>6, <2>7, <2>8 DEF ControlInv
<1>3. CASE Tick
  <2>1. /\ at' = "check" /\ cmd' = NoCommand /\ back' = back /\ visit' = visit /\ target' = target
        /\ files' = files /\ fading' = fading /\ engine' = engine
    BY <1>3 DEF Tick, voices
  <2> QED BY <1>1, <2>1 DEF ControlInv
<1>4. CASE Exit
  <2>1. /\ at' = "down" /\ engine' = "none" /\ visit' = {} /\ target' = 1 /\ back' = back
        /\ files' = files /\ fading' = fading /\ at = "exit"
    BY <1>4 DEF Exit
  <2> QED BY <1>1, <2>1, Bounds DEF ControlInv
<1>5. CASE PollNothing
  <2>1. /\ at' = "refill" /\ back' = back /\ visit' = visit /\ target' = target /\ cmd' = cmd
        /\ files' = files /\ fading' = fading /\ engine' = engine
    BY <1>5 DEF PollNothing, Maintaining
  <2> QED BY <1>1, <2>1 DEF ControlInv
<1> QED BY <1>2, <1>3, <1>4, <1>5

\* Where a look at the engine leaves the worker: no engine, no file.
LEMMA EngineControl ==
    ASSUME OwnStart, CheckEngine
    PROVE  Placed' /\ ControlInv'
<1> USE DEF OwnStart, Placed, WorkerAt
<1>1. ASSUME Recovered, agenda' = agenda, engine' = "ok" \/ (engine' = engine /\ engine = "ok"),
             UNCHANGED <<back, cmd, target, files, fading>>
      PROVE  Placed' /\ ControlInv'
  <2>1. Todo' = {}
    BY <1>1 DEF Todo
  <2>2. \/ at' = "handle" /\ cmd # NoCommand /\ visit' = visit
        \/ at' = "head" /\ visit' = visit
        \/ at' = "fade" /\ visit' = files
    BY <1>1 DEF Recovered
  <2> QED BY <1>1, <2>1, <2>2 DEF ControlInv
<1>2. CASE EngineFine
  BY <1>1, <1>2 DEF EngineFine, voices
<1>3. CASE EngineCritical
  <2>1. /\ at' = "recover" /\ visit' = files /\ agenda' = agenda /\ cmd' = cmd /\ back' = back
        /\ target' = target /\ files' = files /\ fading' = fading /\ engine' = engine
    BY <1>3 DEF EngineCritical, voices
  <2> QED BY <2>1 DEF ControlInv
<1>4. CASE CloseAfterCritical
  <2>1. PICK i \in visit : visit' = visit \ {i} /\ files' = files \ {i} /\ fading' = fading \ {i}
    BY <1>4 DEF CloseAfterCritical, Close
  <2>2. /\ at = "recover" /\ at' = at /\ back' = back /\ cmd' = cmd /\ target' = target
        /\ engine' = engine
    BY <1>4 DEF CloseAfterCritical
  <2> QED BY <2>1, <2>2 DEF ControlInv
<1>5. CASE RecreateEngine
  BY <1>1, <1>5 DEF RecreateEngine
<1>6. CASE RecreateFails
  <2>1. files = {}
    BY <1>6 DEF RecreateFails, MayRecreate, ControlInv
  <2>2. /\ engine' = "none" /\ back' = "head" /\ cmd' = cmd /\ visit' = visit /\ target' = target
        /\ files' = files /\ fading' = fading /\ at' \in {"head", "refill"}
    BY <1>6 DEF RecreateFails
  <2> QED BY <2>1, <2>2 DEF ControlInv
<1> QED BY <1>2, <1>3, <1>4, <1>5, <1>6 DEF CheckEngine

\* Where a handler leaves the worker.
LEMMA HandleControl ==
    ASSUME OwnStart, HandleCommand
    PROVE  Placed' /\ ControlInv'
<1> USE DEF OwnStart, Placed, WorkerAt
<1>1. /\ at = "handle" /\ cmd # NoCommand /\ cmd' = cmd /\ engine' = engine /\ target' = target
      /\ back' = "head"
  BY DEF ControlInv, HandleCommand, HandlePlay, HandlePlayFails, HandleSetPosition,
         HandleStopUnknown, HandleStopFading, HandleStop, HandleStopAllFading,
         HandleStopAll, HandleShutdown, Handling, Return
<1>2. ASSUME at' = back, visit' \subseteq PlayIDs, files' \subseteq PlayIDs, fading' \subseteq files',
             engine = "none" => files' = {}
      PROVE  Placed' /\ ControlInv'
  BY <1>1, <1>2 DEF ControlInv
<1>3. CASE HandlePlay
  <2>1. cmd.kind = "Play" /\ at' = back /\ files' = files \cup {cmd.id} /\ fading' = fading
        /\ visit' \subseteq visit \cup {cmd.id}
    BY <1>3 DEF HandlePlay, Handling, Return
  <2>2. cmd.id \in PlayIDs
    BY <1>1, <2>1, CmdPending, NoPendingFile
  <2>3. engine # "none"
    BY <1>1, <2>1 DEF ControlInv
  <2> QED BY <1>2, <2>1, <2>2, <2>3
<1>4. CASE HandlePlayFails \/ HandleSetPosition \/ HandleStopUnknown
  <2>1. at' = back /\ visit' = visit /\ files' = files /\ fading' = fading
    BY <1>4 DEF HandlePlayFails, HandleSetPosition, HandleStopUnknown, Return
  <2> QED BY <1>2, <2>1 DEF ControlInv
<1>5. CASE HandleStopFading
  <2>1. at' = back /\ visit' = visit /\ files' = files /\ fading' = fading \cup {cmd.id} /\ cmd.id \in files
    BY <1>5 DEF HandleStopFading, Return
  <2> QED BY <1>2, <2>1 DEF ControlInv
<1>6. CASE HandleStop
  <2>1. /\ at' = back /\ visit' = visit /\ files' = files \ {cmd.id}
        /\ fading' = fading \ {cmd.id}
    BY <1>6 DEF HandleStop, Return, Close
  <2> QED BY <1>2, <2>1 DEF ControlInv
<1>7. CASE HandleStopAllFading
  <2>1. at' = back /\ visit' = visit /\ files' = files /\ fading' = files
    BY <1>7 DEF HandleStopAllFading, Return
  <2> QED BY <1>2, <2>1 DEF ControlInv
<1>8. CASE HandleStopAll
  <2>1. /\ at' = back /\ visit' = visit /\ files' = {} /\ fading' = {}
    BY <1>8 DEF HandleStopAll, CloseAll, Close
  <2> QED BY <1>2, <2>1
<1>9. CASE HandleShutdown
  <2>1. /\ at' = "exit" /\ visit' = visit /\ files' = {} /\ fading' = {}
    BY <1>9 DEF HandleShutdown, CloseAll, Close
  <2> QED BY <1>1, <2>1 DEF ControlInv
<1> QED BY <1>3, <1>4, <1>5, <1>6, <1>7, <1>8, <1>9 DEF HandleCommand

\* Where the maintenance of a tick leaves the worker.
LEMMA MaintainControl ==
    ASSUME OwnStart, Maintain, epoch \in Epochs
    PROVE  Placed' /\ ControlInv'
<1> USE DEF OwnStart, Placed, WorkerAt
<1>1. ASSUME NEW place \in {"fade", "reclaim"}, NEW i \in visit,
             at = place, at' = at, back' = back, cmd' = cmd, engine' = engine, target' = target,
             visit' = visit \ {i},
             UNCHANGED <<files, fading>> \/ Close({i})
      PROVE  Placed' /\ ControlInv'
  <2>1. CASE UNCHANGED <<files, fading>>
    BY <1>1, <2>1 DEF ControlInv
  <2>2. CASE Close({i})
    BY <1>1, <2>2 DEF ControlInv, Close
  <2> QED BY <1>1, <2>1, <2>2
<1>2. CASE UpdateFadeOut
  <2>1. PICK i \in visit : GoesOn("fade", i) \/ Ends("fade", i, "Stopped") \/ Ends("fade", i, "Error")
    BY <1>2 DEF UpdateFadeOut
  <2> QED BY <1>1, <2>1 DEF GoesOn, Ends, Maintaining
<1>3. CASE ReclaimFile
  <2>1. PICK i \in visit : GoesOn("reclaim", i)
                           \/ Ends("reclaim", i, IF i \in fading THEN "Stopped" ELSE "Finished")
    BY <1>3 DEF ReclaimFile
  <2> QED BY <1>1, <2>1 DEF GoesOn, Ends, Maintaining
<1>4. ASSUME NEW next \in {"reclaim", "refill"}, NEW place \in {"fade", "reclaim"},
             EndOfRange(place, next)
      PROVE  Placed' /\ ControlInv'
  <2>1. /\ at = place /\ back' = back /\ cmd' = cmd /\ engine' = engine /\ target' = target
        /\ files' = files /\ fading' = fading
        /\ \/ at' = "head" /\ visit' = {}
           \/ at' = next /\ visit' = files
    BY <1>4 DEF EndOfRange, Maintaining
  <2> QED BY <2>1 DEF ControlInv
<1>5. CASE RefillFile
  <2>1. PICK i \in visit : /\ visit' = visit \ {i}
                           /\ UNCHANGED <<files, fading>> \/ Close({i})
    BY <1>5 DEF RefillFile
  <2>2. at' = "poll" /\ back' = back /\ cmd' = cmd /\ engine' = engine /\ target' = target
    BY <1>5 DEF RefillFile, Maintaining
  <2>3. CASE UNCHANGED <<files, fading>>
    BY <2>1, <2>2, <2>3 DEF ControlInv
  <2>4. CASE Close({i})
    BY <2>1, <2>2, <2>4 DEF ControlInv, Close
  <2> QED BY <2>1, <2>3, <2>4
<1>6. CASE EndOfRefill
  <2>1. /\ at = "refill" /\ back' = back /\ cmd' = cmd /\ engine' = engine
        /\ files' = files /\ fading' = fading
        /\ \/ target < Targets /\ target' = target + 1 /\ visit' = files /\ at' = at
           \/ target' = 1 /\ visit' = {} /\ at' = "head"
    BY <1>6 DEF EndOfRefill, Maintaining
  <2>2. target' \in 1..Targets
    BY <2>1, Bounds
  <2> QED BY <2>1, <2>2 DEF ControlInv
<1>7. EndOfRange("fade", "reclaim") => Placed' /\ ControlInv'
  BY <1>4
<1>8. EndOfRange("reclaim", "refill") => Placed' /\ ControlInv'
  BY <1>4
<1> QED BY <1>2, <1>3, <1>5, <1>6, <1>7, <1>8, LoopControl DEF Maintain

\* The worker's own steps keep the invariant.
LEMMA OwnKeeps ==
    ASSUME WInv, Own
    PROVE  WInv'
<1>1. OwnFrame /\ Effect /\ at # "down" /\ epoch \in Epochs
  BY OwnPlace
<1>2. Left
  BY <1>1, ReceivesKeeps, IdlesKeeps, ClosesKeeps, RefusesKeeps, PlaysKeeps, StopsKeeps,
     StopsAllKeeps DEF Effect
<1>3. ClientInv' /\ ClientTypes' /\ SharedTypes' /\ EventsInv' /\ EndedIsInactive' /\ events' = events
  BY <1>1, OwnSame
<1>4. Placed' /\ ControlInv'
  <2>1. OwnStart
    BY OwnStarts
  <2> QED BY <1>1, <2>1, LoopControl, EngineControl, HandleControl, MaintainControl DEF Own
<1>5. WorkerTypes'
  BY <1>2, <1>4 DEF Left, Placed, WorkerTypes
<1>6. ChannelTypes'
  BY <1>2, <1>3 DEF Left, ChannelTypes, WInv, Types
<1> QED BY <1>1, <1>2, <1>3, <1>4, <1>5, <1>6 DEF WInv, Types, Left, OwnFrame

--------------------------------------------------------------------------------
\* The invariant holds initially.
LEMMA InitHolds == Init => WInv
<1> SUFFICES ASSUME Init PROVE WInv
  OBVIOUS
<1> USE DEF Init
<1>1. ClientTypes
  <2>1. IdleCall \in Calls
    BY Bounds DEF IdleCall, Calls, Places
  <2> QED BY <2>1 DEF ClientTypes
<1>2. SharedTypes
  <2>1. 1 \in 1..MaxPlays + 1 /\ 0 \in 0..MaxEpochs
    BY Bounds
  <2>2. running = FALSE /\ nextID = 1 /\ active = {} /\ epoch = 0 /\ at = "down"
    OBVIOUS
  <2> QED BY <2>1, <2>2 DEF SharedTypes
<1>3. ChannelTypes
  <2>1. <<>> \in Seq(Commands) /\ <<>> \in Seq(Events) /\ Len(<<>>) = 0
    OBVIOUS
  <2> QED BY <2>1, Bounds DEF ChannelTypes
<1>4. WorkerTypes
  BY Bounds DEF WorkerTypes
<1>5. Todo = {}
  BY TodoOfShape
<1>6. \A c \in Clients : call[c].pc = "idle" /\ call[c].cmd = NoCommand /\ reply[c] = "none"
  BY DEF IdleCall
<1>7. ClientInv
  BY <1>6, NoCommandFields DEF ClientInv, CallInv, InShutdown
<1>8. QueueInv /\ CmdInv
  BY DEF QueueInv, CmdInv
<1>9. AgendaShape /\ AgendaInv
  BY <1>5 DEF AgendaShape, AgendaInv
<1>10. ControlInv
  BY <1>5 DEF ControlInv
<1>11. FilesInv /\ EventsInv /\ UnusedInv /\ EndedIsInactive
  BY DEF FilesInv, EventsInv, UnusedInv, EndedIsInactive
<1>12. OneOutcome /\ ActiveIsAccounted
  BY OneOutcomeBy, ActiveBy
<1> QED BY <1>1, <1>2, <1>3, <1>4, <1>7, <1>8, <1>9, <1>10, <1>11, <1>12 DEF WInv, Types

\* A stuttering step keeps the invariant.
LEMMA StutterKeeps ==
    ASSUME WInv, UNCHANGED vars
    PROVE  WInv'
<1>0. UNCHANGED <<running, nextID, active, epoch, commands, events, call, reply>>
      /\ UNCHANGED <<at, back, cmd, visit, target, agenda, files, fading, engine, outcomes>>
  BY DEF vars
<1>t. Todo' = Todo
  BY <1>0 DEF Todo
<1>1. Types'
  BY <1>0 DEF WInv, Types, ClientTypes, SharedTypes, ChannelTypes, WorkerTypes
<1>2. ClientInv' /\ QueueInv' /\ CmdInv'
  BY <1>0 DEF WInv, ClientInv, CallInv, InShutdown, QueueInv, CmdInv, Awaits
<1>3. AgendaShape'
  BY <1>0 DEF WInv, AgendaShape
<1>4. ControlInv' /\ EventsInv' /\ UnusedInv' /\ EndedIsInactive'
  BY <1>0, <1>t DEF WInv, ControlInv, EventsInv, UnusedInv, EndedIsInactive
<1>5. /\ \A id : PlayPending(id)' <=> PlayPending(id)
      /\ \A c \in Clients : PendingOf(c)' = PendingOf(c) /\ RefusedOf(c)' = RefusedOf(c)
  BY <1>0 DEF PlayPending, PendingOf, RefusedOf, Waiting
<1>6. AgendaInv'
  BY <1>0, <1>t, <1>5 DEF WInv, AgendaInv, EventFits
<1>7. FilesInv'
  BY <1>0, <1>t, <1>5, FilesInvBy DEF WInv
<1>8. OneOutcome'
  <2>1. \A id : Open(id)' <=> Open(id)
    BY <1>0, <1>t, <1>5 DEF Open
  <2> QED BY <1>0, <2>1, OneOutcomeBy DEF WInv
<1>9. ActiveIsAccounted'
  <2>1. \A id : Accounted(id)' <=> Accounted(id)
    BY <1>0, <1>t, <1>5 DEF Accounted
  <2> QED BY <1>0, <2>1, ActiveBy DEF WInv
<1> QED BY <1>1, <1>2, <1>3, <1>4, <1>6, <1>7, <1>8, <1>9 DEF WInv

\* Every step keeps the invariant.
LEMMA StepKeeps == WInv /\ [Next]_vars => WInv'
<1> SUFFICES ASSUME WInv, [Next]_vars PROVE WInv'
  OBVIOUS
<1>1. CASE Start
  BY <1>1, StartKeeps
<1>2. CASE CriticalError
  BY <1>2, CriticalErrorKeeps
<1>3. CASE WorkerStep
  <2>1. SharedStep \/ Own
    BY <1>3 DEF WorkerStep, Own
  <2> QED BY <2>1, SharedKeeps, OwnKeeps
<1>4. CASE \E c \in Clients : ClientCall(c) \/ ClientStep(c)
  BY <1>4, ClientKeeps
<1>5. CASE UNCHANGED vars
  BY <1>5, StutterKeeps
<1> QED BY <1>1, <1>2, <1>3, <1>4, <1>5 DEF Next

\* WInv holds of every reachable state, for every number of clients, plays and starts
\* and every capacity of the two channels.
THEOREM WorkerInvariant == Spec => []WInv
<1>1. Init => WInv
  BY InitHolds
<1>2. WInv /\ [Next]_vars => WInv'
  BY StepKeeps
<1> QED BY <1>1, <1>2, PTL DEF Spec

\* The types of the invariant are the types that are checked.
LEMMA TypesHold == WInv => TypeOK
<1> SUFFICES ASSUME WInv PROVE TypeOK
  OBVIOUS
<1>1. /\ ClientTypes /\ SharedTypes /\ ChannelTypes /\ WorkerTypes /\ OneOutcome /\ UnusedInv
  BY DEF WInv, Types
<1>2. \A k \in Commands \cup {NoCommand} : IsCommand(k)
  BY DEF IsCommand, Commands
<1>3. ASSUME NEW e \in Epochs
      PROVE  /\ Len(commands[e]) <= CommandCap
             /\ \A n \in DOMAIN commands[e] : IsCommand(commands[e][n])
             /\ Len(events[e]) <= EventCap
             /\ \A n \in DOMAIN events[e] : events[e][n] \in Events
  <2>1. commands[e] \in Seq(Commands) /\ events[e] \in Seq(Events)
    BY <1>1 DEF ChannelTypes
  <2>2. \A n \in DOMAIN commands[e] : commands[e][n] \in Commands
    BY <2>1
  <2> QED BY <1>1, <1>2, <2>1, <2>2 DEF ChannelTypes
<1>4. ASSUME NEW c \in Clients
      PROVE  /\ call[c].pc \in {"idle", "send", "wait", "unmark", "done", "clear", "poll"}
             /\ IsCommand(call[c].cmd)
             /\ call[c].epoch \in 0..MaxEpochs
             /\ reply[c] \in {"none", "ok", "failed"}
  BY <1>1, <1>2, CallFields DEF Places
<1>5. outcomes \in [PlayIDs -> 0..1]
  <2>1. ASSUME NEW id \in PlayIDs PROVE outcomes[id] \in 0..1
    <3>1. CASE id >= nextID
      <4>1. outcomes[id] = 0
        BY <1>1, <3>1 DEF UnusedInv
      <4> QED BY <4>1
    <3>2. CASE ~(id >= nextID)
      <4>1. id \in 1..nextID - 1
        BY <1>1, <3>2, Bounds DEF SharedTypes
      <4>2. outcomes[id] = IF Open(id) THEN 0 ELSE 1
        BY <1>1, <4>1, OneOutcomeBy
      <4> QED BY <4>2
    <3> QED BY <3>1, <3>2
  <2> QED BY <1>1, <2>1 DEF WorkerTypes
<1>6. IsCommand(cmd)
  BY <1>1, <1>2 DEF WorkerTypes
<1> QED BY <1>1, <1>3, <1>4, <1>5, <1>6 DEF TypeOK, SharedTypes, WorkerTypes

\* The state has its types; in particular both channels stay within their capacity
\* and no play id has two outcomes.
THEOREM TypeCorrectness == Spec => []TypeOK
BY WorkerInvariant, TypesHold, PTL

\* Every play id has exactly one outcome, whatever the order of ticks, commands,
\* engine errors and full queues (worker.go:212-300).
THEOREM OutcomesAreUnique == Spec => []OneOutcome
<1>1. WInv => OneOutcome
  BY DEF WInv
<1> QED BY <1>1, WorkerInvariant, PTL

\* No active id stays behind: each has a file, a Play under way, or somebody who is
\* about to unmark it (player.go:104,270,279).
THEOREM ActivesAreAccounted == Spec => []ActiveIsAccounted
<1>1. WInv => ActiveIsAccounted
  BY DEF WInv
<1> QED BY <1>1, WorkerInvariant, PTL

\* A play whose Finished or Stopped event is queued is not reported as playing
\* (worker.go:225,241).
THEOREM EndedAreInactive == Spec => []EndedIsInactive
<1>1. WInv => EndedIsInactive
  BY DEF WInv
<1> QED BY <1>1, WorkerInvariant, PTL

\* After the oldest event was dropped there is room for the newest: clients only
\* remove events (worker.go:313-322).
THEOREM NewestEventsAreKept == Spec => []NewestEventIsKept
<1>1. WInv => NewestEventIsKept
  <2> SUFFICES ASSUME WInv, agenda # <<>>, Head(agenda).op = "retry" PROVE EventFits
    BY DEF NewestEventIsKept
  <2>1. Head(agenda) \in Todo
    BY TodoOfShape DEF WInv, AgendaShape, EndOf
  <2> QED BY <2>1 DEF WInv, AgendaInv
<1> QED BY <1>1, WorkerInvariant, PTL

\* An answer is the last operation of its agenda.
LEMMA ReplyIsLast ==
    ASSUME AgendaShape, NEW n \in DOMAIN agenda, agenda[n].op = "reply"
    PROVE  n = Len(agenda) /\ agenda[n] \in Todo
<1>0. agenda[n] \in Todo
  BY DEF Todo, Members
<1>1. ASSUME NEW x, agenda = <<x>> PROVE n = Len(agenda)
  BY <1>1, OneOp
<1>2. ASSUME NEW x, NEW y, agenda = <<x, y>>, x.op # "reply" PROVE n = Len(agenda)
  <2>1. DOMAIN agenda = {1, 2} /\ Len(agenda) = 2 /\ agenda[1] = x
    BY <1>2
  <2> QED BY <1>2, <2>1
<1>3. ASSUME NEW i, NEW y, agenda = <<Unmark(i), y>> PROVE n = Len(agenda)
  <2>1. Unmark(i).op # "reply"
    BY DistinctOps
  <2> QED BY <1>2, <1>3, <2>1
<1>4. ASSUME NEW o \in Reporting, NEW i, NEW t, NEW y, agenda = <<Op(o, i, t), y>>
      PROVE  n = Len(agenda)
  <2>1. Op(o, i, t).op # "reply"
    BY OpFields DEF Reporting
  <2> QED BY <1>2, <1>4, <2>1
<1>5. ASSUME NEW y, agenda = <<Clear, y>> PROVE n = Len(agenda)
  <2>1. Clear.op # "reply"
    BY DistinctOps
  <2> QED BY <1>2, <1>5, <2>1
<1>6. agenda # <<>>
  OBVIOUS
<1> QED BY <1>0, <1>1, <1>3, <1>4, <1>5, <1>6 DEF AgendaShape, EndOf

\* Every answer goes to the client that sent the command and waits for it, so the
\* worker never blocks on a result channel.
THEOREM AnswersAreAlwaysAwaited == Spec => []AnswersAreAwaited
<1>1. WInv => AnswersAreAwaited
  <2> SUFFICES ASSUME WInv, NEW n \in DOMAIN agenda, agenda[n].op = "reply"
               PROVE  /\ n = Len(agenda) /\ Awaits(cmd)
    BY DEF AnswersAreAwaited, Awaits
  <2>1. n = Len(agenda) /\ agenda[n] \in Todo
    BY ReplyIsLast DEF WInv
  <2>2. cmd # NoCommand
    BY <2>1 DEF WInv, AgendaInv
  <2> QED BY <2>1, <2>2 DEF WInv, CmdInv
<1> QED BY <1>1, WorkerInvariant, PTL

\* A player that is not running has no worker, no file and no active id.
THEOREM StoppedMeansEmpty == Spec => []StoppedIsEmpty
<1>1. WInv => StoppedIsEmpty
  BY DEF WInv, ControlInv, StoppedIsEmpty
<1> QED BY <1>1, WorkerInvariant, PTL

\* A step that replaces or destroys the engine finds no file.
LEMMA EngineStep ==
    ASSUME WInv, Next, engine' # engine
    PROVE  engine' = "critical" \/ files = {}
<1>1. CASE Start
  BY <1>1 DEF Start, WInv, ControlInv
<1>2. CASE CriticalError
  BY <1>2 DEF CriticalError
<1>3. CASE \E c \in Clients : ClientCall(c) \/ ClientStep(c)
  BY <1>3, AsideStep DEF Aside, voices
<1>4. CASE SharedStep
  BY <1>4 DEF SharedStep, voices
<1>5. CASE TakeCommand \/ Tick
  BY <1>5 DEF TakeCommand, Tick, voices
<1>6. CASE Exit
  BY <1>6 DEF Exit, WorkerAt, WInv, ControlInv
<1>7. CASE HandleCommand
  BY <1>7 DEF HandleCommand, HandlePlay, HandlePlayFails, HandleSetPosition,
         HandleStopUnknown, HandleStopFading, HandleStop, HandleStopAllFading,
         HandleStopAll, HandleShutdown, Handling
<1>8. CASE CheckEngine
  <2>1. CASE EngineFine \/ EngineCritical \/ CloseAfterCritical
    BY <2>1 DEF EngineFine, EngineCritical, CloseAfterCritical, voices
  <2>2. CASE RecreateEngine \/ RecreateFails
    BY <2>2 DEF RecreateEngine, RecreateFails, MayRecreate, WorkerAt, WInv, ControlInv
  <2> QED BY <1>8, <2>1, <2>2 DEF CheckEngine
<1>9. CASE Maintain
  <2>1. CASE UpdateFadeOut \/ ReclaimFile
    BY <2>1 DEF UpdateFadeOut, ReclaimFile, GoesOn, Ends, Maintaining
  <2>2. CASE EndOfRange("fade", "reclaim") \/ EndOfRange("reclaim", "refill")
    BY <2>2 DEF EndOfRange, Maintaining
  <2>3. CASE RefillFile \/ PollCommand \/ PollNothing \/ EndOfRefill
    BY <2>3 DEF RefillFile, PollCommand, PollNothing, EndOfRefill, Maintaining, voices
  <2> QED BY <1>9, <2>1, <2>2, <2>3 DEF Maintain
<1> QED BY <1>1, <1>2, <1>3, <1>4, <1>5, <1>6, <1>7, <1>8, <1>9 DEF Next, WorkerStep

\* The engine is destroyed or replaced only when every voice is destroyed
\* (worker.go:284-293).
THEOREM EngineAlwaysOutlivesVoices == Spec => EngineOutlivesVoices
<1>1. WInv /\ [Next]_vars => [engine' = "critical" \/ files = {}]_engine
  <2> SUFFICES ASSUME WInv, [Next]_vars, engine' # engine PROVE engine' = "critical" \/ files = {}
    OBVIOUS
  <2>1. Next
    BY DEF vars
  <2> QED BY <2>1, EngineStep
<1> QED BY <1>1, WorkerInvariant, PTL DEF Spec, EngineOutlivesVoices

--------------------------------------------------------------------------------
\* A host with one thread.  What PlayingIsActive needs beside itself: the id of a
\* Play that is not answered is active, a refused one has no file, and the files are
\* gone when the worker owes the clearing of all ids.
Lone ==
    /\ PlayingIsActive
    /\ \A c \in Clients :
           /\ PendingOf(c) \subseteq active
           /\ \A id \in RefusedOf(c) : id \notin files
    /\ Clear \in Todo => cmd # NoCommand /\ cmd.kind \in {"StopAll", "Shutdown"} /\ files = {}

\* Which of a client's two sets its id is in.
LEMMA PendingOrRefused ==
    ASSUME NEW c \in Clients
    PROVE  /\ call[c].cmd.kind # "Play" => PendingOf(c) = {} /\ RefusedOf(c) = {}
           /\ call'[c].cmd.kind # "Play" => PendingOf(c)' = {} /\ RefusedOf(c)' = {}
           /\ reply[c] # "none" \/ call[c].pc \notin {"send", "wait"} => PendingOf(c) = {}
           /\ reply'[c] # "none" \/ call'[c].pc \notin {"send", "wait"} => PendingOf(c)' = {}
BY DEF PendingOf, RefusedOf, Waiting

\* A step of the only client.
LEMMA ClientKeepsLone ==
    ASSUME WInv, Lone, NEW c \in Clients, \A d \in Clients : d = c, ClientCall(c) \/ ClientStep(c)
    PROVE  Lone'
<1>0. /\ CallInv(c) /\ Aside(c) /\ Types /\ ClientTypes
      /\ files' = files /\ Todo' = Todo /\ cmd' = cmd
  BY AsideStep DEF WInv, ClientInv, Types, Aside, control, voices, Todo
<1>1. Clear \in Todo' => cmd' # NoCommand /\ cmd'.kind \in {"StopAll", "Shutdown"} /\ files' = {}
  BY <1>0 DEF Lone
<1>i. NoCommand.kind # "Play"
  BY NoCommandFields
<1>2. ASSUME active \subseteq active', PendingOf(c)' \subseteq active',
             RefusedOf(c)' \subseteq RefusedOf(c)
      PROVE  Lone'
  BY <1>0, <1>1, <1>2 DEF Lone, PlayingIsActive
<1>3. ASSUME active' = active, PendingOf(c)' \subseteq PendingOf(c),
             RefusedOf(c)' \subseteq RefusedOf(c)
      PROVE  Lone'
  BY <1>2, <1>3 DEF Lone
<1>4. ASSUME Moves(c, "idle", NoCommand, 0)
      PROVE  PendingOf(c)' = {} /\ RefusedOf(c)' = {}
  BY <1>4, <1>i, PendingOrRefused DEF Moves
<1>5. CASE Submits(c)
  <2>1. PICK k \in Commands :
          /\ Moves(c, "send", k, epoch)
          /\ IF k.kind = "Play" THEN active' = active \cup {k.id} ELSE active' = active
    BY <1>5 DEF Submits
  <2>2. reply'[c] = "none" /\ call'[c].pc = "send" /\ call'[c].cmd = k
    BY <1>0, <1>5, <2>1 DEF Submits, CallInv, Moves
  <2>3. PendingOf(c)' \subseteq active' /\ RefusedOf(c)' = {}
    BY <2>1, <2>2 DEF PendingOf, RefusedOf, Waiting
  <2> QED BY <1>2, <2>1, <2>3
<1>6. CASE PollEvent(c)
  <2>1. call'[c].cmd.kind # "Play" /\ active' = active
    BY <1>0, <1>6, <1>i, PollMoves DEF PollEvent, shared, Moves, CallInv
  <2> QED BY <1>3, <2>1, PendingOrRefused
<1>7. CASE Send(c)
  <2>1. Moves(c, "wait", call[c].cmd, call[c].epoch)
    BY <1>0, <1>7, MovesOn DEF Send, Places
  <2>2. reply'[c] = reply[c] /\ call[c].pc = "send" /\ active' = active
    BY <1>0, <1>7 DEF Send, shared
  <2>3. PendingOf(c)' = PendingOf(c) /\ RefusedOf(c)' = RefusedOf(c)
    BY <2>1, <2>2 DEF PendingOf, RefusedOf, Waiting, Moves
  <2> QED BY <1>3, <2>2, <2>3
<1>8. CASE Answered(c)
  <2>1. active' = active /\ reply'[c] = "none"
    BY <1>0, <1>8 DEF Answered, shared, ClientTypes
  <2>2. CASE call[c].cmd.kind = "Play" /\ reply[c] = "failed"
    <3>1. Moves(c, "unmark", call[c].cmd, call[c].epoch)
      BY <1>0, <1>8, <2>2, AnswerMoves
    <3>2. PendingOf(c)' = {} /\ RefusedOf(c)' = RefusedOf(c)
      BY <2>2, <3>1, PendingOrRefused DEF Moves, RefusedOf
    <3> QED BY <1>3, <2>1, <3>2
  <2>3. CASE ~(call[c].cmd.kind = "Play" /\ reply[c] = "failed")
    <3>1. \E pc, k, e : Moves(c, pc, k, e) /\ pc \notin {"send", "wait", "unmark"}
      BY <1>0, <1>8, <2>3, AnswerMoves
    <3>2. PendingOf(c)' = {} /\ RefusedOf(c)' = {}
      BY <2>1, <3>1, PendingOrRefused DEF Moves, RefusedOf
    <3> QED BY <1>3, <2>1, <3>2
  <2> QED BY <2>2, <2>3
<1>9. CASE UnmarkRefused(c)
  <2>1. active' = active \ {call[c].cmd.id} /\ Moves(c, "idle", NoCommand, 0)
    BY <1>0, <1>9, MovesToIdle DEF UnmarkRefused
  <2>2. call[c].cmd.id \in RefusedOf(c)
    BY <1>0, <1>9 DEF UnmarkRefused, CallInv, RefusedOf
  <2>3. files' \subseteq active'
    BY <1>0, <2>1, <2>2 DEF Lone, PlayingIsActive
  <2> QED BY <1>0, <1>1, <1>4, <2>1, <2>3 DEF Lone, PlayingIsActive
<1>10. CASE PollReceive(c)
  <2>1. Moves(c, "idle", NoCommand, 0) /\ active' = active
    BY <1>0, <1>10, MovesToIdle DEF PollReceive, shared
  <2> QED BY <1>3, <1>4, <2>1
<1>11. CASE ShutdownDone(c)
  <2>1. Moves(c, "clear", call[c].cmd, call[c].epoch) /\ active' = active
    BY <1>0, <1>11, MovesOn DEF ShutdownDone, Places, shared
  <2>2. call[c].cmd.kind # "Play"
    BY <1>0, <1>11 DEF ShutdownDone, CallInv, InShutdown
  <2> QED BY <1>3, <2>1, <2>2, PendingOrRefused DEF Moves
<1>12. CASE ShutdownClear(c)
  <2>1. Moves(c, "idle", NoCommand, 0)
    BY <1>0, <1>12, MovesToIdle DEF ShutdownClear
  <2>2. files = {}
    BY <1>0, <1>12 DEF ShutdownClear, CallInv, WInv, ControlInv
  <2> QED BY <1>0, <1>1, <1>4, <2>1, <2>2 DEF Lone, PlayingIsActive
<1> QED BY <1>0, <1>5, <1>6, <1>7, <1>8, <1>9, <1>10, <1>11, <1>12, CallIsSubmitted
        DEF ClientStep, WInv

\* An operation on shared state of the worker of a host with one thread.
LEMMA SharedKeepsLone ==
    ASSUME WInv, Lone, \A c, d \in Clients : c = d, SharedStep
    PROVE  Lone'
<1>0. SharedFrame /\ (Unmarks \/ Clears \/ Reports \/ Delays \/ Answers)
  <2>1. Todo # {}
    BY EmptyTodo DEF SharedStep, WInv
  <2> QED BY <2>1, SharedEffect DEF SharedStep, SharedFrame, WInv
<1>1. files' = files /\ AgendaInv /\ ClientTypes /\ call' = call
  BY <1>0, SharedPlace DEF WInv, Types, SharedFrame
<1>2. ASSUME UNCHANGED <<reply, cmd>>, files \subseteq active',
             \A c \in Clients : PendingOf(c) \subseteq active',
             Clear \in Todo' => Clear \in Todo
      PROVE  Lone'
  <2>1. \A c \in Clients : PendingOf(c)' = PendingOf(c) /\ RefusedOf(c)' = RefusedOf(c)
    BY <1>0, <1>2, SharedPending
  <2> QED BY <1>1, <1>2, <2>1 DEF Lone, PlayingIsActive
<1>3. CASE Unmarks
  <2>1. PICK i \in PlayIDs : Unmark(i) \in Todo /\ Todo' = Todo \ {Unmark(i)}
                             /\ active' = active \ {i} /\ UNCHANGED <<reply, cmd>>
    BY <1>3 DEF Unmarks
  <2>2. i \notin files /\ ~PlayPending(i)
    BY <1>1, <2>1, DistinctOps DEF AgendaInv, Ending
  <2>3. \A c \in Clients : i \notin PendingOf(c)
    BY <2>2, PendingIsOf
  <2> QED BY <1>2, <2>1, <2>2, <2>3 DEF Lone, PlayingIsActive
<1>4. CASE Clears
  <2>1. Clear \in Todo /\ UNCHANGED <<reply, cmd>> /\ active' = {}
        /\ Clear \notin Todo'
    BY <1>4, DistinctOps DEF Clears
  <2>2. cmd # NoCommand /\ cmd.kind \in {"StopAll", "Shutdown"} /\ files = {}
    BY <2>1 DEF Lone
  <2>3. cmd.from \in Clients /\ cmd = call[cmd.from].cmd
    BY <2>2, CmdPending
  <2>4. \A c \in Clients : call[c].cmd.kind # "Play"
    BY <2>2, <2>3
  <2>5. \A c \in Clients : PendingOf(c) = {}
    BY <2>4, PendingOrRefused
  <2> QED BY <1>2, <2>1, <2>2, <2>5
<1>5. CASE Reports
  <2>1. Todo' \subseteq Todo /\ UNCHANGED <<active, reply, cmd>>
    BY <1>5 DEF Reports
  <2> QED BY <1>2, <2>1 DEF Lone, PlayingIsActive
<1>6. CASE Delays
  <2>1. UNCHANGED <<active, reply, cmd>> /\ (Clear \in Todo' => Clear \in Todo)
    BY <1>6 DEF Delays, Clear, Op
  <2> QED BY <1>2, <2>1 DEF Lone, PlayingIsActive
<1>7. CASE Answers
  <2>1. PICK r \in {"ok", "failed"} :
          /\ Todo = {Reply(r)} /\ Todo' = {} /\ active' = active
          /\ reply' = [reply EXCEPT ![cmd.from] = r]
    BY <1>7 DEF Answers
  <2>2. Reply(r).op = "reply" /\ Reply(r).arg = r
    BY DistinctOps
  <2>3. cmd # NoCommand /\ (cmd.kind = "Play" => (r = "ok" <=> cmd.id \in files))
    BY <1>1, <2>1, <2>2 DEF AgendaInv
  <2>4. cmd.from \in Clients /\ cmd = call[cmd.from].cmd
    BY <2>3, CmdPending
  <2>5. ASSUME NEW c \in Clients
        PROVE  PendingOf(c)' \subseteq active /\ \A id \in RefusedOf(c)' : id \notin files
    <3>1. c = cmd.from /\ reply'[c] = r /\ call'[c].cmd = cmd
      BY <1>1, <2>1, <2>4 DEF ClientTypes
    <3>2. PendingOf(c)' = {}
      BY <3>1, PendingOrRefused
    <3>3. call[c].pc = "wait"
      BY <2>3, <3>1 DEF WInv, CmdInv, Awaits
    <3>4. \A id \in RefusedOf(c)' : id \notin files
      BY <1>1, <2>3, <3>1, <3>3 DEF RefusedOf
    <3> QED BY <3>2, <3>4
  <2> QED BY <1>1, <2>1, <2>5 DEF Lone, PlayingIsActive
<1> QED BY <1>0, <1>3, <1>4, <1>5, <1>6, <1>7

\* One of the worker's own steps.
LEMMA OwnKeepsLone ==
    ASSUME WInv, Lone, Own
    PROVE  Lone'
<1>0. OwnFrame /\ Effect /\ at # "down" /\ epoch \in Epochs
  BY OwnPlace
<1>1. /\ active' = active /\ call' = call
      /\ \A c \in Clients : PendingOf(c)' = PendingOf(c) /\ RefusedOf(c)' = RefusedOf(c)
  BY <1>0, OwnSame
<1>2. ASSUME files' \subseteq files, Clear \notin Todo' PROVE Lone'
  BY <1>1, <1>2 DEF Lone, PlayingIsActive
<1>3. CASE Receives \/ Idles
  BY <1>2, <1>3 DEF Receives, Idles
<1>4. CASE Closes
  <2>1. files' \subseteq files /\ Clear \notin Todo'
    BY <1>4 DEF Closes, Clear, Unmark, Op
  <2> QED BY <1>2, <2>1
<1>5. CASE Refuses
  <2>1. files' \subseteq files /\ Clear \notin Todo'
    BY <1>5, DistinctOps DEF Refuses
  <2> QED BY <1>2, <2>1
<1>6. CASE Plays
  <2>1. /\ cmd.kind = "Play" /\ files' = files \cup {cmd.id} /\ Clear \notin Todo'
        /\ cmd # NoCommand
    BY <1>6, DistinctOps DEF Plays
  <2>2. /\ cmd.from \in Clients /\ call[cmd.from].pc = "wait" /\ reply[cmd.from] = "none"
        /\ call[cmd.from].cmd = cmd
    BY <2>1 DEF WInv, CmdInv, Awaits
  <2>3. cmd.id \in active
    BY <2>1, <2>2 DEF PendingOf, Waiting, Lone
  <2>4. ASSUME NEW c \in Clients PROVE \A id \in RefusedOf(c) : id \notin files'
    <3>1. CASE c = cmd.from
      BY <2>2, <3>1 DEF RefusedOf
    <3>2. CASE c # cmd.from
      <4>1. CallInv(c)
        BY DEF WInv, ClientInv
      <4>2. cmd.id \notin RefusedOf(c)
        BY <2>1, <2>2, <3>2, <4>1 DEF RefusedOf, CallInv
      <4> QED BY <2>1, <4>2 DEF Lone
    <3> QED BY <3>1, <3>2
  <2> QED BY <1>1, <2>1, <2>3, <2>4 DEF Lone, PlayingIsActive
<1>7. CASE Stops
  <2>1. files' \subseteq files /\ Clear \notin Todo'
    BY <1>7, DistinctOps DEF Stops, Clear, Unmark, Op
  <2> QED BY <1>2, <2>1
<1>8. CASE StopsAll
  <2>1. files' = {} /\ cmd' = cmd /\ cmd # NoCommand /\ cmd.kind \in {"StopAll", "Shutdown"}
    BY <1>8 DEF StopsAll
  <2> QED BY <1>1, <2>1 DEF Lone, PlayingIsActive
<1> QED BY <1>0, <1>3, <1>4, <1>5, <1>6, <1>7, <1>8 DEF Effect

\* Every step of a host with one thread keeps Lone.
LEMMA StepKeepsLone ==
    ASSUME WInv, Lone, \A c, d \in Clients : c = d, [Next]_vars
    PROVE  Lone'
<1>1. CASE Start
  <2>1. files = {} /\ active = {} /\ Todo = {}
    BY <1>1 DEF Start, WInv, ControlInv
  <2>2. files' = files /\ Todo' = Todo /\ call' = call /\ reply' = reply
    BY <1>1 DEF Start, client, Todo
  <2>3. \A c \in Clients : PendingOf(c)' = PendingOf(c)
    BY <2>2 DEF PendingOf, Waiting
  <2> QED BY <2>1, <2>2, <2>3 DEF Lone, PlayingIsActive
<1>2. ASSUME UNCHANGED <<files, active, agenda, cmd, call, reply>> PROVE Lone'
  <2>1. Todo' = Todo
    BY <1>2 DEF Todo
  <2>2. \A c \in Clients : PendingOf(c)' = PendingOf(c) /\ RefusedOf(c)' = RefusedOf(c)
    BY <1>2 DEF PendingOf, RefusedOf, Waiting
  <2> QED BY <1>2, <2>1, <2>2 DEF Lone, PlayingIsActive
<1>3. CASE CriticalError
  BY <1>2, <1>3 DEF CriticalError, Untouched, shared, client, control
<1>4. CASE WorkerStep
  <2>1. SharedStep \/ Own
    BY <1>4 DEF WorkerStep, Own
  <2> QED BY <2>1, SharedKeepsLone, OwnKeepsLone
<1>5. CASE \E c \in Clients : ClientCall(c) \/ ClientStep(c)
  BY <1>5, ClientKeepsLone
<1>6. CASE UNCHANGED vars
  BY <1>2, <1>6 DEF vars
<1> QED BY <1>1, <1>3, <1>4, <1>5, <1>6 DEF Next

\* With one host thread every file that plays can be stopped: its id is active
\* (player.go:133-141,255).  With two it need not be: a StopAll of one thread clears
\* the id of a Play of the other one that is still queued.
THEOREM LonePlaysAreActive ==
    ASSUME \A c, d \in Clients : c = d
    PROVE  Spec => []PlayingIsActive
<1>1. Init => Lone
  <2> SUFFICES ASSUME Init PROVE Lone
    OBVIOUS
  <2>1. Todo = {} /\ files = {}
    BY TodoOfShape DEF Init
  <2>2. \A c \in Clients : PendingOf(c) = {}
    BY NoCommandFields, PendingOrRefused DEF Init, IdleCall
  <2> QED BY <2>1, <2>2 DEF Lone, PlayingIsActive
<1>2. WInv /\ Lone /\ [Next]_vars => Lone'
  BY StepKeepsLone
<1>3. Lone => PlayingIsActive
  BY DEF Lone
<1> QED BY <1>1, <1>2, <1>3, WorkerInvariant, PTL DEF Spec

================================================================================
