-------------------------- MODULE UdpRuntimeProofs --------------------------
(***************************************************************************)
(* For any number of actors running any behaviors, whatever channels can   *)
(* hold, the network does and fails: the UDP runtime keeps its types, its  *)
(* threads and tasks take turns, it answers as the abstract runtime does,  *)
(* and join tells of every panic.                                          *)
(***************************************************************************)
EXTENDS UdpRuntime, TLAPS

\* The lemmas about the histories of the behaviors.
History == INSTANCE RuntimeProofs

-----------------------------------------------------------------------------
(* Types                                                                   *)

\* The events a task answers with.
LEMMA EventTypes ==
    /\ \A id \in Id : SpawnOk(id) \in Event
    /\ \A src \in Id, msg \in Message : RecvOk(src, msg) \in Event
    /\ \A deadline \in Nat : DeadlineOk(deadline) \in Event
    /\ \A bool \in BOOLEAN : [type |-> "DeadlineElapsedOk", elapsed |-> bool] \in Event
    /\ \A description \in Description : ExpectOk(description) \in Event
    /\ ExpectationMetOk \in Event /\ SendOk \in Event /\ SleepUntilOk \in Event
BY DEF Event, SpawnOk, RecvOk, DeadlineOk, ExpectOk, ExpectationMetOk, SendOk, SleepUntilOk

\* The states a task can be in.
LEMMA TaskStateTypes ==
    /\ AwaitCommand \in TaskState /\ Receiving \in TaskState
    /\ Returned \in TaskState /\ TaskPanicked \in TaskState
    /\ \A deadline \in Nat : Sleeping(deadline) \in TaskState
    /\ \A event \in Event : Answering(event) \in TaskState
BY DEF TaskState, Sleeping, Answering

\* The fields that a state of the task has, by its name.
LEMMA TaskStateFields ==
    ASSUME NEW state \in TaskState
    PROVE  /\ state.state = "answering" => state.event \in Event /\ state = Answering(state.event)
           /\ state.state = "sleeping" => state.deadline \in Nat /\ state = Sleeping(state.deadline)
           /\ state.state = "command" => state = AwaitCommand
           /\ state.state = "receiving" => state = Receiving
           /\ state.state \notin {"answering", "sleeping"} =>
                 state \in {AwaitCommand, Receiving, Returned, TaskPanicked}
<1>1. CASE state \in {AwaitCommand, Receiving, Returned, TaskPanicked}
  BY <1>1 DEF AwaitCommand, Receiving, Returned, TaskPanicked
<1>2. CASE state \in [state : {"sleeping"}, deadline : Nat]
  BY <1>2 DEF Sleeping
<1>3. CASE state \in [state : {"answering"}, event : Event]
  BY <1>3 DEF Answering
<1>. QED  BY <1>1, <1>2, <1>3 DEF TaskState

\* The fields of a command.
LEMMA CommandFields ==
    ASSUME NEW command \in Command
    PROVE  /\ command.type = "DeadlineElapsed" => command.deadline \in Nat
           /\ command.type = "SleepUntil" => command.deadline \in Nat
           /\ command.type = "Expect" => command.description \in Description
           /\ command.type = "Send" => command.dst \in Id /\ command.msg \in Message
           /\ command.type = "Send" =>
                command = [type |-> "Send", dst |-> command.dst, msg |-> command.msg]
BY DEF Command

\* Init is well typed.
LEMMA InitTypes == Init => TypeOK
BY EventTypes, NAssumption
   DEF Init, TypeOK, TaskState, Id

\* Taking a command changes the task, the deadlines and the network.
LEMMA TakeCommandTypes ==
    ASSUME TypeOK, NEW id \in Id, TakeCommand(id)
    PROVE  TypeOK'
<1>. DEFINE command == Head(tx_commands[id])
<1>1. command \in Command /\ Tail(tx_commands[id]) \in Seq(Command)
  BY DEF TypeOK, TakeCommand
<1>2. tx_commands' \in [Id -> Seq(Command)]
  BY <1>1 DEF TypeOK, TakeCommand
<1>3. \A state \in TaskState : Become(id, state) => task' \in [Id -> TaskState]
  BY DEF TypeOK, Become
<1>4. CASE command.type = "Deadline" /\ CreateDeadline(id)
  <2>1. next_deadline_id[id] \in Nat
    BY DEF TypeOK
  <2>2. task' \in [Id -> TaskState]
    BY <1>3, <1>4, <2>1, EventTypes, TaskStateTypes DEF CreateDeadline
  <2>3. /\ next_deadline_id' \in [Id -> Nat]
        /\ instants' \in [Id -> SUBSET Nat]
        /\ pending' \in [Id -> SUBSET Nat]
    <3>1. next_deadline_id' \in [Id -> Nat]
      BY <1>4, <2>1 DEF TypeOK, CreateDeadline
    <3>2. instants' \in [Id -> SUBSET Nat]
      BY <1>4, <2>1 DEF TypeOK, CreateDeadline
    <3>3. pending' \in [Id -> SUBSET Nat]
      BY <1>4, <2>1 DEF TypeOK, CreateDeadline
    <3>. QED  BY <3>1, <3>2, <3>3
  <2>4. \A other \in Id : /\ pending'[other] \subseteq instants'[other]
                          /\ instants'[other] \subseteq 0 .. next_deadline_id'[other] - 1
    <3>. SUFFICES ASSUME NEW other \in Id
                  PROVE  /\ pending'[other] \subseteq instants'[other]
                         /\ instants'[other] \subseteq 0 .. next_deadline_id'[other] - 1
      OBVIOUS
    <3>1. /\ pending[other] \subseteq instants[other]
          /\ instants[other] \subseteq 0 .. next_deadline_id[other] - 1
      BY DEF TypeOK
    <3>2. CASE other = id
      <4>1. /\ pending'[id] = pending[id] \cup {next_deadline_id[id]}
            /\ instants'[id] = instants[id] \cup {next_deadline_id[id]}
            /\ next_deadline_id'[id] = next_deadline_id[id] + 1
        BY <1>4 DEF TypeOK, CreateDeadline
      <4>. QED  BY <2>1, <3>1, <3>2, <4>1
    <3>3. CASE other # id
      BY <1>4, <3>1, <3>3 DEF TypeOK, CreateDeadline
    <3>. QED  BY <3>2, <3>3
  <2>. QED  BY <1>2, <1>4, <2>2, <2>3, <2>4
            DEF TypeOK, TakeCommand, CreateDeadline, threads, network, joining
<1>5. CASE command.type = "DeadlineElapsed" /\ AnswerDeadlineElapsed(id, command.deadline)
  <2>1. PICK late \in SUBSET pending[id] :
            /\ pending' = [pending EXCEPT ![id] = @ \ late]
            /\ instants' = [instants EXCEPT ![id] = pending'[id]]
            /\ Become(id, Answering(DeadlineElapsedOk(IsElapsed(id, command.deadline))))
    BY <1>5 DEF AnswerDeadlineElapsed
  <2>2. DeadlineElapsedOk(IsElapsed(id, command.deadline)) \in Event
    BY EventTypes DEF DeadlineElapsedOk, IsElapsed
  <2>3. task' \in [Id -> TaskState]
    BY <1>3, <2>1, <2>2, TaskStateTypes
  <2>4. /\ pending' \in [Id -> SUBSET Nat] /\ instants' \in [Id -> SUBSET Nat]
        /\ \A other \in Id : /\ pending'[other] \subseteq instants'[other]
                             /\ instants'[other] \subseteq instants[other]
    BY <2>1 DEF TypeOK
  <2>. QED  BY <1>2, <1>5, <2>3, <2>4
            DEF TypeOK, TakeCommand, AnswerDeadlineElapsed, threads, network, joining
<1>6. CASE command.type = "Send" /\ Transmit(id, command.dst, command.msg)
  <2>1. task' \in [Id -> TaskState]
    BY <1>3, <1>6, EventTypes, TaskStateTypes DEF Transmit, Write
  <2>2. socket' \in [Id -> SUBSET Datagram] /\ sent' \in [Id -> Nat]
    <3>1. CASE Write(id, command.dst, command.msg)
      <4>1. PICK copies \in Copies :
                socket' = [socket EXCEPT ![command.dst] = @ \cup
                    {[src |-> id, number |-> sent[id], copy |-> c, msg |-> command.msg] :
                        c \in 1 .. copies}]
        BY <3>1 DEF Write
      <4>2. sent[id] \in Nat /\ command.msg \in Message /\ copies \in Nat
        BY <1>1, <1>6, CommandFields, CopiesAssumption DEF TypeOK
      <4>3. {[src |-> id, number |-> sent[id], copy |-> c, msg |-> command.msg] :
                c \in 1 .. copies} \subseteq Datagram
        BY <4>2 DEF Datagram
      <4>4. socket \in [Id -> SUBSET Datagram] /\ sent \in [Id -> Nat]
        BY DEF TypeOK
      <4>5. socket' \in [Id -> SUBSET Datagram]
        BY <4>1, <4>3, <4>4
      <4>6. sent' \in [Id -> Nat]
        BY <3>1, <4>2, <4>4 DEF Write
      <4>. QED  BY <4>5, <4>6
    <3>2. CASE UNCHANGED network
      BY <3>2 DEF TypeOK, network
    <3>. QED  BY <1>6, <3>1, <3>2 DEF Transmit
  <2>. QED  BY <1>2, <1>6, <2>1, <2>2 DEF TypeOK, TakeCommand, Transmit, timers, threads, joining
<1>7. CASE /\ \/ command.type = "Exit" /\ Become(id, Returned)
              \/ command.type = "Panic" /\ Become(id, TaskPanicked)
              \/ command.type = "Deadline" /\ "checked_add" \in Faults /\ Become(id, TaskPanicked)
              \/ command.type = "Expect" /\ Become(id, Answering(ExpectOk(command.description)))
              \/ command.type = "ExpectationMet" /\ Become(id, Answering(ExpectationMetOk))
              \/ command.type = "Recv" /\ Become(id, Receiving)
              \/ command.type = "SleepUntil" /\
                     Become(id, IF command.deadline \in instants[id]
                                THEN Sleeping(command.deadline) ELSE Answering(SleepUntilOk))
           /\ UNCHANGED <<timers, network>>
  <2>1. task' \in [Id -> TaskState]
    BY <1>1, <1>3, <1>7, CommandFields, EventTypes, TaskStateTypes
  <2>. QED  BY <1>2, <1>7, <2>1 DEF TypeOK, TakeCommand, timers, network, threads, joining
<1>. QED  BY <1>4, <1>5, <1>6, <1>7 DEF TakeCommand

\* The behavior thread takes an event and passes its command on.
LEMMA ThreadTypes ==
    ASSUME TypeOK, NEW id \in Id, BehaviorThread(id)
    PROVE  TypeOK'
<1>1. CASE TakeEvent(id)
  <2>1. Head(tx_events[id]) \in Event /\ Tail(tx_events[id]) \in Seq(Event)
    BY <1>1 DEF TypeOK, TakeEvent
  <2>2. Append(behavior[id], Head(tx_events[id])) \in Seq(Event)
    BY <2>1 DEF TypeOK
  <2>. QED  BY <1>1, <2>1, <2>2 DEF TypeOK, TakeEvent, timers, network, joining
<1>2. CASE EventsClosed(id)
  BY <1>2 DEF TypeOK, EventsClosed, timers, network, joining
<1>3. CASE StepBehavior(id)
  <2>. DEFINE command == Behave(cfg_fn, id, behavior[id])
  <2>1. thread' \in [Id -> {"waiting", "stepping", "returned", "panicked"}]
    BY <1>3 DEF TypeOK, StepBehavior
  <2>2. tx_commands' \in [Id -> Seq(Command)]
    <3>1. CASE UNCHANGED tx_commands
      BY <3>1 DEF TypeOK
    <3>2. CASE /\ command \in Command
               /\ tx_commands' = [tx_commands EXCEPT ![id] = Append(@, command)]
      <4>1. Append(tx_commands[id], command) \in Seq(Command)
        BY <3>2 DEF TypeOK
      <4>. QED  BY <3>2, <4>1 DEF TypeOK
    <3>. QED  BY <1>3, <3>1, <3>2 DEF StepBehavior
  <2>. QED  BY <1>3, <2>1, <2>2 DEF TypeOK, StepBehavior, timers, network, joining
<1>. QED  BY <1>1, <1>2, <1>3 DEF BehaviorThread

\* The task waits, answers, ends or fails, and time passes.
LEMMA TaskTypes ==
    ASSUME TypeOK, NEW id \in Id, IoTask(id) \/ ReceiveFails(id) \/ TimePasses(id)
    PROVE  TypeOK'
<1>1. \A state \in TaskState : Become(id, state) => task' \in [Id -> TaskState]
  BY DEF TypeOK, Become
<1>2. CASE TakeCommand(id)
  BY <1>2, TakeCommandTypes
<1>3. CASE CommandsClosed(id)
  BY <1>1, <1>3, TaskStateTypes DEF TypeOK, CommandsClosed, threads, timers, network, joining
<1>4. CASE Receive(id)
  <2>1. PICK datagram \in socket[id] :
            /\ socket' = [socket EXCEPT ![id] = @ \ {datagram}]
            /\ \/ Become(id, Answering(RecvOk(datagram.src, datagram.msg)))
               \/ UNCHANGED task
    BY <1>4 DEF Receive
  <2>2. RecvOk(datagram.src, datagram.msg) \in Event
    BY <2>1, EventTypes DEF TypeOK, Datagram
  <2>3. task' \in [Id -> TaskState]
    BY <1>1, <2>1, <2>2, TaskStateTypes DEF TypeOK
  <2>. QED  BY <1>4, <2>1, <2>3 DEF TypeOK, Receive, threads, timers, joining
<1>5. CASE Wake(id)
  BY <1>1, <1>5, EventTypes, TaskStateTypes
     DEF TypeOK, Wake, threads, timers, network, joining
<1>6. CASE SendEvent(id)
  <2>1. task' \in [Id -> TaskState]
    BY <1>1, <1>6, TaskStateTypes DEF SendEvent
  <2>2. tx_events' \in [Id -> Seq(Event)]
    <3>1. task[id].event \in Event
      BY <1>6, TaskStateFields DEF TypeOK, SendEvent
    <3>2. Append(tx_events[id], task[id].event) \in Seq(Event)
      BY <3>1 DEF TypeOK
    <3>. QED  BY <1>6, <3>2 DEF TypeOK, SendEvent
  <2>. QED  BY <1>6, <2>1, <2>2 DEF TypeOK, SendEvent, threads, timers, network, joining
<1>7. CASE ReceiveFails(id)
  BY <1>1, <1>7, TaskStateTypes DEF TypeOK, ReceiveFails, threads, timers, network, joining
<1>8. CASE TimePasses(id)
  BY <1>8 DEF TypeOK, TimePasses, threads, network, joining
<1>. QED  BY <1>2, <1>3, <1>4, <1>5, <1>6, <1>7, <1>8 DEF IoTask

\* Joining keeps the types.
LEMMA JoinTypes ==
    ASSUME TypeOK, Join
    PROVE  TypeOK'
<1>1. CASE JoinTasks
  BY <1>1 DEF TypeOK, JoinTasks, threads, timers, network
<1>2. CASE JoinThread
  BY <1>2, NAssumption DEF TypeOK, JoinThread, threads, timers, network
<1>. QED  BY <1>1, <1>2 DEF Join

\* TypeOK is inductive.
LEMMA NextTypes ==
    ASSUME TypeOK, [Next]_vars
    PROVE  TypeOK'
<1>1. CASE UNCHANGED vars
  BY <1>1 DEF TypeOK, vars, threads, timers, network, joining
<1>. QED  BY <1>1, ThreadTypes, TaskTypes, JoinTypes DEF Next

(***************************************************************************)
(* The runtime's state is well typed, also when the network makes copies   *)
(* and everything fails that can (udp.rs has no unsafe code, but the model *)
(* has functions where the code has channels, maps and tasks).             *)
(***************************************************************************)
THEOREM RuntimeIsWellTyped == Spec => []TypeOK
<1>. QED  BY InitTypes, NextTypes, PTL DEF Spec

-----------------------------------------------------------------------------
(* Whose turn it is                                                        *)

\* The behavior runs and has all deadlines that exist.
Knows(id) ==
    /\ behavior[id] # << >>
    /\ History!Remembers(id, pending[id], next_deadline_id[id], {})

\* What is on its way to the behavior answers it.
Fits(id, event) ==
    /\ event \in Event
    /\ History!IsAnswer(id, event)
    /\ History!Remembers(id, pending[id], next_deadline_id[id], History!Brings(event))
    /\ event = [type |-> "DeadlineElapsedOk", elapsed |-> TRUE] /\ behavior[id] # << >>
            => History!LastCommand(id).deadline \notin pending[id]

EventUnderWay(id) ==
    /\ thread[id] = "waiting" /\ task[id] = AwaitCommand /\ tx_commands[id] = << >>
    /\ tx_events[id] = <<Head(tx_events[id])>>
    /\ Fits(id, Head(tx_events[id]))

BehaviorSteps(id) ==
    /\ thread[id] = "stepping" /\ task[id] = AwaitCommand
    /\ tx_events[id] = << >> /\ tx_commands[id] = << >>
    /\ Knows(id)

CommandUnderWay(id) ==
    /\ thread[id] = "waiting" /\ task[id] = AwaitCommand /\ tx_events[id] = << >>
    /\ tx_commands[id] = <<History!LastCommand(id)>>
    /\ Knows(id)

TaskWorks(id) ==
    /\ thread[id] = "waiting" /\ tx_events[id] = << >> /\ tx_commands[id] = << >>
    /\ History!LastCommand(id) \in Command \/ behavior[id] = << >>
    /\ \/ task[id] = Receiving /\ Knows(id) /\ History!LastCommand(id).type = "Recv"
       \/ task[id].state = "sleeping" /\ Knows(id) /\ History!LastCommand(id).type = "SleepUntil"
       \/ task[id].state = "answering" /\ Fits(id, task[id].event)

\* Nothing is under way: the actor has ended, or its Send is not answered.
NobodysTurn(id) ==
    /\ thread[id] # "stepping" /\ task[id] \in {AwaitCommand, Returned, TaskPanicked}
    /\ tx_events[id] = << >> /\ tx_commands[id] = << >>

Turn(id) ==
    \/ EventUnderWay(id) \/ BehaviorSteps(id) \/ CommandUnderWay(id)
    \/ TaskWorks(id) \/ NobodysTurn(id)

\* What is in the network was sent.
NothingIsMadeUp ==
    \A id \in Id : \A datagram \in socket[id] :
        History!HasSent(datagram.src, id, datagram.msg)

\* The inductive invariant.
TurnInv == TypeOK /\ NothingIsMadeUp /\ \A id \in Id : Turn(id)

\* The histories are those of the lemmas, and so are the actors they lack.
LEMMA HistoriesAre == TypeOK => History!Histories
BY DEF TypeOK, History!Histories, Id, History!Id, Event, History!Event

\* A step that takes no event changes nothing a history says.
LEMMA HistoryUnchanged ==
    ASSUME UNCHANGED <<cfg_fn, behavior>>
    PROVE  /\ \A id : History!LastCommand(id)' = History!LastCommand(id)
           /\ \A id : History!Deadlines(id)' = History!Deadlines(id)
           /\ \A id, deadline : History!ToldElapsed(id, deadline)' <=> History!ToldElapsed(id, deadline)
           /\ \A id, src, msg : History!HasSent(src, id, msg)' <=> History!HasSent(src, id, msg)
           /\ \A id, event : History!IsAnswer(id, event)' <=> History!IsAnswer(id, event)
           /\ \A id, deadlines, next, brought :
                 History!Remembers(id, deadlines, next, brought)
                    => History!Remembers(id, deadlines, next, brought)'
BY NAssumption, DurationAssumption, History!HistoryUnchanged

\* The variables of one actor.
Undisturbed(id) ==
    /\ thread'[id] = thread[id] /\ task'[id] = task[id]
    /\ tx_events'[id] = tx_events[id] /\ tx_commands'[id] = tx_commands[id]
    /\ pending'[id] = pending[id] /\ next_deadline_id'[id] = next_deadline_id[id]

\* The turn does not change unless the actor takes a step itself.
LEMMA TurnIsKept ==
    ASSUME NEW other \in Id, Turn(other), Undisturbed(other),
           \/ UNCHANGED <<cfg_fn, behavior>>
           \/ \E id \in Id \ {other}, event \in Event : History!Stepped(id, event)
    PROVE  Turn(other)'
<1>1. /\ behavior'[other] = behavior[other]
      /\ History!LastCommand(other)' = History!LastCommand(other)
      /\ \A event : History!IsAnswer(other, event) => History!IsAnswer(other, event)'
      /\ \A deadlines, next, brought :
            History!Remembers(other, deadlines, next, brought)
                => History!Remembers(other, deadlines, next, brought)'
  <2>1. CASE UNCHANGED <<cfg_fn, behavior>>
    BY <2>1, HistoryUnchanged
  <2>2. CASE \E id \in Id \ {other}, event \in Event : History!Stepped(id, event)
    <3>1. PICK id \in Id \ {other}, event \in Event : History!Stepped(id, event)
      BY <2>2
    <3>2. other \in History!Id \ {id}
      BY DEF History!Id, Id
    <3>3. /\ behavior'[other] = behavior[other]
          /\ History!LastCommand(other)' = History!LastCommand(other)
          /\ History!Deadlines(other)' = History!Deadlines(other)
          /\ \A deadline : History!ToldElapsed(other, deadline)'
                                => History!ToldElapsed(other, deadline)
          /\ \A answer : History!IsAnswer(other, answer) => History!IsAnswer(other, answer)'
      BY <3>1, <3>2, NAssumption, DurationAssumption, History!OthersUnchanged
    <3>4. ASSUME NEW deadlines, NEW next, NEW brought,
                 History!Remembers(other, deadlines, next, brought)
          PROVE  History!Remembers(other, deadlines, next, brought)'
      BY <3>3, <3>4 DEF History!Remembers
    <3>5. \A deadlines, next, brought :
            History!Remembers(other, deadlines, next, brought)
                => History!Remembers(other, deadlines, next, brought)'
      BY <3>4
    <3>. QED  BY <3>3, <3>5
  <2>. QED  BY <2>1, <2>2
<1>2. Knows(other) => Knows(other)'
  BY <1>1 DEF Knows, Undisturbed
<1>3. \A event : Fits(other, event) => Fits(other, event)'
  BY <1>1 DEF Fits, Undisturbed
<1>4. EventUnderWay(other) => EventUnderWay(other)'
  BY <1>3 DEF EventUnderWay, Undisturbed, AwaitCommand
<1>5. BehaviorSteps(other) => BehaviorSteps(other)'
  BY <1>2 DEF BehaviorSteps, Undisturbed, AwaitCommand
<1>6. CommandUnderWay(other) => CommandUnderWay(other)'
  BY <1>1, <1>2 DEF CommandUnderWay, Undisturbed, AwaitCommand
<1>7. TaskWorks(other) => TaskWorks(other)'
  BY <1>1, <1>2, <1>3 DEF TaskWorks, Undisturbed, Receiving
<1>8. NobodysTurn(other) => NobodysTurn(other)'
  BY DEF NobodysTurn, Undisturbed, AwaitCommand, Returned, TaskPanicked
<1>. QED  BY <1>4, <1>5, <1>6, <1>7, <1>8 DEF Turn

\* Datagrams that stay under way were sent before.
LEMMA StillSent ==
    ASSUME TypeOK, NothingIsMadeUp, \A id \in Id : socket'[id] \subseteq socket[id],
           \/ UNCHANGED <<cfg_fn, behavior>>
           \/ \E id \in Id, event \in Event : History!Stepped(id, event)
    PROVE  NothingIsMadeUp'
<1>. SUFFICES ASSUME NEW dst \in Id, NEW datagram \in socket'[dst]
              PROVE  History!HasSent(datagram.src, dst, datagram.msg)'
  BY DEF NothingIsMadeUp
<1>1. History!HasSent(datagram.src, dst, datagram.msg)
  BY DEF NothingIsMadeUp
<1>2. datagram.src \in History!Id
  BY DEF TypeOK, Datagram, Id, History!Id
<1>3. CASE UNCHANGED <<cfg_fn, behavior>>
  BY <1>1, <1>3, HistoryUnchanged
<1>4. CASE \E id \in Id, event \in Event : History!Stepped(id, event)
  <2>1. PICK id \in Id, event \in Event : History!Stepped(id, event)
    BY <1>4
  <2>. QED  BY <1>1, <1>2, <2>1, NAssumption, DurationAssumption, History!HasSentAfter
<1>. QED  BY <1>3, <1>4

-----------------------------------------------------------------------------
(* The steps of the behavior thread                                        *)

\* The behavior consumes the event that was on its way to it.
LEMMA TakeEventSteps ==
    ASSUME TypeOK, NEW id \in Id, Turn(id), TakeEvent(id)
    PROVE  /\ EventUnderWay(id)
           /\ History!Stepped(id, Head(tx_events[id]))
           /\ History!StepBehavior
<1>1. EventUnderWay(id)
  BY DEF TakeEvent, Turn, BehaviorSteps, CommandUnderWay, TaskWorks, NobodysTurn
<1>2. PICK event \in Event : event = Head(tx_events[id])
  BY <1>1 DEF EventUnderWay, Fits
<1>3. History!Stepped(id, event)
  BY <1>2, HistoriesAre
     DEF TakeEvent, History!Stepped, Id, History!Id, Event, History!Event
<1>4. History!IsAnswer(id, event)
  BY <1>1, <1>2 DEF EventUnderWay, Fits
<1>5. History!StepBehavior
  BY <1>3, <1>4, NAssumption, DurationAssumption, History!AnswerIsStep
<1>. QED  BY <1>1, <1>2, <1>3, <1>5

\* Then it is the behavior's turn, with all deadlines that exist.
LEMMA TakeEventTurn ==
    ASSUME TypeOK, NEW id \in Id, Turn(id), TakeEvent(id)
    PROVE  BehaviorSteps(id)'
<1>1. EventUnderWay(id)
  BY TakeEventSteps
<1>2. PICK event \in Event : event = Head(tx_events[id])
  BY <1>1 DEF EventUnderWay, Fits
<1>3. History!Stepped(id, event)
  BY <1>2, TakeEventSteps
<1>4. /\ Fits(id, event)
      /\ tx_events[id] = <<event>>
  BY <1>1, <1>2 DEF EventUnderWay
<1>5. PICK deadlines, next : deadlines = pending[id] /\ next = next_deadline_id[id]
  OBVIOUS
<1>6. History!Remembers(id, deadlines, next, History!Brings(event))
  BY <1>4, <1>5 DEF Fits
<1>7. event = History!DeadlineElapsedOk(TRUE) /\ behavior[id] # << >>
          => History!LastCommand(id).deadline \notin deadlines
  BY <1>4, <1>5 DEF Fits, History!DeadlineElapsedOk
<1>8. /\ History!Deadlines(id)' \subseteq 0 .. next - 1
      /\ deadlines \subseteq History!Deadlines(id)'
      /\ \A deadline \in deadlines : ~History!ToldElapsed(id, deadline)'
  BY <1>3, <1>6, <1>7, NAssumption, DurationAssumption, History!RemembersAfter
<1>9. pending'[id] = deadlines /\ next_deadline_id'[id] = next
  BY <1>5 DEF TakeEvent, timers
<1>10. behavior'[id] # << >>
  <2>1. behavior[id] \in Seq(Event) /\ behavior'[id] = Append(behavior[id], event)
    BY <1>2 DEF TypeOK, TakeEvent
  <2>2. Len(Append(behavior[id], event)) = Len(behavior[id]) + 1 /\ Len(behavior[id]) \in Nat
    BY <2>1
  <2>3. Len(<< >>) = 0
    OBVIOUS
  <2>. QED  BY <2>1, <2>2, <2>3
<1>11. Knows(id)'
  BY <1>8, <1>9, <1>10 DEF Knows, History!Remembers
<1>12. /\ thread'[id] = "stepping" /\ task'[id] = AwaitCommand
       /\ tx_events'[id] = << >> /\ tx_commands'[id] = << >>
  BY <1>1, <1>2, <1>4 DEF TypeOK, TakeEvent, EventUnderWay
<1>. QED  BY <1>11, <1>12 DEF BehaviorSteps, AwaitCommand

\* After its step the command is under way, or the behavior has unwound.
LEMMA StepBehaviorTurn ==
    ASSUME TypeOK, NEW id \in Id, Turn(id), StepBehavior(id)
    PROVE  Turn(id)'
<1>. DEFINE command == Behave(cfg_fn, id, behavior[id])
<1>1. BehaviorSteps(id)
  BY DEF StepBehavior, Turn, EventUnderWay, CommandUnderWay, TaskWorks, NobodysTurn
<1>2. UNCHANGED <<cfg_fn, behavior, tx_events, task, pending, next_deadline_id>>
  BY DEF StepBehavior, timers
<1>3. ~TaskEnded(id)
  BY <1>1 DEF BehaviorSteps, TaskEnded, AwaitCommand, Returned, TaskPanicked
<1>4. CASE command \notin Command
  <2>1. thread'[id] = "panicked" /\ UNCHANGED tx_commands
    BY <1>4 DEF TypeOK, StepBehavior
  <2>2. NobodysTurn(id)'
    BY <1>1, <1>2, <2>1 DEF NobodysTurn, BehaviorSteps, AwaitCommand, Returned, TaskPanicked
  <2>. QED  BY <2>2 DEF Turn
<1>5. CASE command \in Command
  <2>1. /\ thread'[id] = "waiting"
        /\ tx_commands'[id] = Append(tx_commands[id], command)
    BY <1>3, <1>5 DEF TypeOK, StepBehavior
  <2>2. tx_commands'[id] = <<command>>
    BY <1>1, <2>1 DEF BehaviorSteps
  <2>3. command = History!LastCommand(id)
    BY HistoriesAre, NAssumption, DurationAssumption, History!LastCommandIs DEF Id, History!Id
  <2>4. tx_commands'[id] = <<History!LastCommand(id)'>>
    BY <1>2, <2>2, <2>3, HistoryUnchanged
  <2>5. Knows(id)'
    BY <1>1, <1>2, HistoryUnchanged DEF BehaviorSteps, Knows
  <2>6. CommandUnderWay(id)'
    BY <1>1, <1>2, <2>1, <2>4, <2>5 DEF CommandUnderWay, BehaviorSteps, AwaitCommand
  <2>. QED  BY <2>6 DEF Turn
<1>. QED  BY <1>4, <1>5

-----------------------------------------------------------------------------
(* The steps of the task                                                   *)

\* A deadline is created while the behavior has all the others.
LEMMA CreateDeadlineFits ==
    ASSUME TypeOK, NEW id \in Id, Knows(id), UNCHANGED <<cfg_fn, behavior>>,
           History!LastCommand(id) \in Command, History!LastCommand(id).type = "Deadline",
           CreateDeadline(id)
    PROVE  task'[id].state = "answering" /\ Fits(id, task[id].event)'
<1>0. PICK d \in Nat : d = next_deadline_id[id]
  BY DEF TypeOK
<1>1. d \in Nat /\ DeadlineOk(d) \in Event
  BY EventTypes
<1>2. /\ task'[id] = Answering(DeadlineOk(d))
      /\ next_deadline_id'[id] = d + 1
      /\ pending'[id] = pending[id] \cup {d}
  BY <1>0 DEF TypeOK, CreateDeadline, Become
<1>3. task'[id].state = "answering" /\ task'[id].event = DeadlineOk(d)
  BY <1>2 DEF Answering
<1>4. /\ History!Deadlines(id) \subseteq 0 .. d - 1
      /\ pending[id] \subseteq History!Deadlines(id)
      /\ \A deadline \in pending[id] : ~History!ToldElapsed(id, deadline)
  BY <1>0 DEF Knows, History!Remembers
<1>5. d \notin History!Deadlines(id)
  BY <1>1, <1>4
<1>6. ~History!ToldElapsed(id, d)
  BY <1>5, HistoriesAre, NAssumption, DurationAssumption, History!ToldElapsedExists
     DEF Id, History!Id
<1>7. History!IsAnswer(id, DeadlineOk(d))
  <2>1. DeadlineOk(d).type = "DeadlineOk" /\ DeadlineOk(d).deadline = d
    BY DEF DeadlineOk
  <2>. QED  BY <1>1, <1>5, <2>1
            DEF Knows, History!IsAnswer, Event, History!Event, Id, History!Id,
                Command, History!Command
<1>8. History!Brings(DeadlineOk(d)) = {d}
  BY DEF History!Brings, DeadlineOk
<1>9. History!Remembers(id, pending[id] \cup {d}, d + 1, {d})
  BY <1>1, <1>4, <1>6 DEF History!Remembers
<1>10. History!IsAnswer(id, DeadlineOk(d))'
  BY <1>7, HistoryUnchanged
<1>11. PICK deadlines, next : deadlines = pending[id] \cup {d} /\ next = d + 1
  OBVIOUS
<1>12. History!Remembers(id, deadlines, next, {d})'
  BY <1>9, <1>11, HistoryUnchanged
<1>13. DeadlineOk(d) # [type |-> "DeadlineElapsedOk", elapsed |-> TRUE]
  BY DEF DeadlineOk
<1>14. History!Remembers(id, pending[id], next_deadline_id[id], History!Brings(DeadlineOk(d)))'
  BY <1>2, <1>8, <1>11, <1>12 DEF History!Brings, DeadlineOk
<1>15. Fits(id, DeadlineOk(d))'
  BY <1>1, <1>10, <1>13, <1>14 DEF Fits, DeadlineOk
<1>. QED  BY <1>3, <1>15

\* A query is answered by what is pending, and time only takes away from that.
LEMMA AnswerDeadlineElapsedFits ==
    ASSUME TypeOK, NEW id \in Id, Knows(id), UNCHANGED <<cfg_fn, behavior, next_deadline_id>>,
           History!LastCommand(id) \in Command, History!LastCommand(id).type = "DeadlineElapsed",
           AnswerDeadlineElapsed(id, History!LastCommand(id).deadline)
    PROVE  task'[id].state = "answering" /\ Fits(id, task[id].event)'
<1>0. PICK d \in Nat : d = History!LastCommand(id).deadline
  BY CommandFields
<1>1. PICK late \in SUBSET pending[id] :
          /\ pending' = [pending EXCEPT ![id] = @ \ late]
          /\ Become(id, Answering(DeadlineElapsedOk(IsElapsed(id, d))))
  BY <1>0 DEF AnswerDeadlineElapsed
<1>2. PICK bool \in BOOLEAN : bool <=> d \notin pending[id]
  OBVIOUS
<1>3. PICK event \in Event : event = [type |-> "DeadlineElapsedOk", elapsed |-> bool]
  BY EventTypes
<1>4. task'[id].state = "answering" /\ task'[id].event = event
  BY <1>1, <1>2, <1>3 DEF TypeOK, Become, Answering, DeadlineElapsedOk, IsElapsed
<1>5. History!Remembers(id, pending[id], next_deadline_id[id], {}) /\ behavior[id] # << >>
  BY DEF Knows
<1>6. PICK deadlines, next : deadlines = pending[id] \ late /\ next = next_deadline_id[id]
  OBVIOUS
<1>7. pending'[id] = deadlines /\ next_deadline_id'[id] = next
  BY <1>1, <1>6 DEF TypeOK
<1>8. History!Remembers(id, deadlines, next, {})
  BY <1>5, <1>6 DEF History!Remembers
<1>9. History!IsAnswer(id, event)
  BY <1>0, <1>2, <1>3, <1>5
     DEF History!IsAnswer, History!Remembers, Event, History!Event, Id, History!Id,
         Command, History!Command
<1>10. event.elapsed => d \notin deadlines
  BY <1>2, <1>3, <1>6
<1>11. History!Brings(event) = {}
  BY <1>3 DEF History!Brings
<1>12. History!IsAnswer(id, event)' /\ History!Remembers(id, deadlines, next, {})'
  BY <1>8, <1>9, HistoryUnchanged
<1>13. History!LastCommand(id)'.deadline = d
  BY <1>0, HistoryUnchanged
<1>14. Fits(id, event)'
  BY <1>3, <1>7, <1>10, <1>11, <1>12, <1>13 DEF Fits, History!Brings
<1>. QED  BY <1>4, <1>14

\* An answer that is not about deadlines.
LEMMA OtherAnswersFit ==
    ASSUME NEW id, Knows(id), NEW event \in Event, History!IsAnswer(id, event),
           event.type \notin {"DeadlineOk", "DeadlineElapsedOk"},
           UNCHANGED <<cfg_fn, behavior, pending, next_deadline_id>>
    PROVE  Fits(id, event)'
<1>1. History!Brings(event) = {}
  BY DEF History!Brings
<1>2. PICK deadlines, next : deadlines = pending[id] /\ next = next_deadline_id[id]
  OBVIOUS
<1>3. History!Remembers(id, deadlines, next, {})' /\ History!IsAnswer(id, event)'
  BY <1>2, HistoryUnchanged DEF Knows
<1>. QED  BY <1>1, <1>2, <1>3 DEF Fits, History!Brings

\* The task works on the command, answers it, or ends.
LEMMA TakeCommandTurn ==
    ASSUME TypeOK, NEW id \in Id, Turn(id), TakeCommand(id)
    PROVE  Turn(id)'
<1>1. CommandUnderWay(id)
  BY DEF TakeCommand, Turn, EventUnderWay, BehaviorSteps, TaskWorks, NobodysTurn
<1>2. PICK command \in Command : command = Head(tx_commands[id])
  BY DEF TypeOK, TakeCommand
<1>3. command = History!LastCommand(id) /\ Tail(tx_commands[id]) = << >>
  BY <1>1, <1>2 DEF CommandUnderWay
<1>4. /\ UNCHANGED <<cfg_fn, behavior, thread, tx_events>>
      /\ tx_commands'[id] = << >>
  BY <1>3 DEF TypeOK, TakeCommand, threads
<1>5. Knows(id) /\ thread[id] = "waiting" /\ tx_events[id] = << >> /\ behavior[id] # << >>
  BY <1>1 DEF CommandUnderWay, Knows
<1>6. History!LastCommand(id)' = command
  BY <1>3, <1>4, HistoryUnchanged
<1>7. ASSUME task'[id].state = "answering", Fits(id, task[id].event)'
      PROVE  Turn(id)'
  BY <1>4, <1>5, <1>6, <1>7 DEF TaskWorks, Turn
<1>8. \A state : Become(id, state) => task'[id] = state
  BY DEF TypeOK, Become
<1>9. ASSUME NEW event \in Event, History!IsAnswer(id, event),
             event.type \notin {"DeadlineOk", "DeadlineElapsedOk"},
             Become(id, Answering(event)), UNCHANGED timers
      PROVE  Turn(id)'
  <2>1. task'[id].state = "answering" /\ task'[id].event = event
    BY <1>8, <1>9 DEF Answering
  <2>2. Fits(id, event)'
    BY <1>4, <1>5, <1>9, OtherAnswersFit DEF timers
  <2>. QED  BY <1>7, <2>1, <2>2
<1>10. ASSUME NEW event \in Event, 
              \/ event = SendOk /\ command.type = "Send"
              \/ event = SleepUntilOk /\ command.type = "SleepUntil"
              \/ event = ExpectationMetOk /\ command.type = "ExpectationMet"
              \/ event = ExpectOk(command.description) /\ command.type = "Expect"
       PROVE  /\ History!IsAnswer(id, event)
              /\ event.type \notin {"DeadlineOk", "DeadlineElapsedOk"}
  BY <1>3, <1>5, <1>10
     DEF History!IsAnswer, Event, History!Event, Id, History!Id, Command, History!Command,
         SendOk, SleepUntilOk, ExpectationMetOk, ExpectOk
<1>11. ASSUME Become(id, Returned) \/ Become(id, TaskPanicked) \/ Become(id, AwaitCommand)
       PROVE  Turn(id)'
  BY <1>4, <1>5, <1>8, <1>11 DEF Turn, NobodysTurn, AwaitCommand, Returned, TaskPanicked
<1>12. ASSUME UNCHANGED timers
       PROVE  Knows(id)'
  <2>1. PICK deadlines, next : deadlines = pending[id] /\ next = next_deadline_id[id]
    OBVIOUS
  <2>2. History!Remembers(id, deadlines, next, {})'
    BY <1>4, <1>5, <2>1, HistoryUnchanged DEF Knows
  <2>. QED  BY <1>4, <1>5, <1>12, <2>1, <2>2 DEF Knows, timers
<1>13. CASE command.type = "Deadline" /\ CreateDeadline(id)
  BY <1>3, <1>4, <1>5, <1>7, <1>13, CreateDeadlineFits
<1>14. CASE command.type = "DeadlineElapsed" /\ AnswerDeadlineElapsed(id, command.deadline)
  <2>1. UNCHANGED next_deadline_id
    BY <1>14 DEF AnswerDeadlineElapsed
  <2>. QED  BY <1>3, <1>4, <1>5, <1>7, <1>14, <2>1, AnswerDeadlineElapsedFits
<1>15. CASE command.type = "Send" /\ Transmit(id, command.dst, command.msg)
  <2>1. UNCHANGED timers /\ (Become(id, Answering(SendOk)) \/ Become(id, AwaitCommand))
    BY <1>15 DEF Transmit, Write
  <2>. QED  BY <1>9, <1>10, <1>11, <1>15, <2>1, EventTypes
<1>16. CASE /\ \/ command.type = "Exit" /\ Become(id, Returned)
               \/ command.type = "Panic" /\ Become(id, TaskPanicked)
               \/ command.type = "Deadline" /\ "checked_add" \in Faults /\ Become(id, TaskPanicked)
               \/ command.type = "Expect" /\ Become(id, Answering(ExpectOk(command.description)))
               \/ command.type = "ExpectationMet" /\ Become(id, Answering(ExpectationMetOk))
               \/ command.type = "Recv" /\ Become(id, Receiving)
               \/ command.type = "SleepUntil" /\
                      Become(id, IF command.deadline \in instants[id]
                                 THEN Sleeping(command.deadline) ELSE Answering(SleepUntilOk))
            /\ UNCHANGED <<timers, network>>
  <2>1. CASE command.type = "Expect" /\ Become(id, Answering(ExpectOk(command.description)))
    BY <1>9, <1>10, <1>16, <2>1, CommandFields, EventTypes
  <2>2. CASE command.type = "ExpectationMet" /\ Become(id, Answering(ExpectationMetOk))
    BY <1>9, <1>10, <1>16, <2>2, EventTypes
  <2>3. CASE command.type = "SleepUntil" /\ Become(id, Answering(SleepUntilOk))
    BY <1>9, <1>10, <1>16, <2>3, EventTypes
  <2>4. CASE command.type = "SleepUntil" /\ Become(id, Sleeping(command.deadline))
    <3>1. task'[id].state = "sleeping"
      BY <1>8, <2>4 DEF Sleeping
    <3>. QED  BY <1>4, <1>5, <1>6, <1>12, <1>16, <2>4, <3>1 DEF Turn, TaskWorks
  <2>5. CASE command.type = "Recv" /\ Become(id, Receiving)
    BY <1>4, <1>5, <1>6, <1>8, <1>12, <1>16, <2>5 DEF Turn, TaskWorks, Receiving
  <2>. QED  BY <1>11, <1>16, <2>1, <2>2, <2>3, <2>4, <2>5
<1>. QED  BY <1>2, <1>13, <1>14, <1>15, <1>16 DEF TakeCommand

\* A datagram is an answer to Recv, for it was sent.
LEMMA ReceiveTurn ==
    ASSUME TypeOK, NothingIsMadeUp, NEW id \in Id, Turn(id), Receive(id) \/ ReceiveFails(id)
    PROVE  Turn(id)'
<1>1. /\ UNCHANGED <<cfg_fn, behavior, thread, tx_events, tx_commands, pending, next_deadline_id>>
      /\ task[id] = Receiving
  BY DEF Receive, ReceiveFails, threads, timers
<1>2. TaskWorks(id)
  BY <1>1 DEF Turn, EventUnderWay, BehaviorSteps, CommandUnderWay, NobodysTurn,
              AwaitCommand, Receiving, Returned, TaskPanicked
<1>3. /\ thread[id] = "waiting" /\ tx_events[id] = << >> /\ tx_commands[id] = << >>
      /\ Knows(id) /\ behavior[id] # << >>
      /\ History!LastCommand(id) \in Command /\ History!LastCommand(id).type = "Recv"
  BY <1>1, <1>2 DEF TaskWorks, Knows, Receiving
<1>4. \A state : Become(id, state) => task'[id] = state
  BY DEF TypeOK, Become
<1>5. ASSUME NEW datagram \in socket[id],
             Become(id, Answering(RecvOk(datagram.src, datagram.msg)))
      PROVE  Turn(id)'
  <2>1. PICK event \in Event : event = RecvOk(datagram.src, datagram.msg)
    BY EventTypes DEF TypeOK, Datagram
  <2>2. History!HasSent(event.src, id, event.msg) /\ event.type = "RecvOk"
    BY <2>1 DEF NothingIsMadeUp, RecvOk
  <2>3. History!IsAnswer(id, event)
    BY <1>3, <2>2
       DEF History!IsAnswer, Event, History!Event, Id, History!Id, Command, History!Command
  <2>4. Fits(id, event)'
    BY <1>1, <1>3, <2>2, <2>3, OtherAnswersFit
  <2>5. task'[id].state = "answering" /\ task'[id].event = event
    BY <1>4, <1>5, <2>1 DEF Answering
  <2>6. History!LastCommand(id)' \in Command
    BY <1>1, <1>3, HistoryUnchanged
  <2>. QED  BY <1>1, <1>3, <2>4, <2>5, <2>6 DEF Turn, TaskWorks
<1>6. CASE task' = task
  <2>1. Knows(id)' /\ History!LastCommand(id)' = History!LastCommand(id)
    BY <1>1, <1>3, HistoryUnchanged DEF Knows
  <2>. QED  BY <1>1, <1>3, <1>6, <2>1 DEF Turn, TaskWorks, Receiving
<1>7. CASE Become(id, TaskPanicked)
  BY <1>1, <1>3, <1>4, <1>7 DEF Turn, NobodysTurn, TaskPanicked
<1>. QED  BY <1>5, <1>6, <1>7 DEF Receive, ReceiveFails

\* Waking up from a sleep answers the command.
LEMMA WakeTurn ==
    ASSUME TypeOK, NEW id \in Id, Turn(id), Wake(id)
    PROVE  Turn(id)'
<1>1. UNCHANGED <<cfg_fn, behavior, thread, tx_events, tx_commands, pending, next_deadline_id>>
  BY DEF Wake, threads, timers
<1>2. TaskWorks(id)
  BY DEF Wake, Turn, EventUnderWay, BehaviorSteps, CommandUnderWay, NobodysTurn,
         AwaitCommand, Returned, TaskPanicked
<1>3. /\ thread[id] = "waiting" /\ tx_events[id] = << >> /\ tx_commands[id] = << >>
      /\ Knows(id) /\ behavior[id] # << >>
      /\ History!LastCommand(id) \in Command /\ History!LastCommand(id).type = "SleepUntil"
  BY <1>2 DEF Wake, TaskWorks, Knows, Receiving
<1>4. SleepUntilOk \in Event /\ SleepUntilOk.type = "SleepUntilOk"
  BY EventTypes DEF SleepUntilOk
<1>5. History!IsAnswer(id, SleepUntilOk)
  BY <1>3, <1>4
     DEF History!IsAnswer, Event, History!Event, Id, History!Id, Command, History!Command
<1>6. Fits(id, SleepUntilOk)'
  BY <1>1, <1>3, <1>4, <1>5, OtherAnswersFit
<1>7. task'[id].state = "answering" /\ task'[id].event = SleepUntilOk
  BY DEF TypeOK, Wake, Become, Answering
<1>8. History!LastCommand(id)' \in Command
  BY <1>1, <1>3, HistoryUnchanged
<1>. QED  BY <1>1, <1>3, <1>6, <1>7, <1>8 DEF Turn, TaskWorks

\* The thread is there to take the answer.
LEMMA SendEventTurn ==
    ASSUME TypeOK, NEW id \in Id, Turn(id), SendEvent(id)
    PROVE  Turn(id)'
<1>1. UNCHANGED <<cfg_fn, behavior, thread, tx_commands, pending, next_deadline_id>>
  BY DEF SendEvent, threads, timers
<1>2. TaskWorks(id)
  BY DEF SendEvent, Turn, EventUnderWay, BehaviorSteps, CommandUnderWay, NobodysTurn,
         AwaitCommand, Returned, TaskPanicked
<1>3. /\ thread[id] = "waiting" /\ tx_events[id] = << >> /\ tx_commands[id] = << >>
      /\ Fits(id, task[id].event)
  BY <1>2 DEF SendEvent, TaskWorks, Receiving
<1>4. PICK event \in Event : event = task[id].event
  BY <1>3 DEF Fits
<1>5. task'[id] = AwaitCommand /\ tx_events'[id] = <<event>>
  BY <1>3, <1>4 DEF TypeOK, SendEvent, ThreadEnded, Become
<1>6. PICK deadlines, next, brought : deadlines = pending[id] /\ next = next_deadline_id[id]
                                        /\ brought = History!Brings(event)
  OBVIOUS
<1>7. History!IsAnswer(id, event) /\ History!Remembers(id, deadlines, next, brought)
  BY <1>3, <1>4, <1>6 DEF Fits
<1>8. History!IsAnswer(id, event)' /\ History!Remembers(id, deadlines, next, brought)'
  BY <1>1, <1>7, HistoryUnchanged
<1>9. History!LastCommand(id)' = History!LastCommand(id)
  BY <1>1, HistoryUnchanged
<1>10. Fits(id, event)'
  BY <1>1, <1>3, <1>4, <1>6, <1>8, <1>9 DEF Fits, History!Brings
<1>11. Head(tx_events'[id]) = event
  BY <1>5
<1>12. EventUnderWay(id)'
  BY <1>1, <1>3, <1>5, <1>10, <1>11 DEF EventUnderWay, AwaitCommand
<1>. QED  BY <1>12 DEF Turn

\* Ends of one side after the other, and the passing of time.
LEMMA OtherTurns ==
    ASSUME TypeOK, NEW id \in Id, Turn(id),
           EventsClosed(id) \/ CommandsClosed(id) \/ TimePasses(id)
    PROVE  Turn(id)'
<1>1. CASE EventsClosed(id)
  <2>1. NobodysTurn(id)
    BY <1>1 DEF Turn, EventsClosed, EventUnderWay, BehaviorSteps, CommandUnderWay, TaskWorks,
                TaskEnded, AwaitCommand, Receiving, Returned, TaskPanicked
  <2>2. NobodysTurn(id)'
    BY <1>1, <2>1 DEF TypeOK, EventsClosed, NobodysTurn, AwaitCommand, Returned, TaskPanicked
  <2>. QED  BY <2>2 DEF Turn
<1>2. CASE CommandsClosed(id)
  <2>1. NobodysTurn(id)
    BY <1>2 DEF Turn, CommandsClosed, EventUnderWay, BehaviorSteps, CommandUnderWay, TaskWorks,
                ThreadEnded
  <2>2. NobodysTurn(id)'
    BY <1>2, <2>1 DEF TypeOK, CommandsClosed, NobodysTurn, Become, threads,
                      AwaitCommand, Returned, TaskPanicked
  <2>. QED  BY <2>2 DEF Turn
<1>3. CASE TimePasses(id)
  <2>1. PICK deadline \in pending[id] : pending' = [pending EXCEPT ![id] = @ \ {deadline}]
    BY <1>3 DEF TimePasses
  <2>2. PICK deadlines, next : deadlines = pending'[id] /\ next = next_deadline_id[id]
    OBVIOUS
  <2>3. deadlines \subseteq pending[id]
    BY <2>1, <2>2 DEF TypeOK
  <2>4. /\ UNCHANGED <<cfg_fn, behavior, thread, task, tx_events, tx_commands>>
        /\ next_deadline_id'[id] = next
    BY <1>3, <2>2 DEF TimePasses, threads
  <2>5. History!LastCommand(id)' = History!LastCommand(id)
    BY <2>4, HistoryUnchanged
  <2>6. Knows(id) => Knows(id)'
    <3>1. SUFFICES ASSUME Knows(id) PROVE Knows(id)'
      OBVIOUS
    <3>2. History!Remembers(id, deadlines, next, {})
      BY <2>2, <2>3, <3>1 DEF Knows, History!Remembers
    <3>3. History!Remembers(id, deadlines, next, {})'
      BY <2>4, <3>2, HistoryUnchanged
    <3>. QED  BY <2>2, <2>4, <3>1, <3>3 DEF Knows
  <2>7. ASSUME NEW event, Fits(id, event)
        PROVE  Fits(id, event)'
    <3>1. PICK brought : brought = History!Brings(event)
      OBVIOUS
    <3>2. History!Remembers(id, deadlines, next, brought)
      BY <2>2, <2>3, <2>7, <3>1 DEF Fits, History!Remembers
    <3>3. History!Remembers(id, deadlines, next, brought)' /\ History!IsAnswer(id, event)'
      BY <2>4, <2>7, <3>2, HistoryUnchanged DEF Fits
    <3>. QED  BY <2>2, <2>3, <2>4, <2>5, <2>7, <3>1, <3>3 DEF Fits, History!Brings
  <2>8. EventUnderWay(id) => EventUnderWay(id)'
    BY <2>4, <2>7 DEF EventUnderWay, AwaitCommand
  <2>9. /\ BehaviorSteps(id) => BehaviorSteps(id)'
        /\ CommandUnderWay(id) => CommandUnderWay(id)'
    BY <2>4, <2>5, <2>6 DEF BehaviorSteps, CommandUnderWay, AwaitCommand
  <2>10. TaskWorks(id) => TaskWorks(id)'
    BY <2>4, <2>5, <2>6, <2>7 DEF TaskWorks, Receiving
  <2>11. NobodysTurn(id) => NobodysTurn(id)'
    BY <2>4 DEF NobodysTurn, AwaitCommand, Returned, TaskPanicked
  <2>. QED  BY <2>8, <2>9, <2>10, <2>11 DEF Turn
<1>. QED  BY <1>1, <1>2, <1>3

-----------------------------------------------------------------------------
(* All actors and the network                                              *)

\* A step of one actor leaves the turns of the others alone.
LEMMA ActorStepIsLocal ==
    ASSUME TypeOK, NEW id \in Id, NEW other \in Id \ {id}, Turn(other),
           BehaviorThread(id) \/ IoTask(id) \/ ReceiveFails(id) \/ TimePasses(id),
           UNCHANGED <<cfg_fn, behavior>> \/ \E event \in Event : History!Stepped(id, event)
    PROVE  Turn(other)'
<1>1. Undisturbed(other)
  <2>1. CASE BehaviorThread(id)
    BY <2>1 DEF TypeOK, BehaviorThread, TakeEvent, EventsClosed, StepBehavior, Undisturbed, timers
  <2>2. CASE TakeCommand(id)
    <3>1. UNCHANGED <<thread, tx_events>> /\ tx_commands'[other] = tx_commands[other]
      BY <2>2 DEF TypeOK, TakeCommand, threads
    <3>2. /\ task'[other] = task[other] /\ pending'[other] = pending[other]
          /\ next_deadline_id'[other] = next_deadline_id[other]
      BY <2>2 DEF TypeOK, TakeCommand, CreateDeadline, AnswerDeadlineElapsed, Transmit, Write,
                  Become, timers
    <3>. QED  BY <3>1, <3>2 DEF Undisturbed
  <2>3. CASE CommandsClosed(id) \/ Receive(id) \/ Wake(id) \/ ReceiveFails(id) \/ TimePasses(id)
    BY <2>3 DEF TypeOK, CommandsClosed, Receive, Wake, ReceiveFails, TimePasses, Become,
                Undisturbed, threads, timers
  <2>4. CASE SendEvent(id)
    BY <2>4 DEF TypeOK, SendEvent, Become, Undisturbed, threads, timers
  <2>. QED  BY <2>1, <2>2, <2>3, <2>4 DEF IoTask
<1>. QED  BY <1>1, TurnIsKept

\* What the network carries is the last command of a behavior, or was there.
LEMMA WriteIsSent ==
    ASSUME TypeOK, NothingIsMadeUp, NEW id \in Id, CommandUnderWay(id), TakeCommand(id)
    PROVE  NothingIsMadeUp'
<1>1. UNCHANGED <<cfg_fn, behavior>>
  BY DEF TakeCommand, threads
<1>2. PICK command \in Command : command = Head(tx_commands[id])
  BY DEF TypeOK, TakeCommand
<1>3. command = History!LastCommand(id) /\ behavior[id] # << >>
  BY <1>2 DEF CommandUnderWay, Knows
<1>4. CASE UNCHANGED socket
  BY <1>1, <1>4, StillSent
<1>5. CASE command.type = "Send" /\ Write(id, command.dst, command.msg)
  <2>1. PICK copies \in Copies :
            socket' = [socket EXCEPT ![command.dst] = @ \cup
                {[src |-> id, number |-> sent[id], copy |-> c, msg |-> command.msg] :
                    c \in 1 .. copies}]
    BY <1>5 DEF Write
  <2>2. PICK dst, msg : dst = command.dst /\ msg = command.msg
    OBVIOUS
  <2>3. History!LastCommand(id) = [type |-> "Send", dst |-> dst, msg |-> msg]
    BY <1>3, <1>5, <2>2, CommandFields
  <2>4. History!HasSent(id, dst, msg)
    BY <1>3, <2>3, HistoriesAre, NAssumption, DurationAssumption, History!LastIsSent
       DEF Id, History!Id
  <2>. SUFFICES ASSUME NEW to \in Id, NEW datagram \in socket'[to]
                PROVE  History!HasSent(datagram.src, to, datagram.msg)'
    BY DEF NothingIsMadeUp
  <2>5. CASE datagram \in socket[to]
    BY <1>1, <2>5, HistoryUnchanged DEF NothingIsMadeUp
  <2>6. CASE datagram \notin socket[to]
    <3>1. to = dst
      BY <2>1, <2>2, <2>6 DEF TypeOK
    <3>2. datagram \in {[src |-> id, number |-> sent[id], copy |-> c, msg |-> command.msg] :
                            c \in 1 .. copies}
      BY <2>1, <2>2, <2>6, <3>1 DEF TypeOK
    <3>3. datagram.src = id /\ datagram.msg = msg
      BY <2>2, <3>2
    <3>4. History!HasSent(id, dst, msg)'
      BY <1>1, <2>4, HistoryUnchanged
    <3>. QED  BY <3>1, <3>3, <3>4
  <2>. QED  BY <2>5, <2>6
<1>. QED  BY <1>2, <1>4, <1>5
          DEF TakeCommand, CreateDeadline, AnswerDeadlineElapsed, Transmit, network

\* The steps of an actor keep everybody's turn and the network honest.
LEMMA ActorStepTurn ==
    ASSUME TurnInv, NEW id \in Id,
           BehaviorThread(id) \/ IoTask(id) \/ ReceiveFails(id) \/ TimePasses(id)
    PROVE  /\ NothingIsMadeUp'
           /\ \A other \in Id : Turn(other)'
           /\ UNCHANGED <<cfg_fn, behavior>> \/ History!StepBehavior
<1>1. TypeOK /\ NothingIsMadeUp /\ Turn(id) /\ \A other \in Id : Turn(other)
  BY DEF TurnInv
<1>2. CASE TakeEvent(id)
  <2>1. History!Stepped(id, Head(tx_events[id])) /\ EventUnderWay(id) /\ History!StepBehavior
    BY <1>1, <1>2, TakeEventSteps
  <2>2. PICK event \in Event : History!Stepped(id, event)
    BY <2>1 DEF EventUnderWay, Fits
  <2>3. Turn(id)'
    BY <1>1, <1>2, TakeEventTurn DEF Turn
  <2>4. \A other \in Id \ {id} : Turn(other)'
    BY <1>1, <1>2, <2>2, ActorStepIsLocal DEF BehaviorThread
  <2>5. NothingIsMadeUp'
    BY <1>1, <1>2, <2>2, StillSent DEF TakeEvent, network
  <2>. QED  BY <2>1, <2>3, <2>4, <2>5
<1>3. CASE TakeCommand(id)
  <2>1. UNCHANGED <<cfg_fn, behavior>>
    BY <1>3 DEF TakeCommand, threads
  <2>2. CommandUnderWay(id)
    BY <1>1, <1>3 DEF TakeCommand, Turn, EventUnderWay, BehaviorSteps, TaskWorks, NobodysTurn
  <2>3. NothingIsMadeUp'
    BY <1>1, <1>3, <2>2, WriteIsSent
  <2>4. Turn(id)'
    BY <1>1, <1>3, TakeCommandTurn
  <2>5. \A other \in Id \ {id} : Turn(other)'
    BY <1>1, <1>3, <2>1, ActorStepIsLocal DEF IoTask
  <2>. QED  BY <2>1, <2>3, <2>4, <2>5
<1>4. CASE \/ EventsClosed(id) \/ StepBehavior(id) \/ CommandsClosed(id) \/ Receive(id)
           \/ Wake(id) \/ SendEvent(id) \/ ReceiveFails(id) \/ TimePasses(id)
  <2>1. UNCHANGED <<cfg_fn, behavior>> /\ \A dst \in Id : socket'[dst] \subseteq socket[dst]
    <3>1. CASE Receive(id)
      BY <3>1 DEF TypeOK, TurnInv, Receive, threads
    <3>2. CASE ~Receive(id)
      BY <1>4, <3>2 DEF EventsClosed, StepBehavior, CommandsClosed, Wake, SendEvent,
                        ReceiveFails, TimePasses, threads, network
    <3>. QED  BY <3>1, <3>2
  <2>2. NothingIsMadeUp'
    BY <1>1, <2>1, StillSent
  <2>3. Turn(id)'
    BY <1>1, <1>4, StepBehaviorTurn, ReceiveTurn, WakeTurn, SendEventTurn, OtherTurns
  <2>4. \A other \in Id \ {id} : Turn(other)'
    BY <1>1, <1>4, <2>1, ActorStepIsLocal DEF BehaviorThread, IoTask
  <2>. QED  BY <2>1, <2>2, <2>3, <2>4
<1>. QED  BY <1>2, <1>3, <1>4 DEF BehaviorThread, IoTask

\* Initially the behaviors are to be spawned.
LEMMA InitTurn == Init => TurnInv
<1>. SUFFICES ASSUME Init PROVE TurnInv
  OBVIOUS
<1>1. TypeOK
  BY InitTypes
<1>2. NothingIsMadeUp
  BY DEF Init, NothingIsMadeUp
<1>3. ASSUME NEW id \in Id
      PROVE  Turn(id)
  <2>1. SpawnOk(id) \in Event /\ SpawnOk(id).type = "SpawnOk"
    BY EventTypes DEF SpawnOk
  <2>2. tx_events[id] = <<SpawnOk(id)>> /\ Head(tx_events[id]) = SpawnOk(id)
    BY DEF Init
  <2>3. behavior[id] = << >> /\ pending[id] = {}
    BY DEF Init
  <2>4. History!IsAnswer(id, SpawnOk(id))
    BY <2>1, <2>3 DEF History!IsAnswer, Event, History!Event, Id, History!Id,
                      SpawnOk, History!SpawnOk
  <2>5. History!Deadlines(id) = {}
    BY <2>3 DEF History!Deadlines
  <2>6. History!Remembers(id, pending[id], next_deadline_id[id], History!Brings(SpawnOk(id)))
    BY <2>1, <2>3, <2>5 DEF History!Remembers, History!Brings
  <2>7. Fits(id, SpawnOk(id))
    BY <2>1, <2>3, <2>4, <2>6 DEF Fits
  <2>8. EventUnderWay(id)
    BY <2>2, <2>7 DEF EventUnderWay, Init
  <2>. QED  BY <2>8 DEF Turn
<1>. QED  BY <1>1, <1>2, <1>3 DEF TurnInv

\* TurnInv is inductive, and a step is one of the abstract runtime or hidden.
LEMMA NextTurn ==
    ASSUME TurnInv, [Next]_vars
    PROVE  /\ TurnInv'
           /\ UNCHANGED <<cfg_fn, behavior>> \/ History!StepBehavior
<1>1. TypeOK'
  BY NextTypes DEF TurnInv
<1>2. CASE \E id \in Id : BehaviorThread(id) \/ IoTask(id) \/ ReceiveFails(id) \/ TimePasses(id)
  BY <1>1, <1>2, ActorStepTurn DEF TurnInv
<1>3. CASE Join \/ UNCHANGED vars
  <2>1. UNCHANGED <<cfg_fn, threads, tx_events, tx_commands, task, timers, network>>
    BY <1>3 DEF Join, JoinTasks, JoinThread, vars
  <2>2. UNCHANGED <<cfg_fn, behavior>> /\ \A id \in Id : Undisturbed(id)
    BY <2>1 DEF threads, timers, Undisturbed
  <2>3. \A id \in Id : Turn(id)'
    BY <2>2, TurnIsKept DEF TurnInv
  <2>4. NothingIsMadeUp'
    BY <2>1, <2>2, StillSent DEF TurnInv, network
  <2>. QED  BY <1>1, <2>2, <2>3, <2>4 DEF TurnInv
<1>. QED  BY <1>2, <1>3 DEF Next

-----------------------------------------------------------------------------
(* Theorems                                                                *)

\* TurnInv holds throughout.
LEMMA TurnInvHolds == Spec => []TurnInv
<1>. QED  BY InitTurn, NextTurn, PTL DEF Spec

(***************************************************************************)
(* The thread and the task of an actor take turns (udp.rs:80-250): at most *)
(* one event or command is between them, and neither sends to one that has *)
(* ended, whatever the channels' capacity.                                 *)
(***************************************************************************)
THEOREM ThreadsTakeTurns == Spec => []TakeTurns
<1>1. TurnInv => TakeTurns
  <2>. SUFFICES ASSUME TurnInv, NEW id \in Id
                PROVE  /\ Len(tx_events[id]) + Len(tx_commands[id])
                            + (IF thread[id] = "stepping" THEN 1 ELSE 0)
                            + (IF task[id].state \in Working THEN 1 ELSE 0) <= 1
                       /\ thread[id] = "stepping" => ~TaskEnded(id)
                       /\ task[id].state = "answering" => ~ThreadEnded(id)
    BY DEF TakeTurns
  <2>1. Len(<< >>) = 0
    OBVIOUS
  <2>2. \A x : Len(<<x>>) = 1
    OBVIOUS
  <2>3. /\ AwaitCommand.state \notin Working /\ Returned.state \notin Working
        /\ TaskPanicked.state \notin Working /\ ~(AwaitCommand \in {Returned, TaskPanicked})
    BY DEF Working, AwaitCommand, Returned, TaskPanicked
  <2>4. CASE EventUnderWay(id)
    <3>1. Len(tx_events[id]) = 1 /\ Len(tx_commands[id]) = 0
      BY <2>1, <2>2, <2>4 DEF EventUnderWay
    <3>. QED  BY <2>3, <2>4, <3>1 DEF EventUnderWay, ThreadEnded, TaskEnded
  <2>5. CASE BehaviorSteps(id)
    BY <2>1, <2>3, <2>5 DEF BehaviorSteps, TaskEnded, Working
  <2>6. CASE CommandUnderWay(id)
    <3>1. Len(tx_events[id]) = 0 /\ Len(tx_commands[id]) = 1
      BY <2>1, <2>2, <2>6 DEF CommandUnderWay
    <3>. QED  BY <2>3, <2>6, <3>1 DEF CommandUnderWay, ThreadEnded, TaskEnded
  <2>7. CASE TaskWorks(id)
    BY <2>1, <2>7 DEF TaskWorks, ThreadEnded
  <2>8. CASE NobodysTurn(id)
    BY <2>1, <2>3, <2>8 DEF NobodysTurn, Working
  <2>. QED  BY <2>4, <2>5, <2>6, <2>7, <2>8 DEF TurnInv, Turn
<1>. QED  BY <1>1, TurnInvHolds, PTL

(***************************************************************************)
(* The UDP runtime implements the abstract runtime: a behavior is only     *)
(* ever stepped with an answer to its last command, whatever is lost,      *)
(* copied or late (udp.rs:80-250, and the match in every function of       *)
(* sdk.rs).                                                                *)
(***************************************************************************)
THEOREM UdpImplementsRuntime == Spec => ImplementsRuntime
<1>1. Init => Abstract!Init
  BY DEF Init, Abstract!Init, Id, Abstract!Id
<1>2. TurnInv /\ [Next]_vars => [Abstract!StepBehavior]_(Abstract!vars)
  <2>1. History!StepBehavior => Abstract!StepBehavior
    BY DEF History!StepBehavior, Abstract!StepBehavior, History!Answer, Abstract!Answer,
           History!IsAnswer, Abstract!IsAnswer, History!HasSent, Abstract!HasSent,
           History!ToldElapsed, Abstract!ToldElapsed, History!Deadlines, Abstract!Deadlines,
           History!LastCommand, Abstract!LastCommand, History!CommandAfter, Abstract!CommandAfter,
           History!Id, Abstract!Id, History!Event, Abstract!Event, History!Command,
           Abstract!Command, History!SpawnOk, Abstract!SpawnOk,
           History!DeadlineOk, Abstract!DeadlineOk,
           History!DeadlineElapsedOk, Abstract!DeadlineElapsedOk
  <2>. QED  BY <2>1, NextTurn DEF Abstract!vars
<1>. QED  BY <1>1, <1>2, TurnInvHolds, PTL DEF Spec, ImplementsRuntime, Abstract!Spec

\* join waits for the end of every task, and then of the threads one by one.
JoinInv ==
    /\ TypeOK
    /\ join \in {"threads", "ok", "err"} => \A id \in Id : task[id] = Returned
    /\ \A id \in 1 .. count : thread[id] = "returned"
    /\ PanicsArePropagated

\* What has ended stays as it is.
LEMMA EndedStaysEnded ==
    ASSUME TypeOK, Next, NEW id \in Id
    PROVE  /\ TaskEnded(id) => task'[id] = task[id]
           /\ ThreadEnded(id) => thread'[id] = thread[id]
<1>1. ASSUME NEW other \in Id, BehaviorThread(other)
      PROVE  task'[id] = task[id] /\ (ThreadEnded(id) => thread'[id] = thread[id])
  BY <1>1 DEF TypeOK, BehaviorThread, TakeEvent, EventsClosed, StepBehavior, ThreadEnded
<1>2. ASSUME NEW other \in Id, IoTask(other) \/ ReceiveFails(other)
      PROVE  thread'[id] = thread[id] /\ (TaskEnded(id) => task'[id] = task[id])
  <2>1. thread' = thread
    BY <1>2 DEF IoTask, ReceiveFails, TakeCommand, CommandsClosed, Receive, Wake, SendEvent, threads
  <2>2. ~TaskEnded(other)
    BY <1>2 DEF IoTask, ReceiveFails, TakeCommand, CommandsClosed, Receive, Wake, SendEvent,
                TaskEnded, AwaitCommand, Receiving, Returned, TaskPanicked
  <2>3. other # id => task'[id] = task[id]
    BY <1>2 DEF TypeOK, IoTask, ReceiveFails, TakeCommand, CommandsClosed, Receive, Wake,
                SendEvent, CreateDeadline, AnswerDeadlineElapsed, Transmit, Write, Become
  <2>. QED  BY <2>1, <2>2, <2>3
<1>3. ASSUME Join \/ \E other \in Id : TimePasses(other)
      PROVE  UNCHANGED <<task, thread>>
  BY <1>3 DEF Join, JoinTasks, JoinThread, TimePasses, threads
<1>. QED  BY <1>1, <1>2, <1>3 DEF Next

\* JoinInv is inductive.
LEMMA JoinIsSound ==
    ASSUME JoinInv, [Next]_vars
    PROVE  JoinInv'
<1>1. TypeOK'
  BY NextTypes DEF JoinInv
<1>2. CASE UNCHANGED vars
  BY <1>1, <1>2 DEF JoinInv, PanicsArePropagated, vars, threads, joining, Returned, TaskPanicked
<1>3. CASE Next /\ UNCHANGED joining
  <2>1. \A id \in Id : /\ task[id] \in {Returned, TaskPanicked} => task'[id] = task[id]
                       /\ thread[id] \in {"returned", "panicked"} => thread'[id] = thread[id]
    BY <1>3, EndedStaysEnded DEF JoinInv, TaskEnded, ThreadEnded
  <2>2. 1 .. count \subseteq Id
    BY NAssumption DEF JoinInv, TypeOK, Id
  <2>. QED  BY <1>1, <1>3, <2>1, <2>2
            DEF JoinInv, PanicsArePropagated, joining, Returned, TaskPanicked
<1>4. CASE JoinTasks
  BY <1>1, <1>4
     DEF JoinInv, PanicsArePropagated, JoinTasks, TaskEnded, threads, Returned, TaskPanicked
<1>5. CASE JoinThread
  <2>1. UNCHANGED <<task, thread>> /\ join = "threads" /\ count < N
    BY <1>5 DEF JoinThread, threads
  <2>2. count \in Nat /\ N \in Nat /\ count + 1 \in Id
    BY <2>1, NAssumption DEF JoinInv, TypeOK, Id
  <2>3. CASE thread[count + 1] = "panicked"
    BY <1>1, <1>5, <2>1, <2>2, <2>3 DEF JoinInv, PanicsArePropagated, JoinThread, Returned
  <2>4. CASE thread[count + 1] # "panicked"
    <3>1. thread[count + 1] = "returned" /\ count' = count + 1
          /\ join' = IF count' = N THEN "ok" ELSE "threads"
      BY <1>5, <2>2, <2>4 DEF JoinThread, ThreadEnded
    <3>2. \A id \in 1 .. count' : thread'[id] = "returned"
      BY <2>1, <2>2, <3>1 DEF JoinInv
    <3>. QED  BY <1>1, <2>1, <2>2, <3>1, <3>2 DEF JoinInv, PanicsArePropagated, Returned, Id
  <2>. QED  BY <2>3, <2>4
<1>6. Next => UNCHANGED joining \/ JoinTasks \/ JoinThread
  BY DEF Next, BehaviorThread, TakeEvent, EventsClosed, StepBehavior, IoTask, TakeCommand,
         CommandsClosed, Receive, Wake, SendEvent, ReceiveFails, TimePasses, Join
<1>. QED  BY <1>2, <1>3, <1>4, <1>5, <1>6

(***************************************************************************)
(* join tells of every panic (udp.rs:51-78), for any number of actors.     *)
(***************************************************************************)
THEOREM JoinTellsOfPanics == Spec => []PanicsArePropagated
<1>1. Init => JoinInv
  <2>. SUFFICES ASSUME Init PROVE JoinInv
    OBVIOUS
  <2>1. TypeOK
    BY InitTypes
  <2>2. 1 .. count = {}
    BY DEF Init
  <2>. QED  BY <2>1, <2>2 DEF Init, JoinInv, PanicsArePropagated
<1>2. JoinInv => PanicsArePropagated
  BY DEF JoinInv
<1>. QED  BY <1>1, <1>2, JoinIsSound, PTL DEF Spec

=============================================================================
