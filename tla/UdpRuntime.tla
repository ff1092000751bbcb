----------------------------- MODULE UdpRuntime -----------------------------
(***************************************************************************)
(* crates/fibril/src/udp.rs: behaviors run for real.  Every actor has a    *)
(* thread that steps its behavior and a tokio task that executes the       *)
(* commands on a UDP socket; they talk over two bounded channels.  join    *)
(* waits for all of them.                                                  *)
(*                                                                         *)
(* A side that ends drops its ends of both channels: the other one finds   *)
(* its receiver closed once it is drained, and its sender failing.  The    *)
(* system clock is abstracted to the moment each deadline passes; the      *)
(* DeadlineAudit module has the durations.                                 *)
(***************************************************************************)
EXTENDS FibrilCore, FiniteSets

CONSTANTS
    Capacity,  \* of a channel: 64 in the code
    Faults,    \* what may fail: "ser", "de", "send_to", "recv_from", "checked_add"
    Copies     \* how many copies of a datagram the network may deliver

ASSUME CapacityAssumption == Capacity \in Nat \ {0}
ASSUME FaultsAssumption == Faults \subseteq {"ser", "de", "send_to", "recv_from", "checked_add"}
ASSUME CopiesAssumption == Copies \subseteq Nat

VARIABLES
    cfg_fn,            \* the behaviors that were spawned
    behavior,          \* behavior[id]: the events the behavior has consumed
    thread,            \* thread[id]: what the behavior thread is doing
    tx_events,         \* tx_events[id]: the channel to the thread
    tx_commands,       \* tx_commands[id]: the channel to the task
    task,              \* task[id]: what the I/O task is doing
    instants,          \* instants[id]: the deadlines the task has an instant of
    pending,           \* pending[id]: those whose instant is in the future
    next_deadline_id,  \* next_deadline_id[id]
    socket,            \* socket[id]: the datagrams under way to the actor
    sent,              \* sent[id]: the datagrams the actor has sent
    join,              \* where join is, or what it returned
    count              \* the behavior threads that were joined

threads == <<behavior, thread>>
timers == <<instants, pending, next_deadline_id>>
network == <<socket, sent>>
joining == <<join, count>>
vars == <<cfg_fn, threads, tx_events, tx_commands, task, timers, network, joining>>

-----------------------------------------------------------------------------

AwaitCommand     == [state |-> "command"]
Receiving        == [state |-> "receiving"]
Sleeping(d)      == [state |-> "sleeping", deadline |-> d]
Answering(event) == [state |-> "answering", event |-> event]
Returned         == [state |-> "returned"]
TaskPanicked     == [state |-> "panicked"]

ThreadEnded(id) == thread[id] \in {"returned", "panicked"}
TaskEnded(id)   == task[id] \in {Returned, TaskPanicked}

Become(id, state) == task' = [task EXCEPT ![id] = state]

\* spawn: the socket is bound and SpawnOk sent before thread and task start.
Init ==
    /\ cfg_fn \in Program
    /\ behavior = [id \in Id |-> << >>]
    /\ thread = [id \in Id |-> "waiting"]
    /\ tx_events = [id \in Id |-> <<SpawnOk(id)>>]
    /\ tx_commands = [id \in Id |-> << >>]
    /\ task = [id \in Id |-> AwaitCommand]
    /\ instants = [id \in Id |-> {}]
    /\ pending = [id \in Id |-> {}]
    /\ next_deadline_id = [id \in Id |-> 0]
    /\ socket = [id \in Id |-> {}]
    /\ sent = [id \in Id |-> 0]
    /\ join = "tasks"
    /\ count = 0

-----------------------------------------------------------------------------
(* The behavior thread                                                     *)

\* rx_events.blocking_recv().
TakeEvent(id) ==
    /\ thread[id] = "waiting"
    /\ tx_events[id] # << >>
    /\ behavior' = [behavior EXCEPT ![id] = Append(@, Head(tx_events[id]))]
    /\ tx_events' = [tx_events EXCEPT ![id] = Tail(@)]
    /\ thread' = [thread EXCEPT ![id] = "stepping"]
    /\ UNCHANGED <<cfg_fn, tx_commands, task, timers, network, joining>>

\* Mutant: the thread does not leave its loop.
EventsNeverClosedMutant(id) == FALSE /\ UNCHANGED vars

\* ... which answers None once the task has ended.
EventsClosed(id) ==
    /\ thread[id] = "waiting"
    /\ tx_events[id] = << >>
    /\ TaskEnded(id)
    /\ thread' = [thread EXCEPT ![id] = "returned"]
    /\ UNCHANGED <<cfg_fn, behavior, tx_events, tx_commands, task, timers, network, joining>>

\* behavior.step(event), and the command is sent unless nobody takes it.
StepBehavior(id) ==
    /\ thread[id] = "stepping"
    /\ LET command == Behave(cfg_fn, id, behavior[id])
       IN  IF command \notin Command
           THEN thread' = [thread EXCEPT ![id] = "panicked"] /\ UNCHANGED tx_commands
           ELSE IF TaskEnded(id)
           THEN thread' = [thread EXCEPT ![id] = "returned"] /\ UNCHANGED tx_commands
           ELSE /\ Len(tx_commands[id]) < Capacity
                /\ tx_commands' = [tx_commands EXCEPT ![id] = Append(@, command)]
                /\ thread' = [thread EXCEPT ![id] = "waiting"]
    /\ UNCHANGED <<cfg_fn, behavior, tx_events, task, timers, network, joining>>

BehaviorThread(id) == TakeEvent(id) \/ EventsClosed(id) \/ StepBehavior(id)

-----------------------------------------------------------------------------
(* The I/O task                                                            *)

\* is_elapsed: an id without an instant has elapsed.
IsElapsed(id, deadline) == deadline \notin pending[id]

\* The deadline is looked at first, then the elapsed ones are swept; some may
\* have passed in between.
AnswerDeadlineElapsed(id, deadline) ==
    \E late \in SUBSET pending[id] :
        /\ pending' = [pending EXCEPT ![id] = @ \ late]
        /\ instants' = [instants EXCEPT ![id] = pending'[id]]
        /\ Become(id, Answering(DeadlineElapsedOk(IsElapsed(id, deadline))))
        /\ UNCHANGED <<next_deadline_id, network>>

\* Mutant: the id is not incremented.
CreateDeadlineSameIdMutant(id) ==
    /\ instants' = [instants EXCEPT ![id] = @ \cup {next_deadline_id[id]}]
    /\ pending' = [pending EXCEPT ![id] = @ \cup {next_deadline_id[id]}]
    /\ Become(id, Answering(DeadlineOk(next_deadline_id[id])))
    /\ UNCHANGED <<next_deadline_id, network>>

CreateDeadline(id) ==
    /\ instants' = [instants EXCEPT ![id] = @ \cup {next_deadline_id[id]}]
    /\ pending' = [pending EXCEPT ![id] = @ \cup {next_deadline_id[id]}]
    /\ next_deadline_id' = [next_deadline_id EXCEPT ![id] = @ + 1]
    /\ Become(id, Answering(DeadlineOk(next_deadline_id[id])))
    /\ UNCHANGED network

\* socket.send_to: none, one or several copies arrive, some time.
Write(id, dst, msg) ==
    /\ \E copies \in Copies :
          socket' = [socket EXCEPT ![dst] = @ \cup
                        {[src |-> id, number |-> sent[id], copy |-> c, msg |-> msg] :
                            c \in 1 .. copies}]
    /\ sent' = [sent EXCEPT ![id] = @ + 1]
    /\ Become(id, Answering(SendOk))

\* The three outcomes of a Send; a failing send_to is not answered.
Transmit(id, dst, msg) ==
    /\ \/ Write(id, dst, msg)
       \/ "ser" \in Faults /\ Become(id, Answering(SendOk)) /\ UNCHANGED network
       \/ "send_to" \in Faults /\ Become(id, AwaitCommand) /\ UNCHANGED network
    /\ UNCHANGED timers

\* rx_commands.recv().await, and the match on the command.
TakeCommand(id) ==
    /\ task[id] = AwaitCommand
    /\ tx_commands[id] # << >>
    /\ tx_commands' = [tx_commands EXCEPT ![id] = Tail(@)]
    /\ LET command == Head(tx_commands[id])
       IN  \/ command.type = "Deadline" /\ CreateDeadline(id)
           \/ command.type = "DeadlineElapsed" /\ AnswerDeadlineElapsed(id, command.deadline)
           \/ command.type = "Send" /\ Transmit(id, command.dst, command.msg)
           \/ /\ \/ command.type = "Exit" /\ Become(id, Returned)
                 \/ command.type = "Panic" /\ Become(id, TaskPanicked)
                 \/ command.type = "Deadline" /\ "checked_add" \in Faults /\ Become(id, TaskPanicked)
                 \/ command.type = "Expect" /\ Become(id, Answering(ExpectOk(command.description)))
                 \/ command.type = "ExpectationMet" /\ Become(id, Answering(ExpectationMetOk))
                 \/ command.type = "Recv" /\ Become(id, Receiving)
                 \/ command.type = "SleepUntil" /\
                        Become(id, IF command.deadline \in instants[id]
                                   THEN Sleeping(command.deadline) ELSE Answering(SleepUntilOk))
              /\ UNCHANGED <<timers, network>>
    /\ UNCHANGED <<cfg_fn, threads, tx_events, joining>>

\* Mutant: the channel is polled, and the task ends when it is empty.
CommandsClosedEarlyMutant(id) ==
    /\ task[id] = AwaitCommand
    /\ tx_commands[id] = << >>
    /\ Become(id, Returned)
    /\ UNCHANGED <<cfg_fn, threads, tx_events, tx_commands, timers, network, joining>>

\* ... which answers None once the thread has ended.
CommandsClosed(id) ==
    /\ task[id] = AwaitCommand
    /\ tx_commands[id] = << >>
    /\ ThreadEnded(id)
    /\ Become(id, Returned)
    /\ UNCHANGED <<cfg_fn, threads, tx_events, tx_commands, timers, network, joining>>

\* socket.recv_from(..).await, again when the datagram is not a message.
Receive(id) ==
    /\ task[id] = Receiving
    /\ \E datagram \in socket[id] :
          /\ socket' = [socket EXCEPT ![id] = @ \ {datagram}]
          /\ \/ Become(id, Answering(RecvOk(datagram.src, datagram.msg)))
             \/ "de" \in Faults /\ UNCHANGED task
    /\ UNCHANGED <<cfg_fn, threads, tx_events, tx_commands, timers, sent, joining>>

ReceiveFails(id) ==
    /\ task[id] = Receiving
    /\ "recv_from" \in Faults
    /\ Become(id, TaskPanicked)
    /\ UNCHANGED <<cfg_fn, threads, tx_events, tx_commands, timers, network, joining>>

\* Mutant: the end of the sleep is told as the answer to a query.
WakeAsElapsedMutant(id) ==
    /\ task[id].state = "sleeping"
    /\ IsElapsed(id, task[id].deadline)
    /\ Become(id, Answering(DeadlineElapsedOk(TRUE)))
    /\ UNCHANGED <<cfg_fn, threads, tx_events, tx_commands, timers, network, joining>>

\* sleep_until(..).await is over.
Wake(id) ==
    /\ task[id].state = "sleeping"
    /\ IsElapsed(id, task[id].deadline)
    /\ Become(id, Answering(SleepUntilOk))
    /\ UNCHANGED <<cfg_fn, threads, tx_events, tx_commands, timers, network, joining>>

\* tx_events.send(next_event).await.
SendEvent(id) ==
    /\ task[id].state = "answering"
    /\ IF ThreadEnded(id)
       THEN Become(id, Returned) /\ UNCHANGED tx_events
       ELSE /\ Len(tx_events[id]) < Capacity
            /\ tx_events' = [tx_events EXCEPT ![id] = Append(@, task[id].event)]
            /\ Become(id, AwaitCommand)
    /\ UNCHANGED <<cfg_fn, threads, tx_commands, timers, network, joining>>

IoTask(id) == TakeCommand(id) \/ CommandsClosed(id) \/ Receive(id) \/ Wake(id) \/ SendEvent(id)

\* The system clock passes the instant of a deadline.
TimePasses(id) ==
    /\ \E deadline \in pending[id] :
          pending' = [pending EXCEPT ![id] = @ \ {deadline}]
    /\ UNCHANGED <<cfg_fn, threads, tx_events, tx_commands, task, instants, next_deadline_id,
                   network, joining>>

-----------------------------------------------------------------------------
(* join: all tasks first, then the threads in the order they were spawned  *)

\* Mutant: the results of the tasks are ignored.
JoinTasksIgnoredMutant ==
    /\ join = "tasks"
    /\ \A id \in Id : TaskEnded(id)
    /\ join' = "threads"
    /\ UNCHANGED <<cfg_fn, threads, tx_events, tx_commands, task, timers, network, count>>

JoinTasks ==
    /\ join = "tasks"
    /\ \A id \in Id : TaskEnded(id)
    /\ join' = IF \E id \in Id : task[id] = TaskPanicked THEN "unwound" ELSE "threads"
    /\ UNCHANGED <<cfg_fn, threads, tx_events, tx_commands, task, timers, network, count>>

JoinThread ==
    /\ join = "threads"
    /\ count < N
    /\ ThreadEnded(count + 1)
    /\ IF thread[count + 1] = "panicked"
       THEN join' = "err" /\ UNCHANGED count
       ELSE /\ count' = count + 1
            /\ join' = IF count' = N THEN "ok" ELSE "threads"
    /\ UNCHANGED <<cfg_fn, threads, tx_events, tx_commands, task, timers, network>>

Join == JoinTasks \/ JoinThread

Next ==
    \/ \E id \in Id : BehaviorThread(id) \/ IoTask(id) \/ ReceiveFails(id) \/ TimePasses(id)
    \/ Join

Spec == Init /\ [][Next]_vars

\* Threads and tasks are scheduled, time passes; a socket need not fail.
FairSpec ==
    /\ Spec
    /\ \A id \in Id : WF_vars(BehaviorThread(id)) /\ WF_vars(IoTask(id)) /\ WF_vars(TimePasses(id))
    /\ WF_vars(Join)

-----------------------------------------------------------------------------

Datagram == [src : Id, number : Nat, copy : Nat, msg : Message]

TaskState ==
    {AwaitCommand, Receiving, Returned, TaskPanicked}
        \cup [state : {"sleeping"}, deadline : Nat] \cup [state : {"answering"}, event : Event]

\* The type invariant of the runtime.
TypeOK ==
    /\ cfg_fn \in Program
    /\ behavior \in [Id -> Seq(Event)]
    /\ thread \in [Id -> {"waiting", "stepping", "returned", "panicked"}]
    /\ tx_events \in [Id -> Seq(Event)]
    /\ tx_commands \in [Id -> Seq(Command)]
    /\ task \in [Id -> TaskState]
    /\ next_deadline_id \in [Id -> Nat]
    /\ instants \in [Id -> SUBSET Nat]
    /\ pending \in [Id -> SUBSET Nat]
    /\ \A id \in Id : pending[id] \subseteq instants[id]
    /\ \A id \in Id : instants[id] \subseteq 0 .. next_deadline_id[id] - 1
    /\ socket \in [Id -> SUBSET Datagram]
    /\ sent \in [Id -> Nat]
    /\ join \in {"tasks", "threads", "ok", "err", "unwound"}
    /\ count \in 0 .. N

Working == {"receiving", "sleeping", "answering"}

(***************************************************************************)
(* The thread and the task of an actor take turns: there is never more     *)
(* than one event or command between them, so a channel of capacity one    *)
(* would do, neither ever blocks the other on a full channel, and neither  *)
(* finds the other gone when it has something to send (the two is_err      *)
(* branches are for shutdown only, and shutdown does not reach them).      *)
(***************************************************************************)
TakeTurns ==
    \A id \in Id :
        /\ Len(tx_events[id]) + Len(tx_commands[id])
             + (IF thread[id] = "stepping" THEN 1 ELSE 0)
             + (IF task[id].state \in Working THEN 1 ELSE 0) <= 1
        /\ thread[id] = "stepping" => ~TaskEnded(id)
        /\ task[id].state = "answering" => ~ThreadEnded(id)

\* The abstract runtime, of which only the behaviors are seen.
Abstract == INSTANCE Runtime

(***************************************************************************)
(* The UDP runtime implements the abstract runtime: every event a behavior *)
(* gets answers its last command, so the Sdk's `_ => unreachable!()` arms  *)
(* are; deadlines stay apart and elapsed; no message is made up.  No       *)
(* answer is lost, late, doubled or swapped with another one, whatever the *)
(* socket, the clock and the two channels do in between.                   *)
(***************************************************************************)
ImplementsRuntime == Abstract!Spec

(***************************************************************************)
(* join tells of every panic, in a behavior or in its I/O task: it unwinds *)
(* or returns an error if there was one, and returns the number of actors  *)
(* only when all of them ran to their end ("This code guards against that  *)
(* by blocking on completion and propagating the panic", udp.rs:51-52).    *)
(***************************************************************************)
PanicsArePropagated ==
    /\ join \in {"ok", "err"} => \A id \in Id : task[id] = Returned
    /\ join = "ok" => count = N /\ \A id \in Id : thread[id] = "returned"
    /\ join = "err" => \E id \in Id : thread[id] = "panicked"
    /\ join = "unwound" => \E id \in Id : task[id] = TaskPanicked

Unanswered(id) ==
    /\ thread[id] = "waiting"
    /\ behavior[id] # << >>
    /\ tx_events[id] = << >>
    /\ Behave(cfg_fn, id, behavior[id]).type = "Send"

(***************************************************************************)
(* join returns, unless some actor waits for ever for a message, or for    *)
(* the answer to a Send: shutdown goes from the side that ends to the      *)
(* other one of every actor, and a panic does not leave its peer waiting.  *)
(***************************************************************************)
JoinReturns ==
    (\A id \in Id : []<>(task[id] # Receiving /\ ~Unanswered(id)))
        => <>(join \in {"ok", "err", "unwound"})

(***************************************************************************)
(* A behavior that sends goes on, also when the datagram could not be      *)
(* written: "Unable to write socket. Ignoring." (udp.rs:216).              *)
(***************************************************************************)
SendReturns == \A id \in Id : Unanswered(id) ~> ~Unanswered(id)

=============================================================================
