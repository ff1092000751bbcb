----------------------------- MODULE ActorSystem -----------------------------
(***************************************************************************)
(* The actors a verifier executes (crates/fibril_verifier/src/verifier.rs):*)
(* what one call of Verifier::step does to them, and which steps they      *)
(* offer.  Any enabled step may be taken next, as an operator does in      *)
(* interactive mode; the Verifier module restricts this freedom to the     *)
(* schedule that Verifier::run follows.                                    *)
(***************************************************************************)
EXTENDS FibrilCore, VClock, TimeContext, Subsequences

\* The command of a record whose step has not answered.
Placeholder == [type |-> "Panic"]

-----------------------------------------------------------------------------

VARIABLES
    cfg_fn,          \* the configuration that is being verified
    behavior,        \* behavior[id]: the events the behavior has consumed
    clock,           \* clock[id]: the actor's vector clock
    enabled_events,  \* enabled_events[id]: the EnabledEventIterator
    expectation,     \* expectation[id]: the unmet expectation, a set of <= 1
    inbox_by_src,    \* inbox_by_src[id][src]: queue of messages and clocks
    time_context,    \* time_context[id]: the actor's TimeContext
    trace_records,   \* the steps of the current trace
    panicked         \* what unwound the current trace

actors == <<behavior, clock, enabled_events, expectation, inbox_by_src, time_context>>
actor_vars == <<cfg_fn, actors, trace_records, panicked>>

-----------------------------------------------------------------------------
(* EnabledEventIterator                                                    *)

Deterministic(option)        == [kind |-> "Deterministic", option |-> option]
DeadlineElapsedIs(remaining) == [kind |-> "DeadlineElapsed", remaining |-> remaining]
Receiving                    == [kind |-> "Recv"]

Iterator ==
    [kind : {"Deterministic"}, option : SUBSET Event]
        \cup [kind : {"DeadlineElapsed"}, remaining : SUBSET BOOLEAN]
        \cup [kind : {"Recv"}]

Pending(event, event_clock) == [event |-> event, event_clock |-> event_clock]

(***************************************************************************)
(* What the actor can be stepped with: for a receive, the first message of *)
(* every nonempty inbox.                                                   *)
(***************************************************************************)
EnabledEvents(id) ==
    LET iterator == enabled_events[id]
        inboxes  == inbox_by_src[id]
    IN  CASE iterator.kind = "Deterministic" ->
               {Pending(event, New) : event \in iterator.option}
          [] iterator.kind = "DeadlineElapsed" ->
               {Pending(DeadlineElapsedOk(bool), New) : bool \in iterator.remaining}
          [] iterator.kind = "Recv" ->
               {Pending(RecvOk(src, Head(inboxes[src]).msg), Head(inboxes[src]).clock) :
                    src \in {s \in Id : inboxes[s] # << >>}}

Quiescent == \A id \in Id : EnabledEvents(id) = {}

-----------------------------------------------------------------------------
(* create_actors and reset_actors                                          *)

\* Mutant: the index of the next actor is spawned.
SpawnedNextMutant(id) == Deterministic({SpawnOk(id + 1)})

Spawned(id) == Deterministic({SpawnOk(id)})

ActorInit ==
    /\ cfg_fn \in Program
    /\ behavior = [id \in Id |-> << >>]
    /\ clock = [id \in Id |-> NewWithLen(N)]
    /\ enabled_events = [id \in Id |-> Spawned(id)]
    /\ expectation = [id \in Id |-> {}]
    /\ inbox_by_src = [id \in Id |-> [src \in Id |-> << >>]]
    /\ time_context = [id \in Id |-> EmptyContext]
    /\ trace_records = << >>
    /\ panicked = "None"

\* A new trace: run clears the records, reset_actors everything but the trees.
ResetActors ==
    /\ behavior' = [id \in Id |-> << >>]
    /\ clock' = [id \in Id |-> Reset(clock[id])]
    /\ enabled_events' = [id \in Id |-> Spawned(id)]
    /\ expectation' = [id \in Id |-> {}]
    /\ inbox_by_src' = [id \in Id |-> [src \in Id |-> << >>]]
    /\ time_context' = [id \in Id |-> EmptyContext]
    /\ trace_records' = << >>
    /\ panicked' = "None"
    /\ UNCHANGED cfg_fn

-----------------------------------------------------------------------------
(* Verifier::step                                                          *)

\* The latest deadline query of the actor in the trace: a set of at most one.
LastQuery(id) ==
    LET queries == {k \in DOMAIN trace_records :
                        /\ trace_records[k].id = id
                        /\ trace_records[k].command.type = "DeadlineElapsed"}
    IN  {trace_records[k].command.deadline :
            k \in {q \in queries : \A r \in queries : r <= q}}

(***************************************************************************)
(* What the step asserts of a recorded event before it is delivered: the   *)
(* message is still at the head of its queue with the recorded clock, and  *)
(* an elapsed deadline has been asked about.                               *)
(***************************************************************************)
Refusal(id, event, event_clock) ==
    IF event.type = "RecvOk"
    THEN LET inbox == inbox_by_src[id][event.src]
         IN  CASE inbox = << >> -> "Inbox empty"
               [] inbox # << >> /\ Head(inbox).msg # event.msg -> "Unexpected nondeterminism"
               [] inbox # << >> /\ Head(inbox).msg = event.msg
                    /\ Head(inbox).clock # event_clock -> "Clock mismatch"
               [] OTHER -> "None"
    ELSE IF event = DeadlineElapsedOk(TRUE) /\ LastQuery(id) = {}
    THEN "Unable to find expected preceding command"
    ELSE "None"

RefusalReason == {"Inbox empty", "Unexpected nondeterminism", "Clock mismatch",
                  "Unable to find expected preceding command"}

\* Mutant: the event's clock is not merged in.
TickUnmergedMutant(id, event_clock) == Increment(clock[id], id)

Tick(id, event_clock) == MergeIn(Increment(clock[id], id), event_clock)

\* Mutant: pop_back instead of pop_front.
PopInboxBackMutant(id, event) ==
    IF event.type = "RecvOk" /\ inbox_by_src[id][event.src] # << >>
    THEN [inbox_by_src EXCEPT ![id][event.src] = SubSeq(@, 1, Len(@) - 1)]
    ELSE inbox_by_src

PopInbox(id, event) ==
    IF event.type = "RecvOk" /\ inbox_by_src[id][event.src] # << >>
    THEN [inbox_by_src EXCEPT ![id][event.src] = Tail(@)]
    ELSE inbox_by_src

\* Mutant: the deadline stays pending.
TimeAfterForgottenMutant(id, event) == time_context[id]

\* The actor's TimeContext once the event is delivered.
TimeAfter(id, event) ==
    IF event = DeadlineElapsedOk(TRUE)
    THEN DeadlineElapsed(time_context[id], CHOOSE deadline \in LastQuery(id) : TRUE)
    ELSE time_context[id]

Await(id, iterator) == enabled_events' = [enabled_events EXCEPT ![id] = iterator]

(***************************************************************************)
(* The match on the command, after the event was delivered: inboxes is     *)
(* what remains of the inboxes, tc the actor's TimeContext.                *)
(***************************************************************************)
Perform(id, command, inboxes, tc, new_clock) ==
    \/ /\ command.type = "Deadline"
       /\ Await(id, Deterministic({DeadlineOk(tc.next_new_deadline)}))
       /\ time_context' = [time_context EXCEPT ![id] = NewDeadline(tc, command.duration)]
       /\ inbox_by_src' = inboxes
       /\ UNCHANGED expectation
    \/ /\ command.type = "Send"
       /\ Await(id, Deterministic({SendOk}))
       /\ time_context' = [time_context EXCEPT ![id] = tc]
       /\ inbox_by_src' = [inboxes EXCEPT ![command.dst][id] =
                             Append(@, [msg |-> command.msg, clock |-> new_clock])]
       /\ UNCHANGED expectation
    \/ /\ \/ /\ command.type = "DeadlineElapsed"
             /\ Await(id, DeadlineElapsedIs(Possibilities(tc, command.deadline)))
             /\ UNCHANGED expectation
          \/ /\ command.type \in {"Exit", "Panic"}
             /\ Await(id, Deterministic({}))
             /\ UNCHANGED expectation
          \/ /\ command.type = "Expect"
             /\ expectation' = [expectation EXCEPT ![id] = {command.description}]
             /\ Await(id, Deterministic({ExpectOk(command.description)}))
          \/ /\ command.type = "ExpectationMet"
             /\ expectation' = [expectation EXCEPT ![id] = {}]
             /\ Await(id, Deterministic({ExpectationMetOk}))
          \/ /\ command.type = "Recv"
             /\ Await(id, Receiving)
             /\ UNCHANGED expectation
          \/ /\ command.type = "SleepUntil"
             /\ Await(id, Deterministic({SleepUntilOk}))
             /\ UNCHANGED expectation
       /\ time_context' = [time_context EXCEPT ![id] = tc]
       /\ inbox_by_src' = inboxes

\* Why the step unwinds although its event was delivered.
Unwinding(id, command) ==
    CASE command \notin Command -> "Behavior"
      [] command \in Command /\ command.type = "Expect" /\ expectation[id] # {} ->
            "Expectation already exists"
      [] command \in Command /\ command.type = "ExpectationMet" /\ expectation[id] = {} ->
            "Expectation does not exist"
      [] OTHER -> "None"

CommandFor(id, event) == Behave(cfg_fn, id, Append(behavior[id], event))

\* What the step adds to the trace; the placeholder stays when it unwinds.
NewRecord(id, event, event_clock) ==
    [id |-> id, event |-> event, event_clock |-> event_clock,
     command |-> IF Unwinding(id, CommandFor(id, event)) = "None"
                 THEN CommandFor(id, event) ELSE Placeholder,
     clock |-> Tick(id, event_clock)]

\* The event is not what the actors offer.
Refuse(id, event, event_clock) ==
    /\ panicked' = Refusal(id, event, event_clock)
    /\ inbox_by_src' = PopInbox(id, event)
    /\ UNCHANGED <<behavior, enabled_events, expectation, time_context>>

Deliver(id, event, event_clock) ==
    LET command == CommandFor(id, event)
        inboxes == PopInbox(id, event)
        tc      == TimeAfter(id, event)
    IN  /\ behavior' = [behavior EXCEPT ![id] = Append(@, event)]
        /\ panicked' = Unwinding(id, command)
        /\ IF panicked' = "None"
           THEN Perform(id, command, inboxes, tc, Tick(id, event_clock))
           ELSE /\ inbox_by_src' = inboxes
                /\ time_context' = [time_context EXCEPT ![id] = tc]
                /\ UNCHANGED <<enabled_events, expectation>>

\* The step as the actors see it ...
Advance(id, event, event_clock) ==
    /\ clock' = [clock EXCEPT ![id] = Tick(id, event_clock)]
    /\ IF Refusal(id, event, event_clock) = "None"
       THEN Deliver(id, event, event_clock)
       ELSE Refuse(id, event, event_clock)
    /\ UNCHANGED cfg_fn

\* ... and as the trace records it.
Step(id, event, event_clock) ==
    /\ Advance(id, event, event_clock)
    /\ trace_records' = IF Refusal(id, event, event_clock) = "None"
                        THEN Append(trace_records, NewRecord(id, event, event_clock))
                        ELSE trace_records

-----------------------------------------------------------------------------

\* Any actor takes any step it offers; a panic ends the trace.
Schedule ==
    /\ panicked = "None"
    /\ \E id \in Id : \E pending \in EnabledEvents(id) :
            Step(id, pending.event, pending.event_clock)

ActorNext == Schedule \/ ResetActors

ActorSpec == ActorInit /\ [][ActorNext]_actor_vars

-----------------------------------------------------------------------------

QueuedMessage == [msg : Message, clock : Clock]

TraceRecord == [id : Id, event : Event, event_clock : Clock,
                command : Command \cup {Placeholder}, clock : Clock]

IsContext(tc) ==
    /\ tc = [next_new_deadline |-> tc.next_new_deadline,
             pending_deadlines |-> tc.pending_deadlines]
    /\ tc.next_new_deadline \in Nat
    /\ tc.pending_deadlines \in [DOMAIN tc.pending_deadlines -> Duration]
    /\ DOMAIN tc.pending_deadlines \subseteq 0 .. tc.next_new_deadline - 1

\* The type invariant of the actors.
ActorTypeOK ==
    /\ cfg_fn \in Program
    /\ behavior \in [Id -> Seq(Event)]
    /\ clock \in [Id -> Clock]
    /\ enabled_events \in [Id -> Iterator]
    /\ expectation \in [Id -> SUBSET Description]
    /\ inbox_by_src \in [Id -> [Id -> Seq(QueuedMessage)]]
    /\ DOMAIN time_context = Id /\ \A id \in Id : IsContext(time_context[id])
    /\ trace_records \in Seq(TraceRecord)
    /\ panicked \in {"None", "Behavior", "Expectation already exists",
                     "Expectation does not exist"} \cup RefusalReason

-----------------------------------------------------------------------------

Received(r, src) == r.event.type = "RecvOk" /\ r.event.src = src

Sent(r, dst) == r.command.type = "Send" /\ r.command.dst = dst

(***************************************************************************)
(* The vector clocks order the steps of a trace causally: a step is before *)
(* another in clock order exactly when the later one's clock has counted   *)
(* it, and no step is before one that was taken earlier.  This is what the *)
(* verifier's two clock comparisons assume.                                *)
(***************************************************************************)
CausalClocks ==
    \A k, l \in DOMAIN trace_records :
        LET rk == trace_records[k]
            rl == trace_records[l]
        IN  /\ At(rk.clock, rk.id) <= At(rl.clock, rk.id) => Leq(rk.clock, rl.clock)
            /\ k < l => ~Leq(rl.clock, rk.clock)

\* The places of the trace where src sends to dst.
Sends(src, dst) ==
    {k \in DOMAIN trace_records : trace_records[k].id = src /\ Sent(trace_records[k], dst)}

\* The places of the trace where dst receives from src.
Receives(src, dst) ==
    {k \in DOMAIN trace_records : trace_records[k].id = dst /\ Received(trace_records[k], src)}

\* The steps of the trace that the k-th step follows from directly.
DirectCauses(k) ==
    LET id  == trace_records[k].id
        src == trace_records[k].event.src
    IN  {l \in 1 .. k - 1 : trace_records[l].id = id}
            \cup IF trace_records[k].event.type # "RecvOk" THEN {}
                 ELSE {l \in Sends(src, id) :
                         l < k /\ CountUpTo(Sends(src, id), l) = CountUpTo(Receives(src, id), k)}

(***************************************************************************)
(* Clock order is the happens-before order of the trace, defined without   *)
(* clocks: program order, and the n-th send from one actor to another      *)
(* before the n-th receive.                                                *)
(***************************************************************************)
ClockOrderIsHappensBefore ==
    LET past[k \in DOMAIN trace_records] ==
            {k} \cup UNION {past[l] : l \in DirectCauses(k)}
    IN  \A k, l \in DOMAIN trace_records :
            Leq(trace_records[l].clock, trace_records[k].clock) <=> l \in past[k]

(***************************************************************************)
(* Between two actors no message is lost, duplicated or overtaken: what    *)
(* one sent is what the other received followed by what is still queued.   *)
(***************************************************************************)
MessagesAreConserved ==
    \A src, dst \in Id :
        LET sends    == Subsequence(trace_records, Sends(src, dst))
            receives == Subsequence(trace_records, Receives(src, dst))
            queue    == inbox_by_src[dst][src]
        IN  [k \in DOMAIN sends |-> sends[k].command.msg] =
                [k \in DOMAIN receives |-> receives[k].event.msg]
                    \o [k \in DOMAIN queue |-> queue[k].msg]

-----------------------------------------------------------------------------

\* The abstract runtime, of which only the behaviors are seen.
Abstract == INSTANCE Runtime

(***************************************************************************)
(* The verifier's actors implement the same abstract runtime as the UDP    *)
(* runtime does, restarts apart: a behavior cannot tell from any single    *)
(* answer that it is verified and not run.  Iterators, inboxes and time    *)
(* contexts only ever offer an answer to the last command, an elapsed      *)
(* deadline stays elapsed, and a message in an inbox was sent in this very *)
(* trace, after any number of resets.                                      *)
(***************************************************************************)
ImplementsRuntime == Abstract!RestartingSpec

=============================================================================
