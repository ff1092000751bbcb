-------------------------- MODULE ActorSystemProofs --------------------------
(***************************************************************************)
(* For any number of actors running any behaviors, in every schedule and   *)
(* after any number of resets: the state stays well typed, vector clocks   *)
(* order the steps of a trace causally, as Verifier's race detection       *)
(* assumes, and the actors implement the same abstract runtime as the UDP  *)
(* runtime does.  No message between two actors is lost, duplicated or     *)
(* overtaken, and clock order is the happens-before order of the trace.    *)
(* And an actor is a machine of its own: what it has become is a function  *)
(* of its own steps, so a trace is a run of such machines, some steps of   *)
(* which can be taken again.                                               *)
(***************************************************************************)
EXTENDS ActorSystem, DataLemmas

-----------------------------------------------------------------------------
(* Types                                                                   *)

\* The fields of an event and of a command, by its type.
LEMMA EventFields ==
    ASSUME NEW event \in Event
    PROVE  event.type = "RecvOk" => event.src \in Id
BY DEF Event

\* The fields that a command has, by its type.
LEMMA CommandFields ==
    ASSUME NEW command \in Command
    PROVE  /\ command.type = "Deadline" => command.duration \in Duration
           /\ command.type = "Expect" => command.description \in Description
           /\ command.type = "Send" => command.dst \in Id /\ command.msg \in Message
BY DEF Command

\* The events that the answers to commands are made of.
LEMMA EventTypes ==
    /\ \A id \in Id : SpawnOk(id) \in Event
    /\ \A src \in Id, msg \in Message : RecvOk(src, msg) \in Event
    /\ \A deadline \in Nat : DeadlineOk(deadline) \in Event
    /\ \A bool \in BOOLEAN : DeadlineElapsedOk(bool) \in Event
    /\ \A description \in Description : ExpectOk(description) \in Event
    /\ ExpectationMetOk \in Event /\ SendOk \in Event /\ SleepUntilOk \in Event
BY DEF Event, SpawnOk, RecvOk, DeadlineOk, DeadlineElapsedOk, ExpectOk, ExpectationMetOk,
       SendOk, SleepUntilOk

\* An actor awaits its answers with one of the three iterators.
LEMMA IteratorTypes ==
    /\ \A option \in SUBSET Event : Deterministic(option) \in Iterator
    /\ \A remaining \in SUBSET BOOLEAN : DeadlineElapsedIs(remaining) \in Iterator
    /\ Receiving \in Iterator
BY DEF Iterator, Deterministic, DeadlineElapsedIs, Receiving

\* What an actor offers is an event, with the empty clock or that of the
\* message it receives.
LEMMA OffersAreTyped ==
    ASSUME ActorTypeOK, NEW id \in Id, NEW pending \in EnabledEvents(id)
    PROVE  /\ pending.event \in Event
           /\ pending.event_clock \in Clock
           /\ \/ pending.event_clock = New
              \/ \E src \in Id : /\ inbox_by_src[id][src] # << >>
                                 /\ pending.event_clock = Head(inbox_by_src[id][src]).clock
<1>. DEFINE iterator == enabled_events[id]
<1>1. iterator \in Iterator
  BY DEF ActorTypeOK
<1>5. New \in Clock
  BY DEF New, Clock
<1>2. CASE iterator.kind = "Deterministic"
  <2>1. iterator.option \in SUBSET Event
    BY <1>1, <1>2 DEF Iterator
  <2>. QED  BY <1>1, <1>5, <1>2, <2>1 DEF EnabledEvents, Pending
<1>3. CASE iterator.kind = "DeadlineElapsed"
  <2>1. iterator.remaining \in SUBSET BOOLEAN
    BY <1>1, <1>3 DEF Iterator
  <2>. QED  BY <1>1, <1>5, <1>3, <2>1, EventTypes DEF EnabledEvents, Pending
<1>4. CASE iterator.kind = "Recv"
  <2>1. PICK src \in Id :
            /\ inbox_by_src[id][src] # << >>
            /\ pending = Pending(RecvOk(src, Head(inbox_by_src[id][src]).msg),
                                 Head(inbox_by_src[id][src]).clock)
    BY <1>4 DEF EnabledEvents
  <2>3. inbox_by_src[id][src] \in Seq(QueuedMessage)
    BY DEF ActorTypeOK
  <2>2. Head(inbox_by_src[id][src]) \in QueuedMessage
    BY <2>1, <2>3
  <2>. QED  BY <2>1, <2>2, EventTypes DEF QueuedMessage, Pending
<1>. QED  BY <1>1, <1>2, <1>3, <1>4 DEF Iterator

\* TimeContext keeps its deadlines below the next one to be created.
LEMMA ContextTypes ==
    ASSUME NEW tc, IsContext(tc)
    PROVE  /\ \A duration \in Duration : IsContext(NewDeadline(tc, duration))
           /\ \A deadline : IsContext(DeadlineElapsed(tc, deadline))
           /\ \A deadline : Possibilities(tc, deadline) \in SUBSET BOOLEAN
<1>1. ASSUME NEW duration \in Duration
      PROVE  IsContext(NewDeadline(tc, duration))
  BY DEF IsContext, NewDeadline
<1>2. ASSUME NEW deadline
      PROVE  IsContext(DeadlineElapsed(tc, deadline))
  BY DEF IsContext, DeadlineElapsed, Completed
<1>3. ASSUME NEW deadline
      PROVE  Possibilities(tc, deadline) \in SUBSET BOOLEAN
  BY DEF Possibilities
<1>. QED  BY <1>1, <1>2, <1>3

\* Delivering an event takes at most one message out of an inbox.
LEMMA PopInboxTypes ==
    ASSUME ActorTypeOK, NEW id \in Id, NEW event \in Event
    PROVE  /\ PopInbox(id, event) \in [Id -> [Id -> Seq(QueuedMessage)]]
           /\ \A dst, src \in Id :
                 \/ PopInbox(id, event)[dst][src] = inbox_by_src[dst][src]
                 \/ /\ inbox_by_src[dst][src] # << >>
                    /\ PopInbox(id, event)[dst][src] = Tail(inbox_by_src[dst][src])
<1>1. inbox_by_src \in [Id -> [Id -> Seq(QueuedMessage)]]
  BY DEF ActorTypeOK
<1>2. CASE event.type = "RecvOk" /\ inbox_by_src[id][event.src] # << >>
  <2>1. event.src \in Id
    BY <1>2, EventFields
  <2>2. Tail(inbox_by_src[id][event.src]) \in Seq(QueuedMessage)
    BY <1>1, <1>2, <2>1
  <2>. QED  BY <1>1, <1>2, <2>1, <2>2 DEF PopInbox
<1>3. CASE ~(event.type = "RecvOk" /\ inbox_by_src[id][event.src] # << >>)
  BY <1>1, <1>3 DEF PopInbox
<1>. QED  BY <1>2, <1>3

\* The clock of the step.
LEMMA TickTypes ==
    ASSUME ActorTypeOK, NEW id \in Id, NEW event_clock \in Clock
    PROVE  Tick(id, event_clock) \in Clock
<1>1. clock[id] \in Clock
  BY DEF ActorTypeOK
<1>2. id \in Pos
  BY NAssumption DEF Id, Pos
<1>3. Increment(clock[id], id) \in Clock
  BY <1>1, <1>2, AtIncrement
<1>. QED  BY <1>3, AtMergeIn DEF Tick

\* Only a command is performed.
LEMMA PerformedIsCommand ==
    ASSUME NEW id, NEW command, Unwinding(id, command) = "None"
    PROVE  command \in Command
BY DEF Unwinding

\* Carrying out a command keeps the types of what it changes.
LEMMA PerformTypes ==
    ASSUME ActorTypeOK, NEW id \in Id, NEW command \in Command,
           NEW inboxes \in [Id -> [Id -> Seq(QueuedMessage)]],
           NEW tc, IsContext(tc), NEW new_clock \in Clock,
           Perform(id, command, inboxes, tc, new_clock)
    PROVE  /\ enabled_events' \in [Id -> Iterator]
           /\ expectation' \in [Id -> SUBSET Description]
           /\ inbox_by_src' \in [Id -> [Id -> Seq(QueuedMessage)]]
           /\ DOMAIN time_context' = Id /\ \A a \in Id : IsContext(time_context'[a])
<1>. DEFINE Goal == /\ enabled_events' \in [Id -> Iterator]
                    /\ expectation' \in [Id -> SUBSET Description]
                    /\ inbox_by_src' \in [Id -> [Id -> Seq(QueuedMessage)]]
                    /\ DOMAIN time_context' = Id /\ \A a \in Id : IsContext(time_context'[a])
<1>1. /\ enabled_events \in [Id -> Iterator]
      /\ expectation \in [Id -> SUBSET Description]
      /\ DOMAIN time_context = Id /\ \A a \in Id : IsContext(time_context[a])
  BY DEF ActorTypeOK
<1>2. ASSUME NEW iterator \in Iterator, Await(id, iterator)
      PROVE  enabled_events' \in [Id -> Iterator]
  BY <1>1, <1>2 DEF Await
<1>3. ASSUME NEW new_tc, IsContext(new_tc),
             time_context' = [time_context EXCEPT ![id] = new_tc]
      PROVE  DOMAIN time_context' = Id /\ \A a \in Id : IsContext(time_context'[a])
  <2>. SUFFICES ASSUME NEW a \in Id PROVE IsContext(time_context'[a])
    BY <1>1, <1>3
  <2>1. time_context'[a] = IF a = id THEN new_tc ELSE time_context[a]
    BY <1>1, <1>3
  <2>. QED  BY <1>1, <1>3, <2>1
<1>4. CASE /\ command.type = "Deadline"
           /\ Await(id, Deterministic({DeadlineOk(tc.next_new_deadline)}))
           /\ time_context' = [time_context EXCEPT ![id] = NewDeadline(tc, command.duration)]
           /\ inbox_by_src' = inboxes
           /\ UNCHANGED expectation
  <2>1. tc.next_new_deadline \in Nat
    BY DEF IsContext
  <2>2. DeadlineOk(tc.next_new_deadline) \in Event
    BY <2>1, EventTypes
  <2>3. Deterministic({DeadlineOk(tc.next_new_deadline)}) \in Iterator
    BY <2>2, IteratorTypes
  <2>4. IsContext(NewDeadline(tc, command.duration))
    BY <1>4, CommandFields, ContextTypes
  <2>. QED  BY <1>1, <1>2, <1>3, <1>4, <2>3, <2>4
<1>5. CASE /\ command.type = "Send"
           /\ Await(id, Deterministic({SendOk}))
           /\ time_context' = [time_context EXCEPT ![id] = tc]
           /\ inbox_by_src' = [inboxes EXCEPT ![command.dst][id] =
                                 Append(@, [msg |-> command.msg, clock |-> new_clock])]
           /\ UNCHANGED expectation
  <2>1. Deterministic({SendOk}) \in Iterator
    BY EventTypes, IteratorTypes
  <2>2. command.dst \in Id /\ [msg |-> command.msg, clock |-> new_clock] \in QueuedMessage
    BY <1>5, CommandFields DEF QueuedMessage
  <2>3. inbox_by_src' \in [Id -> [Id -> Seq(QueuedMessage)]]
    BY <1>5, <2>2
  <2>. QED  BY <1>1, <1>2, <1>3, <1>5, <2>1, <2>3
<1>6. CASE /\ \/ /\ command.type = "DeadlineElapsed"
                 /\ Await(id, DeadlineElapsedIs(Possibilities(tc, command.deadline)))
                 /\ UNCHANGED expectation
              \/ /\ command.type \in {"Exit", "Panic"}
                 /\ Await(id, Deterministic({}))
                 /\ UNCHANGED expectation
              \/ /\ command.type = "Expect"
                 /\ expectation' = [expectation EXCEPT ![id] = {command.description}]
                 /\ Await(id, Deterministic({ExpectOk(command.description)}))
              \/ /\ command.type = "ExpectationMet"
                 /\ expectation' = [expectation EXCEPT ![id] = {}]
                 /\ Await(id, Deterministic({ExpectationMetOk}))
              \/ /\ command.type = "Recv"
                 /\ Await(id, Receiving)
                 /\ UNCHANGED expectation
              \/ /\ command.type = "SleepUntil"
                 /\ Await(id, Deterministic({SleepUntilOk}))
                 /\ UNCHANGED expectation
           /\ time_context' = [time_context EXCEPT ![id] = tc]
           /\ inbox_by_src' = inboxes
  <2>1. DOMAIN time_context' = Id /\ \A a \in Id : IsContext(time_context'[a])
    BY <1>3, <1>6
  <2>2. /\ DeadlineElapsedIs(Possibilities(tc, command.deadline)) \in Iterator
        /\ Deterministic({}) \in Iterator
        /\ Deterministic({ExpectationMetOk}) \in Iterator
        /\ Deterministic({SleepUntilOk}) \in Iterator
        /\ Receiving \in Iterator
    BY ContextTypes, EventTypes, IteratorTypes
  <2>3. command.type = "Expect" => Deterministic({ExpectOk(command.description)}) \in Iterator
    BY CommandFields, EventTypes, IteratorTypes
  <2>4. enabled_events' \in [Id -> Iterator]
    BY <1>2, <1>6, <2>2, <2>3
  <2>6. \/ UNCHANGED expectation
        \/ /\ command.type = "Expect"
           /\ expectation' = [expectation EXCEPT ![id] = {command.description}]
        \/ expectation' = [expectation EXCEPT ![id] = {}]
    BY <1>6
  <2>7. command.type = "Expect" => {command.description} \in SUBSET Description
    BY CommandFields
  <2>5. expectation' \in [Id -> SUBSET Description]
    BY <1>1, <2>6, <2>7
  <2>. QED  BY <1>6, <2>1, <2>4, <2>5
<1>. QED  BY <1>4, <1>5, <1>6 DEF Perform

\* What the step adds to the trace.
LEMMA NewRecordTypes ==
    ASSUME ActorTypeOK, NEW id \in Id, NEW event \in Event, NEW event_clock \in Clock
    PROVE  NewRecord(id, event, event_clock) \in TraceRecord
<1>. DEFINE command == IF Unwinding(id, CommandFor(id, event)) = "None"
                       THEN CommandFor(id, event) ELSE Placeholder
<1>1. command \in Command \cup {Placeholder}
  BY PerformedIsCommand
<1>2. Tick(id, event_clock) \in Clock
  BY TickTypes
<1>. QED  BY <1>1, <1>2 DEF NewRecord, TraceRecord

\* Every step keeps the types, also one that panics.
LEMMA StepTypes ==
    ASSUME ActorTypeOK, NEW id \in Id, NEW event \in Event, NEW event_clock \in Clock,
           Step(id, event, event_clock)
    PROVE  ActorTypeOK'
<1>1. /\ cfg_fn \in Program
      /\ behavior \in [Id -> Seq(Event)]
      /\ clock \in [Id -> Clock]
      /\ enabled_events \in [Id -> Iterator]
      /\ expectation \in [Id -> SUBSET Description]
      /\ DOMAIN time_context = Id /\ \A a \in Id : IsContext(time_context[a])
      /\ trace_records \in Seq(TraceRecord)
  BY DEF ActorTypeOK
<1>2. Tick(id, event_clock) \in Clock
  BY TickTypes
<1>3. PopInbox(id, event) \in [Id -> [Id -> Seq(QueuedMessage)]]
  BY PopInboxTypes
<1>4. IsContext(TimeAfter(id, event))
  BY <1>1, ContextTypes DEF TimeAfter
<1>5. cfg_fn' \in Program /\ clock' \in [Id -> Clock]
  BY <1>1, <1>2 DEF Step, Advance
<1>6. trace_records' \in Seq(TraceRecord)
  BY <1>1, NewRecordTypes DEF Step
<1>7. CASE Refusal(id, event, event_clock) # "None"
  <2>1. Refuse(id, event, event_clock)
    BY <1>7 DEF Step, Advance
  <2>2. panicked' \in RefusalReason
    BY <1>7, <2>1 DEF Refuse, Refusal, RefusalReason
  <2>3. /\ behavior' \in [Id -> Seq(Event)]
        /\ enabled_events' \in [Id -> Iterator]
        /\ expectation' \in [Id -> SUBSET Description]
        /\ inbox_by_src' \in [Id -> [Id -> Seq(QueuedMessage)]]
        /\ time_context' = time_context
    BY <1>1, <1>3, <2>1 DEF Refuse
  <2>. QED  BY <1>1, <1>5, <1>6, <2>2, <2>3 DEF ActorTypeOK
<1>8. CASE Refusal(id, event, event_clock) = "None"
  <2>. DEFINE command == CommandFor(id, event)
  <2>1. Deliver(id, event, event_clock)
    BY <1>8 DEF Step, Advance
  <2>2. behavior' \in [Id -> Seq(Event)]
    BY <1>1, <2>1 DEF Deliver
  <2>3. panicked' = Unwinding(id, command)
    BY <2>1 DEF Deliver
  <2>4. panicked' \in {"None", "Behavior", "Expectation already exists",
                       "Expectation does not exist"}
    BY <2>3 DEF Unwinding
  <2>5. /\ enabled_events' \in [Id -> Iterator]
        /\ expectation' \in [Id -> SUBSET Description]
        /\ inbox_by_src' \in [Id -> [Id -> Seq(QueuedMessage)]]
        /\ DOMAIN time_context' = Id /\ \A a \in Id : IsContext(time_context'[a])
    <3>1. CASE panicked' = "None"
      <4>1. command \in Command
        BY <2>3, <3>1, PerformedIsCommand
      <4>2. Perform(id, command, PopInbox(id, event), TimeAfter(id, event),
                    Tick(id, event_clock))
        BY <2>1, <3>1 DEF Deliver
      <4>. QED  BY <1>2, <1>3, <1>4, <4>1, <4>2, PerformTypes
    <3>2. CASE panicked' # "None"
      <4>1. /\ inbox_by_src' = PopInbox(id, event)
            /\ time_context' = [time_context EXCEPT ![id] = TimeAfter(id, event)]
            /\ UNCHANGED <<enabled_events, expectation>>
        BY <2>1, <3>2 DEF Deliver
      <4>2. ASSUME NEW a \in Id PROVE IsContext(time_context'[a])
        <5>1. time_context'[a] = IF a = id THEN TimeAfter(id, event) ELSE time_context[a]
          BY <1>1, <4>1
        <5>. QED  BY <1>1, <1>4, <5>1
      <4>. QED  BY <1>1, <1>3, <4>1, <4>2
    <3>. QED  BY <3>1, <3>2
  <2>. QED  BY <1>5, <1>6, <2>2, <2>4, <2>5 DEF ActorTypeOK
<1>. QED  BY <1>7, <1>8

\* A new trace starts from well-typed actors.
LEMMA ResetTypes ==
    ASSUME ActorTypeOK, ResetActors
    PROVE  ActorTypeOK'
<1>1. clock \in [Id -> Clock]
  BY DEF ActorTypeOK
<1>2. clock' \in [Id -> Clock]
  BY <1>1, AtReset DEF ResetActors
<1>3. \A id \in Id : Spawned(id) \in Iterator
  BY EventTypes, IteratorTypes DEF Spawned
<1>4. IsContext(EmptyContext)
  BY DEF IsContext, EmptyContext, NoDeadlines
<1>5. /\ behavior' \in [Id -> Seq(Event)]
      /\ enabled_events' \in [Id -> Iterator]
      /\ expectation' \in [Id -> SUBSET Description]
      /\ inbox_by_src' \in [Id -> [Id -> Seq(QueuedMessage)]]
      /\ DOMAIN time_context' = Id /\ \A id \in Id : IsContext(time_context'[id])
      /\ trace_records' \in Seq(TraceRecord)
      /\ panicked' = "None"
  BY <1>3, <1>4 DEF ResetActors
<1>. QED  BY <1>2, <1>5 DEF ActorTypeOK, ResetActors

\* The actors that create_actors returns are well typed.
LEMMA InitTypes == ActorInit => ActorTypeOK
<1>. SUFFICES ASSUME ActorInit PROVE ActorTypeOK
  OBVIOUS
<1>1. clock \in [Id -> Clock]
  BY NAssumption, AtNewWithLen DEF ActorInit
<1>2. \A id \in Id : Spawned(id) \in Iterator
  BY EventTypes, IteratorTypes DEF Spawned
<1>3. IsContext(EmptyContext)
  BY DEF IsContext, EmptyContext, NoDeadlines
<1>. QED  BY <1>1, <1>2, <1>3 DEF ActorInit, ActorTypeOK

\* Every step of the actors keeps the types.
LEMMA NextTypes ==
    ASSUME ActorTypeOK, [ActorNext]_actor_vars
    PROVE  ActorTypeOK'
<1>1. CASE Schedule
  <2>1. PICK id \in Id : \E pending \in EnabledEvents(id) :
            Step(id, pending.event, pending.event_clock)
    BY <1>1 DEF Schedule
  <2>2. PICK pending \in EnabledEvents(id) : Step(id, pending.event, pending.event_clock)
    BY <2>1
  <2>3. pending.event \in Event /\ pending.event_clock \in Clock
    BY OffersAreTyped
  <2>. QED  BY <2>2, <2>3, StepTypes
<1>2. CASE ResetActors
  BY <1>2, ResetTypes
<1>3. CASE UNCHANGED actor_vars
  BY <1>3 DEF ActorTypeOK, actor_vars, actors
<1>. QED  BY <1>1, <1>2, <1>3 DEF ActorNext

(***************************************************************************)
(* The actors stay well typed in every schedule: in particular no iterator *)
(* ever offers anything but an event, no actor is stepped with a message   *)
(* that is not one, and a panic is one of the code's own.                  *)
(***************************************************************************)
THEOREM ActorsAreWellTyped == ActorSpec => []ActorTypeOK
<1>1. ActorTypeOK /\ [ActorNext]_actor_vars => ActorTypeOK'
  BY NextTypes
<1>. QED  BY InitTypes, <1>1, PTL DEF ActorSpec

-----------------------------------------------------------------------------
(* Causality                                                               *)

(***************************************************************************)
(* A clock V is sound, for the actors' clocks c and the records T, when it *)
(* counts no step that its actor has not taken, and when it covers the     *)
(* clock of every recorded step that it counts.                            *)
(***************************************************************************)
Known(V, c) == \A j \in Id : At(V, j) <= At(c[j], j)

Closed(V, T) ==
    \A k \in DOMAIN T : At(T[k].clock, T[k].id) <= At(V, T[k].id) => Leq(T[k].clock, V)

Sound(V, c, T) == V \in Clock /\ Known(V, c) /\ Closed(V, T)

\* No recorded step counts a step that was recorded after it.
Fresh(T) ==
    \A k, l \in DOMAIN T : k < l => At(T[k].clock, T[l].id) < At(T[l].clock, T[l].id)

\* The inductive invariant: every clock there is, is sound.
SoundClocks ==
    /\ \A id \in Id : Sound(clock[id], clock, trace_records)
    /\ \A dst, src \in Id : \A m \in DOMAIN inbox_by_src[dst][src] :
            Sound(inbox_by_src[dst][src][m].clock, clock, trace_records)
    /\ \A k \in DOMAIN trace_records :
            Sound(trace_records[k].clock, clock, trace_records)
    /\ Fresh(trace_records)

CausalInv == ActorTypeOK /\ SoundClocks

\* An actor's id is the index of its element in a clock.
LEMMA IdIsPos == Id \subseteq Pos
BY NAssumption DEF Id, Pos

\* Clock order is transitive.
LEMMA LeqIsTransitive ==
    ASSUME NEW u \in Clock, NEW v \in Clock, NEW w \in Clock, Leq(u, v), Leq(v, w)
    PROVE  Leq(u, w)
<1>1. \A k : At(u, k) \in Nat /\ At(v, k) \in Nat /\ At(w, k) \in Nat
  BY AtIsNat
<1>2. \A k \in Pos : At(u, k) <= At(v, k) /\ At(v, k) <= At(w, k)
  BY LeqIsPointwise
<1>3. \A k \in Pos : At(u, k) <= At(w, k)
  BY <1>1, <1>2
<1>. QED  BY <1>3, LeqIsPointwise

\* The fields of a record that causality is about.
LEMMA RecordFields ==
    ASSUME NEW T \in Seq(TraceRecord), NEW k \in DOMAIN T
    PROVE  /\ T[k].id \in Id /\ T[k].id \in Pos
           /\ T[k].clock \in Clock
           /\ \A j : At(T[k].clock, j) \in Nat
<1>1. T[k] \in TraceRecord
  OBVIOUS
<1>2. T[k].id \in Id /\ T[k].clock \in Clock
  BY <1>1 DEF TraceRecord
<1>. QED  BY <1>2, IdIsPos, AtIsNat

(***************************************************************************)
(* The new clock of a step that merges the empty clock or a sound one: it  *)
(* counts one more step of the actor than anything did, and it is sound    *)
(* once it is the actor's.                                                 *)
(***************************************************************************)
LEMMA TickIsSound ==
    ASSUME CausalInv, NEW id \in Id, NEW e \in Clock,
           e = New \/ Sound(e, clock, trace_records)
    PROVE  /\ Tick(id, e) \in Clock
           /\ At(Tick(id, e), id) = At(clock[id], id) + 1
           /\ Sound(Tick(id, e), [clock EXCEPT ![id] = Tick(id, e)], trace_records)
           /\ \A V : Sound(V, clock, trace_records) =>
                        Sound(V, [clock EXCEPT ![id] = Tick(id, e)], trace_records)
<1>. DEFINE c  == clock
            T  == trace_records
            C  == Tick(id, e)
            c2 == [c EXCEPT ![id] = C]
<1>0. /\ c \in [Id -> Clock]
      /\ T \in Seq(TraceRecord)
      /\ \A j \in Id : Sound(c[j], c, T)
      /\ \A k \in DOMAIN T : Sound(T[k].clock, c, T)
      /\ e = New \/ Sound(e, c, T)
      /\ C = MergeIn(Increment(c[id], id), e)
      /\ c2 = [c EXCEPT ![id] = C]
  BY DEF CausalInv, ActorTypeOK, SoundClocks, Tick
<1>. HIDE DEF c, T, C, c2
<1>1. id \in Pos /\ c[id] \in Clock
  BY <1>0, IdIsPos
<1>2. /\ Increment(c[id], id) \in Clock
      /\ \A k \in Pos : At(Increment(c[id], id), k) =
                            IF k = id THEN At(c[id], k) + 1 ELSE At(c[id], k)
  BY <1>1, AtIncrement
<1>3. /\ C \in Clock
      /\ \A k \in Pos : At(C, k) = Larger(IF k = id THEN At(c[id], k) + 1 ELSE At(c[id], k),
                                          At(e, k))
  BY <1>0, <1>2, AtMergeIn
<1>4. \A k : /\ At(c[id], k) \in Nat
             /\ At(e, k) \in Nat
             /\ At(C, k) \in Nat
  BY <1>1, <1>3, AtIsNat
<1>5. At(e, id) <= At(c[id], id)
  <2>1. CASE e = New
    BY <1>4, <2>1, AtNew
  <2>2. CASE Sound(e, c, T)
    BY <2>2 DEF Sound, Known
  <2>. QED  BY <1>0, <2>1, <2>2
<1>6. At(C, id) = At(c[id], id) + 1
  BY <1>1, <1>3, <1>4, <1>5 DEF Larger
<1>7. Leq(c[id], C)
  <2>1. \A k \in Pos : At(c[id], k) <= At(C, k)
    BY <1>3, <1>4 DEF Larger
  <2>. QED  BY <1>1, <1>3, <2>1, LeqIsPointwise
<1>8. Leq(e, C)
  <2>1. \A k \in Pos : At(e, k) <= At(C, k)
    BY <1>3, <1>4 DEF Larger
  <2>. QED  BY <1>3, <2>1, LeqIsPointwise
<1>9. ASSUME NEW V, Sound(V, c, T)
      PROVE  Sound(V, c2, T)
  <2>1. V \in Clock /\ Closed(V, T)
    BY <1>9 DEF Sound
  <2>2. ASSUME NEW j \in Id PROVE At(V, j) <= At(c2[j], j)
    <3>1. At(V, j) <= At(c[j], j)
      BY <1>9 DEF Sound, Known
    <3>2. At(V, j) \in Nat
      BY <2>1, AtIsNat
    <3>3. CASE j = id
      <4>1. c2[j] = C
        BY <1>0, <3>3
      <4>. QED  BY <1>4, <1>6, <3>1, <3>2, <3>3, <4>1
    <3>4. CASE j # id
      BY <1>0, <3>1, <3>4
    <3>. QED  BY <3>3, <3>4
  <2>. QED  BY <2>1, <2>2 DEF Sound, Known
<1>10. Known(C, c2)
  <2>. SUFFICES ASSUME NEW j \in Id PROVE At(C, j) <= At(c2[j], j)
    BY DEF Known
  <2>1. CASE j = id
    <3>1. c2[j] = C
      BY <1>0, <2>1
    <3>. QED  BY <1>4, <2>1, <3>1
  <2>2. CASE j # id
    <3>1. c2[j] = c[j]
      BY <1>0, <2>2
    <3>2. At(c[id], j) <= At(c[j], j)
      BY <1>0 DEF Sound, Known
    <3>3. At(c[j], j) \in Nat
      BY <1>0, AtIsNat
    <3>4. At(e, j) <= At(c[j], j)
      <4>1. CASE e = New
        BY <3>3, <4>1, AtNew
      <4>2. CASE Sound(e, c, T)
        BY <4>2 DEF Sound, Known
      <4>. QED  BY <1>0, <4>1, <4>2
    <3>5. j \in Pos
      BY IdIsPos
    <3>6. At(C, j) = Larger(At(c[id], j), At(e, j))
      BY <1>3, <2>2, <3>5
    <3>. QED  BY <3>1, <3>2, <3>4, <3>6 DEF Larger
  <2>. QED  BY <2>1, <2>2
<1>11. Closed(C, T)
  <2>. SUFFICES ASSUME NEW k \in DOMAIN T, At(T[k].clock, T[k].id) <= At(C, T[k].id)
                PROVE  Leq(T[k].clock, C)
    BY DEF Closed
  <2>. DEFINE R == T[k].clock
              j == T[k].id
  <2>1. j \in Id /\ j \in Pos /\ R \in Clock /\ At(R, j) \in Nat
    BY <1>0, RecordFields
  <2>2. Closed(c[id], T)
    BY <1>0 DEF Sound
  <2>3. CASE At(R, j) <= At(c[id], j)
    <3>1. Leq(R, c[id])
      BY <2>2, <2>3 DEF Closed
    <3>. QED  BY <1>1, <1>3, <1>7, <2>1, <3>1, LeqIsTransitive
  <2>4. CASE ~(At(R, j) <= At(c[id], j))
    <3>1. At(R, j) <= At(c[j], j)
      BY <1>0, <2>1 DEF Sound, Known
    <3>2. j # id
      BY <2>4, <3>1
    <3>3. At(C, j) = Larger(At(c[id], j), At(e, j))
      BY <1>3, <2>1, <3>2
    <3>4. At(R, j) <= At(e, j)
      BY <2>4, <3>3 DEF Larger
    <3>5. e # New
      BY <1>4, <2>1, <2>4, <3>4, AtNew
    <3>6. Leq(R, e)
      BY <1>0, <3>4, <3>5 DEF Sound, Closed
    <3>. QED  BY <1>3, <1>8, <2>1, <3>6, LeqIsTransitive
  <2>. QED  BY <2>3, <2>4
<1>. QED  BY <1>3, <1>6, <1>9, <1>10, <1>11 DEF Sound, c, T, C, c2

\* A clock stays sound when a step that it does not count, or its own, is recorded.
LEMMA RecordedIsSound ==
    ASSUME NEW T \in Seq(TraceRecord), NEW rec \in TraceRecord, NEW c, NEW V,
           Sound(V, c, T),
           V = rec.clock \/ At(V, rec.id) < At(rec.clock, rec.id)
    PROVE  Sound(V, c, Append(T, rec))
<1>. DEFINE T2 == Append(T, rec)
<1>1. V \in Clock /\ rec.clock \in Clock /\ rec.id \in Id
  BY DEF Sound, TraceRecord
<1>2. At(V, rec.id) \in Nat /\ At(rec.clock, rec.id) \in Nat
  BY <1>1, AtIsNat
<1>3. ASSUME NEW k \in DOMAIN T2, At(T2[k].clock, T2[k].id) <= At(V, T2[k].id)
      PROVE  Leq(T2[k].clock, V)
  <2>1. CASE k \in DOMAIN T
    <3>1. T2[k] = T[k]
      BY <2>1
    <3>. QED  BY <1>3, <2>1, <3>1 DEF Sound, Closed
  <2>2. CASE k \notin DOMAIN T
    <3>1. T2[k] = rec
      BY <2>2
    <3>2. V = rec.clock
      BY <1>2, <1>3, <3>1
    <3>3. \A j : At(V, j) \in Nat
      BY <1>1, AtIsNat
    <3>4. Leq(V, V)
      BY <1>1, <3>3, LeqIsPointwise
    <3>. QED  BY <3>1, <3>2, <3>4
  <2>. QED  BY <2>1, <2>2
<1>. QED  BY <1>1, <1>3 DEF Sound, Closed

\* The messages that are queued after a step were queued before it, or were
\* sent with the step's clock.
LEMMA QueuedClocks ==
    ASSUME ActorTypeOK, NEW id \in Id, NEW event \in Event, NEW event_clock \in Clock,
           Step(id, event, event_clock),
           NEW dst \in Id, NEW src \in Id, NEW m \in DOMAIN inbox_by_src'[dst][src]
    PROVE  \/ inbox_by_src'[dst][src][m].clock = Tick(id, event_clock)
           \/ \E n \in DOMAIN inbox_by_src[dst][src] :
                 inbox_by_src'[dst][src][m] = inbox_by_src[dst][src][n]
<1>. DEFINE inboxes == PopInbox(id, event)
            command == CommandFor(id, event)
            message == [msg |-> command.msg, clock |-> Tick(id, event_clock)]
<1>1. /\ inbox_by_src \in [Id -> [Id -> Seq(QueuedMessage)]]
      /\ inboxes \in [Id -> [Id -> Seq(QueuedMessage)]]
  BY PopInboxTypes DEF ActorTypeOK
<1>2. ASSUME NEW k \in DOMAIN inboxes[dst][src]
      PROVE  \E n \in DOMAIN inbox_by_src[dst][src] :
                inboxes[dst][src][k] = inbox_by_src[dst][src][n]
  <2>1. inbox_by_src[dst][src] \in Seq(QueuedMessage)
    BY <1>1
  <2>2. CASE inboxes[dst][src] = inbox_by_src[dst][src]
    BY <2>2
  <2>3. CASE /\ inbox_by_src[dst][src] # << >>
             /\ inboxes[dst][src] = Tail(inbox_by_src[dst][src])
    <3>1. k + 1 \in DOMAIN inbox_by_src[dst][src]
      BY <2>1, <2>3
    <3>2. inboxes[dst][src][k] = inbox_by_src[dst][src][k + 1]
      BY <2>1, <2>3
    <3>. QED  BY <3>1, <3>2
  <2>. QED  BY <2>2, <2>3, PopInboxTypes
<1>3. \/ inbox_by_src' = inboxes
      \/ /\ command \in Command /\ command.type = "Send"
         /\ inbox_by_src' = [inboxes EXCEPT ![command.dst][id] = Append(@, message)]
  <2>1. CASE Refusal(id, event, event_clock) # "None"
    BY <2>1 DEF Step, Advance, Refuse
  <2>2. CASE Refusal(id, event, event_clock) = "None"
    <3>1. Deliver(id, event, event_clock)
      BY <2>2 DEF Step, Advance
    <3>2. CASE panicked' = "None"
      <4>1. command \in Command
        BY <3>1, <3>2, PerformedIsCommand DEF Deliver
      <4>2. Perform(id, command, inboxes, TimeAfter(id, event), Tick(id, event_clock))
        BY <3>1, <3>2 DEF Deliver
      <4>. QED  BY <4>1, <4>2 DEF Perform
    <3>3. CASE panicked' # "None"
      BY <3>1, <3>3 DEF Deliver
    <3>. QED  BY <3>2, <3>3
  <2>. QED  BY <2>1, <2>2
<1>4. CASE inbox_by_src' = inboxes
  BY <1>2, <1>4
<1>5. CASE /\ command \in Command /\ command.type = "Send"
           /\ inbox_by_src' = [inboxes EXCEPT ![command.dst][id] = Append(@, message)]
  <2>1. command.dst \in Id
    BY <1>5, CommandFields
  <2>2. CASE dst = command.dst /\ src = id
    <3>1. inbox_by_src'[dst][src] = Append(inboxes[dst][src], message)
      BY <1>1, <1>5, <2>1, <2>2
    <3>2. inboxes[dst][src] \in Seq(QueuedMessage)
      BY <1>1
    <3>3. \/ m \in DOMAIN inboxes[dst][src]
             /\ inbox_by_src'[dst][src][m] = inboxes[dst][src][m]
          \/ inbox_by_src'[dst][src][m] = message
      BY <3>1, <3>2
    <3>. QED  BY <1>2, <3>3
  <2>3. CASE ~(dst = command.dst /\ src = id)
    <3>1. inbox_by_src'[dst][src] = inboxes[dst][src]
      BY <1>1, <1>5, <2>1, <2>3
    <3>. QED  BY <1>2, <3>1
  <2>. QED  BY <2>2, <2>3
<1>. QED  BY <1>3, <1>4, <1>5

\* A step that an actor offers keeps every clock sound.
LEMMA StepIsSound ==
    ASSUME CausalInv, NEW id \in Id, NEW event \in Event, NEW event_clock \in Clock,
           event_clock = New \/ Sound(event_clock, clock, trace_records),
           Step(id, event, event_clock)
    PROVE  SoundClocks'
<1>. DEFINE C == Tick(id, event_clock)
            rec == NewRecord(id, event, event_clock)
            old == trace_records
            c2 == [clock EXCEPT ![id] = C]
<1>1. clock \in [Id -> Clock] /\ old \in Seq(TraceRecord)
  BY DEF CausalInv, ActorTypeOK
<1>2. /\ \A j \in Id : Sound(clock[j], clock, old)
      /\ \A k \in DOMAIN old : Sound(old[k].clock, clock, old)
      /\ Fresh(old)
  BY DEF CausalInv, SoundClocks
<1>3. /\ C \in Clock
      /\ At(C, id) = At(clock[id], id) + 1
      /\ Sound(C, c2, old)
      /\ \A V : Sound(V, clock, old) => Sound(V, c2, old)
  BY TickIsSound
<1>4. clock' = c2
  BY DEF Step, Advance
<1>5. rec \in TraceRecord /\ rec.id = id /\ rec.clock = C
  BY NewRecordTypes DEF CausalInv, NewRecord
<1>6. trace_records' = old \/ trace_records' = Append(old, rec)
  BY DEF Step
<1>7. ASSUME NEW V, Sound(V, clock, old)
      PROVE  At(V, id) < At(C, id)
  <2>1. At(V, id) <= At(clock[id], id)
    BY <1>7 DEF Sound, Known
  <2>2. At(V, id) \in Nat /\ At(clock[id], id) \in Nat
    BY <1>1, <1>7, AtIsNat DEF Sound
  <2>. QED  BY <1>3, <2>1, <2>2
<1>. HIDE DEF C, rec, c2, old
<1>8. ASSUME NEW V, Sound(V, clock, old)
      PROVE  Sound(V, c2, trace_records')
  <2>1. Sound(V, c2, old)
    BY <1>3, <1>8
  <2>2. Sound(V, c2, Append(old, rec))
    BY <1>1, <1>5, <1>7, <1>8, <2>1, RecordedIsSound
  <2>. QED  BY <1>6, <2>1, <2>2
<1>9. Sound(C, c2, trace_records')
  <2>1. Sound(C, c2, Append(old, rec))
    BY <1>1, <1>3, <1>5, RecordedIsSound
  <2>. QED  BY <1>3, <1>6, <2>1
<1>10. ASSUME NEW j \in Id PROVE Sound(clock'[j], clock', trace_records')
  <2>1. clock'[j] = IF j = id THEN C ELSE clock[j]
    BY <1>1, <1>4 DEF c2
  <2>. QED  BY <1>2, <1>4, <1>8, <1>9, <2>1
<1>11. ASSUME NEW dst \in Id, NEW src \in Id, NEW m \in DOMAIN inbox_by_src'[dst][src]
       PROVE  Sound(inbox_by_src'[dst][src][m].clock, clock', trace_records')
  <2>1. CASE inbox_by_src'[dst][src][m].clock = C
    BY <1>4, <1>9, <2>1
  <2>2. CASE \E n \in DOMAIN inbox_by_src[dst][src] :
                inbox_by_src'[dst][src][m] = inbox_by_src[dst][src][n]
    <3>1. PICK n \in DOMAIN inbox_by_src[dst][src] :
                inbox_by_src'[dst][src][m] = inbox_by_src[dst][src][n]
      BY <2>2
    <3>2. Sound(inbox_by_src[dst][src][n].clock, clock, old)
      BY DEF CausalInv, SoundClocks, old
    <3>. QED  BY <1>4, <1>8, <3>1, <3>2
  <2>. QED  BY <2>1, <2>2, QueuedClocks DEF CausalInv, C
<1>12. ASSUME NEW k \in DOMAIN trace_records'
       PROVE  /\ Sound(trace_records'[k].clock, clock', trace_records')
              /\ \/ k \in DOMAIN old /\ trace_records'[k] = old[k]
                 \/ k \notin DOMAIN old /\ k = Len(old) + 1 /\ trace_records'[k] = rec
  <2>1. \/ k \in DOMAIN old /\ trace_records'[k] = old[k]
        \/ k \notin DOMAIN old /\ k = Len(old) + 1 /\ trace_records'[k] = rec
    BY <1>1, <1>6
  <2>2. Sound(trace_records'[k].clock, c2, trace_records')
    BY <1>2, <1>5, <1>8, <1>9, <2>1
  <2>. QED  BY <1>4, <2>1, <2>2
<1>13. Fresh(trace_records')
  <2>. SUFFICES ASSUME NEW k \in DOMAIN trace_records', NEW l \in DOMAIN trace_records', k < l
                PROVE  At(trace_records'[k].clock, trace_records'[l].id)
                            < At(trace_records'[l].clock, trace_records'[l].id)
    BY DEF Fresh
  <2>1. k \in DOMAIN old /\ trace_records'[k] = old[k]
    <3>1. l \in 1 .. Len(old) + 1 /\ k \in Nat
      BY <1>1, <1>6
    <3>. QED  BY <1>1, <1>12, <3>1
  <2>2. CASE l \in DOMAIN old /\ trace_records'[l] = old[l]
    BY <1>2, <2>1, <2>2 DEF Fresh
  <2>3. CASE trace_records'[l] = rec
    BY <1>2, <1>5, <1>7, <2>1, <2>3
  <2>. QED  BY <1>12, <2>2, <2>3
<1>. QED  BY <1>10, <1>11, <1>12, <1>13 DEF SoundClocks

\* The actors start with clocks of zeros, and with nothing queued or recorded.
LEMMA InitIsSound == ActorInit => SoundClocks
<1>. SUFFICES ASSUME ActorInit PROVE SoundClocks
  OBVIOUS
<1>1. /\ clock = [id \in Id |-> NewWithLen(N)]
      /\ inbox_by_src = [id \in Id |-> [src \in Id |-> << >>]]
      /\ trace_records = << >>
  BY DEF ActorInit
<1>2. \A id \in Id : clock[id] \in Clock /\ \A j : At(clock[id], j) = 0
  BY <1>1, NAssumption, AtNewWithLen
<1>3. \A id \in Id : Sound(clock[id], clock, trace_records)
  BY <1>1, <1>2 DEF Sound, Known, Closed
<1>. QED  BY <1>1, <1>3 DEF SoundClocks, Fresh

\* So does a new trace.
LEMMA ResetIsSound ==
    ASSUME ActorTypeOK, ResetActors
    PROVE  SoundClocks'
<1>1. /\ clock' = [id \in Id |-> Reset(clock[id])]
      /\ inbox_by_src' = [id \in Id |-> [src \in Id |-> << >>]]
      /\ trace_records' = << >>
  BY DEF ResetActors
<1>2. \A id \in Id : clock[id] \in Clock
  BY DEF ActorTypeOK
<1>3. \A id \in Id : clock'[id] \in Clock /\ \A j : At(clock'[id], j) = 0
  BY <1>1, <1>2, AtReset
<1>4. \A id \in Id : Sound(clock'[id], clock', trace_records')
  BY <1>1, <1>3 DEF Sound, Known, Closed
<1>. QED  BY <1>1, <1>4 DEF SoundClocks, Fresh

\* Every step of the actors keeps every clock sound.
LEMMA NextIsSound ==
    ASSUME CausalInv, [ActorNext]_actor_vars
    PROVE  CausalInv'
<1>1. ActorTypeOK'
  BY NextTypes DEF CausalInv
<1>2. CASE Schedule
  <2>1. PICK id \in Id : \E pending \in EnabledEvents(id) :
            Step(id, pending.event, pending.event_clock)
    BY <1>2 DEF Schedule
  <2>2. PICK pending \in EnabledEvents(id) : Step(id, pending.event, pending.event_clock)
    BY <2>1
  <2>3. /\ pending.event \in Event
        /\ pending.event_clock \in Clock
        /\ \/ pending.event_clock = New
           \/ \E src \in Id : /\ inbox_by_src[id][src] # << >>
                              /\ pending.event_clock = Head(inbox_by_src[id][src]).clock
    BY OffersAreTyped DEF CausalInv
  <2>4. pending.event_clock = New \/ Sound(pending.event_clock, clock, trace_records)
    <3>. SUFFICES ASSUME NEW src \in Id, inbox_by_src[id][src] # << >>,
                         pending.event_clock = Head(inbox_by_src[id][src]).clock
                  PROVE  Sound(pending.event_clock, clock, trace_records)
      BY <2>3
    <3>1. inbox_by_src[id][src] \in Seq(QueuedMessage)
      BY DEF CausalInv, ActorTypeOK
    <3>2. /\ 1 \in DOMAIN inbox_by_src[id][src]
          /\ Head(inbox_by_src[id][src]) = inbox_by_src[id][src][1]
      BY <3>1
    <3>. QED  BY <3>2 DEF CausalInv, SoundClocks
  <2>. QED  BY <1>1, <2>2, <2>3, <2>4, StepIsSound DEF CausalInv
<1>3. CASE ResetActors
  BY <1>1, <1>3, ResetIsSound DEF CausalInv
<1>4. CASE UNCHANGED actor_vars
  <2>1. UNCHANGED <<clock, inbox_by_src, trace_records>>
    BY <1>4 DEF actor_vars, actors
  <2>2. SoundClocks'
    BY <2>1 DEF CausalInv, SoundClocks, Sound, Known, Closed, Fresh
  <2>. QED  BY <1>1, <2>2 DEF CausalInv
<1>. QED  BY <1>2, <1>3, <1>4 DEF ActorNext

\* Soundness gives both halves of the property.
LEMMA SoundIsCausal == CausalInv => CausalClocks
<1>. SUFFICES ASSUME CausalInv,
                     NEW k \in DOMAIN trace_records, NEW l \in DOMAIN trace_records
              PROVE  LET rk == trace_records[k]
                         rl == trace_records[l]
                     IN  /\ At(rk.clock, rk.id) <= At(rl.clock, rk.id) => Leq(rk.clock, rl.clock)
                         /\ k < l => ~Leq(rl.clock, rk.clock)
  BY DEF CausalClocks
<1>. DEFINE rk == trace_records[k]
            rl == trace_records[l]
<1>1. At(rk.clock, rk.id) <= At(rl.clock, rk.id) => Leq(rk.clock, rl.clock)
  BY DEF CausalInv, SoundClocks, Sound, Closed
<1>2. ASSUME k < l, Leq(rl.clock, rk.clock)
      PROVE  FALSE
  <2>1. trace_records \in Seq(TraceRecord)
    BY DEF CausalInv, ActorTypeOK
  <2>2. /\ rk.clock \in Clock /\ rl.clock \in Clock /\ rl.id \in Pos
        /\ At(rk.clock, rl.id) \in Nat /\ At(rl.clock, rl.id) \in Nat
    BY <2>1, RecordFields
  <2>3. At(rl.clock, rl.id) <= At(rk.clock, rl.id)
    BY <1>2, <2>2, LeqIsPointwise
  <2>4. At(rk.clock, rl.id) < At(rl.clock, rl.id)
    BY <1>2 DEF CausalInv, SoundClocks, Fresh
  <2>. QED  BY <2>2, <2>3, <2>4
<1>. QED  BY <1>1, <1>2

\* Every clock there is, is sound in every schedule.
LEMMA CausalInvHolds == ActorSpec => []CausalInv
<1>1. ActorInit => CausalInv
  BY InitTypes, InitIsSound DEF CausalInv
<1>2. CausalInv /\ [ActorNext]_actor_vars => CausalInv'
  BY NextIsSound
<1>. QED  BY <1>1, <1>2, PTL DEF ActorSpec

(***************************************************************************)
(* In every trace of any actors, a step is before another in clock order   *)
(* exactly when the other's clock counts it, and never before one that was *)
(* taken earlier: what Verifier::next_prefix assumes when it compares the  *)
(* clocks of records to find the races of a trace.                         *)
(***************************************************************************)
THEOREM ClocksAreCausal == ActorSpec => []CausalClocks
BY CausalInvHolds, SoundIsCausal, PTL

-----------------------------------------------------------------------------

\* The lemmas about the histories of the behaviors.
Past == INSTANCE RuntimeProofs

-----------------------------------------------------------------------------
(* The refinement of Runtime: the invariant                                *)

\* The deadlines the actor is about to be given.
Brought(id) ==
    IF enabled_events[id].kind = "Deterministic"
    THEN UNION {Past!Brings(event) : event \in enabled_events[id].option} ELSE {}

\* The TimeContext of the actor agrees with what its behavior was told.
Knows(id) ==
    Past!Remembers(id, DOMAIN time_context[id].pending_deadlines,
                      time_context[id].next_new_deadline, Brought(id))

\* The behavior's last command is of the type.
Asked(id, type) ==
    /\ behavior[id] # << >>
    /\ Past!LastCommand(id) \in Command
    /\ Past!LastCommand(id).type = type

\* What the iterator offers are answers to the last command.
Offers(id) ==
    LET iterator == enabled_events[id]
        deadline == Past!LastCommand(id).deadline
    IN  /\ iterator.kind = "Deterministic" =>
              \A event \in iterator.option : /\ iterator.option = {event}
                                             /\ Past!IsAnswer(id, event)
                                             /\ event.type \notin {"DeadlineElapsedOk", "RecvOk"}
        /\ iterator.kind = "DeadlineElapsed" =>
              /\ Asked(id, "DeadlineElapsed")
              /\ LastQuery(id) = {deadline}
              /\ FALSE \in iterator.remaining => /\ deadline \in Past!Deadlines(id)
                                                 /\ ~Past!ToldElapsed(id, deadline)
        /\ iterator.kind = "Recv" => Asked(id, "Recv")

\* Queued messages were sent, in this trace.
QueuedWereSent ==
    \A dst, src \in Id : \A k \in 1 .. Len(inbox_by_src[dst][src]) :
        Past!HasSent(src, dst, inbox_by_src[dst][src][k].msg)

\* The inductive invariant: a trace that has unwound is only reset.
OfferInv ==
    /\ ActorTypeOK
    /\ panicked = "None" => QueuedWereSent /\ \A id \in Id : Offers(id) /\ Knows(id)

\* The behaviors are histories of the abstract runtime.
LEMMA HistoriesAre == ActorTypeOK => Past!Histories
BY DEF ActorTypeOK, Past!Histories, Id, Past!Id, Event, Past!Event

\* A step that takes no event changes nothing a history says.
LEMMA HistoryUnchanged ==
    ASSUME UNCHANGED <<cfg_fn, behavior>>
    PROVE  /\ \A id : Past!LastCommand(id)' = Past!LastCommand(id)
           /\ \A id : Past!Deadlines(id)' = Past!Deadlines(id)
           /\ \A id, deadline : Past!ToldElapsed(id, deadline)' <=> Past!ToldElapsed(id, deadline)
           /\ \A id, src, msg : Past!HasSent(src, id, msg)' <=> Past!HasSent(src, id, msg)
           /\ \A id, event : Past!IsAnswer(id, event)' <=> Past!IsAnswer(id, event)
           /\ \A id, deadlines, next, brought :
                 Past!Remembers(id, deadlines, next, brought)
                    => Past!Remembers(id, deadlines, next, brought)'
BY NAssumption, DurationAssumption, Past!HistoryUnchanged

-----------------------------------------------------------------------------
(* What is offered                                                         *)

\* Everything that is offered is an answer.
LEMMA OffersAreAnswers ==
    ASSUME OfferInv, panicked = "None", NEW id \in Id, NEW pending \in EnabledEvents(id)
    PROVE  /\ Past!IsAnswer(id, pending.event)
           /\ Past!Remembers(id, DOMAIN time_context[id].pending_deadlines,
                                time_context[id].next_new_deadline,
                                Past!Brings(pending.event))
           /\ pending.event = [type |-> "DeadlineElapsedOk", elapsed |-> TRUE]
                  => LastQuery(id) = {Past!LastCommand(id).deadline}
<1>. DEFINE iterator == enabled_events[id]
<1>1. ActorTypeOK /\ QueuedWereSent /\ Offers(id) /\ Knows(id)
  BY DEF OfferInv
<1>2. iterator \in Iterator
  BY <1>1 DEF ActorTypeOK
<1>3. CASE iterator.kind = "Deterministic"
  <2>1. pending.event \in iterator.option
    BY <1>3 DEF EnabledEvents, Pending
  <2>2. /\ Past!IsAnswer(id, pending.event)
        /\ iterator.option = {pending.event}
        /\ pending.event.type # "DeadlineElapsedOk"
    BY <1>1, <1>3, <2>1 DEF Offers
  <2>3. Brought(id) = Past!Brings(pending.event)
    BY <1>3, <2>2 DEF Brought
  <2>. QED  BY <1>1, <2>2, <2>3 DEF Knows
<1>4. CASE iterator.kind = "DeadlineElapsed"
  <2>1. PICK bool \in iterator.remaining :
            pending.event = [type |-> "DeadlineElapsedOk", elapsed |-> bool]
    BY <1>4 DEF EnabledEvents, Pending, DeadlineElapsedOk
  <2>2. bool \in BOOLEAN
    BY <1>2, <1>4, <2>1 DEF Iterator
  <2>3. pending.event \in Event
    BY <2>1, <2>2 DEF Event
  <2>4. /\ Asked(id, "DeadlineElapsed")
        /\ LastQuery(id) = {Past!LastCommand(id).deadline}
        /\ ~bool => /\ Past!LastCommand(id).deadline \in Past!Deadlines(id)
                    /\ ~Past!ToldElapsed(id, Past!LastCommand(id).deadline)
    BY <1>1, <1>4, <2>1, <2>2 DEF Offers
  <2>5. Past!IsAnswer(id, pending.event)
    BY <2>1, <2>2, <2>3, <2>4
       DEF Asked, Past!IsAnswer, Event, Past!Event, Id, Past!Id, Command, Past!Command
  <2>6. Brought(id) = {} /\ Past!Brings(pending.event) = {}
    BY <1>4, <2>1 DEF Brought, Past!Brings
  <2>. QED  BY <1>1, <2>4, <2>5, <2>6 DEF Knows
<1>5. CASE iterator.kind = "Recv"
  <2>1. PICK src \in Id :
            /\ inbox_by_src[id][src] # << >>
            /\ pending.event = RecvOk(src, Head(inbox_by_src[id][src]).msg)
    BY <1>5 DEF EnabledEvents, Pending
  <2>2. /\ Len(inbox_by_src[id][src]) \in Nat \ {0}
        /\ Head(inbox_by_src[id][src]) = inbox_by_src[id][src][1]
    BY <1>1, <2>1 DEF ActorTypeOK
  <2>3. Past!HasSent(src, id, Head(inbox_by_src[id][src]).msg)
    BY <1>1, <2>2 DEF QueuedWereSent
  <2>4. Past!HasSent(pending.event.src, id, pending.event.msg)
        /\ pending.event.type = "RecvOk"
    BY <2>1, <2>3 DEF RecvOk
  <2>5. pending.event \in Event
    BY <1>1, OffersAreTyped
  <2>6. Asked(id, "Recv")
    BY <1>1, <1>5 DEF Offers
  <2>7. Past!IsAnswer(id, pending.event)
    BY <2>4, <2>5, <2>6
       DEF Asked, Past!IsAnswer, Event, Past!Event, Id, Past!Id, Command, Past!Command
  <2>8. Brought(id) = {} /\ Past!Brings(pending.event) = {}
    BY <1>5, <2>4 DEF Brought, Past!Brings
  <2>. QED  BY <1>1, <2>4, <2>7, <2>8 DEF Knows
<1>. QED  BY <1>2, <1>3, <1>4, <1>5 DEF Iterator

\* The deadline that is said to have elapsed is not remembered any more.
LEMMA TimeAfterForgets ==
    ASSUME ActorTypeOK, NEW id \in Id, NEW event, NEW deadline
    PROVE  LET tc == TimeAfter(id, event)
           IN  /\ DOMAIN tc.pending_deadlines \subseteq DOMAIN time_context[id].pending_deadlines
               /\ tc.next_new_deadline = time_context[id].next_new_deadline
               /\ /\ event = [type |-> "DeadlineElapsedOk", elapsed |-> TRUE]
                  /\ LastQuery(id) = {deadline}
                  => deadline \notin DOMAIN tc.pending_deadlines
<1>1. IsContext(time_context[id])
  BY DEF ActorTypeOK
<1>2. CASE event = DeadlineElapsedOk(TRUE)
  <2>1. PICK d : d = CHOOSE query \in LastQuery(id) : TRUE
    OBVIOUS
  <2>2. TimeAfter(id, event) = DeadlineElapsed(time_context[id], d)
    BY <1>2, <2>1 DEF TimeAfter
  <2>3. LastQuery(id) = {deadline} => d = deadline
    BY <2>1
  <2>4. DOMAIN time_context[id].pending_deadlines \subseteq Nat
        /\ \A x \in DOMAIN time_context[id].pending_deadlines :
                time_context[id].pending_deadlines[x] \in Nat
    <3>. DEFINE durations == time_context[id].pending_deadlines
    <3>1. durations \in [DOMAIN durations -> Duration]
      BY <1>1 DEF IsContext
    <3>2. \A x \in DOMAIN durations : durations[x] \in Nat
      BY <3>1, DurationAssumption
    <3>3. DOMAIN durations \subseteq Nat
      BY <1>1 DEF IsContext
    <3>. QED  BY <3>2, <3>3
  <2>5. d \notin DOMAIN DeadlineElapsed(time_context[id], d).pending_deadlines
    BY <1>1, <2>4 DEF DeadlineElapsed, Completed, IsContext
  <2>6. /\ DOMAIN DeadlineElapsed(time_context[id], d).pending_deadlines
               \subseteq DOMAIN time_context[id].pending_deadlines
        /\ DeadlineElapsed(time_context[id], d).next_new_deadline
               = time_context[id].next_new_deadline
    BY <1>1 DEF DeadlineElapsed, IsContext
  <2>. QED  BY <2>2, <2>3, <2>5, <2>6
<1>3. CASE event # DeadlineElapsedOk(TRUE)
  BY <1>3 DEF TimeAfter, DeadlineElapsedOk
<1>. QED  BY <1>2, <1>3

-----------------------------------------------------------------------------
(* A delivered event                                                       *)

\* What a step that delivers does to the histories.
Delivered(id, event) ==
    /\ panicked = "None"
    /\ event \in Event
    /\ \E pending \in EnabledEvents(id) : event = pending.event
    /\ behavior' = [behavior EXCEPT ![id] = Append(@, event)]
    /\ cfg_fn' = cfg_fn

\* The behavior is stepped with an answer.
LEMMA DeliveredIsStep ==
    ASSUME OfferInv, NEW id \in Id, NEW event, Delivered(id, event)
    PROVE  /\ Past!Stepped(id, event)
           /\ Past!StepBehavior
           /\ Past!LastCommand(id)' = CommandFor(id, event)
           /\ behavior'[id] # << >>
<1>1. ActorTypeOK /\ behavior \in [Id -> Seq(Event)] /\ event \in Event
  BY DEF OfferInv, ActorTypeOK, Delivered
<1>2. Past!Stepped(id, event)
  BY <1>1, HistoriesAre
     DEF Delivered, Past!Stepped, Id, Past!Id, Event, Past!Event
<1>3. Past!IsAnswer(id, event)
  BY OffersAreAnswers DEF Delivered
<1>4. Past!StepBehavior
  BY <1>2, <1>3, NAssumption, DurationAssumption, Past!AnswerIsStep
<1>5. behavior'[id] = Append(behavior[id], event) /\ behavior'[id] \in Seq(Event)
  BY <1>1 DEF Delivered
<1>6. SubSeq(behavior'[id], 1, Len(behavior'[id])) = behavior'[id]
  BY <1>5
<1>7. Past!LastCommand(id)' = CommandFor(id, event)
  BY <1>5, <1>6 DEF Past!LastCommand, Past!CommandAfter, CommandFor, Delivered
<1>8. Len(Append(behavior[id], event)) = Len(behavior[id]) + 1 /\ Len(behavior[id]) \in Nat
  BY <1>1
<1>9. Len(<< >>) = 0
  OBVIOUS
<1>. QED  BY <1>2, <1>4, <1>5, <1>7, <1>8, <1>9

\* After the delivery the TimeContext agrees with the behavior again.
LEMMA DeliveredIsKnown ==
    ASSUME OfferInv, NEW id \in Id, NEW event, Delivered(id, event), NEW deadlines, NEW next,
           deadlines = DOMAIN TimeAfter(id, event).pending_deadlines,
           next = TimeAfter(id, event).next_new_deadline
    PROVE  /\ Past!Deadlines(id)' \subseteq 0 .. next - 1
           /\ deadlines \subseteq Past!Deadlines(id)'
           /\ \A deadline \in deadlines : ~Past!ToldElapsed(id, deadline)'
           /\ ~Past!ToldElapsed(id, next)'
<1>1. ActorTypeOK
  BY DEF OfferInv
<1>2. PICK deadline : deadline = Past!LastCommand(id).deadline
  OBVIOUS
<1>3. next = time_context[id].next_new_deadline
  BY <1>1, TimeAfterForgets
<1>4. /\ Past!Remembers(id, DOMAIN time_context[id].pending_deadlines, next,
                           Past!Brings(event))
      /\ event = [type |-> "DeadlineElapsedOk", elapsed |-> TRUE] => LastQuery(id) = {deadline}
  BY <1>2, <1>3, OffersAreAnswers DEF Delivered
<1>5. /\ deadlines \subseteq DOMAIN time_context[id].pending_deadlines
      /\ event = [type |-> "DeadlineElapsedOk", elapsed |-> TRUE] => deadline \notin deadlines
  BY <1>1, <1>3, <1>4, TimeAfterForgets
<1>6. Past!Remembers(id, deadlines, next, Past!Brings(event))
  BY <1>4, <1>5 DEF Past!Remembers
<1>7. event = Past!DeadlineElapsedOk(TRUE) /\ behavior[id] # << >>
          => Past!LastCommand(id).deadline \notin deadlines
  BY <1>2, <1>5 DEF Past!DeadlineElapsedOk
<1>8. Past!Stepped(id, event)
  BY DeliveredIsStep
<1>9. /\ Past!Deadlines(id)' \subseteq 0 .. next - 1
      /\ deadlines \subseteq Past!Deadlines(id)'
      /\ \A d \in deadlines : ~Past!ToldElapsed(id, d)'
  BY <1>6, <1>7, <1>8, NAssumption, DurationAssumption, Past!RemembersAfter
<1>10. ~Past!ToldElapsed(id, next)'
  <2>1. next \in Nat
    BY <1>1, <1>3 DEF ActorTypeOK, IsContext
  <2>2. next \notin Past!Deadlines(id)
    BY <1>4, <2>1 DEF Past!Remembers
  <2>3. ~Past!ToldElapsed(id, next)
    BY <1>1, <2>2, HistoriesAre, NAssumption, DurationAssumption, Past!ToldElapsedExists
       DEF Id, Past!Id
  <2>. QED  BY <1>8, <2>2, <2>3, NAssumption, DurationAssumption, Past!ToldElapsedAfter
            DEF Id, Past!Id, Past!DeadlineElapsedOk
<1>. QED  BY <1>9, <1>10

\* What the actor awaits after its command is an answer to it.
LEMMA PerformedIsOffered ==
    ASSUME OfferInv, NEW id \in Id, NEW event, Delivered(id, event),
           NEW command \in Command, command = CommandFor(id, event),
           NEW tc, tc = TimeAfter(id, event), IsContext(tc),
           NEW inboxes, NEW new_clock, Perform(id, command, inboxes, tc, new_clock),
           command.type = "DeadlineElapsed" => LastQuery(id)' = {command.deadline}
    PROVE  Offers(id)' /\ Knows(id)'
<1>1. Past!LastCommand(id)' = command /\ behavior'[id] # << >>
  BY DeliveredIsStep
<1>2. PICK deadlines, next : deadlines = DOMAIN tc.pending_deadlines /\ next = tc.next_new_deadline
  OBVIOUS
<1>3. /\ Past!Deadlines(id)' \subseteq 0 .. next - 1
      /\ deadlines \subseteq Past!Deadlines(id)'
      /\ \A deadline \in deadlines : ~Past!ToldElapsed(id, deadline)'
      /\ ~Past!ToldElapsed(id, next)'
  BY <1>2, DeliveredIsKnown
<1>4. next \in Nat
  BY <1>2 DEF IsContext
<1>5. /\ \A iterator : Await(id, iterator) => enabled_events'[id] = iterator
      /\ \A new_tc : time_context' = [time_context EXCEPT ![id] = new_tc]
                        => time_context'[id] = new_tc
  BY DEF OfferInv, ActorTypeOK, Await
<1>6. ASSUME time_context'[id] = tc, Brought(id)' = {}
      PROVE  Knows(id)'
  BY <1>2, <1>3, <1>6 DEF Knows, Past!Remembers
<1>7. ASSUME time_context' = [time_context EXCEPT ![id] = tc], NEW answer \in Event,
             Await(id, Deterministic({answer})),
             \/ answer = SendOk /\ command.type = "Send"
             \/ answer = SleepUntilOk /\ command.type = "SleepUntil"
             \/ answer = ExpectationMetOk /\ command.type = "ExpectationMet"
             \/ answer = ExpectOk(command.description) /\ command.type = "Expect"
      PROVE  Offers(id)' /\ Knows(id)'
  <2>1. Past!IsAnswer(id, answer)'
    BY <1>1, <1>7
       DEF Past!IsAnswer, Event, Past!Event, Id, Past!Id, Command, Past!Command,
           SendOk, SleepUntilOk, ExpectationMetOk, ExpectOk
  <2>2. answer.type \notin {"DeadlineOk", "DeadlineElapsedOk", "RecvOk"}
    BY <1>7 DEF SendOk, SleepUntilOk, ExpectationMetOk, ExpectOk
  <2>3. /\ enabled_events'[id].kind = "Deterministic"
        /\ enabled_events'[id].option = {answer}
    BY <1>5, <1>7 DEF Deterministic
  <2>4. Offers(id)'
    BY <2>1, <2>2, <2>3 DEF Offers
  <2>5. Brought(id)' = {}
    BY <2>2, <2>3 DEF Brought, Past!Brings
  <2>. QED  BY <1>5, <1>6, <1>7, <2>4, <2>5
<1>8. CASE /\ command.type = "Deadline"
           /\ Await(id, Deterministic({DeadlineOk(tc.next_new_deadline)}))
           /\ time_context' = [time_context EXCEPT ![id] = NewDeadline(tc, command.duration)]
  <2>1. PICK answer \in Event : answer = DeadlineOk(next)
    BY <1>4, EventTypes
  <2>2. answer.type = "DeadlineOk" /\ answer.deadline = next
    BY <2>1 DEF DeadlineOk
  <2>3. next \notin Past!Deadlines(id)'
    BY <1>3, <1>4
  <2>4. Past!IsAnswer(id, answer)'
    BY <1>1, <1>8, <2>2, <2>3
       DEF Past!IsAnswer, Event, Past!Event, Id, Past!Id, Command, Past!Command
  <2>5. /\ enabled_events'[id].kind = "Deterministic"
        /\ enabled_events'[id].option = {answer}
    BY <1>2, <1>5, <1>8, <2>1 DEF Deterministic
  <2>6. Offers(id)'
    BY <2>2, <2>4, <2>5 DEF Offers
  <2>7. Brought(id)' = {next}
    BY <2>2, <2>5 DEF Brought, Past!Brings
  <2>8. /\ DOMAIN time_context'[id].pending_deadlines = deadlines \cup {next}
        /\ time_context'[id].next_new_deadline = next + 1
    <3>1. time_context'[id] = NewDeadline(tc, command.duration)
      BY <1>5, <1>8
    <3>. QED  BY <1>2, <3>1 DEF NewDeadline
  <2>9. Knows(id)'
    BY <1>3, <1>4, <2>7, <2>8 DEF Knows, Past!Remembers
  <2>. QED  BY <2>6, <2>9
<1>9. CASE /\ command.type = "DeadlineElapsed"
           /\ Await(id, DeadlineElapsedIs(Possibilities(tc, command.deadline)))
           /\ time_context' = [time_context EXCEPT ![id] = tc]
  <2>1. /\ enabled_events'[id].kind = "DeadlineElapsed"
        /\ enabled_events'[id].remaining = Possibilities(tc, command.deadline)
    BY <1>5, <1>9 DEF DeadlineElapsedIs
  <2>2. FALSE \in Possibilities(tc, command.deadline) => command.deadline \in deadlines
    BY <1>2 DEF Possibilities
  <2>3. Offers(id)'
    BY <1>1, <1>3, <1>9, <2>1, <2>2 DEF Offers, Asked
  <2>4. Brought(id)' = {}
    BY <2>1 DEF Brought
  <2>. QED  BY <1>5, <1>6, <1>9, <2>3, <2>4
<1>10. CASE /\ command.type = "Recv"
            /\ Await(id, Receiving)
            /\ time_context' = [time_context EXCEPT ![id] = tc]
  <2>1. enabled_events'[id].kind = "Recv"
    BY <1>5, <1>10 DEF Receiving
  <2>2. Offers(id)' /\ Brought(id)' = {}
    BY <1>1, <1>10, <2>1 DEF Offers, Asked, Brought
  <2>. QED  BY <1>5, <1>6, <1>10, <2>2
<1>11. CASE /\ command.type \in {"Exit", "Panic"}
            /\ Await(id, Deterministic({}))
            /\ time_context' = [time_context EXCEPT ![id] = tc]
  <2>1. enabled_events'[id].kind = "Deterministic" /\ enabled_events'[id].option = {}
    BY <1>5, <1>11 DEF Deterministic
  <2>2. Offers(id)' /\ Brought(id)' = {}
    BY <2>1 DEF Offers, Brought
  <2>. QED  BY <1>5, <1>6, <1>11, <2>2
<1>12. CASE /\ time_context' = [time_context EXCEPT ![id] = tc]
            /\ \/ command.type = "Send" /\ Await(id, Deterministic({SendOk}))
               \/ command.type = "SleepUntil" /\ Await(id, Deterministic({SleepUntilOk}))
               \/ command.type = "ExpectationMet" /\ Await(id, Deterministic({ExpectationMetOk}))
               \/ command.type = "Expect" /\ Await(id, Deterministic({ExpectOk(command.description)}))
  BY <1>7, <1>12, CommandFields, EventTypes
<1>. QED  BY <1>8, <1>9, <1>10, <1>11, <1>12 DEF Perform

-----------------------------------------------------------------------------
(* The trace and the inboxes                                               *)

\* The latest query is that of the new record, if it is one of the actor's.
LEMMA LastQueryAfter ==
    ASSUME trace_records \in Seq(TraceRecord), NEW record \in TraceRecord, NEW id \in Id,
           trace_records' = Append(trace_records, record)
    PROVE  /\ record.id = id /\ record.command.type = "DeadlineElapsed"
                  => LastQuery(id)' = {record.command.deadline}
           /\ ~(record.id = id /\ record.command.type = "DeadlineElapsed")
                  => LastQuery(id)' = LastQuery(id)
<1>. DEFINE last == Len(trace_records) + 1
            IsQuery(r) == r.id = id /\ r.command.type = "DeadlineElapsed"
            queries == {k \in 1 .. Len(trace_records) : IsQuery(trace_records[k])}
<1>1. /\ Len(trace_records) \in Nat
      /\ DOMAIN trace_records = 1 .. Len(trace_records)
      /\ DOMAIN trace_records' = 1 .. last
      /\ trace_records'[last] = record
      /\ \A k \in 1 .. Len(trace_records) : trace_records'[k] = trace_records[k]
  OBVIOUS
<1>2. LastQuery(id) = {trace_records[k].command.deadline :
                          k \in {q \in queries : \A r \in queries : r <= q}}
  BY <1>1 DEF LastQuery
<1>3. PICK later : later = {k \in 1 .. last : IsQuery(trace_records'[k])}
  OBVIOUS
<1>4. LastQuery(id)' = {trace_records'[k].command.deadline :
                           k \in {q \in later : \A r \in later : r <= q}}
  BY <1>1, <1>3 DEF LastQuery
<1>5. CASE IsQuery(record)
  <2>1. last \in later /\ \A r \in later : r <= last /\ r \in Int
    BY <1>1, <1>3, <1>5
  <2>2. {q \in later : \A r \in later : r <= q} = {last}
    BY <1>1, <2>1
  <2>3. LastQuery(id)' = {trace_records'[k].command.deadline : k \in {last}}
    BY <1>4, <2>2
  <2>4. {trace_records'[k].command.deadline : k \in {last}} = {record.command.deadline}
    BY <1>1
  <2>. QED  BY <1>5, <2>3, <2>4
<1>6. CASE ~IsQuery(record)
  <2>1. later = queries
    BY <1>1, <1>3, <1>6
  <2>2. \A k \in queries : trace_records'[k] = trace_records[k]
    BY <1>1
  <2>. QED  BY <1>2, <1>4, <1>6, <2>1, <2>2
<1>. QED  BY <1>5, <1>6

\* What is queued after a step was queued before, or is the command.
LEMMA QueuedAfter ==
    ASSUME OfferInv, NEW id \in Id, NEW event, Delivered(id, event),
           NEW command \in Command, command = CommandFor(id, event),
           NEW tc, NEW new_clock \in Clock,
           Perform(id, command, PopInbox(id, event), tc, new_clock)
    PROVE  QueuedWereSent'
<1>1. /\ event \in Event /\ QueuedWereSent /\ ActorTypeOK
      /\ inbox_by_src \in [Id -> [Id -> Seq(QueuedMessage)]]
  BY DEF Delivered, OfferInv, ActorTypeOK
<1>2. Past!Stepped(id, event) /\ Past!LastCommand(id)' = command
  BY DeliveredIsStep
<1>3. PICK inboxes \in [Id -> [Id -> Seq(QueuedMessage)]] : inboxes = PopInbox(id, event)
  BY <1>1, PopInboxTypes
<1>4. ASSUME NEW dst \in Id, NEW src \in Id, NEW k \in 1 .. Len(inboxes[dst][src])
      PROVE  Past!HasSent(src, dst, inboxes[dst][src][k].msg)'
  <2>1. PICK msg : msg = inboxes[dst][src][k].msg
    OBVIOUS
  <2>2. Past!HasSent(src, dst, msg)
    <3>1. CASE inboxes[dst][src] = inbox_by_src[dst][src]
      BY <1>1, <1>4, <2>1, <3>1 DEF QueuedWereSent
    <3>2. CASE /\ inbox_by_src[dst][src] # << >>
               /\ inboxes[dst][src] = Tail(inbox_by_src[dst][src])
      <4>1. /\ k + 1 \in 1 .. Len(inbox_by_src[dst][src])
            /\ inboxes[dst][src][k] = inbox_by_src[dst][src][k + 1]
        <5>1. \A q \in Seq(QueuedMessage) : q # << >> =>
                 \A i \in 1 .. Len(Tail(q)) : i + 1 \in 1 .. Len(q) /\ Tail(q)[i] = q[i + 1]
          OBVIOUS
        <5>2. inbox_by_src[dst][src] \in Seq(QueuedMessage)
          BY <1>1
        <5>3. k \in 1 .. Len(Tail(inbox_by_src[dst][src]))
          BY <1>4, <3>2, Zenon
        <5>. QED  BY <3>2, <5>1, <5>2, <5>3, Zenon
      <4>. QED  BY <1>1, <2>1, <4>1 DEF QueuedWereSent
    <3>. QED  BY <1>1, <1>3, <3>1, <3>2, PopInboxTypes
  <2>3. Past!HasSent(src, dst, msg)'
    BY <1>2, <2>2, NAssumption, DurationAssumption, Past!HasSentAfter DEF Id, Past!Id
  <2>. QED  BY <2>1, <2>3, <1>3
<1>5. CASE inbox_by_src' = inboxes
  <2>. SUFFICES ASSUME NEW dst \in Id, NEW src \in Id, NEW k \in 1 .. Len(inbox_by_src'[dst][src])
                PROVE  Past!HasSent(src, dst, inbox_by_src[dst][src][k].msg)'
    BY DEF QueuedWereSent
  <2>1. inbox_by_src'[dst][src] = inboxes[dst][src]
    BY <1>5
  <2>2. Past!HasSent(src, dst, inboxes[dst][src][k].msg)'
    BY <1>4, <2>1
  <2>. QED  BY <2>1, <2>2
<1>6. CASE /\ command.type = "Send"
           /\ inbox_by_src' = [inboxes EXCEPT ![command.dst][id] =
                                 Append(@, [msg |-> command.msg, clock |-> new_clock])]
  <2>. DEFINE queue == inboxes[command.dst][id]
              queued == [msg |-> command.msg, clock |-> new_clock]
  <2>1. command.dst \in Id /\ command.msg \in Message /\ queued \in QueuedMessage
    BY <1>6, CommandFields DEF QueuedMessage
  <2>2. PICK dst0, msg0 : dst0 = command.dst /\ msg0 = command.msg
    OBVIOUS
  <2>3. command = [type |-> "Send", dst |-> dst0, msg |-> msg0]
    BY <1>6, <2>2 DEF Command
  <2>4. Past!HasSent(id, dst0, msg0)'
    <3>1. /\ Len(behavior'[id]) \in 1 .. Len(behavior'[id])
      BY <1>1, DeliveredIsStep DEF Delivered, ActorTypeOK
    <3>. QED  BY <1>2, <2>3, <3>1 DEF Past!HasSent, Past!LastCommand
  <2>. SUFFICES ASSUME NEW dst \in Id, NEW src \in Id, NEW k \in 1 .. Len(inbox_by_src'[dst][src])
                PROVE  Past!HasSent(src, dst, inbox_by_src[dst][src][k].msg)'
    BY DEF QueuedWereSent
  <2>5. CASE dst = command.dst /\ src = id
    <3>1. inbox_by_src'[dst][src] = Append(queue, queued) /\ queue \in Seq(QueuedMessage)
      BY <1>6, <2>1, <2>5
    <3>2. CASE k \in 1 .. Len(queue)
      <4>1. inbox_by_src'[dst][src][k] = inboxes[dst][src][k]
        BY <2>1, <2>5, <3>1, <3>2
      <4>. QED  BY <1>4, <2>5, <3>2, <4>1
    <3>3. CASE k = Len(queue) + 1
      <4>1. inbox_by_src'[dst][src][k] = queued
        BY <2>1, <3>1, <3>3
      <4>2. inbox_by_src'[dst][src][k].msg = msg0
        BY <2>2, <4>1
      <4>. QED  BY <2>2, <2>4, <2>5, <4>2
    <3>4. k \in 1 .. Len(queue) \/ k = Len(queue) + 1
      <4>1. Len(Append(queue, queued)) = Len(queue) + 1 /\ Len(queue) \in Nat
        BY <2>1, <3>1
      <4>2. k \in 1 .. Len(queue) + 1
        BY <3>1, <4>1
      <4>3. PICK n \in Nat : n = Len(queue)
        BY <4>1
      <4>4. k \in 1 .. n + 1
        BY <4>2, <4>3
      <4>5. k \in 1 .. n \/ k = n + 1
        BY <4>4
      <4>. QED  BY <4>3, <4>5
    <3>. QED  BY <3>2, <3>3, <3>4
  <2>6. CASE ~(dst = command.dst /\ src = id)
    <3>1. inbox_by_src'[dst][src] = inboxes[dst][src]
      BY <1>6, <2>1, <2>6
    <3>. QED  BY <1>4, <3>1
  <2>. QED  BY <2>5, <2>6
<1>. QED  BY <1>3, <1>5, <1>6 DEF Perform

-----------------------------------------------------------------------------
(* Steps                                                                   *)

\* Nothing has changed for the actor but that more may be sent to it.
Unaffected(id) ==
    /\ behavior'[id] = behavior[id]
    /\ Past!LastCommand(id)' = Past!LastCommand(id)
    /\ Past!Deadlines(id)' = Past!Deadlines(id)
    /\ \A deadline : Past!ToldElapsed(id, deadline)' => Past!ToldElapsed(id, deadline)
    /\ \A answer : Past!IsAnswer(id, answer) => Past!IsAnswer(id, answer)'
    /\ enabled_events'[id] = enabled_events[id]
    /\ time_context'[id] = time_context[id]
    /\ LastQuery(id)' = LastQuery(id)

\* An actor that a step does not concern still offers what it did.
LEMMA UnaffectedOffers ==
    ASSUME NEW id \in Id, Offers(id), Knows(id), Unaffected(id)
    PROVE  Offers(id)' /\ Knows(id)'
<1>1. \A type : Asked(id, type) => Asked(id, type)'
  BY DEF Asked, Unaffected
<1>2. Offers(id)'
  <2>1. enabled_events'[id].kind = "Deterministic" =>
            \A answer \in enabled_events'[id].option :
                /\ enabled_events'[id].option = {answer}
                /\ Past!IsAnswer(id, answer)'
                /\ answer.type \notin {"DeadlineElapsedOk", "RecvOk"}
    BY DEF Offers, Unaffected
  <2>2. enabled_events'[id].kind = "Recv" => Asked(id, "Recv")'
    BY <1>1 DEF Offers, Unaffected
  <2>3. PICK deadline : deadline = Past!LastCommand(id).deadline
    OBVIOUS
  <2>4. Past!LastCommand(id)'.deadline = deadline
    BY <2>3 DEF Unaffected
  <2>5. enabled_events'[id].kind = "DeadlineElapsed" =>
            /\ Asked(id, "DeadlineElapsed")'
            /\ LastQuery(id)' = {deadline}
            /\ FALSE \in enabled_events'[id].remaining =>
                  /\ deadline \in Past!Deadlines(id)'
                  /\ ~Past!ToldElapsed(id, deadline)'
    BY <1>1, <2>3 DEF Offers, Unaffected
  <2>. QED  BY <2>1, <2>2, <2>4, <2>5 DEF Offers
<1>3. Knows(id)'
  <2>1. Brought(id)' = Brought(id)
    BY DEF Brought, Past!Brings, Unaffected
  <2>. QED  BY <2>1 DEF Knows, Past!Remembers, Unaffected
<1>. QED  BY <1>2, <1>3

\* The other actors go on offering what they offered.
LEMMA OthersOffer ==
    ASSUME OfferInv, NEW id \in Id, NEW event, Delivered(id, event),
           NEW other \in Id \ {id},
           enabled_events'[other] = enabled_events[other],
           time_context'[other] = time_context[other],
           LastQuery(other)' = LastQuery(other)
    PROVE  Offers(other)' /\ Knows(other)'
<1>1. Offers(other) /\ Knows(other)
  BY DEF OfferInv, Delivered
<1>2. Past!Stepped(id, event) /\ other \in Past!Id \ {id}
  BY DeliveredIsStep DEF Id, Past!Id
<1>3. Unaffected(other)
  BY <1>2, NAssumption, DurationAssumption, Past!OthersUnchanged DEF Unaffected
<1>. QED  BY <1>1, <1>3, UnaffectedOffers

\* A step answers the behavior, or unwinds without asking it.
LEMMA StepOffers ==
    ASSUME OfferInv, panicked = "None", NEW id \in Id, NEW pending \in EnabledEvents(id),
           Step(id, pending.event, pending.event_clock)
    PROVE  /\ OfferInv'
           /\ UNCHANGED <<cfg_fn, behavior>> \/ Past!StepBehavior
<1>. DEFINE event == pending.event
            event_clock == pending.event_clock
<1>1. ActorTypeOK /\ event \in Event /\ event_clock \in Clock
  BY OffersAreTyped DEF OfferInv
<1>2. ActorTypeOK'
  BY <1>1, StepTypes
<1>3. CASE Refusal(id, event, event_clock) # "None"
  BY <1>2, <1>3 DEF OfferInv, Step, Advance, Refuse
<1>4. CASE Refusal(id, event, event_clock) = "None"
  <2>1. Deliver(id, event, event_clock) /\ cfg_fn' = cfg_fn
    BY <1>4 DEF Step, Advance
  <2>2. Delivered(id, event)
    BY <1>1, <2>1 DEF Delivered, Deliver
  <2>3. Past!StepBehavior
    BY <2>2, DeliveredIsStep
  <2>4. CASE panicked' # "None"
    BY <1>2, <2>3, <2>4 DEF OfferInv
  <2>5. CASE panicked' = "None"
    <3>1. PICK command \in Command : command = CommandFor(id, event)
      BY <2>1, <2>5, PerformedIsCommand DEF Deliver
    <3>2. PICK tc : tc = TimeAfter(id, event)
      OBVIOUS
    <3>3. IsContext(tc)
      BY <1>1, <3>2, ContextTypes DEF TimeAfter, ActorTypeOK
    <3>4. Perform(id, command, PopInbox(id, event), tc, Tick(id, event_clock))
      BY <2>1, <2>5, <3>1, <3>2 DEF Deliver
    <3>5. Tick(id, event_clock) \in Clock
      BY <1>1, TickTypes
    <3>6. PICK record \in TraceRecord : record = NewRecord(id, event, event_clock)
      BY <1>1, NewRecordTypes
    <3>7. /\ trace_records' = Append(trace_records, record)
          /\ record.id = id /\ record.command = command
      BY <1>4, <2>1, <2>5, <3>1, <3>6 DEF Step, NewRecord, Deliver
    <3>8. trace_records \in Seq(TraceRecord)
      BY <1>1 DEF ActorTypeOK
    <3>9. Offers(id)' /\ Knows(id)'
      <4>1. command.type = "DeadlineElapsed" => LastQuery(id)' = {command.deadline}
        BY <3>7, <3>8, LastQueryAfter
      <4>. QED  BY <2>2, <3>1, <3>2, <3>3, <3>4, <4>1, PerformedIsOffered
    <3>10. ASSUME NEW other \in Id \ {id}
           PROVE  Offers(other)' /\ Knows(other)'
      <4>1. LastQuery(other)' = LastQuery(other)
        BY <3>7, <3>8, LastQueryAfter
      <4>2. /\ enabled_events'[other] = enabled_events[other]
            /\ time_context'[other] = time_context[other]
        BY <1>1, <3>4 DEF Perform, Await, ActorTypeOK
      <4>. QED  BY <2>2, <4>1, <4>2, OthersOffer
    <3>11. QueuedWereSent'
      BY <2>2, <3>1, <3>4, <3>5, QueuedAfter
    <3>. QED  BY <1>2, <2>3, <3>9, <3>10, <3>11 DEF OfferInv
  <2>. QED  BY <2>4, <2>5
<1>. QED  BY <1>3, <1>4

\* Actors that have just been created or reset ...
AtStart ==
    /\ ActorTypeOK
    /\ \A id \in Id : /\ behavior[id] = << >>
                      /\ enabled_events[id] = Spawned(id)
                      /\ time_context[id] = EmptyContext
    /\ \A dst, src \in Id : inbox_by_src[dst][src] = << >>

\* ... offer the one event that begins a history.
LEMMA StartOffers == AtStart => OfferInv
<1>. SUFFICES ASSUME AtStart PROVE OfferInv
  OBVIOUS
<1>1. QueuedWereSent
  <2>1. Len(<< >>) = 0
    OBVIOUS
  <2>. QED  BY <2>1 DEF AtStart, QueuedWereSent
<1>2. ASSUME NEW id \in Id
      PROVE  Offers(id) /\ Knows(id)
  <2>1. /\ SpawnOk(id) \in Event /\ SpawnOk(id).type = "SpawnOk"
        /\ behavior[id] = << >>
    BY EventTypes DEF SpawnOk, AtStart
  <2>2. /\ enabled_events[id].kind = "Deterministic"
        /\ enabled_events[id].option = {SpawnOk(id)}
    <3>1. enabled_events[id] = Deterministic({SpawnOk(id)})
      BY DEF Spawned, AtStart
    <3>. QED  BY <3>1 DEF Deterministic
  <2>3. Past!IsAnswer(id, SpawnOk(id))
    BY <2>1 DEF Past!IsAnswer, Event, Past!Event, Id, Past!Id, SpawnOk, Past!SpawnOk
  <2>4. Offers(id)
    BY <2>1, <2>2, <2>3 DEF Offers
  <2>5. Brought(id) = {}
    BY <2>1, <2>2 DEF Brought, Past!Brings
  <2>6. Past!Deadlines(id) = {}
    BY <2>1 DEF Past!Deadlines
  <2>7. DOMAIN time_context[id].pending_deadlines = {}
    BY DEF EmptyContext, NoDeadlines, AtStart
  <2>. QED  BY <2>4, <2>5, <2>6, <2>7 DEF Knows, Past!Remembers
<1>. QED  BY <1>1, <1>2 DEF AtStart, OfferInv

\* So does the state that a reset leads to.
LEMMA StartOffersAgain == AtStart' => OfferInv'
BY StartOffers, PTL

\* Initially the actors offer their answers to the spawning.
LEMMA InitOffers == ActorInit => OfferInv
<1>1. ActorInit => AtStart
  BY InitTypes DEF ActorInit, AtStart
<1>. QED  BY <1>1, StartOffers

\* OfferInv is inductive, and a step is one of the abstract runtime or hidden.
LEMMA NextOffers ==
    ASSUME OfferInv, [ActorNext]_actor_vars
    PROVE  /\ OfferInv'
           /\ \/ UNCHANGED <<cfg_fn, behavior>>
              \/ Past!StepBehavior
              \/ Past!Restart
<1>1. ActorTypeOK'
  BY NextTypes DEF OfferInv
<1>2. CASE Schedule
  BY <1>2, StepOffers DEF Schedule
<1>3. CASE ResetActors
  <2>1. AtStart'
    BY <1>1, <1>3 DEF ResetActors, AtStart, Spawned, SpawnOk, Deterministic,
                      EmptyContext, NoDeadlines
  <2>2. Past!Restart
    BY <1>3 DEF ResetActors, Past!Restart, Id, Past!Id
  <2>. QED  BY <2>1, <2>2, StartOffersAgain
<1>4. CASE UNCHANGED actor_vars
  <2>1. UNCHANGED <<cfg_fn, behavior, enabled_events, inbox_by_src, time_context, trace_records,
                    panicked>>
    BY <1>4 DEF actor_vars, actors
  <2>2. QueuedWereSent => QueuedWereSent'
    BY <2>1, HistoryUnchanged DEF QueuedWereSent
  <2>3. ASSUME NEW id \in Id
        PROVE  Unaffected(id)
    <3>1. LastQuery(id)' = LastQuery(id)
      BY <2>1 DEF LastQuery
    <3>. QED  BY <2>1, <3>1, HistoryUnchanged DEF Unaffected
  <2>4. \A id \in Id : Offers(id) /\ Knows(id) => Offers(id)' /\ Knows(id)'
    BY <2>3, UnaffectedOffers
  <2>. QED  BY <1>1, <2>1, <2>2, <2>4 DEF OfferInv
<1>. QED  BY <1>2, <1>3, <1>4 DEF ActorNext

\* OfferInv holds throughout.
LEMMA OfferInvHolds == ActorSpec => []OfferInv
<1>. QED  BY InitOffers, NextOffers, PTL DEF ActorSpec

(***************************************************************************)
(* The actors of the verifier implement the abstract runtime (verifier.rs, *)
(* step and EnabledEventIterator; sdk.rs, the match in every function): in *)
(* any schedule a behavior only gets answers to its last command.          *)
(***************************************************************************)
THEOREM ActorsImplementRuntime == ActorSpec => ImplementsRuntime
<1>1. ActorInit => Abstract!Init
  BY DEF ActorInit, Abstract!Init, Id, Abstract!Id
<1>2. OfferInv /\ [ActorNext]_actor_vars
          => [Abstract!StepBehavior \/ Abstract!Restart]_(Abstract!vars)
  <2>1. Past!StepBehavior => Abstract!StepBehavior
    BY DEF Past!StepBehavior, Abstract!StepBehavior, Past!Answer, Abstract!Answer,
           Past!IsAnswer, Abstract!IsAnswer, Past!HasSent, Abstract!HasSent,
           Past!ToldElapsed, Abstract!ToldElapsed, Past!Deadlines, Abstract!Deadlines,
           Past!LastCommand, Abstract!LastCommand, Past!CommandAfter, Abstract!CommandAfter,
           Past!Id, Abstract!Id, Past!Event, Abstract!Event, Past!Command,
           Abstract!Command, Past!SpawnOk, Abstract!SpawnOk,
           Past!DeadlineOk, Abstract!DeadlineOk,
           Past!DeadlineElapsedOk, Abstract!DeadlineElapsedOk
  <2>2. Past!Restart => Abstract!Restart
    BY DEF Past!Restart, Abstract!Restart, Past!Id, Abstract!Id
  <2>. QED  BY <2>1, <2>2, NextOffers DEF Abstract!vars
<1>. QED  BY <1>1, <1>2, OfferInvHolds, PTL DEF ActorSpec, ImplementsRuntime, Abstract!RestartingSpec

-----------------------------------------------------------------------------
(* Refusals                                                                *)

(***************************************************************************)
(* What an actor offers is not refused: the assertions of Verifier::step   *)
(* on a recorded event only matter when a prefix is replayed.              *)
(***************************************************************************)
LEMMA OffersAreAccepted ==
    ASSUME OfferInv, panicked = "None", NEW id \in Id, NEW pending \in EnabledEvents(id)
    PROVE  /\ Refusal(id, pending.event, pending.event_clock) = "None"
           /\ IF pending.event.type = "RecvOk"
              THEN LET inbox == inbox_by_src[id][pending.event.src]
                   IN  /\ pending.event.src \in Id
                       /\ inbox \in Seq(QueuedMessage) /\ inbox # << >>
                       /\ Head(inbox) = [msg |-> pending.event.msg, clock |-> pending.event_clock]
              ELSE pending.event_clock = New
<1>. DEFINE iterator == enabled_events[id]
            event == pending.event
<1>1. ActorTypeOK /\ Offers(id) /\ iterator \in Iterator
  BY DEF OfferInv, ActorTypeOK
<1>2. CASE iterator.kind = "Deterministic"
  <2>1. PICK e \in iterator.option : pending = Pending(e, New)
    BY <1>2 DEF EnabledEvents
  <2>2. event.type \notin {"DeadlineElapsedOk", "RecvOk"} /\ pending.event_clock = New
    BY <1>1, <1>2, <2>1 DEF Offers, Pending
  <2>3. event # DeadlineElapsedOk(TRUE)
    BY <2>2 DEF DeadlineElapsedOk
  <2>4. Refusal(id, event, pending.event_clock) = "None"
    BY <2>2, <2>3 DEF Refusal
  <2>. QED  BY <2>2, <2>4
<1>3. CASE iterator.kind = "DeadlineElapsed"
  <2>1. event.type = "DeadlineElapsedOk" /\ pending.event_clock = New
    BY <1>3 DEF EnabledEvents, Pending, DeadlineElapsedOk
  <2>2. LastQuery(id) # {}
    BY <1>1, <1>3 DEF Offers
  <2>. QED  BY <2>1, <2>2 DEF Refusal
<1>4. CASE iterator.kind = "Recv"
  <2>1. PICK src \in Id :
            /\ inbox_by_src[id][src] # << >>
            /\ pending = Pending(RecvOk(src, Head(inbox_by_src[id][src]).msg),
                                 Head(inbox_by_src[id][src]).clock)
    BY <1>4 DEF EnabledEvents
  <2>. DEFINE inbox == inbox_by_src[id][src]
  <2>2. inbox \in Seq(QueuedMessage) /\ Head(inbox) \in QueuedMessage
    BY <1>1, <2>1 DEF ActorTypeOK
  <2>3. /\ event.type = "RecvOk" /\ event.src = src /\ event.msg = Head(inbox).msg
        /\ pending.event_clock = Head(inbox).clock
    BY <2>1 DEF Pending, RecvOk
  <2>4. Head(inbox) = [msg |-> event.msg, clock |-> pending.event_clock]
    BY <2>2, <2>3 DEF QueuedMessage
  <2>5. Refusal(id, event, pending.event_clock) = "None"
    BY <2>1, <2>3 DEF Refusal
  <2>. QED  BY <2>1, <2>2, <2>3, <2>4, <2>5
<1>. QED  BY <1>1, <1>2, <1>3, <1>4 DEF Iterator

(***************************************************************************)
(* A scheduled step is recorded, also one that unwinds; it takes out of an *)
(* inbox what it receives, and puts into one what it is recorded to send.  *)
(***************************************************************************)
LEMMA ScheduledStep ==
    ASSUME OfferInv, panicked = "None", NEW id \in Id, NEW pending \in EnabledEvents(id),
           Step(id, pending.event, pending.event_clock)
    PROVE  LET rec     == NewRecord(id, pending.event, pending.event_clock)
               inboxes == PopInbox(id, pending.event)
               message == [msg |-> rec.command.msg, clock |-> rec.clock]
           IN  /\ rec \in TraceRecord
               /\ rec.id = id
               /\ rec.event = pending.event /\ rec.event_clock = pending.event_clock
               /\ rec.clock = Tick(id, pending.event_clock)
               /\ trace_records' = Append(trace_records, rec)
               /\ clock' = [clock EXCEPT ![id] = rec.clock]
               /\ IF rec.command.type = "Send"
                  THEN /\ rec.command.dst \in Id /\ message \in QueuedMessage
                       /\ inbox_by_src' = [inboxes EXCEPT ![rec.command.dst][id] = Append(@, message)]
                  ELSE inbox_by_src' = inboxes
<1>. DEFINE event == pending.event
            event_clock == pending.event_clock
            rec == NewRecord(id, event, event_clock)
            inboxes == PopInbox(id, event)
            command == CommandFor(id, event)
            message == [msg |-> rec.command.msg, clock |-> rec.clock]
<1>1. ActorTypeOK /\ event \in Event /\ event_clock \in Clock
  BY OffersAreTyped DEF OfferInv
<1>2. Refusal(id, event, event_clock) = "None"
  BY OffersAreAccepted
<1>3. /\ trace_records' = Append(trace_records, rec)
      /\ clock' = [clock EXCEPT ![id] = Tick(id, event_clock)]
      /\ Deliver(id, event, event_clock)
  BY <1>2 DEF Step, Advance
<1>4. /\ rec \in TraceRecord /\ rec.id = id
      /\ rec.event = event /\ rec.event_clock = event_clock
      /\ rec.clock = Tick(id, event_clock)
  BY <1>1, NewRecordTypes DEF NewRecord
<1>5. rec.clock \in Clock
  BY <1>1, <1>4, TickTypes
<1>6. CASE panicked' = "None"
  <2>1. /\ command \in Command /\ rec.command = command
        /\ Perform(id, command, inboxes, TimeAfter(id, event), Tick(id, event_clock))
    BY <1>3, <1>6, PerformedIsCommand DEF Deliver, NewRecord
  <2>2. CASE command.type = "Send"
    <3>1. command.dst \in Id /\ command.msg \in Message
      BY <2>1, <2>2, CommandFields
    <3>2. inbox_by_src' = [inboxes EXCEPT ![command.dst][id] =
                             Append(@, [msg |-> command.msg, clock |-> Tick(id, event_clock)])]
      BY <2>1, <2>2 DEF Perform
    <3>. QED  BY <1>3, <1>4, <1>5, <2>1, <2>2, <3>1, <3>2 DEF QueuedMessage
  <2>3. CASE command.type # "Send"
    <3>1. inbox_by_src' = inboxes
      BY <2>1, <2>3 DEF Perform
    <3>. QED  BY <1>3, <1>4, <2>1, <2>3, <3>1
  <2>. QED  BY <2>2, <2>3
<1>7. CASE panicked' # "None"
  <2>1. inbox_by_src' = inboxes /\ rec.command = Placeholder
    BY <1>3, <1>7 DEF Deliver, NewRecord
  <2>2. rec.command.type # "Send"
    BY <2>1 DEF Placeholder
  <2>. QED  BY <1>3, <1>4, <2>1, <2>2
<1>. QED  BY <1>6, <1>7

-----------------------------------------------------------------------------
(* Conservation of messages                                                *)

\* What src sent to dst in the trace, and what dst received, with the clocks.
SentMessages(src, dst) ==
    LET s == Subsequence(trace_records, Sends(src, dst))
    IN  [k \in DOMAIN s |-> [msg |-> s[k].command.msg, clock |-> s[k].clock]]

ReceivedMessages(src, dst) ==
    LET s == Subsequence(trace_records, Receives(src, dst))
    IN  [k \in DOMAIN s |-> [msg |-> s[k].event.msg, clock |-> s[k].event_clock]]

(***************************************************************************)
(* The inductive invariant: messages are conserved together with the       *)
(* clocks they were sent with.                                             *)
(***************************************************************************)
Conserved ==
    \A src, dst \in Id :
        SentMessages(src, dst) = ReceivedMessages(src, dst) \o inbox_by_src[dst][src]

\* What was sent and received between two actors is a sequence.
LEMMA MessagesAreSequences ==
    ASSUME ActorTypeOK, NEW src, NEW dst
    PROVE  /\ Subsequence(trace_records, Sends(src, dst)) \in Seq(TraceRecord)
           /\ Subsequence(trace_records, Receives(src, dst)) \in Seq(TraceRecord)
           /\ \E V : SentMessages(src, dst) \in Seq(V) /\ ReceivedMessages(src, dst) \in Seq(V)
<1>. DEFINE s == Subsequence(trace_records, Sends(src, dst))
            r == Subsequence(trace_records, Receives(src, dst))
<1>1. s \in Seq(TraceRecord) /\ r \in Seq(TraceRecord)
  BY SubsequenceIsSeq DEF ActorTypeOK
<1>. HIDE DEF s, r
<1>. DEFINE sent(k) == [msg |-> s[k].command.msg, clock |-> s[k].clock]
            received(k) == [msg |-> r[k].event.msg, clock |-> r[k].event_clock]
            V == {sent(k) : k \in DOMAIN s} \cup {received(k) : k \in DOMAIN r}
<1>2. \A k \in DOMAIN s : sent(k) \in V
  OBVIOUS
<1>3. \A k \in DOMAIN r : received(k) \in V
  OBVIOUS
<1>. HIDE DEF V, sent, received
<1>4. [k \in DOMAIN s |-> sent(k)] \in Seq(V) /\ [k \in DOMAIN r |-> received(k)] \in Seq(V)
  BY <1>1, <1>2, <1>3
<1>5. SentMessages(src, dst) \in Seq(V) /\ ReceivedMessages(src, dst) \in Seq(V)
  BY <1>4 DEF SentMessages, ReceivedMessages, s, r, sent, received
<1>. QED  BY <1>1, <1>5 DEF s, r

\* A step that sends to dst comes last in what was sent there, and so on.
LEMMA MessagesAfter ==
    ASSUME ActorTypeOK, NEW rec \in TraceRecord, trace_records' = Append(trace_records, rec),
           NEW src, NEW dst
    PROVE  /\ SentMessages(src, dst)' =
                 IF rec.id = src /\ Sent(rec, dst)
                 THEN Append(SentMessages(src, dst), [msg |-> rec.command.msg, clock |-> rec.clock])
                 ELSE SentMessages(src, dst)
           /\ ReceivedMessages(src, dst)' =
                 IF rec.id = dst /\ Received(rec, src)
                 THEN Append(ReceivedMessages(src, dst),
                             [msg |-> rec.event.msg, clock |-> rec.event_clock])
                 ELSE ReceivedMessages(src, dst)
<1>. DEFINE T == trace_records
            n == Len(T)
            S == Sends(src, dst)
            R == Receives(src, dst)
<1>1. T \in Seq(TraceRecord)
  BY DEF ActorTypeOK
<1>2. n \in Nat /\ DOMAIN T = 1 .. n
  BY <1>1
<1>3. T' = Append(T, rec) /\ T' \in Seq(TraceRecord) /\ DOMAIN T' = 1 .. n + 1
      /\ T'[n + 1] = rec /\ \A k \in 1 .. n : T'[k] = T[k] /\ k \in DOMAIN T' /\ k # n + 1
  BY <1>1
<1>. HIDE DEF n, T
<1>4. /\ \A k \in 1 .. n : (k \in S' <=> k \in S) /\ (k \in R' <=> k \in R)
      /\ n + 1 \in S' <=> rec.id = src /\ Sent(rec, dst)
      /\ n + 1 \in R' <=> rec.id = dst /\ Received(rec, src)
  BY <1>2, <1>3 DEF Sends, Receives, Sent, Received, T
<1>. HIDE DEF S, R
<1>5. Subsequence(T, S') = Subsequence(T, S) /\ Subsequence(T, R') = Subsequence(T, R)
  BY <1>1, <1>4, SubsequenceAgrees DEF n
<1>6. /\ Subsequence(T', S') = IF n + 1 \in S' THEN Append(Subsequence(T, S), rec)
                               ELSE Subsequence(T, S)
      /\ Subsequence(T', R') = IF n + 1 \in R' THEN Append(Subsequence(T, R), rec)
                               ELSE Subsequence(T, R)
  BY <1>1, <1>3, <1>5, SubsequenceOfAppend DEF n
<1>7. Subsequence(T, S) \in Seq(TraceRecord) /\ Subsequence(T, R) \in Seq(TraceRecord)
  BY <1>1, SubsequenceIsSeq
<1>8. SentMessages(src, dst)' =
         IF n + 1 \in S'
         THEN Append(SentMessages(src, dst), [msg |-> rec.command.msg, clock |-> rec.clock])
         ELSE SentMessages(src, dst)
  <2>. DEFINE s == Subsequence(T, S)
              s2 == Subsequence(T', S')
  <2>1. /\ SentMessages(src, dst) = [k \in DOMAIN s |-> [msg |-> s[k].command.msg, clock |-> s[k].clock]]
        /\ SentMessages(src, dst)' = [k \in DOMAIN s2 |-> [msg |-> s2[k].command.msg, clock |-> s2[k].clock]]
    BY DEF SentMessages, T, S
  <2>2. s \in Seq(TraceRecord) /\ s2 = IF n + 1 \in S' THEN Append(s, rec) ELSE s
    BY <1>6, <1>7
  <2>. HIDE DEF s, s2
  <2>. DEFINE a == SentMessages(src, dst)
              b == SentMessages(src, dst)'
              e == [msg |-> rec.command.msg, clock |-> rec.clock]
  <2>3. PICK V : a \in Seq(V)
    BY MessagesAreSequences
  <2>4. Len(a) = Len(s) /\ DOMAIN s = 1 .. Len(s)
    <3>1. DOMAIN a = 1 .. Len(s) /\ Len(s) \in Nat /\ DOMAIN s = 1 .. Len(s)
      BY <2>1, <2>2
    <3>. HIDE DEF a
    <3>. QED  BY <2>3, <3>1
  <2>5. CASE n + 1 \in S'
    <3>1. /\ DOMAIN s2 = 1 .. Len(s) + 1 /\ s2[Len(s) + 1] = rec
          /\ \A k \in 1 .. Len(s) : s2[k] = s[k]
      BY <2>2, <2>5
    <3>2. DOMAIN b = 1 .. Len(a) + 1 /\ b = [k \in DOMAIN b |-> b[k]]
      BY <2>1, <2>4, <3>1
    <3>3. \A k \in 1 .. Len(a) : b[k] = a[k]
      BY <2>1, <2>2, <2>4, <3>1
    <3>4. b[Len(a) + 1] = e
      BY <2>1, <2>2, <2>4, <3>1
    <3>. HIDE DEF a, b, e
    <3>5. b = Append(a, e)
      BY <2>3, <3>2, <3>3, <3>4, AppendByElements
    <3>. QED  BY <2>5, <3>5 DEF a, b, e
  <2>. QED  BY <2>1, <2>2, <2>5
<1>9. ReceivedMessages(src, dst)' =
         IF n + 1 \in R'
         THEN Append(ReceivedMessages(src, dst), [msg |-> rec.event.msg, clock |-> rec.event_clock])
         ELSE ReceivedMessages(src, dst)
  <2>. DEFINE s == Subsequence(T, R)
              s2 == Subsequence(T', R')
  <2>1. /\ ReceivedMessages(src, dst) = [k \in DOMAIN s |-> [msg |-> s[k].event.msg, clock |-> s[k].event_clock]]
        /\ ReceivedMessages(src, dst)' = [k \in DOMAIN s2 |-> [msg |-> s2[k].event.msg, clock |-> s2[k].event_clock]]
    BY DEF ReceivedMessages, T, R
  <2>2. s \in Seq(TraceRecord) /\ s2 = IF n + 1 \in R' THEN Append(s, rec) ELSE s
    BY <1>6, <1>7
  <2>. HIDE DEF s, s2
  <2>. DEFINE a == ReceivedMessages(src, dst)
              b == ReceivedMessages(src, dst)'
              e == [msg |-> rec.event.msg, clock |-> rec.event_clock]
  <2>3. PICK V : a \in Seq(V)
    BY MessagesAreSequences
  <2>4. Len(a) = Len(s) /\ DOMAIN s = 1 .. Len(s)
    <3>1. DOMAIN a = 1 .. Len(s) /\ Len(s) \in Nat /\ DOMAIN s = 1 .. Len(s)
      BY <2>1, <2>2
    <3>. HIDE DEF a
    <3>. QED  BY <2>3, <3>1
  <2>5. CASE n + 1 \in R'
    <3>1. /\ DOMAIN s2 = 1 .. Len(s) + 1 /\ s2[Len(s) + 1] = rec
          /\ \A k \in 1 .. Len(s) : s2[k] = s[k]
      BY <2>2, <2>5
    <3>2. DOMAIN b = 1 .. Len(a) + 1 /\ b = [k \in DOMAIN b |-> b[k]]
      BY <2>1, <2>4, <3>1
    <3>3. \A k \in 1 .. Len(a) : b[k] = a[k]
      BY <2>1, <2>2, <2>4, <3>1
    <3>4. b[Len(a) + 1] = e
      BY <2>1, <2>2, <2>4, <3>1
    <3>. HIDE DEF a, b, e
    <3>5. b = Append(a, e)
      BY <2>3, <3>2, <3>3, <3>4, AppendByElements
    <3>. QED  BY <2>5, <3>5 DEF a, b, e
  <2>. QED  BY <2>1, <2>2, <2>5
<1>. QED  BY <1>4, <1>8, <1>9

\* The queue between two actors after a scheduled step.
LEMMA QueueAfter ==
    ASSUME OfferInv, panicked = "None", NEW id \in Id, NEW pending \in EnabledEvents(id),
           Step(id, pending.event, pending.event_clock),
           NEW src \in Id, NEW dst \in Id
    PROVE  LET rec   == NewRecord(id, pending.event, pending.event_clock)
               queue == inbox_by_src[dst][src]
               rest  == IF rec.id = dst /\ Received(rec, src) THEN Tail(queue) ELSE queue
           IN  /\ rec.id = dst /\ Received(rec, src) =>
                     /\ queue # << >>
                     /\ Head(queue) = [msg |-> rec.event.msg, clock |-> rec.event_clock]
               /\ inbox_by_src'[dst][src] =
                     IF rec.id = src /\ Sent(rec, dst)
                     THEN Append(rest, [msg |-> rec.command.msg, clock |-> rec.clock])
                     ELSE rest
<1>. DEFINE rec     == NewRecord(id, pending.event, pending.event_clock)
            queue   == inbox_by_src[dst][src]
            inboxes == PopInbox(id, pending.event)
            message == [msg |-> rec.command.msg, clock |-> rec.clock]
            rest    == IF rec.id = dst /\ Received(rec, src) THEN Tail(queue) ELSE queue
<1>1. /\ inbox_by_src \in [Id -> [Id -> Seq(QueuedMessage)]]
      /\ inboxes \in [Id -> [Id -> Seq(QueuedMessage)]]
  BY OffersAreTyped, PopInboxTypes DEF OfferInv, ActorTypeOK
<1>2. /\ rec.id = id /\ rec.event = pending.event /\ rec.event_clock = pending.event_clock
      /\ IF rec.command.type = "Send"
         THEN /\ rec.command.dst \in Id /\ message \in QueuedMessage
              /\ inbox_by_src' = [inboxes EXCEPT ![rec.command.dst][id] = Append(@, message)]
         ELSE inbox_by_src' = inboxes
  BY ScheduledStep
<1>3. IF rec.event.type = "RecvOk"
      THEN LET inbox == inbox_by_src[id][rec.event.src]
           IN  /\ rec.event.src \in Id
               /\ inbox # << >>
               /\ Head(inbox) = [msg |-> rec.event.msg, clock |-> rec.event_clock]
      ELSE TRUE
  BY <1>2, OffersAreAccepted
<1>4. inboxes[dst][src] = rest
  BY <1>1, <1>2, <1>3 DEF PopInbox, Received
<1>5. rec.id = dst /\ Received(rec, src) =>
          queue # << >> /\ Head(queue) = [msg |-> rec.event.msg, clock |-> rec.event_clock]
  BY <1>2, <1>3 DEF Received
<1>. HIDE DEF rec, inboxes, message, rest
<1>6. inbox_by_src'[dst][src] = IF rec.id = src /\ Sent(rec, dst) THEN Append(rest, message) ELSE rest
  <2>1. CASE rec.command.type = "Send"
    <3>1. inbox_by_src'[dst][src] =
             IF dst = rec.command.dst /\ src = id
             THEN Append(inboxes[dst][src], message) ELSE inboxes[dst][src]
      <4>1. rec.command.dst \in Id
        BY <1>2, <2>1
      <4>2. inbox_by_src' = [inboxes EXCEPT ![rec.command.dst][id] = Append(@, message)]
        BY <1>2, <2>1
      <4>. QED  BY <1>1, <4>1, <4>2
    <3>. QED  BY <1>2, <1>4, <2>1, <3>1 DEF Sent
  <2>2. CASE rec.command.type # "Send"
    BY <1>2, <1>4, <2>2 DEF Sent
  <2>. QED  BY <2>1, <2>2
<1>. QED  BY <1>5, <1>6 DEF rec, message, rest

\* A scheduled step conserves messages.
LEMMA StepConserves ==
    ASSUME OfferInv, Conserved, panicked = "None",
           NEW id \in Id, NEW pending \in EnabledEvents(id),
           Step(id, pending.event, pending.event_clock)
    PROVE  Conserved'
<1>. SUFFICES ASSUME NEW src \in Id, NEW dst \in Id
              PROVE  SentMessages(src, dst)' =
                        ReceivedMessages(src, dst)' \o inbox_by_src'[dst][src]
  BY DEF Conserved
<1>. DEFINE rec      == NewRecord(id, pending.event, pending.event_clock)
            queue    == inbox_by_src[dst][src]
            rest     == IF rec.id = dst /\ Received(rec, src) THEN Tail(queue) ELSE queue
            in       == [msg |-> rec.event.msg, clock |-> rec.event_clock]
            out      == [msg |-> rec.command.msg, clock |-> rec.clock]
            sent     == SentMessages(src, dst)
            received == ReceivedMessages(src, dst)
            received2 == ReceivedMessages(src, dst)'
<1>1. ActorTypeOK /\ rec \in TraceRecord /\ trace_records' = Append(trace_records, rec)
  BY ScheduledStep DEF OfferInv
<1>2. /\ SentMessages(src, dst)' =
            IF rec.id = src /\ Sent(rec, dst) THEN Append(sent, out) ELSE sent
      /\ received2 = IF rec.id = dst /\ Received(rec, src) THEN Append(received, in) ELSE received
  BY <1>1, MessagesAfter
<1>3. /\ rec.id = dst /\ Received(rec, src) => queue # << >> /\ Head(queue) = in
      /\ inbox_by_src'[dst][src] =
            IF rec.id = src /\ Sent(rec, dst) THEN Append(rest, out) ELSE rest
  BY QueueAfter
<1>4. sent = received \o queue
  BY DEF Conserved
<1>5. PICK V : received \in Seq(V) /\ queue \in Seq(V) /\ out \in V
  <2>1. PICK W : received \in Seq(W)
    BY <1>1, MessagesAreSequences
  <2>2. queue \in Seq(QueuedMessage)
    BY <1>1 DEF ActorTypeOK
  <2>3. received \in Seq(W \cup QueuedMessage \cup {out})
    <3>. HIDE DEF received
    <3>. QED  BY <2>1
  <2>4. queue \in Seq(W \cup QueuedMessage \cup {out})
    BY <2>2
  <2>. QED  BY <2>3, <2>4
<1>. HIDE DEF rec, queue, in, out, sent, received, received2
<1>6. received2 \o rest = sent /\ received2 \in Seq(V) /\ rest \in Seq(V)
  <2>1. CASE rec.id = dst /\ Received(rec, src)
    <3>1. received2 = Append(received, Head(queue)) /\ rest = Tail(queue) /\ queue # << >>
      BY <1>2, <1>3, <2>1
    <3>2. Head(queue) \in V /\ Tail(queue) \in Seq(V)
      BY <1>5, <3>1
    <3>3. received \o queue = Append(received, Head(queue)) \o Tail(queue)
      BY <1>5, <3>1, HeadMoves, Zenon
    <3>4. Append(received, Head(queue)) \in Seq(V)
      BY <1>5, <3>2
    <3>. QED  BY <1>4, <3>1, <3>2, <3>3, <3>4, Zenon
  <2>2. CASE ~(rec.id = dst /\ Received(rec, src))
    BY <1>2, <1>4, <1>5, <2>2
  <2>. QED  BY <2>1, <2>2
<1>. HIDE DEF rest
<1>7. CASE rec.id = src /\ Sent(rec, dst)
  <2>1. received2 \in Seq(V) /\ rest \in Seq(V) /\ out \in V
    BY <1>5, <1>6
  <2>2. Append(received2 \o rest, out) = received2 \o Append(rest, out)
    <3>1. \A a, b \in Seq(V) : \A e \in V : Append(a \o b, e) = a \o Append(b, e)
      BY AppendToConcatenation
    <3>. QED  BY <2>1, <3>1, Zenon
  <2>. QED  BY <1>2, <1>3, <1>6, <1>7, <2>2 DEF received2, sent
<1>8. CASE ~(rec.id = src /\ Sent(rec, dst))
  BY <1>2, <1>3, <1>6, <1>8 DEF received2, sent
<1>. QED  BY <1>7, <1>8

\* In a trace that has just begun there is nothing to conserve.
NothingSent == trace_records = << >> /\ \A dst, src \in Id : inbox_by_src[dst][src] = << >>

\* So it is conserved ...
LEMMA EmptyConserves == NothingSent => Conserved
<1>. SUFFICES ASSUME NothingSent, NEW src \in Id, NEW dst \in Id
              PROVE  SentMessages(src, dst) =
                        ReceivedMessages(src, dst) \o inbox_by_src[dst][src]
  BY DEF Conserved
<1>1. trace_records \in Seq(TraceRecord) /\ \A k \in 1 .. Len(trace_records) : FALSE
  BY DEF NothingSent
<1>2. ASSUME NEW I PROVE Subsequence(trace_records, I) = << >>
  BY <1>1, SubsequenceOfNone
<1>3. SentMessages(src, dst) = << >> /\ ReceivedMessages(src, dst) = << >>
  BY <1>2 DEF SentMessages, ReceivedMessages
<1>. QED  BY <1>3 DEF NothingSent

\* ... and is after a reset.
LEMMA EmptyConservesAgain == NothingSent' => Conserved'
BY EmptyConserves, PTL

\* Conserved is inductive.
LEMMA NextConserves ==
    ASSUME OfferInv, Conserved, [ActorNext]_actor_vars
    PROVE  Conserved'
<1>1. CASE Schedule
  BY <1>1, StepConserves DEF Schedule
<1>2. CASE ResetActors
  <2>1. NothingSent'
    BY <1>2 DEF ResetActors, NothingSent
  <2>. QED  BY <2>1, EmptyConservesAgain
<1>3. CASE UNCHANGED actor_vars
  <2>1. inbox_by_src' = inbox_by_src /\ trace_records' = trace_records
    BY <1>3 DEF actor_vars, actors
  <2>2. ASSUME NEW src, NEW dst
        PROVE  /\ SentMessages(src, dst)' = SentMessages(src, dst)
               /\ ReceivedMessages(src, dst)' = ReceivedMessages(src, dst)
    BY <2>1 DEF SentMessages, ReceivedMessages, Sends, Receives
  <2>. QED  BY <2>1, <2>2 DEF Conserved
<1>. QED  BY <1>1, <1>2, <1>3 DEF ActorNext

\* Conserved holds throughout.
LEMMA ConservedHolds == ActorSpec => []Conserved
<1>1. ActorInit => Conserved
  BY EmptyConserves DEF ActorInit, NothingSent
<1>2. OfferInv /\ Conserved /\ [ActorNext]_actor_vars => Conserved'
  BY NextConserves
<1>. QED  BY <1>1, <1>2, OfferInvHolds, PTL DEF ActorSpec

\* The messages alone are conserved with their clocks.
LEMMA ConservedMessages ==
    ASSUME ActorTypeOK, Conserved
    PROVE  MessagesAreConserved
<1>. SUFFICES ASSUME NEW src \in Id, NEW dst \in Id
              PROVE  LET sends    == Subsequence(trace_records, Sends(src, dst))
                         receives == Subsequence(trace_records, Receives(src, dst))
                         queue    == inbox_by_src[dst][src]
                     IN  [k \in DOMAIN sends |-> sends[k].command.msg] =
                             [k \in DOMAIN receives |-> receives[k].event.msg]
                                 \o [k \in DOMAIN queue |-> queue[k].msg]
  BY DEF MessagesAreConserved
<1>. DEFINE sends    == Subsequence(trace_records, Sends(src, dst))
            receives == Subsequence(trace_records, Receives(src, dst))
            queue    == inbox_by_src[dst][src]
            S == [k \in DOMAIN sends |-> sends[k].command.msg]
            R == [k \in DOMAIN receives |-> receives[k].event.msg]
            Q == [k \in DOMAIN queue |-> queue[k].msg]
            sent == SentMessages(src, dst)
            received == ReceivedMessages(src, dst)
<1>1. /\ sends \in Seq(TraceRecord) /\ receives \in Seq(TraceRecord)
      /\ queue \in Seq(QueuedMessage)
  BY MessagesAreSequences DEF ActorTypeOK
<1>2. sent = received \o queue
  BY DEF Conserved
<1>3. /\ sent = [k \in DOMAIN sends |-> [msg |-> sends[k].command.msg, clock |-> sends[k].clock]]
      /\ received = [k \in DOMAIN receives |->
                        [msg |-> receives[k].event.msg, clock |-> receives[k].event_clock]]
  BY DEF SentMessages, ReceivedMessages
<1>. HIDE DEF sends, receives, queue, sent, received
<1>4. PICK V : sent \in Seq(V) /\ received \in Seq(V)
  BY MessagesAreSequences DEF sent, received
<1>5. /\ Len(sent) = Len(sends) /\ Len(received) = Len(receives)
      /\ \A k \in 1 .. Len(sends) : sent[k].msg = sends[k].command.msg
      /\ \A k \in 1 .. Len(receives) : received[k].msg = receives[k].event.msg
  BY <1>1, <1>3
<1>6. /\ Len(sent) = Len(received) + Len(queue)
      /\ \A k \in 1 .. Len(received) : sent[k] = received[k]
      /\ \A k \in 1 .. Len(queue) : sent[Len(received) + k] = queue[k]
  BY <1>1, <1>2, <1>4
<1>. DEFINE W == {S[k] : k \in DOMAIN sends} \cup {R[k] : k \in DOMAIN receives}
                   \cup {Q[k] : k \in DOMAIN queue}
<1>7. S \in Seq(W) /\ R \in Seq(W) /\ Q \in Seq(W)
  <2>1. /\ DOMAIN sends = 1 .. Len(sends) /\ Len(sends) \in Nat
        /\ DOMAIN receives = 1 .. Len(receives) /\ Len(receives) \in Nat
        /\ DOMAIN queue = 1 .. Len(queue) /\ Len(queue) \in Nat
    BY <1>1
  <2>2. S \in [1 .. Len(sends) -> W] /\ R \in [1 .. Len(receives) -> W]
        /\ Q \in [1 .. Len(queue) -> W]
    BY <2>1
  <2>. HIDE DEF W, S, R, Q
  <2>3. \A n \in Nat : \A f \in [1 .. n -> W] : f \in Seq(W)
    OBVIOUS
  <2>. QED  BY <2>1, <2>2, <2>3, Zenon
<1>8. /\ Len(S) = Len(sends) /\ Len(R) = Len(receives) /\ Len(Q) = Len(queue)
      /\ \A k \in 1 .. Len(sends) : S[k] = sends[k].command.msg
      /\ \A k \in 1 .. Len(receives) : R[k] = receives[k].event.msg
      /\ \A k \in 1 .. Len(queue) : Q[k] = queue[k].msg
  BY <1>1
<1>. HIDE DEF W, S, R, Q
<1>9. Len(S) = Len(R \o Q) /\ R \o Q \in Seq(W)
  <2>1. Len(S) = Len(R) + Len(Q)
    BY <1>5, <1>6, <1>8
  <2>. QED  BY <1>7, <2>1
<1>10. ASSUME NEW k \in 1 .. Len(S)
       PROVE  S[k] = (R \o Q)[k]
  <2>1. CASE k <= Len(R)
    <3>1. k \in 1 .. Len(receives)
      BY <1>1, <1>8, <2>1
    <3>2. S[k] = R[k]
      <4>1. sent[k] = received[k]
        BY <1>5, <1>6, <3>1
      <4>2. k \in 1 .. Len(sends)
        BY <1>8
      <4>3. S[k] = sent[k].msg
        BY <1>5, <1>8, <4>2
      <4>4. R[k] = received[k].msg
        BY <1>5, <1>8, <3>1
      <4>. QED  BY <4>1, <4>3, <4>4
    <3>3. (R \o Q)[k] = R[k]
      BY <1>7, <2>1
    <3>. QED  BY <3>2, <3>3
  <2>2. CASE ~(k <= Len(R))
    <3>. DEFINE l == k - Len(R)
    <3>4. Len(R) \in Nat /\ Len(Q) \in Nat /\ Len(S) \in Nat
      BY <1>7
    <3>5. Len(S) = Len(R) + Len(Q)
      BY <1>5, <1>6, <1>8
    <3>1. l \in 1 .. Len(Q) /\ k = Len(R) + l
      BY <2>2, <3>4, <3>5
    <3>2. S[k] = Q[l]
      <4>1. l \in 1 .. Len(queue) /\ k = Len(received) + l /\ k \in 1 .. Len(sends)
        BY <1>5, <1>8, <3>1
      <4>. HIDE DEF l
      <4>2. S[k] = sends[k].command.msg /\ sent[k].msg = sends[k].command.msg
        BY <1>5, <1>8, <4>1
      <4>3. sent[k] = queue[l] /\ Q[l] = queue[l].msg
        BY <1>6, <1>8, <4>1
      <4>. QED  BY <4>2, <4>3
    <3>3. (R \o Q)[k] = Q[l]
      BY <1>7, <1>9, <2>2
    <3>. QED  BY <3>2, <3>3
  <2>. QED  BY <2>1, <2>2
<1>11. S = R \o Q
  BY <1>7, <1>9, <1>10, SameElements
<1>. QED  BY <1>11 DEF S, R, Q, sends, receives, queue

(***************************************************************************)
(* Between two actors of any configuration no message is lost, duplicated  *)
(* or overtaken, in any schedule and after any number of resets: what one  *)
(* sent is what the other received followed by what is still queued (the   *)
(* inboxes of verifier.rs, Verifier::step).                                *)
(***************************************************************************)
THEOREM MessagesStayConserved == ActorSpec => []MessagesAreConserved
BY ActorsAreWellTyped, ConservedHolds, ConservedMessages, PTL

-----------------------------------------------------------------------------
(* Happens before                                                          *)

\* A clock of zeros, or the one that a step of the actor up to the k-th set.
SetBy(T, v, id, k) ==
    \/ \A j \in Pos : At(v, j) = 0
    \/ \E l \in 1 .. k : T[l].id = id /\ v = T[l].clock

\* The clock of a step is made of the actor's previous one and the event's.
LinkedRecord(T, k) ==
    LET r == T[k]
    IN  /\ r.event.type # "RecvOk" => r.event_clock = New
        /\ \E p \in Clock :
              /\ SetBy(T, p, r.id, k - 1)
              /\ r.clock = MergeIn(Increment(p, r.id), r.event_clock)
              /\ At(r.event_clock, r.id) <= At(p, r.id)

(***************************************************************************)
(* The inductive invariant: every clock comes from the step before it, and *)
(* no event knows more of the actor's own steps than the actor.            *)
(***************************************************************************)
LinkedClocks ==
    /\ \A k \in DOMAIN trace_records : LinkedRecord(trace_records, k)
    /\ \A id \in Id : SetBy(trace_records, clock[id], id, Len(trace_records))

\* Where a clock comes from does not change when the trace grows.
LEMMA SetByStays ==
    ASSUME NEW T \in Seq(TraceRecord), NEW rec \in TraceRecord, NEW v, NEW id,
           NEW k \in Nat, NEW l \in Nat, k <= Len(T), k <= l, SetBy(T, v, id, k)
    PROVE  SetBy(Append(T, rec), v, id, l)
<1>1. CASE \A j \in Pos : At(v, j) = 0
  BY <1>1 DEF SetBy
<1>2. CASE \E m \in 1 .. k : T[m].id = id /\ v = T[m].clock
  <2>1. PICK m \in 1 .. k : T[m].id = id /\ v = T[m].clock
    BY <1>2
  <2>2. m \in 1 .. l /\ Append(T, rec)[m] = T[m]
    BY <2>1
  <2>. QED  BY <2>1, <2>2 DEF SetBy
<1>. QED  BY <1>1, <1>2 DEF SetBy

\* Nor does what the clock of a step is made of.
LEMMA LinkedStays ==
    ASSUME NEW T \in Seq(TraceRecord), NEW rec \in TraceRecord, NEW k \in DOMAIN T,
           LinkedRecord(T, k)
    PROVE  LinkedRecord(Append(T, rec), k)
<1>. DEFINE r == T[k]
<1>1. Append(T, rec)[k] = r
  OBVIOUS
<1>2. k - 1 \in Nat /\ k - 1 <= Len(T)
  OBVIOUS
<1>3. PICK p \in Clock :
        /\ SetBy(T, p, r.id, k - 1)
        /\ r.clock = MergeIn(Increment(p, r.id), r.event_clock)
        /\ At(r.event_clock, r.id) <= At(p, r.id)
  BY DEF LinkedRecord
<1>4. SetBy(Append(T, rec), p, r.id, k - 1)
  BY <1>2, <1>3, SetByStays
<1>5. r.event.type # "RecvOk" => r.event_clock = New
  BY DEF LinkedRecord
<1>. QED  BY <1>1, <1>3, <1>4, <1>5 DEF LinkedRecord

\* A scheduled step links its clock to those before it.
LEMMA StepLinks ==
    ASSUME OfferInv, CausalInv, LinkedClocks, panicked = "None",
           NEW id \in Id, NEW pending \in EnabledEvents(id),
           Step(id, pending.event, pending.event_clock)
    PROVE  LinkedClocks'
<1>. DEFINE T == trace_records
            rec == NewRecord(id, pending.event, pending.event_clock)
            n == Len(T)
<1>1. /\ T \in Seq(TraceRecord) /\ n \in Nat /\ DOMAIN T = 1 .. n
      /\ clock \in [Id -> Clock]
  BY DEF CausalInv, ActorTypeOK
<1>2. /\ rec \in TraceRecord /\ rec.id = id
      /\ rec.event = pending.event /\ rec.event_clock = pending.event_clock
      /\ rec.clock = Tick(id, pending.event_clock)
      /\ trace_records' = Append(T, rec)
      /\ clock' = [clock EXCEPT ![id] = rec.clock]
  BY ScheduledStep
<1>3. /\ DOMAIN Append(T, rec) = 1 .. n + 1 /\ Len(Append(T, rec)) = n + 1
      /\ Append(T, rec)[n + 1] = rec
      /\ \A k \in 1 .. n + 1 : k \in 1 .. n \/ k = n + 1
  BY <1>1, <1>2
<1>4. /\ rec.event.type # "RecvOk" => rec.event_clock = New
      /\ rec.event_clock = New \/ Sound(rec.event_clock, clock, T)
  <2>1. CASE pending.event.type = "RecvOk"
    <3>. DEFINE inbox == inbox_by_src[id][pending.event.src]
    <3>1. /\ pending.event.src \in Id /\ inbox \in Seq(QueuedMessage) /\ inbox # << >>
          /\ Head(inbox) = [msg |-> pending.event.msg, clock |-> pending.event_clock]
      BY <2>1, OffersAreAccepted
    <3>2. 1 \in DOMAIN inbox /\ inbox[1].clock = pending.event_clock
      BY <3>1
    <3>. QED  BY <1>2, <2>1, <3>1, <3>2 DEF CausalInv, SoundClocks
  <2>2. CASE pending.event.type # "RecvOk"
    BY <1>2, <2>2, OffersAreAccepted
  <2>. QED  BY <2>1, <2>2
<1>5. At(rec.event_clock, id) <= At(clock[id], id)
  <2>1. At(clock[id], id) \in Nat
    BY <1>1, AtIsNat
  <2>2. CASE rec.event_clock = New
    BY <2>1, <2>2, AtNew
  <2>3. CASE Sound(rec.event_clock, clock, T)
    BY <2>3 DEF Sound, Known
  <2>. QED  BY <1>4, <2>2, <2>3
<1>6. LinkedRecord(Append(T, rec), n + 1)
  <2>1. SetBy(T, clock[id], id, n) /\ clock[id] \in Clock
    BY <1>1 DEF LinkedClocks
  <2>2. SetBy(Append(T, rec), clock[id], id, (n + 1) - 1)
    <3>1. n <= Len(T) /\ n <= n /\ (n + 1) - 1 = n
      BY <1>1
    <3>. HIDE DEF rec, n, T
    <3>. QED  BY <1>1, <1>2, <2>1, <3>1, SetByStays
  <2>3. rec.clock = MergeIn(Increment(clock[id], id), rec.event_clock)
    BY <1>2 DEF Tick
  <2>. HIDE DEF rec
  <2>. QED  BY <1>2, <1>3, <1>4, <1>5, <2>1, <2>2, <2>3 DEF LinkedRecord
<1>7. ASSUME NEW k \in 1 .. n PROVE LinkedRecord(Append(T, rec), k)
  <2>1. LinkedRecord(T, k) /\ k \in DOMAIN T
    BY <1>1 DEF LinkedClocks
  <2>. HIDE DEF rec, T, n
  <2>. QED  BY <1>1, <1>2, <2>1, LinkedStays
<1>8. ASSUME NEW j \in Id PROVE SetBy(Append(T, rec), clock'[j], j, n + 1)
  <2>1. CASE j = id
    <3>1. clock'[j] = rec.clock /\ n + 1 \in 1 .. n + 1
      BY <1>1, <1>2, <2>1
    <3>. QED  BY <1>2, <1>3, <2>1, <3>1 DEF SetBy
  <2>2. CASE j # id
    <3>1. clock'[j] = clock[j] /\ SetBy(T, clock[j], j, n)
      BY <1>1, <1>2, <2>2 DEF LinkedClocks
    <3>2. n <= Len(T) /\ n <= n + 1 /\ n + 1 \in Nat
      BY <1>1
    <3>3. SetBy(Append(T, rec), clock[j], j, n + 1)
      <4>. HIDE DEF rec, T, n
      <4>. QED  BY <1>1, <1>2, <3>1, <3>2, SetByStays
    <3>. QED  BY <3>1, <3>3
  <2>. QED  BY <2>1, <2>2
<1>. QED
  <2>. HIDE DEF rec, T, n
  <2>1. \A k \in DOMAIN Append(T, rec) : LinkedRecord(Append(T, rec), k)
    BY <1>3, <1>6, <1>7
  <2>. QED  BY <1>2, <1>3, <1>8, <2>1 DEF LinkedClocks

\* The clocks of a trace that has just begun are zero.
NothingCounted == trace_records = << >> /\ \A id \in Id : \A j : At(clock[id], j) = 0

\* So there is nothing to link ...
LEMMA NothingIsLinked == NothingCounted => LinkedClocks
BY DEF NothingCounted, LinkedClocks, SetBy

\* ... and is not after a reset.
LEMMA NothingIsLinkedAgain == NothingCounted' => LinkedClocks'
BY NothingIsLinked, PTL

\* LinkedClocks is inductive.
LEMMA NextLinks ==
    ASSUME OfferInv, CausalInv, LinkedClocks, [ActorNext]_actor_vars
    PROVE  LinkedClocks'
<1>1. CASE Schedule
  BY <1>1, StepLinks DEF Schedule
<1>2. CASE ResetActors
  <2>1. \A id \in Id : clock[id] \in Clock
    BY DEF CausalInv, ActorTypeOK
  <2>2. NothingCounted'
    BY <1>2, <2>1, AtReset DEF ResetActors, NothingCounted
  <2>. QED  BY <2>2, NothingIsLinkedAgain
<1>3. CASE UNCHANGED actor_vars
  <2>1. clock' = clock /\ trace_records' = trace_records
    BY <1>3 DEF actor_vars, actors
  <2>. QED  BY <2>1 DEF LinkedClocks
<1>. QED  BY <1>1, <1>2, <1>3 DEF ActorNext

\* LinkedClocks holds throughout.
LEMMA LinkedClocksHold == ActorSpec => []LinkedClocks
<1>1. ActorInit => LinkedClocks
  <2>. SUFFICES ASSUME ActorInit PROVE NothingCounted
    BY NothingIsLinked
  <2>. QED  BY NAssumption, AtNewWithLen DEF ActorInit, NothingCounted
<1>2. OfferInv /\ CausalInv /\ LinkedClocks /\ [ActorNext]_actor_vars => LinkedClocks'
  BY NextLinks
<1>. QED  BY <1>1, <1>2, OfferInvHolds, CausalInvHolds, PTL DEF ActorSpec

\* The trace is a sequence of records.
LEMMA TraceIs ==
    ASSUME ActorTypeOK
    PROVE  /\ trace_records \in Seq(TraceRecord)
           /\ Len(trace_records) \in Nat
           /\ DOMAIN trace_records = 1 .. Len(trace_records)
           /\ DOMAIN trace_records \subseteq Nat
           /\ \A k \in DOMAIN trace_records : trace_records[k] \in TraceRecord
<1>1. trace_records \in Seq(TraceRecord)
  BY DEF ActorTypeOK
<1>. QED  BY <1>1

(***************************************************************************)
(* What a step receives was sent, with the clock of the send: the n-th     *)
(* receive takes what the n-th send left.                                  *)
(***************************************************************************)
LEMMA ReceivedWasSent ==
    ASSUME ActorTypeOK, Conserved, NEW src \in Id, NEW dst \in Id, NEW k \in Receives(src, dst)
    PROVE  LET Matches(l) == /\ l \in Sends(src, dst)
                             /\ CountUpTo(Sends(src, dst), l) = CountUpTo(Receives(src, dst), k)
           IN  /\ \E l \in DOMAIN trace_records : Matches(l)
               /\ \A l \in DOMAIN trace_records :
                     Matches(l) => trace_records[l].clock = trace_records[k].event_clock
<1>. DEFINE T == trace_records
            S == Sends(src, dst)
            R == Receives(src, dst)
            s == Subsequence(T, S)
            r == Subsequence(T, R)
            sent == SentMessages(src, dst)
            received == ReceivedMessages(src, dst)
            queue == inbox_by_src[dst][src]
            j == CountUpTo(R, k)
<1>1. /\ T \in Seq(TraceRecord) /\ DOMAIN T = 1 .. Len(T)
      /\ s \in Seq(TraceRecord) /\ r \in Seq(TraceRecord)
      /\ queue \in Seq(QueuedMessage) /\ k \in 1 .. Len(T) /\ k \in R
  <2>1. queue \in Seq(QueuedMessage)
    BY DEF ActorTypeOK
  <2>2. k \in DOMAIN T
    BY DEF Receives
  <2>. QED  BY <2>1, <2>2, MessagesAreSequences, TraceIs
<1>2. /\ sent = [m \in DOMAIN s |-> [msg |-> s[m].command.msg, clock |-> s[m].clock]]
      /\ received = [m \in DOMAIN r |-> [msg |-> r[m].event.msg, clock |-> r[m].event_clock]]
      /\ sent = received \o queue
  BY DEF SentMessages, ReceivedMessages, Conserved
<1>3. PICK V : sent \in Seq(V) /\ received \in Seq(V)
  BY MessagesAreSequences
<1>. HIDE DEF T, S, R, s, r, sent, received, queue, j
<1>4. j \in 1 .. Len(r) /\ r[j] = T[k]
  BY <1>1, SubsequenceElements DEF r, j
<1>5. /\ Len(s) = Len(sent) /\ Len(r) = Len(received)
      /\ \A m \in 1 .. Len(s) : sent[m].clock = s[m].clock
      /\ \A m \in 1 .. Len(r) : received[m].clock = r[m].event_clock
  <2>1. /\ DOMAIN s = 1 .. Len(s) /\ Len(s) \in Nat
        /\ DOMAIN r = 1 .. Len(r) /\ Len(r) \in Nat
    BY <1>1
  <2>2. DOMAIN sent = 1 .. Len(s) /\ DOMAIN received = 1 .. Len(r)
    BY <1>2, <2>1
  <2>3. Len(sent) = Len(s) /\ Len(received) = Len(r)
    BY <1>3, <2>1, <2>2
  <2>. QED  BY <1>2, <2>1, <2>3
<1>6. /\ Len(sent) = Len(received) + Len(queue)
      /\ \A m \in 1 .. Len(received) : sent[m] = received[m]
      /\ Len(queue) \in Nat /\ Len(received) \in Nat
  <2>1. sent = received \o queue
    BY <1>2
  <2>. QED  BY <1>1, <1>3, <2>1
<1>7. j \in 1 .. Len(s) /\ s[j].clock = T[k].event_clock
  <2>1. j \in 1 .. Len(received) /\ j \in 1 .. Len(s)
    BY <1>4, <1>5, <1>6
  <2>2. sent[j] = received[j] /\ sent[j].clock = s[j].clock /\ received[j].clock = r[j].event_clock
    BY <1>4, <1>5, <1>6, <2>1
  <2>. QED  BY <1>4, <2>1, <2>2
<1>8. PICK l \in 1 .. Len(T) : l \in S /\ CountUpTo(S, l) = j
  BY <1>1, <1>7, SubsequenceElements DEF s
<1>9. ASSUME NEW m \in 1 .. Len(T), m \in S, CountUpTo(S, m) = j
      PROVE  T[m].clock = T[k].event_clock
  <2>1. s[CountUpTo(S, m)] = T[m]
    BY <1>1, <1>9, SubsequenceElements DEF s
  <2>. QED  BY <1>7, <1>9, <2>1
<1>. QED  BY <1>1, <1>8, <1>9 DEF T, S, R, j

\* What a recorded clock counts.
LEMMA RecordedClock ==
    ASSUME CausalInv, LinkedClocks, NEW k \in DOMAIN trace_records
    PROVE  LET r == trace_records[k]
           IN  /\ r.event_clock \in Clock
               /\ At(r.event_clock, r.id) < At(r.clock, r.id)
               /\ Leq(r.event_clock, r.clock)
               /\ \E p \in Clock :
                     /\ SetBy(trace_records, p, r.id, k - 1)
                     /\ \A j \in Pos : j # r.id =>
                           At(r.clock, j) = Larger(At(p, j), At(r.event_clock, j))
<1>. DEFINE r == trace_records[k]
            e == r.event_clock
<1>1. r \in TraceRecord /\ r.id \in Pos /\ e \in Clock
  <2>1. r \in TraceRecord
    BY TraceIs DEF CausalInv
  <2>. QED  BY <2>1, IdIsPos DEF TraceRecord
<1>2. PICK p \in Clock :
        /\ SetBy(trace_records, p, r.id, k - 1)
        /\ r.clock = MergeIn(Increment(p, r.id), e)
        /\ At(e, r.id) <= At(p, r.id)
  BY DEF LinkedClocks, LinkedRecord
<1>. HIDE DEF r, e
<1>. DEFINE q == Increment(p, r.id)
<1>3. q \in Clock /\ \A j \in Pos : At(q, j) = IF j = r.id THEN At(p, j) + 1 ELSE At(p, j)
  BY <1>1, AtIncrement
<1>4. r.clock \in Clock /\ \A j \in Pos : At(r.clock, j) = Larger(At(q, j), At(e, j))
  BY <1>1, <1>2, <1>3, AtMergeIn
<1>5. \A j : At(p, j) \in Nat /\ At(q, j) \in Nat /\ At(e, j) \in Nat
  BY <1>1, <1>3, AtIsNat
<1>6. At(e, r.id) < At(r.clock, r.id)
  BY <1>1, <1>2, <1>3, <1>4, <1>5 DEF Larger
<1>7. \A j \in Pos : At(e, j) <= At(r.clock, j)
  BY <1>4, <1>5 DEF Larger
<1>8. Leq(e, r.clock)
  BY <1>1, <1>4, <1>7, LeqIsPointwise
<1>9. \A j \in Pos : j # r.id => At(r.clock, j) = Larger(At(p, j), At(e, j))
  BY <1>3, <1>4
<1>. QED  BY <1>1, <1>2, <1>6, <1>8, <1>9 DEF r, e

\* The steps whose clocks are before that of the k-th step.
ClockPast(k) == {l \in DOMAIN trace_records : Leq(trace_records[l].clock, trace_records[k].clock)}

\* A step is after its direct causes, also in clock order.
LEMMA CausesAreBefore ==
    ASSUME CausalInv, LinkedClocks, Conserved,
           NEW k \in DOMAIN trace_records, NEW m \in DirectCauses(k)
    PROVE  m \in ClockPast(k) /\ m \in DOMAIN trace_records /\ m < k
<1>. DEFINE T == trace_records
            r == T[k]
            src == r.event.src
<1>0. /\ ActorTypeOK /\ T \in Seq(TraceRecord) /\ DOMAIN T = 1 .. Len(T) /\ Len(T) \in Nat
      /\ k \in 1 .. Len(T) /\ r \in TraceRecord
  BY TraceIs DEF CausalInv
<1>1. CASE m \in 1 .. k - 1 /\ T[m].id = r.id
  <2>1. m \in DOMAIN T /\ m < k
    BY <1>0, <1>1
  <2>2. At(T[m].clock, r.id) < At(r.clock, r.id)
    BY <2>1 DEF CausalInv, SoundClocks, Fresh
  <2>3. At(T[m].clock, r.id) \in Nat /\ At(r.clock, r.id) \in Nat
    BY <1>0, <2>1, RecordFields
  <2>4. At(T[m].clock, T[m].id) <= At(r.clock, T[m].id)
    BY <1>1, <2>2, <2>3
  <2>. QED  BY <2>1, <2>4, SoundIsCausal DEF CausalClocks, ClockPast
<1>2. CASE /\ r.event.type = "RecvOk"
           /\ m \in Sends(src, r.id) /\ m < k
           /\ CountUpTo(Sends(src, r.id), m) = CountUpTo(Receives(src, r.id), k)
  <2>1. /\ r.id \in Id /\ src \in Id
        /\ k \in Receives(src, r.id)
    BY <1>0, <1>2, EventFields DEF TraceRecord, Receives, Received
  <2>2. m \in DOMAIN T
    BY <1>2 DEF Sends
  <2>3. T[m].clock = r.event_clock
    BY <1>0, <1>2, <2>1, <2>2, ReceivedWasSent
  <2>4. Leq(r.event_clock, r.clock)
    BY RecordedClock
  <2>. QED  BY <1>2, <2>2, <2>3, <2>4 DEF ClockPast
<1>. QED  BY <1>1, <1>2 DEF DirectCauses

\* What a step is after in clock order, other than itself, one of its direct
\* causes is after too, or is.
LEMMA BeforeACause ==
    ASSUME CausalInv, LinkedClocks, Conserved,
           NEW k \in DOMAIN trace_records, NEW l \in ClockPast(k), l # k
    PROVE  \E m \in DirectCauses(k) : l \in ClockPast(m)
<1>. DEFINE T == trace_records
            r == T[k]
            j == T[l].id
            C == T[l].clock
            e == r.event_clock
<1>0. /\ ActorTypeOK /\ T \in Seq(TraceRecord) /\ DOMAIN T = 1 .. Len(T) /\ Len(T) \in Nat
      /\ k \in 1 .. Len(T) /\ r \in TraceRecord /\ l \in 1 .. Len(T) /\ Leq(C, r.clock)
  BY TraceIs DEF CausalInv, ClockPast
<1>1. CausalClocks
  BY SoundIsCausal
<1>2. l < k
  <2>1. ~(k < l)
    BY <1>0, <1>1 DEF CausalClocks
  <2>. QED  BY <1>0, <2>1
<1>3. /\ j \in Pos /\ C \in Clock /\ r.clock \in Clock /\ e \in Clock
      /\ \A i : At(C, i) \in Nat /\ At(r.clock, i) \in Nat /\ At(e, i) \in Nat
  BY <1>0, RecordFields, RecordedClock, AtIsNat
<1>4. At(C, j) <= At(r.clock, j)
  BY <1>0, <1>3, LeqIsPointwise
<1>5. At(C, j) > 0
  <2>1. At(T[l].event_clock, j) < At(C, j) /\ T[l].event_clock \in Clock
    BY <1>0, RecordedClock
  <2>. QED  BY <1>3, <2>1, AtIsNat
<1>. HIDE DEF C, j
<1>6. CASE j = r.id
  <2>1. l \in DirectCauses(k)
    BY <1>0, <1>2, <1>6 DEF DirectCauses, j
  <2>2. l \in ClockPast(l)
    <3>1. \A i \in Pos : At(C, i) <= At(C, i)
      BY <1>3
    <3>2. Leq(C, C)
      BY <1>3, <3>1, LeqIsPointwise
    <3>. QED  BY <1>0, <3>2 DEF ClockPast, C
  <2>. QED  BY <2>1, <2>2
<1>7. CASE j # r.id
  <2>1. PICK p \in Clock :
            /\ SetBy(T, p, r.id, k - 1)
            /\ \A i \in Pos : i # r.id => At(r.clock, i) = Larger(At(p, i), At(e, i))
    BY RecordedClock
  <2>2. At(p, j) \in Nat /\ At(r.clock, j) = Larger(At(p, j), At(e, j))
    BY <1>3, <1>7, <2>1, AtIsNat
  <2>3. CASE At(C, j) <= At(p, j)
    <3>1. PICK m \in 1 .. k - 1 : T[m].id = r.id /\ p = T[m].clock
      BY <1>3, <1>5, <2>1, <2>2, <2>3 DEF SetBy
    <3>2. m \in DirectCauses(k) /\ m \in DOMAIN T
      BY <1>0, <3>1 DEF DirectCauses
    <3>3. Leq(C, T[m].clock)
      BY <1>0, <1>1, <2>3, <3>1, <3>2 DEF CausalClocks, C, j
    <3>. QED  BY <1>0, <3>2, <3>3 DEF ClockPast, C
  <2>4. CASE At(C, j) <= At(e, j)
    <3>1. e # New
      BY <1>3, <1>5, <2>4, AtNew
    <3>2. r.event.type = "RecvOk"
      BY <3>1 DEF LinkedClocks, LinkedRecord
    <3>. DEFINE src == r.event.src
    <3>3. r.id \in Id /\ src \in Id /\ k \in Receives(src, r.id)
      BY <1>0, <3>2, EventFields DEF TraceRecord, Receives, Received
    <3>4. PICK m \in DOMAIN T :
            /\ m \in Sends(src, r.id)
            /\ CountUpTo(Sends(src, r.id), m) = CountUpTo(Receives(src, r.id), k)
            /\ T[m].clock = e
      BY <1>0, <3>3, ReceivedWasSent
    <3>5. m < k
      <4>1. Leq(T[m].clock, r.clock) /\ At(T[m].clock, r.id) < At(r.clock, r.id)
        BY <3>4, RecordedClock
      <4>2. ~(k < m)
        BY <1>1, <4>1 DEF CausalClocks
      <4>3. m # k
        BY <1>3, <4>1
      <4>. QED  BY <1>0, <4>2, <4>3
    <3>6. m \in DirectCauses(k)
      BY <3>2, <3>4, <3>5 DEF DirectCauses
    <3>7. Leq(C, T[m].clock)
      BY <1>0, <1>1, <2>4, <3>4 DEF CausalClocks, C, j
    <3>. QED  BY <1>0, <3>6, <3>7 DEF ClockPast, C
  <2>5. At(C, j) <= At(p, j) \/ At(C, j) <= At(e, j)
    BY <1>3, <1>4, <2>2 DEF Larger
  <2>. QED  BY <2>3, <2>4, <2>5
<1>. QED  BY <1>6, <1>7

\* The recursion by which happens-before is defined.
IsPast(past) ==
    past = [k \in DOMAIN trace_records |-> {k} \cup UNION {past[l] : l \in DirectCauses(k)}]

\* Clock order satisfies it ...
LEMMA ClockPastIsPast ==
    ASSUME CausalInv, LinkedClocks, Conserved
    PROVE  IsPast([k \in DOMAIN trace_records |-> ClockPast(k)])
<1>. DEFINE D == DOMAIN trace_records
            past == [k \in D |-> ClockPast(k)]
<1>1. ASSUME NEW k \in D
      PROVE  ClockPast(k) = {k} \cup UNION {past[l] : l \in DirectCauses(k)}
  <2>1. ASSUME NEW m \in DirectCauses(k)
        PROVE  m \in D /\ past[m] = ClockPast(m) /\ ClockPast(m) \subseteq ClockPast(k)
    <3>1. m \in D /\ Leq(trace_records[m].clock, trace_records[k].clock)
      BY CausesAreBefore DEF ClockPast
    <3>2. ASSUME NEW l \in ClockPast(m) PROVE l \in ClockPast(k)
      <4>1. /\ l \in D /\ Leq(trace_records[l].clock, trace_records[m].clock)
            /\ trace_records \in Seq(TraceRecord)
        BY TraceIs DEF ClockPast, CausalInv
      <4>2. /\ trace_records[l].clock \in Clock /\ trace_records[m].clock \in Clock
            /\ trace_records[k].clock \in Clock
        BY <3>1, <4>1, RecordFields
      <4>3. Leq(trace_records[l].clock, trace_records[k].clock)
        BY <3>1, <4>1, <4>2, LeqIsTransitive
      <4>. QED  BY <4>1, <4>3 DEF ClockPast
    <3>. QED  BY <3>1, <3>2
  <2>2. k \in ClockPast(k)
    <3>1. trace_records[k].clock \in Clock /\ \A i : At(trace_records[k].clock, i) \in Nat
      BY TraceIs, RecordFields DEF CausalInv
    <3>2. \A i \in Pos : At(trace_records[k].clock, i) <= At(trace_records[k].clock, i)
      BY <3>1
    <3>3. Leq(trace_records[k].clock, trace_records[k].clock)
      BY <3>1, <3>2, LeqIsPointwise
    <3>. QED  BY <3>3 DEF ClockPast
  <2>3. ASSUME NEW l \in ClockPast(k), l # k
        PROVE  \E m \in DirectCauses(k) : l \in ClockPast(m)
    BY <2>3, BeforeACause
  <2>. HIDE DEF past
  <2>. QED  BY <2>1, <2>2, <2>3
<1>2. past = [k \in D |-> {k} \cup UNION {past[l] : l \in DirectCauses(k)}]
  <2>. DEFINE body(k) == {k} \cup UNION {past[l] : l \in DirectCauses(k)}
  <2>1. \A k \in D : ClockPast(k) = body(k)
    BY <1>1
  <2>. HIDE DEF body
  <2>2. [k \in D |-> ClockPast(k)] = [k \in D |-> body(k)]
    BY <2>1, Zenon
  <2>. QED  BY <2>2 DEF body
<1>. QED  BY <1>2 DEF IsPast

\* ... and nothing else does, since the direct causes of a step are earlier.
LEMMA PastIsClockPast ==
    ASSUME CausalInv, LinkedClocks, Conserved, NEW past, IsPast(past),
           NEW k \in DOMAIN trace_records
    PROVE  past[k] = ClockPast(k)
<1>. DEFINE D == DOMAIN trace_records
            clockPast == [m \in D |-> ClockPast(m)]
            Differ == {m \in D : past[m] # ClockPast(m)}
<1>0. D \subseteq Nat
  BY TraceIs DEF CausalInv
<1>1. \A m \in D : past[m] = {m} \cup UNION {past[l] : l \in DirectCauses(m)}
  <2>. DEFINE body(m) == {m} \cup UNION {past[l] : l \in DirectCauses(m)}
  <2>1. past = [m \in D |-> body(m)]
    BY Zenon DEF IsPast
  <2>. HIDE DEF body
  <2>2. \A m \in D : past[m] = body(m)
    BY <2>1
  <2>. QED  BY <2>2 DEF body
<1>2. \A m \in D : ClockPast(m) = {m} \cup UNION {ClockPast(l) : l \in DirectCauses(m)}
  <2>. DEFINE body(m) == {m} \cup UNION {clockPast[l] : l \in DirectCauses(m)}
  <2>1. clockPast = [m \in D |-> body(m)]
    BY ClockPastIsPast, Zenon DEF IsPast
  <2>2. \A m \in D : clockPast[m] = ClockPast(m)
    OBVIOUS
  <2>3. \A m \in D : \A l \in DirectCauses(m) : l \in D
    BY CausesAreBefore
  <2>. HIDE DEF body, clockPast
  <2>4. \A m \in D : clockPast[m] = body(m)
    BY <2>1
  <2>5. ASSUME NEW m \in D
        PROVE  UNION {clockPast[l] : l \in DirectCauses(m)} = UNION {ClockPast(l) : l \in DirectCauses(m)}
    BY <2>2, <2>3
  <2>. QED  BY <2>2, <2>4, <2>5 DEF body
<1>3. ASSUME Differ # {} PROVE FALSE
  <2>1. PICK m \in Differ : \A l \in Differ : m <= l
    <3>1. Differ \in SUBSET Nat /\ Differ # {}
      BY <1>0, <1>3
    <3>. HIDE DEF Differ
    <3>. QED  BY <3>1, Least
  <2>2. m \in D
    OBVIOUS
  <2>3. ASSUME NEW l \in DirectCauses(m) PROVE past[l] = ClockPast(l)
    <3>1. l \in D /\ l < m
      BY <2>2, CausesAreBefore
    <3>. QED  BY <1>0, <2>1, <3>1
  <2>4. UNION {past[l] : l \in DirectCauses(m)} = UNION {ClockPast(l) : l \in DirectCauses(m)}
    BY <2>3
  <2>5. past[m] = ClockPast(m)
    BY <1>1, <1>2, <2>2, <2>4
  <2>. QED  BY <2>5
<1>. QED  BY <1>3

\* What the clocks order is what happened before.
LEMMA LinkedIsHappensBefore ==
    ASSUME CausalInv, LinkedClocks, Conserved
    PROVE  ClockOrderIsHappensBefore
<1>1. \E past : IsPast(past)
  BY ClockPastIsPast
<1>2. PICK past :
        /\ IsPast(past)
        /\ (\A k, l \in DOMAIN trace_records :
                Leq(trace_records[l].clock, trace_records[k].clock) <=> l \in past[k])
                => ClockOrderIsHappensBefore
  BY <1>1 DEF IsPast, ClockOrderIsHappensBefore
<1>3. \A k \in DOMAIN trace_records : past[k] = ClockPast(k)
  BY <1>2, PastIsClockPast
<1>. QED  BY <1>2, <1>3 DEF ClockPast

(***************************************************************************)
(* In every trace of any actors, clock order is exactly the order in which *)
(* steps can have influenced each other: program order, and the n-th send  *)
(* from one actor to another before the n-th receive.  This is what lets   *)
(* Verifier::next_prefix take a pair of steps with incomparable clocks for *)
(* a race.                                                                 *)
(***************************************************************************)
THEOREM ClocksOrderCauses == ActorSpec => []ClockOrderIsHappensBefore
BY CausalInvHolds, LinkedClocksHold, ConservedHolds, LinkedIsHappensBefore, PTL

-----------------------------------------------------------------------------
(* What a step makes of an actor                                           *)

\* Everything that the next step of the actor depends on but the inboxes, and
\* what it has sent and received in the trace.
Local(id) ==
    [behavior |-> behavior[id], clock |-> clock[id], iterator |-> enabled_events[id],
     expectation |-> expectation[id], time |-> time_context[id], query |-> LastQuery(id),
     sent |-> [dst \in Id |-> SentMessages(id, dst)],
     received |-> [src \in Id |-> ReceivedMessages(src, id)]]

NewLocal(id) ==
    [behavior |-> << >>, clock |-> NewWithLen(N), iterator |-> Spawned(id),
     expectation |-> {}, time |-> EmptyContext, query |-> {},
     sent |-> [dst \in Id |-> << >>], received |-> [src \in Id |-> << >>]]

\* The command that an actor in s, of the configuration p, answers with.
Commanded(p, id, s, event) == Behave(p, id, Append(s.behavior, event))

\* Why the actor unwinds then.
Unwound(s, command) ==
    CASE command \notin Command -> "Behavior"
      [] command \in Command /\ command.type = "Expect" /\ s.expectation # {} ->
            "Expectation already exists"
      [] command \in Command /\ command.type = "ExpectationMet" /\ s.expectation = {} ->
            "Expectation does not exist"
      [] OTHER -> "None"

\* Its TimeContext when the event is delivered.
Delayed(s, event) ==
    IF event = DeadlineElapsedOk(TRUE)
    THEN DeadlineElapsed(s.time, CHOOSE deadline \in s.query : TRUE)
    ELSE s.time

\* What it waits for after the command.
Awaiting(command, tc) ==
    CASE command.type = "Deadline"        -> Deterministic({DeadlineOk(tc.next_new_deadline)})
      [] command.type = "DeadlineElapsed" -> DeadlineElapsedIs(Possibilities(tc, command.deadline))
      [] command.type = "Exit"            -> Deterministic({})
      [] command.type = "Panic"           -> Deterministic({})
      [] command.type = "Expect"          -> Deterministic({ExpectOk(command.description)})
      [] command.type = "ExpectationMet"  -> Deterministic({ExpectationMetOk})
      [] command.type = "Recv"            -> Receiving
      [] command.type = "Send"            -> Deterministic({SendOk})
      [] command.type = "SleepUntil"      -> Deterministic({SleepUntilOk})

Expected(command, expected) ==
    CASE command.type = "Expect"         -> {command.description}
      [] command.type = "ExpectationMet" -> {}
      [] OTHER                           -> expected

TimeFrom(command, tc) ==
    IF command.type = "Deadline" THEN NewDeadline(tc, command.duration) ELSE tc

\* A step, for an actor that does not unwind.
LocalAfter(p, id, s, event, event_clock) ==
    LET command   == Commanded(p, id, s, event)
        tc        == Delayed(s, event)
        new_clock == MergeIn(Increment(s.clock, id), event_clock)
    IN  [behavior |-> Append(s.behavior, event), clock |-> new_clock,
         iterator |-> Awaiting(command, tc),
         expectation |-> Expected(command, s.expectation),
         time |-> TimeFrom(command, tc),
         query |-> IF command.type = "DeadlineElapsed" THEN {command.deadline} ELSE s.query,
         sent |-> [dst \in Id |->
            IF command.type = "Send" /\ command.dst = dst
            THEN Append(s.sent[dst], [msg |-> command.msg, clock |-> new_clock])
            ELSE s.sent[dst]],
         received |-> [src \in Id |->
            IF event.type = "RecvOk" /\ event.src = src
            THEN Append(s.received[src], [msg |-> event.msg, clock |-> event_clock])
            ELSE s.received[src]]]

\* The match on the command, as a function of it.
LEMMA PerformIs ==
    ASSUME ActorTypeOK, NEW id \in Id, NEW command \in Command, NEW inboxes, NEW tc, NEW new_clock,
           Perform(id, command, inboxes, tc, new_clock)
    PROVE  /\ enabled_events' = [enabled_events EXCEPT ![id] = Awaiting(command, tc)]
           /\ expectation' = [expectation EXCEPT ![id] = Expected(command, expectation[id])]
           /\ time_context' = [time_context EXCEPT ![id] = TimeFrom(command, tc)]
<1>. DEFINE same == [expectation EXCEPT ![id] = expectation[id]]
<1>1. same = expectation
  BY DEF ActorTypeOK
<1>2. CASE command.type = "Deadline"
  BY <1>1, <1>2 DEF Perform, Await, Awaiting, Expected, TimeFrom
<1>3. CASE command.type = "Send"
  BY <1>1, <1>3 DEF Perform, Await, Awaiting, Expected, TimeFrom
<1>4. CASE command.type = "DeadlineElapsed"
  BY <1>1, <1>4 DEF Perform, Await, Awaiting, Expected, TimeFrom
<1>5. CASE command.type \in {"Exit", "Panic"}
  BY <1>1, <1>5 DEF Perform, Await, Awaiting, Expected, TimeFrom
<1>6. CASE command.type = "Expect"
  BY <1>6 DEF Perform, Await, Awaiting, Expected, TimeFrom
<1>7. CASE command.type = "ExpectationMet"
  BY <1>7 DEF Perform, Await, Awaiting, Expected, TimeFrom
<1>8. CASE command.type = "Recv"
  BY <1>1, <1>8 DEF Perform, Await, Awaiting, Expected, TimeFrom
<1>9. CASE command.type = "SleepUntil"
  BY <1>1, <1>9 DEF Perform, Await, Awaiting, Expected, TimeFrom
<1>. QED  BY <1>2, <1>3, <1>4, <1>5, <1>6, <1>7, <1>8, <1>9 DEF Perform

\* What has become of an actor that is given field by field.
LEMMA SameLocal ==
    ASSUME NEW a1, NEW a2, NEW a3, NEW a4, NEW a5, NEW a6, NEW a7, NEW a8,
           NEW b1, NEW b2, NEW b3, NEW b4, NEW b5, NEW b6, NEW b7, NEW b8,
           a1 = b1, a2 = b2, a3 = b3, a4 = b4, a5 = b5, a6 = b6, a7 = b7, a8 = b8
    PROVE  [behavior |-> a1, clock |-> a2, iterator |-> a3, expectation |-> a4, time |-> a5,
            query |-> a6, sent |-> a7, received |-> a8] =
           [behavior |-> b1, clock |-> b2, iterator |-> b3, expectation |-> b4, time |-> b5,
            query |-> b6, sent |-> b7, received |-> b8]
OBVIOUS


\* A scheduled step, field by field of the actor that is stepped.
LEMMA SteppedActor ==
    ASSUME OfferInv, panicked = "None", NEW id \in Id, NEW pending \in EnabledEvents(id),
           Step(id, pending.event, pending.event_clock), panicked' = "None"
    PROVE  LET command == Commanded(cfg_fn, id, Local(id), pending.event)
               tc      == Delayed(Local(id), pending.event)
           IN  /\ command \in Command
               /\ Unwound(Local(id), command) = "None"
               /\ NewRecord(id, pending.event, pending.event_clock).command = command
               /\ behavior' = [behavior EXCEPT ![id] = Append(@, pending.event)]
               /\ enabled_events' = [enabled_events EXCEPT ![id] = Awaiting(command, tc)]
               /\ expectation' = [expectation EXCEPT ![id] = Expected(command, expectation[id])]
               /\ time_context' = [time_context EXCEPT ![id] = TimeFrom(command, tc)]
<1>. DEFINE event == pending.event
            event_clock == pending.event_clock
            command == CommandFor(id, event)
            tc == TimeAfter(id, event)
<1>1. ActorTypeOK
  BY DEF OfferInv
<1>2. Refusal(id, event, event_clock) = "None"
  BY OffersAreAccepted
<1>3. Deliver(id, event, event_clock)
  BY <1>2 DEF Step, Advance
<1>4. /\ behavior' = [behavior EXCEPT ![id] = Append(@, event)]
      /\ Unwinding(id, command) = "None"
      /\ Perform(id, command, PopInbox(id, event), tc, Tick(id, event_clock))
  BY <1>3 DEF Deliver
<1>5. command \in Command
  BY <1>4, PerformedIsCommand
<1>6. /\ enabled_events' = [enabled_events EXCEPT ![id] = Awaiting(command, tc)]
      /\ expectation' = [expectation EXCEPT ![id] = Expected(command, expectation[id])]
      /\ time_context' = [time_context EXCEPT ![id] = TimeFrom(command, tc)]
  BY <1>1, <1>4, <1>5, PerformIs
<1>7. NewRecord(id, event, event_clock).command = command
  BY <1>4 DEF NewRecord
<1>8. /\ Local(id).behavior = behavior[id] /\ Local(id).expectation = expectation[id]
      /\ Local(id).time = time_context[id] /\ Local(id).query = LastQuery(id)
  BY DEF Local
<1>9. Commanded(cfg_fn, id, Local(id), event) = command
  BY <1>8 DEF Commanded, CommandFor
<1>10. Delayed(Local(id), event) = tc
  BY <1>8 DEF Delayed, TimeAfter
<1>11. Unwound(Local(id), command) = Unwinding(id, command)
  BY <1>8 DEF Unwound, Unwinding
<1>. QED  BY <1>4, <1>5, <1>6, <1>7, <1>9, <1>10, <1>11

(***************************************************************************)
(* A scheduled step that does not unwind makes of its actor what           *)
(* LocalAfter says, from nothing but the actor itself, and nothing of the  *)
(* others.                                                                 *)
(***************************************************************************)
LEMMA LocalStep ==
    ASSUME OfferInv, panicked = "None", NEW id \in Id, NEW pending \in EnabledEvents(id),
           Step(id, pending.event, pending.event_clock), panicked' = "None", NEW other \in Id
    PROVE  Local(other)' =
               IF other = id
               THEN LocalAfter(cfg_fn, id, Local(id), pending.event, pending.event_clock)
               ELSE Local(other)
<1>. DEFINE event == pending.event
            event_clock == pending.event_clock
            rec == NewRecord(id, event, event_clock)
            command == Commanded(cfg_fn, id, Local(id), event)
            tc == Delayed(Local(id), event)
<1>1. ActorTypeOK
  BY DEF OfferInv
<1>2. /\ rec \in TraceRecord /\ rec.id = id /\ rec.event = event /\ rec.event_clock = event_clock
      /\ rec.clock = Tick(id, event_clock)
      /\ trace_records' = Append(trace_records, rec)
      /\ clock' = [clock EXCEPT ![id] = rec.clock]
  BY ScheduledStep
<1>3. /\ command \in Command /\ rec.command = command
      /\ behavior' = [behavior EXCEPT ![id] = Append(@, event)]
      /\ enabled_events' = [enabled_events EXCEPT ![id] = Awaiting(command, tc)]
      /\ expectation' = [expectation EXCEPT ![id] = Expected(command, expectation[id])]
      /\ time_context' = [time_context EXCEPT ![id] = TimeFrom(command, tc)]
  BY SteppedActor
<1>4. trace_records \in Seq(TraceRecord)
  BY <1>1 DEF ActorTypeOK
<1>. HIDE DEF rec, command, tc
<1>5. LastQuery(other)' = IF other = id /\ command.type = "DeadlineElapsed"
                          THEN {command.deadline} ELSE LastQuery(other)
  BY <1>2, <1>3, <1>4, LastQueryAfter
<1>6. \A dst \in Id : SentMessages(other, dst)' =
          IF other = id /\ command.type = "Send" /\ command.dst = dst
          THEN Append(SentMessages(other, dst), [msg |-> command.msg, clock |-> rec.clock])
          ELSE SentMessages(other, dst)
  <2>1. \A dst \in Id : SentMessages(other, dst)' =
            IF rec.id = other /\ Sent(rec, dst)
            THEN Append(SentMessages(other, dst), [msg |-> rec.command.msg, clock |-> rec.clock])
            ELSE SentMessages(other, dst)
    BY <1>1, <1>2, MessagesAfter, Zenon
  <2>. QED  BY <1>2, <1>3, <2>1 DEF Sent
<1>7. \A src \in Id : ReceivedMessages(src, other)' =
          IF other = id /\ event.type = "RecvOk" /\ event.src = src
          THEN Append(ReceivedMessages(src, other), [msg |-> event.msg, clock |-> event_clock])
          ELSE ReceivedMessages(src, other)
  <2>1. \A src \in Id : ReceivedMessages(src, other)' =
            IF rec.id = other /\ Received(rec, src)
            THEN Append(ReceivedMessages(src, other), [msg |-> rec.event.msg, clock |-> rec.event_clock])
            ELSE ReceivedMessages(src, other)
    BY <1>1, <1>2, MessagesAfter, Zenon
  <2>. QED  BY <1>2, <2>1 DEF Received
<1>8. /\ DOMAIN behavior = Id /\ DOMAIN clock = Id /\ DOMAIN enabled_events = Id
      /\ DOMAIN expectation = Id /\ DOMAIN time_context = Id
  BY <1>1 DEF ActorTypeOK
<1>9. CASE other # id
  <2>1. /\ behavior'[other] = behavior[other] /\ clock'[other] = clock[other]
        /\ enabled_events'[other] = enabled_events[other]
        /\ expectation'[other] = expectation[other] /\ time_context'[other] = time_context[other]
    BY <1>2, <1>3, <1>8, <1>9
  <2>2. LastQuery(other)' = LastQuery(other)
    BY <1>5, <1>9
  <2>3. [dst \in Id |-> SentMessages(other, dst)'] = [dst \in Id |-> SentMessages(other, dst)]
    BY <1>6, <1>9
  <2>4. [src \in Id |-> ReceivedMessages(src, other)'] = [src \in Id |-> ReceivedMessages(src, other)]
    BY <1>7, <1>9
  <2>5. Local(other)' = Local(other)
    BY <2>1, <2>2, <2>3, <2>4, SameLocal, Zenon DEF Local
  <2>. QED  BY <1>9, <2>5
<1>10. CASE other = id
  <2>. DEFINE s == Local(id)
              after == LocalAfter(cfg_fn, id, s, event, event_clock)
  <2>1. /\ behavior'[id] = Append(behavior[id], event) /\ clock'[id] = rec.clock
        /\ enabled_events'[id] = Awaiting(command, tc)
        /\ expectation'[id] = Expected(command, expectation[id])
        /\ time_context'[id] = TimeFrom(command, tc)
    BY <1>2, <1>3, <1>8
  <2>2. /\ s.behavior = behavior[id] /\ s.clock = clock[id] /\ s.expectation = expectation[id]
        /\ s.query = LastQuery(id)
        /\ s.sent = [dst \in Id |-> SentMessages(id, dst)]
        /\ s.received = [src \in Id |-> ReceivedMessages(src, id)]
    BY DEF Local
  <2>3. rec.clock = MergeIn(Increment(s.clock, id), event_clock)
    BY <1>2, <2>2 DEF Tick
  <2>4. LastQuery(id)' = IF command.type = "DeadlineElapsed" THEN {command.deadline} ELSE s.query
    BY <1>5, <1>10, <2>2
  <2>5. [dst \in Id |-> SentMessages(id, dst)'] =
          [dst \in Id |-> IF command.type = "Send" /\ command.dst = dst
                          THEN Append(s.sent[dst], [msg |-> command.msg, clock |-> rec.clock])
                          ELSE s.sent[dst]]
    BY <1>6, <1>10, <2>2
  <2>6. [src \in Id |-> ReceivedMessages(src, id)'] =
          [src \in Id |-> IF event.type = "RecvOk" /\ event.src = src
                          THEN Append(s.received[src], [msg |-> event.msg, clock |-> event_clock])
                          ELSE s.received[src]]
    BY <1>7, <1>10, <2>2
  <2>7. Local(id)' = [behavior |-> behavior'[id], clock |-> clock'[id],
                      iterator |-> enabled_events'[id], expectation |-> expectation'[id],
                      time |-> time_context'[id], query |-> LastQuery(id)',
                      sent |-> [dst \in Id |-> SentMessages(id, dst)'],
                      received |-> [src \in Id |-> ReceivedMessages(src, id)']]
    BY DEF Local
  <2>8. after =
          [behavior |-> Append(s.behavior, event), clock |-> rec.clock,
           iterator |-> Awaiting(command, tc), expectation |-> Expected(command, s.expectation),
           time |-> TimeFrom(command, tc),
           query |-> IF command.type = "DeadlineElapsed" THEN {command.deadline} ELSE s.query,
           sent |-> [dst \in Id |->
              IF command.type = "Send" /\ command.dst = dst
              THEN Append(s.sent[dst], [msg |-> command.msg, clock |-> rec.clock])
              ELSE s.sent[dst]],
           received |-> [src \in Id |->
              IF event.type = "RecvOk" /\ event.src = src
              THEN Append(s.received[src], [msg |-> event.msg, clock |-> event_clock])
              ELSE s.received[src]]]
    BY <2>3 DEF LocalAfter, command, tc
  <2>9. Append(behavior[id], event) = Append(s.behavior, event)
        /\ Expected(command, expectation[id]) = Expected(command, s.expectation)
    BY <2>2
  <2>. HIDE DEF s, after
  <2>10. Local(id)' = after
    BY <2>1, <2>4, <2>5, <2>6, <2>7, <2>8, <2>9, SameLocal, Zenon
  <2>. QED  BY <1>10, <2>10 DEF after, s
<1>. QED  BY <1>9, <1>10

-----------------------------------------------------------------------------
(* The length of clocks                                                    *)

\* The clocks of the actors, and so those of their messages, have N elements.
ShapedClocks ==
    /\ \A id \in Id : Len(clock[id]) = N
    /\ \A dst, src \in Id : \A m \in DOMAIN inbox_by_src[dst][src] :
            Len(inbox_by_src[dst][src][m].clock) = N

\* A step does not make the clock of its actor longer.
LEMMA TickKeepsLength ==
    ASSUME ActorTypeOK, NEW id \in Id, Len(clock[id]) = N,
           NEW e \in Clock, e = New \/ Len(e) = N
    PROVE  Len(Tick(id, e)) = N
<1>1. N \in Nat \ {0} /\ id \in 1 .. N /\ clock[id] \in Clock
  BY NAssumption DEF Id, ActorTypeOK
<1>. DEFINE v == clock[id]
            f(k) == IF k = id THEN At(v, k) + 1 ELSE At(v, k)
            w == [k \in 1 .. N |-> f(k)]
<1>2. Increment(v, id) = w
  BY <1>1 DEF Increment, Larger
<1>3. w \in Seq({f(k) : k \in 1 .. N}) /\ Len(w) = N
  BY <1>1
<1>4. Len(e) = 0 \/ Len(e) = N
  BY DEF New
<1>. HIDE DEF w
<1>. DEFINE g(k) == Larger(At(w, k), At(e, k))
            u == [k \in 1 .. N |-> g(k)]
<1>5. MergeIn(w, e) = u
  BY <1>1, <1>3, <1>4 DEF MergeIn, Larger
<1>. HIDE DEF g
<1>6. u \in Seq({g(k) : k \in 1 .. N}) /\ Len(u) = N
  BY <1>1
<1>. QED  BY <1>2, <1>5, <1>6 DEF Tick

\* The clock of what an actor is offered is empty or one of a message.
LEMMA OfferedClocks ==
    ASSUME ActorTypeOK, ShapedClocks, NEW id \in Id, NEW pending \in EnabledEvents(id)
    PROVE  pending.event_clock \in Clock /\ (pending.event_clock = New \/ Len(pending.event_clock) = N)
<1>1. CASE pending.event_clock = New
  BY <1>1, OffersAreTyped
<1>2. ASSUME NEW src \in Id, inbox_by_src[id][src] # << >>,
             pending.event_clock = Head(inbox_by_src[id][src]).clock
      PROVE  Len(pending.event_clock) = N
  <2>1. inbox_by_src[id][src] \in Seq(QueuedMessage)
    BY DEF ActorTypeOK
  <2>2. 1 \in DOMAIN inbox_by_src[id][src] /\ Head(inbox_by_src[id][src]) = inbox_by_src[id][src][1]
    BY <1>2, <2>1
  <2>. QED  BY <1>2, <2>2 DEF ShapedClocks
<1>. QED  BY <1>1, <1>2, OffersAreTyped

\* A new trace of which nothing was stepped.
NewTrace ==
    /\ trace_records = << >>
    /\ panicked = "None"
    /\ \A id \in Id : /\ behavior[id] = << >> /\ clock[id] = NewWithLen(N)
                      /\ enabled_events[id] = Spawned(id) /\ expectation[id] = {}
                      /\ time_context[id] = EmptyContext
    /\ \A dst, src \in Id : inbox_by_src[dst][src] = << >>

\* Init is the beginning of a trace.
LEMMA InitIsNewTrace == ActorInit => NewTrace
BY DEF ActorInit, NewTrace

\* The reused clocks are long enough, and no longer.
LEMMA ResetIsNewTrace ==
    ASSUME ActorTypeOK, ShapedClocks, ResetActors
    PROVE  NewTrace'
<1>1. \A id \in Id : Reset(clock[id]) = NewWithLen(N)
  <2>1. \A id \in Id : clock[id] \in Seq(Nat) /\ Len(clock[id]) = N
    BY DEF ActorTypeOK, ShapedClocks, Clock
  <2>2. \A id \in Id : DOMAIN clock[id] = 1 .. N
    BY <2>1
  <2>. QED  BY <2>2 DEF Reset, NewWithLen
<1>. QED  BY <1>1 DEF ResetActors, NewTrace

\* At the beginning of a trace the clocks have their length ...
LEMMA NewTraceIsShaped == NewTrace => ShapedClocks
<1>1. NewWithLen(N) \in Seq({0}) /\ Len(NewWithLen(N)) = N
  BY NAssumption DEF NewWithLen
<1>. QED  BY <1>1 DEF NewTrace, ShapedClocks

\* ... and so they have after a reset.
LEMMA NewTraceIsShapedAgain == NewTrace' => ShapedClocks'
BY NewTraceIsShaped, PTL

\* No step of the actors changes the length of a clock.
LEMMA NextKeepsShape ==
    ASSUME OfferInv, ShapedClocks, [ActorNext]_actor_vars
    PROVE  ShapedClocks'
<1>1. ActorTypeOK
  BY DEF OfferInv
<1>2. ASSUME NEW id \in Id, NEW pending \in EnabledEvents(id), panicked = "None",
             Step(id, pending.event, pending.event_clock)
      PROVE  ShapedClocks'
  <2>1. /\ pending.event \in Event /\ pending.event_clock \in Clock
        /\ Len(Tick(id, pending.event_clock)) = N
    BY <1>1, OfferedClocks, OffersAreTyped, TickKeepsLength DEF ShapedClocks
  <2>2. clock' = [clock EXCEPT ![id] = Tick(id, pending.event_clock)]
    BY <1>2 DEF Step, Advance
  <2>3. \A other \in Id : Len(clock'[other]) = N
    BY <1>1, <2>1, <2>2 DEF ShapedClocks, ActorTypeOK
  <2>4. ASSUME NEW dst \in Id, NEW src \in Id, NEW m \in DOMAIN inbox_by_src'[dst][src]
        PROVE  Len(inbox_by_src'[dst][src][m].clock) = N
    BY <1>1, <1>2, <2>1, QueuedClocks DEF ShapedClocks
  <2>. QED  BY <2>3, <2>4 DEF ShapedClocks
<1>3. CASE ResetActors
  BY <1>1, <1>3, ResetIsNewTrace, NewTraceIsShapedAgain
<1>4. CASE UNCHANGED actor_vars
  BY <1>4 DEF actor_vars, actors, ShapedClocks
<1>. QED  BY <1>2, <1>3, <1>4 DEF ActorNext, Schedule

-----------------------------------------------------------------------------
(* Traces as runs of the actors by themselves                              *)

\* What the states of an actor have in common.
IsLocal(s) ==
    /\ s.clock \in Clock
    /\ s.sent \in [Id -> Seq(QueuedMessage)]
    /\ s.received \in [Id -> Seq(QueuedMessage)]
    /\ s.iterator.kind = "DeadlineElapsed" => TRUE \in s.iterator.remaining

\* The actor in s awaits the event of the step r, whatever the others do.
LocallyOffered(s, r) ==
    \/ /\ s.iterator.kind = "Deterministic"
       /\ r.event \in s.iterator.option
       /\ r.event.type \notin {"DeadlineElapsedOk", "RecvOk"}
       /\ r.event_clock = New
    \/ /\ s.iterator.kind = "DeadlineElapsed"
       /\ \E bool \in s.iterator.remaining : r.event = DeadlineElapsedOk(bool)
       /\ r.event_clock = New
    \/ s.iterator.kind = "Recv" /\ r.event.type = "RecvOk"

\* The message that the step r receives is the next one from its sender.
Arrived(sender, s, r) ==
    LET n == Len(s.received[r.event.src]) + 1
    IN  /\ n \in DOMAIN sender.sent[r.id]
        /\ sender.sent[r.id][n] = [msg |-> r.event.msg, clock |-> r.event_clock]

\* The first element after a beginning.
LEMMA AfterBeginning ==
    ASSUME NEW V, NEW a \in Seq(V), NEW b \in Seq(V)
    PROVE  /\ Len(a) + 1 \in DOMAIN (a \o b) <=> b # << >>
           /\ b # << >> => (a \o b)[Len(a) + 1] = Head(b)
OBVIOUS

\* What is queued is what was sent and not yet received.
LEMMA QueuedIsArrived ==
    ASSUME ActorTypeOK, Conserved, NEW dst \in Id, NEW src \in Id,
           IsLocal(Local(src)), IsLocal(Local(dst)), NEW r, r.id = dst, r.event.src = src
    PROVE  Arrived(Local(src), Local(dst), r) <=>
              /\ inbox_by_src[dst][src] # << >>
              /\ Head(inbox_by_src[dst][src]) = [msg |-> r.event.msg, clock |-> r.event_clock]
<1>. DEFINE sent == SentMessages(src, dst)
            received == ReceivedMessages(src, dst)
            queue == inbox_by_src[dst][src]
<1>1. Local(src).sent[dst] = sent /\ Local(dst).received[src] = received
  BY DEF Local
<1>2. received \in Seq(QueuedMessage)
  BY <1>1 DEF IsLocal
<1>3. queue \in Seq(QueuedMessage)
  BY DEF ActorTypeOK
<1>4. sent = received \o queue
  BY DEF Conserved
<1>. HIDE DEF sent, received, queue
<1>5. /\ Len(received) + 1 \in DOMAIN sent <=> queue # << >>
      /\ queue # << >> => sent[Len(received) + 1] = Head(queue)
  BY <1>2, <1>3, <1>4, AfterBeginning
<1>6. Arrived(Local(src), Local(dst), r) <=>
          /\ Len(received) + 1 \in DOMAIN sent
          /\ sent[Len(received) + 1] = [msg |-> r.event.msg, clock |-> r.event_clock]
  BY <1>1 DEF Arrived
<1>. QED  BY <1>5, <1>6 DEF queue

\* What the actors offer, seen from each of them ...
LEMMA OfferedLocally ==
    ASSUME OfferInv, Conserved, panicked = "None", \A a \in Id : IsLocal(Local(a)),
           NEW id \in Id, NEW pending \in EnabledEvents(id),
           NEW r, r.id = id, r.event = pending.event, r.event_clock = pending.event_clock
    PROVE  /\ LocallyOffered(Local(id), r)
           /\ r.event.type = "RecvOk" =>
                 r.event.src \in Id /\ Arrived(Local(r.event.src), Local(id), r)
<1>1. ActorTypeOK /\ Offers(id)
  BY DEF OfferInv
<1>2. enabled_events[id] \in Iterator /\ Local(id).iterator = enabled_events[id]
  BY <1>1 DEF ActorTypeOK, Local
<1>3. ASSUME r.event.type = "RecvOk"
      PROVE  r.event.src \in Id /\ Arrived(Local(r.event.src), Local(id), r)
  <2>1. /\ r.event.src \in Id
        /\ inbox_by_src[id][r.event.src] # << >>
        /\ Head(inbox_by_src[id][r.event.src]) = [msg |-> r.event.msg, clock |-> r.event_clock]
    BY <1>3, OffersAreAccepted
  <2>. QED  BY <1>1, <2>1, QueuedIsArrived
<1>4. LocallyOffered(Local(id), r)
  <2>1. CASE enabled_events[id].kind = "Deterministic"
    BY <1>1, <1>2, <2>1 DEF EnabledEvents, Pending, LocallyOffered, Offers
  <2>2. CASE enabled_events[id].kind = "DeadlineElapsed"
    BY <1>2, <2>2 DEF EnabledEvents, Pending, LocallyOffered
  <2>3. CASE enabled_events[id].kind = "Recv"
    BY <1>2, <2>3 DEF EnabledEvents, Pending, LocallyOffered, RecvOk
  <2>. QED  BY <1>2, <2>1, <2>2, <2>3 DEF Iterator
<1>. QED  BY <1>3, <1>4

\* ... and back.
LEMMA OfferedAgain ==
    ASSUME ActorTypeOK, Conserved, \A a \in Id : IsLocal(Local(a)),
           NEW id \in Id, NEW r, r.id = id, r.event \in Event,
           LocallyOffered(Local(id), r),
           r.event.type = "RecvOk" => Arrived(Local(r.event.src), Local(id), r)
    PROVE  Pending(r.event, r.event_clock) \in EnabledEvents(id)
<1>1. Local(id).iterator = enabled_events[id]
  BY DEF Local
<1>2. CASE enabled_events[id].kind = "Deterministic"
  BY <1>1, <1>2 DEF EnabledEvents, Pending, LocallyOffered
<1>3. CASE enabled_events[id].kind = "DeadlineElapsed"
  BY <1>1, <1>3 DEF EnabledEvents, Pending, LocallyOffered
<1>4. CASE enabled_events[id].kind = "Recv"
  <2>1. r.event.type = "RecvOk"
    BY <1>1, <1>4 DEF LocallyOffered
  <2>2. r.event.src \in Id /\ r.event = RecvOk(r.event.src, r.event.msg)
    BY <2>1 DEF Event, RecvOk
  <2>. DEFINE src == r.event.src
              inbox == inbox_by_src[id][src]
  <2>3. inbox # << >> /\ Head(inbox) = [msg |-> r.event.msg, clock |-> r.event_clock]
    BY <2>1, <2>2, QueuedIsArrived
  <2>4. Pending(r.event, r.event_clock) = Pending(RecvOk(src, Head(inbox).msg), Head(inbox).clock)
    BY <2>2, <2>3
  <2>. QED  BY <1>4, <2>2, <2>3, <2>4 DEF EnabledEvents
<1>. QED  BY <1>1, <1>2, <1>3, <1>4 DEF LocallyOffered

(***************************************************************************)
(* The step r takes the actors from s to t: it is what its actor awaits,   *)
(* its message has arrived, the behavior does not unwind, and only this    *)
(* actor becomes another.                                                  *)
(***************************************************************************)
RunStep(p, r, s, t) ==
    /\ LocallyOffered(s[r.id], r)
    /\ r.event.type = "RecvOk" =>
          r.event.src \in Id /\ Arrived(s[r.event.src], s[r.id], r)
    /\ Unwound(s[r.id], Commanded(p, r.id, s[r.id], r.event)) = "None"
    /\ r.clock = t[r.id].clock
    /\ \A id \in Id : t[id] = IF id = r.id
                              THEN LocalAfter(p, id, s[id], r.event, r.event_clock)
                              ELSE s[id]

\* The trace T took the actors through the states st[0], st[1], ...
Runs(p, T, st) ==
    /\ T \in Seq(TraceRecord)
    /\ \A k \in 0 .. Len(T) : \A id \in Id : IsLocal(st[k][id])
    /\ \A id \in Id : st[0][id] = NewLocal(id)
    /\ \A k \in 1 .. Len(T) : RunStep(p, T[k], st[k - 1], st[k])

\* The messages u with one more, sent by the step r.
OneMore(v, u, r) == \E msg : v = Append(u, [msg |-> msg, clock |-> r.clock])

\* What a step adds to what was sent.
LEMMA RunStepAdds ==
    ASSUME NEW p, NEW r, r.id \in Id, NEW s, NEW t, RunStep(p, r, s, t),
           NEW src \in Id, NEW dst \in Id
    PROVE  \/ t[src].sent[dst] = s[src].sent[dst]
           \/ r.id = src /\ OneMore(t[src].sent[dst], s[src].sent[dst], r)
<1>. DEFINE command == Commanded(p, r.id, s[r.id], r.event)
            after == LocalAfter(p, r.id, s[r.id], r.event, r.event_clock)
<1>1. /\ \A id \in Id : id # r.id => t[id] = s[id]
      /\ t[r.id] = after /\ r.clock = after.clock
  BY DEF RunStep
<1>2. after.sent[dst] = IF command.type = "Send" /\ command.dst = dst
                        THEN Append(s[r.id].sent[dst], [msg |-> command.msg, clock |-> after.clock])
                        ELSE s[r.id].sent[dst]
  BY DEF LocalAfter
<1>. HIDE DEF after, command
<1>3. CASE r.id = src
  BY <1>1, <1>2, <1>3 DEF OneMore
<1>4. CASE r.id # src
  BY <1>1, <1>4
<1>. QED  BY <1>3, <1>4

\* What the lemmas below take from a run.
LEMMA RunIs ==
    ASSUME NEW p, NEW T, NEW st, Runs(p, T, st)
    PROVE  /\ Len(T) \in Nat /\ DOMAIN T = 1 .. Len(T)
           /\ \A k \in 1 .. Len(T) : /\ T[k] \in TraceRecord /\ T[k].id \in Id
                                     /\ RunStep(p, T[k], st[k - 1], st[k])
           /\ \A k \in 0 .. Len(T) : \A src, dst \in Id :
                 /\ st[k][src].sent[dst] \in Seq(QueuedMessage)
                 /\ st[k][dst].received[src] \in Seq(QueuedMessage)
<1>1. T \in Seq(TraceRecord)
  BY DEF Runs
<1>2. Len(T) \in Nat /\ DOMAIN T = 1 .. Len(T) /\ \A k \in 1 .. Len(T) : T[k] \in TraceRecord
  BY <1>1
<1>3. \A r \in TraceRecord : r.id \in Id
  BY DEF TraceRecord
<1>4. \A k \in 1 .. Len(T) : RunStep(p, T[k], st[k - 1], st[k])
  BY DEF Runs
<1>5. \A k \in 0 .. Len(T) : \A id \in Id : IsLocal(st[k][id])
  BY DEF Runs
<1>6. \A k \in 0 .. Len(T) : \A src, dst \in Id :
         /\ st[k][src].sent[dst] \in Seq(QueuedMessage)
         /\ st[k][dst].received[src] \in Seq(QueuedMessage)
  BY <1>5 DEF IsLocal
<1>. QED  BY <1>2, <1>3, <1>4, <1>6

\* An actor remains as it is while it takes no step.
LEMMA StaysIdle ==
    ASSUME NEW p, NEW T, NEW st, Runs(p, T, st), NEW id \in Id,
           NEW a \in 0 .. Len(T), NEW b \in 0 .. Len(T), a <= b,
           \A k \in a + 1 .. b : T[k].id # id
    PROVE  st[a][id] = st[b][id]
<1>. DEFINE n == b - a
            S == {k \in 0 .. n : st[a + k][id] = st[a][id]}
<1>1. Len(T) \in Nat /\ a \in Nat /\ b \in Nat /\ n \in Nat /\ a + n = b /\ a + 0 = a
  BY RunIs
<1>2. 0 \in S
  BY <1>1
<1>3. ASSUME NEW k \in 0 .. n - 1, k \in S
      PROVE  k + 1 \in S
  <2>1. a + k + 1 \in a + 1 .. b /\ a + k + 1 \in 1 .. Len(T) /\ (a + k + 1) - 1 = a + k
        /\ a + (k + 1) = a + k + 1 /\ k + 1 \in 0 .. n
    BY <1>1
  <2>2. RunStep(p, T[a + k + 1], st[a + k], st[a + k + 1])
    BY <2>1, RunIs
  <2>3. st[a + k + 1][id] = st[a + k][id]
    BY <2>1, <2>2 DEF RunStep
  <2>. QED  BY <1>3, <2>1, <2>3
<1>. HIDE DEF n, S
<1>4. 0 .. n \subseteq S
  BY <1>1, <1>2, <1>3, Induction
<1>5. n \in S
  BY <1>1, <1>4
<1>. QED  BY <1>1, <1>5 DEF S

\* The step r receives nothing from src at dst.
Skips(r, src, dst) == ~(r.id = dst /\ Received(r, src))

\* What dst has received from src is the same in s and t.
SameReceived(s, t, src, dst) == t[dst].received[src] = s[dst].received[src]

\* What an actor has received changes by its receives.
LEMMA RunStepReceives ==
    ASSUME NEW p, NEW r, r.id \in Id, NEW s, NEW t, RunStep(p, r, s, t),
           NEW src \in Id, NEW dst \in Id, Skips(r, src, dst)
    PROVE  SameReceived(s, t, src, dst)
<1>. DEFINE after == LocalAfter(p, r.id, s[r.id], r.event, r.event_clock)
<1>1. /\ \A id \in Id : id # r.id => t[id] = s[id]
      /\ t[r.id] = after
  BY DEF RunStep
<1>2. after.received[src] = IF r.event.type = "RecvOk" /\ r.event.src = src
                            THEN Append(s[r.id].received[src], [msg |-> r.event.msg, clock |-> r.event_clock])
                            ELSE s[r.id].received[src]
  BY DEF LocalAfter
<1>. HIDE DEF after
<1>3. CASE r.id = dst
  BY <1>1, <1>2, <1>3 DEF Skips, Received, SameReceived
<1>4. CASE r.id # dst
  BY <1>1, <1>4 DEF SameReceived
<1>. QED  BY <1>3, <1>4

\* A step that receives nothing from src leaves what was received from it.
LEMMA ReceivedBefore ==
    ASSUME NEW p, NEW T, NEW st, Runs(p, T, st), NEW src \in Id, NEW dst \in Id,
           NEW k \in 1 .. Len(T), Skips(T[k], src, dst)
    PROVE  st[k][dst].received[src] = st[k - 1][dst].received[src]
<1>. DEFINE r == T[k]
            u == st[k - 1]
            v == st[k]
<1>1. r.id \in Id /\ RunStep(p, r, u, v)
  BY RunIs
<1>. HIDE DEF r, u, v
<1>2. Skips(r, src, dst)
  BY DEF r
<1>3. SameReceived(u, v, src, dst)
  BY <1>1, <1>2, RunStepReceives
<1>. QED  BY <1>3 DEF r, u, v, SameReceived

\* Nothing is received from an actor while no step receives from it.
LEMMA NothingReceived ==
    ASSUME NEW p, NEW T, NEW st, Runs(p, T, st), NEW src \in Id, NEW dst \in Id,
           NEW a \in 0 .. Len(T), NEW b \in 0 .. Len(T), a <= b,
           \A k \in a + 1 .. b : Skips(T[k], src, dst)
    PROVE  SameReceived(st[a], st[b], src, dst)
<1>. DEFINE n == b - a
            S == {k \in 0 .. n : st[a + k][dst].received[src] = st[a][dst].received[src]}
<1>1. Len(T) \in Nat /\ a \in Nat /\ b \in Nat /\ n \in Nat /\ a + n = b /\ a + 0 = a
  BY RunIs
<1>2. 0 \in S
  BY <1>1
<1>3. ASSUME NEW k \in 0 .. n - 1, k \in S
      PROVE  k + 1 \in S
  <2>1. a + k + 1 \in a + 1 .. b /\ a + k + 1 \in 1 .. Len(T) /\ (a + k + 1) - 1 = a + k
        /\ a + (k + 1) = a + k + 1 /\ k + 1 \in 0 .. n
    BY <1>1
  <2>3. Skips(T[a + k + 1], src, dst)
    BY <2>1
  <2>4. st[a + k + 1][dst].received[src] = st[(a + k + 1) - 1][dst].received[src]
    BY <2>1, <2>3, ReceivedBefore
  <2>. QED  BY <1>3, <2>1, <2>4
<1>. HIDE DEF n, S
<1>4. 0 .. n \subseteq S
  BY <1>1, <1>2, <1>3, Induction
<1>5. n \in S
  BY <1>1, <1>4
<1>. QED  BY <1>1, <1>5 DEF S, SameReceived

\* One sequence of messages begins with the other.
Extends(t, s) == DOMAIN s \subseteq DOMAIN t /\ \A n \in DOMAIN s : t[n] = s[n]

\* What was sent remains sent.
LEMMA SentGrows ==
    ASSUME NEW p, NEW T, NEW st, Runs(p, T, st), NEW src \in Id, NEW dst \in Id,
           NEW a \in 0 .. Len(T), NEW b \in 0 .. Len(T), a <= b
    PROVE  Extends(st[b][src].sent[dst], st[a][src].sent[dst])
<1>. DEFINE n == b - a
            S == {k \in 0 .. n : Extends(st[a + k][src].sent[dst], st[a][src].sent[dst])}
<1>1. Len(T) \in Nat /\ a \in Nat /\ b \in Nat /\ n \in Nat /\ a + n = b /\ a + 0 = a
  BY RunIs
<1>2. 0 \in S
  BY <1>1 DEF Extends
<1>3. ASSUME NEW k \in 0 .. n - 1, k \in S
      PROVE  k + 1 \in S
  <2>1. a + k + 1 \in a + 1 .. b /\ a + k + 1 \in 1 .. Len(T) /\ (a + k + 1) - 1 = a + k
        /\ a + (k + 1) = a + k + 1 /\ k + 1 \in 0 .. n /\ a + k \in 0 .. Len(T)
    BY <1>1
  <2>2. /\ RunStep(p, T[a + k + 1], st[a + k], st[a + k + 1]) /\ T[a + k + 1].id \in Id
        /\ st[a + k][src].sent[dst] \in Seq(QueuedMessage)
        /\ st[a + k + 1][src].sent[dst] \in Seq(QueuedMessage)
    BY <2>1, RunIs
  <2>. DEFINE s == st[a + k][src].sent[dst]
              t == st[a + k + 1][src].sent[dst]
  <2>3. t = s \/ \E e : t = Append(s, e)
    <3>1. t = s \/ OneMore(t, s, T[a + k + 1])
      BY <2>2, RunStepAdds, Zenon
    <3>. QED  BY <3>1 DEF OneMore
  <2>. HIDE DEF s, t
  <2>4. Extends(t, s)
    <3>1. s \in Seq(QueuedMessage)
      BY <2>2 DEF s
    <3>2. \A e : /\ DOMAIN Append(s, e) = 1 .. Len(s) + 1 /\ DOMAIN s = 1 .. Len(s)
                 /\ \A m \in DOMAIN s : Append(s, e)[m] = s[m]
      BY <3>1
    <3>. QED  BY <2>3, <3>1, <3>2 DEF Extends
  <2>. QED  BY <1>3, <2>1, <2>4 DEF Extends, s, t
<1>. HIDE DEF n, S
<1>4. 0 .. n \subseteq S
  BY <1>1, <1>2, <1>3, Induction
<1>5. n \in S
  BY <1>1, <1>4
<1>. QED  BY <1>1, <1>5 DEF S

\* The n-th message of src to dst, as of st[b], was sent by the m-th step.
SentAt(T, st, src, dst, n, b, m) ==
    /\ T[m].id = src
    /\ n \in DOMAIN st[m][src].sent[dst]
    /\ st[m][src].sent[dst][n] = st[b][src].sent[dst][n]
    /\ st[b][src].sent[dst][n].clock = T[m].clock

\* A message that was sent was sent by a step, whose clock it carries.
LEMMA SentByAStep ==
    ASSUME NEW p, NEW T, NEW st, Runs(p, T, st), NEW src \in Id, NEW dst \in Id,
           NEW b \in 0 .. Len(T), NEW n \in DOMAIN st[b][src].sent[dst]
    PROVE  \E m \in 1 .. b : SentAt(T, st, src, dst, n, b, m)
<1>. DEFINE SentIn(k) == \E m \in 1 .. k : /\ T[m].id = src
                                           /\ n \in DOMAIN st[m][src].sent[dst]
                                           /\ st[m][src].sent[dst][n].clock = T[m].clock
            S == {k \in 0 .. b : n \in DOMAIN st[k][src].sent[dst] => SentIn(k)}
<1>1. Len(T) \in Nat /\ b \in Nat
  BY RunIs
<1>2. 0 \in S
  <2>1. st[0][src] = NewLocal(src)
    BY DEF Runs
  <2>2. st[0][src].sent[dst] = << >>
    BY <2>1 DEF NewLocal
  <2>. QED  BY <1>1, <2>2
<1>3. ASSUME NEW k \in 0 .. b - 1, k \in S
      PROVE  k + 1 \in S
  <2>1. k + 1 \in 1 .. Len(T) /\ (k + 1) - 1 = k /\ k + 1 \in 0 .. b /\ k \in 0 .. Len(T)
        /\ k + 1 \in 1 .. k + 1 /\ 1 .. k \subseteq 1 .. k + 1
    BY <1>1
  <2>2. /\ RunStep(p, T[k + 1], st[k], st[k + 1]) /\ T[k + 1].id \in Id
        /\ st[k][src].sent[dst] \in Seq(QueuedMessage)
    BY <2>1, RunIs
  <2>. DEFINE s == st[k][src].sent[dst]
              t == st[k + 1][src].sent[dst]
  <2>3. CASE t = s
    BY <1>3, <2>1, <2>3
  <2>4. ASSUME NEW msg, T[k + 1].id = src, t = Append(s, [msg |-> msg, clock |-> T[k + 1].clock]),
               n \in DOMAIN t
        PROVE  SentIn(k + 1)
    <3>1. s \in Seq(QueuedMessage)
      BY <2>2
    <3>2. CASE n \in DOMAIN s
      BY <1>3, <2>1, <3>2
    <3>3. CASE n \notin DOMAIN s
      <4>. DEFINE e == [msg |-> msg, clock |-> T[k + 1].clock]
      <4>1. e.clock = T[k + 1].clock
        OBVIOUS
      <4>. HIDE DEF e, s
      <4>2. t = Append(s, e) /\ s \in Seq(QueuedMessage) /\ n \notin DOMAIN s
        BY <2>4, <3>1, <3>3 DEF e
      <4>. HIDE DEF t
      <4>3. t[n] = e
        BY <2>4, <4>2
      <4>. QED  BY <2>1, <2>4, <4>1, <4>3 DEF t
    <3>. QED  BY <3>2, <3>3
  <2>. HIDE DEF SentIn
  <2>5. t = s \/ (T[k + 1].id = src /\ \E msg : t = Append(s, [msg |-> msg, clock |-> T[k + 1].clock]))
    <3>1. t = s \/ (T[k + 1].id = src /\ OneMore(t, s, T[k + 1]))
      BY <2>2, RunStepAdds, Zenon
    <3>. QED  BY <3>1 DEF OneMore
  <2>. QED  BY <2>1, <2>3, <2>4, <2>5
<1>. HIDE DEF S
<1>4. 0 .. b \subseteq S
  BY <1>1, <1>2, <1>3, Induction
<1>5. SentIn(b)
  BY <1>1, <1>4 DEF S
<1>6. PICK m \in 1 .. b : /\ T[m].id = src
                          /\ n \in DOMAIN st[m][src].sent[dst]
                          /\ st[m][src].sent[dst][n].clock = T[m].clock
  BY <1>5
<1>7. m \in 0 .. Len(T) /\ m <= b
  BY <1>1
<1>8. Extends(st[b][src].sent[dst], st[m][src].sent[dst])
  BY <1>7, SentGrows
<1>. QED  BY <1>6, <1>8 DEF Extends, SentAt

-----------------------------------------------------------------------------
(* The current trace is a run                                              *)

\* What a step makes of an actor is an actor.
LEMMA LocalAfterIsLocal ==
    ASSUME NEW p, NEW id \in Id, NEW s, IsLocal(s), NEW event \in Event, NEW event_clock \in Clock,
           Commanded(p, id, s, event) \in Command
    PROVE  IsLocal(LocalAfter(p, id, s, event, event_clock))
<1>. DEFINE command == Commanded(p, id, s, event)
            tc == Delayed(s, event)
            c == MergeIn(Increment(s.clock, id), event_clock)
            after == LocalAfter(p, id, s, event, event_clock)
<1>1. c \in Clock
  BY IdIsPos, AtIncrement, AtMergeIn DEF IsLocal
<1>2. command \in Command
  OBVIOUS
<1>3. /\ after.clock = c
      /\ after.iterator = Awaiting(command, tc)
      /\ after.sent = [dst \in Id |-> IF command.type = "Send" /\ command.dst = dst
                                      THEN Append(s.sent[dst], [msg |-> command.msg, clock |-> c])
                                      ELSE s.sent[dst]]
      /\ after.received = [src \in Id |-> IF event.type = "RecvOk" /\ event.src = src
                                          THEN Append(s.received[src], [msg |-> event.msg, clock |-> event_clock])
                                          ELSE s.received[src]]
  BY DEF LocalAfter
<1>. HIDE DEF command, tc, c, after
<1>4. after.sent \in [Id -> Seq(QueuedMessage)]
  <2>1. command.type = "Send" => [msg |-> command.msg, clock |-> c] \in QueuedMessage
    BY <1>1, <1>2, CommandFields DEF QueuedMessage
  <2>2. \A dst \in Id : s.sent[dst] \in Seq(QueuedMessage)
    BY DEF IsLocal
  <2>. QED  BY <1>3, <2>1, <2>2
<1>5. after.received \in [Id -> Seq(QueuedMessage)]
  <2>1. event.type = "RecvOk" => [msg |-> event.msg, clock |-> event_clock] \in QueuedMessage
    BY DEF Event, QueuedMessage
  <2>2. \A src \in Id : s.received[src] \in Seq(QueuedMessage)
    BY DEF IsLocal
  <2>. QED  BY <1>3, <2>1, <2>2
<1>6. after.iterator.kind = "DeadlineElapsed" => TRUE \in after.iterator.remaining
  <2>1. command.type \in {"Deadline", "DeadlineElapsed", "SleepUntil", "Expect", "ExpectationMet",
                          "Exit", "Panic", "Recv", "Send"}
    BY <1>2 DEF Command
  <2>2. command.type = "DeadlineElapsed" =>
            Awaiting(command, tc) = DeadlineElapsedIs(Possibilities(tc, command.deadline))
    BY DEF Awaiting
  <2>3. command.type # "DeadlineElapsed" => Awaiting(command, tc).kind # "DeadlineElapsed"
    BY <2>1 DEF Awaiting, Deterministic, Receiving
  <2>4. TRUE \in Possibilities(tc, command.deadline)
    BY DEF Possibilities
  <2>5. \A remaining : DeadlineElapsedIs(remaining).remaining = remaining
    BY DEF DeadlineElapsedIs
  <2>6. CASE command.type = "DeadlineElapsed"
    <3>1. after.iterator = DeadlineElapsedIs(Possibilities(tc, command.deadline))
      BY <1>3, <2>2, <2>6
    <3>2. after.iterator.remaining = Possibilities(tc, command.deadline)
      BY <2>5, <3>1
    <3>. QED  BY <2>4, <3>2
  <2>7. CASE command.type # "DeadlineElapsed"
    BY <1>3, <2>3, <2>7
  <2>. QED  BY <2>6, <2>7
<1>. QED  BY <1>1, <1>3, <1>4, <1>5, <1>6 DEF IsLocal, after

\* A run can be extended by a step.
LEMMA LongerRun ==
    ASSUME NEW p, NEW T, NEW st, Runs(p, T, st), NEW r \in TraceRecord, NEW t,
           RunStep(p, r, st[Len(T)], t), \A id \in Id : IsLocal(t[id])
    PROVE  \E st2 : /\ Runs(p, Append(T, r), st2)
                    /\ st2[Len(Append(T, r))] = t
<1>. DEFINE n == Len(T)
            U == Append(T, r)
            st2 == [k \in 0 .. n + 1 |-> IF k = n + 1 THEN t ELSE st[k]]
<1>1. T \in Seq(TraceRecord) /\ n \in Nat
  BY DEF Runs
<1>2. /\ U \in Seq(TraceRecord) /\ Len(U) = n + 1
      /\ U[n + 1] = r /\ \A k \in 1 .. n : U[k] = T[k]
  BY <1>1
<1>3. /\ st2[n + 1] = t
      /\ \A k \in 0 .. n : st2[k] = st[k]
  BY <1>1
<1>4. /\ \A k \in 0 .. n : \A id \in Id : IsLocal(st[k][id])
      /\ \A id \in Id : st[0][id] = NewLocal(id)
      /\ \A k \in 1 .. n : RunStep(p, T[k], st[k - 1], st[k])
      /\ RunStep(p, r, st[n], t)
  BY DEF Runs
<1>. HIDE DEF n, U, st2
<1>5. \A k \in 0 .. n + 1 : \A id \in Id : IsLocal(st2[k][id])
  <2>1. \A k \in 0 .. n + 1 : k = n + 1 \/ k \in 0 .. n
    BY <1>1
  <2>. QED  BY <1>3, <1>4, <2>1
<1>6. \A id \in Id : st2[0][id] = NewLocal(id)
  BY <1>1, <1>3, <1>4
<1>7. \A k \in 1 .. n + 1 : RunStep(p, U[k], st2[k - 1], st2[k])
  <2>1. \A k \in 1 .. n + 1 : \/ k = n + 1 /\ k - 1 = n /\ n \in 0 .. n
                              \/ k \in 1 .. n /\ k \in 0 .. n /\ k - 1 \in 0 .. n
    BY <1>1
  <2>. QED  BY <1>2, <1>3, <1>4, <2>1
<1>8. Runs(p, U, st2) /\ st2[Len(U)] = t
  BY <1>2, <1>3, <1>5, <1>6, <1>7 DEF Runs
<1>. QED  BY <1>8 DEF U

\* The trace took the actors through the states in st to where they are.
OnRun(st) ==
    /\ Runs(cfg_fn, trace_records, st)
    /\ \A id \in Id : Local(id) = st[Len(trace_records)][id]

\* The inductive invariant: unless it unwound, the trace is a run.
RunInv == panicked = "None" => \E st : OnRun(st)

\* Before the first step every actor is new.
LEMMA NewTraceIsLocal == NewTrace => \A id \in Id : Local(id) = NewLocal(id) /\ trace_records = << >>
<1>. SUFFICES ASSUME NewTrace, NEW id \in Id
              PROVE  Local(id) = NewLocal(id) /\ trace_records = << >>
  OBVIOUS
<1>1. trace_records = << >> /\ trace_records \in Seq(TraceRecord)
  BY DEF NewTrace
<1>2. LastQuery(id) = {}
  BY <1>1 DEF LastQuery
<1>3. \A I : Subsequence(trace_records, I) = << >>
  <2>1. \A I : \A k \in 1 .. Len(trace_records) : k \notin I
    BY <1>1
  <2>. QED  BY <1>1, <2>1, SubsequenceOfNone, Zenon
<1>4. \A src, dst : SentMessages(src, dst) = << >> /\ ReceivedMessages(src, dst) = << >>
  BY <1>3 DEF SentMessages, ReceivedMessages
<1>5. /\ behavior[id] = << >> /\ clock[id] = NewWithLen(N)
      /\ enabled_events[id] = Spawned(id) /\ expectation[id] = {}
      /\ time_context[id] = EmptyContext
  BY DEF NewTrace
<1>6. /\ [dst \in Id |-> SentMessages(id, dst)] = [dst \in Id |-> << >>]
      /\ [src \in Id |-> ReceivedMessages(src, id)] = [src \in Id |-> << >>]
  BY <1>4
<1>. QED  BY <1>1, <1>2, <1>5, <1>6, SameLocal, Zenon DEF Local, NewLocal

\* A new actor is an actor.
LEMMA NewLocalIsLocal == ASSUME NEW id \in Id PROVE IsLocal(NewLocal(id))
<1>1. NewWithLen(N) \in Clock
  BY NAssumption, AtNewWithLen
<1>2. [other \in Id |-> << >>] \in [Id -> Seq(QueuedMessage)]
  OBVIOUS
<1>3. /\ NewLocal(id).clock = NewWithLen(N) /\ NewLocal(id).iterator.kind = "Deterministic"
      /\ NewLocal(id).sent = [other \in Id |-> << >>]
      /\ NewLocal(id).received = [other \in Id |-> << >>]
  BY DEF NewLocal, Spawned, Deterministic
<1>. QED  BY <1>1, <1>2, <1>3 DEF IsLocal

\* No steps are a run.
LEMMA EmptyRun ==
    ASSUME NEW p
    PROVE  \E st : Runs(p, << >>, st) /\ st[0] = [id \in Id |-> NewLocal(id)]
<1>. DEFINE new == [id \in Id |-> NewLocal(id)]
            st == [k \in {0} |-> new]
<1>1. \A id \in Id : IsLocal(new[id]) /\ new[id] = NewLocal(id)
  BY NewLocalIsLocal
<1>2. st[0] = new /\ Len(<< >>) = 0 /\ << >> \in Seq(TraceRecord) /\ 0 .. 0 = {0} /\ 1 .. 0 = {}
  OBVIOUS
<1>. HIDE DEF new, st
<1>3. Runs(p, << >>, st)
  BY <1>1, <1>2 DEF Runs
<1>. QED  BY <1>2, <1>3 DEF new

\* A trace that has just begun is a run of no steps ...
LEMMA NewTraceRuns == NewTrace => RunInv
<1>. SUFFICES ASSUME NewTrace PROVE \E st : OnRun(st)
  BY DEF RunInv
<1>1. PICK st : Runs(cfg_fn, << >>, st) /\ st[0] = [id \in Id |-> NewLocal(id)]
  BY EmptyRun
<1>2. trace_records = << >> /\ Len(<< >>) = 0
  BY DEF NewTrace
<1>3. \A id \in Id : Local(id) = NewLocal(id)
  BY NewTraceIsLocal
<1>4. OnRun(st)
  BY <1>1, <1>2, <1>3 DEF OnRun
<1>. QED  BY <1>4

\* ... and is one after a reset.
LEMMA NewTraceRunsAgain == NewTrace' => RunInv'
BY NewTraceRuns, PTL

\* A scheduled step that does not unwind is one more step of the run.
LEMMA StepRuns ==
    ASSUME OfferInv, Conserved, panicked = "None", NEW st, OnRun(st),
           NEW id \in Id, NEW pending \in EnabledEvents(id),
           Step(id, pending.event, pending.event_clock), panicked' = "None"
    PROVE  RunInv'
<1>. DEFINE r == NewRecord(id, pending.event, pending.event_clock)
            n == Len(trace_records)
            s == st[n]
            after == LocalAfter(cfg_fn, id, Local(id), pending.event, pending.event_clock)
<1>1. ActorTypeOK /\ trace_records \in Seq(TraceRecord) /\ n \in 0 .. n
  BY DEF OfferInv, ActorTypeOK
<1>2. /\ r \in TraceRecord /\ r.id = id
      /\ r.event = pending.event /\ r.event_clock = pending.event_clock
      /\ r.clock = Tick(id, pending.event_clock)
      /\ trace_records' = Append(trace_records, r)
  BY ScheduledStep
<1>3. /\ Commanded(cfg_fn, id, Local(id), r.event) \in Command
      /\ Unwound(Local(id), Commanded(cfg_fn, id, Local(id), r.event)) = "None"
  BY <1>2, SteppedActor
<1>4. Runs(cfg_fn, trace_records, st) /\ \A a \in Id : Local(a) = s[a]
  BY DEF OnRun
<1>5. \A a \in Id : IsLocal(Local(a)) /\ IsLocal(s[a])
  BY <1>1, <1>4 DEF Runs
<1>6. /\ LocallyOffered(Local(id), r)
      /\ r.event.type = "RecvOk" =>
            r.event.src \in Id /\ Arrived(Local(r.event.src), Local(id), r)
  BY <1>2, <1>5, OfferedLocally
<1>7. \A a \in Id : Local(a)' = IF a = id THEN after ELSE Local(a)
  BY LocalStep
<1>8. PICK t : t = [a \in Id |-> Local(a)']
  OBVIOUS
<1>9. \A a \in Id : t[a] = Local(a)' /\ t[a] = IF a = id THEN after ELSE s[a]
  BY <1>4, <1>7, <1>8
<1>10. after.clock = r.clock
  BY <1>2 DEF LocalAfter, Local, Tick
<1>11. after = LocalAfter(cfg_fn, id, s[id], r.event, r.event_clock)
  BY <1>2, <1>4
<1>12. IsLocal(after)
  BY <1>1, <1>2, <1>3, <1>5, LocalAfterIsLocal, OffersAreTyped
<1>. HIDE DEF after, r, s
<1>13. \A a \in Id : IsLocal(t[a])
  BY <1>5, <1>9, <1>12
<1>14. RunStep(cfg_fn, r, s, t)
  BY <1>2, <1>3, <1>4, <1>6, <1>9, <1>10, <1>11 DEF RunStep
<1>15. PICK st2 : /\ Runs(cfg_fn, Append(trace_records, r), st2)
                  /\ st2[Len(Append(trace_records, r))] = t
  BY <1>2, <1>4, <1>13, <1>14, LongerRun DEF s
<1>16. cfg_fn' = cfg_fn
  BY DEF Step, Advance
<1>17. OnRun(st2)'
  BY <1>2, <1>9, <1>15, <1>16 DEF OnRun
<1>. QED  BY <1>17 DEF RunInv

\* Where no actor is stepped, all remain what they are.
LEMMA UnchangedLocal ==
    ASSUME UNCHANGED actor_vars, NEW id
    PROVE  Local(id)' = Local(id)
<1>1. UNCHANGED actors /\ trace_records' = trace_records
  BY DEF actor_vars
<1>2. \A a : LastQuery(a)' = LastQuery(a)
  BY <1>1 DEF LastQuery
<1>3. \A src, dst : SentMessages(src, dst)' = SentMessages(src, dst)
  BY <1>1 DEF SentMessages, Sends
<1>4. \A src, dst : ReceivedMessages(src, dst)' = ReceivedMessages(src, dst)
  BY <1>1 DEF ReceivedMessages, Receives
<1>. QED  BY <1>1, <1>2, <1>3, <1>4 DEF actors, Local

\* RunInv is inductive.
LEMMA NextRuns ==
    ASSUME OfferInv, ShapedClocks, Conserved, RunInv, [ActorNext]_actor_vars
    PROVE  RunInv'
<1>1. CASE Schedule
  <2>1. PICK id \in Id : /\ panicked = "None"
                         /\ \E pending \in EnabledEvents(id) :
                               Step(id, pending.event, pending.event_clock)
    BY <1>1 DEF Schedule
  <2>2. PICK pending \in EnabledEvents(id) : Step(id, pending.event, pending.event_clock)
    BY <2>1
  <2>3. PICK st : OnRun(st)
    BY <2>1 DEF RunInv
  <2>4. panicked' = "None" => RunInv'
    BY <2>1, <2>2, <2>3, StepRuns
  <2>. QED  BY <2>4 DEF RunInv
<1>2. CASE ResetActors
  BY <1>2, ResetIsNewTrace, NewTraceRunsAgain DEF OfferInv
<1>3. CASE UNCHANGED actor_vars
  <2>1. /\ UNCHANGED actors /\ cfg_fn' = cfg_fn /\ trace_records' = trace_records
        /\ panicked' = panicked
    BY <1>3 DEF actor_vars
  <2>5. \A id \in Id : Local(id)' = Local(id)
    BY <1>3, UnchangedLocal
  <2>6. \A st : OnRun(st) => OnRun(st)'
    BY <2>1, <2>5 DEF OnRun
  <2>. QED  BY <2>1, <2>6 DEF RunInv
<1>. QED  BY <1>1, <1>2, <1>3 DEF ActorNext

-----------------------------------------------------------------------------
(* Replaying some of the steps of a run                                    *)

\* Of the steps of an actor, S has those up to the l-th of the trace.
Cut(T, S, id, l) ==
    /\ l \in 0 .. Len(T)
    /\ \A m \in 1 .. Len(T) : T[m].id = id => (m \in S <=> m <= l)

\* What the actor in s receives by the step r was sent by a step in S.
Supplied(T, st, S, s, r) ==
    \E m \in S : /\ m \in 1 .. Len(T) /\ T[m].id = r.event.src
                 /\ Arrived(st[m][r.event.src], s, r)

\* The actor in s can take the step r after the steps in S.
Served(T, st, S, s, r) ==
    /\ LocallyOffered(s, r)
    /\ r.event.type = "RecvOk" => r.event.src \in Id /\ Supplied(T, st, S, s, r)

(***************************************************************************)
(* The actors are where the steps in S take them: each is where the run    *)
(* had it after the last of its steps that is in S.                        *)
(***************************************************************************)
Replayed(T, st, S) ==
    \A id \in Id : \E l : Cut(T, S, id, l) /\ Local(id) = st[l][id]

\* An actor is the same in two states of the run between which it is idle.
Alike(st, a, b, id) == st[a][id] = st[b][id]

\* All places up to which S has the steps of an actor give it one state.
LEMMA OneCut ==
    ASSUME NEW p, NEW T, NEW st, Runs(p, T, st), NEW id \in Id, NEW S,
           NEW a, NEW b, Cut(T, S, id, a), Cut(T, S, id, b)
    PROVE  Alike(st, a, b, id)
<1>1. /\ Len(T) \in Nat /\ a \in 0 .. Len(T) /\ b \in 0 .. Len(T)
      /\ \A m \in 1 .. Len(T) : T[m].id = id => (m <= a <=> m <= b)
  BY RunIs DEF Cut
<1>2. ASSUME NEW c \in 0 .. Len(T), NEW d \in 0 .. Len(T), c <= d,
             \A m \in 1 .. Len(T) : T[m].id = id => (m <= c <=> m <= d)
      PROVE  Alike(st, c, d, id)
  <2>1. \A k \in c + 1 .. d : T[k].id # id
    BY <1>1, <1>2
  <2>. QED  BY <1>1, <1>2, <2>1, StaysIdle DEF Alike
<1>3. CASE a <= b
  BY <1>1, <1>2, <1>3
<1>4. CASE b <= a
  <2>1. Alike(st, b, a, id)
    BY <1>1, <1>2, <1>4
  <2>. QED  BY <2>1 DEF Alike
<1>. QED  BY <1>1, <1>3, <1>4

\* What was sent early is sent later.
LEMMA ArrivedStays ==
    ASSUME NEW p, NEW T, NEW st, Runs(p, T, st), NEW src \in Id, NEW r, r.id \in Id, NEW s,
           NEW a \in 0 .. Len(T), NEW b \in 0 .. Len(T), a <= b, Arrived(st[a][src], s, r)
    PROVE  Arrived(st[b][src], s, r)
<1>1. Extends(st[b][src].sent[r.id], st[a][src].sent[r.id])
  BY SentGrows
<1>. QED  BY <1>1 DEF Arrived, Extends

(***************************************************************************)
(* After the steps in S the actors offer a step that can be taken after    *)
(* the steps in S.                                                         *)
(***************************************************************************)
LEMMA Ready ==
    ASSUME ActorTypeOK, Conserved, NEW p, NEW T, NEW st, Runs(p, T, st), NEW S,
           Replayed(T, st, S), NEW r, r.id \in Id, r.event \in Event,
           NEW l, Cut(T, S, r.id, l), Served(T, st, S, st[l][r.id], r)
    PROVE  /\ Local(r.id) = st[l][r.id]
           /\ Pending(r.event, r.event_clock) \in EnabledEvents(r.id)
<1>. DEFINE id == r.id
            src == r.event.src
<1>1. \A a \in Id : IsLocal(Local(a))
  <2>1. \A k \in 0 .. Len(T) : \A a \in Id : IsLocal(st[k][a])
    BY DEF Runs
  <2>. QED  BY <2>1 DEF Replayed, Cut
<1>2. Local(id) = st[l][id]
  <2>1. PICK a : Cut(T, S, id, a) /\ Local(id) = st[a][id]
    BY DEF Replayed
  <2>2. Alike(st, a, l, id)
    BY <2>1, OneCut
  <2>. QED  BY <2>1, <2>2 DEF Alike
<1>3. LocallyOffered(Local(id), r)
  BY <1>2 DEF Served
<1>4. ASSUME r.event.type = "RecvOk"
      PROVE  Arrived(Local(src), Local(id), r)
  <2>1. src \in Id /\ Supplied(T, st, S, st[l][id], r)
    BY <1>4 DEF Served
  <2>2. PICK m \in S : /\ m \in 1 .. Len(T) /\ T[m].id = src
                       /\ Arrived(st[m][src], st[l][id], r)
    BY <2>1 DEF Supplied
  <2>3. PICK a : Cut(T, S, src, a) /\ Local(src) = st[a][src]
    BY <2>1 DEF Replayed
  <2>4. m \in 0 .. Len(T) /\ a \in 0 .. Len(T) /\ m <= a
    BY <2>2, <2>3 DEF Cut
  <2>5. Arrived(st[a][src], st[l][id], r)
    BY <2>1, <2>2, <2>4, ArrivedStays
  <2>. QED  BY <1>2, <2>3, <2>5
<1>5. Pending(r.event, r.event_clock) \in EnabledEvents(id)
  BY <1>1, <1>3, <1>4, OfferedAgain
<1>. QED  BY <1>2, <1>5

\* What a step of a run receives was sent by an earlier step, whose clock it merged.
LEMMA ReceivedFromAStep ==
    ASSUME NEW p, NEW T, NEW st, Runs(p, T, st), NEW k \in 1 .. Len(T), T[k].event.type = "RecvOk"
    PROVE  /\ T[k].event.src \in Id
           /\ \E m \in 1 .. k - 1 : /\ T[m].id = T[k].event.src
                                    /\ Arrived(st[m][T[k].event.src], st[k - 1][T[k].id], T[k])
                                    /\ T[m].clock = T[k].event_clock
<1>. DEFINE r == T[k]
            src == r.event.src
            s == st[k - 1][r.id]
            n == Len(s.received[src]) + 1
<1>1. /\ Len(T) \in Nat /\ r.id \in Id /\ RunStep(p, r, st[k - 1], st[k])
      /\ k - 1 \in 0 .. Len(T)
  BY RunIs
<1>2. src \in Id /\ Arrived(st[k - 1][src], s, r)
  BY <1>1 DEF RunStep
<1>3. /\ n \in DOMAIN st[k - 1][src].sent[r.id]
      /\ st[k - 1][src].sent[r.id][n] = [msg |-> r.event.msg, clock |-> r.event_clock]
  BY <1>2 DEF Arrived
<1>. HIDE DEF r, src, s, n
<1>4. PICK m \in 1 .. k - 1 : SentAt(T, st, src, r.id, n, k - 1, m)
  BY <1>1, <1>2, <1>3, SentByAStep
<1>5. Arrived(st[m][src], s, r)
  BY <1>3, <1>4 DEF Arrived, n, src, SentAt
<1>6. T[m].clock = r.event_clock /\ T[m].id = src
  BY <1>3, <1>4 DEF SentAt
<1>. QED  BY <1>2, <1>4, <1>5, <1>6 DEF r, src, s

\* A step of a run can be taken after steps that include the sender's.
LEMMA StepIsServed ==
    ASSUME NEW p, NEW T, NEW st, Runs(p, T, st), NEW k \in 1 .. Len(T), NEW S,
           \A m \in 1 .. k - 1 :
              T[k].event.type = "RecvOk" /\ T[m].clock = T[k].event_clock => m \in S
    PROVE  Served(T, st, S, st[k - 1][T[k].id], T[k])
<1>1. RunStep(p, T[k], st[k - 1], st[k]) /\ Len(T) \in Nat
  BY RunIs
<1>2. ASSUME T[k].event.type = "RecvOk"
      PROVE  T[k].event.src \in Id /\ Supplied(T, st, S, st[k - 1][T[k].id], T[k])
  <2>1. PICK m \in 1 .. k - 1 : /\ T[m].id = T[k].event.src
                                /\ Arrived(st[m][T[k].event.src], st[k - 1][T[k].id], T[k])
                                /\ T[m].clock = T[k].event_clock
    BY <1>2, ReceivedFromAStep
  <2>2. m \in S /\ m \in 1 .. Len(T)
    BY <1>1, <1>2, <2>1
  <2>. QED  BY <1>1, <1>2, <2>1, <2>2 DEF Supplied, RunStep
<1>. QED  BY <1>1, <1>2 DEF Served, RunStep

\* In a new trace nothing is replayed.
LEMMA NewTraceReplays ==
    NewTrace => \A p, T, st : Runs(p, T, st) => Replayed(T, st, {})
<1>. SUFFICES ASSUME NewTrace, NEW p, NEW T, NEW st, Runs(p, T, st), NEW id \in Id
              PROVE  Cut(T, {}, id, 0) /\ Local(id) = st[0][id]
  BY DEF Replayed
<1>1. Len(T) \in Nat /\ DOMAIN T = 1 .. Len(T)
  BY RunIs
<1>2. Cut(T, {}, id, 0)
  BY <1>1 DEF Cut
<1>3. Local(id) = NewLocal(id) /\ st[0][id] = NewLocal(id)
  BY NewTraceIsLocal DEF Runs
<1>. QED  BY <1>2, <1>3

\* The same after a reset.
LEMMA NewTraceReplaysAgain ==
    NewTrace' => (\A p, T, st : Runs(p, T, st) => Replayed(T, st, {}))'
BY NewTraceReplays, PTL

(***************************************************************************)
(* A step of the run that is taken again after the steps in S is one the   *)
(* actors offer, it does not unwind, and it takes its actor where it took  *)
(* it before.                                                              *)
(***************************************************************************)
LEMMA StepAgain ==
    ASSUME OfferInv, Conserved, panicked = "None", NEW T, NEW st, Runs(cfg_fn, T, st),
           NEW S, Replayed(T, st, S), NEW k \in 1 .. Len(T), Cut(T, S, T[k].id, k - 1),
           Served(T, st, S, st[k - 1][T[k].id], T[k]),
           Step(T[k].id, T[k].event, T[k].event_clock)
    PROVE  /\ panicked' = "None"
           /\ Pending(T[k].event, T[k].event_clock) \in EnabledEvents(T[k].id)
           /\ Replayed(T, st, S \cup {k})'
<1>. DEFINE r == T[k]
            id == r.id
            s == st[k - 1][id]
            pending == Pending(r.event, r.event_clock)
            command == CommandFor(id, r.event)
<1>1. /\ Len(T) \in Nat /\ id \in Id /\ r \in TraceRecord /\ r.event \in Event
      /\ RunStep(cfg_fn, r, st[k - 1], st[k])
  BY RunIs DEF TraceRecord
<1>2. Local(id) = s /\ pending \in EnabledEvents(id)
  BY <1>1, Ready DEF OfferInv
<1>3. pending.event = r.event /\ pending.event_clock = r.event_clock
  BY DEF Pending
<1>. HIDE DEF pending
<1>4. Refusal(id, r.event, r.event_clock) = "None"
  BY <1>1, <1>2, <1>3, OffersAreAccepted
<1>5. panicked' = Unwinding(id, command)
  BY <1>4 DEF Step, Advance, Deliver
<1>6. Unwinding(id, command) = "None"
  <2>1. Unwound(s, Commanded(cfg_fn, id, s, r.event)) = "None"
    BY <1>1 DEF RunStep
  <2>2. s.behavior = behavior[id] /\ s.expectation = expectation[id]
    BY <1>2 DEF Local
  <2>3. Commanded(cfg_fn, id, s, r.event) = command
    BY <2>2 DEF Commanded, CommandFor
  <2>4. Unwound(s, command) = Unwinding(id, command)
    BY <2>2 DEF Unwound, Unwinding
  <2>. QED  BY <2>1, <2>3, <2>4
<1>7. \A other \in Id : Local(other)' = IF other = id
                                        THEN LocalAfter(cfg_fn, id, Local(id), r.event, r.event_clock)
                                        ELSE Local(other)
  <2>1. Step(id, pending.event, pending.event_clock) /\ panicked' = "None"
    BY <1>3, <1>5, <1>6
  <2>. HIDE DEF id
  <2>2. \A other \in Id : Local(other)' =
            IF other = id
            THEN LocalAfter(cfg_fn, id, Local(id), pending.event, pending.event_clock)
            ELSE Local(other)
    BY <1>1, <1>2, <2>1, LocalStep
  <2>. QED  BY <1>3, <2>2
<1>8. ASSUME NEW other \in Id
      PROVE  \E l : Cut(T, S \cup {k}, other, l) /\ Local(other)' = st[l][other]
  <2>1. CASE other = id
    <3>1. Local(id)' = st[k][id]
      BY <1>1, <1>2, <1>7 DEF RunStep
    <3>2. Cut(T, S \cup {k}, id, k)
      BY <1>1 DEF Cut
    <3>. QED  BY <2>1, <3>1, <3>2
  <2>2. CASE other # id
    <3>1. PICK l : Cut(T, S, other, l) /\ Local(other) = st[l][other]
      BY DEF Replayed
    <3>2. Cut(T, S \cup {k}, other, l)
      BY <2>2, <3>1 DEF Cut
    <3>. QED  BY <1>7, <2>2, <3>1, <3>2
  <2>. QED  BY <2>1, <2>2
<1>9. Replayed(T, st, S \cup {k})'
  BY <1>8 DEF Replayed
<1>. QED  BY <1>2, <1>5, <1>6, <1>9 DEF pending

-----------------------------------------------------------------------------
(* The invariant of the actors                                             *)

\* Everything that the steps of run preserve, as far as it is about the actors.
ActorInv == OfferInv /\ CausalInv /\ LinkedClocks /\ Conserved /\ ShapedClocks /\ RunInv

\* ActorInv is inductive.
LEMMA NextKeepsActorInv ==
    ASSUME ActorInv, [ActorNext]_actor_vars
    PROVE  ActorInv'
BY NextOffers, NextIsSound, NextLinks, NextConserves, NextKeepsShape, NextRuns DEF ActorInv

\* ActorInv holds initially.
LEMMA InitHasActorInv == ActorInit => ActorInv
<1>. SUFFICES ASSUME ActorInit PROVE ActorInv
  OBVIOUS
<1>1. OfferInv /\ CausalInv
  BY InitOffers, InitTypes, InitIsSound DEF CausalInv
<1>2. NewTrace
  BY InitIsNewTrace
<1>3. LinkedClocks
  <2>1. NothingCounted
    BY <1>2, NAssumption, AtNewWithLen DEF NewTrace, NothingCounted
  <2>. QED  BY <2>1, NothingIsLinked
<1>4. Conserved
  <2>1. NothingSent
    BY <1>2 DEF NewTrace, NothingSent
  <2>. QED  BY <2>1, EmptyConserves
<1>5. ShapedClocks /\ RunInv
  BY <1>2, NewTraceIsShaped, NewTraceRuns
<1>. QED  BY <1>1, <1>3, <1>4, <1>5 DEF ActorInv

=============================================================================
