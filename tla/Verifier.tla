------------------------------- MODULE Verifier -------------------------------
(***************************************************************************)
(* Verifier::run (crates/fibril_verifier/src/verifier.rs): the exploration *)
(* of one representative trace after another by dynamic partial order      *)
(* reduction, with the tree of visited local histories each actor keeps    *)
(* (trace_tree.rs).                                                        *)
(*                                                                         *)
(* run is one thread, and deterministic: its steps are a loop unrolled.    *)
(* A local history, the events an actor was stepped with, names a node of  *)
(* the actor's tree, so the tree is the set of the histories visited; its  *)
(* cursor is the actor's present history, `behavior`.                      *)
(***************************************************************************)
EXTENDS ActorSystem

CONSTANT MaxTraceCount  \* MAX_TRACE_COUNT, 1024 * 1024 in the code

ASSUME MaxTraceCountAssumption == MaxTraceCount \in Nat \ {0}

VARIABLES
    pc,           \* where run is in its loop
    trace_tree,   \* trace_tree[id]: the local histories visited
    trace_count,  \* the traces started
    next_prefix,  \* the steps still to be replayed
    result,       \* the RunResult, once there is one
    maximal       \* history: what on_maximal was called with, up to equivalence

search == <<pc, trace_tree, trace_count, next_prefix, result, maximal>>
vars == <<actor_vars, search>>

-----------------------------------------------------------------------------

\* Every trace of a Mazurkiewicz class has the same local histories.
Class == behavior

\* Mutant: the history includes step k + 1.
HistoryTooLongMutant(id, k) ==
    LET local == Subsequence(trace_records, {l \in 1 .. k + 1 : trace_records[l].id = id})
    IN  [l \in DOMAIN local |-> local[l].event]

\* The local history of the actor in the first k steps of the trace.
History(id, k) ==
    LET local == Subsequence(trace_records, {l \in 1 .. k : trace_records[l].id = id})
    IN  [l \in DOMAIN local |-> local[l].event]

\* Mutant: the step is not remembered.
VisitNothingMutant(id) == UNCHANGED trace_tree

\* TraceTree::visit: the event becomes a child of the cursor, unless it is one.
Visit(id) ==
    trace_tree' = [trace_tree EXCEPT ![id] = @ \cup {behavior'[id]}]

\* Mutant: the event is looked up anywhere in the tree.
VisitedAnywhereMutant(id, history, event) == \E h \in trace_tree[id] : h[Len(h)] = event

\* Mutant: the event is looked up among the children of the tree's cursor.
VisitedAtCursorMutant(id, history, event) == Append(behavior[id], event) \in trace_tree[id]

\* TraceTree::visited: whether the history has the event as a child.
Visited(id, history, event) == Append(history, event) \in trace_tree[id]

-----------------------------------------------------------------------------
(* pick_next_step: the first event of the first actor that has one         *)

\* What EnabledEventIterator::next yields first: remaining is popped from its
\* end, where false is, and inboxes are tried in the order of their sources.
FirstEvent(id) ==
    LET events == EnabledEvents(id)
        IsFirst(p) ==
            CASE enabled_events[id].kind = "Deterministic"   -> TRUE
              [] enabled_events[id].kind = "DeadlineElapsed" ->
                    \A q \in events : q.event.elapsed = FALSE => p.event.elapsed = FALSE
              [] enabled_events[id].kind = "Recv"            ->
                    \A q \in events : p.event.src <= q.event.src
    IN  CHOOSE p \in events : IsFirst(p)

NextActor ==
    CHOOSE id \in Id : /\ EnabledEvents(id) # {}
                       /\ \A other \in Id : EnabledEvents(other) # {} => id <= other

-----------------------------------------------------------------------------
(* pick_next_representative_prefix                                         *)

IsRecv(k) == trace_records[k].event.type = "RecvOk"

\* The last answer "not elapsed" can always become "elapsed".
IsOpenDeadline(i) == trace_records[i].event = DeadlineElapsedOk(FALSE)

\* Mutant: any receive in between blocks the reversal.
IsQueuedBehindAnyMutant(i, j) == \E k \in j + 1 .. i - 1 : IsRecv(k)

\* A step between j and i receives from the source of i.
IsQueuedBehind(i, j) ==
    \E k \in j + 1 .. i - 1 :
        IsRecv(k) /\ trace_records[k].event.src = trace_records[i].event.src

\* The receives i and j of one actor race, and the tree lacks the reversal.
IsReversible(i, j) ==
    LET ri == trace_records[i]
        rj == trace_records[j]
    IN  /\ IsRecv(i) /\ IsRecv(j) /\ ri.id = rj.id
        /\ ~Leq(rj.clock, ri.event_clock)
        /\ ri.event.src # rj.event.src
        /\ ~IsQueuedBehind(i, j)
        /\ ~Visited(rj.id, History(rj.id, j - 1), ri.event)

Reversals(i) == {j \in 1 .. i - 1 : IsReversible(i, j)}

\* The steps whose outcome can still be changed; run changes the last one.
Alternatives == {i \in DOMAIN trace_records : IsOpenDeadline(i) \/ Reversals(i) # {}}

LastOf(S) == CHOOSE k \in S : \A l \in S : l <= k

Replay(r) == [id |-> r.id, event |-> r.event, event_clock |-> r.event_clock]

\* The steps at the places kept are replayed, and a last one.
Prefix(kept, last) ==
    LET records == Subsequence(trace_records, kept)
    IN  Append([k \in DOMAIN records |-> Replay(records[k])], last)

Elapsing(r) == [id |-> r.id, event |-> DeadlineElapsedOk(TRUE), event_clock |-> New]

\* Mutant: the reversed receive is replayed without what caused it.
NextPrefixWithoutCausesMutant ==
    LET i == LastOf(Alternatives)
    IN  IF IsOpenDeadline(i)
        THEN Prefix(1 .. i - 1, Elapsing(trace_records[i]))
        ELSE Prefix(1 .. LastOf(Reversals(i)) - 1, Replay(trace_records[i]))

\* Mutant: only the steps of the sender are kept.
CausesOfSenderMutant(i, j) ==
    {k \in j + 1 .. i - 1 : /\ trace_records[k].id = trace_records[i].event.src
                            /\ Leq(trace_records[k].clock, trace_records[i].event_clock)}

\* The steps between j and i that i depends on.
Causes(i, j) ==
    {k \in j + 1 .. i - 1 : Leq(trace_records[k].clock, trace_records[i].event_clock)}

NextPrefix ==
    LET i == LastOf(Alternatives)
        j == LastOf(Reversals(i))
    IN  IF IsOpenDeadline(i)
        THEN Prefix(1 .. i - 1, Elapsing(trace_records[i]))
        ELSE Prefix(1 .. j - 1 \cup Causes(i, j), Replay(trace_records[i]))

-----------------------------------------------------------------------------

Running == [outcome |-> "Running"]

Init ==
    /\ ActorInit
    /\ pc = "loop"
    /\ trace_tree = [id \in Id |-> {}]
    /\ trace_count = 0
    /\ next_prefix = << >>
    /\ result = Running
    /\ maximal = {}

Return(outcome) == result' = outcome /\ pc' = "returned"

\* Mutant: the bound is off by one.
GiveUpEarlyMutant ==
    /\ pc = "loop"
    /\ trace_count + 1 >= MaxTraceCount
    /\ Return([outcome |-> "Incomplete"])
    /\ UNCHANGED <<actor_vars, trace_tree, trace_count, next_prefix, maximal>>

\* The loop's bound is reached: RunResult::Incomplete.
GiveUp ==
    /\ pc = "loop"
    /\ trace_count >= MaxTraceCount
    /\ Return([outcome |-> "Incomplete"])
    /\ UNCHANGED <<actor_vars, trace_tree, trace_count, next_prefix, maximal>>

StartTrace ==
    /\ pc = "loop"
    /\ trace_count < MaxTraceCount
    /\ trace_count' = trace_count + 1
    /\ ResetActors
    /\ pc' = "trace"
    /\ UNCHANGED <<trace_tree, next_prefix, result, maximal>>

\* A step of the prefix; a panic here is not caught, and leaves run with it.
ReplayStep ==
    /\ pc = "trace"
    /\ next_prefix # << >>
    /\ LET step == Head(next_prefix)
       IN  /\ Step(step.id, step.event, step.event_clock)
           /\ IF panicked' = "None"
              THEN Visit(step.id) /\ UNCHANGED <<pc, result>>
              ELSE Return([outcome |-> "Unwound"]) /\ UNCHANGED trace_tree
    /\ next_prefix' = Tail(next_prefix)
    /\ UNCHANGED <<trace_count, maximal>>

\* The loop inside catch_unwind.
ExploreStep ==
    /\ pc = "trace"
    /\ next_prefix = << >>
    /\ ~Quiescent
    /\ LET id   == NextActor
           step == FirstEvent(id)
       IN  /\ Step(id, step.event, step.event_clock)
           /\ IF panicked' = "None"
              THEN Visit(id) /\ UNCHANGED pc
              ELSE pc' = "caught" /\ UNCHANGED trace_tree
    /\ UNCHANGED <<trace_count, next_prefix, result, maximal>>

\* Mutant: the trace is filtered by the clock of the last event.
MinimalTraceByEventMutant ==
    LET last == trace_records[Len(trace_records)]
        causes == {k \in DOMAIN trace_records : Leq(trace_records[k].clock, last.event_clock)}
    IN  Append(Subsequence(trace_records, causes), last)

\* The part of the trace that its last step depends on.
MinimalTrace ==
    LET final_clock == trace_records[Len(trace_records)].clock
    IN  Subsequence(trace_records,
                    {k \in DOMAIN trace_records : Leq(trace_records[k].clock, final_clock)})

\* A panic inside the loop was caught.
ReportPanic ==
    /\ pc = "caught"
    /\ Return([outcome |-> "Panic", minimal_trace |-> MinimalTrace])
    /\ maximal' = maximal \cup {Class}
    /\ UNCHANGED <<actor_vars, trace_tree, trace_count, next_prefix>>

\* The trace is maximal: an expectation is unmet, no alternative is left, or
\* the next trace starts with the reversal of the last race.
CompleteTrace ==
    /\ pc = "trace"
    /\ next_prefix = << >>
    /\ Quiescent
    /\ maximal' = maximal \cup {Class}
    /\ \/ /\ \E id \in Id : expectation[id] # {}
          /\ LET unmet == CHOOSE id \in Id : /\ expectation[id] # {}
                                             /\ \A l \in 1 .. id - 1 : expectation[l] = {}
             IN  Return([outcome |-> "UnmetExpectation", id |-> unmet, trace |-> trace_records])
          /\ UNCHANGED next_prefix
       \/ /\ \A id \in Id : expectation[id] = {}
          /\ Alternatives = {}
          /\ Return([outcome |-> "Complete"])
          /\ UNCHANGED next_prefix
       \/ /\ \A id \in Id : expectation[id] = {}
          /\ Alternatives # {}
          /\ next_prefix' = NextPrefix
          /\ pc' = "loop"
          /\ UNCHANGED result
    /\ UNCHANGED <<actor_vars, trace_tree, trace_count>>

Next == GiveUp \/ StartTrace \/ ReplayStep \/ ExploreStep \/ ReportPanic \/ CompleteTrace

Spec == Init /\ [][Next]_vars

-----------------------------------------------------------------------------

Outcome == {"Running", "Complete", "Incomplete", "Panic", "UnmetExpectation", "Unwound"}

\* The type invariant of the search, on top of that of the actors.
TypeOK ==
    /\ ActorTypeOK
    /\ pc \in {"loop", "trace", "caught", "returned"}
    /\ trace_tree \in [Id -> SUBSET Seq(Event)]
    /\ trace_count \in 0 .. MaxTraceCount
    /\ next_prefix \in Seq([id : Id, event : Event, event_clock : Clock])
    /\ result.outcome \in Outcome
    /\ pc = "returned" <=> result # Running

(***************************************************************************)
(* run only takes steps that the actors offer.  That is plain for the      *)
(* steps it explores, and what the replay of a prefix has to achieve: the  *)
(* prefix leaves out the steps the reversed receive does not depend on, so *)
(* it is not the beginning of any earlier trace, and yet every event of it *)
(* finds its message at the head of its queue with the recorded clock.     *)
(***************************************************************************)
EveryTraceIsASchedule == ActorSpec

(***************************************************************************)
(* A trace that is run to its end was not explored before in any of its    *)
(* equivalent orders: "the method picks a prefix that is guaranteed to be  *)
(* disjoint from the previously visited equivalence classes".              *)
(***************************************************************************)
NeverExploredTwice ==
    pc = "trace" /\ next_prefix = << >> /\ Quiescent => Class \notin maximal

(***************************************************************************)
(* The trees hold the whole of the current trace, so `visited` never meets *)
(* a prefix it does not know (its panics "Invalid prefix." and "Prefix     *)
(* empty."), and every tree is closed under prefixes, as a tree is.        *)
(***************************************************************************)
TreesHoldTheTrace ==
    \A id \in Id :
        /\ panicked = "None" /\ behavior[id] # << >> => behavior[id] \in trace_tree[id]
        /\ \A history \in trace_tree[id] :
              /\ history[1] = SpawnOk(id)
              /\ Len(history) > 1 => SubSeq(history, 1, Len(history) - 1) \in trace_tree[id]

(***************************************************************************)
(* The replay of a prefix does not panic: "First consume the prefix, which *)
(* is known to not panic" (verifier.rs:504).                               *)
(***************************************************************************)
PrefixDoesNotPanic == result.outcome # "Unwound"

(***************************************************************************)
(* If the replay of a prefix does panic, then in its last step, which is   *)
(* new: the steps of earlier traces do again what they did.                *)
(***************************************************************************)
OnlyTheLastStepUnwinds ==
    result.outcome = "Unwound" => next_prefix = << >> /\ panicked \notin RefusalReason

(***************************************************************************)
(* Incomplete is only said when the whole bound was spent, on traces that  *)
(* are pairwise not equivalent, and when there is one more to explore: a   *)
(* search that needs exactly MAX_TRACE_COUNT traces is still Complete.     *)
(***************************************************************************)
IncompleteAtTheLimit ==
    result.outcome = "Incomplete" =>
        /\ Cardinality(maximal) = MaxTraceCount
        /\ next_prefix # << >>

=============================================================================
