-------------------- MODULE SequentialConsistencyTester --------------------
(***************************************************************************)
(* crates/consistency_model/src/sequential_consistency.rs: the tester as a *)
(* record, its methods as operators.  Threads are only ordered within      *)
(* themselves.                                                             *)
(***************************************************************************)
EXTENDS SequentialSpec, FiniteSets

CONSTANT ThreadId

\* The maps are empty at first; a thread without an entry is one without history.
New(init_ref_obj) ==
    [init_ref_obj |-> init_ref_obj,
     history_by_thread |-> [t \in ThreadId |-> << >>],
     in_flight_by_thread |-> [t \in {} |-> << >>],
     is_valid_history |-> TRUE]

IsInFlight(tester, thread_id) == thread_id \in DOMAIN tester.in_flight_by_thread

Invalid(tester) == [tester EXCEPT !.is_valid_history = FALSE]

OnInvoke(tester, thread_id, op) ==
    CASE ~tester.is_valid_history -> tester
      [] tester.is_valid_history /\ IsInFlight(tester, thread_id) -> Invalid(tester)
      [] OTHER ->
            [tester EXCEPT !.in_flight_by_thread =
                [t \in DOMAIN @ \cup {thread_id} |-> IF t = thread_id THEN op ELSE @[t]]]

OnReturn(tester, thread_id, ret) ==
    CASE ~tester.is_valid_history -> tester
      [] tester.is_valid_history /\ ~IsInFlight(tester, thread_id) -> Invalid(tester)
      [] OTHER ->
            [tester EXCEPT
                !.in_flight_by_thread = [t \in DOMAIN @ \ {thread_id} |-> @[t]],
                !.history_by_thread[thread_id] =
                    Append(@, [op |-> tester.in_flight_by_thread[thread_id], ret |-> ret])]

-----------------------------------------------------------------------------

\* Mutant: an operation in flight is only tried for a thread without history.
CandidatesWithoutHistoryMutant(history_by_thread, done, in_flight) ==
    {t \in ThreadId : \/ done[t] < Len(history_by_thread[t])
                      \/ t \in DOMAIN in_flight /\ history_by_thread[t] = << >>}

\* The threads with a completed operation left, or one in flight.
Candidates(history_by_thread, done, in_flight) ==
    {t \in ThreadId : done[t] < Len(history_by_thread[t]) \/ t \in DOMAIN in_flight}

(***************************************************************************)
(* A call of serialize: the operations in order so far, the object after   *)
(* them, how many of each thread are among them, and what may still be.    *)
(***************************************************************************)
Start(tester) ==
    [valid_history |-> << >>,
     ref_obj |-> tester.init_ref_obj,
     done |-> [t \in ThreadId |-> 0],
     in_flight |-> tester.in_flight_by_thread]

IsDone(tester, call) == \A t \in ThreadId : call.done[t] = Len(tester.history_by_thread[t])

Followed(call, op, ret) ==
    [call EXCEPT !.valid_history = Append(@, <<op, ret>>), !.ref_obj = After(@, op)]

\* Case 1: nothing completed is left of the thread t.
TakeInFlight(call, t) ==
    LET op == call.in_flight[t]
    IN  {[Followed(call, op, Ret(call.ref_obj, op))
             EXCEPT !.in_flight = [u \in DOMAIN @ \ {t} |-> @[u]]]}

\* Case 2: the next completed operation of t.
TakeCompleted(tester, call, t) ==
    LET next == tester.history_by_thread[t][call.done[t] + 1]
    IN  IF ~IsValidStep(call.ref_obj, next.op, next.ret) THEN {}
        ELSE {[Followed(call, next.op, next.ret) EXCEPT !.done[t] = @ + 1]}

\* serialize: the calls that it makes of itself.
Serialize(tester, call) ==
    IF IsDone(tester, call)
    THEN {}
    ELSE UNION {IF call.done[t] = Len(tester.history_by_thread[t])
                THEN TakeInFlight(call, t)
                ELSE TakeCompleted(tester, call, t) :
                t \in Candidates(tester.history_by_thread, call.done, call.in_flight)}

\* No thread has more operations than it has completed and one in flight.
Depth(tester) ==
    Cardinality(UNION {{t} \X (1 .. Len(tester.history_by_thread[t]) + 1) : t \in ThreadId})

\* The total orders that it finds.  The code returns the first one it comes to.
SerializedHistories(tester) ==
    LET reached[n \in 0 .. Depth(tester)] ==
            IF n = 0 THEN {Start(tester)}
            ELSE UNION {Serialize(tester, call) : call \in reached[n - 1]}
        calls == UNION {reached[n] : n \in 0 .. Depth(tester)}
    IN  IF tester.is_valid_history
        THEN {call.valid_history : call \in {c \in calls : IsDone(tester, c)}}
        ELSE {}

IsConsistent(tester) == SerializedHistories(tester) # {}

=============================================================================
