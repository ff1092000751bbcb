----------------------- MODULE LinearizabilityTester -----------------------
(***************************************************************************)
(* crates/consistency_model/src/linearizability.rs: the tester as a record,*)
(* its methods as operators.  With every operation the tester keeps        *)
(* last_completed: for every other thread, the index of the last operation *)
(* that thread had completed when this one was invoked.                    *)
(***************************************************************************)
EXTENDS SequentialSpec, FiniteSets

CONSTANT ThreadId

\* The maps are empty at first; a thread without an entry is one without history.
New(init_ref_obj) ==
    [init_ref_obj |-> init_ref_obj,
     history_by_thread |-> [t \in ThreadId |-> << >>],
     in_flight_by_thread |-> [t \in {} |-> << >>],
     is_valid_history |-> TRUE]

IsInFlight(tester, thread_id) == thread_id \in DOMAIN tester.in_flight_by_thread

Invalid(tester) == [tester EXCEPT !.is_valid_history = FALSE]

\* Mutant: one of the other threads is remembered.
LastCompletedOfOneMutant(tester, thread_id) ==
    LET others == {u \in ThreadId \ {thread_id} : tester.history_by_thread[u] # << >>}
    IN  [t \in {u \in others : u = CHOOSE v \in others : TRUE} |-> Len(tester.history_by_thread[t]) - 1]

\* For every other thread with history, the index of its last operation.
LastCompleted(tester, thread_id) ==
    [t \in {u \in ThreadId \ {thread_id} : tester.history_by_thread[u] # << >>} |->
        Len(tester.history_by_thread[t]) - 1]

OnInvoke(tester, thread_id, op) ==
    CASE ~tester.is_valid_history -> tester
      [] tester.is_valid_history /\ IsInFlight(tester, thread_id) -> Invalid(tester)
      [] OTHER ->
            LET in_flight == [completed |-> LastCompleted(tester, thread_id), op |-> op]
            IN  [tester EXCEPT !.in_flight_by_thread =
                    [t \in DOMAIN @ \cup {thread_id} |->
                        IF t = thread_id THEN in_flight ELSE @[t]]]

OnReturn(tester, thread_id, ret) ==
    CASE ~tester.is_valid_history -> tester
      [] tester.is_valid_history /\ ~IsInFlight(tester, thread_id) -> Invalid(tester)
      [] OTHER ->
            LET in_flight == tester.in_flight_by_thread[thread_id]
            IN  [tester EXCEPT
                    !.in_flight_by_thread = [t \in DOMAIN @ \ {thread_id} |-> @[t]],
                    !.history_by_thread[thread_id] =
                        Append(@, [completed |-> in_flight.completed,
                                   op |-> in_flight.op, ret |-> ret])]

-----------------------------------------------------------------------------

\* Mutant: the peer's operation with the very index recorded may follow.
IsViolationMutant(history_by_thread, completed, done) ==
    \E t \in DOMAIN completed :
        done[t] < Len(history_by_thread[t]) /\ done[t] < completed[t]

\* A peer has yet to take an operation that the one at hand has to follow.
\* done[t] operations of t are taken, so done[t] is the index of the next one.
IsViolation(history_by_thread, completed, done) ==
    \E t \in DOMAIN completed :
        done[t] < Len(history_by_thread[t]) /\ done[t] <= completed[t]

(***************************************************************************)
(* A call of serialize: the operations in order so far, the object after   *)
(* them, how many of each thread are among them, and what may still be.    *)
(***************************************************************************)
Start(tester) ==
    [valid_history |-> << >>,
     ref_obj |-> tester.init_ref_obj,
     done |-> [t \in ThreadId |-> 0],
     in_flight |-> tester.in_flight_by_thread]

IsDone(tester, call) == \A t \in ThreadId : call.done[t] = Len(tester.history_by_thread[t])

Followed(call, op, ret) ==
    [call EXCEPT !.valid_history = Append(@, <<op, ret>>), !.ref_obj = After(@, op)]

\* Case 1: nothing completed is left of the thread t.
TakeInFlight(tester, call, t) ==
    LET flying == call.in_flight[t]
    IN  IF t \notin DOMAIN call.in_flight
           \/ IsViolation(tester.history_by_thread, flying.completed, call.done)
        THEN {}
        ELSE {[Followed(call, flying.op, Ret(call.ref_obj, flying.op))
                  EXCEPT !.in_flight = [u \in DOMAIN @ \ {t} |-> @[u]]]}

\* Case 2: the next completed operation of t.
TakeCompleted(tester, call, t) ==
    LET next == tester.history_by_thread[t][call.done[t] + 1]
    IN  IF \/ IsViolation(tester.history_by_thread, next.completed, call.done)
           \/ ~IsValidStep(call.ref_obj, next.op, next.ret)
        THEN {}
        ELSE {[Followed(call, next.op, next.ret) EXCEPT !.done[t] = @ + 1]}

\* serialize: the calls that it makes of itself.
Serialize(tester, call) ==
    IF IsDone(tester, call)
    THEN {}
    ELSE UNION {IF call.done[t] = Len(tester.history_by_thread[t])
                THEN TakeInFlight(tester, call, t)
                ELSE TakeCompleted(tester, call, t) : t \in ThreadId}

\* No thread has more operations than it has completed and one in flight.
Depth(tester) ==
    Cardinality(UNION {{t} \X (1 .. Len(tester.history_by_thread[t]) + 1) : t \in ThreadId})

\* The total orders that it finds.  The code returns the first one it comes to.
SerializedHistories(tester) ==
    LET reached[n \in 0 .. Depth(tester)] ==
            IF n = 0 THEN {Start(tester)}
            ELSE UNION {Serialize(tester, call) : call \in reached[n - 1]}
        calls == UNION {reached[n] : n \in 0 .. Depth(tester)}
    IN  IF tester.is_valid_history
        THEN {call.valid_history : call \in {c \in calls : IsDone(tester, c)}}
        ELSE {}

IsConsistent(tester) == SerializedHistories(tester) # {}

=============================================================================
