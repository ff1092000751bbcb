----------------------------- MODULE TimeContext -----------------------------
(***************************************************************************)
(* crates/fibril_verifier/src/time_context.rs: what the verifier remembers *)
(* of the deadlines of one actor.  The verifier has no clock: a deadline   *)
(* is an identifier, numbered from 0 in the order of creation, with the    *)
(* duration it was created with, and it is pending until an event says     *)
(* that it elapsed.                                                        *)
(***************************************************************************)
EXTENDS Integers

\* An empty BTreeMap.
NoDeadlines == [deadline \in {} |-> 0]

EmptyContext == [next_new_deadline |-> 0, pending_deadlines |-> NoDeadlines]

\* Mutant: next_new_deadline is not incremented.
NewDeadlineSameIdMutant(tc, duration) ==
    [tc EXCEPT !.pending_deadlines =
        [d \in DOMAIN tc.pending_deadlines \cup {tc.next_new_deadline} |->
            IF d = tc.next_new_deadline THEN duration ELSE tc.pending_deadlines[d]]]

NewDeadline(tc, duration) ==
    [next_new_deadline |-> tc.next_new_deadline + 1,
     pending_deadlines |->
        [d \in DOMAIN tc.pending_deadlines \cup {tc.next_new_deadline} |->
            IF d = tc.next_new_deadline THEN duration ELSE tc.pending_deadlines[d]]]

\* The answers a query of the deadline may get: that it elapsed is always one.
Possibilities(tc, deadline) ==
    IF deadline \in DOMAIN tc.pending_deadlines THEN {TRUE, FALSE} ELSE {TRUE}

\* Mutant: the filter on durations is missing.
CompletedAnyDurationMutant(tc, elapsed) ==
    {d \in DOMAIN tc.pending_deadlines : d <= elapsed}

\* Mutant: take_while stops before the elapsed deadline itself.
CompletedBeforeMutant(tc, elapsed) ==
    {d \in DOMAIN tc.pending_deadlines :
        d < elapsed /\ tc.pending_deadlines[d] <= tc.pending_deadlines[elapsed]}

\* A deadline that elapsed takes along every earlier one of no longer duration.
Completed(tc, elapsed) ==
    {d \in DOMAIN tc.pending_deadlines :
        d <= elapsed /\ tc.pending_deadlines[d] <= tc.pending_deadlines[elapsed]}

DeadlineElapsed(tc, elapsed) ==
    IF elapsed \notin DOMAIN tc.pending_deadlines
    THEN tc
    ELSE [tc EXCEPT !.pending_deadlines =
            [d \in DOMAIN tc.pending_deadlines \ Completed(tc, elapsed) |->
                tc.pending_deadlines[d]]]

=============================================================================
