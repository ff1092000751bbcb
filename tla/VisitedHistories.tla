--------------------------- MODULE VisitedHistories ---------------------------
(***************************************************************************)
(* What Verifier::run relies on an actor's TraceTree for: the set of the   *)
(* local histories that the actor went through, and the one it is at.      *)
(* A history is the sequence of the events of one trace, from SpawnOk on.  *)
(* The Verifier module has these two as trace_tree[id] and behavior[id].   *)
(***************************************************************************)
EXTENDS Naturals, Sequences

CONSTANTS
    Spawn,   \* the event that every trace starts with
    Event    \* the events that may follow

VARIABLES
    histories,  \* the histories visited
    current     \* the history of the present trace

vars == <<histories, current>>

Init == histories = {} /\ current = << >>

Visit(event) ==
    /\ current = << >> <=> event = Spawn
    /\ current' = Append(current, event)
    /\ histories' = histories \cup {current'}

ResetCursor == current' = << >> /\ UNCHANGED histories

Next == ResetCursor \/ \E event \in Event \cup {Spawn} : Visit(event)

Spec == Init /\ [][Next]_vars

=============================================================================
