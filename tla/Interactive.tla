----------------------------- MODULE Interactive -----------------------------
(***************************************************************************)
(* Verifier::into_fiber (crates/fibril_verifier/src/verifier.rs): an       *)
(* operator drives the actors by hand.  The operator sends requests over   *)
(* the network and gets replies that list the steps enabled now; StepOk    *)
(* also tells the location, a request that leads back to where the trace   *)
(* then was, which an operator may keep and send at any later time.        *)
(*                                                                         *)
(* The operator here only sends what replies offered: a step of the last   *)
(* list, or a location.  The trace trees, which this mode fills and never  *)
(* reads, are left out.                                                    *)
(***************************************************************************)
EXTENDS ActorSystem

VARIABLES
    bookmark,   \* the location the operator kept, with the actors there
    replaying   \* what ResetAndStepMany has still to step

vars == <<actor_vars, bookmark, replaying>>

-----------------------------------------------------------------------------

(***************************************************************************)
(* enabled_steps runs the iterator of every actor to its end.  The Recv    *)
(* iterator moves on within an inbox before it moves to the next one, so   *)
(* it lists every queued message.                                          *)
(***************************************************************************)
EnabledSteps(id) ==
    LET iterator == enabled_events[id]
        inboxes  == inbox_by_src[id]
        Offer(pending) ==
            [id |-> id, event |-> pending.event, event_clock |-> pending.event_clock]
    IN  IF iterator.kind = "Recv"
        THEN UNION {{Offer(Pending(RecvOk(src, m.msg), m.clock)) :
                        m \in {inboxes[src][k] : k \in DOMAIN inboxes[src]}} : src \in Id}
        ELSE {Offer(pending) : pending \in EnabledEvents(id)}

AllEnabledSteps == UNION {EnabledSteps(id) : id \in Id}

LocationOf(records) ==
    [k \in DOMAIN records |->
        [id |-> records[k].id, event |-> records[k].event, event_clock |-> records[k].event_clock]]

NoBookmark == [location |-> << >>]

Init ==
    /\ ActorInit
    /\ bookmark = NoBookmark
    /\ replaying = << >>

\* A request is handled to its end before the next; a panic ends the fiber.
Idle == panicked = "None" /\ replaying = << >>

\* VerifierMsg::Reset.
HandleReset ==
    /\ Idle
    /\ ResetActors
    /\ UNCHANGED <<bookmark, replaying>>

\* VerifierMsg::Step with a step of the last reply.
HandleStep ==
    /\ Idle
    /\ \E step \in AllEnabledSteps : Step(step.id, step.event, step.event_clock)
    /\ UNCHANGED <<bookmark, replaying>>

\* The operator keeps the location that StepOk has just told.
Keep ==
    /\ Idle
    /\ bookmark = NoBookmark
    /\ trace_records # << >>
    /\ bookmark' = [location |-> LocationOf(trace_records), actors |-> actors]
    /\ UNCHANGED <<actor_vars, replaying>>

\* VerifierMsg::ResetAndStepMany with the kept location: the reset, ...
HandleResetAndStepMany ==
    /\ Idle
    /\ bookmark # NoBookmark
    /\ ResetActors
    /\ replaying' = bookmark.location
    /\ UNCHANGED bookmark

\* ... and its steps, with no request handled in between.
StepMany ==
    /\ panicked = "None"
    /\ replaying # << >>
    /\ Step(Head(replaying).id, Head(replaying).event, Head(replaying).event_clock)
    /\ replaying' = Tail(replaying)
    /\ UNCHANGED bookmark

Next == HandleReset \/ HandleStep \/ Keep \/ HandleResetAndStepMany \/ StepMany

Spec == Init /\ [][Next]_vars

-----------------------------------------------------------------------------

(***************************************************************************)
(* A kept location leads back to the very state it was taken in, whatever  *)
(* the operator did meanwhile: no step of it panics, and at its end the    *)
(* behaviors, clocks, queues, deadlines and expectations are those of the  *)
(* time it was kept, so that the exploration can go on from there          *)
(* (into_fiber's ResetAndStepMany over reset_actors and step).             *)
(***************************************************************************)
LocationLeadsBack ==
    [][replaying # << >> =>
        /\ panicked' = "None"
        /\ replaying' = << >> => actors' = bookmark.actors]_vars

(***************************************************************************)
(* Every step that a reply lists as enabled can be taken: "interactive     *)
(* mode ... enumerating all enabled evants" (verifier.rs:28-31).           *)
(***************************************************************************)
OfferedStepsAreEnabled ==
    Idle => \A step \in AllEnabledSteps :
                Refusal(step.id, step.event, step.event_clock) = "None"

=============================================================================
