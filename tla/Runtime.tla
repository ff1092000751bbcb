------------------------------- MODULE Runtime -------------------------------
(***************************************************************************)
(* What any runtime promises to the behaviors it runs (the Step trait and  *)
(* the Event and Command enums of crates/fibril_core/src/lib.rs, and the   *)
(* match on the answer in every function of crates/fibril/src/sdk.rs).     *)
(* This is the abstract specification that both runtimes implement: the    *)
(* UDP runtime with its threads, channels and sockets, and the actors of   *)
(* the verifier.                                                           *)
(*                                                                         *)
(* All there is of an actor is the sequence of events it was stepped with. *)
(* Messages may be lost, copied and overtaken, and nothing has to happen.  *)
(***************************************************************************)
EXTENDS FibrilCore

VARIABLES
    cfg_fn,    \* the behaviors that were spawned
    behavior   \* behavior[id]: the events the behavior has consumed

vars == <<cfg_fn, behavior>>

\* What the behavior answered to its k-th event.
CommandAfter(id, k) == Behave(cfg_fn, id, SubSeq(behavior[id], 1, k))

\* Its last command, once it has one.
LastCommand(id) == CommandAfter(id, Len(behavior[id]))

\* The deadlines the behavior was given.
Deadlines(id) ==
    {behavior[id][k].deadline : k \in {l \in DOMAIN behavior[id] : behavior[id][l].type = "DeadlineOk"}}

\* The behavior asked about a deadline it had and was told that it has passed.
ToldElapsed(id, deadline) ==
    \E k \in 2 .. Len(behavior[id]) :
        /\ behavior[id][k] = DeadlineElapsedOk(TRUE)
        /\ CommandAfter(id, k - 1) = [type |-> "DeadlineElapsed", deadline |-> deadline]
        /\ \E l \in 1 .. k - 1 : behavior[id][l] = DeadlineOk(deadline)

\* The behavior of src has sent msg to dst.
HasSent(src, dst, msg) ==
    \E k \in 1 .. Len(behavior[src]) :
        CommandAfter(src, k) = [type |-> "Send", dst |-> dst, msg |-> msg]

(***************************************************************************)
(* The event answers the last command of the behavior.  Deadlines are told *)
(* apart, "not elapsed" is only said of a deadline that exists and never   *)
(* after "elapsed", and a message was sent by the actor it is said to be   *)
(* from.  Nothing answers Exit, Panic, or a behavior that has unwound.     *)
(***************************************************************************)
IsAnswer(id, event) ==
    LET command == LastCommand(id)
        Answers(type, eventType) == command.type = type /\ event.type = eventType
    IN  /\ event \in Event
        /\ IF behavior[id] = << >>
           THEN event = SpawnOk(id)
           ELSE /\ command \in Command
                /\ \/ /\ Answers("Deadline", "DeadlineOk")
                      /\ event.deadline \notin Deadlines(id)
                   \/ /\ Answers("DeadlineElapsed", "DeadlineElapsedOk")
                      /\ ~event.elapsed => /\ command.deadline \in Deadlines(id)
                                           /\ ~ToldElapsed(id, command.deadline)
                   \/ /\ Answers("Expect", "ExpectOk")
                      /\ event.description = command.description
                   \/ Answers("ExpectationMet", "ExpectationMetOk")
                   \/ /\ Answers("Recv", "RecvOk")
                      /\ HasSent(event.src, id, event.msg)
                   \/ Answers("Send", "SendOk")
                   \/ Answers("SleepUntil", "SleepUntilOk")

-----------------------------------------------------------------------------

Init == cfg_fn \in Program /\ behavior = [id \in Id |-> << >>]

Answer(id, event) ==
    /\ IsAnswer(id, event)
    /\ behavior' = [behavior EXCEPT ![id] = Append(@, event)]
    /\ UNCHANGED cfg_fn

\* A behavior is stepped; the event is the one that was appended.
StepBehavior ==
    \E id \in Id : /\ Len(behavior'[id]) > Len(behavior[id])
                   /\ Answer(id, behavior'[id][Len(behavior'[id])])

\* The verifier runs the same behaviors again from their start.
Restart == behavior' = [id \in Id |-> << >>] /\ UNCHANGED cfg_fn

\* The runtime that runs behaviors once, ...
Spec == Init /\ [][StepBehavior]_vars

\* ... and the one that may restart them.
RestartingSpec == Init /\ [][StepBehavior \/ Restart]_vars

=============================================================================
