----------------------------- MODULE FibrilCore -----------------------------
(***************************************************************************)
(* crates/fibril_core/src/lib.rs: what runtimes and behaviors exchange.    *)
(*                                                                         *)
(* A behavior (the Step trait, or a fiber) is a deterministic machine that *)
(* answers every event with a command, so its state is the sequence of     *)
(* events it has been stepped with and Behave gives its answer.  The code  *)
(* numbers actors from 0, the model from 1.                                *)
(***************************************************************************)
EXTENDS Integers, Sequences

CONSTANTS
    N,                  \* the number of actors
    Message,            \* what actors send
    Duration,           \* what deadlines are created with
    Description,        \* what expectations are described by
    Program,            \* the configurations: the behaviors that are spawned
    Behave(_, _, _)     \* Behave(program, id, events): the command returned

ASSUME NAssumption == N \in Nat \ {0}
ASSUME DurationAssumption == Duration \subseteq Nat

Id == 1 .. N

-----------------------------------------------------------------------------
(* Events and commands.                                                    *)

SpawnOk(id)             == [type |-> "SpawnOk", id |-> id]
RecvOk(src, msg)        == [type |-> "RecvOk", src |-> src, msg |-> msg]
DeadlineOk(deadline)    == [type |-> "DeadlineOk", deadline |-> deadline]
DeadlineElapsedOk(bool) == [type |-> "DeadlineElapsedOk", elapsed |-> bool]
ExpectOk(description)   == [type |-> "ExpectOk", description |-> description]
ExpectationMetOk        == [type |-> "ExpectationMetOk"]
SendOk                  == [type |-> "SendOk"]
SleepUntilOk            == [type |-> "SleepUntilOk"]

Event ==
    [type : {"SpawnOk"}, id : Id]
        \cup [type : {"RecvOk"}, src : Id, msg : Message]
        \cup [type : {"DeadlineOk"}, deadline : Nat]
        \cup [type : {"DeadlineElapsedOk"}, elapsed : BOOLEAN]
        \cup [type : {"ExpectOk"}, description : Description]
        \cup [type : {"ExpectationMetOk", "SendOk", "SleepUntilOk"}]

\* What a behavior may answer; a panic inside it unwinds instead of answering.
Command ==
    [type : {"Deadline"}, duration : Duration]
        \cup [type : {"DeadlineElapsed", "SleepUntil"}, deadline : Nat]
        \cup [type : {"Expect"}, description : Description]
        \cup [type : {"ExpectationMet", "Exit", "Panic", "Recv"}]
        \cup [type : {"Send"}, dst : Id, msg : Message]

=============================================================================
