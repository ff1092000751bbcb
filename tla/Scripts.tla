------------------------------- MODULE Scripts -------------------------------
(***************************************************************************)
(* Behaviors for the model checker to run: scripts of the kind the tests   *)
(* of crates/fibril_verifier are written in.  A fiber that issues one      *)
(* command after another is a sequence of instructions; the k-th is what   *)
(* it answers to the k-th event.                                           *)
(*                                                                         *)
(* These are inputs of the verifier, chosen by the runs.  Most instructions*)
(* are commands; the others read what the fiber has received.              *)
(***************************************************************************)
EXTENDS Naturals, Sequences

Recv           == [type |-> "Recv"]
Exit           == [type |-> "Exit"]
Send(dst, msg) == [type |-> "Send", dst |-> dst, msg |-> msg]
Deadline(d)    == [type |-> "Deadline", duration |-> d]
Elapsed(id)    == [type |-> "DeadlineElapsed", deadline |-> id]
SleepUntil(id) == [type |-> "SleepUntil", deadline |-> id]
Expect(text)   == [type |-> "Expect", description |-> text]
ExpectationMet == [type |-> "ExpectationMet"]
Panic          == [type |-> "Panic"]

\* Answers the sender of the last message with msg (events.send(src, msg)).
Reply(msg)     == [type |-> "Reply", msg |-> msg]

\* assert_ne!(msg, the last message), then the command.
Refute(msg, command) == [type |-> "Refute", msg |-> msg, command |-> command]

\* The fiber returns if the deadline has elapsed, and issues the command if not.
UnlessElapsed(command) == [type |-> "UnlessElapsed", command |-> command]

\* A script, and what the fiber does when it has run through it.
Then(ops, last) == [ops |-> ops, last |-> last]

Once(ops)    == Then(ops, [type |-> "Exit"])    \* the fiber returns
Drain(ops)   == Then(ops, [type |-> "Recv"])    \* loop { recv }
Echo(ops)    == Then(ops, [type |-> "Echo"])    \* loop { recv, send it back }

Unwind == [type |-> "Unwind"]

-----------------------------------------------------------------------------

\* The last message received, with its source.
LastRecv(events) ==
    LET received == SelectSeq(events, LAMBDA e : e.type = "RecvOk")
    IN  received[Len(received)]

Answer(op, events) ==
    CASE op.type = "Reply"  -> Send(LastRecv(events).src, op.msg)
      [] op.type = "Refute" ->
            IF LastRecv(events).msg = op.msg THEN Unwind ELSE op.command
      [] op.type = "UnlessElapsed" ->
            IF events[Len(events)].elapsed THEN Exit ELSE op.command
      [] op.type = "Echo"   ->
            LET event == events[Len(events)]
            IN  IF event.type = "RecvOk" THEN Send(event.src, event.msg) ELSE Recv
      [] OTHER -> op

\* The command the script answers with, once it has consumed the events.
Run(script, events) ==
    Answer(IF Len(events) <= Len(script.ops) THEN script.ops[Len(events)] ELSE script.last,
           events)

=============================================================================
