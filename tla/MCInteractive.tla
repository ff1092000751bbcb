---------------------------- MODULE MCInteractive ----------------------------
(***************************************************************************)
(* Interactive for TLC.                                                    *)
(***************************************************************************)
EXTENDS Interactive, Scripts

MCBehave(program, id, events) == Run(program[id], events)

\* Actors that never have two messages of one sender queued.
OneAtATime == {
    <<Echo(<< >>), Once(<<Send(1, "m1"), Recv, Send(1, "m2"), Recv>>)>>,
    <<Drain(<<Deadline(1), Recv, Elapsed(0), Expect("x")>>), Once(<<Send(1, "m1")>>)>>,
    <<Drain(<<Deadline(2), Deadline(1), Elapsed(1), SleepUntil(0), Elapsed(0)>>), Drain(<< >>)>>,
    <<Drain(<<Recv, ExpectationMet>>), Once(<<Expect("x"), Send(1, "m1"), Recv, ExpectationMet>>)>>}

\* A client that does not wait for its first message to be received.
TwoQueued == {<<Drain(<< >>), Once(<<Send(1, "m1"), Send(1, "m2")>>)>>}

MCMessage == {"m1", "m2"}
MCDescription == {"x"}

=============================================================================
