------------------------------- MODULE MCActors -------------------------------
(***************************************************************************)
(* ActorSystem for TLC: every schedule of a family of three-actor          *)
(* configurations, a server (actor 1) and two peers.                       *)
(***************************************************************************)
EXTENDS ActorSystem, Scripts

MCBehave(program, id, events) == Run(program[id], events)

Idle == Once(<< >>)

MCProgram == {
    \* A server that echoes, and two clients of it.
    <<Echo(<< >>), Once(<<Send(1, "a"), Recv>>), Once(<<Send(1, "b")>>)>>,
    \* A message that overtakes: actor 3 tells 1 directly and through 2.
    <<Drain(<< >>), Once(<<Recv, Reply("d"), Send(1, "c")>>), Once(<<Send(2, "b"), Send(1, "a")>>)>>,
    \* An assertion that one of the two orders of arrival violates.
    <<Once(<<Recv, Refute("b", Recv), Reply("ok")>>), Once(<<Send(1, "a")>>), Once(<<Send(1, "b")>>)>>,
    \* Deadlines, the later one of the shorter duration, and a receive.
    <<Drain(<<Deadline(2), Deadline(1), Elapsed(1), Elapsed(0), Recv, Elapsed(0), SleepUntil(0)>>),
      Once(<<Send(1, "a")>>), Idle>>,
    <<Once(<<Deadline(1), Deadline(2), Elapsed(1), Elapsed(0)>>), Idle, Idle>>,
    \* Expectations: met, met twice, and stated twice.
    <<Once(<<Expect("x"), Recv, ExpectationMet, Recv, ExpectationMet>>),
      Once(<<Send(1, "a"), Send(1, "b")>>), Idle>>,
    <<Once(<<Recv, Expect("x"), Recv, Expect("y")>>), Once(<<Send(1, "a")>>), Once(<<Send(1, "b")>>)>>,
    \* A message to oneself races with one from a peer.
    <<Drain(<<Send(1, "self"), Recv, Send(2, "a")>>), Drain(<<Send(1, "b")>>), Idle>>}

MCMessage == {"a", "b", "c", "d", "ok", "self"}
MCDescription == {"x", "y"}

=============================================================================
