---------------------------- MODULE MCUdpRuntime ----------------------------
(***************************************************************************)
(* UdpRuntime for TLC: two actors, a server (actor 1) and its peer.        *)
(***************************************************************************)
EXTENDS UdpRuntime, Scripts

MCBehave(program, id, events) == Run(program[id], events)

Programs == {
    \* Requests and replies; a reply that is not the expected one panics.
    <<Once(<<Recv, Reply("r"), Recv, Reply("s")>>), Once(<<Send(1, "m"), Recv, Refute("s", Send(1, "m")), Recv>>)>>,
    <<Echo(<< >>), Once(<<Send(1, "m"), Send(1, "n"), Recv, Refute("n", Exit)>>)>>,
    \* Deadlines and expectations, and nobody to wait for.
    <<Once(<<Deadline(2), Deadline(1), Elapsed(1), SleepUntil(0), Elapsed(0)>>),
      Once(<<Expect("x"), Send(2, "m"), ExpectationMet>>)>>,
    \* Commands that end an actor: a panic of the task, and one of the behavior.
    <<Once(<<Deadline(1), SleepUntil(0), Panic>>), Once(<<Send(1, "m"), Unwind>>)>>,
    <<Once(<<Send(2, "m"), Unwind>>), Once(<<Recv, Expect("x")>>)>>}

\* No behavior waits for a message.
WithoutRecv ==
    {<<p, q>> : p \in {Once(<<Deadline(1), SleepUntil(0), Send(2, "m")>>),
                       Once(<<Send(2, "m"), Panic>>), Once(<<Send(1, "n"), Unwind>>)},
                q \in {Once(<<Deadline(2), Elapsed(0), Send(1, "m"), Send(1, "n")>>),
                       Once(<<Expect("x"), Send(2, "m"), ExpectationMet>>),
                       Once(<<Deadline(1), Unwind>>)}}

JoinPrograms == Programs \cup WithoutRecv

MCMessage == {"m", "n", "r", "s"}
MCDescription == {"x"}

=============================================================================
