--------------------------- MODULE Configurations ---------------------------
(***************************************************************************)
(* The families of configurations that the runs of Verifier and            *)
(* VerifierAudit verify.  Actor 1 is the server of a configuration.        *)
(***************************************************************************)
EXTENDS VerifierTests

MCBehave(program, id, events) ==
    IF program[id] = Disco THEN DiscoServer(events) ELSE Run(program[id], events)

-----------------------------------------------------------------------------
(* One server that keeps receiving, and two clients: any script of up to   *)
(* three sends to it and receives.                                         *)

ClientOps == UNION {[1 .. len -> {Send(1, "m1"), Recv}] : len \in 0 .. 3}

Servers == {Drain(<< >>), Echo(<< >>)}

ServerProgram ==
    {FourActors(<<s, Once(p), Once(q)>>) : s \in Servers, p \in ClientOps, q \in ClientOps}

-----------------------------------------------------------------------------
(* Any configuration of three actors that keep receiving: every actor sends*)
(* to whom it likes before that, itself included, and receives in between. *)

AnyOps(lengths) ==
    UNION {[1 .. len -> {Send(dst, "m1") : dst \in 1 .. 3} \cup {Recv}] : len \in lengths}

AnyProgram ==
    {FourActors(<<Drain(p), Drain(q), Drain(r)>>) :
        p \in AnyOps(1 .. 2), q \in AnyOps({2}), r \in AnyOps({1})}

-----------------------------------------------------------------------------
(* Configurations in which some schedule panics, or leaves an expectation  *)
(* unmet, after up to three racing messages.                               *)

Bystanders == {Idle, Once(<<Send(1, "m2")>>), Drain(<<Send(1, "m1"), Send(1, "m1")>>)}

PanicProgram ==
    {<<Drain(<<Recv>> \o checks), Once(<<Send(1, "m1")>>), Once(<<Send(1, "m2"), Send(2, "w1")>>), b>> :
        checks \in {<<Refute("m2", Recv), Recv>>,
                    <<Send(2, "go"), Refute("m2", Recv), Recv>>,
                    <<Recv, Send(2, "go"), Recv, Refute("m1", Recv)>>,
                    <<Expect("x"), Recv, Expect("x")>>,
                    <<ExpectationMet>>},
        b \in Bystanders}

-----------------------------------------------------------------------------
VerifiedProgram == TestProgram \cup AnyProgram \cup PanicProgram

AuditedProgram == ServerProgram \cup PanicProgram

-----------------------------------------------------------------------------
(* Configurations that some schedule of is missed.                         *)

\* Four clients race for one server, each with one message.
FourSenders ==
    {<<Drain(<< >>)>> \o [c \in 1 .. 4 |-> Once(<<Send(1, m[c])>>)] :
        m \in {<<"m1", "m2", "w1", "w2">>}}

\* The server receives once.
FirstOfTwo ==
    {<<Once(<<Recv, Refute("m2", Exit)>>), Once(<<Send(1, "m1")>>), Once(<<Send(1, "m2")>>)>>}

\* Actor 4 sends to 2 before it races with 3 for 1.
TwoRecipients ==
    {<<Drain(<< >>), Drain(<< >>), Once(<<Send(1, "m1")>>), Once(<<Send(2, "m2"), Send(1, "w1")>>)>>}

\* Two servers, and two clients racing for both.
TwoRaces ==
    {<<Drain(<< >>), Drain(<< >>), Once(<<Send(1, "m1"), Send(2, "m1")>>),
       Once(<<Send(1, "m2"), Send(2, "m2")>>)>>}

\* A deadline is queried between two racing receives.
DeadlineBetweenReceives ==
    {<<Drain(<<Deadline(1), Recv, Elapsed(0), Recv>>), Once(<<Send(1, "m1")>>),
       Once(<<Send(1, "m2")>>)>>}

\* Two deadlines, and a race for the server that depends on one of them.
DeadlinesBesideRace ==
    {<<Drain(<< >>),
       Once(<<Send(1, "m1"), Deadline(1), Elapsed(0), UnlessElapsed(Recv)>>),
       Once(<<Deadline(1), Elapsed(0), UnlessElapsed(Send(2, "m2")), Send(1, "m2")>>)>>}

\* The reversal itself violates an assertion.
PanicAtOnce ==
    {<<Drain(<<Recv, Refute("m2", Recv)>>), Once(<<Send(1, "m1")>>), Once(<<Send(1, "m2")>>)>>}

-----------------------------------------------------------------------------

MCMessage == {"m1", "m2", "w1", "w2", "go", "r", "Renew", "Query", QueryOk({}), QueryOk({2})}
MCDescription == {"reply", "x"}

=============================================================================
