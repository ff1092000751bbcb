---------------------------- MODULE VerifierTests ----------------------------
(***************************************************************************)
(* The tests of crates/fibril_verifier that assert what Verifier::run does *)
(* with a configuration: how it ends, after how many traces and, in the    *)
(* tests of verifier.rs and of the discovery example, along which traces.  *)
(*                                                                         *)
(* An asserted trace is told by the actors that are stepped, what they     *)
(* learn (messages received, deadlines elapsed or not), and what they      *)
(* send, each in the order of the trace: the rest of it follows.           *)
(***************************************************************************)
EXTENDS Scripts, Discovery

Trace(schedule, learned, sent) == [schedule |-> schedule, learned |-> learned, sent |-> sent]

\* Idle actors make every configuration one of four actors.
Idle == Once(<< >>)

FourActors(cfg) == cfg \o [k \in 1 .. 4 - Len(cfg) |-> Idle]

NotAsserted == << >>

Counted(cfg, count, outcome) ==
    [cfg |-> FourActors(cfg), actors |-> Len(cfg), count |-> count, outcome |-> outcome,
     traces |-> NotAsserted]

Traced(cfg, traces) ==
    [cfg |-> FourActors(cfg), actors |-> Len(cfg), count |-> Len(traces), outcome |-> "Complete",
     traces |-> traces]

-----------------------------------------------------------------------------
(* verifier.rs                                                             *)

DoesNotReverseDependentRecvOk ==
    Traced(<<Once(<<Recv, Send(1, "m1"), Recv>>), Once(<<Send(1, "m2")>>)>>,
           <<Trace(<<1, 2, 1, 1, 1, 2>>, <<"m2", "m1">>, <<"m2", "m1">>)>>)

Asking == <<Send(1, "m1"), Expect("reply"), Recv, ExpectationMet>>

HighlightsUnmetExpectations == Counted(<<Drain(<< >>), Once(Asking)>>, 1, "UnmetExpectation")

IgnoresMetExpectations == Counted(<<Echo(<< >>), Once(Asking)>>, 1, "Complete")

Worker(msg) == Once(<<Recv, Send(1, msg)>>)

GoClient == Once(<<Send(1, "m1"), Send(2, "go"), Send(3, "go")>>)

\* The six orders in which the registry, actor 1, may receive m1, w1 and w2.
ReversesRecvOkEnabledBeforeEarlierRacingStepClock ==
    LET sent == <<"m1", "go", "w1", "go", "w2">>
    IN  Traced(<<Once(<<Recv, Recv, Recv>>), Worker("w1"), Worker("w2"), GoClient>>,
               <<Trace(<<1, 2, 3, 4, 1, 4, 2, 1, 2, 4, 3, 1, 3, 4>>, <<"m1", "go", "w1", "go", "w2">>, sent),
                 Trace(<<1, 2, 3, 4, 1, 4, 2, 4, 3, 1, 1, 2, 3, 4>>, <<"m1", "go", "go", "w2", "w1">>, sent),
                 Trace(<<1, 2, 3, 4, 4, 2, 1, 1, 2, 4, 3, 1, 3, 4>>, <<"go", "w1", "m1", "go", "w2">>, sent),
                 Trace(<<1, 2, 3, 4, 4, 2, 1, 4, 3, 1, 1, 2, 3, 4>>, <<"go", "w1", "go", "w2", "m1">>, sent),
                 Trace(<<1, 2, 3, 4, 4, 2, 4, 3, 1, 1, 1, 2, 3, 4>>, <<"go", "go", "w2", "w1", "m1">>, sent),
                 Trace(<<1, 2, 3, 4, 4, 2, 4, 3, 1, 1, 1, 2, 3, 4>>, <<"go", "go", "w2", "m1", "w1">>, sent)>>)

RespectsNetworkQueuingFromSelfSend ==
    Traced(<<Once(<<Send(1, "m1"), Send(1, "m2"), Recv, Recv>>)>>,
           <<Trace(<<1, 1, 1, 1, 1>>, <<"m1", "m2">>, <<"m1", "m2">>)>>)

RespectsNetworkQueuingFromClientSend ==
    Traced(<<Once(<<Recv, Recv, Recv>>), Once(<<Send(1, "m1"), Send(1, "m2")>>), Once(<<Send(1, "w1")>>)>>,
           <<Trace(<<1, 2, 1, 2, 1, 2, 3, 1, 3>>, <<"m1", "m2", "w1">>, <<"m1", "m2", "w1">>),
             Trace(<<1, 2, 1, 2, 3, 1, 1, 2, 3>>, <<"m1", "w1", "m2">>, <<"m1", "m2", "w1">>),
             Trace(<<1, 2, 3, 1, 1, 2, 1, 2, 3>>, <<"w1", "m1", "m2">>, <<"m1", "w1", "m2">>)>>)

\* The traces of one schedule, one for each sequence of answers.
Answering(schedule, answers) ==
    [k \in DOMAIN answers |-> Trace(schedule, answers[k], << >>)]

F == "false"
T == "true"

DeadlineIdsAreUniqueOnlyWithinAnActor ==
    LET sleeper == Once(<<Deadline(5), SleepUntil(0)>>)
    IN  Traced(<<sleeper, sleeper>>, Answering(<<1, 1, 1, 2, 2, 2>>, << << >> >>))

AsksOnce == Once(<<Deadline(5), Elapsed(0)>>)

ReversesAllReversibleDeadlineElapsed ==
    Traced(<<AsksOnce, AsksOnce>>,
           Answering(<<1, 1, 1, 2, 2, 2>>, <<<<F, F>>, <<F, T>>, <<T, F>>, <<T, T>>>>))

DoesNotReverseKnownElapsedDeadline ==
    Traced(<<Once(<<Deadline(5), Elapsed(0), Elapsed(0)>>), AsksOnce>>,
           Answering(<<1, 1, 1, 1, 2, 2, 2>>,
                     <<<<F, F, F>>, <<F, F, T>>, <<F, T, F>>, <<F, T, T>>, <<T, T, F>>, <<T, T, T>>>>))

DistinguishesBetweenElapsedDeadlines ==
    Traced(<<Once(<<Deadline(5), Deadline(15), Elapsed(0), Elapsed(1)>>)>>,
           Answering(<<1, 1, 1, 1, 1>>, <<<<F, F>>, <<F, T>>, <<T, F>>, <<T, T>>>>))

-----------------------------------------------------------------------------
(* examples/discovery.rs                                                   *)

Disco == [ops |-> << >>, last |-> [type |-> "Disco"]]

\* Whether there is a collection before Renew and before Query, and whether the
\* second one finds the record expired.
HasExpectedTraces ==
    LET none == << >>
        Expected(renew, query, schedule, found) ==
            Trace(schedule, <<"Renew">> \o renew \o <<"Query">> \o query, <<"Renew", "Query", found>>)
    IN  Traced(<<Disco, Once(<<Send(1, "Renew"), Send(1, "Query")>>)>>,
               <<Expected(<<F>>, <<F>>, <<1, 1, 2, 1, 1, 1, 2, 1, 1, 1, 2>>, QueryOk({2})),
                 Expected(<<F>>, <<T, F>>, <<1, 1, 2, 1, 1, 1, 2, 1, 1, 1, 1, 1, 2>>, QueryOk({2})),
                 Expected(<<F>>, <<T, T>>, <<1, 1, 2, 1, 1, 1, 2, 1, 1, 1, 1, 1, 2>>, QueryOk({})),
                 Expected(<<T>>, <<F>>, <<1, 1, 2, 1, 1, 1, 1, 2, 1, 1, 1, 2>>, QueryOk({2})),
                 Expected(<<T>>, <<T, F>>, <<1, 1, 2, 1, 1, 1, 1, 2, 1, 1, 1, 1, 1, 2>>, QueryOk({2})),
                 Expected(<<T>>, <<T, T>>, <<1, 1, 2, 1, 1, 1, 1, 2, 1, 1, 1, 1, 1, 2>>, QueryOk({}))>>)

-----------------------------------------------------------------------------
(* tests/time.rs, tests/echo.rs, tests/calc.rs and tests/registry.rs       *)

TimeServer ==
    Drain(<<Deadline(2), Recv, Elapsed(0), Reply("r"), Recv, Elapsed(0), Reply("r")>>)

EchoClient == Once(<<Send(1, "m1"), Recv, Send(1, "m2"), Recv>>)

IntegrationTests ==
    {Counted(<<TimeServer, Once(<<Send(1, "m1")>>)>>, 2, "Complete"),
     Counted(<<TimeServer, Once(<<Send(1, "m1"), Send(1, "m1")>>)>>, 3, "Complete"),
     Counted(<<Echo(<< >>), EchoClient, EchoClient>>, 6, "Complete"),
     Counted(<<Echo(<< >>), Once(<<Send(1, "m1"), Recv>>), Once(<<Send(1, "m2"), Recv>>)>>, 2, "Complete"),
     Counted(<<Drain(<< >>), Worker("w1"), Worker("w2"), GoClient>>, 6, "Complete")}

Tests ==
    {DoesNotReverseDependentRecvOk, HighlightsUnmetExpectations, IgnoresMetExpectations,
     ReversesRecvOkEnabledBeforeEarlierRacingStepClock, RespectsNetworkQueuingFromSelfSend,
     RespectsNetworkQueuingFromClientSend, DeadlineIdsAreUniqueOnlyWithinAnActor,
     ReversesAllReversibleDeadlineElapsed, DoesNotReverseKnownElapsedDeadline,
     DistinguishesBetweenElapsedDeadlines, HasExpectedTraces} \cup IntegrationTests

TestProgram == {t.cfg : t \in Tests}

=============================================================================
