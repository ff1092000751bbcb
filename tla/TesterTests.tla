----------------------------- MODULE TesterTests -----------------------------
(***************************************************************************)
(* The tests of linearizability.rs and sequential_consistency.rs: a        *)
(* history, and the serialized history that the tester finds for it, if    *)
(* there is one.  Thread 99 of the code is thread 0 here.                  *)
(***************************************************************************)
EXTENDS SequentialSpec, FiniteSets

S == INSTANCE SequencesExt

Lin == INSTANCE LinearizabilityTester WITH ThreadId <- {0, 1}
Seq_ == INSTANCE SequentialConsistencyTester WITH ThreadId <- {0, 1}

OnInvoke(thread_id, op)  == <<[call |-> "on_invoke", thread |-> thread_id, op |-> op]>>
OnReturn(thread_id, ret) == <<[call |-> "on_return", thread |-> thread_id, ret |-> ret]>>

\* on_invret, the two in one.
OnInvRet(thread_id, op, ret) == OnInvoke(thread_id, op) \o OnReturn(thread_id, ret)

\* Some(serialized), and None or an Err.
Finds(ref_obj, calls, serialized) == [ref_obj |-> ref_obj, calls |-> calls, expected |-> {serialized}]
Rejects(ref_obj, calls)           == [ref_obj |-> ref_obj, calls |-> calls, expected |-> {}]

A == Register("A")
E == Vec(<< >>)

WriteB == <<Write("B"), WriteOk>>
ReadOf(v) == <<Read, ReadOk(v)>>
Push10 == <<Push(10), PushOk>>
Push20 == <<Push(20), PushOk>>
PopOf(v) == <<Pop, PopOk({v})>>
PopNone == <<Pop, PopOk({})>>
LenOf(n) == <<Len_, LenOk(n)>>

\* A completed operation of the thread.
Does(thread_id, step) == OnInvRet(thread_id, step[1], step[2])

RejectsInvalidHistory ==
    {Rejects(A, OnInvoke(0, Write("B")) \o OnInvoke(0, Write("C"))),
     Rejects(A, Does(0, WriteB) \o OnInvRet(0, Write("C"), WriteOk) \o OnReturn(0, WriteOk))}

-----------------------------------------------------------------------------
(* linearizability.rs                                                      *)

IdentifiesLinearizableRegisterHistory ==
    {Finds(A, OnInvoke(0, Write("B")) \o Does(1, ReadOf("A")), <<ReadOf("A")>>),
     Finds(A, OnInvoke(0, Read) \o OnInvoke(1, Write("B")) \o OnReturn(0, ReadOk("B")),
           <<WriteB, ReadOf("B")>>)}

IdentifiesUnlinearizableRegisterHistory ==
    {Rejects(A, Does(0, ReadOf("B"))),
     Rejects(A, Does(0, ReadOf("B")) \o OnInvoke(1, Write("B")))}

\* Thread 0 has pushed 10 and is pushing 20 while thread 1 takes the steps.
WhilePushing(steps) ==
    Does(0, Push10) \o OnInvoke(0, Push(20)) \o S!FoldLeft(LAMBDA h, step : h \o Does(1, step), << >>, steps)

\* Thread 1 asks for the length when thread 0 has pushed 10, before it pushes 20.
LenBeforePushing(len) ==
    Does(0, Push10) \o OnInvoke(1, Len_) \o OnInvoke(0, Push(20)) \o OnReturn(1, LenOk(len))

IdentifiesLinearizableVecHistory ==
    {Finds(E, OnInvoke(0, Push(10)), << >>),
     Finds(E, OnInvoke(0, Push(10)) \o Does(1, PopNone), <<PopNone>>),
     Finds(E, OnInvoke(0, Push(10)) \o Does(1, PopOf(10)), <<Push10, PopOf(10)>>),
     Finds(E, WhilePushing(<<LenOf(1), PopOf(20), PopOf(10)>>),
           <<Push10, LenOf(1), Push20, PopOf(20), PopOf(10)>>),
     Finds(E, WhilePushing(<<LenOf(1), PopOf(10), PopOf(20)>>),
           <<Push10, LenOf(1), PopOf(10), Push20, PopOf(20)>>),
     Finds(E, WhilePushing(<<LenOf(2), PopOf(20), PopOf(10)>>),
           <<Push10, Push20, LenOf(2), PopOf(20), PopOf(10)>>),
     Finds(E, LenBeforePushing(1), <<Push10, LenOf(1)>>),
     Finds(E, LenBeforePushing(2), <<Push10, Push20, LenOf(2)>>)}

IdentifiesUnlinearizableVecHistory ==
    {Rejects(E, Does(0, Push10) \o Does(1, PopNone)),
     Rejects(E, LenBeforePushing(0)),
     Rejects(E, WhilePushing(<<LenOf(2), PopOf(10), PopOf(20)>>))}

-----------------------------------------------------------------------------
(* sequential_consistency.rs                                               *)

IdentifiesSerializableRegisterHistory ==
    {Finds(A, OnInvoke(0, Write("B")) \o Does(1, ReadOf("A")), <<ReadOf("A")>>),
     Finds(A, Does(0, ReadOf("B")) \o OnInvoke(1, Write("B")), <<WriteB, ReadOf("B")>>)}

IdentifiesUnserializableRegisterHistory == {Rejects(A, Does(0, ReadOf("B")))}

IdentifiesSerializableVecHistory ==
    {Finds(E, OnInvoke(0, Push(10)), << >>),
     Finds(E, OnInvoke(0, Push(10)) \o Does(1, PopNone), <<PopNone>>),
     Finds(E, Does(1, PopOf(10)) \o Does(0, Push10) \o Does(0, PopOf(20)) \o OnInvoke(0, Push(30))
                \o Does(1, Push20) \o Does(1, PopNone),
           <<Push10, PopOf(10), Push20, PopOf(20), PopNone>>)}

IdentifiesUnserializableVecHistory ==
    {Rejects(E, WhilePushing(<<LenOf(2), PopOf(10), PopOf(20)>>))}

-----------------------------------------------------------------------------

LinearizabilityTests ==
    RejectsInvalidHistory \cup IdentifiesLinearizableRegisterHistory
        \cup IdentifiesUnlinearizableRegisterHistory \cup IdentifiesLinearizableVecHistory
        \cup IdentifiesUnlinearizableVecHistory

SequentialConsistencyTests ==
    RejectsInvalidHistory \cup IdentifiesSerializableRegisterHistory
        \cup IdentifiesUnserializableRegisterHistory \cup IdentifiesSerializableVecHistory
        \cup IdentifiesUnserializableVecHistory

Agrees(found, expected) == IF expected = {} THEN found = {} ELSE expected \subseteq found

\* The tester finds what the test expects; of several serializations the code
\* returns the first, the model has them all.
LinearizabilityTestPasses(test) ==
    LET Told(tester, c) == IF c.call = "on_invoke" THEN Lin!OnInvoke(tester, c.thread, c.op)
                           ELSE Lin!OnReturn(tester, c.thread, c.ret)
    IN  Agrees(Lin!SerializedHistories(S!FoldLeft(Told, Lin!New(test.ref_obj), test.calls)), test.expected)

SequentialConsistencyTestPasses(test) ==
    LET Told(tester, c) == IF c.call = "on_invoke" THEN Seq_!OnInvoke(tester, c.thread, c.op)
                           ELSE Seq_!OnReturn(tester, c.thread, c.ret)
    IN  Agrees(Seq_!SerializedHistories(S!FoldLeft(Told, Seq_!New(test.ref_obj), test.calls)), test.expected)

=============================================================================
