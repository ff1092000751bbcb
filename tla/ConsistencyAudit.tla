-------------------------- MODULE ConsistencyAudit --------------------------
(***************************************************************************)
(* The two consistency testers, told of the same concurrent history: any   *)
(* threads invoke any operations and are returned any answers, also out of *)
(* turn (the ConsistencyTester trait, consistency_tester.rs).              *)
(*                                                                         *)
(* The recorded history itself is the reference: whether it is             *)
(* linearizable, or sequentially consistent, is defined on it without      *)
(* reference to the testers' indices and search.                           *)
(***************************************************************************)
EXTENDS SequentialSpec, FiniteSets

CONSTANTS
    ThreadId,
    RefObj,      \* the initial objects
    Ops(_),      \* what may be invoked on an object
    Rets(_),     \* what may be returned by an operation
    MaxCalls,    \* bound: on_invoke and on_return calls
    MaxMisuse    \* bound: the calls of a history with one out of turn

ASSUME ThreadsAssumption == IsFiniteSet(ThreadId)

\* What is invoked is an operation, what is returned an answer of the reference objects.
ASSUME CallsAssumption ==
    \A ref_obj \in RefObj : \A op \in Ops(ref_obj) : IsOp(op) /\ \A ret \in Rets(op) : IsRet(ret)

VARIABLES
    lin,       \* the LinearizabilityTester
    seq,       \* the SequentialConsistencyTester
    recorded   \* the calls, in the order of their real time

testers == <<lin, seq, recorded>>

Lin == INSTANCE LinearizabilityTester
Seq_ == INSTANCE SequentialConsistencyTester

HistoryInit ==
    /\ \E ref_obj \in RefObj : lin = Lin!New(ref_obj) /\ seq = Seq_!New(ref_obj)
    /\ recorded = << >>

Invoke(thread_id, op) ==
    /\ lin' = Lin!OnInvoke(lin, thread_id, op)
    /\ seq' = Seq_!OnInvoke(seq, thread_id, op)
    /\ recorded' = Append(recorded, [call |-> "on_invoke", thread |-> thread_id, op |-> op])

Return(thread_id, ret) ==
    /\ lin' = Lin!OnReturn(lin, thread_id, ret)
    /\ seq' = Seq_!OnReturn(seq, thread_id, ret)
    /\ recorded' = Append(recorded, [call |-> "on_return", thread |-> thread_id, ret |-> ret])

\* The operation of the thread's last call, if that was an invocation.
LastOps(thread_id) ==
    {recorded[k].op : k \in {l \in DOMAIN recorded :
        /\ recorded[l].thread = thread_id /\ recorded[l].call = "on_invoke"
        /\ \A m \in l + 1 .. Len(recorded) : recorded[m].thread # thread_id}}

\* An unexpected return is answered with what any operation returns.
PossibleRets(thread_id) ==
    UNION {Rets(op) : op \in IF LastOps(thread_id) # {} THEN LastOps(thread_id)
                             ELSE {CHOOSE op \in Ops(lin.init_ref_obj) : TRUE}}

HistoryNext ==
    /\ Len(recorded) < IF lin.is_valid_history THEN MaxCalls ELSE MaxMisuse
    /\ \E thread_id \in ThreadId :
          \/ \E op \in Ops(lin.init_ref_obj) : Invoke(thread_id, op)
          \/ \E ret \in PossibleRets(thread_id) : Return(thread_id, ret)

HistorySpec == HistoryInit /\ [][HistoryNext]_testers

-----------------------------------------------------------------------------
(* The reference definitions                                               *)

\* Every thread invokes and returns in turn.
WellFormed ==
    \A k \in DOMAIN recorded :
        LET earlier == {l \in 1 .. k - 1 : recorded[l].thread = recorded[k].thread}
            waiting == Cardinality(earlier) % 2 = 1
        IN  recorded[k].call = "on_return" <=> waiting

\* An operation is named by the position of its invocation.
Invocations == {k \in DOMAIN recorded : recorded[k].call = "on_invoke"}

ReturnsOf(k) ==
    {l \in DOMAIN recorded :
        /\ l > k /\ recorded[l].thread = recorded[k].thread
        /\ \A m \in k + 1 .. l - 1 : recorded[m].thread # recorded[k].thread}

Answered == {k \in Invocations : ReturnsOf(k) # {}}

\* Operation k returned before operation l was invoked.
Precedes(k, l) == \E r \in ReturnsOf(k) : r < l

\* The pairs of operations, the first of which precedes the second, ...
RealTime == {pair \in Invocations \X Invocations : Precedes(pair[1], pair[2])}

\* ... and those of one thread.
ProgramOrder == {pair \in RealTime : recorded[pair[1]].thread = recorded[pair[2]].thread}

Orders(ops) ==
    {order \in [1 .. Cardinality(ops) -> ops] :
        \A i, j \in DOMAIN order : i # j => order[i] # order[j]}

\* Executed one after the other, the operations return what was recorded.
IsLegal(order) ==
    LET object[i \in 0 .. Len(order)] ==
            IF i = 0 THEN lin.init_ref_obj ELSE After(object[i - 1], recorded[order[i]].op)
    IN  \A i \in DOMAIN order :
            \A r \in ReturnsOf(order[i]) :
                recorded[r].ret = Ret(object[i - 1], recorded[order[i]].op)

\* The completed operations, and some of those in flight, have a legal order
\* that keeps the given pairs of operations in order.
IsExplained(kept) ==
    \E some \in SUBSET (Invocations \ Answered) :
        \E order \in Orders(Answered \cup some) :
            /\ \A i, j \in DOMAIN order : <<order[j], order[i]>> \in kept => j < i
            /\ IsLegal(order)

Linearizable == IsExplained(RealTime)

SequentiallyConsistent == IsExplained(ProgramOrder)

-----------------------------------------------------------------------------

(***************************************************************************)
(* The linearizability tester accepts exactly the well-formed histories    *)
(* that are linearizable: the indices of completed operations it keeps     *)
(* amount to real time, operations in flight may or may not have taken     *)
(* effect, and its search leaves out no order.                             *)
(***************************************************************************)
LinearizabilityIsDecided ==
    Lin!IsConsistent(lin) <=> WellFormed /\ Linearizable

(***************************************************************************)
(* The sequential consistency tester accepts exactly the well-formed       *)
(* histories that are sequentially consistent.                             *)
(***************************************************************************)
SequentialConsistencyIsDecided ==
    Seq_!IsConsistent(seq) <=> WellFormed /\ SequentiallyConsistent

=============================================================================
