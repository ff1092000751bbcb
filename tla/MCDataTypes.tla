----------------------------- MODULE MCDataTypes -----------------------------
(***************************************************************************)
(* The data types of the project for TLC, each for itself: the deadlines   *)
(* of both runtimes (DeadlineAudit), vector clocks (ClockAlgebra), trace   *)
(* trees (TraceTree) and the testers of histories (ConsistencyAudit, for a *)
(* register and a stack), and identifiers (Ids).  A behavior exercises one *)
(* of them, the subject, and leaves the others unused; or it is a test of  *)
(* the repository.                                                         *)
(***************************************************************************)
EXTENDS DeadlineAudit, Ids, ClockAlgebra, TraceTree, ConsistencyAudit, TLC

VARIABLES
    subject,  \* what is exercised
    test      \* the test of the testers that is made

actor == <<identifier, address>>

Tests == INSTANCE TesterTests

-----------------------------------------------------------------------------

Unused == "unused"

Subjects ==
    {"deadlines", "identifiers", "clocks", "trees", "histories",
     "linearizability test", "sequential consistency test"}

DataInit ==
    /\ subject \in Subjects
    /\ Init
    /\ TreeInit
    /\ IF subject = "identifiers" THEN IdInit ELSE identifier = 0 /\ address = AddrFrom(0)
    /\ IF subject = "clocks" THEN ClockInit ELSE vec = [n \in Names |-> New] /\ shadow = [n \in Names |-> [k \in Index |-> 0]]
    /\ HistoryInit
    /\ subject # "histories" => lin.init_ref_obj = Register("A")
    /\ test \in CASE subject = "linearizability test" -> Tests!LinearizabilityTests
                  [] subject = "sequential consistency test" -> Tests!SequentialConsistencyTests
                  [] OTHER -> {Unused}

DataNext ==
    /\ \/ subject = "deadlines" /\ Next /\ UNCHANGED <<actor, clocks, tree, testers>>
       \/ subject = "identifiers" /\ IdNext /\ UNCHANGED <<vars, clocks, tree, testers>>
       \/ subject = "clocks" /\ ClockNext /\ UNCHANGED <<vars, actor, tree, testers>>
       \/ subject = "trees" /\ TreeNext /\ UNCHANGED <<vars, actor, clocks, testers>>
       \/ subject = "histories" /\ HistoryNext /\ UNCHANGED <<vars, actor, clocks, tree>>
    /\ UNCHANGED <<subject, test>>

DataSpec == DataInit /\ [][DataNext]_<<subject, vars, actor, clocks, tree, testers, test>>

-----------------------------------------------------------------------------

(***************************************************************************)
(* The clocks do what the tests of crates/vector_clock assert, which see   *)
(* that incrementing a missing element makes the vector long enough.       *)
(***************************************************************************)
ClocksPassTheTests == subject = "clocks" => TestsPass

(***************************************************************************)
(* Both testers find the very serialization that their tests assert, or    *)
(* none, for histories of up to six operations, some of them in flight.    *)
(***************************************************************************)
TestersPassTheTests ==
    /\ subject = "linearizability test" => Tests!LinearizabilityTestPasses(test)
    /\ subject = "sequential consistency test" => Tests!SequentialConsistencyTestPasses(test)

-----------------------------------------------------------------------------
(* The histories: a register and a stack                                   *)

Values == {"A", "B"}

MCOps(ref_obj) ==
    IF ref_obj.type = "Register" THEN {Write("B"), Read} ELSE {Push("A"), Pop, Len_}

MCRets(op) ==
    CASE op.type = "Write" -> {WriteOk}
      [] op.type = "Read"  -> {ReadOk(v) : v \in Values}
      [] op.type = "Push"  -> {PushOk, LenOk(1)}
      [] op.type = "Pop"   -> {PopOk({}), PopOk({"A"})}
      [] op.type = "Len"   -> {LenOk(0), LenOk(1)}

\* The testers treat all threads alike; their order only picks which of several
\* serializations is returned.
Threads == Permutations(ThreadId)

Objects == {Register("A"), Vec(<< >>)}

=============================================================================
