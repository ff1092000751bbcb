------------------------------ MODULE MCVerifier ------------------------------
(***************************************************************************)
(* Verifier for TLC.                                                       *)
(***************************************************************************)
EXTENDS Verifier, Configurations

LOCAL INSTANCE SequencesExt

\* What the actors of the test learnt and sent along the trace.
Learned(r) ==
    CASE r.event.type = "RecvOk"            -> <<r.event.msg>>
      [] r.event.type = "DeadlineElapsedOk" -> <<IF r.event.elapsed THEN T ELSE F>>
      [] OTHER                              -> << >>

TraceOf(records) ==
    Trace([k \in DOMAIN records |-> records[k].id],
          FoldLeft(LAMBDA told, r : told \o Learned(r), << >>, records),
          FoldLeft(LAMBDA told, r : IF r.command.type = "Send" THEN Append(told, r.command.msg) ELSE told,
                   << >>, records))

(***************************************************************************)
(* The search does what the crate's tests assert: it ends with their       *)
(* outcome, after their number of traces, no two of them equivalent, and   *)
(* the n-th trace it visits is, step by step, the n-th that is asserted.   *)
(***************************************************************************)
AgreesWithTests ==
    \A t \in Tests : t.cfg = cfg_fn =>
        /\ pc = "returned" =>
              /\ result.outcome = t.outcome
              /\ trace_count = t.count
              /\ Cardinality(maximal) = t.count
        /\ pc = "trace" /\ next_prefix = << >> /\ Quiescent /\ trace_count \in DOMAIN t.traces =>
              TraceOf(SelectSeq(trace_records, LAMBDA r : r.id <= t.actors)) = t.traces[trace_count]

=============================================================================
