---------------------------- MODULE VerifierAudit ----------------------------
(***************************************************************************)
(* What the answers of Verifier::run are worth.  When run has returned,    *)
(* the same configuration is executed again, independently of the search:  *)
(* after Complete in every schedule there is, after Panic along the        *)
(* minimal trace that was reported.                                        *)
(*                                                                         *)
(* The audit is not part of the code.  It files the records of a schedule  *)
(* by actor, so that equivalent schedules meet in one state; a step of an  *)
(* actor reads only that actor's records.                                  *)
(***************************************************************************)
EXTENDS Verifier

VARIABLES
    audit,    \* "off", or what is audited: a "Complete" or a "Panic" result
    replayed  \* the steps of the minimal trace replayed so far

audit_vars == <<vars, audit, replayed>>

\* The records with the new one put after those of its actor.
Filed(records, r) ==
    SelectSeq(records, LAMBDA q : q.id <= r.id) \o <<r>>
        \o SelectSeq(records, LAMBDA q : q.id > r.id)

File(id, event, event_clock) ==
    trace_records' = Filed(trace_records, NewRecord(id, event, event_clock))

-----------------------------------------------------------------------------

AuditInit == Init /\ audit = "off" /\ replayed = 0

Search == audit = "off" /\ Next /\ UNCHANGED <<audit, replayed>>

BeginAudit ==
    /\ audit = "off"
    /\ pc = "returned"
    /\ result.outcome \in {"Complete", "Panic"}
    /\ audit' = result.outcome
    /\ ResetActors
    /\ UNCHANGED <<search, replayed>>

\* Any actor takes any step it offers.
AuditSchedule ==
    /\ audit = "Complete"
    /\ panicked = "None"
    /\ \E id \in Id : \E pending \in EnabledEvents(id) :
          /\ Advance(id, pending.event, pending.event_clock)
          /\ File(id, pending.event, pending.event_clock)
    /\ UNCHANGED <<search, audit, replayed>>

\* The next step of the minimal trace.
AuditMinimalTrace ==
    /\ audit = "Panic"
    /\ panicked = "None"
    /\ replayed < Len(result.minimal_trace)
    /\ LET step == result.minimal_trace[replayed + 1]
       IN  Step(step.id, step.event, step.event_clock)
    /\ replayed' = replayed + 1
    /\ UNCHANGED <<search, audit>>

AuditNext == Search \/ BeginAudit \/ AuditSchedule \/ AuditMinimalTrace

AuditSpec == AuditInit /\ [][AuditNext]_audit_vars

-----------------------------------------------------------------------------

(***************************************************************************)
(* Complete means that every maximal execution of the configuration was    *)
(* explored, in some equivalent order: "By exercising all anticipated      *)
(* nondeterministic outcomes ..., we can infer that any assertions that    *)
(* pass during verification should also hold" (verifier.rs:171-173).       *)
(***************************************************************************)
CompleteCoversEverySchedule ==
    audit = "Complete" /\ panicked = "None" /\ Quiescent => Class \in maximal

(***************************************************************************)
(* Complete means that no schedule panics and none ends with an unmet      *)
(* expectation.                                                            *)
(***************************************************************************)
CompleteMeansVerified ==
    audit = "Complete" =>
        /\ panicked = "None"
        /\ Quiescent => \A id \in Id : expectation[id] = {}

(***************************************************************************)
(* The minimal trace of a Panic is an execution of its own, although the   *)
(* steps that the panic does not depend on are left out, and it ends in    *)
(* the same panic, of the same actor after the same events.                *)
(***************************************************************************)
MinimalTraceReproduces ==
    audit = "Panic" =>
        LET length == Len(result.minimal_trace)
            last   == result.minimal_trace[length]
        IN  /\ panicked # "None" <=> replayed = length
            /\ panicked \notin RefusalReason
            /\ replayed = length => trace_records[length] = last

=============================================================================
