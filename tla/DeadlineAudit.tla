---------------------------- MODULE DeadlineAudit ----------------------------
(***************************************************************************)
(* The same behaviour run by the two runtimes: the I/O task of one actor   *)
(* of the UDP runtime (crates/fibril/src/udp.rs), which answers deadline   *)
(* queries from the system clock, and the TimeContext of the verifier,     *)
(* which has no clock and enumerates the answers it holds possible.        *)
(*                                                                         *)
(* Every event of the execution is one the UDP runtime produced; the       *)
(* verifier's context is moved along it as the verifier would replay it.   *)
(* What the verifier promises is that it leaves no real execution out.     *)
(***************************************************************************)
EXTENDS TimeContext

CONSTANTS
    Duration,      \* the durations a behaviour may ask for
    MaxDeadlines,  \* bound: deadlines one actor creates
    MaxTime        \* bound: ticks of the system clock

ASSUME DurationAssumption == Duration \subseteq Nat
ASSUME BoundsAssumption == MaxDeadlines \in Nat /\ MaxTime \in Nat

VARIABLES
    now,               \* the monotonic system clock behind Instant::now()
    instants,          \* UDP runtime: deadline id -> instant, until swept
    next_deadline_id,  \* UDP runtime: the next id
    time_context,      \* verifier: the actor's TimeContext
    due,               \* history: the instant of every deadline ever created
    elapsed            \* history: the deadlines that were reported elapsed

vars == <<now, instants, next_deadline_id, time_context, due, elapsed>>

Issued == 0 .. next_deadline_id - 1

\* instant.elapsed() > 0 at time t; an instant in the future has elapsed() = 0.
IsPast(instant, t) == instant < t

\* is_elapsed: an id that is missing from the map counts as elapsed.
RuntimeAnswer(d) == d \in DOMAIN instants => IsPast(instants[d], now)

\* What a sweep leaves that looks at each instant at a time of its own.
Unexpired(read) == {d \in DOMAIN instants : ~IsPast(instants[d], read[d])}

\* The times at which a sweep that ends at t reads the clock, in the order of the ids.
Readings(t) ==
    {read \in [DOMAIN instants -> now .. t] :
        \A d, e \in DOMAIN instants : d < e => read[d] <= read[e]}

-----------------------------------------------------------------------------

Init ==
    /\ now = 0
    /\ instants = NoDeadlines
    /\ next_deadline_id = 0
    /\ time_context = EmptyContext
    /\ due = NoDeadlines
    /\ elapsed = {}

Tick ==
    /\ now < MaxTime
    /\ now' = now + 1
    /\ UNCHANGED <<instants, next_deadline_id, time_context, due, elapsed>>

\* Command::Deadline(duration), answered by DeadlineOk in both runtimes.
CreateDeadline(duration) ==
    /\ next_deadline_id < MaxDeadlines
    /\ LET id == next_deadline_id
           With(f) == [d \in DOMAIN f \cup {id} |-> IF d = id THEN now + duration ELSE f[d]]
       IN  /\ instants' = With(instants)
           /\ due' = With(due)
           /\ next_deadline_id' = id + 1
    /\ time_context' = NewDeadline(time_context, duration)
    /\ UNCHANGED <<now, elapsed>>

(***************************************************************************)
(* Command::DeadlineElapsed(d).  The runtime decides the answer, then      *)
(* sweeps the expired instants; it reads the clock again for each of them, *)
(* and may find d itself expired after d was answered with false.          *)
(***************************************************************************)
QueryDeadline(d, sweep) ==
    /\ d \in Issued
    /\ now <= sweep
    /\ now' = sweep
    /\ \E read \in Readings(sweep) : instants' = [e \in Unexpired(read) |-> instants[e]]
    /\ IF RuntimeAnswer(d)
       THEN /\ time_context' = DeadlineElapsed(time_context, d)
            /\ elapsed' = elapsed \cup {d}
       ELSE UNCHANGED <<time_context, elapsed>>
    /\ UNCHANGED <<next_deadline_id, due>>

\* Command::SleepUntil(d): a swept deadline does not sleep at all.
SleepUntil(d, wake) ==
    /\ d \in Issued
    /\ now <= wake
    /\ d \in DOMAIN instants => instants[d] <= wake
    /\ now' = wake
    /\ UNCHANGED <<instants, next_deadline_id, time_context, due, elapsed>>

Next ==
    \/ Tick
    \/ \E duration \in Duration : CreateDeadline(duration)
    \/ \E d \in 0 .. MaxDeadlines, t \in 0 .. MaxTime :
            QueryDeadline(d, t) \/ SleepUntil(d, t)

Spec == Init /\ [][Next]_vars

-----------------------------------------------------------------------------

\* The type invariant: both maps and the histories range over issued deadlines.
TypeOK ==
    /\ now \in Nat
    /\ next_deadline_id \in Nat
    /\ instants \in [DOMAIN instants -> Nat] /\ DOMAIN instants \subseteq Issued
    /\ due \in [Issued -> Nat]
    /\ time_context = [next_new_deadline |-> time_context.next_new_deadline,
                       pending_deadlines |-> time_context.pending_deadlines]
    /\ time_context.next_new_deadline = next_deadline_id
    /\ time_context.pending_deadlines \in [DOMAIN time_context.pending_deadlines -> Nat]
    /\ DOMAIN time_context.pending_deadlines \subseteq Issued
    /\ elapsed \subseteq Issued

(***************************************************************************)
(* Whatever answer the UDP runtime would give now about any deadline, the  *)
(* verifier lists it among its possibilities: dropping the earlier, no     *)
(* longer deadlines (deadline_elapsed) never drops one whose time has not  *)
(* really come.                                                            *)
(***************************************************************************)
AnswersAreAnticipated ==
    \A d \in Issued : RuntimeAnswer(d) \in Possibilities(time_context, d)

(***************************************************************************)
(* A deadline once reported elapsed is never reported pending again, by    *)
(* the runtime (which forgot its instant) or by the verifier (which        *)
(* forgot its duration).                                                   *)
(***************************************************************************)
ElapsedIsForever ==
    \A d \in elapsed : RuntimeAnswer(d) /\ Possibilities(time_context, d) = {TRUE}

=============================================================================
