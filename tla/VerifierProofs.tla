--------------------------- MODULE VerifierProofs ---------------------------
(***************************************************************************)
(* Theorems about Verifier::run for any number of actors, any behaviors    *)
(* and any bound.  They rest on the runs of ActorSystemProofs: the steps   *)
(* of a trace that a prefix keeps can be taken again without the others.   *)
(***************************************************************************)
EXTENDS VerifierAudit, ActorSystemProofs

-----------------------------------------------------------------------------
(* Prefixes                                                                *)

\* Steps of T to be taken again, and a last one.
Again(T, S, last) ==
    LET records == Subsequence(T, S)
    IN  Append([k \in DOMAIN records |-> Replay(records[k])], last)

\* The first step of the prefix, and the steps after it.
StartsWith(prefix, step, after) == prefix # << >> /\ Head(prefix) = step /\ Tail(prefix) = after

\* The next step is the first of those in S, and then the last one.
LEMMA FirstAgain ==
    ASSUME NEW T \in Seq(TraceRecord), NEW S, NEW last,
           NEW k \in 1 .. Len(T), k \in S, \A l \in 1 .. k - 1 : l \notin S
    PROVE  StartsWith(Again(T, S, last), Replay(T[k]), Again(T, S \ {k}, last))
<1>. DEFINE e == T[k]
            u == Subsequence(T, S)
            v == Subsequence(T, S \ {k})
            ru == [l \in DOMAIN u |-> Replay(u[l])]
            rv == [l \in DOMAIN v |-> Replay(v[l])]
<1>1. u = << e >> \o v /\ v \in Seq(TraceRecord) /\ u \in Seq(TraceRecord) /\ e \in TraceRecord
  <2>1. Begins(u, << e >>, v)
    BY SubsequenceStarts
  <2>. QED  BY <2>1, SubsequenceIsSeq DEF Begins
<1>2. Again(T, S, last) = Append(ru, last) /\ Again(T, S \ {k}, last) = Append(rv, last)
  BY DEF Again
<1>. HIDE DEF e, u, v
<1>3. /\ DOMAIN u = 1 .. Len(v) + 1 /\ DOMAIN v = 1 .. Len(v) /\ Len(v) \in Nat
      /\ u[1] = e /\ \A l \in 1 .. Len(v) : u[l + 1] = v[l]
  BY <1>1
<1>4. PICK W : \A r \in TraceRecord : Replay(r) \in W
  <2>. DEFINE W == {Replay(r) : r \in TraceRecord}
  <2>1. \A r \in TraceRecord : Replay(r) \in W
    OBVIOUS
  <2>. QED  BY <2>1
<1>5. ru \in Seq(W) /\ rv \in Seq(W) /\ Len(ru) = Len(v) + 1 /\ Len(rv) = Len(v)
  BY <1>1, <1>3, <1>4
<1>6. /\ ru[1] = Replay(e)
      /\ \A l \in 1 .. Len(v) : rv[l] = ru[l + 1]
  BY <1>3
<1>. HIDE DEF ru, rv
<1>7. Append(ru, last) # << >> /\ Head(Append(ru, last)) = ru[1]
  BY <1>3, <1>5
<1>8. Tail(Append(ru, last)) = Append(rv, last)
  BY <1>3, <1>5, <1>6
<1>. QED  BY <1>2, <1>6, <1>7, <1>8 DEF e, StartsWith

\* When none is left in S, the next step is the last one.
LEMMA LastAgain ==
    ASSUME NEW T \in Seq(TraceRecord), NEW S, NEW last, \A l \in 1 .. Len(T) : l \notin S
    PROVE  /\ Head(Again(T, S, last)) = last
           /\ Tail(Again(T, S, last)) = << >>
<1>1. Subsequence(T, S) = << >>
  BY SubsequenceOfNone
<1>2. Again(T, S, last) = Append(<< >>, last)
  BY <1>1 DEF Again
<1>. QED  BY <1>2

(***************************************************************************)
(* The steps in S can be taken again without the others: with a step, S    *)
(* has the earlier steps of its actor, and the one that sent what it       *)
(* receives.                                                               *)
(***************************************************************************)
Kept(T, st, S) ==
    \A k \in S : /\ k \in 1 .. Len(T)
                 /\ \A m \in 1 .. k - 1 : T[m].id = T[k].id => m \in S
                 /\ Served(T, st, S \cap 1 .. k - 1, st[k - 1][T[k].id], T[k])

\* After the steps in S the step last can be taken.
LastIsServed(T, st, S, last) ==
    /\ last.id \in Id /\ last.event \in Event
    /\ \E l : Cut(T, S, last.id, l) /\ Served(T, st, S, st[l][last.id], last)

\* What a prefix is made of.
Plan(p, T, st, S, last) ==
    Runs(p, T, st) /\ Kept(T, st, S) /\ LastIsServed(T, st, S, last)

-----------------------------------------------------------------------------
(* pick_next_representative_prefix                                         *)

\* What the search takes from the clocks of the trace.
LEMMA ClocksFollow ==
    ASSUME CausalInv, LinkedClocks
    PROVE  /\ trace_records \in Seq(TraceRecord) /\ Len(trace_records) \in Nat
           /\ DOMAIN trace_records = 1 .. Len(trace_records)
           /\ \A k \in 1 .. Len(trace_records) :
                /\ trace_records[k] \in TraceRecord
                /\ trace_records[k].clock \in Clock /\ trace_records[k].event_clock \in Clock
                /\ Leq(trace_records[k].event_clock, trace_records[k].clock)
                /\ \A m \in 1 .. k - 1 :
                      trace_records[m].id = trace_records[k].id =>
                          Leq(trace_records[m].clock, trace_records[k].clock)
<1>. DEFINE T == trace_records
<1>1. T \in Seq(TraceRecord) /\ Len(T) \in Nat /\ DOMAIN T = 1 .. Len(T)
  BY TraceIs DEF CausalInv
<1>2. \A k \in DOMAIN T : Leq(T[k].event_clock, T[k].clock) /\ T[k].event_clock \in Clock
  BY RecordedClock
<1>3. \A k \in DOMAIN T : T[k] \in TraceRecord /\ T[k].clock \in Clock /\ \A j : At(T[k].clock, j) \in Nat
  BY <1>1, RecordFields
<1>4. \A k \in DOMAIN T : Closed(T[k].clock, T)
  BY DEF CausalInv, SoundClocks, Sound
<1>5. Fresh(T)
  BY DEF CausalInv, SoundClocks
<1>. HIDE DEF T
<1>6. ASSUME NEW k \in 1 .. Len(T), NEW m \in 1 .. k - 1, T[m].id = T[k].id
      PROVE  Leq(T[m].clock, T[k].clock)
  <2>1. m \in DOMAIN T /\ k \in DOMAIN T /\ m < k
    BY <1>1
  <2>2. At(T[m].clock, T[k].id) < At(T[k].clock, T[k].id)
    BY <1>5, <2>1 DEF Fresh
  <2>3. \A x, y \in Nat : x < y => x <= y
    OBVIOUS
  <2>4. At(T[m].clock, T[k].id) \in Nat /\ At(T[k].clock, T[k].id) \in Nat
    BY <1>3, <2>1
  <2>5. At(T[m].clock, T[m].id) <= At(T[k].clock, T[m].id)
    BY <1>6, <2>2, <2>3, <2>4
  <2>. QED  BY <1>4, <2>1, <2>5 DEF Closed
<1>7. \A k \in 1 .. Len(T) : \A m \in 1 .. k - 1 : T[m].id = T[k].id => Leq(T[m].clock, T[k].clock)
  BY <1>6
<1>. QED  BY <1>1, <1>2, <1>3, <1>7 DEF T

\* Clock order is reflexive.
LEMMA LeqIsReflexive == ASSUME NEW v \in Clock PROVE Leq(v, v)
<1>1. \A k \in Pos : At(v, k) <= At(v, k)
  BY AtIsNat
<1>. QED  BY <1>1, LeqIsPointwise

\* The greatest element of a set of places.
LEMMA LastOfIsGreatest ==
    ASSUME NEW n \in Nat, NEW S \in SUBSET (1 .. n), S # {}
    PROVE  LastOf(S) \in S /\ \A l \in S : l <= LastOf(S)
<1>. DEFINE R == {n - k : k \in S}
<1>1. R \in SUBSET Nat /\ R # {}
  <2>1. \A k \in S : n - k \in Nat
    OBVIOUS
  <2>2. PICK k \in S : TRUE
    OBVIOUS
  <2>3. n - k \in R
    BY <2>2
  <2>. QED  BY <2>1, <2>3
<1>2. PICK x \in R : \A y \in R : x <= y
  BY <1>1, Least
<1>3. PICK k \in S : x = n - k
  OBVIOUS
<1>4. \A l \in S : l <= k
  <2>1. \A l \in S : x <= n - l
    BY <1>2
  <2>. QED  BY <1>3, <2>1
<1>. QED  BY <1>4 DEF LastOf

\* Before the last query of a deadline that may elapse, nothing is left out.
LEMMA ElapsingPlan ==
    ASSUME NEW p, NEW T, NEW st, Runs(p, T, st), NEW i \in 1 .. Len(T),
           T[i].event = DeadlineElapsedOk(FALSE)
    PROVE  Plan(p, T, st, 1 .. i - 1, Elapsing(T[i]))
<1>. DEFINE S == 1 .. i - 1
            id == T[i].id
            last == Elapsing(T[i])
            s == st[i - 1][id]
<1>1. /\ Len(T) \in Nat /\ i - 1 \in 0 .. Len(T) /\ id \in Id
      /\ RunStep(p, T[i], st[i - 1], st[i])
  BY RunIs
<1>2. Kept(T, st, S)
  <2>1. ASSUME NEW k \in S
        PROVE  /\ k \in 1 .. Len(T) /\ 1 .. k - 1 \subseteq S
               /\ \A m \in 1 .. k - 1 : m \in S \cap 1 .. k - 1
    BY <1>1
  <2>2. ASSUME NEW k \in S
        PROVE  Served(T, st, S \cap 1 .. k - 1, st[k - 1][T[k].id], T[k])
    BY <2>1, StepIsServed
  <2>. QED  BY <2>1, <2>2 DEF Kept
<1>3. last.id = id /\ last.event = DeadlineElapsedOk(TRUE) /\ last.event_clock = New
  BY DEF Elapsing
<1>4. DeadlineElapsedOk(TRUE) \in Event
  BY EventTypes
<1>5. Cut(T, S, id, i - 1)
  BY <1>1 DEF Cut
<1>6. Served(T, st, S, s, last)
  <2>1. LocallyOffered(s, T[i]) /\ T[i].event.type = "DeadlineElapsedOk"
    BY <1>1 DEF RunStep, DeadlineElapsedOk
  <2>2. s.iterator.kind = "DeadlineElapsed"
    BY <2>1 DEF LocallyOffered
  <2>3. IsLocal(s)
    BY <1>1 DEF Runs
  <2>4. TRUE \in s.iterator.remaining
    BY <2>2, <2>3 DEF IsLocal
  <2>5. LocallyOffered(s, last)
    BY <1>3, <2>2, <2>4 DEF LocallyOffered
  <2>6. last.event.type # "RecvOk"
    BY <1>3 DEF DeadlineElapsedOk
  <2>. QED  BY <2>5, <2>6 DEF Served
<1>. HIDE DEF S, last, s
<1>7. LastIsServed(T, st, S, last)
  BY <1>1, <1>3, <1>4, <1>5, <1>6 DEF LastIsServed, s
<1>. QED  BY <1>2, <1>7 DEF Plan, S, last

(***************************************************************************)
(* The reversal of two receives: with the steps before the first and those *)
(* in between that caused the second, everything that these steps and the  *)
(* second receive depend on is kept, and the first receive is not, nor     *)
(* anything that depends on it.                                            *)
(***************************************************************************)
LEMMA ReversalPlan ==
    ASSUME CausalInv, LinkedClocks, NEW p, NEW st, Runs(p, trace_records, st),
           NEW i \in DOMAIN trace_records, NEW j \in Reversals(i)
    PROVE  /\ Plan(p, trace_records, st, 1 .. j - 1 \cup Causes(i, j), Replay(trace_records[i]))
           /\ Cut(trace_records, 1 .. j - 1 \cup Causes(i, j), trace_records[i].id, j - 1)
<1>. DEFINE T == trace_records
            S == 1 .. j - 1 \cup Causes(i, j)
            ec == T[i].event_clock
            id == T[i].id
            src == T[i].event.src
            last == Replay(T[i])
<1>1. /\ T \in Seq(TraceRecord) /\ Len(T) \in Nat /\ i \in 1 .. Len(T)
      /\ j \in 1 .. i - 1 /\ j \in 1 .. Len(T)
  BY ClocksFollow DEF Reversals
<1>2. \A k \in 1 .. Len(T) :
        /\ T[k] \in TraceRecord /\ T[k].clock \in Clock /\ T[k].event_clock \in Clock
        /\ Leq(T[k].event_clock, T[k].clock)
        /\ \A m \in 1 .. k - 1 : T[m].id = T[k].id => Leq(T[m].clock, T[k].clock)
  BY ClocksFollow
<1>3. /\ T[i].event.type = "RecvOk" /\ T[j].event.type = "RecvOk" /\ T[j].id = id
      /\ ~Leq(T[j].clock, ec) /\ src # T[j].event.src
      /\ \A k \in j + 1 .. i - 1 : ~(T[k].event.type = "RecvOk" /\ T[k].event.src = src)
  BY DEF Reversals, IsReversible, IsRecv, IsQueuedBehind
<1>4. \A k : k \in S <=> \/ k \in 1 .. j - 1
                         \/ k \in j + 1 .. i - 1 /\ Leq(T[k].clock, ec)
  BY DEF Causes
<1>5. Runs(p, T, st)
  OBVIOUS
<1>. HIDE DEF T, S, ec, last
<1>6. ec \in Clock /\ Leq(ec, ec)
  BY <1>1, <1>2, LeqIsReflexive DEF ec
<1>7. ASSUME NEW k \in S, NEW m \in 1 .. k - 1, Leq(T[m].clock, T[k].clock)
      PROVE  m \in S
  <2>1. k \in 1 .. Len(T) /\ m \in 1 .. Len(T) /\ m \in Nat
    BY <1>1, <1>4
  <2>2. CASE k \in 1 .. j - 1
    BY <1>1, <1>4, <2>1, <2>2
  <2>3. CASE k \in j + 1 .. i - 1 /\ Leq(T[k].clock, ec)
    <3>1. Leq(T[m].clock, ec)
      BY <1>2, <1>6, <1>7, <2>1, <2>3, LeqIsTransitive
    <3>2. m # j
      BY <1>3, <3>1
    <3>3. m \in 1 .. j - 1 \/ m \in j + 1 .. i - 1
      BY <1>1, <2>1, <2>3, <3>2
    <3>. QED  BY <1>4, <3>1, <3>3
  <2>. QED  BY <1>4, <2>2, <2>3
<1>8. Kept(T, st, S)
  <2>1. ASSUME NEW k \in S
        PROVE  /\ k \in 1 .. Len(T)
               /\ \A m \in 1 .. k - 1 : T[m].id = T[k].id => m \in S
               /\ Served(T, st, S \cap 1 .. k - 1, st[k - 1][T[k].id], T[k])
    <3>1. k \in 1 .. Len(T)
      BY <1>1, <1>4
    <3>2. ASSUME NEW m \in 1 .. k - 1, T[m].id = T[k].id \/ T[m].clock = T[k].event_clock
          PROVE  m \in S
      <4>1. Leq(T[m].clock, T[k].clock)
        BY <1>2, <3>1, <3>2
      <4>. QED  BY <1>7, <4>1
    <3>3. \A m \in 1 .. k - 1 :
            T[k].event.type = "RecvOk" /\ T[m].clock = T[k].event_clock => m \in S \cap 1 .. k - 1
      BY <3>2
    <3>4. Served(T, st, S \cap 1 .. k - 1, st[k - 1][T[k].id], T[k])
      BY <1>5, <3>1, <3>3, StepIsServed
    <3>. QED  BY <3>1, <3>2, <3>4
  <2>. QED  BY <2>1 DEF Kept
<1>9. Cut(T, S, id, j - 1)
  <2>1. j - 1 \in 0 .. Len(T)
    BY <1>1
  <2>2. ASSUME NEW m \in 1 .. Len(T), T[m].id = id, m \in S
        PROVE  m <= j - 1
    <3>1. ASSUME m \in j + 1 .. i - 1, Leq(T[m].clock, ec)
          PROVE  FALSE
      <4>1. j \in 1 .. m - 1 /\ T[j].id = T[m].id
        BY <1>1, <1>3, <2>2, <3>1
      <4>2. Leq(T[j].clock, T[m].clock)
        BY <1>2, <4>1
      <4>3. Leq(T[j].clock, ec)
        BY <1>1, <1>2, <1>6, <3>1, <4>2, LeqIsTransitive
      <4>. QED  BY <1>3, <4>3
    <3>2. m \in 1 .. j - 1
      BY <1>4, <2>2, <3>1
    <3>. QED  BY <1>1, <3>2
  <2>3. \A m \in 1 .. Len(T) : m <= j - 1 => m \in S
    BY <1>1, <1>4
  <2>. QED  BY <2>1, <2>2, <2>3 DEF Cut
<1>10. last.id = id /\ last.event = T[i].event /\ last.event_clock = ec
  BY DEF last, Replay, ec
<1>11. id \in Id /\ T[i].event \in Event
  BY <1>1, <1>2 DEF TraceRecord
<1>12. LocallyOffered(st[j - 1][id], last)
  <2>1. RunStep(p, T[j], st[j - 1], st[j])
    BY <1>1, <1>5, RunIs
  <2>2. LocallyOffered(st[j - 1][id], T[j])
    BY <1>3, <2>1 DEF RunStep
  <2>3. \A bool : T[j].event # DeadlineElapsedOk(bool)
    BY <1>3 DEF DeadlineElapsedOk
  <2>4. st[j - 1][id].iterator.kind = "Recv"
    BY <1>3, <2>2, <2>3 DEF LocallyOffered
  <2>. QED  BY <1>3, <1>10, <2>4 DEF LocallyOffered
<1>13. src \in Id /\ Supplied(T, st, S, st[j - 1][id], last)
  <2>1. src \in Id
    BY <1>1, <1>3, <1>5, ReceivedFromAStep
  <2>0. \E m \in 1 .. i - 1 : /\ T[m].id = T[i].event.src
                               /\ Arrived(st[m][T[i].event.src], st[i - 1][T[i].id], T[i])
                               /\ T[m].clock = T[i].event_clock
    <3>1. Runs(p, T, st) /\ i \in 1 .. Len(T) /\ T[i].event.type = "RecvOk"
      BY <1>1, <1>3, <1>5
    <3>. QED  BY <3>1, ReceivedFromAStep
  <2>2. PICK m \in 1 .. i - 1 : /\ T[m].id = src
                                /\ Arrived(st[m][src], st[i - 1][id], T[i])
                                /\ T[m].clock = ec
    BY <1>3, <2>0 DEF ec
  <2>3. m \in S /\ m \in 1 .. Len(T)
    <3>1. m # j
      BY <1>3, <1>6, <2>2
    <3>2. m \in 1 .. j - 1 \/ m \in j + 1 .. i - 1
      BY <1>1, <3>1
    <3>. QED  BY <1>1, <1>4, <1>6, <2>2, <3>2
  <2>4. st[j - 1][id].received[src] = st[i - 1][id].received[src]
    <3>1. \A k \in j .. i - 1 : Skips(T[k], src, id)
      <4>1. \A k \in j .. i - 1 : k = j \/ k \in j + 1 .. i - 1
        BY <1>1
      <4>. QED  BY <1>3, <4>1 DEF Skips, Received
    <3>2. j - 1 \in 0 .. Len(T) /\ i - 1 \in 0 .. Len(T) /\ j - 1 <= i - 1 /\ (j - 1) + 1 = j
      BY <1>1
    <3>3. SameReceived(st[j - 1], st[i - 1], src, id)
      BY <1>5, <1>11, <2>1, <3>1, <3>2, NothingReceived
    <3>. QED  BY <3>3 DEF SameReceived
  <2>5. Arrived(st[m][src], st[j - 1][id], last)
    BY <1>10, <2>2, <2>4 DEF Arrived, ec
  <2>. QED  BY <1>10, <2>1, <2>2, <2>3, <2>5 DEF Supplied
<1>14. LastIsServed(T, st, S, last)
  BY <1>9, <1>10, <1>11, <1>12, <1>13 DEF LastIsServed, Served
<1>. QED  BY <1>5, <1>8, <1>9, <1>14 DEF Plan, T, S, last

\* The prefix that the search picks can be replayed.
LEMMA NextPrefixIsPlanned ==
    ASSUME CausalInv, LinkedClocks, NEW p, NEW st, Runs(p, trace_records, st), Alternatives # {}
    PROVE  \E S, last : /\ Plan(p, trace_records, st, S, last)
                        /\ NextPrefix = Again(trace_records, S, last)
<1>. DEFINE T == trace_records
            i == LastOf(Alternatives)
            j == LastOf(Reversals(i))
<1>1. Len(T) \in Nat /\ DOMAIN T = 1 .. Len(T)
  BY ClocksFollow
<1>2. i \in 1 .. Len(T) /\ (IsOpenDeadline(i) \/ Reversals(i) # {})
  <2>1. Alternatives \in SUBSET (1 .. Len(T))
    BY <1>1 DEF Alternatives
  <2>2. i \in Alternatives
    BY <1>1, <2>1, LastOfIsGreatest
  <2>. QED  BY <1>1, <2>2 DEF Alternatives
<1>. HIDE DEF i
<1>3. CASE IsOpenDeadline(i)
  <2>1. NextPrefix = Again(T, 1 .. i - 1, Elapsing(T[i]))
    BY <1>3 DEF NextPrefix, Prefix, Again, i
  <2>2. Plan(p, T, st, 1 .. i - 1, Elapsing(T[i]))
    BY <1>2, <1>3, ElapsingPlan DEF IsOpenDeadline
  <2>. QED  BY <2>1, <2>2
<1>4. CASE ~IsOpenDeadline(i)
  <2>1. j \in Reversals(i)
    <3>1. Reversals(i) \in SUBSET (1 .. i - 1) /\ i - 1 \in Nat /\ Reversals(i) # {}
      BY <1>1, <1>2, <1>4 DEF Reversals
    <3>. QED  BY <3>1, LastOfIsGreatest
  <2>2. NextPrefix = Again(T, 1 .. j - 1 \cup Causes(i, j), Replay(T[i]))
    BY <1>4 DEF NextPrefix, Prefix, Again, i
  <2>3. Plan(p, T, st, 1 .. j - 1 \cup Causes(i, j), Replay(T[i]))
    BY <1>1, <1>2, <2>1, ReversalPlan
  <2>. QED  BY <2>2, <2>3
<1>. QED  BY <1>3, <1>4

-----------------------------------------------------------------------------
(* The replay of a prefix                                                  *)

\* The steps of a plan that are done come before those that are left.
Halfway(p, T, st, done, rest, last) ==
    /\ Plan(p, T, st, done \cup rest, last)
    /\ \A k \in done, m \in rest : k < m

\* The k-th step of the run comes next.
Follows(p, T, st, done, rest, last, k) ==
    /\ k \in 1 .. Len(T)
    /\ \A l \in 1 .. k - 1 : l \notin rest
    /\ Cut(T, done, T[k].id, k - 1)
    /\ Served(T, st, done, st[k - 1][T[k].id], T[k])
    /\ Halfway(p, T, st, done \cup {k}, rest \ {k}, last)

\* The first step that is left follows those that are done.
LEMMA NextAgain ==
    ASSUME NEW p, NEW T, NEW st, NEW done, NEW rest, NEW last,
           Halfway(p, T, st, done, rest, last), rest # {}
    PROVE  \E k \in rest : Follows(p, T, st, done, rest, last, k)
<1>. DEFINE S == done \cup rest
<1>1. Runs(p, T, st) /\ Kept(T, st, S) /\ LastIsServed(T, st, S, last)
  BY DEF Halfway, Plan
<1>2. Len(T) \in Nat /\ S \subseteq 1 .. Len(T)
  BY <1>1, RunIs DEF Kept
<1>3. PICK k \in rest : \A l \in rest : k <= l
  <2>1. rest \in SUBSET Nat
    BY <1>2
  <2>. QED  BY <2>1, Least
<1>4. /\ k \in 1 .. Len(T) /\ k \in S
      /\ \A l \in 1 .. k - 1 : l \notin rest
      /\ \A l \in done : l \in 1 .. k - 1
  BY <1>2, <1>3 DEF Halfway
<1>5. /\ \A m \in 1 .. k - 1 : T[m].id = T[k].id => m \in S
      /\ Served(T, st, S \cap 1 .. k - 1, st[k - 1][T[k].id], T[k])
  BY <1>1, <1>4 DEF Kept
<1>6. S \cap 1 .. k - 1 = done
  BY <1>4
<1>7. Cut(T, done, T[k].id, k - 1)
  <2>1. k - 1 \in 0 .. Len(T) /\ \A m \in 1 .. Len(T) : m <= k - 1 <=> m \in 1 .. k - 1
    BY <1>2, <1>4
  <2>. QED  BY <1>4, <1>5, <2>1 DEF Cut
<1>8. (done \cup {k}) \cup (rest \ {k}) = S
  BY <1>3
<1>9. \A l \in done \cup {k}, m \in rest \ {k} : l < m
  <2>1. \A m \in rest \ {k} : k < m
    BY <1>2, <1>3, <1>4
  <2>. QED  BY <2>1 DEF Halfway
<1>10. Halfway(p, T, st, done \cup {k}, rest \ {k}, last)
  BY <1>1, <1>8, <1>9 DEF Halfway, Plan
<1>. QED  BY <1>4, <1>5, <1>6, <1>7, <1>10 DEF Follows

-----------------------------------------------------------------------------
(* Verifier::run                                                           *)

\* The prefix is what is left of a plan, and the trace is what is done of it.
Underway(T, st, done, rest, last) ==
    /\ Halfway(cfg_fn, T, st, done, rest, last)
    /\ next_prefix = Again(T, rest, last)
    /\ pc = "loop" => done = {}
    /\ pc = "trace" => Replayed(T, st, done)

\* The inductive invariant of the replay.
ReplayInv ==
    /\ pc = "trace" => panicked = "None"
    /\ pc \in {"loop", "trace"} /\ next_prefix # << >> =>
           \E T, st, done, rest, last : Underway(T, st, done, rest, last)

\* The actor is stepped, and its tree remembers the event unless the step unwinds.
Visiting(id, event, event_clock) ==
    /\ Step(id, event, event_clock)
    /\ IF panicked' = "None" THEN Visit(id) ELSE UNCHANGED trace_tree

\* A step that the actors offer is taken and visited.
ScheduledVisit ==
    /\ panicked = "None"
    /\ \E id \in Id : \E pending \in EnabledEvents(id) :
            Visiting(id, pending.event, pending.event_clock)

\* The search takes such a step as any schedule does.
LEMMA VisitIsScheduled == ScheduledVisit => Schedule
BY DEF ScheduledVisit, Visiting, Schedule

\* The step that ends the prefix, taken after the steps in S, makes f the history of its actor.
Aims(T, st, S, last, f) ==
    \E l : Cut(T, S, last.id, l) /\ f = Append(st[l][last.id].behavior, last.event)

(***************************************************************************)
(* A step of the prefix was replayed: it was that of an earlier trace and  *)
(* does not unwind, or it was the last one.                                *)
(***************************************************************************)
Continues(T, st, done, rest, last) ==
    \/ /\ panicked' = "None"
       /\ \E k \in rest : Underway(T, st, done \cup {k}, rest \ {k}, last)'
    \/ /\ rest = {} /\ next_prefix' = << >>
       /\ \E f : Aims(T, st, done, last, f) /\ behavior' = [behavior EXCEPT ![last.id] = f]

\* A replayed step is one that the actors offer.
LEMMA ReplayContinues ==
    ASSUME ActorInv, ReplayInv, ReplayStep, NEW T, NEW st, NEW done, NEW rest, NEW last,
           Underway(T, st, done, rest, last)
    PROVE  ScheduledVisit /\ Continues(T, st, done, rest, last)
<1>1. /\ pc = "trace" /\ panicked = "None" /\ next_prefix # << >>
      /\ next_prefix' = Tail(next_prefix)
      /\ IF panicked' = "None" THEN pc' = pc ELSE pc' = "returned"
  BY DEF ReplayInv, ReplayStep, Return
<1>2. PICK step : /\ step = Head(next_prefix)
                  /\ Visiting(step.id, step.event, step.event_clock)
  BY DEF ReplayStep, Visiting
<1>3. cfg_fn' = cfg_fn
  BY <1>2 DEF Visiting, Step, Advance
<1>4. OfferInv /\ ActorTypeOK /\ Conserved
  BY DEF ActorInv, OfferInv
<1>5. /\ Halfway(cfg_fn, T, st, done, rest, last) /\ next_prefix = Again(T, rest, last)
      /\ Replayed(T, st, done) /\ Runs(cfg_fn, T, st) /\ T \in Seq(TraceRecord)
  BY <1>1 DEF Underway, Halfway, Plan, Runs
<1>6. ASSUME NEW event, NEW event_clock, NEW id \in Id, Pending(event, event_clock) \in EnabledEvents(id),
             Visiting(id, event, event_clock)
      PROVE  /\ ScheduledVisit
             /\ behavior' = [behavior EXCEPT ![id] = Append(behavior[id], event)]
  <2>1. PICK pending : pending = Pending(event, event_clock)
    OBVIOUS
  <2>2. Visiting(id, pending.event, pending.event_clock)
    BY <1>6, <2>1 DEF Pending
  <2>3. Refusal(id, pending.event, pending.event_clock) = "None"
    BY <1>1, <1>4, <1>6, <2>1, OffersAreAccepted
  <2>4. behavior' = [behavior EXCEPT ![id] = Append(behavior[id], event)]
    BY <2>1, <2>2, <2>3 DEF Visiting, Step, Advance, Deliver, Pending
  <2>. QED  BY <1>1, <1>6, <2>1, <2>2, <2>4 DEF ScheduledVisit
<1>7. CASE rest # {}
  <2>1. PICK k \in rest : Follows(cfg_fn, T, st, done, rest, last, k)
    BY <1>5, <1>7, NextAgain
  <2>2. step = Replay(T[k]) /\ next_prefix' = Again(T, rest \ {k}, last)
    <3>1. StartsWith(Again(T, rest, last), Replay(T[k]), Again(T, rest \ {k}, last))
      BY <1>5, <2>1, FirstAgain DEF Follows
    <3>. QED  BY <1>1, <1>2, <1>5, <3>1 DEF StartsWith
  <2>3. Visiting(T[k].id, T[k].event, T[k].event_clock)
    BY <1>2, <2>2 DEF Replay
  <2>4. Step(T[k].id, T[k].event, T[k].event_clock)
    BY <2>3 DEF Visiting
  <2>5. /\ panicked' = "None"
        /\ Pending(T[k].event, T[k].event_clock) \in EnabledEvents(T[k].id)
        /\ Replayed(T, st, done \cup {k})'
    BY <1>1, <1>4, <1>5, <2>1, <2>4, StepAgain DEF Follows
  <2>6. Underway(T, st, done \cup {k}, rest \ {k}, last)'
    BY <1>1, <1>3, <2>1, <2>2, <2>5 DEF Underway, Follows
  <2>7. T[k].id \in Id
    BY <1>5, <2>1, RunIs DEF Follows
  <2>. QED  BY <1>6, <2>3, <2>5, <2>6, <2>7 DEF Continues
<1>8. CASE rest = {}
  <2>1. step = last /\ next_prefix' = << >>
    BY <1>1, <1>2, <1>5, <1>8, LastAgain
  <2>2. PICK l : /\ last.id \in Id /\ last.event \in Event
                 /\ Cut(T, done, last.id, l) /\ Served(T, st, done, st[l][last.id], last)
    BY <1>5, <1>8 DEF Halfway, Plan, LastIsServed
  <2>3. /\ Local(last.id) = st[l][last.id]
        /\ Pending(last.event, last.event_clock) \in EnabledEvents(last.id)
    BY <1>4, <1>5, <2>2, Ready
  <2>4. behavior[last.id] = st[l][last.id].behavior
    BY <2>3 DEF Local
  <2>5. /\ ScheduledVisit
        /\ behavior' = [behavior EXCEPT ![last.id] = Append(behavior[last.id], last.event)]
    BY <1>2, <1>6, <2>1, <2>2, <2>3
  <2>. QED  BY <1>8, <2>1, <2>2, <2>4, <2>5 DEF Continues, Aims
<1>. QED  BY <1>7, <1>8

\* It does not unwind unless it is the last of its prefix.
LEMMA ReplayIsScheduled ==
    ASSUME ActorInv, ReplayInv, ReplayStep
    PROVE  /\ ScheduledVisit
           /\ panicked' # "None" => next_prefix' = << >>
           /\ ReplayInv'
<1>1. /\ pc = "trace" /\ panicked = "None" /\ next_prefix # << >>
      /\ IF panicked' = "None" THEN pc' = pc ELSE pc' = "returned"
  BY DEF ReplayInv, ReplayStep, Return
<1>2. PICK T, st, done, rest, last : Underway(T, st, done, rest, last)
  BY <1>1 DEF ReplayInv
<1>3. ScheduledVisit /\ Continues(T, st, done, rest, last)
  BY <1>2, ReplayContinues
<1>4. CASE next_prefix' = << >>
  BY <1>1, <1>3, <1>4 DEF ReplayInv
<1>5. CASE next_prefix' # << >>
  <2>1. PICK k \in rest : /\ Underway(T, st, done \cup {k}, rest \ {k}, last)'
                          /\ panicked' = "None"
    BY <1>3, <1>5 DEF Continues
  <2>. QED  BY <1>1, <1>3, <2>1 DEF ReplayInv
<1>. QED  BY <1>4, <1>5

\* The first event of an actor that offers any is one that it offers.
LEMMA FirstEventIsOffered ==
    ASSUME ActorTypeOK, NEW id \in Id, EnabledEvents(id) # {}
    PROVE  FirstEvent(id) \in EnabledEvents(id)
<1>. DEFINE events == EnabledEvents(id)
            IsFirst(q) ==
                CASE enabled_events[id].kind = "Deterministic"   -> TRUE
                  [] enabled_events[id].kind = "DeadlineElapsed" ->
                        \A r \in events : r.event.elapsed = FALSE => q.event.elapsed = FALSE
                  [] enabled_events[id].kind = "Recv"            ->
                        \A r \in events : q.event.src <= r.event.src
<1>1. \E q \in events : IsFirst(q)
  <2>1. enabled_events[id] \in Iterator /\ \E q : q \in events
    BY DEF ActorTypeOK
  <2>2. CASE enabled_events[id].kind = "Deterministic"
    BY <2>1, <2>2
  <2>3. CASE enabled_events[id].kind = "DeadlineElapsed"
    <3>1. CASE \E q \in events : q.event.elapsed = FALSE
      BY <2>3, <3>1
    <3>2. CASE ~\E q \in events : q.event.elapsed = FALSE
      BY <2>1, <2>3, <3>2
    <3>. QED  BY <3>1, <3>2
  <2>4. CASE enabled_events[id].kind = "Recv"
    <3>. DEFINE sources == {q.event.src : q \in events}
    <3>1. sources \in SUBSET Nat /\ sources # {}
      <4>1. \A q \in events : q.event.src \in Id
        BY <2>4 DEF EnabledEvents, Pending, RecvOk
      <4>2. Id \subseteq Nat
        BY NAssumption DEF Id
      <4>. QED  BY <2>1, <4>1, <4>2
    <3>2. PICK src \in sources : \A other \in sources : src <= other
      BY <3>1, Least
    <3>3. PICK q \in events : q.event.src = src
      BY <3>2
    <3>4. \A r \in events : q.event.src <= r.event.src
      BY <3>2, <3>3
    <3>. QED  BY <2>4, <3>4
  <2>. QED  BY <2>1, <2>2, <2>3, <2>4 DEF Iterator
<1>2. FirstEvent(id) = CHOOSE q \in events : IsFirst(q)
  BY DEF FirstEvent
<1>. HIDE DEF IsFirst, events
<1>3. FirstEvent(id) \in events
  BY <1>1, <1>2
<1>. QED  BY <1>3 DEF events

\* Unless all are quiescent, the next actor is one that offers something.
LEMMA NextActorOffers ==
    ASSUME ~Quiescent
    PROVE  NextActor \in Id /\ EnabledEvents(NextActor) # {}
<1>. DEFINE S == {id \in Id : EnabledEvents(id) # {}}
<1>1. S \in SUBSET Nat /\ S # {}
  BY NAssumption DEF Quiescent, Id
<1>2. \E id \in S : \A other \in S : id <= other
  BY <1>1, Least
<1>3. \E id \in Id : /\ EnabledEvents(id) # {}
                     /\ \A other \in Id : EnabledEvents(other) # {} => id <= other
  BY <1>2
<1>. QED  BY <1>3 DEF NextActor

\* So the search explores what the actors offer.
LEMMA ExploreIsScheduled ==
    ASSUME ActorInv, ReplayInv, ExploreStep
    PROVE  ScheduledVisit
<1>1. pc = "trace" /\ ~Quiescent /\ panicked = "None" /\ ActorTypeOK
  BY DEF ExploreStep, ReplayInv, ActorInv, OfferInv
<1>2. Visiting(NextActor, FirstEvent(NextActor).event, FirstEvent(NextActor).event_clock)
  BY DEF ExploreStep, Visiting
<1>3. NextActor \in Id /\ FirstEvent(NextActor) \in EnabledEvents(NextActor)
  BY <1>1, NextActorOffers, FirstEventIsOffered
<1>. QED  BY <1>1, <1>2, <1>3 DEF ScheduledVisit

\* The inductive invariant of the search.
SearchInv == ActorInv /\ ReplayInv

\* The trace does not unwind while the search goes on.
LEMMA NextIsActorStep ==
    ASSUME SearchInv, [Next]_vars
    PROVE  [ActorNext]_actor_vars
<1>1. CASE StartTrace
  BY <1>1 DEF StartTrace, ActorNext
<1>2. CASE ReplayStep
  BY <1>2, ReplayIsScheduled, VisitIsScheduled DEF SearchInv, ActorNext
<1>3. CASE ExploreStep
  BY <1>3, ExploreIsScheduled, VisitIsScheduled DEF SearchInv, ActorNext
<1>4. CASE GiveUp \/ ReportPanic \/ CompleteTrace \/ UNCHANGED vars
  BY <1>4 DEF GiveUp, ReportPanic, CompleteTrace, vars
<1>. QED  BY <1>1, <1>2, <1>3, <1>4 DEF Next

\* The current trace gives the steps of the next prefix.
LEMMA CompleteTracePlans ==
    ASSUME SearchInv, CompleteTrace
    PROVE  ReplayInv'
<1>1. /\ pc = "trace" /\ panicked = "None"
      /\ UNCHANGED <<cfg_fn, panicked>>
      /\ pc' = "returned" \/ (pc' = "loop" /\ next_prefix' = NextPrefix /\ Alternatives # {})
  BY DEF SearchInv, ReplayInv, CompleteTrace, Return, actor_vars
<1>2. CASE pc' = "returned"
  BY <1>2 DEF ReplayInv
<1>3. CASE pc' = "loop" /\ next_prefix' = NextPrefix /\ Alternatives # {}
  <2>1. PICK st : Runs(cfg_fn, trace_records, st)
    BY <1>1 DEF SearchInv, ActorInv, RunInv, OnRun
  <2>2. CausalInv /\ LinkedClocks
    BY DEF SearchInv, ActorInv
  <2>3. PICK S, last : /\ Plan(cfg_fn, trace_records, st, S, last)
                       /\ NextPrefix = Again(trace_records, S, last)
    BY <1>3, <2>1, <2>2, NextPrefixIsPlanned
  <2>4. PICK T : T = trace_records
    OBVIOUS
  <2>5. Halfway(cfg_fn, T, st, {}, S, last)
    BY <2>3, <2>4 DEF Halfway
  <2>6. Underway(T, st, {}, S, last)'
    BY <1>1, <1>3, <2>3, <2>4, <2>5 DEF Underway
  <2>. QED  BY <1>3, <2>6 DEF ReplayInv
<1>. QED  BY <1>1, <1>2, <1>3

\* SearchInv is inductive.
LEMMA NextKeepsSearchInv ==
    ASSUME SearchInv, [Next]_vars
    PROVE  SearchInv'
<1>1. ActorInv'
  BY NextIsActorStep, NextKeepsActorInv DEF SearchInv
<1>2. CASE StartTrace
  <2>1. /\ pc = "loop" /\ pc' = "trace" /\ UNCHANGED <<cfg_fn, next_prefix>> /\ panicked' = "None"
    BY <1>2 DEF StartTrace, ResetActors
  <2>2. \A p, T, st : Runs(p, T, st) => Replayed(T, st, {})'
    <3>1. NewTrace'
      BY <1>2, ResetIsNewTrace DEF StartTrace, SearchInv, ActorInv, OfferInv
    <3>. QED  BY <3>1, NewTraceReplaysAgain
  <2>3. ASSUME next_prefix # << >>
        PROVE  \E T, st, done, rest, last : Underway(T, st, done, rest, last)'
    <3>1. PICK T, st, done, rest, last : Underway(T, st, done, rest, last)
      BY <2>1, <2>3 DEF SearchInv, ReplayInv
    <3>2. done = {} /\ Runs(cfg_fn, T, st)
      BY <2>1, <3>1 DEF Underway, Halfway, Plan
    <3>3. Replayed(T, st, done)'
      BY <2>2, <3>2
    <3>4. Underway(T, st, done, rest, last)'
      BY <2>1, <3>1, <3>3 DEF Underway
    <3>. QED  BY <3>4
  <2>. QED  BY <1>1, <2>1, <2>3 DEF SearchInv, ReplayInv
<1>3. CASE ReplayStep
  BY <1>1, <1>3, ReplayIsScheduled DEF SearchInv
<1>4. CASE ExploreStep
  <2>1. /\ next_prefix' = << >>
        /\ pc' = "trace" => panicked' = "None"
    BY <1>4 DEF ExploreStep
  <2>. QED  BY <1>1, <2>1 DEF SearchInv, ReplayInv
<1>5. CASE GiveUp \/ ReportPanic
  <2>1. pc' = "returned"
    BY <1>5 DEF GiveUp, ReportPanic, Return
  <2>. QED  BY <1>1, <2>1 DEF SearchInv, ReplayInv
<1>6. CASE CompleteTrace
  BY <1>1, <1>6, CompleteTracePlans DEF SearchInv
<1>7. CASE UNCHANGED vars
  <2>1. /\ UNCHANGED <<actor_vars, pc, next_prefix, panicked, cfg_fn, trace_records>>
    BY <1>7 DEF vars, search, actor_vars
  <2>2. \A id : Local(id)' = Local(id)
    BY <2>1, UnchangedLocal
  <2>3. \A T, st, S : Replayed(T, st, S) => Replayed(T, st, S)'
    BY <2>2 DEF Replayed
  <2>4. \A T, st, done, rest, last :
           Underway(T, st, done, rest, last) => Underway(T, st, done, rest, last)'
    BY <2>1, <2>3 DEF Underway
  <2>. QED  BY <1>1, <2>1, <2>4 DEF SearchInv, ReplayInv
<1>. QED  BY <1>2, <1>3, <1>4, <1>5, <1>6, <1>7 DEF Next

\* SearchInv holds initially ...
LEMMA InitHasSearchInv == Init => SearchInv
BY InitHasActorInv DEF Init, SearchInv, ReplayInv, ActorInit

\* ... and throughout.
LEMMA SearchInvHolds == Spec => []SearchInv
BY InitHasSearchInv, NextKeepsSearchInv, PTL DEF Spec

(***************************************************************************)
(* run only takes steps that the actors offer, whatever the behaviors are  *)
(* (verifier.rs, Verifier::run and pick_next_representative_prefix): the   *)
(* steps that a prefix leaves out are not missed by those that it keeps.   *)
(***************************************************************************)
THEOREM TracesAreSchedules == Spec => EveryTraceIsASchedule
<1>1. Init => ActorInit
  BY DEF Init
<1>2. SearchInv /\ [Next]_vars => [ActorNext]_actor_vars
  BY NextIsActorStep
<1>. QED  BY <1>1, <1>2, SearchInvHolds, PTL DEF Spec, EveryTraceIsASchedule, ActorSpec

\* The actors refuse nothing that they offer.
LEMMA ScheduledIsAccepted ==
    ASSUME OfferInv, Schedule
    PROVE  panicked' \notin RefusalReason
<1>1. PICK id \in Id : /\ panicked = "None"
                       /\ \E pending \in EnabledEvents(id) :
                              Step(id, pending.event, pending.event_clock)
  BY DEF Schedule
<1>2. PICK pending \in EnabledEvents(id) : Step(id, pending.event, pending.event_clock)
  BY <1>1
<1>3. Refusal(id, pending.event, pending.event_clock) = "None"
  BY <1>1, OffersAreAccepted
<1>4. panicked' = Unwinding(id, CommandFor(id, pending.event))
  BY <1>2, <1>3 DEF Step, Advance, Deliver
<1>. QED  BY <1>4 DEF Unwinding, RefusalReason

\* Once there is a result nothing changes; SearchInv says what it is.
UnwindInv ==
    /\ OnlyTheLastStepUnwinds
    /\ pc # "returned" => result = Running

\* UnwindInv is inductive.
LEMMA NextKeepsUnwindInv ==
    ASSUME SearchInv, UnwindInv, [Next]_vars
    PROVE  UnwindInv'
<1>1. Running.outcome # "Unwound"
  BY DEF Running
<1>2. CASE ReplayStep
  <2>1. pc = "trace" /\ result = Running
    BY <1>2 DEF ReplayStep, UnwindInv
  <2>2. CASE panicked' = "None"
    BY <1>1, <1>2, <2>1, <2>2 DEF ReplayStep, UnwindInv, OnlyTheLastStepUnwinds
  <2>3. CASE panicked' # "None"
    <3>1. next_prefix' = << >> /\ panicked' \notin RefusalReason
      BY <1>2, <2>3, ReplayIsScheduled, VisitIsScheduled, ScheduledIsAccepted DEF SearchInv, ActorInv
    <3>2. pc' = "returned"
      BY <1>2, <2>3 DEF ReplayStep, Return
    <3>. QED  BY <3>1, <3>2 DEF UnwindInv, OnlyTheLastStepUnwinds
  <2>. QED  BY <2>2, <2>3
<1>3. CASE StartTrace \/ ExploreStep
  <2>1. pc # "returned" /\ result' = result
    BY <1>3 DEF StartTrace, ExploreStep
  <2>. QED  BY <1>1, <2>1 DEF UnwindInv, OnlyTheLastStepUnwinds
<1>4. CASE GiveUp \/ ReportPanic \/ CompleteTrace
  <2>1. pc # "returned" /\ (result' = result \/ (pc' = "returned" /\ result'.outcome # "Unwound"))
    BY <1>4 DEF GiveUp, ReportPanic, CompleteTrace, Return
  <2>. QED  BY <1>1, <2>1 DEF UnwindInv, OnlyTheLastStepUnwinds
<1>5. CASE UNCHANGED vars
  BY <1>5 DEF vars, search, actor_vars, UnwindInv, OnlyTheLastStepUnwinds
<1>. QED  BY <1>2, <1>3, <1>4, <1>5 DEF Next

(***************************************************************************)
(* A prefix that panics does so in its last step, whatever the behaviors   *)
(* are: what is replayed of an earlier trace does again what it did, and   *)
(* the asserts of Verifier::step on recorded events hold (verifier.rs,     *)
(* "First consume the prefix, which is known to not panic").               *)
(***************************************************************************)
THEOREM ReplayedStepsDoNotUnwind == Spec => []OnlyTheLastStepUnwinds
<1>1. Init => UnwindInv
  BY DEF Init, UnwindInv, OnlyTheLastStepUnwinds, Running
<1>2. SearchInv /\ UnwindInv /\ [Next]_vars => UnwindInv'
  BY NextKeepsUnwindInv
<1>3. UnwindInv => OnlyTheLastStepUnwinds
  BY DEF UnwindInv
<1>. QED  BY <1>1, <1>2, <1>3, SearchInvHolds, PTL DEF Spec

-----------------------------------------------------------------------------
(* The types of the search                                                 *)

\* What a visited step does to the histories, the trees and the configuration.
Visits(id, event) ==
    /\ behavior' = [behavior EXCEPT ![id] = Append(@, event)]
    /\ trace_tree' = IF panicked' = "None"
                     THEN [trace_tree EXCEPT ![id] = @ \cup {Append(behavior[id], event)}]
                     ELSE trace_tree

\* A step of the search is a visit, and an answer that is typed.
LEMMA VisitIs ==
    ASSUME OfferInv, ScheduledVisit, trace_tree \in [Id -> SUBSET Seq(Event)]
    PROVE  \E id \in Id : \E pending \in EnabledEvents(id) :
              /\ Visits(id, pending.event)
              /\ Past!IsAnswer(id, pending.event)
              /\ pending.event \in Event
<1>1. PICK id \in Id : /\ panicked = "None"
                       /\ \E pending \in EnabledEvents(id) :
                              Visiting(id, pending.event, pending.event_clock)
  BY DEF ScheduledVisit
<1>2. PICK pending \in EnabledEvents(id) : Visiting(id, pending.event, pending.event_clock)
  BY <1>1
<1>3. Refusal(id, pending.event, pending.event_clock) = "None"
  BY <1>1, OffersAreAccepted
<1>4. behavior' = [behavior EXCEPT ![id] = Append(@, pending.event)]
  BY <1>2, <1>3 DEF Visiting, Step, Advance, Deliver
<1>5. behavior'[id] = Append(behavior[id], pending.event)
  BY <1>4 DEF OfferInv, ActorTypeOK
<1>6. Visits(id, pending.event)
  BY <1>2, <1>4, <1>5 DEF Visiting, Visit, Visits
<1>. QED  BY <1>1, <1>6, OffersAreAnswers, OffersAreTyped DEF OfferInv

\* A step of a prefix.
PrefixStep == [id : Id, event : Event, event_clock : Clock]

\* A prefix is made of steps ...
LEMMA PrefixTypes ==
    ASSUME ActorTypeOK, NEW S, NEW last \in PrefixStep
    PROVE  Prefix(S, last) \in Seq(PrefixStep)
<1>. DEFINE records == Subsequence(trace_records, S)
            again == [k \in DOMAIN records |-> Replay(records[k])]
<1>1. records \in Seq(TraceRecord)
  BY SubsequenceIsSeq DEF ActorTypeOK
<1>2. \A r \in TraceRecord : Replay(r) \in PrefixStep
  BY DEF Replay, TraceRecord, PrefixStep
<1>3. Prefix(S, last) = Append(again, last)
  BY DEF Prefix
<1>. HIDE DEF records
<1>4. again \in Seq(PrefixStep)
  BY <1>1, <1>2
<1>. QED  BY <1>3, <1>4

\* ... and so is the next one.
LEMMA NextPrefixTypes ==
    ASSUME ActorTypeOK, Alternatives # {}
    PROVE  NextPrefix \in Seq(PrefixStep)
<1>. DEFINE i == LastOf(Alternatives)
            S == IF IsOpenDeadline(i) THEN 1 .. i - 1
                 ELSE 1 .. LastOf(Reversals(i)) - 1 \cup Causes(i, LastOf(Reversals(i)))
            last == IF IsOpenDeadline(i) THEN Elapsing(trace_records[i]) ELSE Replay(trace_records[i])
<1>1. /\ trace_records \in Seq(TraceRecord) /\ Len(trace_records) \in Nat
      /\ DOMAIN trace_records = 1 .. Len(trace_records)
  BY TraceIs
<1>2. i \in 1 .. Len(trace_records)
  <2>1. Alternatives \in SUBSET (1 .. Len(trace_records))
    BY <1>1 DEF Alternatives
  <2>. QED  BY <1>1, <2>1, LastOfIsGreatest
<1>3. NextPrefix = Prefix(S, last)
  BY DEF NextPrefix
<1>4. last \in PrefixStep
  <2>. HIDE DEF i
  <2>1. trace_records[i] \in TraceRecord
    BY <1>1, <1>2
  <2>2. Replay(trace_records[i]) \in PrefixStep
    BY <2>1 DEF Replay, TraceRecord, PrefixStep
  <2>3. Elapsing(trace_records[i]) \in PrefixStep
    <3>1. DeadlineElapsedOk(TRUE) \in Event
      BY EventTypes
    <3>2. New \in Clock
      BY DEF New, Clock
    <3>. QED  BY <2>1, <3>1, <3>2 DEF Elapsing, TraceRecord, PrefixStep
  <2>. QED  BY <2>2, <2>3
<1>. HIDE DEF S, last
<1>. QED  BY <1>3, <1>4, PrefixTypes

\* TypeOK relies on the actors taking only steps that they offer.
LEMMA NextKeepsTypes ==
    ASSUME SearchInv, TypeOK, ActorTypeOK', [Next]_vars
    PROVE  TypeOK'
<1>1. /\ pc \in {"loop", "trace", "caught", "returned"}
      /\ trace_tree \in [Id -> SUBSET Seq(Event)]
      /\ trace_count \in 0 .. MaxTraceCount
      /\ next_prefix \in Seq(PrefixStep)
      /\ result.outcome \in Outcome
      /\ pc = "returned" <=> result # Running
  BY DEF TypeOK, PrefixStep
<1>2. Running.outcome = "Running"
  BY DEF Running
<1>3. ASSUME ScheduledVisit
      PROVE  trace_tree' \in [Id -> SUBSET Seq(Event)]
  <2>1. PICK id \in Id, event \in Event : Visits(id, event)
    BY <1>1, <1>3, VisitIs DEF SearchInv, ActorInv
  <2>2. behavior[id] \in Seq(Event)
    BY DEF ActorTypeOK, TypeOK
  <2>3. Append(behavior[id], event) \in Seq(Event)
    BY <2>2
  <2>. QED  BY <1>1, <2>1, <2>3 DEF Visits
<1>4. CASE GiveUp
  BY <1>1, <1>2, <1>4 DEF GiveUp, Return, TypeOK, Outcome, PrefixStep
<1>5. CASE StartTrace
  BY <1>1, <1>5, MaxTraceCountAssumption DEF StartTrace, TypeOK, PrefixStep
<1>6. CASE ReplayStep
  <2>1. trace_tree' \in [Id -> SUBSET Seq(Event)]
    BY <1>3, <1>6, ReplayIsScheduled DEF SearchInv
  <2>2. next_prefix' \in Seq(PrefixStep)
    BY <1>1, <1>6 DEF ReplayStep
  <2>3. \/ UNCHANGED <<pc, result>>
        \/ pc' = "returned" /\ result' = [outcome |-> "Unwound"]
    BY <1>6 DEF ReplayStep, Return
  <2>4. trace_count' = trace_count
    BY <1>6 DEF ReplayStep
  <2>. QED  BY <1>1, <1>2, <2>1, <2>2, <2>3, <2>4 DEF TypeOK, Outcome, PrefixStep
<1>7. CASE ExploreStep
  <2>1. trace_tree' \in [Id -> SUBSET Seq(Event)]
    BY <1>3, <1>7, ExploreIsScheduled DEF SearchInv
  <2>2. pc = "trace" /\ (pc' = pc \/ pc' = "caught")
        /\ UNCHANGED <<trace_count, next_prefix, result>>
    BY <1>7 DEF ExploreStep
  <2>. QED  BY <1>1, <2>1, <2>2 DEF TypeOK, PrefixStep
<1>8. CASE ReportPanic
  BY <1>1, <1>2, <1>8 DEF ReportPanic, Return, TypeOK, Outcome, PrefixStep
<1>9. CASE CompleteTrace
  <2>1. UNCHANGED <<trace_tree, trace_count>> /\ pc = "trace"
    BY <1>9 DEF CompleteTrace
  <2>2. \/ /\ pc' = "returned" /\ result'.outcome \in {"UnmetExpectation", "Complete"}
           /\ next_prefix' = next_prefix
        \/ /\ pc' = "loop" /\ result' = result
           /\ next_prefix' \in Seq(PrefixStep)
    BY <1>9, NextPrefixTypes DEF CompleteTrace, Return, TypeOK
  <2>. QED  BY <1>1, <1>2, <2>1, <2>2 DEF TypeOK, Outcome, PrefixStep
<1>10. CASE UNCHANGED vars
  BY <1>1, <1>10 DEF vars, search, TypeOK, PrefixStep
<1>. QED  BY <1>4, <1>5, <1>6, <1>7, <1>8, <1>9, <1>10 DEF Next

\* The invariant of types, with what it relies on.
TypedInv == SearchInv /\ TypeOK

\* The types hold throughout.
LEMMA TypedInvHolds == Spec => []TypedInv
<1>1. SearchInv => ActorTypeOK
  BY DEF SearchInv, ActorInv, OfferInv
<1>2. Init => TypeOK
  <2>. SUFFICES ASSUME Init PROVE TypeOK
    OBVIOUS
  <2>1. ActorTypeOK
    BY InitTypes DEF Init
  <2>. QED  BY <2>1, MaxTraceCountAssumption DEF Init, TypeOK, Running, Outcome
<1>3. SearchInv /\ TypeOK /\ ActorTypeOK' /\ [Next]_vars => TypeOK'
  BY NextKeepsTypes
<1>. QED  BY <1>1, <1>2, <1>3, SearchInvHolds, PTL DEF Spec, TypedInv

(***************************************************************************)
(* The search is well typed (verifier.rs, struct Verifier and run): trees  *)
(* hold sequences of events, a prefix holds steps of actors, the count of  *)
(* traces keeps to its bound, and run has a result when it has returned.   *)
(***************************************************************************)
THEOREM SearchIsWellTyped == Spec => []TypeOK
<1>1. TypedInv => TypeOK
  BY DEF TypedInv
<1>. QED  BY <1>1, TypedInvHolds, PTL

-----------------------------------------------------------------------------
(* The trees of visited histories                                          *)

\* A history that one event was appended to.
LEMMA AppendedHistory ==
    ASSUME NEW h, h \in Seq(Event), NEW event
    PROVE  /\ h = << >> => Append(h, event)[1] = event /\ Len(Append(h, event)) = 1
           /\ h # << >> => Append(h, event)[1] = h[1]
           /\ SubSeq(Append(h, event), 1, Len(Append(h, event)) - 1) = h
<1>1. PICK W : h \in Seq(W) /\ event \in W
  <2>1. h \in Seq(Event \cup {event})
    OBVIOUS
  <2>. QED  BY <2>1
<1>2. h # << >> => Len(h) >= 1
  BY <1>1
<1>3. Len(Append(h, event)) = Len(h) + 1 /\ Len(h) \in Nat
  BY <1>1
<1>4. SubSeq(Append(h, event), 1, Len(h)) = h
  BY <1>1
<1>. QED  BY <1>1, <1>2, <1>3, <1>4

\* TreesHoldTheTrace is inductive.
LEMMA NextKeepsTrees ==
    ASSUME TypedInv, TreesHoldTheTrace, [Next]_vars
    PROVE  TreesHoldTheTrace'
<1>1. /\ OfferInv /\ behavior \in [Id -> Seq(Event)]
      /\ trace_tree \in [Id -> SUBSET Seq(Event)]
  BY DEF TypedInv, SearchInv, ActorInv, OfferInv, TypeOK, ActorTypeOK
<1>2. CASE ScheduledVisit
  <2>1. PICK id \in Id, event \in Event : Visits(id, event) /\ Past!IsAnswer(id, event)
    BY <1>1, <1>2, VisitIs
  <2>2. panicked = "None"
    BY <1>2 DEF ScheduledVisit
  <2>3. behavior[id] = << >> => event = SpawnOk(id)
    BY <2>1 DEF Past!IsAnswer, SpawnOk, Past!SpawnOk
  <2>. DEFINE h == Append(behavior[id], event)
  <2>4. /\ behavior[id] = << >> => h[1] = event /\ Len(h) = 1
        /\ behavior[id] # << >> => h[1] = behavior[id][1]
        /\ SubSeq(h, 1, Len(h) - 1) = behavior[id]
    BY <1>1, AppendedHistory
  <2>5. behavior[id] # << >> => behavior[id] \in trace_tree[id]
    BY <2>2 DEF TreesHoldTheTrace
  <2>6. h[1] = SpawnOk(id)
    BY <2>3, <2>4, <2>5 DEF TreesHoldTheTrace
  <2>7. CASE panicked' = "None"
    <3>1. /\ behavior' = [behavior EXCEPT ![id] = h]
          /\ trace_tree' = [trace_tree EXCEPT ![id] = @ \cup {h}]
      BY <2>1, <2>7 DEF Visits
    <3>. HIDE DEF h
    <3>2. ASSUME NEW other \in Id
          PROVE  /\ behavior'[other] # << >> => behavior'[other] \in trace_tree'[other]
                 /\ \A history \in trace_tree'[other] :
                       /\ history[1] = SpawnOk(other)
                       /\ Len(history) > 1 =>
                             SubSeq(history, 1, Len(history) - 1) \in trace_tree'[other]
      <4>1. CASE other = id
        <5>1. behavior'[id] = h /\ trace_tree'[id] = trace_tree[id] \cup {h}
          BY <1>1, <3>1
        <5>2. Len(h) > 1 => SubSeq(h, 1, Len(h) - 1) \in trace_tree[id]
          <6>1. \A n : n = 1 => ~(n > 1)
            OBVIOUS
          <6>. QED  BY <2>4, <2>5, <6>1
        <5>. QED  BY <2>6, <4>1, <5>1, <5>2 DEF TreesHoldTheTrace
      <4>2. CASE other # id
        <5>1. behavior'[other] = behavior[other] /\ trace_tree'[other] = trace_tree[other]
          BY <1>1, <3>1, <4>2
        <5>. QED  BY <2>2, <5>1 DEF TreesHoldTheTrace
      <4>. QED  BY <4>1, <4>2
    <3>. QED  BY <3>2 DEF TreesHoldTheTrace
  <2>8. CASE panicked' # "None"
    <3>1. trace_tree' = trace_tree
      BY <2>1, <2>8 DEF Visits
    <3>. QED  BY <2>8, <3>1 DEF TreesHoldTheTrace
  <2>. QED  BY <2>7, <2>8
<1>3. CASE ReplayStep \/ ExploreStep
  BY <1>2, <1>3, ReplayIsScheduled, ExploreIsScheduled DEF TypedInv, SearchInv
<1>4. CASE StartTrace
  <2>1. trace_tree' = trace_tree /\ \A id \in Id : behavior'[id] = << >>
    BY <1>4 DEF StartTrace, ResetActors
  <2>. QED  BY <2>1 DEF TreesHoldTheTrace
<1>5. CASE GiveUp \/ ReportPanic \/ CompleteTrace \/ UNCHANGED vars
  <2>1. UNCHANGED <<behavior, panicked, trace_tree>>
    BY <1>5 DEF GiveUp, ReportPanic, CompleteTrace, vars, search, actor_vars, actors
  <2>. QED  BY <2>1 DEF TreesHoldTheTrace
<1>. QED  BY <1>3, <1>4, <1>5 DEF Next

\* The trees are empty initially.
LEMMA InitHoldsTrees == Init => TreesHoldTheTrace
BY DEF Init, ActorInit, TreesHoldTheTrace

(***************************************************************************)
(* `visited` never meets a prefix it does not know (trace_tree.rs, the     *)
(* panics "Invalid prefix." and "Prefix empty."): the trees hold all of    *)
(* the current trace and are closed under prefixes.                        *)
(***************************************************************************)
THEOREM TreesKnowTheTrace == Spec => []TreesHoldTheTrace
BY InitHoldsTrees, NextKeepsTrees, TypedInvHolds, PTL DEF Spec

-----------------------------------------------------------------------------
(* Local histories                                                         *)

\* The events of some steps.
EventsOf(records) == [l \in DOMAIN records |-> records[l].event]

\* The events of one step more.
LEMMA EventsOfAppended ==
    ASSUME NEW u \in Seq(TraceRecord), NEW r \in TraceRecord
    PROVE  EventsOf(Append(u, r)) = Append(EventsOf(u), r.event)
<1>1. /\ Len(u) \in Nat /\ DOMAIN u = 1 .. Len(u)
      /\ Append(u, r) \in Seq(TraceRecord) /\ Len(Append(u, r)) = Len(u) + 1
      /\ \A l \in 1 .. Len(u) : Append(u, r)[l] = u[l]
      /\ Append(u, r)[Len(u) + 1] = r
  OBVIOUS
<1>2. \A e \in TraceRecord : e.event \in Event
  BY DEF TraceRecord
<1>3. EventsOf(u) \in Seq(Event) /\ Len(EventsOf(u)) = Len(u)
  BY <1>2 DEF EventsOf
<1>4. EventsOf(Append(u, r)) \in Seq(Event) /\ Len(EventsOf(Append(u, r))) = Len(u) + 1
  BY <1>1, <1>2 DEF EventsOf
<1>5. /\ \A l \in 1 .. Len(u) : EventsOf(Append(u, r))[l] = EventsOf(u)[l]
      /\ EventsOf(Append(u, r))[Len(u) + 1] = r.event
  <2>1. DOMAIN Append(u, r) = 1 .. Len(u) + 1
    BY <1>1
  <2>. QED  BY <1>1, <2>1 DEF EventsOf
<1>. HIDE DEF EventsOf
<1>6. r.event \in Event
  BY <1>2
<1>. QED  BY <1>1, <1>3, <1>4, <1>5, <1>6, AppendByElements

\* The history that the search computes is what the behavior had consumed.
LEMMA HistoryIsConsumed ==
    ASSUME NEW p, NEW st, Runs(p, trace_records, st), NEW id \in Id,
           NEW k \in 0 .. Len(trace_records)
    PROVE  History(id, k) = st[k][id].behavior
<1>. DEFINE T == trace_records
            I == {l \in 1 .. k : T[l].id = id}
            n == Len(T)
            place(m) == IF m <= k THEN m ELSE k
<1>1. /\ T \in Seq(TraceRecord) /\ n \in Nat /\ k \in 0 .. n
      /\ \A m \in 1 .. n : T[m] \in TraceRecord /\ T[m].id \in Id /\ RunStep(p, T[m], st[m - 1], st[m])
      /\ \A a \in Id : st[0][a] = NewLocal(a)
  BY RunIs DEF Runs
<1>2. History(id, k) = EventsOf(Subsequence(T, I))
  BY DEF History, EventsOf
<1>. HIDE DEF T, n
<1>3. PICK f \in [0 .. n -> Seq(TraceRecord)] : Takes(T, I, f) /\ Subsequence(T, I) = f[n]
  <2>. HIDE DEF I
  <2>. QED  BY <1>1, SubsequenceIsDefined DEF n
<1>4. /\ f[0] = << >>
      /\ \A m \in 1 .. n : f[m] = IF m \in I THEN Append(f[m - 1], T[m]) ELSE f[m - 1]
  <2>. HIDE DEF I
  <2>1. T \in Seq(TraceRecord) /\ Takes(T, I, f)
    BY <1>1, <1>3
  <2>2. /\ f[0] = << >>
        /\ \A m \in 1 .. Len(T) : f[m] = IF m \in I THEN Append(f[m - 1], T[m]) ELSE f[m - 1]
    BY <2>1, TakesEachStep
  <2>. QED  BY <2>2 DEF n
<1>. DEFINE S == {m \in 0 .. n : EventsOf(f[m]) = st[place(m)][id].behavior}
<1>5. 0 \in S
  <2>1. EventsOf(<< >>) = << >>
    BY DEF EventsOf
  <2>2. st[0][id] = NewLocal(id)
    BY <1>1
  <2>3. st[0][id].behavior = << >>
    BY <2>2 DEF NewLocal
  <2>. QED  BY <1>1, <1>4, <2>1, <2>3
<1>6. ASSUME NEW m \in 0 .. n - 1, m \in S
      PROVE  m + 1 \in S
  <2>1. /\ m + 1 \in 1 .. n /\ m + 1 \in 0 .. n /\ (m + 1) - 1 = m /\ m \in 0 .. n
        /\ EventsOf(f[m]) = st[place(m)][id].behavior
        /\ f[m] \in Seq(TraceRecord) /\ T[m + 1] \in TraceRecord
        /\ RunStep(p, T[m + 1], st[m], st[m + 1])
    <3>1. m + 1 \in 1 .. n /\ m + 1 \in 0 .. n /\ (m + 1) - 1 = m /\ m \in 0 .. n
      BY <1>1
    <3>2. EventsOf(f[m]) = st[place(m)][id].behavior
      BY <1>6
    <3>3. T[m + 1] \in TraceRecord /\ RunStep(p, T[m + 1], st[(m + 1) - 1], st[m + 1])
      BY <1>1, <3>1, Zenon
    <3>4. f[m] \in Seq(TraceRecord)
      BY <3>1
    <3>. QED  BY <3>1, <3>2, <3>3, <3>4
  <2>2. f[m + 1] = IF m + 1 \in I THEN Append(f[m], T[m + 1]) ELSE f[m]
    BY <1>4, <2>1
  <2>3. CASE m + 1 > k
    <3>1. m + 1 \notin I
      BY <1>1, <2>1, <2>3
    <3>2. place(m + 1) = k /\ place(m) = k
      BY <1>1, <2>1, <2>3
    <3>. QED  BY <2>1, <2>2, <3>1, <3>2
  <2>4. CASE m + 1 <= k
    <3>1. place(m + 1) = m + 1 /\ place(m) = m /\ (m + 1 \in I <=> T[m + 1].id = id)
      BY <1>1, <2>1, <2>4
    <3>2. st[m + 1][id].behavior = IF T[m + 1].id = id
                                   THEN Append(st[m][id].behavior, T[m + 1].event)
                                   ELSE st[m][id].behavior
      <4>1. CASE T[m + 1].id = id
        <5>. DEFINE s == st[m][id]
                    t == st[m + 1][id]
                    event == T[m + 1].event
                    event_clock == T[m + 1].event_clock
        <5>1. t = LocalAfter(p, id, s, event, event_clock)
          BY <2>1, <4>1 DEF RunStep
        <5>. HIDE DEF s, t, event, event_clock
        <5>2. t.behavior = Append(s.behavior, event)
          BY <5>1 DEF LocalAfter
        <5>. QED  BY <4>1, <5>2 DEF s, t, event
      <4>2. CASE T[m + 1].id # id
        BY <2>1, <4>2 DEF RunStep
      <4>. QED  BY <4>1, <4>2
    <3>3. EventsOf(f[m + 1]) = IF T[m + 1].id = id
                               THEN Append(EventsOf(f[m]), T[m + 1].event)
                               ELSE EventsOf(f[m])
      BY <2>1, <2>2, <3>1, EventsOfAppended
    <3>. HIDE DEF place
    <3>. QED  BY <2>1, <3>1, <3>2, <3>3
  <2>. QED  BY <1>1, <2>3, <2>4
<1>7. n \in S /\ place(n) = k
  <2>1. place(n) = k
    BY <1>1
  <2>. HIDE DEF S
  <2>2. 0 .. n \subseteq S
    BY <1>1, <1>5, <1>6, Induction
  <2>. QED  BY <1>1, <2>1, <2>2
<1>. QED  BY <1>2, <1>3, <1>7

-----------------------------------------------------------------------------
(* No class is explored twice, where no deadline is queried                *)

(***************************************************************************)
(* The behaviors never ask whether a deadline has elapsed, as in the tests *)
(* echo, calc, registry and kv.  Where they do, the search may explore one *)
(* class again: DeadlinesBesideRace (Configurations) is an example.        *)
(***************************************************************************)
NeverQueried ==
    \A p \in Program, id \in Id : \A h \in Seq(Event) :
        Behave(p, id, h) \in Command => Behave(p, id, h).type # "DeadlineElapsed"

\* So no step answers that question.
NoneElapsed ==
    /\ NeverQueried
    /\ \A k \in DOMAIN trace_records : trace_records[k].event.type # "DeadlineElapsedOk"

\* NoneElapsed is inductive.
LEMMA NextKeepsNoneElapsed ==
    ASSUME SearchInv, NoneElapsed, [Next]_vars
    PROVE  NoneElapsed'
<1>1. OfferInv /\ ActorTypeOK /\ [ActorNext]_actor_vars /\ NeverQueried'
  BY NextIsActorStep DEF SearchInv, ActorInv, OfferInv, NoneElapsed, NeverQueried
<1>2. CASE Schedule
  <2>1. PICK id \in Id : /\ panicked = "None"
                         /\ \E pending \in EnabledEvents(id) :
                               Step(id, pending.event, pending.event_clock)
    BY <1>2 DEF Schedule
  <2>2. PICK pending \in EnabledEvents(id) : Step(id, pending.event, pending.event_clock)
    BY <2>1
  <2>3. pending.event.type # "DeadlineElapsedOk"
    <3>1. /\ Past!IsAnswer(id, pending.event)
          /\ behavior[id] \in Seq(Event) /\ cfg_fn \in Program
      BY <1>1, <2>1, OffersAreAnswers DEF ActorTypeOK
    <3>. DEFINE h == SubSeq(behavior[id], 1, Len(behavior[id]))
    <3>2. h \in Seq(Event) /\ Past!LastCommand(id) = Behave(cfg_fn, id, h)
      BY <3>1 DEF Past!LastCommand, Past!CommandAfter
    <3>. HIDE DEF h
    <3>3. Past!LastCommand(id) \in Command => Past!LastCommand(id).type # "DeadlineElapsed"
      BY <3>1, <3>2 DEF NoneElapsed, NeverQueried
    <3>4. Past!Command = Command
      BY DEF Past!Command, Command, Past!Id, Id
    <3>. QED  BY <3>1, <3>3, <3>4 DEF Past!IsAnswer, SpawnOk, Past!SpawnOk
  <2>. DEFINE rec == NewRecord(id, pending.event, pending.event_clock)
  <2>4. /\ rec.event = pending.event /\ rec \in TraceRecord
        /\ trace_records' = Append(trace_records, rec)
    BY <1>1, <2>1, <2>2, ScheduledStep
  <2>. HIDE DEF rec
  <2>5. trace_records \in Seq(TraceRecord)
    BY <1>1, TraceIs
  <2>6. ASSUME NEW k \in DOMAIN trace_records'
        PROVE  trace_records'[k].event.type # "DeadlineElapsedOk"
    <3>1. \/ k = Len(trace_records) + 1 /\ trace_records'[k] = rec
          \/ k \in DOMAIN trace_records /\ trace_records'[k] = trace_records[k]
      BY <2>4, <2>5
    <3>. QED  BY <2>3, <2>4, <3>1 DEF NoneElapsed
  <2>. QED  BY <1>1, <2>6 DEF NoneElapsed
<1>3. CASE ResetActors
  BY <1>1, <1>3 DEF ResetActors, NoneElapsed
<1>4. CASE UNCHANGED actor_vars
  BY <1>1, <1>4 DEF actor_vars, NoneElapsed
<1>. QED  BY <1>1, <1>2, <1>3, <1>4 DEF ActorNext

\* The history h begins with f.
Starts(f, h) == Len(f) <= Len(h) /\ SubSeq(h, 1, Len(f)) = f

\* A history of the actor that none of the maximal traces went through.
Unseen(id, f) ==
    /\ id \in Id /\ f \in Seq(Event)
    /\ \A c \in maximal : ~Starts(f, c[id])

\* The step that ends the prefix gives its actor such a history.
EndsUnseen(T, st, done, rest, last) ==
    /\ Underway(T, st, done, rest, last)
    /\ \E f : Aims(T, st, done \cup rest, last, f) /\ Unseen(last.id, f)

\* The trees hold the maximal traces.
TreesHoldTheMaximal ==
    \A c \in maximal :
        /\ c \in [Id -> Seq(Event)]
        /\ \A id \in Id : c[id] = << >> \/ c[id] \in trace_tree[id]

(***************************************************************************)
(* The inductive invariant: the next trace will differ from all before it  *)
(* in the history of one actor, and does so once its prefix was replayed.  *)
(***************************************************************************)
FreshInv ==
    /\ pc # "returned" => TreesHoldTheMaximal
    /\ pc = "loop" /\ maximal # {} => next_prefix # << >>
    /\ pc \in {"loop", "trace"} /\ maximal # {} /\ next_prefix # << >> =>
           \E T, st, done, rest, last : EndsUnseen(T, st, done, rest, last)
    /\ pc = "trace" /\ maximal # {} /\ next_prefix = << >> =>
           \E id, f : Unseen(id, f) /\ Starts(f, behavior[id])

\* A tree has the beginnings of its histories.
LEMMA TreeHasBeginnings ==
    ASSUME TypedInv, TreesHoldTheTrace, NEW id \in Id, NEW h \in trace_tree[id],
           NEW f \in Seq(Event), f # << >>, Starts(f, h)
    PROVE  f \in trace_tree[id]
<1>1. h \in Seq(Event) /\ Len(h) \in Nat /\ Len(f) \in 1 .. Len(h)
  BY DEF TypedInv, TypeOK, Starts
<1>. DEFINE n == Len(h) - 1
            cut(m) == SubSeq(h, 1, Len(h) - m)
            S == {m \in 0 .. n : cut(m) \in trace_tree[id]}
<1>2. n \in Nat
  BY <1>1
<1>3. 0 \in S
  <2>1. cut(0) = h
    BY <1>1
  <2>. HIDE DEF cut
  <2>. QED  BY <1>2, <2>1
<1>4. ASSUME NEW m \in 0 .. n - 1, m \in S
      PROVE  m + 1 \in S
  <2>. DEFINE g == cut(m)
  <2>1. Len(g) = Len(h) - m /\ Len(g) > 1
    BY <1>1, <1>4
  <2>2. SubSeq(g, 1, Len(g) - 1) = cut(m + 1)
    BY <1>1, <2>1
  <2>. HIDE DEF cut
  <2>3. g \in trace_tree[id]
    BY <1>4
  <2>4. \A x \in trace_tree[id] : Len(x) > 1 => SubSeq(x, 1, Len(x) - 1) \in trace_tree[id]
    BY DEF TreesHoldTheTrace
  <2>5. cut(m + 1) \in trace_tree[id]
    BY <2>1, <2>2, <2>3, <2>4
  <2>. QED  BY <1>2, <1>4, <2>5
<1>5. Len(h) - Len(f) \in S
  <2>. HIDE DEF S
  <2>1. 0 .. n \subseteq S
    BY <1>2, <1>3, <1>4, Induction
  <2>2. Len(h) - Len(f) \in 0 .. n
    BY <1>1
  <2>. QED  BY <2>1, <2>2
<1>6. Len(h) - (Len(h) - Len(f)) = Len(f)
  BY <1>1
<1>. QED  BY <1>5, <1>6 DEF Starts

\* What the search takes for its next prefix ends with a step the tree does not have.
AimsAnew(st, S, last) ==
    /\ Plan(cfg_fn, trace_records, st, S, last)
    /\ NextPrefix = Again(trace_records, S, last)
    /\ \E f \in Seq(Event) : /\ Aims(trace_records, st, S, last, f)
                             /\ f # << >> /\ f \notin trace_tree[last.id]

\* The tree lacks the reversal that the search picks: Visited is what it asks.
LEMMA NextPrefixIsNew ==
    ASSUME SearchInv, NoneElapsed, Alternatives # {}, NEW st, Runs(cfg_fn, trace_records, st)
    PROVE  \E S, last : AimsAnew(st, S, last)
<1>. DEFINE T == trace_records
            i == LastOf(Alternatives)
            j == LastOf(Reversals(i))
            S == 1 .. j - 1 \cup Causes(i, j)
            last == Replay(T[i])
<1>1. /\ T \in Seq(TraceRecord) /\ Len(T) \in Nat /\ DOMAIN T = 1 .. Len(T)
      /\ CausalInv /\ LinkedClocks
  BY TraceIs DEF SearchInv, ActorInv, CausalInv
<1>2. i \in 1 .. Len(T) /\ (IsOpenDeadline(i) \/ Reversals(i) # {})
  <2>1. Alternatives \in SUBSET (1 .. Len(T))
    BY <1>1 DEF Alternatives
  <2>2. i \in Alternatives
    BY <1>1, <2>1, LastOfIsGreatest
  <2>. QED  BY <1>1, <2>2 DEF Alternatives
<1>. HIDE DEF i
<1>3. ~IsOpenDeadline(i)
  BY <1>1, <1>2 DEF NoneElapsed, IsOpenDeadline, DeadlineElapsedOk
<1>4. j \in Reversals(i)
  <2>1. Reversals(i) \in SUBSET (1 .. i - 1) /\ i - 1 \in Nat /\ Reversals(i) # {}
    BY <1>1, <1>2, <1>3 DEF Reversals
  <2>. QED  BY <2>1, LastOfIsGreatest
<1>5. NextPrefix = Again(T, S, last)
  BY <1>3 DEF NextPrefix, Prefix, Again, i
<1>6. /\ T[j].id = T[i].id
      /\ Append(History(T[j].id, j - 1), T[i].event) \notin trace_tree[T[j].id]
      /\ j - 1 \in 0 .. Len(T)
  <2>1. j \in 1 .. i - 1 /\ IsReversible(i, j)
    BY <1>4 DEF Reversals
  <2>. HIDE DEF j
  <2>. QED  BY <1>1, <1>2, <2>1 DEF IsReversible, Visited
<1>7. Plan(cfg_fn, T, st, S, last) /\ Cut(T, S, T[i].id, j - 1)
  BY <1>1, <1>2, <1>4, ReversalPlan
<1>8. T[i].id \in Id /\ T[i].event \in Event
  <2>1. T[i] \in TraceRecord
    BY <1>1, <1>2
  <2>. QED  BY <2>1 DEF TraceRecord
<1>. HIDE DEF j
<1>9. History(T[i].id, j - 1) = st[j - 1][T[i].id].behavior
  BY <1>6, <1>8, HistoryIsConsumed
<1>10. History(T[i].id, j - 1) \in Seq(Event)
  <2>. DEFINE local == Subsequence(T, {l \in 1 .. j - 1 : T[l].id = T[i].id})
  <2>1. local \in Seq(TraceRecord)
    BY <1>1, SubsequenceIsSeq
  <2>2. History(T[i].id, j - 1) = EventsOf(local)
    BY DEF History, EventsOf
  <2>3. \A e \in TraceRecord : e.event \in Event
    BY DEF TraceRecord
  <2>. HIDE DEF local
  <2>. QED  BY <2>1, <2>2, <2>3 DEF EventsOf
<1>. DEFINE f == Append(History(T[i].id, j - 1), T[i].event)
<1>11. f \in Seq(Event) /\ f # << >>
  <2>1. ASSUME NEW h, h \in Seq(Event), NEW e, e \in Event
        PROVE  Append(h, e) \in Seq(Event) /\ Append(h, e) # << >>
    <3>1. Len(Append(h, e)) = Len(h) + 1 /\ Len(h) \in Nat
      BY <2>1
    <3>2. Append(h, e) \in Seq(Event)
      BY <2>1
    <3>3. Len(Append(h, e)) # Len(<< >>)
      BY <3>1
    <3>. HIDE DEF f
    <3>4. Append(h, e) # << >>
      BY ONLY <3>3, Zenon
    <3>. QED  BY <3>2, <3>4
  <2>. QED  BY <1>8, <1>10, <2>1
<1>12. last.id = T[i].id /\ last.event = T[i].event
  BY DEF Replay
<1>13. Aims(T, st, S, last, f)
  <2>. HIDE DEF S, last, T
  <2>. QED  BY <1>7, <1>9, <1>12 DEF Aims
<1>. HIDE DEF S, last, T, f
<1>14. f \notin trace_tree[last.id]
  BY <1>6, <1>12 DEF f, T
<1>. QED  BY <1>5, <1>7, <1>11, <1>13, <1>14 DEF AimsAnew, T

\* The first step of a trace that replays a prefix leaves all of it.
LEMMA StartIsUnderway ==
    ASSUME SearchInv, StartTrace, NEW T, NEW st, NEW done, NEW rest, NEW last,
           Underway(T, st, done, rest, last)
    PROVE  Underway(T, st, done, rest, last)'
<1>1. pc = "loop" /\ pc' = "trace" /\ UNCHANGED <<cfg_fn, next_prefix>>
  BY DEF StartTrace, ResetActors
<1>2. NewTrace'
  BY ResetIsNewTrace DEF StartTrace, SearchInv, ActorInv, OfferInv
<1>3. done = {} /\ Runs(cfg_fn, T, st)
  BY <1>1 DEF Underway, Halfway, Plan
<1>4. Replayed(T, st, done)'
  BY <1>2, <1>3, NewTraceReplaysAgain
<1>. QED  BY <1>1, <1>4 DEF Underway

\* A prefix that is left has a step.
LEMMA SomethingIsLeft ==
    ASSUME NEW T, NEW st, NEW done, NEW rest, NEW last, Underway(T, st, done, rest, last)
    PROVE  next_prefix # << >>
<1>1. T \in Seq(TraceRecord) /\ next_prefix = Again(T, rest, last)
  BY DEF Underway, Halfway, Plan, Runs
<1>. DEFINE records == Subsequence(T, rest)
            again == [k \in DOMAIN records |-> Replay(records[k])]
<1>2. records \in Seq(TraceRecord)
  BY <1>1, SubsequenceIsSeq
<1>3. next_prefix = Append(again, last)
  BY <1>1 DEF Again
<1>. HIDE DEF records
<1>4. PICK W : last \in W /\ \A r \in TraceRecord : Replay(r) \in W
  <2>. DEFINE W == {Replay(r) : r \in TraceRecord} \cup {last}
  <2>1. last \in W /\ \A r \in TraceRecord : Replay(r) \in W
    OBVIOUS
  <2>. QED  BY <2>1
<1>5. again \in Seq(W)
  BY <1>2, <1>4
<1>. HIDE DEF again
<1>6. Append(again, last) # << >>
  BY <1>4, <1>5
<1>. QED  BY <1>3, <1>6

\* The same in the next state.
LEMMA SomethingIsStillLeft ==
    (\A T, st, done, rest, last : Underway(T, st, done, rest, last) => next_prefix # << >>)'
<1>1. \A T, st, done, rest, last : Underway(T, st, done, rest, last) => next_prefix # << >>
  BY SomethingIsLeft
<1>. QED  BY <1>1, PTL

\* The prefix makes one history of its actor.
LEMMA OneAim ==
    ASSUME NEW p, NEW T, NEW st, Runs(p, T, st), NEW S, NEW last, last.id \in Id,
           NEW f, NEW g, Aims(T, st, S, last, f), Aims(T, st, S, last, g)
    PROVE  f = g
<1>1. PICK a : Cut(T, S, last.id, a) /\ f = Append(st[a][last.id].behavior, last.event)
  BY DEF Aims
<1>2. PICK b : Cut(T, S, last.id, b) /\ g = Append(st[b][last.id].behavior, last.event)
  BY DEF Aims
<1>3. Alike(st, a, b, last.id)
  BY <1>1, <1>2, OneCut
<1>. QED  BY <1>1, <1>2, <1>3 DEF Alike


\* A history in the tree stays there.
LEMMA TreesGrow ==
    ASSUME TypedInv, ScheduledVisit
    PROVE  \A id \in Id : trace_tree[id] \subseteq trace_tree'[id]
<1>1. OfferInv /\ trace_tree \in [Id -> SUBSET Seq(Event)]
  BY DEF TypedInv, SearchInv, ActorInv, TypeOK
<1>2. PICK id \in Id, event \in Event : Visits(id, event)
  BY <1>1, VisitIs
<1>3. \/ trace_tree' = [trace_tree EXCEPT ![id] = @ \cup {Append(behavior[id], event)}]
      \/ trace_tree' = trace_tree
  BY <1>2 DEF Visits
<1>. QED  BY <1>1, <1>3

\* So the trees still hold the maximal traces.
LEMMA MaximalIsStillHeld ==
    ASSUME TypedInv, TreesHoldTheMaximal, ScheduledVisit, maximal' = maximal
    PROVE  TreesHoldTheMaximal'
<1>1. \A id \in Id : trace_tree[id] \subseteq trace_tree'[id]
  BY TreesGrow
<1>. QED  BY <1>1 DEF TreesHoldTheMaximal

\* A history begins with itself.
LEMMA StartsItself == ASSUME NEW h \in Seq(Event) PROVE Starts(h, h)
<1>1. Len(h) \in Nat /\ SubSeq(h, 1, Len(h)) = h
  OBVIOUS
<1>. QED  BY <1>1 DEF Starts

\* One event more leaves the beginning.
LEMMA StartsLonger ==
    ASSUME NEW f \in Seq(Event), NEW h \in Seq(Event), NEW e \in Event, Starts(f, h)
    PROVE  Starts(f, Append(h, e))
<1>1. Len(f) \in Nat /\ Len(h) \in Nat /\ Len(Append(h, e)) = Len(h) + 1 /\ Len(f) <= Len(h)
  BY DEF Starts
<1>2. SubSeq(Append(h, e), 1, Len(f)) = SubSeq(h, 1, Len(f))
  <2>1. /\ Append(h, e) \in Seq(Event)
        /\ \A k \in 1 .. Len(f) : Append(h, e)[k] = h[k]
    BY <1>1
  <2>. QED  BY <1>1, <2>1
<1>. QED  BY <1>1, <1>2 DEF Starts

\* A step of the prefix takes the trace nearer to the history that is new.
LEMMA FreshReplay ==
    ASSUME TypedInv, FreshInv, ReplayStep
    PROVE  FreshInv'
<1>1. /\ pc = "trace" /\ next_prefix # << >> /\ pc' \in {"trace", "returned"}
      /\ maximal' = maximal
      /\ ActorInv /\ ReplayInv /\ behavior \in [Id -> Seq(Event)]
  BY DEF ReplayStep, TypedInv, SearchInv, Return, ActorInv, OfferInv, ActorTypeOK
<1>2. CASE maximal = {}
  BY <1>1, <1>2 DEF FreshInv, TreesHoldTheMaximal
<1>3. CASE pc' = "returned"
  BY <1>3 DEF FreshInv
<1>4. CASE maximal # {} /\ pc' = "trace"
  <2>1. PICK T, st, done, rest, last : EndsUnseen(T, st, done, rest, last)
    BY <1>1, <1>4 DEF FreshInv
  <2>2. PICK f : Aims(T, st, done \cup rest, last, f) /\ Unseen(last.id, f)
    BY <2>1 DEF EndsUnseen
  <2>3. Underway(T, st, done, rest, last)
    BY <2>1 DEF EndsUnseen
  <2>4. ScheduledVisit /\ Continues(T, st, done, rest, last)
    BY <1>1, <2>3, ReplayContinues
  <2>5. TreesHoldTheMaximal'
    BY <1>1, <2>4, MaximalIsStillHeld DEF FreshInv
  <2>6. Unseen(last.id, f)'
    BY <1>1, <2>2 DEF Unseen
  <2>7. ASSUME NEW k \in rest, Underway(T, st, done \cup {k}, rest \ {k}, last)'
        PROVE  FreshInv'
    <3>1. (done \cup {k}) \cup (rest \ {k}) = done \cup rest
      OBVIOUS
    <3>2. Aims(T, st, (done \cup {k}) \cup (rest \ {k}), last, f)
      BY <2>2, <3>1
    <3>3. EndsUnseen(T, st, done \cup {k}, rest \ {k}, last)'
      BY <2>6, <2>7, <3>2 DEF EndsUnseen
    <3>4. next_prefix' # << >>
      BY <2>7, SomethingIsStillLeft
    <3>. QED  BY <1>4, <2>5, <3>3, <3>4 DEF FreshInv
  <2>8. ASSUME rest = {}, next_prefix' = << >>, NEW g, Aims(T, st, done, last, g),
               behavior' = [behavior EXCEPT ![last.id] = g]
        PROVE  FreshInv'
    <3>1. Aims(T, st, done, last, f) /\ Runs(cfg_fn, T, st) /\ last.id \in Id /\ f \in Seq(Event)
      <4>1. done \cup rest = done
        BY <2>8
      <4>. QED  BY <2>2, <2>3, <4>1 DEF Underway, Halfway, Plan, Unseen
    <3>2. f = g
      BY <2>8, <3>1, OneAim
    <3>3. behavior'[last.id] = f
      BY <1>1, <2>8, <3>1, <3>2
    <3>4. Starts(f, behavior'[last.id])
      BY <3>1, <3>3, StartsItself
    <3>5. \E id, h : Unseen(id, h)' /\ Starts(h, behavior'[id])
      BY <2>6, <3>4
    <3>6. (\E id, h : Unseen(id, h) /\ Starts(h, behavior[id]))'
      BY <3>5 DEF Starts
    <3>. QED  BY <1>4, <2>5, <2>8, <3>6 DEF FreshInv
  <2>. QED  BY <2>4, <2>7, <2>8 DEF Continues
<1>. QED  BY <1>1, <1>2, <1>3, <1>4

\* A step that is explored leaves a history that is new as it is, or extends it.
LEMMA FreshExplore ==
    ASSUME TypedInv, FreshInv, ExploreStep
    PROVE  FreshInv'
<1>1. /\ pc = "trace" /\ next_prefix = << >> /\ next_prefix' = << >>
      /\ pc' \in {"trace", "caught"} /\ maximal' = maximal
      /\ OfferInv /\ behavior \in [Id -> Seq(Event)] /\ trace_tree \in [Id -> SUBSET Seq(Event)]
  BY DEF ExploreStep, TypedInv, SearchInv, ActorInv, OfferInv, ActorTypeOK, TypeOK
<1>2. ScheduledVisit
  BY ExploreIsScheduled DEF TypedInv, SearchInv
<1>3. TreesHoldTheMaximal'
  BY <1>1, <1>2, MaximalIsStillHeld DEF FreshInv
<1>4. ASSUME maximal # {}
      PROVE  (\E id, f : Unseen(id, f) /\ Starts(f, behavior[id]))'
  <2>1. PICK id, f : Unseen(id, f) /\ Starts(f, behavior[id])
    BY <1>1, <1>4 DEF FreshInv
  <2>2. Unseen(id, f)' /\ id \in Id /\ f \in Seq(Event)
    BY <1>1, <2>1 DEF Unseen
  <2>3. PICK who \in Id, event \in Event : Visits(who, event)
    BY <1>1, <1>2, VisitIs
  <2>4. behavior'[id] = behavior[id] \/ behavior'[id] = Append(behavior[id], event)
    BY <1>1, <2>2, <2>3 DEF Visits
  <2>5. Starts(f, behavior'[id])
    BY <1>1, <2>1, <2>2, <2>4, StartsLonger
  <2>6. Starts(f, behavior[id])'
    BY <2>5 DEF Starts
  <2>. QED  BY <2>2, <2>6
<1>. QED  BY <1>1, <1>3, <1>4 DEF FreshInv


\* A history that the tree lacks is one that no trace went through that the tree holds.
LEMMA LackedIsUnseen ==
    ASSUME TypedInv, TreesHoldTheTrace, NEW id \in Id, NEW f \in Seq(Event), f # << >>,
           f \notin trace_tree[id],
           NEW h \in Seq(Event), h = << >> \/ h \in trace_tree[id]
    PROVE  ~Starts(f, h)
<1>. SUFFICES ASSUME Starts(f, h) PROVE FALSE
  OBVIOUS
<1>1. CASE h = << >>
  <2>1. Len(f) \in Nat /\ Len(h) = 0 /\ Len(f) <= Len(h)
    BY <1>1 DEF Starts
  <2>2. Len(f) = 0
    BY <2>1
  <2>. QED  BY <2>2
<1>2. CASE h \in trace_tree[id]
  BY <1>2, TreeHasBeginnings
<1>. QED  BY <1>1, <1>2

\* The next prefix ends with a history that neither this trace nor an earlier one had.
LEMMA FreshComplete ==
    ASSUME TypedInv, TreesHoldTheTrace, NoneElapsed, FreshInv, CompleteTrace
    PROVE  FreshInv'
<1>1. /\ pc = "trace" /\ panicked = "None"
      /\ UNCHANGED <<cfg_fn, trace_tree>>
      /\ maximal' = maximal \cup {behavior}
      /\ pc' = "returned" \/ (pc' = "loop" /\ next_prefix' = NextPrefix /\ Alternatives # {})
      /\ behavior \in [Id -> Seq(Event)] /\ SearchInv
  BY DEF TypedInv, SearchInv, ReplayInv, CompleteTrace, Return, actor_vars, Class, ActorInv,
         OfferInv, ActorTypeOK
<1>2. CASE pc' = "returned"
  BY <1>2 DEF FreshInv
<1>3. CASE pc' = "loop" /\ next_prefix' = NextPrefix /\ Alternatives # {}
  <2>1. \A c \in maximal' :
            /\ c \in [Id -> Seq(Event)]
            /\ \A id \in Id : c[id] = << >> \/ c[id] \in trace_tree[id]
    BY <1>1 DEF FreshInv, TreesHoldTheMaximal, TreesHoldTheTrace
  <2>2. TreesHoldTheMaximal'
    BY <1>1, <2>1 DEF TreesHoldTheMaximal
  <2>3. PICK st : Runs(cfg_fn, trace_records, st)
    BY <1>1 DEF SearchInv, ActorInv, RunInv, OnRun
  <2>4. PICK S, last : AimsAnew(st, S, last)
    BY <1>1, <1>3, <2>3, NextPrefixIsNew
  <2>5. PICK f \in Seq(Event) : /\ Aims(trace_records, st, S, last, f)
                                /\ f # << >> /\ f \notin trace_tree[last.id]
    BY <2>4 DEF AimsAnew
  <2>6. /\ Plan(cfg_fn, trace_records, st, S, last)
        /\ NextPrefix = Again(trace_records, S, last)
    BY <2>4 DEF AimsAnew
  <2>7. last.id \in Id
    BY <2>6 DEF Plan, LastIsServed
  <2>8. Unseen(last.id, f)'
    <3>1. ASSUME NEW c \in maximal'
          PROVE  ~Starts(f, c[last.id])
      <4>1. c[last.id] \in Seq(Event) /\ (c[last.id] = << >> \/ c[last.id] \in trace_tree[last.id])
        BY <2>1, <2>7
      <4>. QED  BY <2>5, <2>7, <4>1, LackedIsUnseen
    <3>. QED  BY <2>7, <3>1 DEF Unseen
  <2>9. PICK T : T = trace_records
    OBVIOUS
  <2>10. {} \cup S = S
    OBVIOUS
  <2>11. Halfway(cfg_fn, T, st, {}, S, last)
    BY <2>6, <2>9, <2>10 DEF Halfway
  <2>12. Underway(T, st, {}, S, last)'
    BY <1>1, <1>3, <2>6, <2>9, <2>11 DEF Underway
  <2>13. next_prefix' # << >>
    BY <2>12, SomethingIsStillLeft
  <2>14. Aims(T, st, {} \cup S, last, f)
    BY <2>5, <2>9, <2>10
  <2>15. EndsUnseen(T, st, {}, S, last)'
    BY <2>8, <2>12, <2>14 DEF EndsUnseen
  <2>. QED  BY <1>3, <2>2, <2>13, <2>15 DEF FreshInv
<1>. QED  BY <1>1, <1>2, <1>3

\* FreshInv is inductive.
LEMMA NextKeepsFresh ==
    ASSUME TypedInv, TreesHoldTheTrace, NoneElapsed, FreshInv, [Next]_vars
    PROVE  FreshInv'
<1>1. CASE StartTrace
  <2>1. /\ pc = "loop" /\ pc' = "trace"
        /\ UNCHANGED <<cfg_fn, next_prefix, maximal, trace_tree>>
    BY <1>1 DEF StartTrace, ResetActors
  <2>2. TreesHoldTheMaximal'
    BY <2>1 DEF FreshInv, TreesHoldTheMaximal
  <2>3. maximal # {} => next_prefix # << >>
    BY <2>1 DEF FreshInv
  <2>4. ASSUME maximal # {}
        PROVE  (\E T, st, done, rest, last : EndsUnseen(T, st, done, rest, last))'
    <3>1. PICK T, st, done, rest, last : EndsUnseen(T, st, done, rest, last)
      BY <2>1, <2>3, <2>4 DEF FreshInv
    <3>2. Underway(T, st, done, rest, last)'
      BY <1>1, <3>1, StartIsUnderway DEF EndsUnseen, TypedInv
    <3>3. PICK f : Aims(T, st, done \cup rest, last, f) /\ Unseen(last.id, f)
      BY <3>1 DEF EndsUnseen
    <3>4. Unseen(last.id, f)'
      BY <2>1, <3>3 DEF Unseen
    <3>5. EndsUnseen(T, st, done, rest, last)'
      BY <3>2, <3>3, <3>4 DEF EndsUnseen
    <3>. QED  BY <3>5
  <2>. QED  BY <2>1, <2>2, <2>3, <2>4 DEF FreshInv
<1>2. CASE ReplayStep
  BY <1>2, FreshReplay
<1>3. CASE ExploreStep
  BY <1>3, FreshExplore
<1>4. CASE CompleteTrace
  BY <1>4, FreshComplete
<1>5. CASE GiveUp \/ ReportPanic
  <2>1. pc' = "returned"
    BY <1>5 DEF GiveUp, ReportPanic, Return
  <2>. QED  BY <2>1 DEF FreshInv
<1>6. CASE UNCHANGED vars
  <2>1. UNCHANGED <<actor_vars, pc, next_prefix, cfg_fn, trace_records, trace_tree, maximal, behavior>>
    BY <1>6 DEF vars, search, actor_vars, actors
  <2>2. \A id : Local(id)' = Local(id)
    BY <2>1, UnchangedLocal
  <2>3. \A T, st, S : Replayed(T, st, S) => Replayed(T, st, S)'
    BY <2>2 DEF Replayed
  <2>4. \A T, st, done, rest, last :
           Underway(T, st, done, rest, last) => Underway(T, st, done, rest, last)'
    BY <2>1, <2>3 DEF Underway
  <2>5. \A id, f : Unseen(id, f) => Unseen(id, f)'
    BY <2>1 DEF Unseen
  <2>6. \A T, st, done, rest, last :
           EndsUnseen(T, st, done, rest, last) => EndsUnseen(T, st, done, rest, last)'
    BY <2>4, <2>5 DEF EndsUnseen
  <2>7. (\E id, f : Unseen(id, f) /\ Starts(f, behavior[id])) =>
            (\E id, f : Unseen(id, f) /\ Starts(f, behavior[id]))'
    BY <2>1, <2>5
  <2>8. TreesHoldTheMaximal => TreesHoldTheMaximal'
    BY <2>1 DEF TreesHoldTheMaximal
  <2>. QED  BY <2>1, <2>6, <2>7, <2>8 DEF FreshInv
<1>. QED  BY <1>1, <1>2, <1>3, <1>4, <1>5, <1>6 DEF Next

\* Until there is a maximal trace, none can be met again.
LEMMA InitIsFresh == Init => FreshInv
BY DEF Init, FreshInv, TreesHoldTheMaximal

\* A trace is new where FreshInv holds and its prefix was replayed.
LEMMA FreshIsNew ==
    ASSUME TypedInv, FreshInv
    PROVE  NeverExploredTwice
<1>. SUFFICES ASSUME pc = "trace", next_prefix = << >>, Class \in maximal
              PROVE  FALSE
  BY DEF NeverExploredTwice
<1>1. PICK id, f : Unseen(id, f) /\ Starts(f, behavior[id])
  BY DEF FreshInv
<1>. QED  BY <1>1 DEF Unseen, Class

\* FreshInv holds where no deadline is queried.
LEMMA FreshInvHolds == Spec /\ NeverQueried => []FreshInv
<1>1. Init /\ NeverQueried => NoneElapsed
  BY DEF Init, ActorInit, NoneElapsed
<1>2. TypedInv => SearchInv
  BY DEF TypedInv
<1>3. SearchInv /\ NoneElapsed /\ [Next]_vars => NoneElapsed'
  BY NextKeepsNoneElapsed
<1>4. TypedInv /\ TreesHoldTheTrace /\ NoneElapsed /\ FreshInv /\ [Next]_vars => FreshInv'
  BY NextKeepsFresh
<1>. QED
  BY <1>1, <1>2, <1>3, <1>4, InitIsFresh, TypedInvHolds, TreesKnowTheTrace, PTL DEF Spec

(***************************************************************************)
(* No class of equivalent traces is run to its end twice, whatever the     *)
(* behaviors are, if they query no deadlines (verifier.rs, the comment of  *)
(* pick_next_representative_prefix: the prefix is "guaranteed to be        *)
(* disjoint from the previously visited equivalence classes").             *)
(***************************************************************************)
THEOREM ClassesAreExploredOnce == Spec /\ NeverQueried => []NeverExploredTwice
<1>1. TypedInv /\ FreshInv => NeverExploredTwice
  BY FreshIsNew
<1>. QED  BY <1>1, FreshInvHolds, TypedInvHolds, PTL

(***************************************************************************)
(* The inductive invariant of the bound: a trace was started for every     *)
(* class that was run to its end, and one more while a trace is run.       *)
(***************************************************************************)
CountInv ==
    /\ IsFiniteSet(maximal)
    /\ pc = "loop" => trace_count = Cardinality(maximal)
    /\ pc = "trace" => trace_count = Cardinality(maximal) + 1
    /\ IncompleteAtTheLimit

\* CountInv is inductive.
LEMMA NextKeepsCount ==
    ASSUME TypeOK, FreshInv, NeverExploredTwice, CountInv, [Next]_vars
    PROVE  CountInv'
<1>1. /\ trace_count \in 0 .. MaxTraceCount
      /\ pc # "returned" => result = Running
      /\ Running.outcome # "Incomplete"
      /\ Cardinality(maximal) \in Nat
  BY FS_CardinalityType DEF TypeOK, CountInv, Running
<1>2. CASE GiveUp
  <2>1. /\ pc = "loop" /\ pc' = "returned" /\ trace_count >= MaxTraceCount
        /\ UNCHANGED <<maximal, next_prefix>>
    BY <1>2 DEF GiveUp, Return
  <2>2. Cardinality(maximal) = MaxTraceCount /\ MaxTraceCount # 0
    BY <1>1, <2>1, MaxTraceCountAssumption DEF CountInv
  <2>3. maximal # {}
    BY <2>2, FS_EmptySet
  <2>4. next_prefix # << >>
    BY <2>1, <2>3 DEF FreshInv
  <2>. QED  BY <2>1, <2>2, <2>4 DEF CountInv, IncompleteAtTheLimit
<1>3. CASE StartTrace
  <2>1. /\ pc = "loop" /\ pc' = "trace" /\ trace_count' = trace_count + 1
        /\ UNCHANGED <<maximal, result>>
    BY <1>3 DEF StartTrace
  <2>. QED  BY <1>1, <2>1 DEF CountInv, IncompleteAtTheLimit
<1>4. CASE ReplayStep \/ ExploreStep
  <2>1. /\ pc = "trace" /\ UNCHANGED <<maximal, trace_count>>
        /\ \/ pc' \in {"trace", "caught"} /\ result' = result
           \/ pc' = "returned" /\ result'.outcome # "Incomplete"
    BY <1>4 DEF ReplayStep, ExploreStep, Return
  <2>. QED  BY <1>1, <2>1 DEF CountInv, IncompleteAtTheLimit
<1>5. CASE ReportPanic
  <2>1. /\ pc' = "returned" /\ result'.outcome # "Incomplete"
        /\ maximal' = maximal \cup {Class}
    BY <1>5 DEF ReportPanic, Return
  <2>2. IsFiniteSet(maximal')
    BY <2>1, FS_AddElement DEF CountInv
  <2>. QED  BY <2>1, <2>2 DEF CountInv, IncompleteAtTheLimit
<1>6. CASE CompleteTrace
  <2>1. /\ pc = "trace" /\ next_prefix = << >> /\ Quiescent
        /\ trace_count' = trace_count
        /\ maximal' = maximal \cup {Class}
        /\ \/ pc' = "returned" /\ result'.outcome # "Incomplete"
           \/ pc' = "loop" /\ result' = result
    BY <1>6 DEF CompleteTrace, Return
  <2>2. Class \notin maximal
    BY <2>1 DEF NeverExploredTwice
  <2>3. IsFiniteSet(maximal') /\ Cardinality(maximal') = Cardinality(maximal) + 1
    BY <2>1, <2>2, FS_AddElement DEF CountInv
  <2>. QED  BY <1>1, <2>1, <2>3 DEF CountInv, IncompleteAtTheLimit
<1>7. CASE UNCHANGED vars
  BY <1>7 DEF vars, search, CountInv, IncompleteAtTheLimit
<1>. QED  BY <1>2, <1>3, <1>4, <1>5, <1>6, <1>7 DEF Next

(***************************************************************************)
(* Verifier::run only gives up when it spent its bound on as many classes  *)
(* of traces and has one more to explore (verifier.rs, MAX_TRACE_COUNT and *)
(* RunResult::Incomplete), if the behaviors query no deadlines.            *)
(***************************************************************************)
THEOREM TheBoundIsSpent == Spec /\ NeverQueried => []IncompleteAtTheLimit
<1>1. Init => CountInv
  BY FS_EmptySet DEF Init, CountInv, IncompleteAtTheLimit, Running
<1>2. TypeOK /\ FreshInv /\ NeverExploredTwice /\ CountInv /\ [Next]_vars => CountInv'
  BY NextKeepsCount
<1>3. CountInv => IncompleteAtTheLimit
  BY DEF CountInv
<1>. QED
  BY <1>1, <1>2, <1>3, FreshInvHolds, ClassesAreExploredOnce, SearchIsWellTyped, PTL DEF Spec


-----------------------------------------------------------------------------
(* The minimal trace of a panic                                            *)

\* At the step r its actor, in s, unwinds.
Breaks(p, s, r) ==
    /\ Unwound(s, Commanded(p, r.id, s, r.event)) # "None"
    /\ r = [id |-> r.id, event |-> r.event, event_clock |-> r.event_clock,
            command |-> Placeholder,
            clock |-> MergeIn(Increment(s.clock, r.id), r.event_clock)]

\* After the run T the step r was taken, and ended the trace.
Breaking(p, T, st, r) ==
    /\ Runs(p, T, st)
    /\ r \in TraceRecord
    /\ LocallyOffered(st[Len(T)][r.id], r)
    /\ r.event.type = "RecvOk" =>
          r.event.src \in Id /\ Arrived(st[Len(T)][r.event.src], st[Len(T)][r.id], r)
    /\ Breaks(p, st[Len(T)][r.id], r)

\* Whether a step unwinds is a matter of what its actor has become.
LEMMA UnwindingIsLocal ==
    \A id, event : Unwinding(id, CommandFor(id, event)) =
                      Unwound(Local(id), Commanded(cfg_fn, id, Local(id), event))
<1>. SUFFICES ASSUME NEW id, NEW event
              PROVE  Unwinding(id, CommandFor(id, event)) =
                        Unwound(Local(id), Commanded(cfg_fn, id, Local(id), event))
  OBVIOUS
<1>1. Local(id).behavior = behavior[id] /\ Local(id).expectation = expectation[id]
  BY DEF Local
<1>2. Commanded(cfg_fn, id, Local(id), event) = CommandFor(id, event)
  BY <1>1 DEF Commanded, CommandFor
<1>3. \A command : Unwound(Local(id), command) = Unwinding(id, command)
  BY <1>1 DEF Unwound, Unwinding
<1>. QED  BY <1>2, <1>3

\* The record of a step that unwinds.
LEMMA BreakingRecord ==
    ASSUME NEW id, NEW event, NEW event_clock, Unwinding(id, CommandFor(id, event)) # "None"
    PROVE  Breaks(cfg_fn, Local(id), NewRecord(id, event, event_clock))
<1>. DEFINE r == NewRecord(id, event, event_clock)
<1>1. r = [id |-> id, event |-> event, event_clock |-> event_clock,
           command |-> Placeholder, clock |-> Tick(id, event_clock)]
  BY DEF NewRecord
<1>2. r.id = id /\ r.event = event /\ r.event_clock = event_clock
  BY <1>1
<1>3. Unwound(Local(id), Commanded(cfg_fn, id, Local(id), event)) # "None"
  BY UnwindingIsLocal
<1>4. Tick(id, event_clock) = MergeIn(Increment(Local(id).clock, id), event_clock)
  BY DEF Tick, Local
<1>. HIDE DEF r
<1>. QED  BY <1>1, <1>2, <1>3, <1>4 DEF Breaks, r

\* A trace that unwinds was a run up to its last step.
Caught(T, st, r) ==
    /\ Breaking(cfg_fn, T, st, r)
    /\ trace_records = Append(T, r)

\* A scheduled step that unwinds is the last of its trace.
LEMMA StepBreaks ==
    ASSUME OfferInv, Conserved, panicked = "None", NEW st, OnRun(st),
           NEW id \in Id, NEW pending \in EnabledEvents(id),
           Step(id, pending.event, pending.event_clock), panicked' # "None"
    PROVE  \E T, s, r : Caught(T, s, r)'
<1>. DEFINE r == NewRecord(id, pending.event, pending.event_clock)
            n == Len(trace_records)
<1>1. ActorTypeOK /\ n \in 0 .. n
  BY TraceIs DEF OfferInv
<1>2. /\ r \in TraceRecord /\ r.id = id
      /\ r.event = pending.event /\ r.event_clock = pending.event_clock
      /\ trace_records' = Append(trace_records, r)
  BY ScheduledStep
<1>3. /\ panicked' = Unwinding(id, CommandFor(id, pending.event))
      /\ cfg_fn' = cfg_fn
  <2>1. Refusal(id, pending.event, pending.event_clock) = "None"
    BY OffersAreAccepted
  <2>. QED  BY <2>1 DEF Step, Advance, Deliver
<1>4. Breaks(cfg_fn, Local(id), r)
  BY <1>3, BreakingRecord
<1>5. Runs(cfg_fn, trace_records, st) /\ \A a \in Id : Local(a) = st[n][a]
  BY DEF OnRun
<1>6. \A a \in Id : IsLocal(Local(a))
  BY <1>1, <1>5 DEF Runs
<1>7. /\ LocallyOffered(Local(id), r)
      /\ r.event.type = "RecvOk" =>
            r.event.src \in Id /\ Arrived(Local(r.event.src), Local(id), r)
  BY <1>2, <1>6, OfferedLocally
<1>. HIDE DEF r
<1>8. Breaking(cfg_fn, trace_records, st, r)
  BY <1>2, <1>4, <1>5, <1>7 DEF Breaking
<1>9. PICK T, last : T = trace_records /\ last = r
  OBVIOUS
<1>10. Breaking(cfg_fn', T, st, last) /\ trace_records' = Append(T, last)
  BY <1>2, <1>3, <1>8, <1>9
<1>11. Caught(T, st, last)'
  BY <1>10 DEF Caught
<1>. QED  BY <1>11

(***************************************************************************)
(* The steps that the last one depends on can be taken without the others, *)
(* and the last one after them.                                            *)
(***************************************************************************)
LEMMA MinimalPlan ==
    ASSUME CausalInv, LinkedClocks, NEW p, NEW T, NEW st, NEW r, Breaking(p, T, st, r),
           trace_records = Append(T, r),
           NEW S, S = {k \in 1 .. Len(T) : Leq(T[k].clock, r.clock)}
    PROVE  Plan(p, T, st, S, r) /\ Cut(T, S, r.id, Len(T))
<1>. DEFINE n == Len(T)
            id == r.id
            src == r.event.src
<1>1. Runs(p, T, st) /\ T \in Seq(TraceRecord) /\ n \in Nat /\ r \in TraceRecord
  BY RunIs DEF Breaking, Runs
<1>2. /\ Len(trace_records) = n + 1 /\ trace_records[n + 1] = r
      /\ \A k \in 1 .. n : trace_records[k] = T[k]
  BY <1>1
<1>3. \A k \in 1 .. n + 1 :
        /\ trace_records[k].clock \in Clock /\ trace_records[k].event_clock \in Clock
        /\ Leq(trace_records[k].event_clock, trace_records[k].clock)
        /\ \A m \in 1 .. k - 1 : trace_records[m].id = trace_records[k].id =>
                                    Leq(trace_records[m].clock, trace_records[k].clock)
  BY <1>2, ClocksFollow
<1>4. /\ r.clock \in Clock /\ Leq(r.event_clock, r.clock)
      /\ \A m \in 1 .. n : T[m].id = id => Leq(T[m].clock, r.clock)
  <2>1. n + 1 \in 1 .. n + 1 /\ (n + 1) - 1 = n
    BY <1>1
  <2>. QED  BY <1>2, <1>3, <2>1
<1>5. \A k \in 1 .. n :
        /\ T[k].clock \in Clock /\ T[k].event_clock \in Clock
        /\ Leq(T[k].event_clock, T[k].clock)
        /\ \A m \in 1 .. k - 1 : T[m].id = T[k].id => Leq(T[m].clock, T[k].clock)
  <2>1. \A k \in 1 .. n : k \in 1 .. n + 1 /\ \A m \in 1 .. k - 1 : m \in 1 .. n
    BY <1>1
  <2>. QED  BY <1>2, <1>3, <2>1
<1>6. Kept(T, st, S)
  <2>1. ASSUME NEW k \in S
        PROVE  /\ k \in 1 .. Len(T)
               /\ \A m \in 1 .. k - 1 : T[m].id = T[k].id => m \in S
               /\ Served(T, st, S \cap 1 .. k - 1, st[k - 1][T[k].id], T[k])
    <3>1. k \in 1 .. n /\ Leq(T[k].clock, r.clock)
      OBVIOUS
    <3>2. ASSUME NEW m \in 1 .. k - 1, T[m].id = T[k].id \/ T[m].clock = T[k].event_clock
          PROVE  m \in S
      <4>1. m \in 1 .. n
        BY <1>1, <3>1
      <4>2. Leq(T[m].clock, T[k].clock)
        BY <1>5, <3>1, <3>2
      <4>3. Leq(T[m].clock, r.clock)
        BY <1>4, <1>5, <3>1, <4>1, <4>2, LeqIsTransitive
      <4>. QED  BY <4>1, <4>3
    <3>3. \A m \in 1 .. k - 1 :
            T[k].event.type = "RecvOk" /\ T[m].clock = T[k].event_clock => m \in S \cap 1 .. k - 1
      BY <3>2
    <3>4. Served(T, st, S \cap 1 .. k - 1, st[k - 1][T[k].id], T[k])
      BY <1>1, <3>1, <3>3, StepIsServed
    <3>. QED  BY <3>1, <3>2, <3>4
  <2>. QED  BY <2>1 DEF Kept
<1>7. Cut(T, S, id, n)
  BY <1>1, <1>4 DEF Cut
<1>8. r.event.type = "RecvOk" => src \in Id /\ Supplied(T, st, S, st[n][id], r)
  <2>. SUFFICES ASSUME r.event.type = "RecvOk"
                PROVE  src \in Id /\ Supplied(T, st, S, st[n][id], r)
    OBVIOUS
  <2>1. src \in Id /\ Arrived(st[n][src], st[n][id], r) /\ id \in Id
    BY <1>1 DEF Breaking, TraceRecord
  <2>. DEFINE nth == Len(st[n][id].received[src]) + 1
  <2>2. /\ nth \in DOMAIN st[n][src].sent[id]
        /\ st[n][src].sent[id][nth] = [msg |-> r.event.msg, clock |-> r.event_clock]
    BY <2>1 DEF Arrived
  <2>. HIDE DEF nth
  <2>3. n \in 0 .. Len(T)
    BY <1>1
  <2>. HIDE DEF n, id, src
  <2>4. PICK m \in 1 .. n : SentAt(T, st, src, id, nth, n, m)
    BY <1>1, <2>1, <2>2, <2>3, SentByAStep
  <2>5. Arrived(st[m][src], st[n][id], r)
    BY <2>2, <2>4 DEF Arrived, nth, src, id, SentAt
  <2>6. T[m].clock = r.event_clock /\ T[m].id = src
    BY <2>2, <2>4 DEF SentAt
  <2>7. m \in S
    BY <1>4, <2>6 DEF n
  <2>. QED  BY <2>1, <2>5, <2>6, <2>7 DEF Supplied, n, src, id
<1>9. LastIsServed(T, st, S, r)
  <2>1. r.id \in Id /\ r.event \in Event
    BY <1>1 DEF TraceRecord
  <2>2. Served(T, st, S, st[n][id], r)
    BY <1>8 DEF Served, Breaking
  <2>. QED  BY <1>7, <2>1, <2>2 DEF LastIsServed
<1>. QED  BY <1>1, <1>6, <1>7, <1>9 DEF Plan


\* What was reported is left of the minimal trace after its first n steps.
Left(trace, n, steps) ==
    /\ n \in Nat /\ Len(trace) = n + Len(steps)
    /\ \A k \in 1 .. Len(steps) : trace[n + k] = steps[k]

\* Steps of T to be taken, and one that unwinds.
Ending(T, rest, r) == Append(Subsequence(T, rest), r)

(***************************************************************************)
(* Some steps of the run T were done, the others are left, and r unwinds   *)
(* its actor after all of them.                                            *)
(***************************************************************************)
Breakdown(T, st, done, rest, r) ==
    /\ T \in Seq(TraceRecord) /\ r \in TraceRecord
    /\ Halfway(cfg_fn, T, st, done, rest, r)
    /\ \E l : Cut(T, done \cup rest, r.id, l) /\ Breaks(cfg_fn, st[l][r.id], r)

\* The minimal trace that run reports can be taken by itself, and unwinds in the end.
Reproducible(trace) ==
    \E T, st, S, r : Breakdown(T, st, {}, S, r) /\ trace = Ending(T, S, r)

\* The filter of the trace leaves what the panic depends on.
LEMMA MinimalTraceIs ==
    ASSUME NEW T, T \in Seq(TraceRecord), NEW r, r \in TraceRecord, trace_records = Append(T, r),
           Leq(r.clock, r.clock)
    PROVE  \E S : /\ S = {k \in 1 .. Len(T) : Leq(T[k].clock, r.clock)}
                  /\ MinimalTrace = Ending(T, S, r)
<1>. DEFINE n == Len(T)
            S == {k \in 1 .. n : Leq(T[k].clock, r.clock)}
            I == {k \in DOMAIN trace_records :
                     Leq(trace_records[k].clock, trace_records[Len(trace_records)].clock)}
<1>1. /\ n \in Nat /\ Len(trace_records) = n + 1 /\ trace_records[n + 1] = r
      /\ DOMAIN trace_records = 1 .. n + 1
      /\ \A k \in 1 .. n : trace_records[k] = T[k]
  OBVIOUS
<1>2. MinimalTrace = Subsequence(trace_records, I)
  BY DEF MinimalTrace
<1>3. n + 1 \in I
  BY <1>1
<1>4. \A k \in 1 .. n : k \in I <=> k \in S
  BY <1>1
<1>. HIDE DEF I, S
<1>5. Subsequence(Append(T, r), I) = Append(Subsequence(T, I), r)
  BY <1>3, SubsequenceOfAppend
<1>6. Subsequence(T, I) = Subsequence(T, S)
  BY <1>4, SubsequenceAgrees
<1>7. MinimalTrace = Ending(T, S, r)
  BY <1>2, <1>5, <1>6 DEF Ending
<1>. QED  BY <1>7 DEF S

\* So what is reported can be reproduced.
LEMMA ReportIsReproducible ==
    ASSUME ActorInv, NEW T, NEW st, NEW r, Caught(T, st, r)
    PROVE  Reproducible(MinimalTrace)
<1>1. /\ Breaking(cfg_fn, T, st, r) /\ trace_records = Append(T, r)
      /\ T \in Seq(TraceRecord) /\ r \in TraceRecord /\ Runs(cfg_fn, T, st)
      /\ CausalInv /\ LinkedClocks
  BY DEF Caught, Breaking, Runs, ActorInv
<1>2. Leq(r.clock, r.clock)
  <2>1. r.clock \in Clock
    BY <1>1 DEF TraceRecord
  <2>. QED  BY <2>1, LeqIsReflexive
<1>3. PICK S : /\ S = {k \in 1 .. Len(T) : Leq(T[k].clock, r.clock)}
               /\ MinimalTrace = Ending(T, S, r)
  BY <1>1, <1>2, MinimalTraceIs
<1>4. Plan(cfg_fn, T, st, S, r) /\ Cut(T, S, r.id, Len(T))
  BY <1>1, <1>3, MinimalPlan
<1>5. {} \cup S = S
  OBVIOUS
<1>6. Breaks(cfg_fn, st[Len(T)][r.id], r)
  BY <1>1 DEF Breaking
<1>7. Breakdown(T, st, {}, S, r)
  BY <1>1, <1>4, <1>5, <1>6 DEF Breakdown, Halfway
<1>. QED  BY <1>3, <1>7 DEF Reproducible


\* Of the steps that are left the first is that of the first place ...
LEMMA FirstLeft ==
    ASSUME NEW trace, NEW n, NEW T \in Seq(TraceRecord), NEW rest, NEW r \in TraceRecord,
           Left(trace, n, Ending(T, rest, r)),
           NEW k \in 1 .. Len(T), k \in rest, \A l \in 1 .. k - 1 : l \notin rest
    PROVE  trace[n + 1] = T[k] /\ Left(trace, n + 1, Ending(T, rest \ {k}, r))
<1>. DEFINE e == T[k]
            u == Subsequence(T, rest)
            v == Subsequence(T, rest \ {k})
<1>1. u = << e >> \o v /\ v \in Seq(TraceRecord) /\ e \in TraceRecord
  <2>1. Begins(u, << e >>, v)
    BY SubsequenceStarts
  <2>. QED  BY <2>1, SubsequenceIsSeq DEF Begins
<1>2. Ending(T, rest, r) = Append(u, r) /\ Ending(T, rest \ {k}, r) = Append(v, r)
  BY DEF Ending
<1>. HIDE DEF e, u, v
<1>. DEFINE w == Append(u, r)
            x == Append(v, r)
<1>3. /\ Len(x) \in Nat /\ Len(w) = Len(x) + 1 /\ w[1] = e
      /\ \A l \in 1 .. Len(x) : w[l + 1] = x[l]
  BY <1>1
<1>. HIDE DEF w, x
<1>4. n \in Nat /\ Len(trace) = n + Len(w) /\ \A l \in 1 .. Len(w) : trace[n + l] = w[l]
  BY <1>2 DEF Left, w
<1>5. trace[n + 1] = e
  BY <1>3, <1>4
<1>6. Len(trace) = (n + 1) + Len(x)
  BY <1>3, <1>4
<1>7. ASSUME NEW l \in 1 .. Len(x)
      PROVE  trace[(n + 1) + l] = x[l]
  <2>1. l + 1 \in 1 .. Len(w) /\ (n + 1) + l = n + (l + 1)
    BY <1>3, <1>4
  <2>. QED  BY <1>3, <1>4, <2>1
<1>8. Left(trace, n + 1, x)
  BY <1>4, <1>6, <1>7 DEF Left
<1>. QED  BY <1>2, <1>5, <1>8 DEF e, x

\* ... and when no place is left, the one that unwinds.
LEMMA LastLeft ==
    ASSUME NEW trace, NEW n, NEW T \in Seq(TraceRecord), NEW rest, NEW r,
           Left(trace, n, Ending(T, rest, r)), \A l \in 1 .. Len(T) : l \notin rest
    PROVE  trace[n + 1] = r /\ Len(trace) = n + 1
<1>1. Subsequence(T, rest) = << >>
  BY SubsequenceOfNone
<1>2. Ending(T, rest, r) = Append(<< >>, r)
  BY <1>1 DEF Ending
<1>3. Len(Append(<< >>, r)) = 1 /\ Append(<< >>, r)[1] = r
  OBVIOUS
<1>. QED  BY <1>2, <1>3 DEF Left

\* There is always a step left before it.
LEMMA SomeStepIsLeft ==
    ASSUME NEW trace, NEW n, NEW T \in Seq(TraceRecord), NEW rest, NEW r \in TraceRecord,
           Left(trace, n, Ending(T, rest, r))
    PROVE  n # Len(trace)
<1>1. Subsequence(T, rest) \in Seq(TraceRecord)
  BY SubsequenceIsSeq
<1>. DEFINE u == Subsequence(T, rest)
<1>. HIDE DEF u
<1>2. Len(Append(u, r)) = Len(u) + 1 /\ Len(u) \in Nat
  BY <1>1 DEF u
<1>3. Ending(T, rest, r) = Append(u, r)
  BY DEF Ending, u
<1>. QED  BY <1>2, <1>3 DEF Left

\* The audit has taken some of the steps of the minimal trace.
Reproducing(T, st, done, rest, r) ==
    /\ Breakdown(T, st, done, rest, r)
    /\ Left(result.minimal_trace, replayed, Ending(T, rest, r))
    /\ Replayed(T, st, done)

\* The audit took the minimal trace to its end, where it unwound.
Reproduced ==
    LET length == Len(result.minimal_trace)
    IN  /\ replayed = length
        /\ panicked \notin RefusalReason
        /\ trace_records[length] = result.minimal_trace[length]

(***************************************************************************)
(* The inductive invariant of the audit of a Panic.  After Complete the    *)
(* audit files its records by actor, and nothing is claimed here.          *)
(***************************************************************************)
AuditInv ==
    /\ audit \in {"off", "Complete", "Panic"}
    /\ audit = "off" =>
          /\ SearchInv /\ replayed = 0
          /\ pc = "caught" => \E T, st, r : Caught(T, st, r)
          /\ pc = "returned" /\ result.outcome = "Panic" => Reproducible(result.minimal_trace)
    /\ audit = "Panic" =>
          /\ ActorInv
          /\ replayed = Len(trace_records)
          /\ panicked = "None" => \E T, st, done, rest, r : Reproducing(T, st, done, rest, r)
          /\ panicked # "None" => Reproduced

\* The search catches a trace that unwinds in its last step, and reports it.
LEMMA SearchKeepsAudit ==
    ASSUME AuditInv, Search
    PROVE  AuditInv'
<1>1. /\ audit = "off" /\ audit' = "off" /\ replayed' = 0 /\ Next /\ SearchInv
      /\ ActorInv /\ OfferInv /\ Conserved /\ RunInv
  BY DEF Search, AuditInv, SearchInv, ActorInv
<1>2. SearchInv'
  BY <1>1, NextKeepsSearchInv
<1>3. ASSUME pc' = "caught"
      PROVE  (\E T, st, r : Caught(T, st, r))'
  <2>1. ExploreStep /\ panicked' # "None"
    BY <1>1, <1>3 DEF Next, GiveUp, StartTrace, ReplayStep, ExploreStep, ReportPanic,
                      CompleteTrace, Return
  <2>2. PICK id \in Id : /\ panicked = "None"
                         /\ \E pending \in EnabledEvents(id) :
                                Visiting(id, pending.event, pending.event_clock)
    BY <1>1, <2>1, ExploreIsScheduled DEF SearchInv, ScheduledVisit
  <2>3. PICK pending \in EnabledEvents(id) : Step(id, pending.event, pending.event_clock)
    BY <2>2 DEF Visiting
  <2>4. PICK st : OnRun(st)
    BY <1>1, <2>2 DEF RunInv
  <2>. QED  BY <1>1, <2>1, <2>2, <2>3, <2>4, StepBreaks
<1>4. ASSUME pc' = "returned", result'.outcome = "Panic"
      PROVE  Reproducible(result.minimal_trace)'
  <2>1. ReportPanic
    BY <1>1, <1>4 DEF Next, GiveUp, StartTrace, ReplayStep, ExploreStep, ReportPanic,
                      CompleteTrace, Return
  <2>2. /\ pc = "caught" /\ cfg_fn' = cfg_fn
        /\ result' = [outcome |-> "Panic", minimal_trace |-> MinimalTrace]
    BY <2>1 DEF ReportPanic, Return, actor_vars
  <2>3. PICK T, st, r : Caught(T, st, r)
    BY <1>1, <2>2 DEF AuditInv
  <2>4. Reproducible(MinimalTrace)
    BY <1>1, <2>3, ReportIsReproducible
  <2>5. PICK trace : trace = MinimalTrace
    OBVIOUS
  <2>6. result'.minimal_trace = trace
    BY <2>2, <2>5
  <2>. QED  BY <2>2, <2>4, <2>5, <2>6 DEF Reproducible, Breakdown
<1>. QED  BY <1>1, <1>2, <1>3, <1>4 DEF AuditInv

\* The audit begins with new actors.
LEMMA BeginKeepsAudit ==
    ASSUME AuditInv, BeginAudit
    PROVE  AuditInv'
<1>1. /\ audit = "off" /\ pc = "returned" /\ audit' = result.outcome
      /\ result.outcome \in {"Complete", "Panic"}
      /\ ResetActors /\ UNCHANGED <<search, replayed>> /\ replayed = 0 /\ ActorInv
  BY DEF BeginAudit, AuditInv, SearchInv
<1>2. CASE result.outcome = "Complete"
  BY <1>1, <1>2 DEF AuditInv
<1>3. CASE result.outcome = "Panic"
  <2>1. ActorInv'
    BY <1>1, NextKeepsActorInv DEF ActorNext
  <2>2. NewTrace'
    BY <1>1, ResetIsNewTrace DEF ActorInv, OfferInv
  <2>3. PICK T, st, S, r : Breakdown(T, st, {}, S, r) /\ result.minimal_trace = Ending(T, S, r)
    BY <1>1, <1>3 DEF AuditInv, Reproducible
  <2>4. UNCHANGED <<cfg_fn, result>> /\ panicked' = "None" /\ trace_records' = << >>
    BY <1>1 DEF ResetActors, search
  <2>5. Runs(cfg_fn, T, st) /\ T \in Seq(TraceRecord) /\ r \in TraceRecord
    BY <2>3 DEF Breakdown, Halfway, Plan
  <2>6. Replayed(T, st, {})'
    BY <2>2, <2>4, <2>5, NewTraceReplaysAgain
  <2>7. Left(result.minimal_trace, 0, Ending(T, S, r))
    <3>1. Subsequence(T, S) \in Seq(TraceRecord)
      BY <2>5, SubsequenceIsSeq
    <3>2. Ending(T, S, r) \in Seq(TraceRecord)
      BY <2>5, <3>1 DEF Ending
    <3>. QED  BY <2>3, <3>2 DEF Left
  <2>8. Breakdown(T, st, {}, S, r)'
    BY <2>3, <2>4 DEF Breakdown
  <2>9. Left(result.minimal_trace, replayed, Ending(T, S, r))'
    BY <1>1, <2>4, <2>7
  <2>10. Reproducing(T, st, {}, S, r)'
    BY <2>6, <2>8, <2>9 DEF Reproducing
  <2>11. replayed' = Len(trace_records')
    BY <1>1, <2>4
  <2>. QED  BY <1>1, <1>3, <2>1, <2>4, <2>10, <2>11 DEF AuditInv
<1>. QED  BY <1>1, <1>2, <1>3


\* A step that is offered is one of a schedule, and adds its record to the trace.
LEMMA OfferedStep ==
    ASSUME ActorInv, panicked = "None", NEW id \in Id, NEW event, NEW event_clock,
           Pending(event, event_clock) \in EnabledEvents(id), Step(id, event, event_clock)
    PROVE  /\ Schedule
           /\ panicked' \notin RefusalReason
           /\ panicked' = Unwinding(id, CommandFor(id, event))
           /\ trace_records' = Append(trace_records, NewRecord(id, event, event_clock))
<1>1. PICK pending : pending = Pending(event, event_clock)
  OBVIOUS
<1>2. pending.event = event /\ pending.event_clock = event_clock /\ pending \in EnabledEvents(id)
  BY <1>1 DEF Pending
<1>3. Step(id, pending.event, pending.event_clock)
  BY <1>2
<1>4. Schedule
  BY <1>2, <1>3 DEF Schedule
<1>5. Refusal(id, event, event_clock) = "None"
  BY <1>2, OffersAreAccepted DEF ActorInv
<1>6. /\ panicked' = Unwinding(id, CommandFor(id, event))
      /\ trace_records' = Append(trace_records, NewRecord(id, event, event_clock))
  BY <1>5 DEF Step, Advance, Deliver
<1>. QED  BY <1>4, <1>6, ScheduledIsAccepted DEF ActorInv

\* The minimal trace is taken step by step.
LEMMA MinimalStepKeepsAudit ==
    ASSUME AuditInv, AuditMinimalTrace
    PROVE  AuditInv'
<1>. DEFINE m == result.minimal_trace
            n == replayed + 1
<1>1. /\ audit = "Panic" /\ audit' = "Panic" /\ panicked = "None"
      /\ replayed' = n /\ UNCHANGED search /\ result' = result
      /\ ActorInv /\ replayed = Len(trace_records)
  BY DEF AuditMinimalTrace, AuditInv, search
<1>2. PICK step : step = m[n] /\ Step(step.id, step.event, step.event_clock)
  BY DEF AuditMinimalTrace
<1>3. PICK T, st, done, rest, r : Reproducing(T, st, done, rest, r)
  BY <1>1 DEF AuditInv
<1>4. /\ Breakdown(T, st, done, rest, r) /\ Left(m, replayed, Ending(T, rest, r))
      /\ Replayed(T, st, done) /\ Halfway(cfg_fn, T, st, done, rest, r)
      /\ T \in Seq(TraceRecord) /\ r \in TraceRecord /\ Runs(cfg_fn, T, st)
      /\ LastIsServed(T, st, done \cup rest, r)
  BY <1>3 DEF Reproducing, Breakdown, Halfway, Plan
<1>5. OfferInv /\ Conserved /\ ActorTypeOK /\ cfg_fn' = cfg_fn
  BY <1>1, <1>2 DEF ActorInv, OfferInv, Step, Advance
<1>6. ASSUME NEW record, Schedule, trace_records' = Append(trace_records, record)
      PROVE  ActorInv' /\ replayed' = Len(trace_records') /\ trace_records'[n] = record
  <2>1. ActorInv'
    BY <1>1, <1>6, NextKeepsActorInv DEF ActorNext
  <2>2. trace_records' \in Seq(TraceRecord) /\ trace_records \in Seq(TraceRecord)
    BY <1>5, <2>1 DEF ActorInv, OfferInv, ActorTypeOK
  <2>3. Len(Append(trace_records, record)) = Len(trace_records) + 1
        /\ Append(trace_records, record)[Len(trace_records) + 1] = record
    BY <2>2
  <2>. QED  BY <1>1, <1>6, <2>1, <2>3
<1>7. CASE rest # {}
  <2>1. PICK k \in rest : Follows(cfg_fn, T, st, done, rest, r, k)
    BY <1>4, <1>7, NextAgain
  <2>2. /\ k \in 1 .. Len(T) /\ \A l \in 1 .. k - 1 : l \notin rest
        /\ Cut(T, done, T[k].id, k - 1) /\ Served(T, st, done, st[k - 1][T[k].id], T[k])
        /\ Halfway(cfg_fn, T, st, done \cup {k}, rest \ {k}, r)
    BY <2>1 DEF Follows
  <2>3. step = T[k] /\ Left(m, n, Ending(T, rest \ {k}, r))
    <3>. HIDE DEF m
    <3>1. T \in Seq(TraceRecord) /\ r \in TraceRecord /\ Left(m, replayed, Ending(T, rest, r))
      BY <1>4
    <3>2. k \in 1 .. Len(T) /\ k \in rest /\ \A l \in 1 .. k - 1 : l \notin rest
      BY <2>2
    <3>3. m[replayed + 1] = T[k] /\ Left(m, replayed + 1, Ending(T, rest \ {k}, r))
      BY <3>1, <3>2, FirstLeft
    <3>. QED  BY <1>2, <3>3
  <2>4. Step(T[k].id, T[k].event, T[k].event_clock) /\ T[k].id \in Id
    BY <1>2, <1>4, <2>2, <2>3, RunIs
  <2>5. /\ panicked' = "None"
        /\ Pending(T[k].event, T[k].event_clock) \in EnabledEvents(T[k].id)
        /\ Replayed(T, st, done \cup {k})'
    BY <1>1, <1>4, <1>5, <2>2, <2>4, StepAgain
  <2>6. PICK record : Schedule /\ trace_records' = Append(trace_records, record)
    BY <1>1, <2>4, <2>5, OfferedStep
  <2>7. ActorInv' /\ replayed' = Len(trace_records')
    BY <1>6, <2>6
  <2>8. (done \cup {k}) \cup (rest \ {k}) = done \cup rest
    OBVIOUS
  <2>9. Breakdown(T, st, done \cup {k}, rest \ {k}, r)'
    BY <1>4, <1>5, <2>2, <2>8 DEF Breakdown
  <2>10. Left(result.minimal_trace, replayed, Ending(T, rest \ {k}, r))'
    BY <1>1, <2>3
  <2>11. Reproducing(T, st, done \cup {k}, rest \ {k}, r)'
    BY <2>5, <2>9, <2>10 DEF Reproducing
  <2>. QED  BY <1>1, <2>5, <2>7, <2>11 DEF AuditInv
<1>8. CASE rest = {}
  <2>1. done \cup rest = done /\ \A l \in 1 .. Len(T) : l \notin rest
    BY <1>8
  <2>2. step = r /\ m[n] = r /\ Len(m) = n
    <3>. HIDE DEF m
    <3>1. T \in Seq(TraceRecord) /\ Left(m, replayed, Ending(T, rest, r))
      BY <1>4
    <3>2. m[replayed + 1] = r /\ Len(m) = replayed + 1
      BY <2>1, <3>1, LastLeft
    <3>. QED  BY <1>2, <3>2
  <2>3. PICK l : Cut(T, done, r.id, l) /\ Breaks(cfg_fn, st[l][r.id], r)
    BY <1>4, <2>1 DEF Breakdown
  <2>4. PICK a : /\ r.id \in Id /\ r.event \in Event
                 /\ Cut(T, done, r.id, a) /\ Served(T, st, done, st[a][r.id], r)
    BY <1>4, <2>1 DEF LastIsServed
  <2>5. /\ Local(r.id) = st[a][r.id]
        /\ Pending(r.event, r.event_clock) \in EnabledEvents(r.id)
    BY <1>4, <1>5, <2>4, Ready
  <2>6. Alike(st, a, l, r.id)
    BY <1>4, <2>3, <2>4, OneCut
  <2>7. Breaks(cfg_fn, Local(r.id), r)
    BY <2>3, <2>5, <2>6 DEF Alike
  <2>8. /\ Schedule /\ panicked' \notin RefusalReason
        /\ panicked' = Unwinding(r.id, CommandFor(r.id, r.event))
        /\ trace_records' = Append(trace_records, NewRecord(r.id, r.event, r.event_clock))
    BY <1>1, <1>2, <2>2, <2>4, <2>5, OfferedStep
  <2>9. Unwinding(r.id, CommandFor(r.id, r.event)) # "None"
    BY <2>7, UnwindingIsLocal DEF Breaks
  <2>10. NewRecord(r.id, r.event, r.event_clock) = r
    <3>1. Tick(r.id, r.event_clock) = MergeIn(Increment(Local(r.id).clock, r.id), r.event_clock)
      BY DEF Tick, Local
    <3>2. NewRecord(r.id, r.event, r.event_clock) =
              [id |-> r.id, event |-> r.event, event_clock |-> r.event_clock,
               command |-> Placeholder, clock |-> Tick(r.id, r.event_clock)]
      BY <2>9 DEF NewRecord
    <3>. QED  BY <2>7, <3>1, <3>2 DEF Breaks
  <2>11. ActorInv' /\ replayed' = Len(trace_records') /\ trace_records'[n] = r
    BY <1>6, <2>8, <2>10
  <2>12. Reproduced'
    BY <1>1, <2>2, <2>8, <2>11 DEF Reproduced
  <2>. QED  BY <1>1, <2>8, <2>9, <2>11, <2>12 DEF AuditInv
<1>. QED  BY <1>7, <1>8

\* AuditInv is inductive.
LEMMA NextKeepsAudit ==
    ASSUME AuditInv, [AuditNext]_audit_vars
    PROVE  AuditInv'
<1>1. CASE Search
  BY <1>1, SearchKeepsAudit
<1>2. CASE BeginAudit
  BY <1>2, BeginKeepsAudit
<1>3. CASE AuditSchedule
  BY <1>3 DEF AuditSchedule, AuditInv
<1>4. CASE AuditMinimalTrace
  BY <1>4, MinimalStepKeepsAudit
<1>5. CASE UNCHANGED audit_vars
  <2>1. /\ UNCHANGED <<vars, actor_vars, audit, replayed, pc, result, cfg_fn, panicked, trace_records>>
    BY <1>5 DEF audit_vars, vars, search, actor_vars
  <2>2. SearchInv => SearchInv'
    BY <2>1, NextKeepsSearchInv
  <2>3. ActorInv => ActorInv'
    BY <2>1, NextKeepsActorInv
  <2>4. \A id : Local(id)' = Local(id)
    BY <2>1, UnchangedLocal
  <2>5. \A T, st, S : Replayed(T, st, S) => Replayed(T, st, S)'
    BY <2>4 DEF Replayed
  <2>6. \A T, st, r : Caught(T, st, r) => Caught(T, st, r)'
    BY <2>1 DEF Caught
  <2>7. \A T, st, done, rest, r : Breakdown(T, st, done, rest, r) => Breakdown(T, st, done, rest, r)'
    BY <2>1 DEF Breakdown
  <2>8. Reproducible(result.minimal_trace) => Reproducible(result.minimal_trace)'
    BY <2>1, <2>7 DEF Reproducible
  <2>9. \A T, st, done, rest, r : Reproducing(T, st, done, rest, r) => Reproducing(T, st, done, rest, r)'
    BY <2>1, <2>5, <2>7 DEF Reproducing
  <2>10. Reproduced => Reproduced'
    BY <2>1 DEF Reproduced
  <2>. QED  BY <2>1, <2>2, <2>3, <2>6, <2>8, <2>9, <2>10 DEF AuditInv
<1>. QED  BY <1>1, <1>2, <1>3, <1>4, <1>5 DEF AuditNext

\* It says that the minimal trace reproduces the panic.
LEMMA AuditReproduces ==
    ASSUME AuditInv
    PROVE  MinimalTraceReproduces
<1>. SUFFICES ASSUME audit = "Panic" PROVE MinimalTraceReproduces
  BY DEF MinimalTraceReproduces
<1>1. CASE panicked = "None"
  <2>1. PICK T, st, done, rest, r : Reproducing(T, st, done, rest, r)
    BY <1>1 DEF AuditInv
  <2>2. replayed # Len(result.minimal_trace)
    BY <2>1, SomeStepIsLeft DEF Reproducing, Breakdown
  <2>3. panicked \notin RefusalReason
    BY <1>1 DEF RefusalReason
  <2>. QED  BY <1>1, <2>2, <2>3 DEF MinimalTraceReproduces
<1>2. CASE panicked # "None"
  BY <1>2 DEF AuditInv, Reproduced, MinimalTraceReproduces
<1>. QED  BY <1>1, <1>2

(***************************************************************************)
(* The minimal trace that a Panic reports is an execution of its own, for  *)
(* any number of actors and any behaviors, and it ends with the very step  *)
(* that panicked (verifier.rs, run: the trace filtered by the clock of its *)
(* last record).                                                           *)
(***************************************************************************)
THEOREM MinimalTracesReproduce == AuditSpec => []MinimalTraceReproduces
<1>1. AuditInit => AuditInv
  BY InitHasSearchInv DEF AuditInit, AuditInv, Init
<1>2. AuditInv /\ [AuditNext]_audit_vars => AuditInv'
  BY NextKeepsAudit
<1>3. AuditInv => MinimalTraceReproduces
  BY AuditReproduces
<1>. QED  BY <1>1, <1>2, <1>3, PTL DEF AuditSpec

=============================================================================
