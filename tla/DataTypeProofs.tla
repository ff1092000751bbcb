--------------------------- MODULE DataTypeProofs ---------------------------
(***************************************************************************)
(* Theorems about the data types of the two runtimes: deadlines            *)
(* (DeadlineAudit), for every set of durations and all bounds; identifiers *)
(* (Ids), for every radix; vector clocks (ClockAlgebra), for any number of *)
(* indices; trace trees (TraceTree), for any events and any size; and the  *)
(* two consistency testers (ConsistencyAudit), for any threads, operations *)
(* and answers, and histories of any length.                               *)
(***************************************************************************)
EXTENDS DeadlineAudit, Ids, ClockAlgebra, TraceTree, ConsistencyAudit, DataLemmas

-----------------------------------------------------------------------------
(* Deadlines: the inductive invariant and what follows                     *)

Pending == DOMAIN time_context.pending_deadlines

\* When a pending deadline was created, from its instant and its duration.
CreatedAt(d) == due[d] - time_context.pending_deadlines[d]

\* The runtime keeps an instant until it is past, and keeps it unchanged.
SweptArePast ==
    \A d \in Issued : IF d \in DOMAIN instants THEN instants[d] = due[d]
                                               ELSE due[d] < now

\* What the verifier dropped is past.
DroppedArePast == \A d \in Issued \ Pending : due[d] < now

\* Deadlines are numbered in the order of their creation, none in the future.
CreatedInOrder ==
    \A d \in Pending :
        /\ CreatedAt(d) <= now
        /\ \A e \in Pending : d <= e => CreatedAt(d) <= CreatedAt(e)

\* A deadline reported elapsed is gone from both maps' future.
ElapsedAreDropped ==
    \A d \in elapsed : d \notin Pending /\ RuntimeAnswer(d)

IInv == TypeOK /\ SweptArePast /\ DroppedArePast /\ CreatedInOrder /\ ElapsedAreDropped

-----------------------------------------------------------------------------

\* The initial state, where no deadline exists, satisfies the invariant.
LEMMA InitEstablishesIInv == Init => IInv
  BY DEF Init, IInv, TypeOK, SweptArePast, DroppedArePast, CreatedInOrder,
         ElapsedAreDropped, Issued, Pending, NoDeadlines, EmptyContext

\* The clock moves on, and an instant that was past stays past.
LEMMA TimePasses ==
    ASSUME IInv, NEW t \in Nat, now <= t, now' = t,
           UNCHANGED <<instants, next_deadline_id, time_context, due, elapsed>>
    PROVE  IInv'
<1> USE DEF IInv
<1>1. TypeOK'
  BY DEF TypeOK, Issued
<1>2. SweptArePast' /\ DroppedArePast'
  BY DEF TypeOK, Issued, SweptArePast, DroppedArePast, Pending
<1>3. CreatedInOrder'
  <2>1. \A d \in Pending : CreatedAt(d) \in Int
    BY DEF TypeOK, Pending, CreatedAt, Issued
  <2>2. Pending' = Pending /\ \A d \in Pending : CreatedAt(d)' = CreatedAt(d)
    BY DEF Pending, CreatedAt
  <2> QED BY <2>1, <2>2 DEF CreatedInOrder, TypeOK
<1>4. ElapsedAreDropped'
  BY DEF TypeOK, ElapsedAreDropped, Pending, RuntimeAnswer, IsPast, Issued
<1> QED BY <1>1, <1>2, <1>3, <1>4

\* Command::Deadline: the new deadline is the last one and is created now.
LEMMA CreatePreservesIInv ==
    ASSUME IInv, NEW duration \in Duration, CreateDeadline(duration)
    PROVE  IInv'
<1> DEFINE id == next_deadline_id
<1> USE DEF IInv
<1>1. duration \in Nat
  BY DurationAssumption
<1>2. Issued' = Issued \cup {id} /\ id \notin Issued
  BY DEF TypeOK, CreateDeadline, Issued
<1>3. /\ DOMAIN instants' = DOMAIN instants \cup {id}
      /\ instants'[id] = now + duration
      /\ \A d \in DOMAIN instants : instants'[d] = instants[d]
  BY <1>2 DEF CreateDeadline, TypeOK
<1>4. /\ DOMAIN due' = Issued' /\ due'[id] = now + duration
      /\ \A d \in Issued : due'[d] = due[d]
  BY <1>2 DEF CreateDeadline, TypeOK
<1>5. /\ Pending' = Pending \cup {id}
      /\ time_context'.pending_deadlines[id] = duration
      /\ \A d \in Pending : time_context'.pending_deadlines[d]
                              = time_context.pending_deadlines[d]
      /\ time_context'.next_new_deadline = id + 1
      /\ time_context' = [next_new_deadline |-> time_context'.next_new_deadline,
                          pending_deadlines |-> time_context'.pending_deadlines]
  BY <1>2 DEF CreateDeadline, TypeOK, NewDeadline, Pending
<1>6. now' = now /\ elapsed' = elapsed /\ next_deadline_id' = id + 1
  BY DEF CreateDeadline
<1>7. TypeOK'
  <2>1. due' \in [Issued' -> Nat]
    BY <1>1, <1>2, <1>4 DEF TypeOK, CreateDeadline
  <2>2. instants' \in [DOMAIN instants' -> Nat]
    BY <1>1, <1>2, <1>3 DEF TypeOK, CreateDeadline
  <2>3. time_context'.pending_deadlines \in [Pending' -> Nat]
    BY <1>1, <1>2, <1>5 DEF TypeOK, Pending, CreateDeadline, NewDeadline
  <2> QED BY <1>2, <1>3, <1>5, <1>6, <2>1, <2>2, <2>3 DEF TypeOK, Pending
<1>8. SweptArePast'
  BY <1>2, <1>3, <1>4, <1>6 DEF SweptArePast
<1>9. DroppedArePast'
  BY <1>2, <1>4, <1>5, <1>6 DEF DroppedArePast
<1>10. CreatedInOrder'
  <2>1. due'[id] - time_context'.pending_deadlines[id] = now
    BY <1>1, <1>4, <1>5 DEF CreatedAt, TypeOK
  <2>2. \A d \in Pending :
           /\ due'[d] - time_context'.pending_deadlines[d] = CreatedAt(d)
           /\ CreatedAt(d) \in Int
    BY <1>4, <1>5 DEF CreatedAt, TypeOK, Pending
  <2>3. \A d \in Pending : d < id /\ d \in Int
    BY DEF TypeOK, Pending, Issued
  <2>4. \A d \in Pending' :
           /\ CreatedAt(d)' <= now
           /\ \A e \in Pending' : d <= e => CreatedAt(d)' <= CreatedAt(e)'
    BY <1>5, <2>1, <2>2, <2>3 DEF CreatedInOrder, CreatedAt, TypeOK
  <2> QED BY <1>6, <2>4 DEF CreatedInOrder
<1>11. ElapsedAreDropped'
  BY <1>2, <1>3, <1>5, <1>6 DEF ElapsedAreDropped, RuntimeAnswer, IsPast, TypeOK
<1> QED BY <1>7, <1>8, <1>9, <1>10, <1>11

\* What deadline_elapsed(d) removes was due no later than d itself.
LEMMA CompletedAreDueEarlier ==
    ASSUME IInv, NEW d \in Pending, NEW e \in Completed(time_context, d)
    PROVE  e \in Pending /\ due[e] <= due[d]
<1>1. e \in Pending /\ e <= d
      /\ time_context.pending_deadlines[e] <= time_context.pending_deadlines[d]
  BY DEF Completed, Pending
<1>2. CreatedAt(e) <= CreatedAt(d)
  BY <1>1 DEF IInv, CreatedInOrder
<1> QED BY <1>1, <1>2 DEF IInv, TypeOK, CreatedAt, Pending

\* The answer "elapsed" about a deadline means that its time has come.
LEMMA ElapsedMeansPast ==
    ASSUME IInv, NEW d \in Issued, RuntimeAnswer(d)
    PROVE  due[d] < now
  BY DEF IInv, RuntimeAnswer, SweptArePast, IsPast, TypeOK

\* Command::DeadlineElapsed: the answer, the sweep and the verifier's event.
LEMMA QueryPreservesIInv ==
    ASSUME IInv, NEW d, NEW sweep \in Nat, QueryDeadline(d, sweep)
    PROVE  IInv'
<1> USE DEF IInv
<1>1. d \in Issued /\ now <= sweep /\ now' = sweep
      /\ next_deadline_id' = next_deadline_id /\ due' = due /\ Issued' = Issued
  BY DEF QueryDeadline, Issued
<1>2. PICK read \in Readings(sweep) : instants' = [e \in Unexpired(read) |-> instants[e]]
  BY DEF QueryDeadline
<1>3. \A e \in DOMAIN instants : read[e] \in Int /\ now <= read[e] /\ read[e] <= sweep
  BY <1>2 DEF Readings, TypeOK
<1>4. /\ DOMAIN instants' = Unexpired(read)
      /\ \A e \in Unexpired(read) : instants'[e] = instants[e]
      /\ instants' \in [DOMAIN instants' -> Nat]
      /\ DOMAIN instants' \subseteq Issued
  BY <1>2 DEF Unexpired, TypeOK
<1>5. SweptArePast'
  <2> SUFFICES ASSUME NEW e \in Issued
               PROVE  IF e \in DOMAIN instants' THEN instants'[e] = due[e]
                                                ELSE due[e] < sweep
    BY <1>1 DEF SweptArePast
  <2>1. CASE e \in DOMAIN instants
    BY <1>1, <1>4, <1>3, <2>1 DEF SweptArePast, Unexpired, IsPast, TypeOK
  <2>2. CASE e \notin DOMAIN instants
    BY <1>1, <1>4, <2>2 DEF SweptArePast, Unexpired, TypeOK
  <2> QED BY <2>1, <2>2
<1>6. \A e \in Issued : RuntimeAnswer(e) => RuntimeAnswer(e)'
  BY <1>1, <1>4, <1>3 DEF RuntimeAnswer, Unexpired, IsPast, TypeOK
<1>7. CASE ~RuntimeAnswer(d)
  <2>1. time_context' = time_context /\ elapsed' = elapsed /\ Pending' = Pending
    BY <1>7 DEF QueryDeadline, Pending
  <2>2. TypeOK'
    BY <1>1, <1>4, <2>1 DEF TypeOK
  <2>3. DroppedArePast'
    BY <1>1, <2>1 DEF DroppedArePast, TypeOK
  <2>4. CreatedInOrder'
    <3>1. \A e \in Pending : CreatedAt(e)' = CreatedAt(e) /\ CreatedAt(e) \in Int
      BY <1>1, <2>1 DEF CreatedAt, TypeOK, Pending
    <3> QED BY <1>1, <2>1, <3>1 DEF CreatedInOrder, TypeOK
  <2>5. ElapsedAreDropped'
    BY <1>6, <2>1 DEF ElapsedAreDropped, TypeOK
  <2> QED BY <1>5, <2>2, <2>3, <2>4, <2>5
<1>8. CASE RuntimeAnswer(d)
  <2>1. elapsed' = elapsed \cup {d} /\ time_context' = DeadlineElapsed(time_context, d)
    BY <1>8 DEF QueryDeadline
  <2>2. due[d] < now
    BY <1>1, <1>8, ElapsedMeansPast
  <2>3. /\ Pending' \subseteq Pending
        /\ \A e \in Pending' : time_context'.pending_deadlines[e]
                                = time_context.pending_deadlines[e]
        /\ d \notin Pending'
        /\ time_context' = [next_new_deadline |-> time_context'.next_new_deadline,
                            pending_deadlines |-> time_context'.pending_deadlines]
        /\ time_context'.next_new_deadline = time_context.next_new_deadline
        /\ time_context'.pending_deadlines \in [Pending' -> Nat]
    <3>1. CASE d \in Pending
      <4>1. d \in Completed(time_context, d)
        BY <1>1, <3>1 DEF Completed, Pending, TypeOK, Issued
      <4> QED BY <2>1, <3>1, <4>1 DEF DeadlineElapsed, Pending, TypeOK
    <3>2. CASE d \notin Pending
      BY <2>1, <3>2 DEF DeadlineElapsed, Pending, TypeOK
    <3> QED BY <3>1, <3>2
  <2>4. \A e \in Pending \ Pending' : due[e] < now
    <3> SUFFICES ASSUME NEW e \in Pending \ Pending' PROVE due[e] < now
      OBVIOUS
    <3>1. d \in Pending /\ e \in Completed(time_context, d)
      BY <2>1 DEF DeadlineElapsed, Pending, TypeOK
    <3>2. due[e] <= due[d] /\ e \in Issued
      BY <3>1, CompletedAreDueEarlier DEF TypeOK, Pending
    <3> QED BY <1>1, <2>2, <3>2 DEF TypeOK
  <2>5. TypeOK'
    BY <1>1, <1>4, <2>1, <2>3 DEF TypeOK, Pending
  <2>6. DroppedArePast'
    <3> SUFFICES ASSUME NEW e \in Issued \ Pending' PROVE due[e] < sweep
      BY <1>1 DEF DroppedArePast
    <3>1. due[e] < now
      BY <2>4 DEF DroppedArePast
    <3> QED BY <1>1, <3>1 DEF TypeOK
  <2>7. CreatedInOrder'
    <3>1. \A e \in Pending' : CreatedAt(e)' = CreatedAt(e) /\ CreatedAt(e) \in Int
      BY <1>1, <2>3 DEF CreatedAt, TypeOK, Pending
    <3> QED BY <1>1, <2>3, <3>1 DEF CreatedInOrder, TypeOK
  <2>8. ElapsedAreDropped'
    BY <1>1, <1>6, <1>8, <2>1, <2>3 DEF ElapsedAreDropped, TypeOK
  <2> QED BY <1>5, <2>5, <2>6, <2>7, <2>8
<1> QED BY <1>7, <1>8

\* Every step of the two runtimes preserves the invariant.
LEMMA NextPreservesIInv == IInv /\ [Next]_vars => IInv'
<1> SUFFICES ASSUME IInv, [Next]_vars PROVE IInv'
  OBVIOUS
<1> USE BoundsAssumption
<1>1. CASE Tick
  BY <1>1, TimePasses DEF Tick, IInv, TypeOK
<1>2. ASSUME NEW duration \in Duration, CreateDeadline(duration) PROVE IInv'
  BY <1>2, CreatePreservesIInv
<1>3. ASSUME NEW d, NEW t \in 0 .. MaxTime, QueryDeadline(d, t) PROVE IInv'
  BY <1>3, QueryPreservesIInv
<1>4. ASSUME NEW d, NEW t \in 0 .. MaxTime, SleepUntil(d, t) PROVE IInv'
  BY <1>4, TimePasses DEF SleepUntil
<1>5. CASE UNCHANGED vars
  BY <1>5, TimePasses DEF vars, IInv, TypeOK
<1> QED BY <1>1, <1>2, <1>3, <1>4, <1>5 DEF Next

-----------------------------------------------------------------------------

\* In every reachable state the maps range over issued deadlines.
THEOREM TypeCorrect == Spec => []TypeOK
<1>1. IInv => TypeOK
  BY DEF IInv
<1> QED BY InitEstablishesIInv, NextPreservesIInv, <1>1, PTL DEF Spec

(***************************************************************************)
(* For any durations, any number of deadlines and any timing, the verifier *)
(* anticipates the answer the UDP runtime gives about every deadline.      *)
(***************************************************************************)
THEOREM VerifierAnticipatesAnswers == Spec => []AnswersAreAnticipated
<1>1. IInv => AnswersAreAnticipated
  <2> SUFFICES ASSUME IInv, NEW d \in Issued
               PROVE  RuntimeAnswer(d) \in Possibilities(time_context, d)
    BY DEF AnswersAreAnticipated
  <2>1. CASE d \in Pending
    BY <2>1 DEF Possibilities, Pending, RuntimeAnswer, IsPast
  <2>2. CASE d \notin Pending
    <3>1. due[d] < now
      BY <2>2 DEF IInv, DroppedArePast
    <3>2. RuntimeAnswer(d)
      BY <3>1 DEF IInv, SweptArePast, RuntimeAnswer, IsPast
    <3> QED BY <2>2, <3>2 DEF Possibilities, Pending
  <2> QED BY <2>1, <2>2
<1> QED BY InitEstablishesIInv, NextPreservesIInv, <1>1, PTL DEF Spec

\* Neither runtime takes back the report that a deadline elapsed.
THEOREM ElapsedStaysElapsed == Spec => []ElapsedIsForever
<1>1. IInv => ElapsedIsForever
  BY DEF IInv, ElapsedIsForever, ElapsedAreDropped, Possibilities, Pending
<1> QED BY InitEstablishesIInv, NextPreservesIInv, <1>1, PTL DEF Spec

-----------------------------------------------------------------------------
(* Identifiers: the conversions lose nothing that fits into an address     *)

(***************************************************************************)
(* A number is the pair of what remains of it and of its last byte, and it *)
(* is the pair of nothing else.                                            *)
(***************************************************************************)
LEMMA PairOfRestAndLastByte ==
    ASSUME NEW n \in Nat
    PROVE  /\ Rest(n) \in Nat /\ LastByte(n) \in Byte
           /\ Pair(Rest(n), LastByte(n)) = n
<1>1. Radix \in Nat \ {0}
  BY RadixAssumption
<1>2. n \div Radix \in Nat
  BY <1>1, SMTT(30)
<1>3. n % Radix \in 0 .. Radix - 1
  BY <1>1, SMTT(30)
<1>4. (n \div Radix) * Radix + (n % Radix) = n
  BY <1>1, SMTT(30)
<1> QED
  BY <1>2, <1>3, <1>4 DEF Rest, LastByte, Byte, Pair

\* Division undoes what Pair puts together.
LEMMA RestAndLastByteOfPair ==
    ASSUME NEW high \in Nat, NEW low \in Byte
    PROVE  /\ Pair(high, low) \in Nat
           /\ Rest(Pair(high, low)) = high
           /\ LastByte(Pair(high, low)) = low
<1>1. Radix \in Nat \ {0} /\ low \in 0 .. Radix - 1
  BY RadixAssumption DEF Byte
<1>2. high * Radix + low \in Nat
  BY <1>1, SMTT(30)
<1>3. (high * Radix + low) \div Radix = high
  BY <1>1, SMTT(30)
<1>4. (high * Radix + low) % Radix = low
  BY <1>1, SMTT(30)
<1> QED
  BY <1>2, <1>3, <1>4 DEF Pair, Rest, LastByte

(***************************************************************************)
(* A bound on a number, and on what remains of it.                         *)
(***************************************************************************)
LEMMA RestIsBelow ==
    ASSUME NEW n \in Nat, NEW m \in Nat
    PROVE  n < m * Radix <=> Rest(n) < m
<1>1. Radix \in Nat \ {0}
  BY RadixAssumption
<1> DEFINE q == Rest(n)
           r == LastByte(n)
<1>2. q \in Nat /\ r \in 0 .. Radix - 1 /\ q * Radix + r = n
  BY PairOfRestAndLastByte DEF Byte, Pair
<1> HIDE DEF q, r
<1>3. ASSUME q < m PROVE n < m * Radix
  <2>1. (q + 1) * Radix <= m * Radix
    BY <1>1, <1>2, <1>3, SMTT(30)
  <2> QED
    BY <1>1, <1>2, <2>1, SMTT(30)
<1>4. ASSUME m <= q PROVE m * Radix <= n
  <2>1. m * Radix <= q * Radix
    BY <1>1, <1>2, <1>4, SMTT(30)
  <2> QED
    BY <1>1, <1>2, <2>1, SMTT(30)
<1>5. m * Radix \in Nat
  BY <1>1, SMTT(30)
<1>6. n < m * Radix <=> q < m
  BY <1>2, <1>3, <1>4, <1>5
<1> QED
  BY <1>6 DEF q

\* Zero is a byte, and stands for no others.
LEMMA ZeroBytes == 0 \in Byte /\ Pair(0, 0) = 0
<1>1. Radix \in Nat \ {0}
  BY RadixAssumption
<1> QED
  BY <1>1, SMTT(30) DEF Byte, Pair

(***************************************************************************)
(* The bytes of a port are bytes, and make up the port.                    *)
(***************************************************************************)
LEMMA PortFromItsBytes ==
    ASSUME NEW port \in 0 .. Radix * Radix - 1
    PROVE  /\ PortBytes(port) = <<Rest(port), LastByte(port)>>
           /\ Rest(port) \in Byte /\ LastByte(port) \in Byte
           /\ Pair(Rest(port), LastByte(port)) = port
<1>1. Radix \in Nat \ {0} /\ Radix * Radix \in Nat
  BY RadixAssumption, SMTT(30)
<1>2. port \in Nat /\ port < Radix * Radix
  BY <1>1
<1>3. Rest(port) < Radix
  BY <1>1, <1>2, RestIsBelow
<1> QED
  BY <1>1, <1>2, <1>3, PairOfRestAndLastByte DEF PortBytes, Byte

(***************************************************************************)
(* An address is the address of its identifier.                            *)
(***************************************************************************)
LEMMA AddressOfIdentifier ==
    ASSUME NEW addr \in SocketAddrV4
    PROVE  IdFrom(addr) \in Nat /\ AddrFrom(IdFrom(addr)) = addr
<1> DEFINE o == addr.octets
           port == addr.port
           o1 == o[1]  o2 == o[2]  o3 == o[3]  o4 == o[4]
           p1 == Rest(port)
           p2 == LastByte(port)
<1>1. /\ o \in [1 .. 4 -> Byte] /\ port \in 0 .. Radix * Radix - 1
      /\ addr = [octets |-> o, port |-> port]
  BY DEF SocketAddrV4
<1>2. o1 \in Byte /\ o2 \in Byte /\ o3 \in Byte /\ o4 \in Byte
  BY <1>1
<1>3. o = <<o1, o2, o3, o4>>
  BY <1>1
<1>4. p1 \in Byte /\ p2 \in Byte /\ Pair(p1, p2) = port
  BY <1>1, PortFromItsBytes
<1>5. IdFrom(addr) = Pair(Pair(Pair(Pair(Pair(Pair(Pair(0, 0), o1), o2), o3), o4), p1), p2)
  BY <1>1, PortFromItsBytes DEF IdFrom, FromBeBytes
<1> HIDE DEF o, port, o1, o2, o3, o4, p1, p2
\* The conversion back takes these bytes off again, the last one first.
<1> DEFINE n2 == Pair(Pair(0, 0), o1)
           n3 == Pair(n2, o2)
           n4 == Pair(n3, o3)
           n5 == Pair(n4, o4)
           n6 == Pair(n5, p1)
           id == Pair(n6, p2)
<1>6. id \in Nat /\ AddrFrom(id) = [octets |-> <<o1, o2, o3, o4>>, port |-> Pair(p1, p2)]
  <2>1. n2 \in Nat /\ LastByte(n2) = o1
    BY <1>2, ZeroBytes, RestAndLastByteOfPair
  <2> HIDE DEF n2
  <2>2. n3 \in Nat /\ Rest(n3) = n2 /\ LastByte(n3) = o2
    BY <1>2, <2>1, RestAndLastByteOfPair
  <2> HIDE DEF n3
  <2>3. n4 \in Nat /\ Rest(n4) = n3 /\ LastByte(n4) = o3
    BY <1>2, <2>2, RestAndLastByteOfPair
  <2> HIDE DEF n4
  <2>4. n5 \in Nat /\ Rest(n5) = n4 /\ LastByte(n5) = o4
    BY <1>2, <2>3, RestAndLastByteOfPair
  <2> HIDE DEF n5
  <2>5. n6 \in Nat /\ Rest(n6) = n5 /\ LastByte(n6) = p1
    BY <1>4, <2>4, RestAndLastByteOfPair
  <2> HIDE DEF n6
  <2>6. id \in Nat /\ Rest(id) = n6 /\ LastByte(id) = p2
    BY <1>4, <2>5, RestAndLastByteOfPair
  <2> HIDE DEF id
  <2>7. /\ ToBeBytes(id)[3] = o1 /\ ToBeBytes(id)[4] = o2 /\ ToBeBytes(id)[5] = o3
        /\ ToBeBytes(id)[6] = o4 /\ ToBeBytes(id)[7] = p1 /\ ToBeBytes(id)[8] = p2
    BY <2>1, <2>2, <2>3, <2>4, <2>5, <2>6 DEF ToBeBytes
  <2> QED
    BY <2>6, <2>7 DEF AddrFrom, PortOf
<1>7. IdFrom(addr) = id
  BY <1>5
<1> HIDE DEF id
<1> QED
  BY <1>1, <1>3, <1>4, <1>6, <1>7

(***************************************************************************)
(* A number is the identifier of its address if and only if it has six     *)
(* bytes.                                                                  *)
(***************************************************************************)
LEMMA IdentifierOfAddress ==
    ASSUME NEW id \in Nat
    PROVE  IdFrom(AddrFrom(id)) = id <=> id \in SixBytes
<1> DEFINE n1 == Rest(id)  n2 == Rest(n1)  n3 == Rest(n2)
           n4 == Rest(n3)  n5 == Rest(n4)  n6 == Rest(n5)
           t6 == Pair(0, 0)
           t5 == Pair(t6, LastByte(n5))  t4 == Pair(t5, LastByte(n4))
           t3 == Pair(t4, LastByte(n3))  t2 == Pair(t3, LastByte(n2))
           t1 == Pair(t2, LastByte(n1))  t0 == Pair(t1, LastByte(id))
<1>1. /\ n1 \in Nat /\ LastByte(id) \in Byte /\ Pair(n1, LastByte(id)) = id
      /\ n2 \in Nat /\ LastByte(n1) \in Byte /\ Pair(n2, LastByte(n1)) = n1
      /\ n3 \in Nat /\ LastByte(n2) \in Byte /\ Pair(n3, LastByte(n2)) = n2
      /\ n4 \in Nat /\ LastByte(n3) \in Byte /\ Pair(n4, LastByte(n3)) = n3
      /\ n5 \in Nat /\ LastByte(n4) \in Byte /\ Pair(n5, LastByte(n4)) = n4
      /\ n6 \in Nat /\ LastByte(n5) \in Byte /\ Pair(n6, LastByte(n5)) = n5
  BY PairOfRestAndLastByte
\* What comes back has the same six bytes, below nothing.
<1>2. IdFrom(AddrFrom(id)) = t0
  <2> DEFINE p == PortOf(<<LastByte(n1), LastByte(id)>>)
  <2>1. p = Pair(LastByte(n1), LastByte(id))
    BY DEF PortOf
  <2>2. Rest(p) = LastByte(n1) /\ LastByte(p) = LastByte(id)
    <3>1. LastByte(n1) \in Nat
      BY <1>1, RadixAssumption DEF Byte
    <3> QED
      BY <1>1, <2>1, <3>1, RestAndLastByteOfPair
  <2>3. AddrFrom(id) = [octets |-> <<LastByte(n5), LastByte(n4), LastByte(n3), LastByte(n2)>>,
                        port |-> p]
    BY DEF AddrFrom, ToBeBytes
  <2> HIDE DEF p, n1, n2, n3, n4, n5
  <2> QED
    BY <2>2, <2>3 DEF IdFrom, FromBeBytes, PortBytes
\* So it is the same if and only if there is nothing above its six bytes.
<1>3. t0 = id <=> n6 = 0
  <2>0. t6 = 0 /\ t6 \in Nat
    BY ZeroBytes
  <2> HIDE DEF n1, n2, n3, n4, n5, n6, t6
  <2>1. t5 \in Nat /\ (t5 = n5 <=> n6 = 0)
    BY <1>1, <2>0, RestAndLastByteOfPair
  <2> HIDE DEF t5
  <2>2. t4 \in Nat /\ (t4 = n4 <=> t5 = n5)
    BY <1>1, <2>1, RestAndLastByteOfPair
  <2> HIDE DEF t4
  <2>3. t3 \in Nat /\ (t3 = n3 <=> t4 = n4)
    BY <1>1, <2>2, RestAndLastByteOfPair
  <2> HIDE DEF t3
  <2>4. t2 \in Nat /\ (t2 = n2 <=> t3 = n3)
    BY <1>1, <2>3, RestAndLastByteOfPair
  <2> HIDE DEF t2
  <2>5. t1 \in Nat /\ (t1 = n1 <=> t2 = n2)
    BY <1>1, <2>4, RestAndLastByteOfPair
  <2> HIDE DEF t1
  <2>6. t0 = id <=> t1 = n1
    BY <1>1, <2>5, RestAndLastByteOfPair
  <2> QED
    BY <2>1, <2>2, <2>3, <2>4, <2>5, <2>6
\* Which is to say that it is less than the sixth power of the radix.
<1>4. n6 = 0 <=> id \in SixBytes
  <2> DEFINE r2 == Radix * Radix  r3 == r2 * Radix  r4 == r3 * Radix
             r5 == r4 * Radix  r6 == r5 * Radix
  <2>0. Radix \in Nat
    BY RadixAssumption
  <2>1. r2 \in Nat
    BY <2>0, SMTT(30)
  <2>a. 1 * Radix = Radix
    BY <2>0
  <2>b. SixBytes = 0 .. r6 - 1
    BY DEF SixBytes
  <2>2. n4 < r2 <=> n5 < Radix
    BY <1>1, <2>0, RestIsBelow
  <2>3. n5 < Radix <=> n6 < 1
    BY <1>1, <2>a, RestIsBelow
  <2> HIDE DEF r2
  <2>4. r3 \in Nat /\ (n3 < r3 <=> n4 < r2)
    <3>1. r3 \in Nat
      BY <2>0, <2>1, SMTT(30)
    <3> QED
      BY <1>1, <2>1, <3>1, RestIsBelow
  <2> HIDE DEF r3
  <2>5. r4 \in Nat /\ (n2 < r4 <=> n3 < r3)
    <3>1. r4 \in Nat
      BY <2>0, <2>4, SMTT(30)
    <3> QED
      BY <1>1, <2>4, <3>1, RestIsBelow
  <2> HIDE DEF r4
  <2>6. r5 \in Nat /\ (n1 < r5 <=> n2 < r4)
    <3>1. r5 \in Nat
      BY <2>0, <2>5, SMTT(30)
    <3> QED
      BY <1>1, <2>5, <3>1, RestIsBelow
  <2> HIDE DEF r5
  <2>7. r6 \in Nat /\ (id < r6 <=> n1 < r5)
    <3>1. r6 \in Nat
      BY <2>0, <2>6, SMTT(30)
    <3> QED
      BY <1>1, <2>6, <3>1, RestIsBelow
  <2> HIDE DEF r6, n1, n2, n3, n4, n5, n6
  <2>8. id < r6 <=> n6 < 1
    BY <2>2, <2>3, <2>4, <2>5, <2>6, <2>7
  <2> QED
    BY <1>1, <2>7, <2>8, <2>b
<1> HIDE DEF t0, n6
<1> QED
  BY <1>2, <1>3, <1>4

(***************************************************************************)
(* An answer reaches the peer that the request came from (Ids), whatever   *)
(* the number of values of a byte.                                         *)
(***************************************************************************)
THEOREM AnswersReachEveryPeer == IdSpec => []AnswersReachThePeer
<1>1. IdInit => AnswersReachThePeer
  BY AddressOfIdentifier DEF IdInit, AnswersReachThePeer
<1>2. AnswersReachThePeer /\ [IdNext]_<<identifier, address>> => AnswersReachThePeer'
  <2>1. ASSUME NEW addr \in SocketAddrV4, ReceiveFrom(addr)
        PROVE  AnswersReachThePeer'
    BY <2>1, AddressOfIdentifier DEF ReceiveFrom, AnswersReachThePeer
  <2>2. ASSUME NEW dst \in Usize, SendTo(dst)
        PROVE  AnswersReachThePeer'
    BY <2>2 DEF SendTo, AnswersReachThePeer
  <2> QED
    BY <2>1, <2>2 DEF IdNext, AnswersReachThePeer
<1> QED
  BY <1>1, <1>2, PTL DEF IdSpec

(***************************************************************************)
(* An identifier arrives within a message as it was sent if and only if it *)
(* fits into an address (Ids), whatever the number of values of a byte.    *)
(***************************************************************************)
THEOREM TransferKeepsExactlyWhatFits == IdSpec => []TransferKeepsWhatFits
\* The identifier of an address fits, since it comes back.
<1>1. ASSUME NEW addr \in SocketAddrV4
      PROVE  IdFrom(addr) \in SixBytes
  BY AddressOfIdentifier, IdentifierOfAddress
<1>2. IdInit => TransferKeepsWhatFits
  BY <1>1 DEF IdInit, TransferKeepsWhatFits
<1>3. TransferKeepsWhatFits /\ [IdNext]_<<identifier, address>> => TransferKeepsWhatFits'
  <2>1. ASSUME NEW addr \in SocketAddrV4, ReceiveFrom(addr)
        PROVE  TransferKeepsWhatFits'
    BY <1>1, <2>1 DEF ReceiveFrom, TransferKeepsWhatFits
  <2>2. ASSUME NEW dst \in Usize, SendTo(dst)
        PROVE  TransferKeepsWhatFits'
    <3>1. dst \in Nat
      BY DEF Usize
    <3> QED
      BY <2>2, <3>1, IdentifierOfAddress DEF SendTo, TransferKeepsWhatFits
  <2> QED
    BY <2>1, <2>2 DEF IdNext, TransferKeepsWhatFits
<1> QED
  BY <1>2, <1>3, PTL DEF IdSpec

-----------------------------------------------------------------------------
(* Vector clocks: what partial_cmp computes                                *)

Orderings == {"Less", "Greater", "Equal", "None"}

\* One turn of partial_cmp's loop.
Expects(expected, ordering) ==
    CASE expected = "Equal" -> ordering
      [] expected # "Equal" /\ ordering \in {expected, "Equal"} -> expected
      [] OTHER -> "None"

\* The order of the first i elements.
OrderUpTo(v, w, i) ==
    LET below == \A k \in 1 .. i : At(v, k) <= At(w, k)
        above == \A k \in 1 .. i : At(v, k) >= At(w, k)
    IN  CASE below /\ above  -> "Equal"
          [] below /\ ~above -> "Less"
          [] above /\ ~below -> "Greater"
          [] OTHER           -> "None"

\* expected[i] is what the loop expects after i turns.
Expected(v, w, expected) ==
    expected = [i \in 0 .. Larger(Len(v), Len(w)) |->
                  IF i = 0 THEN "Equal"
                  ELSE Expects(expected[i - 1], Cmp(At(v, i), At(w, i)))]

\* There is such a function, and partial_cmp returns its last value.
LEMMA PartialCmpIsDefined ==
    ASSUME NEW v \in Clock, NEW w \in Clock
    PROVE  \E expected :
              /\ PartialCmp(v, w) = expected[Larger(Len(v), Len(w))]
              /\ expected[0] = "Equal"
              /\ \A i \in 1 .. Larger(Len(v), Len(w)) :
                    expected[i] = Expects(expected[i - 1], Cmp(At(v, i), At(w, i)))
<1>. DEFINE n == Larger(Len(v), Len(w))
            c(i) == Cmp(At(v, i), At(w, i))
            step == [i \in 1 .. n |-> [e \in Orderings |-> Expects(e, c(i))]]
            first == "Equal"
<1>1. n \in Nat /\ first \in Orderings
  BY DEF Larger, Clock, Orderings
<1>2. \A i : c(i) \in Orderings
  BY DEF Cmp, Orderings
<1>. HIDE DEF n, c
<1>3. \A i : \A e \in Orderings : Expects(e, c(i)) \in Orderings
  BY <1>2 DEF Expects, Orderings
<1>4. step \in StepsUpTo(n, Orderings)
  BY <1>3 DEF StepsUpTo
<1>5. \A i \in 1 .. n : \A e \in Orderings : step[i][e] = Expects(e, c(i))
  OBVIOUS
<1>. HIDE DEF step, first
<1>6. PICK f \in [0 .. n -> Orderings] : f[0] = first /\ \A i \in 1 .. n : f[i] = step[i][f[i - 1]]
  <2>1. PICK f : Iterates(n, Orderings, first, step, f)
    BY <1>1, <1>4, Iteration, Zenon
  <2>. QED  BY <2>1 DEF Iterates
<1>7. Expected(v, w, f)
  <2>1. \A i \in 1 .. n : f[i - 1] \in Orderings
    BY <1>1
  <2>2. \A i \in 0 .. n : f[i] = IF i = 0 THEN first ELSE Expects(f[i - 1], c(i))
    <3>1. \A i \in 0 .. n : i # 0 => i \in 1 .. n
      BY <1>1
    <3>. QED  BY <2>1, <3>1, <1>5, <1>6
  <2>3. f = [i \in 0 .. n |-> f[i]]
    OBVIOUS
  <2>4. f = [i \in 0 .. n |-> IF i = 0 THEN first ELSE Expects(f[i - 1], c(i))]
    BY <2>2, <2>3, Zenon
  <2>. QED  BY <2>4, Zenon DEF Expected, n, c, first
<1>8. PICK g : Expected(v, w, g) /\ PartialCmp(v, w) = g[n]
  <2>1. PartialCmp(v, w) = (CHOOSE g : Expected(v, w, g))[Larger(Len(v), Len(w))]
    BY Zenon DEF Expected, Expects, PartialCmp
  <2>2. Expected(v, w, CHOOSE g : Expected(v, w, g))
    BY <1>7, Zenon
  <2>. QED  BY <2>1, <2>2, Zenon DEF n
<1>9. g[0] = "Equal" /\ \A i \in 1 .. n : g[i] = Expects(g[i - 1], c(i))
  <2>. DEFINE body(i) == IF i = 0 THEN "Equal" ELSE Expects(g[i - 1], c(i))
  <2>1. g = [i \in 0 .. n |-> body(i)]
    BY <1>8, Zenon DEF Expected, n, c
  <2>. HIDE DEF body
  <2>2. \A i \in 0 .. n : g[i] = body(i)
    BY <2>1
  <2>3. 0 \in 0 .. n /\ \A i \in 1 .. n : i \in 0 .. n /\ i # 0
    BY <1>1
  <2>. QED  BY <2>2, <2>3 DEF body
<1>. QED  BY <1>8, <1>9 DEF n, c

\* One element more.
LEMMA OneMoreElement ==
    ASSUME NEW v \in Clock, NEW w \in Clock, NEW i \in Nat
    PROVE  OrderUpTo(v, w, i + 1)
              = Expects(OrderUpTo(v, w, i), Cmp(At(v, i + 1), At(w, i + 1)))
<1>1. At(v, i + 1) \in Nat /\ At(w, i + 1) \in Nat
  BY AtIsNat
<1>2. \A k : k \in 1 .. i + 1 <=> k \in 1 .. i \/ k = i + 1
  OBVIOUS
<1>. DEFINE a == At(v, i + 1)
            b == At(w, i + 1)
            below == \A k \in 1 .. i : At(v, k) <= At(w, k)
            above == \A k \in 1 .. i : At(v, k) >= At(w, k)
<1>3. (\A k \in 1 .. i + 1 : At(v, k) <= At(w, k)) <=> below /\ a <= b
  BY <1>2
<1>4. (\A k \in 1 .. i + 1 : At(v, k) >= At(w, k)) <=> above /\ a >= b
  BY <1>2
<1>5. OrderUpTo(v, w, i + 1) = CASE (below /\ a <= b) /\ (above /\ a >= b)  -> "Equal"
                                 [] (below /\ a <= b) /\ ~(above /\ a >= b) -> "Less"
                                 [] (above /\ a >= b) /\ ~(below /\ a <= b) -> "Greater"
                                 [] OTHER -> "None"
  BY <1>3, <1>4, Zenon DEF OrderUpTo
<1>6. OrderUpTo(v, w, i) = CASE below /\ above  -> "Equal"
                             [] below /\ ~above -> "Less"
                             [] above /\ ~below -> "Greater"
                             [] OTHER -> "None"
  BY Zenon DEF OrderUpTo
<1>7. a \in Nat /\ b \in Nat
  BY <1>1
<1>. HIDE DEF a, b, below, above
<1>. QED  BY <1>5, <1>6, <1>7 DEF Expects, Cmp, a, b

\* partial_cmp returns the order of all elements up to the longer length.
LEMMA PartialCmpIsOrder ==
    ASSUME NEW v \in Clock, NEW w \in Clock
    PROVE  PartialCmp(v, w) = OrderUpTo(v, w, Larger(Len(v), Len(w)))
<1>. DEFINE n == Larger(Len(v), Len(w))
<1>1. PICK f : /\ PartialCmp(v, w) = f[n]
               /\ f[0] = "Equal"
               /\ \A i \in 1 .. n : f[i] = Expects(f[i - 1], Cmp(At(v, i), At(w, i)))
  BY PartialCmpIsDefined
<1>2. n \in Nat
  BY DEF Larger, Clock
<1>. HIDE DEF n
<1>. DEFINE S == {i \in 0 .. n : f[i] = OrderUpTo(v, w, i)}
<1>3. 0 \in S
  BY <1>1, <1>2 DEF OrderUpTo
<1>4. ASSUME NEW i \in 0 .. n - 1, i \in S
      PROVE  i + 1 \in S
  <2>1. i + 1 \in 1 .. n /\ (i + 1) - 1 = i /\ i + 1 \in 0 .. n /\ i \in Nat
    BY <1>2
  <2>2. f[i + 1] = Expects(f[i], Cmp(At(v, i + 1), At(w, i + 1)))
    BY <1>1, <2>1
  <2>. QED  BY <1>4, <2>1, <2>2, OneMoreElement
<1>5. 0 .. n \subseteq S
  <2>. HIDE DEF S
  <2>. QED  BY <1>2, <1>3, <1>4, Induction
<1>. QED  BY <1>1, <1>2, <1>5 DEF n

-----------------------------------------------------------------------------
(* Vector clocks: equality and hash                                        *)

\* eq holds exactly when partial_cmp says Equal, and Leq when it says Less or Equal.
LEMMA EqAndLeqAreOrders ==
    ASSUME NEW v \in Clock, NEW w \in Clock
    PROVE  /\ Eq(v, w) <=> PartialCmp(v, w) = "Equal"
           /\ Leq(v, w) <=> PartialCmp(v, w) \in {"Less", "Equal"}
<1>. DEFINE n == Larger(Len(v), Len(w))
            below == \A k \in 1 .. n : At(v, k) <= At(w, k)
            above == \A k \in 1 .. n : At(v, k) >= At(w, k)
<1>1. PartialCmp(v, w) = CASE below /\ above  -> "Equal"
                                  [] below /\ ~above -> "Less"
                                  [] above /\ ~below -> "Greater"
                                  [] OTHER           -> "None"
  BY PartialCmpIsOrder, Zenon DEF OrderUpTo
<1>2. Leq(v, w) <=> below
  BY Zenon DEF Leq
<1>3. Eq(v, w) <=> \A k \in 1 .. n : At(v, k) = At(w, k)
  BY Zenon DEF Eq
<1>4. \A k : At(v, k) \in Nat /\ At(w, k) \in Nat
  BY AtIsNat
<1>5. (\A k \in 1 .. n : At(v, k) = At(w, k)) <=> below /\ above
  BY <1>4
<1>. HIDE DEF below, above
<1>. QED  BY <1>1, <1>2, <1>3, <1>5

\* The elements that hash feeds to the hasher end with the last one that is not zero.
Hashes(v, c) ==
    /\ HashKey(v) = SubSeq(v, 1, c)
    /\ c \in 0 .. Len(v)
    /\ c # 0 => At(v, c) # 0
    /\ \A k \in Pos : k > c => At(v, k) = 0

\* There is a last element that is not zero, unless all are.
LEMMA HashKeyIsCut ==
    ASSUME NEW v \in Clock
    PROVE  \E c : Hashes(v, c)
<1>. DEFINE nonzero == {k \in DOMAIN v : v[k] # 0}
            n == Len(v)
            Beyond == {m \in 0 .. n : \A l \in nonzero : l <= m}
<1>1. n \in Nat /\ DOMAIN v = 1 .. n
  BY DEF Clock
<1>2. PICK m \in Beyond : \A x \in Beyond : m <= x
  <2>1. n \in Beyond /\ Beyond \in SUBSET Nat
    BY <1>1
  <2>. HIDE DEF Beyond
  <2>. QED  BY <2>1, Least
<1>3. m \in nonzero \cup {0}
  <2>. SUFFICES ASSUME m # 0, m \notin nonzero PROVE FALSE
    OBVIOUS
  <2>1. m - 1 \in 0 .. n
    BY <1>1, <1>2
  <2>2. \A l \in nonzero : l <= m - 1
    BY <1>1, <1>2
  <2>3. m - 1 \in Beyond
    BY <2>1, <2>2
  <2>. QED  BY <1>1, <1>2, <2>3
<1>. DEFINE c == CHOOSE k \in nonzero \cup {0} : \A l \in nonzero : l <= k
<1>4. c \in nonzero \cup {0} /\ \A l \in nonzero : l <= c
  BY <1>2, <1>3, Zenon
<1>5. HashKey(v) = SubSeq(v, 1, c)
  BY Zenon DEF HashKey
<1>. HIDE DEF c
<1>6. c \in 0 .. Len(v) /\ (c # 0 => At(v, c) # 0)
  BY <1>1, <1>4 DEF At
<1>7. ASSUME NEW k \in Pos, k > c
      PROVE  At(v, k) = 0
  <2>1. CASE k \in DOMAIN v
    <3>1. k \notin nonzero
      BY <1>1, <1>4, <1>6, <1>7
    <3>. QED  BY <2>1, <3>1 DEF At
  <2>2. CASE k \notin DOMAIN v
    BY <2>2 DEF At
  <2>. QED  BY <2>1, <2>2
<1>. QED  BY <1>5, <1>6, <1>7 DEF Hashes

\* eq compares all elements.
LEMMA EqIsPointwise ==
    ASSUME NEW v \in Clock, NEW w \in Clock
    PROVE  Eq(v, w) <=> \A k \in Pos : At(v, k) = At(w, k)
<1>1. Eq(v, w) <=> \A k \in 1 .. Larger(Len(v), Len(w)) : At(v, k) = At(w, k)
  BY Zenon DEF Eq
<1>2. /\ DOMAIN v = 1 .. Len(v) /\ Len(v) \in Nat
      /\ DOMAIN w = 1 .. Len(w) /\ Len(w) \in Nat
  BY DEF Clock
<1>3. \A k \in Pos : \/ k \in 1 .. Larger(Len(v), Len(w))
                     \/ At(v, k) = 0 /\ At(w, k) = 0
  BY <1>2 DEF At, Larger, Pos
<1>4. \A k \in 1 .. Larger(Len(v), Len(w)) : k \in Pos
  BY <1>2 DEF Larger, Pos
<1>. QED  BY <1>1, <1>3, <1>4

\* Clocks are equal exactly when they hash alike.
LEMMA EqHashesAlike ==
    ASSUME NEW v \in Clock, NEW w \in Clock
    PROVE  Eq(v, w) <=> HashKey(v) = HashKey(w)
<1>1. PICK c : Hashes(v, c)
  BY HashKeyIsCut
<1>2. PICK d : Hashes(w, d)
  BY HashKeyIsCut
<1>. DEFINE x == HashKey(v)
            y == HashKey(w)
<1>3. /\ DOMAIN v = 1 .. Len(v) /\ Len(v) \in Nat /\ v \in Seq(Nat)
      /\ DOMAIN w = 1 .. Len(w) /\ Len(w) \in Nat /\ w \in Seq(Nat)
  BY DEF Clock
<1>4. c \in 0 .. Len(v) /\ d \in 0 .. Len(w)
  BY <1>1, <1>2 DEF Hashes
<1>5. /\ x = SubSeq(v, 1, c) /\ x \in Seq(Nat) /\ Len(x) = c
      /\ \A k \in 1 .. c : x[k] = At(v, k)
  <2>1. x = SubSeq(v, 1, c)
    BY <1>1 DEF Hashes
  <2>. QED  BY <2>1, <1>3, <1>4 DEF At
<1>6. /\ y = SubSeq(w, 1, d) /\ y \in Seq(Nat) /\ Len(y) = d
      /\ \A k \in 1 .. d : y[k] = At(w, k)
  <2>1. y = SubSeq(w, 1, d)
    BY <1>2 DEF Hashes
  <2>. QED  BY <2>1, <1>3, <1>4 DEF At
<1>. HIDE DEF x, y
<1>7. ASSUME x = y
      PROVE  \A k \in Pos : At(v, k) = At(w, k)
  <2>1. c = d
    BY <1>5, <1>6, <1>7
  <2>. SUFFICES ASSUME NEW k \in Pos PROVE At(v, k) = At(w, k)
    OBVIOUS
  <2>2. CASE k <= c
    <3>1. k \in 1 .. c
      BY <1>3, <1>4, <2>2 DEF Pos
    <3>. QED  BY <1>5, <1>6, <1>7, <2>1, <3>1
  <2>3. CASE ~(k <= c)
    <3>1. k > c /\ k > d
      BY <1>3, <1>4, <2>1, <2>3 DEF Pos
    <3>. QED  BY <1>1, <1>2, <3>1 DEF Hashes
  <2>. QED  BY <2>2, <2>3
<1>8. ASSUME \A k \in Pos : At(v, k) = At(w, k)
      PROVE  x = y
  <2>1. c = d
    <3>1. CASE c < d
      <4>1. d \in Pos /\ d > c /\ d # 0
        BY <1>3, <1>4, <3>1 DEF Pos
      <4>. QED  BY <1>1, <1>2, <1>8, <4>1 DEF Hashes
    <3>2. CASE d < c
      <4>1. c \in Pos /\ c > d /\ c # 0
        BY <1>3, <1>4, <3>2 DEF Pos
      <4>. QED  BY <1>1, <1>2, <1>8, <4>1 DEF Hashes
    <3>. QED  BY <1>3, <1>4, <3>1, <3>2
  <2>2. \A k \in 1 .. c : x[k] = y[k]
    BY <1>4, <1>5, <1>6, <1>8, <2>1 DEF Pos
  <2>. QED  BY <1>5, <1>6, <2>1, <2>2
<1>. QED  BY <1>7, <1>8, EqIsPointwise DEF x, y

-----------------------------------------------------------------------------
(* Vector clocks: the invariant and what follows                           *)

(***************************************************************************)
(* The inductive invariant: a vector is no longer than there are indices,  *)
(* and its elements are those of its shadow.                               *)
(***************************************************************************)
ShadowInv ==
    /\ vec \in [Names -> Clock]
    /\ shadow \in [Names -> [Index -> Nat]]
    /\ \A n \in Names :
          /\ Len(vec[n]) <= MaxIndex
          /\ \A k \in Index : At(vec[n], k) = shadow[n][k]

\* The vector v has the elements of the shadow s.
Shadowed(v, s) ==
    /\ v \in Clock /\ Len(v) <= MaxIndex
    /\ s \in [Index -> Nat]
    /\ \A k \in Index : At(v, k) = s[k]

\* The invariant is about each clock for itself.
LEMMA ShadowInvIs ==
    ShadowInv <=> /\ vec = [n \in Names |-> vec[n]]
                  /\ shadow = [n \in Names |-> shadow[n]]
                  /\ \A n \in Names : Shadowed(vec[n], shadow[n])
BY DEF ShadowInv, Shadowed

\* Every clock is created with its shadow ...
LEMMA InitIsShadowed ==
    ASSUME ClockInit
    PROVE  ShadowInv
<1>. USE MaxIndexAssumption
<1>1. ASSUME NEW l \in 0 .. MaxIndex
      PROVE  Shadowed(NewWithLen(l), [k \in Index |-> 0])
  <2>1. NewWithLen(l) \in Clock /\ \A k : At(NewWithLen(l), k) = 0
    BY AtNewWithLen
  <2>2. Len(NewWithLen(l)) = l
    BY DEF NewWithLen
  <2>. QED  BY <2>1, <2>2 DEF Shadowed
<1>2. PICK l \in 0 .. MaxIndex, r \in 0 .. MaxIndex :
          vec = [n \in Names |-> IF n = "lhs" THEN NewWithLen(l) ELSE NewWithLen(r)]
  BY Zenon DEF ClockInit
<1>3. shadow = [n \in Names |-> [k \in Index |-> 0]]
  BY DEF ClockInit
<1>. QED  BY <1>1, <1>2, <1>3, ShadowInvIs

\* ... and every operation changes both alike.
LEMMA NextIsShadowed ==
    ASSUME ShadowInv, [ClockNext]_clocks
    PROVE  ShadowInv'
<1>. USE MaxIndexAssumption
<1>1. CASE UNCHANGED clocks
  BY <1>1 DEF clocks, ShadowInv
<1>2. ASSUME NEW n \in Names, NEW v, NEW s, Shadowed(v, s),
             vec' = [vec EXCEPT ![n] = v], shadow' = [shadow EXCEPT ![n] = s]
      PROVE  ShadowInv'
  BY <1>2 DEF ShadowInv, Shadowed
<1>3. ASSUME NEW n \in Names, NEW i \in Index, IncrementClock(n, i)
      PROVE  ShadowInv'
  <2>. DEFINE v == Increment(vec[n], i)
              s == [shadow[n] EXCEPT ![i] = @ + 1]
  <2>1. vec' = [vec EXCEPT ![n] = v] /\ shadow' = [shadow EXCEPT ![n] = s]
    BY <1>3, Zenon DEF IncrementClock
  <2>2. /\ vec[n] \in Clock /\ Len(vec[n]) <= MaxIndex /\ Len(vec[n]) \in Nat
        /\ shadow[n] \in [Index -> Nat]
        /\ \A k \in Index : At(vec[n], k) = shadow[n][k]
    BY DEF ShadowInv, Clock
  <2>3. i \in Pos /\ i <= MaxIndex /\ \A k \in Index : k \in Pos
    BY DEF Index, Pos
  <2>4. v \in Clock /\ \A k \in Pos : At(v, k) = IF k = i THEN At(vec[n], k) + 1 ELSE At(vec[n], k)
    BY <2>2, <2>3, AtIncrement
  <2>5. Len(v) <= MaxIndex
    <3>1. Larger(Len(vec[n]), i) \in Nat /\ Larger(Len(vec[n]), i) <= MaxIndex
      BY <2>2, <2>3 DEF Larger, Pos
    <3>2. Len(v) = Larger(Len(vec[n]), i)
      BY <3>1 DEF Increment
    <3>. QED  BY <3>1, <3>2
  <2>6. s \in [Index -> Nat] /\ \A k \in Index : s[k] = IF k = i THEN shadow[n][k] + 1
                                                                    ELSE shadow[n][k]
    BY <2>2
  <2>. HIDE DEF v, s
  <2>7. Shadowed(v, s)
    BY <2>2, <2>3, <2>4, <2>5, <2>6 DEF Shadowed
  <2>. QED  BY <1>2, <2>1, <2>7
<1>4. ASSUME NEW n \in Names, NEW m \in Names, MergeClocks(n, m)
      PROVE  ShadowInv'
  <2>. DEFINE v == MergeIn(vec[n], vec[m])
              s == [k \in Index |-> Larger(shadow[n][k], shadow[m][k])]
  <2>1. vec' = [vec EXCEPT ![n] = v] /\ shadow' = [shadow EXCEPT ![n] = s]
    BY <1>4, Zenon DEF MergeClocks
  <2>2. \A x \in {n, m} : /\ vec[x] \in Clock /\ Len(vec[x]) <= MaxIndex /\ Len(vec[x]) \in Nat
                          /\ shadow[x] \in [Index -> Nat]
                          /\ \A k \in Index : At(vec[x], k) = shadow[x][k]
    BY DEF ShadowInv, Clock
  <2>3. \A k \in Index : k \in Pos
    BY DEF Index, Pos
  <2>4. v \in Clock /\ \A k \in Pos : At(v, k) = Larger(At(vec[n], k), At(vec[m], k))
    BY <2>2, AtMergeIn
  <2>5. Len(v) <= MaxIndex
    <3>1. Larger(Len(vec[n]), Len(vec[m])) \in Nat /\ Larger(Len(vec[n]), Len(vec[m])) <= MaxIndex
      BY <2>2 DEF Larger
    <3>2. Len(v) = Larger(Len(vec[n]), Len(vec[m]))
      BY <3>1 DEF MergeIn
    <3>. QED  BY <3>1, <3>2
  <2>6. s \in [Index -> Nat] /\ \A k \in Index : s[k] = Larger(shadow[n][k], shadow[m][k])
    BY <2>2 DEF Larger
  <2>. HIDE DEF v, s
  <2>7. Shadowed(v, s)
    BY <2>2, <2>3, <2>4, <2>5, <2>6 DEF Shadowed
  <2>. QED  BY <1>2, <2>1, <2>7
<1>5. ASSUME NEW n \in Names, ResetClock(n)
      PROVE  ShadowInv'
  <2>. DEFINE v == Reset(vec[n])
              s == [k \in Index |-> 0]
  <2>1. vec' = [vec EXCEPT ![n] = v] /\ shadow' = [shadow EXCEPT ![n] = s]
    BY <1>5, Zenon DEF ResetClock
  <2>2. vec[n] \in Clock /\ Len(vec[n]) <= MaxIndex /\ Len(vec[n]) \in Nat
    BY DEF ShadowInv, Clock
  <2>3. v \in Clock /\ \A k : At(v, k) = 0
    BY <2>2, AtReset
  <2>4. Len(v) = Len(vec[n])
    BY <2>2 DEF Reset, Clock
  <2>5. s \in [Index -> Nat] /\ \A k \in Index : s[k] = 0
    OBVIOUS
  <2>. HIDE DEF v, s
  <2>6. Shadowed(v, s)
    BY <2>2, <2>3, <2>4, <2>5 DEF Shadowed
  <2>. QED  BY <1>2, <2>1, <2>6
<1>. QED  BY <1>1, <1>3, <1>4, <1>5 DEF ClockNext

\* Beyond the shadow a vector has no elements.
LEMMA ShadowsCompare ==
    ASSUME ShadowInv
    PROVE  LET v == vec["lhs"]
               w == vec["rhs"]
               n == Larger(Len(v), Len(w))
           IN  /\ v \in Clock /\ w \in Clock
               /\ (\A k \in 1 .. n : At(v, k) <= At(w, k))
                    <=> \A k \in Index : shadow["lhs"][k] <= shadow["rhs"][k]
               /\ (\A k \in 1 .. n : At(v, k) >= At(w, k))
                    <=> \A k \in Index : shadow["lhs"][k] >= shadow["rhs"][k]
<1>. USE MaxIndexAssumption
<1>. DEFINE v == vec["lhs"]
            w == vec["rhs"]
            n == Larger(Len(v), Len(w))
<1>1. /\ v \in Clock /\ Len(v) \in Nat /\ Len(v) <= MaxIndex /\ DOMAIN v = 1 .. Len(v)
      /\ w \in Clock /\ Len(w) \in Nat /\ Len(w) <= MaxIndex /\ DOMAIN w = 1 .. Len(w)
      /\ \A k \in Index : At(v, k) = shadow["lhs"][k] /\ At(w, k) = shadow["rhs"][k]
  BY DEF ShadowInv, Names, Clock
<1>2. \A k \in 1 .. n : k \in Index
  BY <1>1 DEF Larger, Index
<1>3. \A k \in Index : \/ k \in 1 .. n
                       \/ At(v, k) = 0 /\ At(w, k) = 0
  <2>1. \A k \in Index : k \in 1 .. n \/ k \notin DOMAIN v
    BY <1>1 DEF Larger, Index
  <2>2. \A k \in Index : k \in 1 .. n \/ k \notin DOMAIN w
    BY <1>1 DEF Larger, Index
  <2>. QED  BY <2>1, <2>2, Zenon DEF At
<1>. HIDE DEF v, w, n
<1>4. (\A k \in 1 .. n : At(v, k) <= At(w, k)) <=> \A k \in Index : At(v, k) <= At(w, k)
  BY <1>2, <1>3
<1>5. (\A k \in 1 .. n : At(v, k) >= At(w, k)) <=> \A k \in Index : At(v, k) >= At(w, k)
  BY <1>2, <1>3
<1>. QED  BY <1>1, <1>4, <1>5 DEF v, w, n

\* Under the invariant partial_cmp is the order of the shadows.
LEMMA ShadowedOrder ==
    ASSUME ShadowInv
    PROVE  OrderIsPointwise
<1>. DEFINE v == vec["lhs"]
            w == vec["rhs"]
            n == Larger(Len(v), Len(w))
<1>1. PartialCmp(v, w) = OrderUpTo(v, w, n)
  BY ShadowsCompare, PartialCmpIsOrder
<1>2. /\ (\A k \in 1 .. n : At(v, k) <= At(w, k))
            <=> \A k \in Index : shadow["lhs"][k] <= shadow["rhs"][k]
      /\ (\A k \in 1 .. n : At(v, k) >= At(w, k))
            <=> \A k \in Index : shadow["lhs"][k] >= shadow["rhs"][k]
  BY ShadowsCompare
<1>. HIDE DEF n
<1>. QED  BY <1>1, <1>2, Zenon DEF OrderUpTo, OrderIsPointwise

(***************************************************************************)
(* partial_cmp answers the pointwise order of the clocks, whatever the     *)
(* shapes of the vectors and however they were grown, merged and reset     *)
(* (vector_clock/src/lib.rs, the loop with an expected ordering).          *)
(***************************************************************************)
THEOREM ComparisonIsPointwise ==
    ClockSpec => []OrderIsPointwise
<1>1. ClockSpec => []ShadowInv
  BY InitIsShadowed, NextIsShadowed, PTL DEF ClockSpec
<1>2. ShadowInv => OrderIsPointwise
  BY ShadowedOrder
<1>. QED  BY <1>1, <1>2, PTL

(***************************************************************************)
(* eq, partial_cmp and hash agree on all clocks: they are equal exactly    *)
(* when they compare Equal, and exactly when they hash alike, although one *)
(* vector may end with zeros that the other lacks (vector_clock/src/lib.rs,*)
(* impl PartialEq, PartialOrd, Hash).                                      *)
(***************************************************************************)
THEOREM ComparisonsAgree ==
    ClockSpec => []EqOrdAndHashAgree
<1>1. ClockSpec => []ShadowInv
  BY InitIsShadowed, NextIsShadowed, PTL DEF ClockSpec
<1>2. ShadowInv => EqOrdAndHashAgree
  <2>. SUFFICES ASSUME ShadowInv PROVE EqOrdAndHashAgree
    OBVIOUS
  <2>1. vec["lhs"] \in Clock /\ vec["rhs"] \in Clock
    BY ShadowsCompare
  <2>. QED  BY <2>1, EqAndLeqAreOrders, EqHashesAlike, Zenon DEF EqOrdAndHashAgree
<1>. QED  BY <1>1, <1>2, PTL

-----------------------------------------------------------------------------
(* Trace trees: nodes as values, and the histories they stand for          *)

\* The events of a history.
Steps == Event \cup {Spawn}

TreeNode == [event : Steps, nexts : Seq(Nat)]

\* The node c hangs from the node m.
Branch(t, m, c) == m \in DOMAIN t /\ \E k \in DOMAIN t[m].nexts : t[m].nexts[k] = c

(***************************************************************************)
(* The nodes t are a tree with its root first: every other node hangs from *)
(* exactly one that was allocated before, the nodes that hang from one     *)
(* have different events, and only the root has Spawn.                     *)
(***************************************************************************)
IsTree(t) ==
    /\ t \in Seq(TreeNode)
    /\ \A m, c : Branch(t, m, c) => c \in DOMAIN t /\ m < c
    /\ \A c \in DOMAIN t : c # 1 => \E m : Branch(t, m, c)
    /\ \A m, n, c : Branch(t, m, c) /\ Branch(t, n, c) => m = n
    /\ \A m, b, c : Branch(t, m, b) /\ Branch(t, m, c) /\ t[b].event = t[c].event => b = c
    /\ \A c \in DOMAIN t : t[c].event = Spawn <=> c = 1

\* h[n] is the history of the node n, along the branches that lead to it.
Files(t, h) ==
    /\ h \in [0 .. Len(t) -> Seq(Steps)]
    /\ h[0] = << >>
    /\ t # << >> => h[1] = << Spawn >>
    /\ \A m, c : Branch(t, m, c) => h[c] = Append(h[m], t[c].event)

Tree(t) == IsTree(t) /\ \E h : Files(t, h)

\* ParentOf, of any nodes.
Parent(t, c) == CHOOSE m \in DOMAIN t : \E k \in DOMAIN t[m].nexts : t[m].nexts[k] = c

\* HistoryOf's recursion, of any nodes.
Computes(t, h) ==
    h = [n \in 0 .. Len(t) |->
           IF n = 0 THEN << >>
           ELSE IF n = 1 THEN << t[n].event >>
           ELSE Append(h[Parent(t, n)], t[n].event)]

\* The parent is what a node hangs from.
LEMMA ParentIs ==
    ASSUME NEW t, IsTree(t), NEW m, NEW c, Branch(t, m, c)
    PROVE  Parent(t, c) = m
<1>1. Parent(t, c) = CHOOSE p : Branch(t, p, c)
  BY Zenon DEF Parent, Branch
<1>2. Branch(t, CHOOSE p : Branch(t, p, c), c)
  BY Zenon
<1>. QED  BY <1>1, <1>2, Zenon DEF IsTree

\* What a tree is, for use with its definition hidden.
LEMMA TreeIs ==
    ASSUME NEW t, IsTree(t)
    PROVE  /\ t \in Seq(TreeNode) /\ Len(t) \in Nat /\ DOMAIN t = 1 .. Len(t)
           /\ \A n \in DOMAIN t : t[n] \in TreeNode /\ t[n].event \in Steps
           /\ \A m, c : Branch(t, m, c) =>
                 m \in 1 .. Len(t) /\ c \in 2 .. Len(t) /\ m \in 0 .. c - 1
           /\ \A c \in 2 .. Len(t) : \E m : Branch(t, m, c)
<1>1. t \in Seq(TreeNode) /\ Len(t) \in Nat /\ DOMAIN t = 1 .. Len(t)
  BY DEF IsTree
<1>2. \A n \in DOMAIN t : t[n] \in TreeNode /\ t[n].event \in Steps
  <2>1. \A n \in DOMAIN t : t[n] \in TreeNode
    BY <1>1
  <2>. QED  BY <2>1 DEF TreeNode
<1>3. ASSUME NEW m, NEW c, Branch(t, m, c)
      PROVE  m \in 1 .. Len(t) /\ c \in 2 .. Len(t) /\ m \in 0 .. c - 1
  <2>1. m \in DOMAIN t /\ c \in DOMAIN t /\ m < c
    BY <1>3 DEF IsTree, Branch
  <2>. QED  BY <1>1, <2>1
<1>4. ASSUME NEW c \in 2 .. Len(t) PROVE \E m : Branch(t, m, c)
  <2>1. c \in DOMAIN t /\ c # 1
    BY <1>1
  <2>. QED  BY <2>1 DEF IsTree
<1>. QED  BY <1>1, <1>2, <1>3, <1>4

\* The recursion computes the histories ...
LEMMA FilesComputes ==
    ASSUME NEW t, IsTree(t), NEW h, Files(t, h)
    PROVE  Computes(t, h)
<1>1. h \in [0 .. Len(t) -> Seq(Steps)] /\ h[0] = << >>
  BY DEF Files
<1>2. ASSUME NEW n \in 0 .. Len(t)
      PROVE  h[n] = IF n = 0 THEN << >>
                    ELSE IF n = 1 THEN << t[n].event >>
                    ELSE Append(h[Parent(t, n)], t[n].event)
  <2>1. CASE n = 1
    <3>1. 1 \in DOMAIN t /\ t # << >>
      BY TreeIs, <2>1, <1>2
    <3>2. t[1].event = Spawn
      BY <3>1 DEF IsTree
    <3>. QED  BY <2>1, <3>1, <3>2 DEF Files
  <2>2. CASE n # 0 /\ n # 1
    <3>1. n \in 2 .. Len(t)
      BY TreeIs, <2>2
    <3>2. PICK m : Branch(t, m, n)
      BY TreeIs, <3>1
    <3>3. Parent(t, n) = m
      BY ParentIs, <3>2
    <3>4. h[n] = Append(h[m], t[n].event)
      BY <3>2 DEF Files
    <3>. QED  BY <2>2, <3>3, <3>4
  <2>. QED  BY <1>1, <2>1, <2>2
<1>3. h = [n \in 0 .. Len(t) |-> h[n]]
  BY <1>1
<1>. QED  BY <1>2, <1>3, Zenon DEF Computes

\* ... and nothing else.
LEMMA ComputesFiles ==
    ASSUME NEW t, IsTree(t), NEW h, Computes(t, h)
    PROVE  Files(t, h)
<1>. DEFINE body(n) == IF n = 0 THEN << >>
                       ELSE IF n = 1 THEN << t[n].event >>
                       ELSE Append(h[Parent(t, n)], t[n].event)
<1>1. h = [n \in 0 .. Len(t) |-> body(n)]
  BY Zenon DEF Computes
<1>. HIDE DEF body
<1>2. DOMAIN h = 0 .. Len(t) /\ \A n \in 0 .. Len(t) : h[n] = body(n)
  BY <1>1
<1>3. h[0] = << >>
  <2>1. 0 \in 0 .. Len(t)
    BY TreeIs
  <2>. QED  BY <1>2, <2>1 DEF body
<1>4. t # << >> => h[1] = << Spawn >> /\ 1 \in DOMAIN t
  <2>. SUFFICES ASSUME t # << >> PROVE h[1] = << Spawn >> /\ 1 \in DOMAIN t
    OBVIOUS
  <2>1. 1 \in 0 .. Len(t) /\ 1 \in DOMAIN t
    BY TreeIs
  <2>2. t[1].event = Spawn
    BY <2>1 DEF IsTree
  <2>. QED  BY <1>2, <2>1, <2>2 DEF body
<1>5. ASSUME NEW m, NEW c, Branch(t, m, c)
      PROVE  h[c] = Append(h[m], t[c].event)
  <2>1. c \in 2 .. Len(t)
    BY TreeIs, <1>5
  <2>2. c \in 0 .. Len(t) /\ c # 0 /\ c # 1
    BY TreeIs, <2>1
  <2>3. Parent(t, c) = m
    BY ParentIs, <1>5
  <2>. QED  BY <1>2, <2>2, <2>3 DEF body
<1>. DEFINE S == {n \in 0 .. Len(t) : \A j \in 0 .. n : h[j] \in Seq(Steps)}
<1>6. 0 \in S
  <2>1. 0 \in 0 .. Len(t) /\ << >> \in Seq(Steps) /\ \A j \in 0 .. 0 : j = 0
    BY TreeIs
  <2>. QED  BY <1>3, <2>1, Zenon
<1>7. ASSUME NEW n \in 0 .. Len(t) - 1, n \in S
      PROVE  n + 1 \in S
  <2>1. n + 1 \in 1 .. Len(t) /\ n + 1 \in 0 .. Len(t) /\ n + 1 \in DOMAIN t
    BY TreeIs
  <2>2. h[n + 1] \in Seq(Steps)
    <3>1. CASE n + 1 = 1
      <4>1. t # << >> /\ Spawn \in Steps
        BY <2>1 DEF Steps
      <4>2. h[n + 1] = << Spawn >>
        BY <1>4, <3>1, <4>1
      <4>. QED  BY <4>1, <4>2
    <3>2. CASE n + 1 # 1
      <4>1. n + 1 \in 2 .. Len(t)
        BY TreeIs, <2>1, <3>2
      <4>2. PICK m : Branch(t, m, n + 1)
        BY TreeIs, <4>1
      <4>3. m \in 0 .. n
        <5>1. m \in 0 .. (n + 1) - 1
          BY TreeIs, <4>2
        <5>. QED  BY <5>1, TreeIs
      <4>4. h[m] \in Seq(Steps) /\ t[n + 1].event \in Steps
        BY TreeIs, <1>7, <2>1, <4>3
      <4>5. h[n + 1] = Append(h[m], t[n + 1].event)
        BY <1>5, <4>2, Zenon
      <4>. QED  BY <4>4, <4>5
    <3>. QED  BY <3>1, <3>2
  <2>3. \A j \in 0 .. n + 1 : j \in 0 .. n \/ j = n + 1
    BY TreeIs
  <2>. QED  BY <1>7, <2>1, <2>2, <2>3
<1>8. h \in [0 .. Len(t) -> Seq(Steps)]
  <2>1. 0 .. Len(t) \subseteq S
    <3>1. Len(t) \in Nat
      BY TreeIs
    <3>. HIDE DEF S
    <3>. QED  BY <1>6, <1>7, <3>1, Induction
  <2>2. \A n \in 0 .. Len(t) : h[n] \in Seq(Steps)
    <3>1. \A n \in 0 .. Len(t) : n \in 0 .. n
      OBVIOUS
    <3>. QED  BY <2>1, <3>1
  <2>. QED  BY <1>1, <1>2, <2>2
<1>. QED  BY <1>3, <1>4, <1>5, <1>8 DEF Files

\* HistoryOf files the nodes that there are ...
LEMMA HistoryOfFiles == Tree(nodes) => Files(nodes, HistoryOf)
<1>. SUFFICES ASSUME Tree(nodes) PROVE Files(nodes, HistoryOf)
  OBVIOUS
<1>1. HistoryOf = CHOOSE h : Computes(nodes, h)
  BY Zenon DEF HistoryOf, None, Root, ParentOf, Parent, Computes
<1>2. PICK h : Files(nodes, h)
  BY DEF Tree
<1>3. Computes(nodes, h)
  BY <1>2, FilesComputes DEF Tree
<1>4. Computes(nodes, CHOOSE g : Computes(nodes, g))
  BY <1>3, Zenon
<1>. QED  BY <1>1, <1>4, ComputesFiles DEF Tree

\* ... in every state.
LEMMA HistoryOfFilesAgain == (Tree(nodes) => Files(nodes, HistoryOf))'
BY HistoryOfFiles, PTL

\* A tree that has grown files its old nodes where they were.
LEMMA GrownFiles ==
    ASSUME NEW t, NEW u, IsTree(t), IsTree(u), Len(t) <= Len(u),
           \A m, c : Branch(t, m, c) => Branch(u, m, c),
           \A c \in DOMAIN t : u[c].event = t[c].event,
           NEW h, NEW g, Files(t, h), Files(u, g)
    PROVE  \A n \in 0 .. Len(t) : g[n] = h[n]
<1>. DEFINE S == {n \in 0 .. Len(t) : \A j \in 0 .. n : g[j] = h[j]}
<1>1. Len(t) \in Nat /\ Len(u) \in Nat /\ DOMAIN t = 1 .. Len(t) /\ g[0] = << >> /\ h[0] = << >>
  BY TreeIs DEF Files
<1>2. 0 \in S
  BY <1>1
<1>3. ASSUME NEW n \in 0 .. Len(t) - 1, n \in S
      PROVE  n + 1 \in S
  <2>1. n + 1 \in 1 .. Len(t) /\ n + 1 \in 0 .. Len(t) /\ n + 1 \in DOMAIN t
    BY <1>1
  <2>2. g[n + 1] = h[n + 1]
    <3>1. CASE n + 1 = 1
      <4>1. t # << >> /\ u # << >>
        <5>1. 1 <= Len(t) /\ 1 <= Len(u)
          BY <1>1, <2>1, <3>1
        <5>. QED  BY <5>1, TreeIs
      <4>. QED  BY <3>1, <4>1 DEF Files
    <3>2. CASE n + 1 # 1
      <4>1. n + 1 \in 2 .. Len(t)
        BY <1>1, <2>1, <3>2
      <4>2. PICK m : Branch(t, m, n + 1)
        BY TreeIs, <4>1
      <4>3. m \in 0 .. n
        <5>1. m \in 0 .. (n + 1) - 1
          BY TreeIs, <4>2
        <5>. QED  BY <5>1, <1>1
      <4>4. h[n + 1] = Append(h[m], t[n + 1].event) /\ g[n + 1] = Append(g[m], u[n + 1].event)
        BY <4>2 DEF Files
      <4>. QED  BY <1>3, <2>1, <4>3, <4>4
    <3>. QED  BY <3>1, <3>2
  <2>3. \A j \in 0 .. n + 1 : j \in 0 .. n \/ j = n + 1
    BY <1>1
  <2>. QED  BY <1>3, <2>1, <2>2, <2>3
<1>4. 0 .. Len(t) \subseteq S
  <2>. HIDE DEF S
  <2>. QED  BY <1>1, <1>2, <1>3, Induction
<1>5. \A n \in 0 .. Len(t) : n \in 0 .. n
  OBVIOUS
<1>. QED  BY <1>4, <1>5

\* The first visit makes the root.
LEMMA RootIsTree ==
    ASSUME NEW t, t = << Node(Spawn) >>
    PROVE  Tree(t) /\ DOMAIN t = 1 .. 1 /\ Len(t) = 1
<1>1. /\ Node(Spawn) \in TreeNode /\ Node(Spawn).event = Spawn /\ Node(Spawn).nexts = << >>
  BY DEF Node, TreeNode, Steps
<1>2. t \in Seq(TreeNode) /\ Len(t) = 1 /\ DOMAIN t = 1 .. 1 /\ t[1] = Node(Spawn)
  BY <1>1
<1>3. \A m, c : ~Branch(t, m, c)
  BY <1>1, <1>2 DEF Branch
<1>4. IsTree(t)
  BY <1>1, <1>2, <1>3 DEF IsTree
<1>. DEFINE h == [n \in 0 .. 1 |-> IF n = 0 THEN << >> ELSE << Spawn >>]
<1>5. h \in [0 .. 1 -> Seq(Steps)] /\ h[0] = << >> /\ h[1] = << Spawn >>
  BY DEF Steps
<1>. HIDE DEF h
<1>6. Files(t, h)
  BY <1>2, <1>3, <1>5 DEF Files
<1>. QED  BY <1>2, <1>4, <1>6 DEF Tree

\* The node e is added below the node n.
Sprouts(t, n, e, u) ==
    u = Append([t EXCEPT ![n].nexts = Append(@, Len(t) + 1)], Node(e))

\* The old nodes have the events they had, and the new one has e.
SproutEvents(t, e, u) ==
    /\ \A c \in DOMAIN t : u[c].event = t[c].event
    /\ u[Len(t) + 1].event = e

\* What that does to the branches.
LEMMA SproutBranches ==
    ASSUME NEW t, IsTree(t), NEW n \in DOMAIN t, NEW e \in Event, NEW u, Sprouts(t, n, e, u)
    PROVE  /\ u \in Seq(TreeNode) /\ Len(u) = Len(t) + 1 /\ DOMAIN u = 1 .. Len(t) + 1
           /\ SproutEvents(t, e, u)
           /\ \A m, c : Branch(u, m, c) <=> \/ Branch(t, m, c)
                                            \/ m = n /\ c = Len(t) + 1
<1>. DEFINE N == Len(t) + 1
            w == [t EXCEPT ![n].nexts = Append(@, N)]
<1>1. t \in Seq(TreeNode) /\ Len(t) \in Nat /\ DOMAIN t = 1 .. Len(t) /\ N \in Nat
  BY TreeIs
<1>2. \A m \in DOMAIN t : t[m].event \in Steps /\ t[m].nexts \in Seq(Nat)
  <2>1. \A m \in DOMAIN t : t[m] \in TreeNode
    BY <1>1
  <2>. QED  BY <2>1 DEF TreeNode
<1>3. /\ Node(e) \in TreeNode /\ Node(e).event = e /\ Node(e).nexts = << >>
  BY DEF Node, TreeNode, Steps
<1>4. /\ w \in Seq(TreeNode) /\ Len(w) = Len(t) /\ DOMAIN w = DOMAIN t
      /\ \A m \in DOMAIN t : /\ w[m].event = t[m].event
                             /\ w[m].nexts = IF m = n THEN Append(t[m].nexts, N) ELSE t[m].nexts
  <2>1. \A m \in DOMAIN t : w[m] = IF m = n THEN [t[m] EXCEPT !.nexts = Append(@, N)] ELSE t[m]
    BY <1>1
  <2>2. \A m \in DOMAIN t : t[m] \in TreeNode
    BY <1>1
  <2>3. \A m \in DOMAIN t : /\ w[m] \in TreeNode /\ w[m].event = t[m].event
                            /\ w[m].nexts = IF m = n THEN Append(t[m].nexts, N) ELSE t[m].nexts
    <3>. SUFFICES ASSUME NEW m \in DOMAIN t
                  PROVE  /\ w[m] \in TreeNode /\ w[m].event = t[m].event
                         /\ w[m].nexts = IF m = n THEN Append(t[m].nexts, N) ELSE t[m].nexts
      OBVIOUS
    <3>1. Append(t[m].nexts, N) \in Seq(Nat)
      BY <1>1, <1>2
    <3>. HIDE DEF w, N
    <3>2. CASE m = n
      <4>. DEFINE s == Append(t[m].nexts, N)
      <4>1. w[m] = [t[m] EXCEPT !.nexts = s] /\ t[m] \in TreeNode
        BY <2>1, <2>2, <3>2
      <4>2. s \in Seq(Nat)
        BY <3>1
      <4>. HIDE DEF s
      <4>3. w[m] \in TreeNode /\ w[m].event = t[m].event /\ w[m].nexts = s
        BY <4>1, <4>2 DEF TreeNode
      <4>. QED  BY <3>2, <4>3 DEF s
    <3>3. CASE m # n
      BY <2>1, <2>2, <3>3
    <3>. QED  BY <3>2, <3>3
  <2>4. DOMAIN w = 1 .. Len(t)
    BY <1>1
  <2>5. w = [m \in 1 .. Len(t) |-> w[m]]
    BY <1>1
  <2>. HIDE DEF w
  <2>. QED  BY <1>1, <2>3, <2>4, <2>5
<1>. HIDE DEF w
<1>5. u = Append(w, Node(e))
  BY DEF Sprouts, w, N
<1>6. /\ u \in Seq(TreeNode) /\ Len(u) = N /\ DOMAIN u = 1 .. N
      /\ \A m \in DOMAIN t : u[m] = w[m]
      /\ u[N] = Node(e)
  BY <1>1, <1>3, <1>4, <1>5
<1>7. ASSUME NEW m, NEW c
      PROVE  Branch(u, m, c) <=> \/ Branch(t, m, c)
                                 \/ m = n /\ c = N
  <2>1. CASE m \in DOMAIN t /\ m # n
    <3>1. m \in DOMAIN u /\ u[m].nexts = t[m].nexts
      BY <1>1, <1>4, <1>6, <2>1
    <3>. QED  BY <2>1, <3>1 DEF Branch
  <2>2. CASE m = n
    <3>. DEFINE s == t[n].nexts
    <3>1. m \in DOMAIN u /\ m \in DOMAIN t /\ u[m].nexts = Append(s, N) /\ t[m].nexts = s
      <4>1. m \in DOMAIN t /\ u[m] = w[m] /\ w[m].nexts = Append(s, N)
        BY <1>4, <1>6, <2>2
      <4>2. m \in DOMAIN u
        BY <1>1, <1>6, <4>1
      <4>. QED  BY <2>2, <4>1, <4>2, Zenon
    <3>2. s \in Seq(Nat)
      BY <1>2
    <3>. HIDE DEF s, N
    <3>3. (\E k \in DOMAIN Append(s, N) : Append(s, N)[k] = c)
             <=> \/ \E k \in DOMAIN s : s[k] = c
                 \/ c = N
      <4>1. /\ Len(s) \in Nat /\ DOMAIN s = 1 .. Len(s)
            /\ DOMAIN Append(s, N) = 1 .. Len(s) + 1
            /\ \A k \in 1 .. Len(s) : Append(s, N)[k] = s[k]
            /\ Append(s, N)[Len(s) + 1] = N
        BY <1>1, <3>2
      <4>2. \A k : k \in 1 .. Len(s) + 1 <=> k \in 1 .. Len(s) \/ k = Len(s) + 1
        BY <4>1
      <4>. QED  BY <4>1, <4>2
    <3>. QED  BY <2>2, <3>1, <3>3 DEF Branch
  <2>3. CASE m = N
    <3>1. u[m].nexts = << >> /\ m \notin DOMAIN t /\ m # n
      BY <1>1, <1>3, <1>6, <2>3
    <3>. QED  BY <3>1 DEF Branch
  <2>4. CASE m \notin DOMAIN t /\ m # N
    <3>1. m \notin DOMAIN u /\ m # n
      BY <1>1, <1>6, <2>4
    <3>. QED  BY <2>4, <3>1 DEF Branch
  <2>. QED  BY <2>1, <2>2, <2>3, <2>4
<1>. QED  BY <1>3, <1>4, <1>6, <1>7 DEF SproutEvents, N

\* A tree that sprouts where the event was missing is a tree again.
LEMMA SproutIsTree ==
    ASSUME NEW t, Tree(t), NEW n \in DOMAIN t, NEW e \in Event,
           \A c : Branch(t, n, c) => t[c].event # e,
           NEW u, Sprouts(t, n, e, u)
    PROVE  Tree(u)
<1>. DEFINE N == Len(t) + 1
<1>1. /\ u \in Seq(TreeNode) /\ Len(u) = N /\ DOMAIN u = 1 .. N
      /\ \A c \in DOMAIN t : u[c].event = t[c].event
      /\ u[N].event = e
  BY SproutBranches DEF Tree, SproutEvents
<1>2. \A m, c : Branch(u, m, c) <=> \/ Branch(t, m, c)
                                    \/ m = n /\ c = N
  BY SproutBranches DEF Tree
<1>3. /\ Len(t) \in Nat /\ DOMAIN t = 1 .. Len(t) /\ IsTree(t)
      /\ \A m, c : Branch(t, m, c) => m \in 1 .. Len(t) /\ c \in 2 .. Len(t) /\ m \in 0 .. c - 1
  BY TreeIs DEF Tree
<1>4. \A c \in DOMAIN u : c \in DOMAIN t \/ c = N
  BY <1>1, <1>3
<1>5. \A m, c : Branch(t, m, c) => c \in DOMAIN t /\ c # N
  BY <1>3
<1>6. IsTree(u)
  <2>1. ASSUME NEW m, NEW c, Branch(u, m, c)
        PROVE  c \in DOMAIN u /\ m < c
    <3>1. CASE Branch(t, m, c)
      BY <1>1, <1>3, <3>1
    <3>2. CASE m = n /\ c = N
      BY <1>1, <1>3, <3>2
    <3>. QED  BY <1>2, <2>1, <3>1, <3>2
  <2>2. ASSUME NEW c \in DOMAIN u, c # 1
        PROVE  \E m : Branch(u, m, c)
    <3>1. CASE c \in DOMAIN t
      BY <1>2, <1>3, <2>2, <3>1 DEF IsTree
    <3>2. CASE c = N
      BY <1>2, <3>2
    <3>. QED  BY <1>4, <3>1, <3>2
  <2>3. \A m, l, c : Branch(u, m, c) /\ Branch(u, l, c) => m = l
    <3>1. \A m, l, c : Branch(t, m, c) /\ Branch(t, l, c) => m = l
      BY <1>3 DEF IsTree
    <3>. QED  BY <1>2, <1>5, <3>1
  <2>4. ASSUME NEW m, NEW b, NEW c, Branch(u, m, b), Branch(u, m, c), u[b].event = u[c].event
        PROVE  b = c
    <3>1. CASE Branch(t, m, b) /\ Branch(t, m, c)
      <4>1. t[b].event = t[c].event
        BY <1>1, <1>5, <2>4, <3>1
      <4>. QED  BY <1>3, <3>1, <4>1 DEF IsTree
    <3>2. CASE Branch(t, m, b) /\ m = n /\ c = N
      <4>1. u[b].event # e /\ u[c].event = e
        BY <1>1, <1>5, <3>2
      <4>. QED  BY <2>4, <4>1
    <3>3. CASE Branch(t, m, c) /\ m = n /\ b = N
      <4>1. u[c].event # e /\ u[b].event = e
        BY <1>1, <1>5, <3>3
      <4>. QED  BY <2>4, <4>1
    <3>. QED  BY <1>2, <2>4, <3>1, <3>2, <3>3
  <2>5. ASSUME NEW c \in DOMAIN u
        PROVE  u[c].event = Spawn <=> c = 1
    <3>1. CASE c \in DOMAIN t
      BY <1>1, <1>3, <3>1 DEF IsTree
    <3>2. CASE c = N
      <4>1. N # 1
        BY <1>3
      <4>. QED  BY <1>1, <3>2, <4>1, SpawnAssumption
    <3>. QED  BY <1>4, <3>1, <3>2
  <2>. QED  BY <1>1, <2>1, <2>2, <2>3, <2>4, <2>5, Zenon DEF IsTree
<1>7. PICK h : Files(t, h)
  BY DEF Tree
<1>. DEFINE g == [c \in 0 .. N |-> IF c = N THEN Append(h[n], e) ELSE h[c]]
<1>8. h \in [0 .. Len(t) -> Seq(Steps)] /\ h[0] = << >> /\ e \in Steps
  BY <1>7 DEF Files, Steps
<1>9. /\ g \in [0 .. N -> Seq(Steps)] /\ g[N] = Append(h[n], e)
      /\ \A c \in 0 .. Len(t) : g[c] = h[c]
  <2>1. n \in 0 .. Len(t)
    BY <1>3
  <2>. QED  BY <1>3, <1>8, <2>1
<1>. HIDE DEF g
<1>10. Files(u, g)
  <2>1. g[0] = << >> /\ g[1] = << Spawn >>
    <3>1. 0 \in 0 .. Len(t) /\ 1 \in 0 .. Len(t) /\ t # << >>
      BY <1>3
    <3>. QED  BY <1>7, <1>8, <1>9, <3>1 DEF Files
  <2>2. ASSUME NEW m, NEW c, Branch(u, m, c)
        PROVE  g[c] = Append(g[m], u[c].event)
    <3>1. CASE Branch(t, m, c)
      <4>1. m \in 0 .. Len(t) /\ c \in 0 .. Len(t) /\ c \in DOMAIN t
        BY <1>3, <3>1
      <4>2. h[c] = Append(h[m], t[c].event)
        BY <1>7, <3>1 DEF Files
      <4>. QED  BY <1>1, <1>9, <4>1, <4>2
    <3>2. CASE m = n /\ c = N
      <4>1. n \in 0 .. Len(t)
        BY <1>3
      <4>. QED  BY <1>1, <1>9, <3>2, <4>1
    <3>. QED  BY <1>2, <2>2, <3>1, <3>2
  <2>. QED  BY <1>1, <1>9, <2>1, <2>2, Zenon DEF Files
<1>. QED  BY <1>6, <1>10 DEF Tree

\* No node but the empty history's is filed without Spawn at the beginning.
LEMMA FiledStartWithSpawn ==
    ASSUME NEW t, IsTree(t), NEW h, Files(t, h)
    PROVE  \A n \in DOMAIN t : /\ h[n] \in Seq(Steps)
                               /\ h[n] # << >>
                               /\ h[n][1] = Spawn
<1>. DEFINE S == {n \in 0 .. Len(t) : \A j \in 1 .. n : h[j] # << >> /\ h[j][1] = Spawn}
<1>1. /\ Len(t) \in Nat /\ DOMAIN t = 1 .. Len(t)
      /\ h \in [0 .. Len(t) -> Seq(Steps)] /\ \A n \in DOMAIN t : t[n].event \in Steps
  BY TreeIs DEF Files
<1>2. 0 \in S
  BY <1>1
<1>3. ASSUME NEW n \in 0 .. Len(t) - 1, n \in S
      PROVE  n + 1 \in S
  <2>1. n + 1 \in 1 .. Len(t) /\ n + 1 \in 0 .. Len(t) /\ n + 1 \in DOMAIN t
    BY <1>1
  <2>2. h[n + 1] # << >> /\ h[n + 1][1] = Spawn
    <3>1. CASE n + 1 = 1
      <4>1. t # << >>
        BY <1>1, <2>1
      <4>2. h[n + 1] = << Spawn >>
        BY <3>1, <4>1 DEF Files
      <4>. QED  BY <4>2
    <3>2. CASE n + 1 # 1
      <4>1. n + 1 \in 2 .. Len(t)
        BY <1>1, <2>1, <3>2
      <4>2. PICK m : Branch(t, m, n + 1)
        BY TreeIs, <4>1
      <4>3. m \in 1 .. Len(t) /\ m \in 0 .. (n + 1) - 1
        BY TreeIs, <4>2
      <4>4. m \in 1 .. n /\ m \in 0 .. Len(t)
        BY <1>1, <4>3
      <4>5. h[m] # << >> /\ h[m][1] = Spawn /\ h[m] \in Seq(Steps)
        BY <1>1, <1>3, <4>4
      <4>6. h[n + 1] = Append(h[m], t[n + 1].event)
        BY <4>2 DEF Files
      <4>. QED  BY <1>1, <2>1, <4>5, <4>6
    <3>. QED  BY <3>1, <3>2
  <2>3. \A j \in 1 .. n + 1 : j \in 1 .. n \/ j = n + 1
    BY <1>1
  <2>. QED  BY <1>3, <2>1, <2>2, <2>3
<1>4. 0 .. Len(t) \subseteq S
  <2>. HIDE DEF S
  <2>. QED  BY <1>1, <1>2, <1>3, Induction
<1>5. \A n \in DOMAIN t : n \in 0 .. Len(t) /\ n \in 1 .. n
  BY <1>1
<1>. QED  BY <1>1, <1>4, <1>5

\* Searching the nexts of a node finds the branch with the event, if there is one.
LEMMA MatchingIsBranch ==
    ASSUME IsTree(nodes), NEW n \in DOMAIN nodes, NEW e
    PROVE  \/ /\ Matching(n, e) = None
              /\ \A c : Branch(nodes, n, c) => nodes[c].event # e
           \/ /\ Matching(n, e) \in 2 .. Len(nodes)
              /\ Branch(nodes, n, Matching(n, e))
              /\ nodes[Matching(n, e)].event = e
<1>. DEFINE nexts == nodes[n].nexts
            found == {k \in DOMAIN nexts : nodes[nexts[k]].event = e}
<1>1. nexts \in Seq(Nat) /\ DOMAIN nexts = 1 .. Len(nexts) /\ Len(nexts) \in Nat
  <2>1. nodes[n] \in TreeNode
    BY TreeIs
  <2>. QED  BY <2>1 DEF TreeNode
<1>2. Matching(n, e) = IF found = {} THEN None
                       ELSE nexts[CHOOSE k \in found : \A l \in found : k <= l]
  BY Zenon DEF Matching
<1>3. CASE found = {}
  <2>1. \A c : Branch(nodes, n, c) => nodes[c].event # e
    BY <1>3 DEF Branch
  <2>. QED  BY <1>2, <1>3, <2>1
<1>4. CASE found # {}
  <2>1. found \in SUBSET Nat
    BY <1>1
  <2>. DEFINE k == CHOOSE x \in found : \A l \in found : x <= l
  <2>2. k \in found
    <3>. HIDE DEF found
    <3>1. \E x \in found : \A l \in found : x <= l
      BY <1>4, <2>1, Least
    <3>. QED  BY <3>1, Zenon
  <2>3. Matching(n, e) = nexts[k]
    BY <1>2, <1>4
  <2>. HIDE DEF k
  <2>4. Branch(nodes, n, nexts[k]) /\ nodes[nexts[k]].event = e
    BY <2>2 DEF Branch
  <2>5. nexts[k] \in 2 .. Len(nodes)
    BY TreeIs, <2>4
  <2>. QED  BY <2>3, <2>4, <2>5
<1>. QED  BY <1>3, <1>4

-----------------------------------------------------------------------------
(* Trace trees: the invariant, and the refinement                          *)

\* The inductive invariant: the nodes are a tree, and the cursor is in it.
TreeInv == Tree(nodes) /\ cursor \in 0 .. Len(nodes)

\* The cursor is on the history that was extended, and nothing else was filed.
VisitFiles(e) ==
    /\ (HistoryOf[cursor])' = Append(HistoryOf[cursor], e)
    /\ {HistoryOf[n] : n \in DOMAIN nodes}'
          = {HistoryOf[n] : n \in DOMAIN nodes} \cup {(HistoryOf[cursor])'}

\* A visit files the history of the trace so far.
LEMMA VisitIsFiled ==
    ASSUME TreeInv, NEW e \in IF cursor = None THEN {Spawn} ELSE Event, Visit(e)
    PROVE  TreeInv' /\ VisitFiles(e)
<1>. DEFINE t == nodes
            u == nodes'
            h == HistoryOf
            g == HistoryOf'
            c == cursor
            d == cursor'
<1>1. /\ Tree(t) /\ IsTree(t) /\ c \in 0 .. Len(t) /\ Files(t, h)
      /\ Len(t) \in Nat /\ DOMAIN t = 1 .. Len(t) /\ t \in Seq(TreeNode)
  BY HistoryOfFiles, TreeIs DEF TreeInv, Tree
<1>2. Tree(u) => Files(u, g)
  BY HistoryOfFilesAgain
<1>3. h[0] = << >>
  BY <1>1 DEF Files
<1>4. CASE Empty
  <2>1. t = << >> /\ c = 0 /\ e = Spawn /\ d = 1 /\ u = << Node(Spawn) >> /\ DOMAIN t = {}
    BY <1>1, <1>4 DEF Empty, Visit, Root, None
  <2>2. Tree(u) /\ DOMAIN u = 1 .. 1 /\ Len(u) = 1
    BY <2>1, RootIsTree
  <2>3. g[1] = << Spawn >>
    <3>1. u # << >>
      BY <2>2
    <3>. QED  BY <1>2, <2>2, <3>1 DEF Files
  <2>. HIDE DEF t, u, h, g, c, d
  <2>4. g[d] = Append(h[c], e) /\ {g[n] : n \in DOMAIN u} = {h[n] : n \in DOMAIN t} \cup {g[d]}
    BY <1>3, <2>1, <2>2, <2>3
  <2>. QED  BY <2>1, <2>2, <2>4 DEF VisitFiles, TreeInv, t, u, h, g, c, d
<1>5. ASSUME ~Empty, u = t, d \in DOMAIN t, h[d] = Append(h[c], e)
      PROVE  TreeInv' /\ VisitFiles(e)
  <2>1. Files(u, g) /\ IsTree(u)
    BY <1>1, <1>2, <1>5
  <2>2. \A n \in 0 .. Len(t) : g[n] = h[n]
    <3>. HIDE DEF t, u, h, g
    <3>. QED  BY <1>1, <1>5, <2>1, GrownFiles
  <2>3. Tree(u) /\ d \in 0 .. Len(u)
    BY <1>1, <1>5
  <2>. HIDE DEF t, u, h, g, c, d
  <2>4. g[d] = Append(h[c], e) /\ {g[n] : n \in DOMAIN u} = {h[n] : n \in DOMAIN t} \cup {g[d]}
    <3>1. \A n \in DOMAIN t : n \in 0 .. Len(t)
      BY <1>1
    <3>. QED  BY <1>5, <2>2, <3>1
  <2>. QED  BY <2>3, <2>4 DEF VisitFiles, TreeInv, t, u, h, g, c, d
<1>6. CASE ~Empty /\ c = None
  <2>1. u = t /\ d = 1 /\ e = Spawn /\ t # << >>
    BY <1>6 DEF Visit, Root, Empty
  <2>2. d \in DOMAIN t
    BY <1>1, <2>1
  <2>3. h[d] = << Spawn >> /\ h[c] = << >>
    BY <1>1, <1>3, <1>6, <2>1 DEF Files, None
  <2>. HIDE DEF t, u, h, g, c, d
  <2>4. h[d] = Append(h[c], e)
    BY <2>1, <2>3
  <2>. QED  BY <1>5, <1>6, <2>1, <2>2, <2>4
<1>7. CASE ~Empty /\ c # None
  <2>1. c \in DOMAIN t /\ e \in Event
    BY <1>1, <1>7 DEF None
  <2>2. CASE Matching(c, e) # None
    <3>1. u = t /\ d = Matching(c, e)
      BY <1>7, <2>2 DEF Visit
    <3>2. d \in 2 .. Len(t) /\ Branch(t, c, d) /\ t[d].event = e
      BY <1>1, <2>1, <2>2, <3>1, MatchingIsBranch
    <3>3. d \in DOMAIN t
      BY <1>1, <3>2
    <3>4. h[d] = Append(h[c], e)
      BY <1>1, <3>2 DEF Files
    <3>. HIDE DEF t, u, h, g, c, d
    <3>. QED  BY <1>5, <1>7, <3>1, <3>3, <3>4
  <2>3. CASE Matching(c, e) = None
    <3>1. Sprouts(t, c, e, u) /\ d = Len(t) + 1
      BY <1>7, <2>3 DEF Visit, Sprouts
    <3>2. \A b : Branch(t, c, b) => t[b].event # e
      <4>1. ~(None \in 2 .. Len(t))
        BY DEF None
      <4>. QED  BY <1>1, <2>1, <2>3, <4>1, MatchingIsBranch
    <3>. HIDE DEF t, u, h, g, c, d
    <3>3. Tree(u)
      BY <1>1, <2>1, <3>1, <3>2, SproutIsTree
    <3>4. /\ Len(u) = Len(t) + 1 /\ DOMAIN u = 1 .. Len(t) + 1
          /\ \A b \in DOMAIN t : u[b].event = t[b].event
          /\ u[Len(t) + 1].event = e
      <4>1. Len(u) = Len(t) + 1 /\ DOMAIN u = 1 .. Len(t) + 1
        BY <1>1, <2>1, <3>1, SproutBranches
      <4>2. SproutEvents(t, e, u)
        BY <1>1, <2>1, <3>1, SproutBranches
      <4>. QED  BY <4>1, <4>2, Zenon DEF SproutEvents
    <3>5. \A m, b : Branch(u, m, b) <=> \/ Branch(t, m, b)
                                        \/ m = c /\ b = Len(t) + 1
      BY <1>1, <2>1, <3>1, SproutBranches
    <3>6. Files(u, g)
      BY <1>2, <3>3
    <3>7. \A n \in 0 .. Len(t) : g[n] = h[n]
      <4>1. Len(t) <= Len(u) /\ IsTree(t) /\ IsTree(u)
        BY <1>1, <3>3, <3>4 DEF Tree
      <4>2. \A m, b : Branch(t, m, b) => Branch(u, m, b)
        BY <3>5
      <4>3. \A b \in DOMAIN t : u[b].event = t[b].event
        BY <3>4
      <4>4. Files(t, h)
        BY <1>1
      <4>. QED  BY <3>6, <4>1, <4>2, <4>3, <4>4, GrownFiles
    <3>8. g[d] = Append(g[c], e)
      <4>1. Branch(u, c, d) /\ u[d].event = e
        BY <3>1, <3>4, <3>5
      <4>. QED  BY <3>6, <4>1 DEF Files
    <3>9. g[d] = Append(h[c], e) /\ {g[n] : n \in DOMAIN u} = {h[n] : n \in DOMAIN t} \cup {g[d]}
      <4>1. c \in 0 .. Len(t) /\ \A n \in DOMAIN t : n \in 0 .. Len(t)
        BY <1>1
      <4>2. \A n : n \in DOMAIN u <=> n \in DOMAIN t \/ n = d
        BY <1>1, <3>1, <3>4
      <4>. QED  BY <3>7, <3>8, <4>1, <4>2
    <3>10. d \in 0 .. Len(u)
      BY <1>1, <3>1, <3>4
    <3>. QED  BY <3>3, <3>9, <3>10 DEF VisitFiles, TreeInv, t, u, h, g, c, d
  <2>. QED  BY <2>2, <2>3
<1>. QED  BY <1>4, <1>6, <1>7

\* A step of the tree is one of the set of histories.
LEMMA TreeStepIsHistoryStep ==
    ASSUME TreeInv, [TreeNext]_tree
    PROVE  TreeInv' /\ [Abstract!Next]_Abstract!vars
<1>1. Tree(nodes) /\ IsTree(nodes) /\ Files(nodes, HistoryOf) /\ HistoryOf[0] = << >>
  BY HistoryOfFiles DEF TreeInv, Tree, Files
<1>2. ASSUME nodes' = nodes
      PROVE  HistoryOf' = HistoryOf
  BY <1>2 DEF HistoryOf, ParentOf, None, Root
<1>3. CASE Step
  <2>1. PICK e \in IF cursor = None THEN {Spawn} ELSE Event : Visit(e)
    BY <1>3 DEF Step
  <2>2. TreeInv' /\ VisitFiles(e)
    BY <2>1, VisitIsFiled
  <2>3. HistoryOf[cursor] = << >> <=> e = Spawn
    <3>1. CASE cursor = None
      BY <1>1, <2>1, <3>1 DEF None
    <3>2. CASE cursor # None
      <4>1. cursor \in DOMAIN nodes
        BY <1>1, <3>2, TreeIs DEF None, TreeInv
      <4>2. HistoryOf[cursor] # << >>
        BY <1>1, <4>1, FiledStartWithSpawn
      <4>. QED  BY <2>1, <3>2, <4>2, SpawnAssumption
    <3>. QED  BY <3>1, <3>2
  <2>4. e \in Event \cup {Spawn}
    BY <2>1
  <2>5. Abstract!Visit(e)
    BY <2>2, <2>3, Zenon DEF VisitFiles, Abstract!Visit
  <2>. QED  BY <2>2, <2>4, <2>5 DEF Abstract!Next
<1>4. CASE ResetCursor
  <2>1. nodes' = nodes /\ cursor' = 0
    BY <1>4 DEF ResetCursor, None
  <2>2. HistoryOf' = HistoryOf
    BY <1>2, <2>1
  <2>3. TreeInv'
    <3>1. 0 \in 0 .. Len(nodes)
      BY <1>1, TreeIs
    <3>. QED  BY <2>1, <3>1 DEF TreeInv
  <2>4. Abstract!ResetCursor
    BY <1>1, <2>1, <2>2 DEF Abstract!ResetCursor
  <2>. QED  BY <2>3, <2>4 DEF Abstract!Next
<1>5. CASE UNCHANGED tree
  <2>1. nodes' = nodes /\ cursor' = cursor
    BY <1>5 DEF tree
  <2>. QED  BY <1>2, <2>1 DEF TreeInv, Abstract!vars
<1>. QED  BY <1>3, <1>4, <1>5 DEF TreeNext

\* There is no node at first.
LEMMA EmptyIsTree ==
    ASSUME TreeInit
    PROVE  TreeInv /\ Abstract!Init
<1>1. nodes = << >> /\ cursor = 0 /\ Len(nodes) = 0 /\ DOMAIN nodes = {}
  BY DEF TreeInit, None
<1>2. \A m, c : ~Branch(nodes, m, c)
  BY <1>1 DEF Branch
<1>3. nodes \in Seq(TreeNode)
  BY <1>1
<1>4. IsTree(nodes)
  BY <1>1, <1>2, <1>3, Zenon DEF IsTree
<1>5. Files(nodes, [n \in 0 .. 0 |-> << >>])
  BY <1>1, <1>2 DEF Files
<1>6. TreeInv
  BY <1>1, <1>4, <1>5 DEF TreeInv, Tree
<1>7. HistoryOf[0] = << >>
  BY <1>6, HistoryOfFiles DEF TreeInv, Files
<1>. QED  BY <1>1, <1>6, <1>7 DEF Abstract!Init

\* TreeInv is inductive.
LEMMA TreeInvHolds == TreeSpec => []TreeInv
BY EmptyIsTree, TreeStepIsHistoryStep, PTL DEF TreeSpec

(***************************************************************************)
(* The tree of shared nodes with its cursor implements the set of visited  *)
(* histories, for any events and trees of any size (trace_tree.rs, visit   *)
(* and reset_cursor): whatever branch a trace goes down or off, its steps  *)
(* are filed under its own history.                                        *)
(***************************************************************************)
THEOREM TreesImplementHistories == TreeSpec => ImplementsHistories
<1>1. TreeInit => Abstract!Init
  BY EmptyIsTree
<1>2. TreeInv /\ [TreeNext]_tree => [Abstract!Next]_Abstract!vars
  BY TreeStepIsHistoryStep
<1>. QED  BY <1>1, <1>2, TreeInvHolds, PTL DEF TreeSpec, ImplementsHistories, Abstract!Spec

-----------------------------------------------------------------------------
(* Trace trees: no two nodes for one history, and lookups                  *)

\* The history x is s and one event more.
Extends(x, s, e) == x = Append(s, e)

\* A sequence determines its last element and what is before.
LEMMA ExtendsIsInjective ==
    ASSUME NEW V, NEW s \in Seq(V), NEW u \in Seq(V), NEW d, NEW e,
           NEW x, Extends(x, s, d), Extends(x, u, e)
    PROVE  s = u /\ d = e
<1>1. /\ Len(Append(s, d)) = Len(s) + 1 /\ Append(s, d)[Len(s) + 1] = d
      /\ \A k \in 1 .. Len(s) : Append(s, d)[k] = s[k]
  OBVIOUS
<1>2. /\ Len(Append(u, e)) = Len(u) + 1 /\ Append(u, e)[Len(u) + 1] = e
      /\ \A k \in 1 .. Len(u) : Append(u, e)[k] = u[k]
  OBVIOUS
<1>3. Append(s, d) = Append(u, e)
  BY Zenon DEF Extends
<1>4. Len(s) = Len(u) /\ Len(s) \in Nat
  BY <1>1, <1>2, <1>3
<1>5. d = e
  BY <1>1, <1>2, <1>3, <1>4
<1>6. \A k \in 1 .. Len(s) : s[k] = u[k]
  BY <1>1, <1>2, <1>3, <1>4
<1>. QED  BY <1>4, <1>5, <1>6

\* The histories of the nodes.
Filed(t, h) == {h[n] : n \in DOMAIN t}

\* No two nodes stand for one history.
LEMMA FiledApart ==
    ASSUME NEW t, IsTree(t), NEW h, Files(t, h)
    PROVE  \A a, b \in 0 .. Len(t) : h[a] = h[b] => a = b
<1>. DEFINE S == {n \in 0 .. Len(t) : \A a, b \in 0 .. n : h[a] = h[b] => a = b}
<1>1. /\ Len(t) \in Nat /\ DOMAIN t = 1 .. Len(t)
      /\ h \in [0 .. Len(t) -> Seq(Steps)] /\ h[0] = << >>
  BY TreeIs DEF Files
<1>2. 0 \in S
  BY <1>1
<1>3. ASSUME NEW n \in 0 .. Len(t) - 1, n \in S
      PROVE  n + 1 \in S
  <2>1. n + 1 \in 1 .. Len(t) /\ n + 1 \in 0 .. Len(t) /\ n + 1 \in DOMAIN t /\ n \in Nat
    BY <1>1
  <2>2. ASSUME NEW a \in 0 .. n PROVE h[a] # h[n + 1]
    <3>0. a \in 0 .. Len(t)
      BY <1>1
    <3>1. CASE a = 0
      <4>1. h[n + 1] # << >>
        BY <2>1, FiledStartWithSpawn
      <4>. QED  BY <1>1, <3>1, <4>1
    <3>2. CASE a # 0
      <4>1. a \in DOMAIN t /\ n + 1 \in 2 .. Len(t) /\ t # << >>
        BY <1>1, <2>1, <3>2
      <4>2. PICK m : Branch(t, m, n + 1)
        BY TreeIs, <4>1
      <4>3. m \in 1 .. Len(t) /\ m \in 0 .. (n + 1) - 1
        BY TreeIs, <4>2
      <4>4. m \in 0 .. n /\ m \in 0 .. Len(t) /\ m \in DOMAIN t
        BY <1>1, <4>3
      <4>5. h[n + 1] = Append(h[m], t[n + 1].event) /\ h[m] \in Seq(Steps) /\ h[m] # << >>
        BY <4>2, <4>4, FiledStartWithSpawn DEF Files
      <4>6. CASE a = 1
        <5>1. Extends(h[a], << >>, Spawn) /\ << >> \in Seq(Steps)
          BY <4>1, <4>6 DEF Files, Extends
        <5>2. ASSUME h[a] = h[n + 1] PROVE FALSE
          <6>1. Extends(h[a], h[m], t[n + 1].event)
            BY <4>5, <5>2, Zenon DEF Extends
          <6>0. h[m] \in Seq(Steps)
            BY <4>5
          <6>2. h[m] = << >>
            BY <5>1, <6>0, <6>1, ExtendsIsInjective
          <6>. QED  BY <4>5, <6>2
        <5>. QED  BY <5>2
      <4>7. CASE a # 1
        <5>1. a \in 2 .. Len(t)
          BY <1>1, <4>1, <4>7
        <5>2. PICK p : Branch(t, p, a)
          BY TreeIs, <5>1
        <5>3. p \in 1 .. Len(t) /\ p \in 0 .. a - 1
          BY TreeIs, <5>2
        <5>4. p \in 0 .. n /\ p \in 0 .. Len(t)
          BY <1>1, <2>1, <5>3
        <5>5. h[a] = Append(h[p], t[a].event) /\ h[p] \in Seq(Steps)
          BY <1>1, <5>2, <5>4 DEF Files
        <5>6. ASSUME h[a] = h[n + 1] PROVE FALSE
          <6>1. Extends(h[a], h[p], t[a].event) /\ Extends(h[a], h[m], t[n + 1].event)
            BY <4>5, <5>5, <5>6, Zenon DEF Extends
          <6>2. h[p] = h[m] /\ t[a].event = t[n + 1].event
            BY <4>5, <5>5, <6>1, ExtendsIsInjective
          <6>3. p = m
            BY <1>3, <4>4, <5>4, <6>2
          <6>4. a = n + 1
            BY <4>2, <5>2, <6>2, <6>3, Zenon DEF IsTree
          <6>. QED  BY <2>1, <6>4
        <5>. QED  BY <5>6
      <4>. QED  BY <4>6, <4>7
    <3>. QED  BY <3>1, <3>2
  <2>3. \A j \in 0 .. n + 1 : j \in 0 .. n \/ j = n + 1
    BY <2>1
  <2>4. \A a, b \in 0 .. n : h[a] = h[b] => a = b
    BY <1>3
  <2>5. \A a, b \in 0 .. n + 1 : h[a] = h[b] => a = b
    BY <2>2, <2>3, <2>4, Zenon
  <2>. QED  BY <2>1, <2>5
<1>4. 0 .. Len(t) \subseteq S
  <2>. HIDE DEF S
  <2>. QED  BY <1>1, <1>2, <1>3, Induction
<1>5. Len(t) \in 0 .. Len(t)
  BY <1>1
<1>. QED  BY <1>4, <1>5

\* There are as many histories as nodes.
LEMMA FiledAreAsMany ==
    ASSUME NEW t, IsTree(t), NEW h, Files(t, h)
    PROVE  Cardinality(Filed(t, h)) = Len(t)
<1>. DEFINE D == 1 .. Len(t)
            F == Filed(t, h)
            f == [n \in D |-> h[n]]
<1>1. Len(t) \in Nat /\ DOMAIN t = D
  BY TreeIs
<1>2. IsFiniteSet(D) /\ Cardinality(D) = Len(t)
  <2>1. 1 \in Int /\ Len(t) \in Int
    BY <1>1
  <2>2. IsFiniteSet(D) /\ Cardinality(D) = IF 1 > Len(t) THEN 0 ELSE Len(t) - 1 + 1
    BY <2>1, FS_Interval, Zenon
  <2>. QED  BY <1>1, <2>2
<1>3. \A a, b \in D : f[a] = f[b] => a = b
  <2>1. \A a \in D : a \in 0 .. Len(t)
    BY <1>1
  <2>. QED  BY <2>1, FiledApart
<1>4. F = {f[n] : n \in D} /\ DOMAIN f = D
  BY <1>1 DEF Filed
<1>. HIDE DEF D, F, f
<1>5. f \in [D -> F] /\ \A y \in F : \E n \in D : f[n] = y
  <2>1. f = [n \in D |-> f[n]]
    BY <1>4 DEF f
  <2>. QED  BY <1>4, <2>1
<1>6. f \in Bijection(D, F)
  BY <1>3, <1>5, Zenon DEF Bijection, Injection, Surjection, IsInjective
<1>7. ExistsBijection(D, F)
  BY <1>6 DEF ExistsBijection
<1>. QED  BY <1>2, <1>7, FS_Bijection, Zenon DEF F

\* The node n hangs from the one that the history s is filed under, with the event e.
HangsFrom(t, h, n, s, e) ==
    \E m \in DOMAIN t : Branch(t, m, n) /\ h[m] = s /\ t[n].event = e

\* What a filed history continues is filed, and hangs from there.
LEMMA FiledBranch ==
    ASSUME NEW t, IsTree(t), NEW h, Files(t, h),
           NEW s \in Seq(Steps), s # << >>, NEW e, NEW n \in DOMAIN t, Extends(h[n], s, e)
    PROVE  HangsFrom(t, h, n, s, e)
<1>1. /\ Len(t) \in Nat /\ DOMAIN t = 1 .. Len(t) /\ t # << >>
      /\ h \in [0 .. Len(t) -> Seq(Steps)]
  BY TreeIs DEF Files
<1>2. CASE n = 1
  <2>1. Extends(h[n], << >>, Spawn) /\ << >> \in Seq(Steps)
    BY <1>1, <1>2 DEF Files, Extends
  <2>2. s = << >>
    BY <2>1, ExtendsIsInjective
  <2>. QED  BY <2>2
<1>3. CASE n # 1
  <2>1. n \in 2 .. Len(t)
    BY <1>1, <1>3
  <2>2. PICK m : Branch(t, m, n)
    BY TreeIs, <2>1
  <2>3. m \in 1 .. Len(t) /\ m \in 0 .. Len(t)
    BY TreeIs, <1>1, <2>2
  <2>4. Extends(h[n], h[m], t[n].event) /\ h[m] \in Seq(Steps)
    BY <1>1, <2>2, <2>3 DEF Files, Extends
  <2>5. h[m] = s /\ t[n].event = e
    BY <2>4, ExtendsIsInjective
  <2>. QED  BY <1>1, <2>2, <2>3, <2>5 DEF HangsFrom
<1>. QED  BY <1>2, <1>3

\* The node r is the one that the history s is filed under, or there is none.
Finds(t, h, s, r) ==
    \/ r = None /\ s \notin Filed(t, h)
    \/ r \in DOMAIN t /\ h[r] = s

\* A search for an event finds the continuation of the history.
LEMMA MatchingFinds ==
    ASSUME IsTree(nodes), NEW h, Files(nodes, h), NEW r \in DOMAIN nodes, NEW e
    PROVE  Finds(nodes, h, Append(h[r], e), Matching(r, e))
<1>. DEFINE t == nodes
            c == Matching(r, e)
<1>1. /\ Len(t) \in Nat /\ DOMAIN t = 1 .. Len(t)
      /\ h[r] \in Seq(Steps) /\ h[r] # << >>
  BY TreeIs, FiledStartWithSpawn
<1>2. \/ /\ c = None
         /\ \A b : Branch(t, r, b) => t[b].event # e
      \/ /\ c \in 2 .. Len(t)
         /\ Branch(t, r, c)
         /\ t[c].event = e
  BY MatchingIsBranch
<1>. HIDE DEF c
<1>3. CASE c = None /\ \A b : Branch(t, r, b) => t[b].event # e
  <2>1. ASSUME NEW n \in DOMAIN t, h[n] = Append(h[r], e) PROVE FALSE
    <3>0. Extends(h[n], h[r], e)
      BY <2>1 DEF Extends
    <3>1. PICK m \in DOMAIN t : Branch(t, m, n) /\ h[m] = h[r] /\ t[n].event = e
      <4>1. HangsFrom(t, h, n, h[r], e)
        BY <1>1, <3>0, FiledBranch
      <4>. QED  BY <4>1 DEF HangsFrom
    <3>2. m \in 0 .. Len(t) /\ r \in 0 .. Len(t)
      BY <1>1
    <3>3. m = r
      BY <3>1, <3>2, FiledApart
    <3>. QED  BY <1>3, <3>1, <3>3
  <2>. QED  BY <1>3, <2>1 DEF Finds, Filed, c
<1>4. CASE c \in 2 .. Len(t) /\ Branch(t, r, c) /\ t[c].event = e
  <2>1. c \in DOMAIN t
    BY <1>1, <1>4
  <2>2. h[c] = Append(h[r], e)
    BY <1>4 DEF Files
  <2>. QED  BY <2>1, <2>2 DEF Finds, c
<1>. QED  BY <1>2, <1>3, <1>4

\* The recursion of visited.
Reaches(prefix, reached) ==
    reached = [k \in 0 .. Len(prefix) |->
                 IF k <= 1 THEN Root
                 ELSE IF reached[k - 1] = None THEN None ELSE Matching(reached[k - 1], prefix[k])]

\* What visited answers at the node it reached.
Answer(prefix, last, node) ==
    CASE Empty -> "false"
      [] ~Empty /\ prefix = << >> -> "Prefix empty."
      [] ~Empty /\ prefix # << >> /\ nodes[Root].event # prefix[1] -> "Spawn event did not match."
      [] ~Empty /\ prefix # << >> /\ nodes[Root].event = prefix[1] /\ node = None ->
            "Invalid prefix."
      [] OTHER -> IF Matching(node, last) # None THEN "true" ELSE "false"

\* One step down.
Down(prefix, k, r) == IF k = 1 THEN Root ELSE IF r = None THEN None ELSE Matching(r, prefix[k])

\* There is such a function, and visited answers from its last value.
LEMMA VisitedIsDefined ==
    ASSUME Tree(nodes), ~Empty, NEW prefix \in Seq(Steps), NEW last
    PROVE  \E reached :
              /\ Visited(prefix, last) = Answer(prefix, last, reached[Len(prefix)])
              /\ \A k \in 1 .. Len(prefix) : reached[k] = Down(prefix, k, reached[k - 1])
<1>. DEFINE n == Len(prefix)
            V == 0 .. Len(nodes)
            down(k, r) == Down(prefix, k, r)
            step == [k \in 1 .. n |-> [r \in V |-> down(k, r)]]
<1>1. n \in Nat /\ Root \in V
  <2>1. Len(nodes) \in Nat /\ Len(nodes) # 0
    BY TreeIs DEF Tree, Empty, IsTree
  <2>. QED  BY <2>1 DEF Root
<1>2. \A k \in 1 .. n : \A r \in V : down(k, r) \in V
  <2>. SUFFICES ASSUME NEW k \in 1 .. n, NEW r \in V PROVE down(k, r) \in V
    OBVIOUS
  <2>1. Len(nodes) \in Nat /\ DOMAIN nodes = 1 .. Len(nodes) /\ None \in V
    BY TreeIs DEF Tree, None
  <2>2. CASE r # None
    <3>1. r \in DOMAIN nodes
      BY <2>1, <2>2 DEF None
    <3>2. Matching(r, prefix[k]) = None \/ Matching(r, prefix[k]) \in 2 .. Len(nodes)
      BY <3>1, MatchingIsBranch DEF Tree
    <3>3. Matching(r, prefix[k]) \in V
      BY <2>1, <3>2
    <3>. QED  BY <1>1, <2>1, <3>3 DEF Down
  <2>. QED  BY <1>1, <2>1, <2>2 DEF Down
<1>. HIDE DEF n, V, down
<1>3. step \in StepsUpTo(n, V)
  BY <1>2 DEF StepsUpTo
<1>4. \A k \in 1 .. n : \A r \in V : step[k][r] = down(k, r)
  OBVIOUS
<1>. HIDE DEF step
<1>5. PICK f \in [0 .. n -> V] : f[0] = Root /\ \A k \in 1 .. n : f[k] = step[k][f[k - 1]]
  <2>1. PICK f : Iterates(n, V, Root, step, f)
    BY <1>1, <1>3, Iteration, Zenon
  <2>. QED  BY <2>1 DEF Iterates
<1>. DEFINE body(f_, k) == IF k <= 1 THEN Root
                          ELSE IF f_[k - 1] = None THEN None
                          ELSE Matching(f_[k - 1], prefix[k])
<1>6. \A g : \A k \in 1 .. n : body(g, k) = down(k, g[k - 1])
  <2>1. \A k \in 1 .. n : k <= 1 <=> k = 1
    BY <1>1
  <2>. QED  BY <2>1 DEF down, Down
<1>7. \A g : body(g, 0) = Root
  OBVIOUS
<1>8. Reaches(prefix, f)
  <2>. HIDE DEF body
  <2>1. \A k \in 1 .. n : f[k - 1] \in V
    BY <1>1
  <2>2. \A k \in 0 .. n : f[k] = body(f, k)
    <3>1. \A k \in 0 .. n : k = 0 \/ k \in 1 .. n
      BY <1>1
    <3>2. \A k \in 1 .. n : f[k] = body(f, k)
      <4>. SUFFICES ASSUME NEW k \in 1 .. n PROVE f[k] = body(f, k)
        OBVIOUS
      <4>1. f[k] = step[k][f[k - 1]] /\ f[k - 1] \in V
        BY <1>5, <2>1
      <4>2. f[k] = down(k, f[k - 1])
        BY <1>4, <4>1
      <4>3. body(f, k) = down(k, f[k - 1])
        BY <1>6, Zenon
      <4>. QED  BY <4>2, <4>3
    <3>. QED  BY <1>5, <1>7, <3>1, <3>2
  <2>3. f = [k \in 0 .. n |-> f[k]]
    OBVIOUS
  <2>4. f = [k \in 0 .. n |-> body(f, k)]
    BY <2>2, <2>3, Zenon
  <2>. QED  BY <2>4, Zenon DEF Reaches, n, body
<1>9. PICK g : Reaches(prefix, g) /\ Visited(prefix, last) = Answer(prefix, last, g[n])
  <2>1. Visited(prefix, last)
           = Answer(prefix, last, (CHOOSE g : Reaches(prefix, g))[Len(prefix)])
    BY Zenon DEF Visited, Answer, Reaches
  <2>2. Reaches(prefix, CHOOSE g : Reaches(prefix, g))
    BY <1>8, Zenon
  <2>. QED  BY <2>1, <2>2, Zenon DEF n
<1>10. \A k \in 1 .. n : g[k] = down(k, g[k - 1])
  <2>1. g = [k \in 0 .. n |-> body(g, k)]
    BY <1>9, Zenon DEF Reaches, n
  <2>. HIDE DEF body
  <2>2. \A k \in 0 .. n : g[k] = body(g, k)
    BY <2>1
  <2>3. \A k \in 1 .. n : k \in 0 .. n
    BY <1>1
  <2>. QED  BY <1>6, <2>2, <2>3
<1>. QED  BY <1>9, <1>10 DEF n, down

\* Following a history from the root finds its node, if it was filed.
LEMMA ReachedFinds ==
    ASSUME IsTree(nodes), ~Empty, NEW h, Files(nodes, h),
           NEW prefix \in Seq(Steps), prefix # << >>, prefix[1] = Spawn,
           NEW reached, \A k \in 1 .. Len(prefix) : reached[k] = Down(prefix, k, reached[k - 1])
    PROVE  Finds(nodes, h, prefix, reached[Len(prefix)])
<1>. DEFINE t == nodes
            n == Len(prefix) - 1
            upto(k) == SubSeq(prefix, 1, k + 1)
            S == {k \in 0 .. n : Finds(t, h, upto(k), reached[k + 1])}
<1>1. /\ n \in Nat /\ t # << >> /\ 1 \in DOMAIN t
      /\ Len(t) \in Nat /\ DOMAIN t = 1 .. Len(t) /\ Root = 1 /\ None = 0
  BY TreeIs DEF Empty, Root, None
<1>2. 0 \in S
  <2>1. upto(0) = << Spawn >> /\ h[1] = << Spawn >>
    <3>1. 1 <= Len(prefix)
      BY <1>1
    <3>2. SubSeq(prefix, 1, 1) = << prefix[1] >>
      <4>. DEFINE x == SubSeq(prefix, 1, 1)
                  y == << prefix[1] >>
      <4>1. x \in Seq(Steps) /\ Len(x) = 1 /\ x[1] = prefix[1]
        BY <3>1
      <4>2. prefix[1] \in Steps
        BY <3>1
      <4>3. y \in Seq(Steps) /\ Len(y) = 1 /\ y[1] = prefix[1]
        BY <4>2
      <4>4. \A l \in 1 .. 1 : l = 1
        OBVIOUS
      <4>. HIDE DEF x, y
      <4>5. \A l \in 1 .. Len(x) : x[l] = y[l]
        BY <4>1, <4>3, <4>4
      <4>6. x = y
        BY <4>1, <4>3, <4>5
      <4>. QED  BY <4>6 DEF x, y
    <3>. QED  BY <1>1, <3>2 DEF Files
  <2>2. reached[1] = 1
    BY <1>1 DEF Down
  <2>. HIDE DEF n, upto
  <2>. QED  BY <1>1, <2>1, <2>2 DEF Finds
<1>3. ASSUME NEW k \in 0 .. n - 1, k \in S
      PROVE  k + 1 \in S
  <2>. DEFINE e == prefix[k + 2]
              r == reached[k + 1]
              c == reached[k + 2]
  <2>1. /\ k + 2 \in 1 .. Len(prefix) /\ (k + 2) - 1 = k + 1 /\ k + 2 # 1
        /\ k + 1 \in 0 .. n /\ (k + 1) + 1 = k + 2
    BY <1>1
  <2>2. /\ upto(k + 1) = Append(upto(k), e) /\ upto(k) \in Seq(Steps) /\ upto(k) # << >>
    <3>1. k + 1 \in 1 .. Len(prefix) - 1
      BY <1>1
    <3>2. /\ SubSeq(prefix, 1, k + 1) \in Seq(Steps)
          /\ Len(SubSeq(prefix, 1, k + 1)) = k + 1
      BY <3>1
    <3>3. SubSeq(prefix, 1, k + 2) = Append(SubSeq(prefix, 1, k + 1), prefix[k + 2])
      <4>. DEFINE x == SubSeq(prefix, 1, k + 2)
                  y == Append(SubSeq(prefix, 1, k + 1), prefix[k + 2])
      <4>1. /\ k + 2 \in Nat /\ k + 2 = (k + 1) + 1
            /\ \A l \in 1 .. k + 2 : l \in 1 .. k + 1 \/ l = k + 2
        BY <3>1
      <4>2. x \in Seq(Steps) /\ Len(x) = k + 2 /\ \A l \in 1 .. k + 2 : x[l] = prefix[l]
        BY <3>1
      <4>3. /\ SubSeq(prefix, 1, k + 1) \in Seq(Steps) /\ prefix[k + 2] \in Steps
            /\ Len(SubSeq(prefix, 1, k + 1)) = k + 1
            /\ \A l \in 1 .. k + 1 : SubSeq(prefix, 1, k + 1)[l] = prefix[l]
        BY <3>1
      <4>4. y \in Seq(Steps) /\ Len(y) = k + 2 /\ \A l \in 1 .. k + 2 : y[l] = prefix[l]
        BY <4>1, <4>3
      <4>. HIDE DEF x, y
      <4>. QED  BY <4>1, <4>2, <4>4 DEF x, y
    <3>4. SubSeq(prefix, 1, k + 1) # << >>
      <4>1. k + 1 # 0 /\ Len(<< >>) = 0
        BY <3>1
      <4>. QED  BY <3>2, <4>1
    <3>. QED  BY <2>1, <3>2, <3>3, <3>4
  <2>3. c = IF r = None THEN None ELSE Matching(r, e)
    BY <2>1 DEF Down
  <2>4. Finds(t, h, upto(k), r)
    BY <1>3
  <2>. HIDE DEF upto, e, r, n
  <2>5. Finds(t, h, Append(upto(k), e), c)
    <3>1. CASE r = None
      <4>1. upto(k) \notin Filed(t, h)
        BY <1>1, <2>4, <3>1 DEF Finds
      <4>2. ASSUME NEW m \in DOMAIN t, h[m] = Append(upto(k), e) PROVE FALSE
        <5>1. Extends(h[m], upto(k), e)
          BY <4>2 DEF Extends
        <5>2. HangsFrom(t, h, m, upto(k), e)
          BY <2>2, <5>1, FiledBranch
        <5>. QED  BY <4>1, <5>2 DEF Filed, HangsFrom
      <4>. QED  BY <2>3, <3>1, <4>2 DEF Finds, Filed
    <3>2. CASE r # None
      <4>1. r \in DOMAIN t /\ h[r] = upto(k)
        BY <2>4, <3>2 DEF Finds
      <4>2. Finds(t, h, Append(h[r], e), Matching(r, e))
        BY <4>1, MatchingFinds
      <4>. QED  BY <2>3, <3>2, <4>1, <4>2
    <3>. QED  BY <3>1, <3>2
  <2>. QED  BY <2>1, <2>2, <2>5
<1>4. 0 .. n \subseteq S
  <2>. HIDE DEF S, n
  <2>. QED  BY <1>1, <1>2, <1>3, Induction
<1>5. Finds(t, h, upto(n), reached[n + 1])
  <2>1. n \in 0 .. n
    BY <1>1
  <2>. QED  BY <1>4, <2>1
<1>6. upto(n) = prefix /\ n + 1 = Len(prefix)
  BY <1>1
<1>. QED  BY <1>5, <1>6

\* visited answers about one history.
LEMMA LookupFindsTheHistory ==
    ASSUME Tree(nodes), ~Empty, NEW h, Files(nodes, h),
           NEW prefix \in Seq(Steps), prefix # << >>, NEW last \in Event
    PROVE  /\ Visited(prefix, last) = "true" <=> Append(prefix, last) \in Filed(nodes, h)
           /\ Visited(prefix, last) = "false" <=>
                 prefix \in Filed(nodes, h) /\ Append(prefix, last) \notin Filed(nodes, h)
<1>. DEFINE t == nodes
            F == Filed(t, h)
            longer == Append(prefix, last)
<1>1. PICK reached :
         /\ Visited(prefix, last) = Answer(prefix, last, reached[Len(prefix)])
         /\ \A k \in 1 .. Len(prefix) : reached[k] = Down(prefix, k, reached[k - 1])
  BY VisitedIsDefined
<1>. DEFINE node == reached[Len(prefix)]
<1>2. /\ IsTree(t) /\ t # << >> /\ 1 \in DOMAIN t /\ t[1].event = Spawn
      /\ Root = 1 /\ None = 0
      /\ Len(t) \in Nat /\ DOMAIN t = 1 .. Len(t)
  <2>1. IsTree(t) /\ t # << >> /\ 1 \in DOMAIN t
    BY TreeIs DEF Tree, Empty
  <2>. QED  BY <2>1, TreeIs DEF Root, None, IsTree
<1>3. \A s \in F : s # << >> /\ s[1] = Spawn
  BY <1>2, FiledStartWithSpawn DEF Filed
<1>4. longer[1] = prefix[1] /\ longer # << >>
  OBVIOUS
<1>5. CASE prefix[1] # Spawn
  <2>1. Answer(prefix, last, node) = "Spawn event did not match."
    BY <1>2, <1>5 DEF Answer
  <2>2. prefix \notin F /\ longer \notin F
    BY <1>3, <1>4, <1>5
  <2>. QED  BY <1>1, <2>1, <2>2
<1>6. CASE prefix[1] = Spawn
  <2>1. Finds(t, h, prefix, node)
    BY <1>1, <1>2, <1>6, ReachedFinds
  <2>. HIDE DEF node
  <2>2. CASE node = None
    <3>1. Answer(prefix, last, node) = "Invalid prefix."
      BY <1>2, <1>6, <2>2 DEF Answer
    <3>2. prefix \notin F
      BY <1>2, <2>1, <2>2 DEF Finds
    <3>3. longer \notin F
      <4>1. ASSUME NEW m \in DOMAIN t, h[m] = longer PROVE FALSE
        <5>1. Extends(h[m], prefix, last)
          BY <4>1 DEF Extends
        <5>2. HangsFrom(t, h, m, prefix, last)
          BY <1>2, <5>1, FiledBranch
        <5>. QED  BY <3>2, <5>2 DEF Filed, HangsFrom
      <4>. QED  BY <4>1 DEF Filed
    <3>. QED  BY <1>1, <3>1, <3>2, <3>3 DEF node
  <2>3. CASE node # None
    <3>1. Answer(prefix, last, node) = IF Matching(node, last) # None THEN "true" ELSE "false"
      BY <1>2, <1>6, <2>3 DEF Answer
    <3>2. node \in DOMAIN t /\ h[node] = prefix
      BY <2>1, <2>3 DEF Finds
    <3>3. Finds(t, h, longer, Matching(node, last))
      BY <1>2, <3>2, MatchingFinds
    <3>4. prefix \in F
      BY <3>2 DEF Filed
    <3>5. Matching(node, last) # None <=> longer \in F
      BY <1>2, <3>3 DEF Finds, Filed
    <3>. HIDE DEF F, longer
    <3>. QED  BY <1>1, <3>1, <3>4, <3>5 DEF node, F, longer
  <2>. QED  BY <2>2, <2>3
<1>. QED  BY <1>5, <1>6

\* In a tree, every history is one node's, and visited finds it.
LEMMA TreesAnswer == TreeInv => LookupsFindTheHistories
<1>. SUFFICES ASSUME TreeInv PROVE LookupsFindTheHistories
  OBVIOUS
<1>. DEFINE F == {HistoryOf[n] : n \in DOMAIN nodes}
<1>1. Tree(nodes) /\ IsTree(nodes) /\ Files(nodes, HistoryOf)
  BY HistoryOfFiles DEF TreeInv, Tree
<1>2. Filed(nodes, HistoryOf) = F
  BY Zenon DEF Filed
<1>3. Cardinality(F) = Len(nodes)
  BY <1>1, <1>2, FiledAreAsMany
<1>4. ASSUME ~Empty, NEW prefix \in Prefixes, NEW last \in Event
      PROVE  /\ Visited(prefix, last) = "true" <=> Append(prefix, last) \in F
             /\ Visited(prefix, last) = "false" <=>
                   prefix \in F /\ Append(prefix, last) \notin F
  <2>1. PICK len \in 1 .. MaxDepth - 1 : prefix \in [1 .. len -> Steps]
    BY DEF Prefixes, Steps
  <2>2. prefix \in Seq(Steps) /\ prefix # << >>
    BY <2>1, MaxDepthAssumption
  <2>. HIDE DEF F
  <2>. QED  BY <1>1, <1>2, <1>4, <2>2, LookupFindsTheHistory
<1>. QED  BY <1>3, <1>4, Zenon DEF LookupsFindTheHistories

(***************************************************************************)
(* No two nodes stand for one history, and visited answers for any history *)
(* wherever the cursor is (trace_tree.rs, visited): true or false when it  *)
(* was filed, and a panic when it was not.  For any events, and trees and  *)
(* histories of any size.                                                  *)
(***************************************************************************)
THEOREM LookupsAreRight == TreeSpec => []LookupsFindTheHistories
BY TreeInvHolds, TreesAnswer, PTL


-----------------------------------------------------------------------------
(* Both testers decide what they are meant to: the search of serialize     *)
(* finds an order exactly if there is one, and what a tester keeps of a    *)
(* history is all that matters about it.                                   *)

-----------------------------------------------------------------------------
(* Histories and their orders                                              *)

(***************************************************************************)
(* A history H for a search: its operations (ops), those of each thread    *)
(* in their order (of), how many of them were answered (done), what they   *)
(* are (what) and were answered (ret), which pairs of them must keep their *)
(* order (before), and the object at first (init).                         *)
(***************************************************************************)
Ended(H) == {x \in H.ops : \E t \in ThreadId : \E i \in 1 .. H.done[t] : x = H.of[t][i]}

IsHistory(H) ==
    /\ H.of \in [ThreadId -> Seq(H.ops)]
    /\ H.done \in [ThreadId -> Nat]
    /\ \A t \in ThreadId : H.done[t] <= Len(H.of[t]) /\ Len(H.of[t]) <= H.done[t] + 1
    /\ \A x \in H.ops : \E t \in ThreadId : \E i \in 1 .. Len(H.of[t]) : x = H.of[t][i]
    /\ \A t, u \in ThreadId : \A i \in 1 .. Len(H.of[t]), j \in 1 .. Len(H.of[u]) :
          H.of[t][i] = H.of[u][j] => t = u /\ i = j
    /\ \A t \in ThreadId : \A i, j \in 1 .. Len(H.of[t]) :
          <<H.of[t][i], H.of[t][j]>> \in H.before <=> i < j
    /\ \A x, y \in H.ops : <<x, y>> \in H.before => x \in Ended(H)
    /\ \A x \in H.ops : IsOp(H.what[x])
    /\ \A x \in Ended(H) : IsRet(H.ret[x])

Taken(o, n) == {o[i] : i \in 1 .. n}

\* The order o of n operations, with the objects between them, is legal so far.
Explains(H, o, n, obj) ==
    /\ o \in [1 .. n -> H.ops]
    /\ \A i, j \in 1 .. n : o[i] = o[j] => i = j
    /\ \A i \in 1 .. n : \A x \in H.ops :
          <<x, o[i]>> \in H.before => \E j \in 1 .. n : j < i /\ o[j] = x
    /\ obj[0] = H.init
    /\ \A i \in 1 .. n : obj[i] = After(obj[i - 1], H.what[o[i]])
    /\ \A i \in 1 .. n : o[i] \in Ended(H) => H.ret[o[i]] = Ret(obj[i - 1], H.what[o[i]])

\* The order stays legal with x after it.
CanGrow(H, o, n, obj, x) ==
    \E o2, obj2 :
       /\ Explains(H, o2, n + 1, obj2)
       /\ Taken(o2, n + 1) = Taken(o, n) \cup {x}
       /\ obj2[n + 1] = After(obj[n], H.what[x])

IsSerializable(H) ==
    \E n \in Nat : \E o, obj : Explains(H, o, n, obj) /\ Ended(H) \subseteq Taken(o, n)

-----------------------------------------------------------------------------
(* The search                                                              *)

IsCall(call) ==
    call = [valid_history |-> call.valid_history, ref_obj |-> call.ref_obj,
            done |-> call.done, in_flight |-> call.in_flight]

\* A call of serialize, when some operations are taken.
Reflects(H, call, taken, object, flying) ==
    /\ IsCall(call)
    /\ call.ref_obj = object
    /\ call.done \in [ThreadId -> Nat]
    /\ \A t \in ThreadId : call.done[t] <= H.done[t]
    /\ \A t \in ThreadId : \A i \in 1 .. H.done[t] : i <= call.done[t] <=> H.of[t][i] \in taken
    /\ DOMAIN call.in_flight =
          {t \in ThreadId : Len(H.of[t]) = H.done[t] + 1 /\ ~(H.of[t][H.done[t] + 1] \in taken)}
    /\ call.in_flight = [t \in DOMAIN call.in_flight |-> flying[t]]
    /\ \A t \in ThreadId :
          Len(H.of[t]) = H.done[t] + 1 /\ H.of[t][H.done[t] + 1] \in taken => call.done[t] = H.done[t]

IsGood(H, call, flying) == \E taken, object : Reflects(H, call, taken, object, flying)

Finished(H, call) == \A t \in ThreadId : call.done[t] = H.done[t]

\* What must precede x is taken.
IsFree(H, done, x) ==
    \A u \in ThreadId : \A j \in 1 .. H.done[u] : <<H.of[u][j], x>> \in H.before => j <= done[u]

NextOf(H, call, t) == H.of[t][call.done[t] + 1]

CanTake(H, call, t) ==
    /\ call.done[t] < H.done[t] \/ t \in DOMAIN call.in_flight
    /\ IsFree(H, call.done, NextOf(H, call, t))
    /\ call.done[t] < H.done[t] =>
          H.ret[NextOf(H, call, t)] = Ret(call.ref_obj, H.what[NextOf(H, call, t)])

\* One call makes the other, which has taken the next operation of t.
TakesStep(H, call, next, t) ==
    /\ CanTake(H, call, t)
    /\ IsCall(next)
    /\ next.ref_obj = After(call.ref_obj, H.what[NextOf(H, call, t)])
    /\ next.done = IF call.done[t] < H.done[t] THEN [call.done EXCEPT ![t] = @ + 1] ELSE call.done
    /\ next.in_flight =
          IF call.done[t] < H.done[t] THEN call.in_flight
          ELSE [u \in DOMAIN call.in_flight \ {t} |-> call.in_flight[u]]

\* The types of what a history has of one thread.
LEMMA HistoryTypes ==
    ASSUME NEW H, IsHistory(H), NEW t \in ThreadId
    PROVE  /\ H.of[t] \in Seq(H.ops) /\ Len(H.of[t]) \in Nat /\ H.done[t] \in Nat
           /\ H.done[t] <= Len(H.of[t]) /\ Len(H.of[t]) <= H.done[t] + 1
           /\ \A i \in 1 .. Len(H.of[t]) : H.of[t][i] \in H.ops
           /\ \A i \in 1 .. H.done[t] : i \in 1 .. Len(H.of[t]) /\ H.of[t][i] \in H.ops
<1>1. H.of[t] \in Seq(H.ops) /\ H.done[t] \in Nat
  BY DEF IsHistory
<1>2. H.done[t] <= Len(H.of[t]) /\ Len(H.of[t]) <= H.done[t] + 1
  BY DEF IsHistory
<1>. QED  BY <1>1, <1>2

\* What is taken next was not taken before, and is in flight or was answered.
LEMMA NextIsNew ==
    ASSUME NEW H, IsHistory(H), NEW call, NEW taken, NEW object, NEW flying,
           Reflects(H, call, taken, object, flying), NEW t \in ThreadId,
           call.done[t] < H.done[t] \/ t \in DOMAIN call.in_flight
    PROVE  /\ call.done[t] + 1 \in 1 .. Len(H.of[t])
           /\ NextOf(H, call, t) \in H.ops
           /\ ~(NextOf(H, call, t) \in taken)
           /\ call.done[t] < H.done[t] => call.done[t] + 1 \in 1 .. H.done[t]
           /\ NextOf(H, call, t) \in Ended(H) <=> call.done[t] < H.done[t]
<1>. DEFINE d == call.done[t]
            e == H.done[t]
            len == Len(H.of[t])
<1>1. d \in Nat /\ e \in Nat /\ len \in Nat /\ d <= e /\ e <= len /\ len <= e + 1
  BY DEF Reflects, IsHistory
<1>2. H.of[t] \in Seq(H.ops)
  BY DEF IsHistory
<1>3. CASE d < e
  <2>1. d + 1 \in 1 .. e /\ d + 1 \in 1 .. len
    BY <1>1, <1>3
  <2>2. ~(NextOf(H, call, t) \in taken)
    BY <1>1, <2>1 DEF Reflects, NextOf
  <2>. QED  BY <1>2, <1>3, <2>1, <2>2 DEF NextOf, Ended
<1>4. CASE ~(d < e)
  <2>1. d = e /\ t \in DOMAIN call.in_flight
    BY <1>1, <1>4
  <2>2. len = e + 1 /\ ~(H.of[t][e + 1] \in taken)
    BY <2>1 DEF Reflects
  <2>3. d + 1 \in 1 .. len
    BY <1>1, <2>1, <2>2
  <2>4. ~(NextOf(H, call, t) \in Ended(H))
    <3>1. SUFFICES ASSUME NEW u \in ThreadId, NEW i \in 1 .. H.done[u], H.of[t][d + 1] = H.of[u][i]
                   PROVE  FALSE
      BY DEF Ended, NextOf
    <3>2. i \in 1 .. Len(H.of[u])
      BY DEF IsHistory
    <3>3. t = u /\ d + 1 = i
      BY <2>3, <3>1, <3>2 DEF IsHistory
    <3>. QED  BY <2>1, <3>3, <1>1
  <2>. QED  BY <1>2, <1>4, <2>1, <2>2, <2>3, <2>4 DEF NextOf
<1>. QED  BY <1>3, <1>4

\* The call that is made has taken one operation more.
LEMMA StepReflects ==
    ASSUME NEW H, IsHistory(H), NEW call, NEW taken, NEW object, NEW flying,
           Reflects(H, call, taken, object, flying), NEW t \in ThreadId,
           NEW next, TakesStep(H, call, next, t)
    PROVE  Reflects(H, next, taken \cup {NextOf(H, call, t)},
                    After(object, H.what[NextOf(H, call, t)]), flying)
<1>. DEFINE x == NextOf(H, call, t)
            both == taken \cup {x}
<1>1. call.done[t] < H.done[t] \/ t \in DOMAIN call.in_flight
  BY DEF TakesStep, CanTake
<1>2. /\ call.done[t] + 1 \in 1 .. Len(H.of[t]) /\ x \in H.ops /\ ~(x \in taken)
      /\ call.done[t] < H.done[t] => call.done[t] + 1 \in 1 .. H.done[t]
      /\ x \in Ended(H) <=> call.done[t] < H.done[t]
  BY <1>1, NextIsNew
<1>3. IsCall(next) /\ next.ref_obj = After(object, H.what[x])
  BY DEF TakesStep, Reflects
<1>4. /\ H.done \in [ThreadId -> Nat] /\ call.done \in [ThreadId -> Nat]
      /\ \A u \in ThreadId : call.done[u] <= H.done[u]
      /\ \A u \in ThreadId : H.of[u] \in Seq(H.ops) /\ H.done[u] <= Len(H.of[u]) /\ Len(H.of[u]) <= H.done[u] + 1
  BY DEF Reflects, IsHistory
<1>5. x = H.of[t][call.done[t] + 1]
  BY DEF NextOf
<1>6. ASSUME NEW u \in ThreadId, NEW i \in 1 .. Len(H.of[u])
      PROVE  H.of[u][i] = x <=> u = t /\ i = call.done[t] + 1
  <2>1. \A v, w \in ThreadId : \A k \in 1 .. Len(H.of[v]), j \in 1 .. Len(H.of[w]) :
           H.of[v][k] = H.of[w][j] => v = w /\ k = j
    BY DEF IsHistory
  <2>2. H.of[u][i] = H.of[t][call.done[t] + 1] => u = t /\ i = call.done[t] + 1
    BY <1>2, <2>1
  <2>. QED  BY <1>5, <2>2
<1>. HIDE DEF x
<1>7. next.done = IF call.done[t] < H.done[t] THEN [call.done EXCEPT ![t] = @ + 1] ELSE call.done
  BY DEF TakesStep
<1>8. next.done \in [ThreadId -> Nat] /\ \A u \in ThreadId : next.done[u] <= H.done[u]
  BY <1>4, <1>7
<1>9. ASSUME NEW u \in ThreadId, NEW i \in 1 .. H.done[u]
      PROVE  i <= next.done[u] <=> H.of[u][i] \in both
  <2>1. i <= call.done[u] <=> H.of[u][i] \in taken
    BY DEF Reflects
  <2>2. i \in 1 .. Len(H.of[u]) /\ i \in Nat /\ call.done[u] \in Nat /\ call.done[t] \in Nat
    BY <1>4
  <2>3. H.of[u][i] = x <=> u = t /\ i = call.done[t] + 1
    BY <1>6, <2>2
  <2>4. CASE call.done[t] < H.done[t] /\ u = t
    <3>1. next.done[u] = call.done[t] + 1
      BY <1>4, <1>7, <2>4
    <3>. QED  BY <2>1, <2>2, <2>3, <2>4, <3>1
  <2>5. CASE ~(call.done[t] < H.done[t] /\ u = t)
    <3>1. next.done[u] = call.done[u]
      BY <1>4, <1>7, <2>5
    <3>2. ~(H.of[u][i] = x)
      BY <1>4, <2>2, <2>3, <2>5
    <3>. QED  BY <2>1, <3>1, <3>2
  <2>. QED  BY <2>4, <2>5
<1>10. ASSUME NEW u \in ThreadId, Len(H.of[u]) = H.done[u] + 1
       PROVE  /\ H.done[u] + 1 \in 1 .. Len(H.of[u])
              /\ H.of[u][H.done[u] + 1] \in both
                    <=> H.of[u][H.done[u] + 1] \in taken \/ (u = t /\ call.done[t] = H.done[t])
  <2>1. H.done[u] + 1 \in 1 .. Len(H.of[u])
    BY <1>4, <1>10
  <2>2. H.of[u][H.done[u] + 1] = x <=> u = t /\ H.done[u] + 1 = call.done[t] + 1
    BY <1>6, <2>1
  <2>3. H.of[u][H.done[u] + 1] = x <=> u = t /\ call.done[t] = H.done[t]
    BY <1>4, <2>2
  <2>. QED  BY <2>1, <2>3
<1>11. next.in_flight = IF call.done[t] < H.done[t] THEN call.in_flight
                        ELSE [u \in DOMAIN call.in_flight \ {t} |-> call.in_flight[u]]
  BY DEF TakesStep
<1>12. /\ DOMAIN call.in_flight =
             {u \in ThreadId : Len(H.of[u]) = H.done[u] + 1 /\ ~(H.of[u][H.done[u] + 1] \in taken)}
       /\ call.in_flight = [u \in DOMAIN call.in_flight |-> flying[u]]
  BY DEF Reflects
<1>13. call.done[t] < H.done[t] <=> ~(call.done[t] = H.done[t])
  BY <1>4
<1>14. DOMAIN next.in_flight = IF call.done[t] < H.done[t] THEN DOMAIN call.in_flight
                               ELSE DOMAIN call.in_flight \ {t}
  BY <1>11
<1>15. DOMAIN next.in_flight =
          {u \in ThreadId : Len(H.of[u]) = H.done[u] + 1 /\ ~(H.of[u][H.done[u] + 1] \in both)}
  BY <1>10, <1>12, <1>13, <1>14
<1>16. next.in_flight = [u \in DOMAIN next.in_flight |-> flying[u]]
  <2>1. CASE call.done[t] < H.done[t]
    BY <1>11, <1>12, <2>1
  <2>2. CASE ~(call.done[t] < H.done[t])
    <3>1. next.in_flight = [u \in DOMAIN call.in_flight \ {t} |-> call.in_flight[u]]
      BY <1>11, <2>2
    <3>2. \A u \in DOMAIN call.in_flight : call.in_flight[u] = flying[u]
      BY <1>12
    <3>. QED  BY <3>1, <3>2
  <2>. QED  BY <2>1, <2>2
<1>17. ASSUME NEW u \in ThreadId, Len(H.of[u]) = H.done[u] + 1, H.of[u][H.done[u] + 1] \in both
       PROVE  next.done[u] = H.done[u]
  <2>1. CASE H.of[u][H.done[u] + 1] \in taken
    <3>1. call.done[u] = H.done[u]
      BY <1>17, <2>1 DEF Reflects
    <3>. QED  BY <1>4, <1>7, <3>1
  <2>2. CASE u = t /\ call.done[t] = H.done[t]
    BY <1>4, <1>7, <2>2
  <2>. QED  BY <1>10, <1>17, <2>1, <2>2
<1>. QED  BY <1>3, <1>8, <1>9, <1>15, <1>16, <1>17 DEF Reflects, x

\* An order stays legal with an operation that may be taken next.
LEMMA TakingExplains ==
    ASSUME NEW H, IsHistory(H), NEW n \in Nat, NEW o, NEW obj, Explains(H, o, n, obj),
           NEW call, NEW flying, Reflects(H, call, Taken(o, n), obj[n], flying),
           NEW t \in ThreadId, CanTake(H, call, t)
    PROVE  CanGrow(H, o, n, obj, NextOf(H, call, t))
<1>. DEFINE x == NextOf(H, call, t)
            after == After(obj[n], H.what[x])
            o2 == [i \in 1 .. n + 1 |-> IF i = n + 1 THEN x ELSE o[i]]
            obj2 == [i \in 0 .. n + 1 |-> IF i = n + 1 THEN after ELSE obj[i]]
<1>1. x \in H.ops /\ ~(x \in Taken(o, n)) /\ (x \in Ended(H) <=> call.done[t] < H.done[t])
  <2>1. call.done[t] < H.done[t] \/ t \in DOMAIN call.in_flight
    BY DEF CanTake
  <2>. QED  BY <2>1, NextIsNew
<1>2. ASSUME NEW y \in H.ops, <<y, x>> \in H.before
      PROVE  y \in Taken(o, n)
  <2>1. y \in Ended(H)
    BY <1>1, <1>2 DEF IsHistory
  <2>2. PICK u \in ThreadId : \E j \in 1 .. H.done[u] : y = H.of[u][j]
    BY <2>1 DEF Ended
  <2>3. PICK j \in 1 .. H.done[u] : y = H.of[u][j]
    BY <2>2
  <2>4. j <= call.done[u]
    BY <1>2, <2>3 DEF CanTake, IsFree
  <2>. QED  BY <2>3, <2>4 DEF Reflects
<1>3. x \in Ended(H) => H.ret[x] = Ret(obj[n], H.what[x])
  BY <1>1 DEF CanTake, Reflects
<1>. HIDE DEF x
<1>4. /\ o \in [1 .. n -> H.ops]
      /\ \A i, j \in 1 .. n : o[i] = o[j] => i = j
      /\ \A i \in 1 .. n : \A y \in H.ops :
            <<y, o[i]>> \in H.before => \E j \in 1 .. n : j < i /\ o[j] = y
      /\ obj[0] = H.init
      /\ \A i \in 1 .. n : obj[i] = After(obj[i - 1], H.what[o[i]])
      /\ \A i \in 1 .. n : o[i] \in Ended(H) => H.ret[o[i]] = Ret(obj[i - 1], H.what[o[i]])
  BY DEF Explains
<1>5. \A i \in 1 .. n : ~(o[i] = x)
  BY <1>1 DEF Taken
<1>6. \A i \in 1 .. n : o2[i] = o[i] /\ obj2[i] = obj[i] /\ obj2[i - 1] = obj[i - 1]
  OBVIOUS
<1>7. o2[n + 1] = x /\ obj2[n + 1] = after /\ obj2[n] = obj[n] /\ obj2[0] = obj[0]
  OBVIOUS
<1>8. o2 \in [1 .. n + 1 -> H.ops]
  BY <1>1, <1>4
<1>. HIDE DEF o2, obj2
<1>9. \A i \in 1 .. n + 1 : i \in 1 .. n \/ i = n + 1
  OBVIOUS
<1>10. \A i, j \in 1 .. n + 1 : o2[i] = o2[j] => i = j
  BY <1>4, <1>5, <1>6, <1>7, <1>9
<1>11. ASSUME NEW i \in 1 .. n + 1, NEW y \in H.ops, <<y, o2[i]>> \in H.before
       PROVE  \E j \in 1 .. n + 1 : j < i /\ o2[j] = y
  <2>1. CASE i \in 1 .. n
    <3>1. PICK j \in 1 .. n : j < i /\ o[j] = y
      BY <1>4, <1>6, <1>11, <2>1
    <3>. QED  BY <1>6, <3>1
  <2>2. CASE i = n + 1
    <3>1. PICK j \in 1 .. n : o[j] = y
      BY <1>2, <1>7, <1>11, <2>2 DEF Taken
    <3>. QED  BY <1>6, <2>2, <3>1
  <2>. QED  BY <1>9, <2>1, <2>2
<1>12. ASSUME NEW i \in 1 .. n + 1
       PROVE  /\ obj2[i] = After(obj2[i - 1], H.what[o2[i]])
              /\ o2[i] \in Ended(H) => H.ret[o2[i]] = Ret(obj2[i - 1], H.what[o2[i]])
  <2>1. CASE i \in 1 .. n
    BY <1>4, <1>6, <2>1
  <2>2. CASE i = n + 1
    <3>1. i - 1 = n
      BY <2>2
    <3>. QED  BY <1>3, <1>7, <2>2, <3>1
  <2>. QED  BY <1>9, <2>1, <2>2
<1>13. Explains(H, o2, n + 1, obj2)
  BY <1>4, <1>7, <1>8, <1>10, <1>11, <1>12 DEF Explains
<1>14. Taken(o2, n + 1) = Taken(o, n) \cup {x}
  BY <1>6, <1>7, <1>9 DEF Taken
<1>. QED  BY <1>7, <1>13, <1>14 DEF CanGrow, x

\* The next operation of a legal order may be taken.
LEMMA NextMayBeTaken ==
    ASSUME NEW H, IsHistory(H), NEW n \in Nat, NEW o, NEW obj, Explains(H, o, n, obj),
           NEW k \in 0 .. n - 1, NEW call, NEW flying,
           Reflects(H, call, Taken(o, k), obj[k], flying)
    PROVE  \E t \in ThreadId : CanTake(H, call, t) /\ o[k + 1] = NextOf(H, call, t)
<1>. DEFINE x == o[k + 1]
<1>1. k + 1 \in 1 .. n /\ k \in Nat
  OBVIOUS
<1>2. /\ x \in H.ops
      /\ \A y \in H.ops : <<y, x>> \in H.before => y \in Taken(o, k)
      /\ ~(x \in Taken(o, k))
      /\ x \in Ended(H) => H.ret[x] = Ret(obj[k], H.what[x])
  <2>1. x \in H.ops
    BY <1>1 DEF Explains
  <2>2. ASSUME NEW y \in H.ops, <<y, x>> \in H.before
        PROVE  y \in Taken(o, k)
    <3>1. PICK j \in 1 .. n : j < k + 1 /\ o[j] = y
      BY <1>1, <2>2 DEF Explains
    <3>2. j \in 1 .. k
      BY <1>1, <3>1
    <3>. QED  BY <3>1, <3>2 DEF Taken
  <2>3. ~(x \in Taken(o, k))
    <3>1. SUFFICES ASSUME NEW i \in 1 .. k, o[i] = x PROVE FALSE
      BY DEF Taken
    <3>2. i \in 1 .. n /\ i # k + 1
      BY <1>1
    <3>. QED  BY <1>1, <3>1, <3>2 DEF Explains
  <2>4. x \in Ended(H) => H.ret[x] = Ret(obj[k], H.what[x])
    <3>1. x \in Ended(H) => H.ret[x] = Ret(obj[(k + 1) - 1], H.what[x])
      BY <1>1 DEF Explains
    <3>2. (k + 1) - 1 = k
      BY <1>1
    <3>. QED  BY <3>1, <3>2
  <2>. QED  BY <2>1, <2>2, <2>3, <2>4
<1>. HIDE DEF x
<1>12. PICK t \in ThreadId : \E i \in 1 .. Len(H.of[t]) : x = H.of[t][i]
  BY <1>2 DEF IsHistory
<1>3. PICK i \in 1 .. Len(H.of[t]) : x = H.of[t][i]
  BY <1>12
<1>. DEFINE d == call.done[t]
            e == H.done[t]
            len == Len(H.of[t])
<1>4. H.of[t] \in Seq(H.ops) /\ d \in Nat /\ e \in Nat /\ len \in Nat /\ d <= e /\ e <= len /\ len <= e + 1
  <2>1. d \in Nat /\ d <= e
    BY DEF Reflects
  <2>. QED  BY <2>1, HistoryTypes
<1>5. ASSUME NEW j \in 1 .. len, j < i
      PROVE  H.of[t][j] \in Taken(o, k)
  <2>1. \A u \in ThreadId : \A l, m \in 1 .. Len(H.of[u]) :
           <<H.of[u][l], H.of[u][m]>> \in H.before <=> l < m
    BY DEF IsHistory
  <2>2. <<H.of[t][j], x>> \in H.before
    BY <1>3, <1>5, <2>1
  <2>3. H.of[t][j] \in H.ops
    BY <1>4
  <2>. QED  BY <1>2, <2>2, <2>3
<1>6. \A j \in 1 .. e : j <= d <=> H.of[t][j] \in Taken(o, k)
  BY DEF Reflects
<1>7. i = d + 1 /\ (d < e \/ t \in DOMAIN call.in_flight)
  <2>1. CASE i \in 1 .. e
    <3>1. ~(i <= d)
      BY <1>2, <1>3, <1>6, <2>1
    <3>2. i > 1 => i - 1 <= d
      <4>1. i > 1 => i - 1 \in 1 .. e /\ i - 1 \in 1 .. len /\ i - 1 < i
        BY <1>4, <2>1
      <4>. QED  BY <1>5, <1>6, <4>1
    <3>. QED  BY <1>4, <2>1, <3>1, <3>2
  <2>2. CASE ~(i \in 1 .. e)
    <3>1. i = e + 1 /\ len = e + 1
      BY <1>4, <2>2
    <3>2. e > 0 => e <= d
      <4>1. e > 0 => e \in 1 .. e /\ e \in 1 .. len /\ e < i
        BY <1>4, <3>1
      <4>. QED  BY <1>5, <1>6, <4>1
    <3>3. d = e
      BY <1>4, <3>2
    <3>4. t \in DOMAIN call.in_flight
      BY <1>2, <1>3, <3>1 DEF Reflects
    <3>. QED  BY <3>1, <3>3, <3>4
  <2>. QED  BY <2>1, <2>2
<1>8. x = NextOf(H, call, t)
  BY <1>3, <1>7 DEF NextOf
<1>9. IsFree(H, call.done, x)
  <2>1. ASSUME NEW u \in ThreadId, NEW j \in 1 .. H.done[u], <<H.of[u][j], x>> \in H.before
        PROVE  j <= call.done[u]
    <3>1. H.of[u][j] \in H.ops
      BY HistoryTypes
    <3>. QED  BY <1>2, <2>1, <3>1 DEF Reflects
  <2>. QED  BY <2>1 DEF IsFree
<1>10. d < e => H.ret[x] = Ret(call.ref_obj, H.what[x])
  <2>1. d < e => d + 1 \in 1 .. H.done[t]
    BY <1>4
  <2>2. d < e => x \in Ended(H)
    BY <1>2, <1>3, <1>7, <2>1 DEF Ended
  <2>. QED  BY <1>2, <2>2 DEF Reflects
<1>11. CanTake(H, call, t)
  BY <1>7, <1>8, <1>9, <1>10 DEF CanTake
<1>. QED  BY <1>8, <1>11 DEF x

(***************************************************************************)
(* The calls of a search by their depth: each is made by one above it, and *)
(* each that is not finished makes one for every operation it can take.    *)
(***************************************************************************)
IsSearch(H, flying, depth, level) ==
    /\ \E start : level[0] = {start} /\ Reflects(H, start, {}, H.init, flying)
    /\ \A n \in 1 .. depth : \A next \in level[n] : \E call \in level[n - 1] :
          IsGood(H, call, flying) => \E t \in ThreadId : TakesStep(H, call, next, t)
    /\ \A n \in 1 .. depth : \A call \in level[n - 1] : \A t \in ThreadId :
          IsGood(H, call, flying) /\ ~Finished(H, call) /\ CanTake(H, call, t)
             => \E next \in level[n] : TakesStep(H, call, next, t)

FindsOrder(H, depth, level) == \E n \in 0 .. depth : \E call \in level[n] : Finished(H, call)

\* Every call of a search has taken some operations in a legal order.
LEMMA SearchIsSound ==
    ASSUME NEW H, IsHistory(H), NEW flying, NEW depth \in Nat, NEW level,
           IsSearch(H, flying, depth, level)
    PROVE  \A n \in 0 .. depth : \A call \in level[n] :
              \E o, obj : Explains(H, o, n, obj) /\ Reflects(H, call, Taken(o, n), obj[n], flying)
<1>. DEFINE Legal(n, call) ==
               \E o, obj : Explains(H, o, n, obj) /\ Reflects(H, call, Taken(o, n), obj[n], flying)
            S == {n \in 0 .. depth : \A call \in level[n] : Legal(n, call)}
<1>1. 0 \in S
  <2>1. PICK start : level[0] = {start} /\ Reflects(H, start, {}, H.init, flying)
    BY DEF IsSearch
  <2>. DEFINE o == [i \in 1 .. 0 |-> start]
              obj == [i \in 0 .. 0 |-> H.init]
  <2>2. 1 .. 0 = {} /\ obj[0] = H.init
    OBVIOUS
  <2>3. o \in [1 .. 0 -> H.ops]
    BY <2>2
  <2>. HIDE DEF o, obj
  <2>4. Taken(o, 0) = {}
    BY <2>2 DEF Taken
  <2>5. Explains(H, o, 0, obj)
    BY <2>2, <2>3 DEF Explains
  <2>6. Legal(0, start)
    BY <2>1, <2>2, <2>4, <2>5
  <2>. QED  BY <2>1, <2>6
<1>2. ASSUME NEW n \in 0 .. depth - 1, n \in S
      PROVE  n + 1 \in S
  <2>1. SUFFICES ASSUME NEW next \in level[n + 1] PROVE Legal(n + 1, next)
    BY <1>2
  <2>2. n + 1 \in 1 .. depth /\ (n + 1) - 1 = n /\ n \in Nat
    OBVIOUS
  <2>3. PICK call \in level[n] :
           IsGood(H, call, flying) => \E t \in ThreadId : TakesStep(H, call, next, t)
    BY <2>2 DEF IsSearch
  <2>4. PICK o, obj : Explains(H, o, n, obj) /\ Reflects(H, call, Taken(o, n), obj[n], flying)
    BY <1>2
  <2>5. PICK t \in ThreadId : TakesStep(H, call, next, t)
    BY <2>3, <2>4 DEF IsGood
  <2>6. PICK o2, obj2 :
           /\ Explains(H, o2, n + 1, obj2)
           /\ Taken(o2, n + 1) = Taken(o, n) \cup {NextOf(H, call, t)}
           /\ obj2[n + 1] = After(obj[n], H.what[NextOf(H, call, t)])
    <3>1. CanTake(H, call, t)
      BY <2>5 DEF TakesStep
    <3>2. CanGrow(H, o, n, obj, NextOf(H, call, t))
      BY <2>2, <2>4, <3>1, TakingExplains
    <3>. QED  BY <3>2 DEF CanGrow
  <2>7. Reflects(H, next, Taken(o2, n + 1), obj2[n + 1], flying)
    <3>1. Reflects(H, next, Taken(o, n) \cup {NextOf(H, call, t)},
                   After(obj[n], H.what[NextOf(H, call, t)]), flying)
      BY <2>4, <2>5, StepReflects
    <3>. QED  BY <2>6, <3>1
  <2>. QED  BY <2>6, <2>7
<1>3. 0 .. depth \subseteq S
  <2>. HIDE DEF S
  <2>. QED  BY <1>1, <1>2, Induction
<1>. QED  BY <1>3

\* A search that is deep enough follows every legal order until it has finished.
LEMMA SearchIsComplete ==
    ASSUME NEW H, IsHistory(H), NEW flying, NEW depth \in Nat, NEW level,
           IsSearch(H, flying, depth, level),
           NEW n \in 0 .. depth, NEW o, NEW obj, Explains(H, o, n, obj),
           Ended(H) \subseteq Taken(o, n)
    PROVE  FindsOrder(H, depth, level)
<1>. DEFINE Follows(k) == \E call \in level[k] : Reflects(H, call, Taken(o, k), obj[k], flying)
            S == {k \in 0 .. n : Follows(k)}
<1>. SUFFICES ASSUME ~FindsOrder(H, depth, level) PROVE FALSE
  OBVIOUS
<1>1. 0 \in S
  <2>1. Taken(o, 0) = {}
    BY DEF Taken
  <2>2. obj[0] = H.init
    BY DEF Explains
  <2>. QED  BY <2>1, <2>2 DEF IsSearch
<1>2. ASSUME NEW k \in 0 .. n - 1, k \in S
      PROVE  k + 1 \in S
  <2>1. /\ k + 1 \in 1 .. depth /\ (k + 1) - 1 = k /\ k + 1 \in 0 .. n /\ k \in 0 .. depth
        /\ k + 1 \in 1 .. n /\ n \in Nat
    OBVIOUS
  <2>2. PICK call \in level[k] : Reflects(H, call, Taken(o, k), obj[k], flying)
    BY <1>2
  <2>3. PICK t \in ThreadId : CanTake(H, call, t) /\ o[k + 1] = NextOf(H, call, t)
    BY <2>1, <2>2, NextMayBeTaken
  <2>4. ~Finished(H, call)
    BY <2>1 DEF FindsOrder
  <2>5. IsGood(H, call, flying)
    BY <2>2 DEF IsGood
  <2>6. PICK next \in level[k + 1] : TakesStep(H, call, next, t)
    BY <2>1, <2>3, <2>4, <2>5 DEF IsSearch
  <2>7. Reflects(H, next, Taken(o, k) \cup {NextOf(H, call, t)},
                 After(obj[k], H.what[NextOf(H, call, t)]), flying)
    BY <2>2, <2>6, StepReflects
  <2>8. Taken(o, k + 1) = Taken(o, k) \cup {o[k + 1]}
    <3>1. 1 .. k + 1 = (1 .. k) \cup {k + 1}
      BY <2>1
    <3>. QED  BY <3>1 DEF Taken
  <2>9. obj[k + 1] = After(obj[k], H.what[o[k + 1]])
    BY <2>1 DEF Explains
  <2>. QED  BY <2>1, <2>3, <2>7, <2>8, <2>9
<1>3. n \in S
  <2>. HIDE DEF S
  <2>1. n \in Nat
    OBVIOUS
  <2>. QED  BY <1>1, <1>2, <2>1, Induction
<1>4. PICK call \in level[n] : Reflects(H, call, Taken(o, n), obj[n], flying)
  BY <1>3
<1>5. Finished(H, call)
  <2>1. SUFFICES ASSUME NEW t \in ThreadId PROVE call.done[t] = H.done[t]
    BY DEF Finished
  <2>2. call.done[t] \in Nat /\ H.done[t] \in Nat /\ call.done[t] <= H.done[t]
    BY <1>4 DEF Reflects, IsHistory
  <2>3. H.done[t] > 0 => H.done[t] <= call.done[t]
    <3>1. H.done[t] > 0 => H.done[t] \in 1 .. H.done[t]
      BY <2>2
    <3>2. H.done[t] > 0 => H.of[t][H.done[t]] \in Taken(o, n)
      <4>1. H.done[t] > 0 => H.of[t][H.done[t]] \in Ended(H)
        BY <3>1, HistoryTypes DEF Ended
      <4>. QED  BY <4>1
    <3>. QED  BY <1>4, <3>1, <3>2 DEF Reflects
  <2>. QED  BY <2>2, <2>3
<1>. QED  BY <1>4, <1>5 DEF FindsOrder

\* An order of a history is not longer than there are operations.
LEMMA OrdersAreShort ==
    ASSUME NEW H, IsFiniteSet(H.ops), NEW n \in Nat, NEW o, NEW obj, Explains(H, o, n, obj)
    PROVE  n <= Cardinality(H.ops) /\ Cardinality(H.ops) \in Nat
<1>1. o \in [1 .. n -> H.ops] /\ \A i, j \in 1 .. n : o[i] = o[j] => i = j
  BY DEF Explains
<1>2. IsInjective(o)
  BY <1>1 DEF IsInjective
<1>3. o \in Injection(1 .. n, H.ops)
  BY <1>1, <1>2 DEF Injection
<1>4. Cardinality(1 .. n) <= Cardinality(H.ops)
  BY <1>3, FS_Injection
<1>5. Cardinality(1 .. n) = n
  BY FS_Interval
<1>. QED  BY <1>4, <1>5, FS_CardinalityType

\* The search decides whether there is an order.
LEMMA SearchDecides ==
    ASSUME NEW H, IsHistory(H), IsFiniteSet(H.ops), NEW flying, NEW depth \in Nat,
           Cardinality(H.ops) <= depth, NEW level, IsSearch(H, flying, depth, level)
    PROVE  FindsOrder(H, depth, level) <=> IsSerializable(H)
<1>1. ASSUME FindsOrder(H, depth, level)
      PROVE  IsSerializable(H)
  <2>1. PICK n \in 0 .. depth : \E call \in level[n] : Finished(H, call)
    BY <1>1 DEF FindsOrder
  <2>2. PICK call \in level[n] : Finished(H, call)
    BY <2>1
  <2>3. PICK o, obj : Explains(H, o, n, obj) /\ Reflects(H, call, Taken(o, n), obj[n], flying)
    BY SearchIsSound
  <2>4. Ended(H) \subseteq Taken(o, n)
    <3>1. SUFFICES ASSUME NEW t \in ThreadId, NEW i \in 1 .. H.done[t]
                   PROVE  H.of[t][i] \in Taken(o, n)
      BY DEF Ended
    <3>2. i <= call.done[t]
      BY <2>2, HistoryTypes DEF Finished
    <3>. QED  BY <2>3, <3>2 DEF Reflects
  <2>. QED  BY <2>3, <2>4 DEF IsSerializable
<1>2. ASSUME IsSerializable(H)
      PROVE  FindsOrder(H, depth, level)
  <2>1. PICK n \in Nat : \E o, obj : Explains(H, o, n, obj) /\ Ended(H) \subseteq Taken(o, n)
    BY <1>2 DEF IsSerializable
  <2>2. PICK o, obj : Explains(H, o, n, obj) /\ Ended(H) \subseteq Taken(o, n)
    BY <2>1
  <2>3. n <= Cardinality(H.ops) /\ Cardinality(H.ops) \in Nat
    BY <2>2, OrdersAreShort
  <2>4. n \in 0 .. depth
    BY <2>3
  <2>. QED  BY <2>2, <2>4, SearchIsComplete
<1>. QED  BY <1>1, <1>2

-----------------------------------------------------------------------------
(* What both testers share                                                 *)

\* is_valid_step says whether invoke returns what was recorded.
LEMMA ValidStepIsRet ==
    ASSUME NEW ref_obj, NEW op, NEW ret, IsOp(op), IsRet(ret)
    PROVE  IsValidStep(ref_obj, op, ret) <=> ret = Ret(ref_obj, op)
<1>1. CASE op.type = "Write"
  <2>1. Ret(ref_obj, op) = WriteOk
    BY <1>1 DEF Ret
  <2>2. WriteOk.type = "WriteOk"
    BY DEF WriteOk
  <2>3. IsValidStep(ref_obj, op, ret) <=> ret.type = "WriteOk"
    BY <1>1 DEF IsValidStep
  <2>. QED  BY <2>1, <2>2, <2>3 DEF IsRet
<1>2. CASE op.type = "Read"
  <2>1. Ret(ref_obj, op) = ReadOk(ref_obj.value)
    BY <1>2 DEF Ret
  <2>. QED  BY <1>2, <2>1 DEF IsValidStep
<1>3. CASE op.type = "Push"
  <2>1. Ret(ref_obj, op) = PushOk
    BY <1>3 DEF Ret
  <2>2. PushOk.type = "PushOk"
    BY DEF PushOk
  <2>3. IsValidStep(ref_obj, op, ret) <=> ret.type = "PushOk"
    BY <1>3 DEF IsValidStep
  <2>. QED  BY <2>1, <2>2, <2>3 DEF IsRet
<1>4. CASE op.type = "Pop"
  BY <1>4 DEF IsValidStep
<1>5. CASE op.type = "Len"
  <2>1. Ret(ref_obj, op) = LenOk(Len(ref_obj.elements))
    BY <1>5 DEF Ret
  <2>. QED  BY <1>5, <2>1 DEF IsValidStep
<1>. QED  BY <1>1, <1>2, <1>3, <1>4, <1>5 DEF IsOp

\* One place for every operation a thread completed, and one for the operation in flight.
Places(H) == UNION {{t} \X (1 .. H.done[t] + 1) : t \in ThreadId}

\* There are finitely many operations, and a place for each.
LEMMA PlacesSuffice ==
    ASSUME NEW H, IsHistory(H)
    PROVE  /\ IsFiniteSet(H.ops)
           /\ Cardinality(Places(H)) \in Nat
           /\ Cardinality(H.ops) <= Cardinality(Places(H))
<1>. DEFINE row == [t \in ThreadId |-> {t} \X (1 .. H.done[t] + 1)]
            rows == {row[t] : t \in ThreadId}
<1>1. \A t \in ThreadId : IsFiniteSet(row[t])
  <2>1. SUFFICES ASSUME NEW t \in ThreadId PROVE IsFiniteSet({t} \X (1 .. H.done[t] + 1))
    OBVIOUS
  <2>. DEFINE n == H.done[t] + 1
  <2>2. IsFiniteSet({t})
    BY FS_Singleton
  <2>3. n \in Int /\ 1 \in Int
    BY HistoryTypes
  <2>. HIDE DEF n
  <2>4. IsFiniteSet(1 .. n)
    BY <2>3, FS_Interval
  <2>5. IsFiniteSet({t} \X (1 .. n))
    BY <2>2, <2>4, FS_Product
  <2>. QED  BY <2>5 DEF n
<1>2. IsFiniteSet(rows)
  <2>1. row \in Surjection(ThreadId, rows)
    BY DEF Surjection
  <2>. HIDE DEF row, rows
  <2>. QED  BY <2>1, ThreadsAssumption, FS_Surjection
<1>3. Places(H) = UNION rows
  BY DEF Places
<1>4. IsFiniteSet(Places(H))
  <2>1. \A T \in rows : IsFiniteSet(T)
    BY <1>1
  <2>. HIDE DEF rows
  <2>. QED  BY <1>2, <1>3, <2>1, FS_UNION
<1>. HIDE DEF row, rows
<1>. DEFINE Holds(x, p) == p[1] \in ThreadId /\ p[2] \in 1 .. Len(H.of[p[1]]) /\ x = H.of[p[1]][p[2]]
            place == [x \in H.ops |-> CHOOSE p \in Places(H) : Holds(x, p)]
<1>5. \A x \in H.ops : \E p \in Places(H) : Holds(x, p)
  <2>1. SUFFICES ASSUME NEW x \in H.ops PROVE \E p \in Places(H) : Holds(x, p)
    OBVIOUS
  <2>2. PICK t \in ThreadId : \E i \in 1 .. Len(H.of[t]) : x = H.of[t][i]
    BY DEF IsHistory
  <2>3. PICK i \in 1 .. Len(H.of[t]) : x = H.of[t][i]
    BY <2>2
  <2>4. i \in 1 .. H.done[t] + 1
    BY HistoryTypes
  <2>5. <<t, i>> \in Places(H)
    BY <2>4 DEF Places
  <2>6. Holds(x, <<t, i>>)
    BY <2>3
  <2>. QED  BY <2>5, <2>6
<1>6. \A x \in H.ops : place[x] \in Places(H) /\ Holds(x, place[x])
  BY <1>5
<1>7. place \in Injection(H.ops, Places(H))
  <2>1. \A x, y \in H.ops : place[x] = place[y] => x = y
    BY <1>6
  <2>2. place \in [H.ops -> Places(H)]
    BY <1>6
  <2>. HIDE DEF place
  <2>. QED  BY <2>1, <2>2 DEF Injection, IsInjective
<1>. HIDE DEF place
<1>. QED  BY <1>4, <1>7, FS_Injection, FS_CardinalityType

-----------------------------------------------------------------------------
(* The search of the linearizability tester                                *)

\* completed has the indices of what must precede x, an operation of t.
Remembers(H, completed, t, x) ==
    /\ DOMAIN completed \subseteq ThreadId \ {t}
    /\ \A u \in DOMAIN completed : completed[u] \in Nat /\ completed[u] + 1 <= H.done[u]
    /\ \A u \in ThreadId \ {t} : \A j \in 1 .. H.done[u] :
          <<H.of[u][j], x>> \in H.before <=> u \in DOMAIN completed /\ j <= completed[u] + 1

\* The linearizability tester knows the history.
LinKnows(H) ==
    /\ lin.init_ref_obj = H.init
    /\ DOMAIN lin.in_flight_by_thread = {t \in ThreadId : Len(H.of[t]) = H.done[t] + 1}
    /\ lin.in_flight_by_thread =
          [t \in DOMAIN lin.in_flight_by_thread |-> lin.in_flight_by_thread[t]]
    /\ \A t \in DOMAIN lin.in_flight_by_thread :
          LET flying == lin.in_flight_by_thread[t]
              x == H.of[t][H.done[t] + 1]
          IN  flying.op = H.what[x] /\ Remembers(H, flying.completed, t, x)
    /\ \A t \in ThreadId :
          /\ Len(lin.history_by_thread[t]) = H.done[t]
          /\ \A i \in 1 .. H.done[t] :
                LET next == lin.history_by_thread[t][i]
                    x == H.of[t][i]
                IN  /\ next.op = H.what[x] /\ next.ret = H.ret[x]
                    /\ Remembers(H, next.completed, t, x)

\* A violation is an operation that must precede and is not taken.
LEMMA ViolationMeansNotFree ==
    ASSUME NEW H, IsHistory(H), LinKnows(H), NEW done \in [ThreadId -> Nat],
           NEW t \in ThreadId, done[t] + 1 \in 1 .. Len(H.of[t]),
           NEW completed, Remembers(H, completed, t, H.of[t][done[t] + 1])
    PROVE  Lin!IsViolation(lin.history_by_thread, completed, done)
              <=> ~IsFree(H, done, H.of[t][done[t] + 1])
<1>. DEFINE x == H.of[t][done[t] + 1]
<1>1. /\ DOMAIN completed \subseteq ThreadId \ {t}
      /\ \A u \in DOMAIN completed : completed[u] \in Nat /\ completed[u] + 1 <= H.done[u]
      /\ \A u \in ThreadId \ {t} : \A j \in 1 .. H.done[u] :
            <<H.of[u][j], x>> \in H.before <=> u \in DOMAIN completed /\ j <= completed[u] + 1
  BY DEF Remembers
<1>2. \A u \in ThreadId : Len(lin.history_by_thread[u]) = H.done[u] /\ H.done[u] \in Nat /\ done[u] \in Nat
  BY HistoryTypes DEF LinKnows
<1>3. ASSUME NEW j \in 1 .. H.done[t], <<H.of[t][j], x>> \in H.before
      PROVE  j <= done[t]
  <2>1. \A i, k \in 1 .. Len(H.of[t]) : <<H.of[t][i], H.of[t][k]>> \in H.before <=> i < k
    BY DEF IsHistory
  <2>2. j \in 1 .. Len(H.of[t])
    BY HistoryTypes
  <2>3. j < done[t] + 1
    BY <1>3, <2>1, <2>2
  <2>. QED  BY <1>2, <2>3
<1>. HIDE DEF x
<1>4. ASSUME NEW u \in DOMAIN completed, done[u] <= completed[u]
      PROVE  ~IsFree(H, done, x)
  <2>1. u \in ThreadId \ {t} /\ completed[u] + 1 \in 1 .. H.done[u]
    BY <1>1, <1>2
  <2>2. <<H.of[u][completed[u] + 1], x>> \in H.before
    BY <1>1, <2>1
  <2>3. ~(completed[u] + 1 <= done[u])
    BY <1>1, <1>2, <1>4
  <2>. QED  BY <2>1, <2>2, <2>3 DEF IsFree
<1>5. ASSUME ~IsFree(H, done, x)
      PROVE  Lin!IsViolation(lin.history_by_thread, completed, done)
  <2>1. PICK u \in ThreadId : \E j \in 1 .. H.done[u] : <<H.of[u][j], x>> \in H.before /\ ~(j <= done[u])
    BY <1>5 DEF IsFree
  <2>2. PICK j \in 1 .. H.done[u] : <<H.of[u][j], x>> \in H.before /\ ~(j <= done[u])
    BY <2>1
  <2>3. u # t
    BY <1>3, <2>2
  <2>4. u \in DOMAIN completed /\ j <= completed[u] + 1
    BY <1>1, <2>2, <2>3
  <2>5. done[u] < Len(lin.history_by_thread[u]) /\ done[u] <= completed[u]
    <3>1. completed[u] \in Nat
      BY <1>1, <2>4
    <3>2. done[u] \in Nat /\ Len(lin.history_by_thread[u]) = H.done[u] /\ H.done[u] \in Nat
      BY <1>2
    <3>. QED  BY <2>2, <2>4, <3>1, <3>2
  <2>. QED  BY <2>4, <2>5 DEF Lin!IsViolation
<1>. QED  BY <1>4, <1>5 DEF Lin!IsViolation, x

\* A tester has the reference objects of its own module.
LEMMA LinHasTheObjects ==
    ASSUME NEW object, NEW op, NEW ret
    PROVE  /\ Lin!After(object, op) = After(object, op)
           /\ Lin!Ret(object, op) = Ret(object, op)
           /\ Lin!IsValidStep(object, op, ret) = IsValidStep(object, op, ret)
<1>1. Lin!After(object, op) = After(object, op)
  BY Zenon DEF After, Lin!After, Popped, Lin!Popped
<1>2. Lin!Ret(object, op) = Ret(object, op)
  BY Zenon DEF Ret, Lin!Ret, Last, Lin!Last, WriteOk, ReadOk, PushOk, PopOk, LenOk,
               Lin!WriteOk, Lin!ReadOk, Lin!PushOk, Lin!PopOk, Lin!LenOk
<1>3. Lin!IsValidStep(object, op, ret) = IsValidStep(object, op, ret)
  BY <1>2, Zenon DEF IsValidStep, Lin!IsValidStep, ReadOk, Lin!ReadOk, LenOk, Lin!LenOk
<1>. QED  BY <1>1, <1>2, <1>3

\* The call that one operation more makes.
LEMMA FollowedIs ==
    ASSUME NEW call, IsCall(call), NEW op, NEW ret
    PROVE  Lin!Followed(call, op, ret) =
              [valid_history |-> Append(call.valid_history, <<op, ret>>),
               ref_obj |-> After(call.ref_obj, op),
               done |-> call.done, in_flight |-> call.in_flight]
<1>. DEFINE longer == Append(call.valid_history, <<op, ret>>)
            object == call.ref_obj
            after == After(call.ref_obj, op)
            first == [call EXCEPT !.valid_history = longer]
            both == [first EXCEPT !.ref_obj = After(@, op)]
<1>1. Lin!Followed(call, op, ret) = both
  BY LinHasTheObjects DEF Lin!Followed
<1>2. after = After(object, op)
  OBVIOUS
<1>3. call = [valid_history |-> call.valid_history, ref_obj |-> object,
              done |-> call.done, in_flight |-> call.in_flight]
  BY DEF IsCall
<1>. HIDE DEF longer, object, after
<1>4. first = [valid_history |-> longer, ref_obj |-> object,
               done |-> call.done, in_flight |-> call.in_flight]
  BY <1>3
<1>. HIDE DEF first
<1>5. both = [valid_history |-> longer, ref_obj |-> after,
              done |-> call.done, in_flight |-> call.in_flight]
  BY <1>2, <1>4
<1>. QED  BY <1>1, <1>5 DEF longer, after

\* What serialize tries for the thread t.
LinTakes(call, t) ==
    IF call.done[t] = Len(lin.history_by_thread[t])
    THEN Lin!TakeInFlight(lin, call, t)
    ELSE Lin!TakeCompleted(lin, call, t)

\* It takes the next operation of t exactly if that may be taken.
LEMMA LinTakesNext ==
    ASSUME NEW H, IsHistory(H), LinKnows(H), NEW call,
           IsGood(H, call, lin.in_flight_by_thread), NEW t \in ThreadId
    PROVE  /\ \A next \in LinTakes(call, t) : TakesStep(H, call, next, t)
           /\ CanTake(H, call, t) => LinTakes(call, t) # {}
<1>. DEFINE x == NextOf(H, call, t)
            in_flight == lin.in_flight_by_thread
<1>1. PICK taken, object : Reflects(H, call, taken, object, in_flight)
  BY DEF IsGood
<1>2. /\ IsCall(call) /\ call.done \in [ThreadId -> Nat] /\ call.done[t] \in Nat /\ H.done[t] \in Nat
      /\ call.done[t] <= H.done[t] /\ Len(lin.history_by_thread[t]) = H.done[t]
      /\ Len(H.of[t]) \in Nat /\ H.done[t] <= Len(H.of[t])
  BY <1>1, HistoryTypes DEF Reflects, LinKnows
<1>3. CASE call.done[t] < H.done[t]
  <2>. DEFINE next == lin.history_by_thread[t][call.done[t] + 1]
              followed == [valid_history |-> Append(call.valid_history, <<next.op, next.ret>>),
                           ref_obj |-> After(call.ref_obj, next.op),
                           done |-> call.done, in_flight |-> call.in_flight]
              made == [followed EXCEPT !.done[t] = @ + 1]
              violates == Lin!IsViolation(lin.history_by_thread, next.completed, call.done)
              valid == IsValidStep(call.ref_obj, next.op, next.ret)
  <2>1. call.done[t] + 1 \in 1 .. H.done[t] /\ call.done[t] + 1 \in 1 .. Len(H.of[t])
    BY <1>2, <1>3
  <2>2. next.op = H.what[x] /\ next.ret = H.ret[x] /\ Remembers(H, next.completed, t, x)
    BY <2>1 DEF LinKnows, NextOf
  <2>3. x \in Ended(H) /\ x \in H.ops
    BY <2>1, HistoryTypes DEF Ended, NextOf
  <2>4. valid <=> H.ret[x] = Ret(call.ref_obj, H.what[x])
    <3>1. IsOp(next.op) /\ IsRet(next.ret)
      BY <2>2, <2>3 DEF IsHistory
    <3>. QED  BY <2>2, <3>1, ValidStepIsRet
  <2>5. violates <=> ~IsFree(H, call.done, x)
    <3>1. Remembers(H, next.completed, t, H.of[t][call.done[t] + 1])
      BY <2>2 DEF NextOf
    <3>. HIDE DEF next
    <3>. QED  BY <1>2, <2>1, <3>1, ViolationMeansNotFree DEF NextOf
  <2>6. LinTakes(call, t) = IF violates \/ ~valid THEN {} ELSE {made}
    <3>1. LinTakes(call, t) = Lin!TakeCompleted(lin, call, t)
      BY <1>2, <1>3 DEF LinTakes
    <3>2. Lin!Followed(call, next.op, next.ret) = followed
      BY <1>2, FollowedIs
    <3>. HIDE DEF followed
    <3>. QED  BY <3>1, <3>2, LinHasTheObjects DEF Lin!TakeCompleted
  <2>7. CanTake(H, call, t) <=> ~violates /\ valid
    BY <1>3, <2>4, <2>5 DEF CanTake
  <2>8. /\ IsCall(made) /\ made.ref_obj = After(call.ref_obj, H.what[x])
        /\ made.done = [call.done EXCEPT ![t] = @ + 1] /\ made.in_flight = call.in_flight
    <3>1. followed = [valid_history |-> followed.valid_history, ref_obj |-> followed.ref_obj,
                      done |-> call.done, in_flight |-> call.in_flight]
      OBVIOUS
    <3>2. followed.ref_obj = After(call.ref_obj, H.what[x])
      BY <2>2
    <3>. HIDE DEF followed
    <3>3. made = [valid_history |-> followed.valid_history, ref_obj |-> followed.ref_obj,
                  done |-> [call.done EXCEPT ![t] = @ + 1], in_flight |-> call.in_flight]
      BY <3>1
    <3>4. IsCall(made)
      BY <3>3 DEF IsCall
    <3>. QED  BY <3>2, <3>3, <3>4
  <2>. HIDE DEF made, violates, valid
  <2>9. CanTake(H, call, t) => TakesStep(H, call, made, t)
    BY <1>3, <2>8 DEF TakesStep
  <2>. QED  BY <2>6, <2>7, <2>9
<1>4. CASE ~(call.done[t] < H.done[t])
  <2>. DEFINE flying == call.in_flight[t]
              ret == Ret(call.ref_obj, flying.op)
              rest == [u \in DOMAIN call.in_flight \ {t} |-> call.in_flight[u]]
              followed == [valid_history |-> Append(call.valid_history, <<flying.op, ret>>),
                           ref_obj |-> After(call.ref_obj, flying.op),
                           done |-> call.done, in_flight |-> call.in_flight]
              made == [followed EXCEPT !.in_flight = [u \in DOMAIN @ \ {t} |-> @[u]]]
              violates == Lin!IsViolation(lin.history_by_thread, flying.completed, call.done)
  <2>1. call.done[t] = H.done[t]
    BY <1>2, <1>4
  <2>2. LinTakes(call, t) = IF t \notin DOMAIN call.in_flight \/ violates THEN {} ELSE {made}
    <3>1. LinTakes(call, t) = Lin!TakeInFlight(lin, call, t)
      BY <1>2, <2>1 DEF LinTakes
    <3>2. Lin!Followed(call, flying.op, ret) = followed
      BY <1>2, FollowedIs
    <3>. HIDE DEF followed
    <3>. QED  BY <3>1, <3>2, LinHasTheObjects DEF Lin!TakeInFlight
  <2>3. CASE t \in DOMAIN call.in_flight
    <3>1. flying = in_flight[t] /\ Len(H.of[t]) = H.done[t] + 1
      BY <1>1, <2>3 DEF Reflects
    <3>2. flying.op = H.what[x] /\ Remembers(H, flying.completed, t, x)
      BY <2>1, <3>1 DEF LinKnows, NextOf
    <3>3. violates <=> ~IsFree(H, call.done, x)
      <4>1. Remembers(H, flying.completed, t, H.of[t][call.done[t] + 1])
        BY <3>2 DEF NextOf
      <4>2. call.done[t] + 1 \in 1 .. Len(H.of[t])
        BY <1>2, <2>1, <3>1
      <4>. HIDE DEF flying
      <4>. QED  BY <1>2, <4>1, <4>2, ViolationMeansNotFree DEF NextOf
    <3>4. CanTake(H, call, t) <=> ~violates
      BY <1>4, <2>3, <3>3 DEF CanTake
    <3>5. /\ IsCall(made) /\ made.ref_obj = After(call.ref_obj, H.what[x])
          /\ made.done = call.done /\ made.in_flight = rest
      <4>1. followed = [valid_history |-> followed.valid_history, ref_obj |-> followed.ref_obj,
                        done |-> call.done, in_flight |-> call.in_flight]
        OBVIOUS
      <4>2. followed.ref_obj = After(call.ref_obj, H.what[x])
        BY <3>2
      <4>. HIDE DEF followed
      <4>3. made = [valid_history |-> followed.valid_history, ref_obj |-> followed.ref_obj,
                    done |-> call.done, in_flight |-> rest]
        BY <4>1
      <4>4. IsCall(made)
        BY <4>3 DEF IsCall
      <4>. QED  BY <4>2, <4>3, <4>4
    <3>. HIDE DEF made, violates
    <3>6. CanTake(H, call, t) => TakesStep(H, call, made, t)
      BY <1>4, <3>5 DEF TakesStep
    <3>. QED  BY <2>2, <2>3, <3>4, <3>6
  <2>4. CASE ~(t \in DOMAIN call.in_flight)
    BY <1>4, <2>2, <2>4 DEF CanTake
  <2>. QED  BY <2>3, <2>4
<1>. QED  BY <1>3, <1>4

\* The calls that a call of serialize makes of itself.
LEMMA LinSerializes ==
    ASSUME NEW H, IsHistory(H), LinKnows(H), NEW call
    PROVE  /\ Lin!IsDone(lin, call) <=> Finished(H, call)
           /\ Lin!Serialize(lin, call) =
                 IF Finished(H, call) THEN {} ELSE UNION {LinTakes(call, t) : t \in ThreadId}
<1>1. Lin!IsDone(lin, call) <=> Finished(H, call)
  BY DEF Lin!IsDone, Finished, LinKnows
<1>2. Lin!Serialize(lin, call) =
         IF Lin!IsDone(lin, call) THEN {} ELSE UNION {LinTakes(call, t) : t \in ThreadId}
  BY Zenon DEF Lin!Serialize, LinTakes
<1>. QED  BY <1>1, <1>2

\* The levels of the search.
LinReached(depth, f) ==
    f = [n \in 0 .. depth |->
            IF n = 0 THEN {Lin!Start(lin)}
            ELSE UNION {Lin!Serialize(lin, call) : call \in f[n - 1]}]

\* There are such levels.
LEMMA LinReachedExists ==
    ASSUME NEW depth \in Nat
    PROVE  \E f : LinReached(depth, f)
<1>. DEFINE Calls(calls) == UNION {Lin!Serialize(lin, call) : call \in calls}
            start == {Lin!Start(lin)}
            IsSoFar(m, f) ==
               /\ f = [k \in 0 .. depth |-> f[k]]
               /\ f[0] = start
               /\ \A k \in 1 .. m : f[k] = Calls(f[k - 1])
            S == {m \in 0 .. depth : \E f : IsSoFar(m, f)}
<1>. HIDE DEF Calls, start
<1>1. 0 \in S
  <2>. DEFINE f == [k \in 0 .. depth |-> start]
  <2>1. f = [k \in 0 .. depth |-> f[k]]
    OBVIOUS
  <2>2. f[0] = start
    OBVIOUS
  <2>. HIDE DEF f
  <2>. QED  BY <2>1, <2>2
<1>2. ASSUME NEW m \in 0 .. depth - 1, m \in S
      PROVE  m + 1 \in S
  <2>1. PICK f : IsSoFar(m, f)
    BY <1>2
  <2>. DEFINE g == [k \in 0 .. depth |-> IF k = m + 1 THEN Calls(f[m]) ELSE f[k]]
  <2>2. g = [k \in 0 .. depth |-> g[k]]
    OBVIOUS
  <2>3. g[0] = start
    BY <2>1
  <2>4. ASSUME NEW k \in 1 .. m + 1
        PROVE  g[k] = Calls(g[k - 1])
    <3>1. k \in 0 .. depth /\ k - 1 \in 0 .. depth /\ k - 1 # m + 1
      OBVIOUS
    <3>2. g[k - 1] = f[k - 1] /\ g[k] = IF k = m + 1 THEN Calls(f[m]) ELSE f[k]
      BY <3>1
    <3>3. k # m + 1 => f[k] = Calls(f[k - 1])
      <4>1. k # m + 1 => k \in 1 .. m
        OBVIOUS
      <4>. QED  BY <2>1, <4>1
    <3>4. k = m + 1 => k - 1 = m
      OBVIOUS
    <3>. HIDE DEF g
    <3>. QED  BY <3>2, <3>3, <3>4
  <2>5. m + 1 \in 0 .. depth
    OBVIOUS
  <2>. HIDE DEF g
  <2>. QED  BY <2>2, <2>3, <2>4, <2>5
<1>3. depth \in S
  <2>. HIDE DEF S
  <2>. QED  BY <1>1, <1>2, Induction
<1>4. PICK f : IsSoFar(depth, f)
  BY <1>3
<1>5. ASSUME NEW n \in 0 .. depth
      PROVE  f[n] = IF n = 0 THEN start ELSE Calls(f[n - 1])
  <2>1. n # 0 => n \in 1 .. depth
    OBVIOUS
  <2>. QED  BY <1>4, <2>1
<1>6. f = [n \in 0 .. depth |-> IF n = 0 THEN start ELSE Calls(f[n - 1])]
  BY <1>4, <1>5
<1>. QED  BY <1>6 DEF LinReached, Calls, start

\* Those are the levels of a search of the history.
LEMMA LinReachedIsSearch ==
    ASSUME NEW H, IsHistory(H), LinKnows(H), NEW depth \in Nat, NEW level, LinReached(depth, level)
    PROVE  IsSearch(H, lin.in_flight_by_thread, depth, level)
<1>. DEFINE flying == lin.in_flight_by_thread
            start == Lin!Start(lin)
<1>1. level[0] = {start} /\ \A n \in 1 .. depth :
         level[n] = UNION {Lin!Serialize(lin, call) : call \in level[n - 1]}
  BY DEF LinReached
<1>2. Reflects(H, start, {}, H.init, flying)
  <2>1. start = [valid_history |-> << >>, ref_obj |-> H.init,
                 done |-> [t \in ThreadId |-> 0], in_flight |-> flying]
    BY DEF Lin!Start, LinKnows
  <2>2. IsCall(start)
    BY <2>1 DEF IsCall
  <2>3. \A t \in ThreadId : H.done[t] \in Nat
    BY HistoryTypes
  <2>4. start.done = [t \in ThreadId |-> 0] /\ start.ref_obj = H.init /\ start.in_flight = flying
    BY <2>1
  <2>5. DOMAIN flying = {t \in ThreadId : Len(H.of[t]) = H.done[t] + 1}
    BY DEF LinKnows
  <2>6. flying = [t \in DOMAIN flying |-> flying[t]]
    BY DEF LinKnows
  <2>. HIDE DEF start, flying
  <2>. QED  BY <2>2, <2>3, <2>4, <2>5, <2>6 DEF Reflects
<1>. HIDE DEF start
<1>3. ASSUME NEW n \in 1 .. depth, NEW next \in level[n]
      PROVE  \E call \in level[n - 1] :
                IsGood(H, call, flying) => \E t \in ThreadId : TakesStep(H, call, next, t)
  <2>1. PICK call \in level[n - 1] : next \in Lin!Serialize(lin, call)
    BY <1>1
  <2>2. PICK t \in ThreadId : next \in LinTakes(call, t)
    BY <2>1, LinSerializes
  <2>. QED  BY <2>2, LinTakesNext
<1>4. ASSUME NEW n \in 1 .. depth, NEW call \in level[n - 1], NEW t \in ThreadId,
             IsGood(H, call, flying), ~Finished(H, call), CanTake(H, call, t)
      PROVE  \E next \in level[n] : TakesStep(H, call, next, t)
  <2>1. PICK next : next \in LinTakes(call, t)
    BY <1>4, LinTakesNext
  <2>2. next \in Lin!Serialize(lin, call)
    BY <1>4, <2>1, LinSerializes
  <2>3. next \in level[n]
    BY <1>1, <2>2
  <2>. QED  BY <1>4, <2>1, <2>3, LinTakesNext
<1>. QED  BY <1>1, <1>2, <1>3, <1>4 DEF IsSearch

\* The tester accepts the history exactly if it has an order.
LEMMA LinDecides ==
    ASSUME NEW H, IsHistory(H), LinKnows(H)
    PROVE  Lin!IsConsistent(lin) <=> lin.is_valid_history /\ IsSerializable(H)
<1>. DEFINE depth == Lin!Depth(lin)
            level == CHOOSE f : LinReached(depth, f)
            calls == UNION {level[n] : n \in 0 .. depth}
<1>1. depth = Cardinality(Places(H))
  <2>1. UNION {{t} \X (1 .. Len(lin.history_by_thread[t]) + 1) : t \in ThreadId} = Places(H)
    BY DEF Places, LinKnows
  <2>2. \A P : Lin!Cardinality(P) = Cardinality(P)
    BY Zenon DEF Cardinality, Lin!Cardinality
  <2>. QED  BY <2>1, <2>2, Zenon DEF Lin!Depth
<1>2. IsFiniteSet(H.ops) /\ depth \in Nat /\ Cardinality(H.ops) <= depth
  BY <1>1, PlacesSuffice
<1>. HIDE DEF depth
<1>3. LinReached(depth, level)
  BY <1>2, LinReachedExists
<1>4. Lin!SerializedHistories(lin) =
         IF lin.is_valid_history
         THEN {call.valid_history : call \in {c \in calls : Lin!IsDone(lin, c)}} ELSE {}
  BY Zenon DEF Lin!SerializedHistories, LinReached, depth
<1>. HIDE DEF level
<1>5. FindsOrder(H, depth, level) <=> \E c \in calls : Lin!IsDone(lin, c)
  BY LinSerializes DEF FindsOrder
<1>. HIDE DEF calls
<1>6. Lin!IsConsistent(lin) <=> lin.is_valid_history /\ \E c \in calls : Lin!IsDone(lin, c)
  BY <1>4 DEF Lin!IsConsistent
<1>7. IsSearch(H, lin.in_flight_by_thread, depth, level)
  BY <1>2, <1>3, LinReachedIsSearch
<1>8. FindsOrder(H, depth, level) <=> IsSerializable(H)
  BY <1>2, <1>7, SearchDecides
<1>. QED  BY <1>5, <1>6, <1>8

-----------------------------------------------------------------------------
(* The search of the sequential consistency tester                         *)

\* The sequential consistency tester knows the history.
SeqKnows(H) ==
    /\ seq.init_ref_obj = H.init
    /\ DOMAIN seq.in_flight_by_thread = {t \in ThreadId : Len(H.of[t]) = H.done[t] + 1}
    /\ seq.in_flight_by_thread =
          [t \in DOMAIN seq.in_flight_by_thread |-> seq.in_flight_by_thread[t]]
    /\ \A t \in DOMAIN seq.in_flight_by_thread :
          seq.in_flight_by_thread[t] = H.what[H.of[t][H.done[t] + 1]]
    /\ \A t \in ThreadId :
          /\ Len(seq.history_by_thread[t]) = H.done[t]
          /\ \A i \in 1 .. H.done[t] :
                /\ seq.history_by_thread[t][i].op = H.what[H.of[t][i]]
                /\ seq.history_by_thread[t][i].ret = H.ret[H.of[t][i]]

\* The history keeps no more than the order of each thread.
KeepsThreads(H) ==
    \A t, u \in ThreadId : \A i \in 1 .. Len(H.of[t]), j \in 1 .. Len(H.of[u]) :
       <<H.of[u][j], H.of[t][i]>> \in H.before => u = t

\* Then the next operation of a thread is always free.
LEMMA NextIsFree ==
    ASSUME NEW H, IsHistory(H), KeepsThreads(H), NEW done \in [ThreadId -> Nat],
           NEW t \in ThreadId, done[t] + 1 \in 1 .. Len(H.of[t])
    PROVE  IsFree(H, done, H.of[t][done[t] + 1])
<1>. SUFFICES ASSUME NEW u \in ThreadId, NEW j \in 1 .. H.done[u],
                     <<H.of[u][j], H.of[t][done[t] + 1]>> \in H.before
              PROVE  j <= done[u]
  BY DEF IsFree
<1>1. j \in 1 .. Len(H.of[u])
  BY HistoryTypes
<1>2. u = t
  BY <1>1 DEF KeepsThreads
<1>3. \A i, k \in 1 .. Len(H.of[t]) : <<H.of[t][i], H.of[t][k]>> \in H.before <=> i < k
  BY DEF IsHistory
<1>4. j < done[t] + 1
  BY <1>1, <1>2, <1>3
<1>. QED  BY <1>2, <1>4

\* A tester has the reference objects of its own module.
LEMMA SeqHasTheObjects ==
    ASSUME NEW object, NEW op, NEW ret
    PROVE  /\ Seq_!After(object, op) = After(object, op)
           /\ Seq_!Ret(object, op) = Ret(object, op)
           /\ Seq_!IsValidStep(object, op, ret) = IsValidStep(object, op, ret)
<1>1. Seq_!After(object, op) = After(object, op)
  BY Zenon DEF After, Seq_!After, Popped, Seq_!Popped
<1>2. Seq_!Ret(object, op) = Ret(object, op)
  BY Zenon DEF Ret, Seq_!Ret, Last, Seq_!Last, WriteOk, ReadOk, PushOk, PopOk, LenOk,
               Seq_!WriteOk, Seq_!ReadOk, Seq_!PushOk, Seq_!PopOk, Seq_!LenOk
<1>3. Seq_!IsValidStep(object, op, ret) = IsValidStep(object, op, ret)
  BY <1>2, Zenon DEF IsValidStep, Seq_!IsValidStep, ReadOk, Seq_!ReadOk, LenOk, Seq_!LenOk
<1>. QED  BY <1>1, <1>2, <1>3

\* The call that one operation more makes.
LEMMA SeqFollowedIs ==
    ASSUME NEW call, IsCall(call), NEW op, NEW ret
    PROVE  Seq_!Followed(call, op, ret) =
              [valid_history |-> Append(call.valid_history, <<op, ret>>),
               ref_obj |-> After(call.ref_obj, op),
               done |-> call.done, in_flight |-> call.in_flight]
<1>. DEFINE longer == Append(call.valid_history, <<op, ret>>)
            object == call.ref_obj
            after == After(call.ref_obj, op)
            first == [call EXCEPT !.valid_history = longer]
            both == [first EXCEPT !.ref_obj = After(@, op)]
<1>1. Seq_!Followed(call, op, ret) = both
  BY SeqHasTheObjects DEF Seq_!Followed
<1>2. after = After(object, op)
  OBVIOUS
<1>3. call = [valid_history |-> call.valid_history, ref_obj |-> object,
              done |-> call.done, in_flight |-> call.in_flight]
  BY DEF IsCall
<1>. HIDE DEF longer, object, after
<1>4. first = [valid_history |-> longer, ref_obj |-> object,
               done |-> call.done, in_flight |-> call.in_flight]
  BY <1>3
<1>. HIDE DEF first
<1>5. both = [valid_history |-> longer, ref_obj |-> after,
              done |-> call.done, in_flight |-> call.in_flight]
  BY <1>2, <1>4
<1>. QED  BY <1>1, <1>5 DEF longer, after

\* What serialize tries for the thread t.
SeqTakes(call, t) ==
    IF call.done[t] = Len(seq.history_by_thread[t])
    THEN Seq_!TakeInFlight(call, t)
    ELSE Seq_!TakeCompleted(seq, call, t)

SeqTries(call) == Seq_!Candidates(seq.history_by_thread, call.done, call.in_flight)

\* It takes the next operation of t exactly if that may be taken.
LEMMA SeqTakesNext ==
    ASSUME NEW H, IsHistory(H), SeqKnows(H), KeepsThreads(H), NEW call,
           IsGood(H, call, seq.in_flight_by_thread), NEW t \in ThreadId
    PROVE  /\ t \in SeqTries(call) => \A next \in SeqTakes(call, t) : TakesStep(H, call, next, t)
           /\ CanTake(H, call, t) => t \in SeqTries(call) /\ SeqTakes(call, t) # {}
<1>. DEFINE x == NextOf(H, call, t)
            in_flight == seq.in_flight_by_thread
<1>1. PICK taken, object : Reflects(H, call, taken, object, in_flight)
  BY DEF IsGood
<1>2. /\ IsCall(call) /\ call.done \in [ThreadId -> Nat] /\ call.done[t] \in Nat /\ H.done[t] \in Nat
      /\ call.done[t] <= H.done[t] /\ Len(seq.history_by_thread[t]) = H.done[t]
      /\ Len(H.of[t]) \in Nat /\ H.done[t] <= Len(H.of[t])
  BY <1>1, HistoryTypes DEF Reflects, SeqKnows
<1>3. t \in SeqTries(call) <=> call.done[t] < H.done[t] \/ t \in DOMAIN call.in_flight
  BY <1>2 DEF SeqTries, Seq_!Candidates
<1>4. CASE call.done[t] < H.done[t]
  <2>. DEFINE next == seq.history_by_thread[t][call.done[t] + 1]
              followed == [valid_history |-> Append(call.valid_history, <<next.op, next.ret>>),
                           ref_obj |-> After(call.ref_obj, next.op),
                           done |-> call.done, in_flight |-> call.in_flight]
              made == [followed EXCEPT !.done[t] = @ + 1]
              valid == IsValidStep(call.ref_obj, next.op, next.ret)
  <2>1. call.done[t] + 1 \in 1 .. H.done[t] /\ call.done[t] + 1 \in 1 .. Len(H.of[t])
    BY <1>2, <1>4
  <2>2. next.op = H.what[x] /\ next.ret = H.ret[x]
    BY <2>1 DEF SeqKnows, NextOf
  <2>3. x \in Ended(H) /\ x \in H.ops
    BY <2>1, HistoryTypes DEF Ended, NextOf
  <2>4. valid <=> H.ret[x] = Ret(call.ref_obj, H.what[x])
    <3>1. IsOp(next.op) /\ IsRet(next.ret)
      BY <2>2, <2>3 DEF IsHistory
    <3>. QED  BY <2>2, <3>1, ValidStepIsRet
  <2>5. IsFree(H, call.done, x)
    BY <1>2, <2>1, NextIsFree DEF NextOf
  <2>6. SeqTakes(call, t) = IF ~valid THEN {} ELSE {made}
    <3>1. SeqTakes(call, t) = Seq_!TakeCompleted(seq, call, t)
      BY <1>2, <1>4 DEF SeqTakes
    <3>2. Seq_!Followed(call, next.op, next.ret) = followed
      BY <1>2, SeqFollowedIs
    <3>. HIDE DEF followed
    <3>. QED  BY <3>1, <3>2, SeqHasTheObjects DEF Seq_!TakeCompleted
  <2>7. CanTake(H, call, t) <=> valid
    BY <1>4, <2>4, <2>5 DEF CanTake
  <2>8. /\ IsCall(made) /\ made.ref_obj = After(call.ref_obj, H.what[x])
        /\ made.done = [call.done EXCEPT ![t] = @ + 1] /\ made.in_flight = call.in_flight
    <3>1. followed = [valid_history |-> followed.valid_history, ref_obj |-> followed.ref_obj,
                      done |-> call.done, in_flight |-> call.in_flight]
      OBVIOUS
    <3>2. followed.ref_obj = After(call.ref_obj, H.what[x])
      BY <2>2
    <3>. HIDE DEF followed
    <3>3. made = [valid_history |-> followed.valid_history, ref_obj |-> followed.ref_obj,
                  done |-> [call.done EXCEPT ![t] = @ + 1], in_flight |-> call.in_flight]
      BY <3>1
    <3>4. IsCall(made)
      BY <3>3 DEF IsCall
    <3>. QED  BY <3>2, <3>3, <3>4
  <2>. HIDE DEF made, valid
  <2>9. CanTake(H, call, t) => TakesStep(H, call, made, t)
    BY <1>4, <2>8 DEF TakesStep
  <2>. QED  BY <1>3, <1>4, <2>6, <2>7, <2>9
<1>5. CASE ~(call.done[t] < H.done[t]) /\ t \in DOMAIN call.in_flight
  <2>. DEFINE op == call.in_flight[t]
              ret == Ret(call.ref_obj, op)
              rest == [u \in DOMAIN call.in_flight \ {t} |-> call.in_flight[u]]
              followed == [valid_history |-> Append(call.valid_history, <<op, ret>>),
                           ref_obj |-> After(call.ref_obj, op),
                           done |-> call.done, in_flight |-> call.in_flight]
              made == [followed EXCEPT !.in_flight = [u \in DOMAIN @ \ {t} |-> @[u]]]
  <2>1. call.done[t] = H.done[t]
    BY <1>2, <1>5
  <2>2. op = in_flight[t] /\ Len(H.of[t]) = H.done[t] + 1
    BY <1>1, <1>5 DEF Reflects
  <2>3. op = H.what[x]
    BY <2>1, <2>2 DEF SeqKnows, NextOf
  <2>4. CanTake(H, call, t)
    <3>1. call.done[t] + 1 \in 1 .. Len(H.of[t])
      BY <1>2, <2>1, <2>2
    <3>2. IsFree(H, call.done, x)
      BY <1>2, <3>1, NextIsFree DEF NextOf
    <3>. QED  BY <1>5, <3>2 DEF CanTake
  <2>5. SeqTakes(call, t) = {made}
    <3>1. SeqTakes(call, t) = Seq_!TakeInFlight(call, t)
      BY <1>2, <2>1 DEF SeqTakes
    <3>2. Seq_!Followed(call, op, ret) = followed
      BY <1>2, SeqFollowedIs
    <3>. HIDE DEF followed
    <3>. QED  BY <3>1, <3>2, SeqHasTheObjects DEF Seq_!TakeInFlight
  <2>6. /\ IsCall(made) /\ made.ref_obj = After(call.ref_obj, H.what[x])
        /\ made.done = call.done /\ made.in_flight = rest
    <3>1. followed = [valid_history |-> followed.valid_history, ref_obj |-> followed.ref_obj,
                      done |-> call.done, in_flight |-> call.in_flight]
      OBVIOUS
    <3>2. followed.ref_obj = After(call.ref_obj, H.what[x])
      BY <2>3
    <3>. HIDE DEF followed
    <3>3. made = [valid_history |-> followed.valid_history, ref_obj |-> followed.ref_obj,
                  done |-> call.done, in_flight |-> rest]
      BY <3>1
    <3>4. IsCall(made)
      BY <3>3 DEF IsCall
    <3>. QED  BY <3>2, <3>3, <3>4
  <2>. HIDE DEF made
  <2>7. TakesStep(H, call, made, t)
    BY <1>5, <2>4, <2>6 DEF TakesStep
  <2>. QED  BY <1>3, <1>5, <2>5, <2>7
<1>6. CASE ~(call.done[t] < H.done[t]) /\ ~(t \in DOMAIN call.in_flight)
  BY <1>3, <1>6 DEF CanTake
<1>. QED  BY <1>4, <1>5, <1>6

\* The calls that a call of serialize makes of itself.
LEMMA SeqSerializes ==
    ASSUME NEW H, IsHistory(H), SeqKnows(H), NEW call
    PROVE  /\ Seq_!IsDone(seq, call) <=> Finished(H, call)
           /\ Seq_!Serialize(seq, call) =
                 IF Finished(H, call) THEN {} ELSE UNION {SeqTakes(call, t) : t \in SeqTries(call)}
<1>1. Seq_!IsDone(seq, call) <=> Finished(H, call)
  BY DEF Seq_!IsDone, Finished, SeqKnows
<1>2. Seq_!Serialize(seq, call) =
         IF Seq_!IsDone(seq, call) THEN {} ELSE UNION {SeqTakes(call, t) : t \in SeqTries(call)}
  BY Zenon DEF Seq_!Serialize, SeqTakes, SeqTries
<1>. QED  BY <1>1, <1>2

\* The levels of the search.
SeqReached(depth, f) ==
    f = [n \in 0 .. depth |->
            IF n = 0 THEN {Seq_!Start(seq)}
            ELSE UNION {Seq_!Serialize(seq, call) : call \in f[n - 1]}]

\* There are such levels.
LEMMA SeqReachedExists ==
    ASSUME NEW depth \in Nat
    PROVE  \E f : SeqReached(depth, f)
<1>. DEFINE Calls(calls) == UNION {Seq_!Serialize(seq, call) : call \in calls}
            start == {Seq_!Start(seq)}
            IsSoFar(m, f) ==
               /\ f = [k \in 0 .. depth |-> f[k]]
               /\ f[0] = start
               /\ \A k \in 1 .. m : f[k] = Calls(f[k - 1])
            S == {m \in 0 .. depth : \E f : IsSoFar(m, f)}
<1>. HIDE DEF Calls, start
<1>1. 0 \in S
  <2>. DEFINE f == [k \in 0 .. depth |-> start]
  <2>1. f = [k \in 0 .. depth |-> f[k]]
    OBVIOUS
  <2>2. f[0] = start
    OBVIOUS
  <2>. HIDE DEF f
  <2>. QED  BY <2>1, <2>2
<1>2. ASSUME NEW m \in 0 .. depth - 1, m \in S
      PROVE  m + 1 \in S
  <2>1. PICK f : IsSoFar(m, f)
    BY <1>2
  <2>. DEFINE g == [k \in 0 .. depth |-> IF k = m + 1 THEN Calls(f[m]) ELSE f[k]]
  <2>2. g = [k \in 0 .. depth |-> g[k]]
    OBVIOUS
  <2>3. g[0] = start
    BY <2>1
  <2>4. ASSUME NEW k \in 1 .. m + 1
        PROVE  g[k] = Calls(g[k - 1])
    <3>1. k \in 0 .. depth /\ k - 1 \in 0 .. depth /\ k - 1 # m + 1
      OBVIOUS
    <3>2. g[k - 1] = f[k - 1] /\ g[k] = IF k = m + 1 THEN Calls(f[m]) ELSE f[k]
      BY <3>1
    <3>3. k # m + 1 => f[k] = Calls(f[k - 1])
      <4>1. k # m + 1 => k \in 1 .. m
        OBVIOUS
      <4>. QED  BY <2>1, <4>1
    <3>4. k = m + 1 => k - 1 = m
      OBVIOUS
    <3>. HIDE DEF g
    <3>. QED  BY <3>2, <3>3, <3>4
  <2>5. m + 1 \in 0 .. depth
    OBVIOUS
  <2>. HIDE DEF g
  <2>. QED  BY <2>2, <2>3, <2>4, <2>5
<1>3. depth \in S
  <2>. HIDE DEF S
  <2>. QED  BY <1>1, <1>2, Induction
<1>4. PICK f : IsSoFar(depth, f)
  BY <1>3
<1>5. ASSUME NEW n \in 0 .. depth
      PROVE  f[n] = IF n = 0 THEN start ELSE Calls(f[n - 1])
  <2>1. n # 0 => n \in 1 .. depth
    OBVIOUS
  <2>. QED  BY <1>4, <2>1
<1>6. f = [n \in 0 .. depth |-> IF n = 0 THEN start ELSE Calls(f[n - 1])]
  BY <1>4, <1>5
<1>. QED  BY <1>6 DEF SeqReached, Calls, start

\* Those are the levels of a search of the history.
LEMMA SeqReachedIsSearch ==
    ASSUME NEW H, IsHistory(H), SeqKnows(H), KeepsThreads(H),
           NEW depth \in Nat, NEW level, SeqReached(depth, level)
    PROVE  IsSearch(H, seq.in_flight_by_thread, depth, level)
<1>. DEFINE flying == seq.in_flight_by_thread
            start == Seq_!Start(seq)
<1>1. level[0] = {start} /\ \A n \in 1 .. depth :
         level[n] = UNION {Seq_!Serialize(seq, call) : call \in level[n - 1]}
  BY DEF SeqReached
<1>2. Reflects(H, start, {}, H.init, flying)
  <2>1. start = [valid_history |-> << >>, ref_obj |-> H.init,
                 done |-> [t \in ThreadId |-> 0], in_flight |-> flying]
    BY DEF Seq_!Start, SeqKnows
  <2>2. IsCall(start)
    BY <2>1 DEF IsCall
  <2>3. \A t \in ThreadId : H.done[t] \in Nat
    BY HistoryTypes
  <2>4. start.done = [t \in ThreadId |-> 0] /\ start.ref_obj = H.init /\ start.in_flight = flying
    BY <2>1
  <2>5. DOMAIN flying = {t \in ThreadId : Len(H.of[t]) = H.done[t] + 1}
    BY DEF SeqKnows
  <2>6. flying = [t \in DOMAIN flying |-> flying[t]]
    BY DEF SeqKnows
  <2>. HIDE DEF start, flying
  <2>. QED  BY <2>2, <2>3, <2>4, <2>5, <2>6 DEF Reflects
<1>. HIDE DEF start
<1>3. ASSUME NEW n \in 1 .. depth, NEW next \in level[n]
      PROVE  \E call \in level[n - 1] :
                IsGood(H, call, flying) => \E t \in ThreadId : TakesStep(H, call, next, t)
  <2>1. PICK call \in level[n - 1] : next \in Seq_!Serialize(seq, call)
    BY <1>1
  <2>2. PICK t \in SeqTries(call) : next \in SeqTakes(call, t)
    BY <2>1, SeqSerializes
  <2>3. t \in ThreadId
    BY DEF SeqTries, Seq_!Candidates
  <2>. QED  BY <2>2, <2>3, SeqTakesNext
<1>4. ASSUME NEW n \in 1 .. depth, NEW call \in level[n - 1], NEW t \in ThreadId,
             IsGood(H, call, flying), ~Finished(H, call), CanTake(H, call, t)
      PROVE  \E next \in level[n] : TakesStep(H, call, next, t)
  <2>1. t \in SeqTries(call) /\ \E next : next \in SeqTakes(call, t)
    BY <1>4, SeqTakesNext
  <2>4. PICK next : next \in SeqTakes(call, t)
    BY <2>1
  <2>2. next \in Seq_!Serialize(seq, call)
    BY <1>4, <2>1, <2>4, SeqSerializes
  <2>3. next \in level[n]
    BY <1>1, <2>2
  <2>. QED  BY <1>4, <2>1, <2>3, <2>4, SeqTakesNext
<1>. QED  BY <1>1, <1>2, <1>3, <1>4 DEF IsSearch

\* The tester accepts the history exactly if it has an order.
LEMMA SeqDecides ==
    ASSUME NEW H, IsHistory(H), SeqKnows(H), KeepsThreads(H)
    PROVE  Seq_!IsConsistent(seq) <=> seq.is_valid_history /\ IsSerializable(H)
<1>. DEFINE depth == Seq_!Depth(seq)
            level == CHOOSE f : SeqReached(depth, f)
            calls == UNION {level[n] : n \in 0 .. depth}
<1>1. depth = Cardinality(Places(H))
  <2>1. UNION {{t} \X (1 .. Len(seq.history_by_thread[t]) + 1) : t \in ThreadId} = Places(H)
    BY DEF Places, SeqKnows
  <2>2. \A P : Seq_!Cardinality(P) = Cardinality(P)
    BY Zenon DEF Cardinality, Seq_!Cardinality
  <2>. QED  BY <2>1, <2>2, Zenon DEF Seq_!Depth
<1>2. IsFiniteSet(H.ops) /\ depth \in Nat /\ Cardinality(H.ops) <= depth
  BY <1>1, PlacesSuffice
<1>. HIDE DEF depth
<1>3. SeqReached(depth, level)
  BY <1>2, SeqReachedExists
<1>4. Seq_!SerializedHistories(seq) =
         IF seq.is_valid_history
         THEN {call.valid_history : call \in {c \in calls : Seq_!IsDone(seq, c)}} ELSE {}
  BY Zenon DEF Seq_!SerializedHistories, SeqReached, depth
<1>. HIDE DEF level
<1>5. FindsOrder(H, depth, level) <=> \E c \in calls : Seq_!IsDone(seq, c)
  BY SeqSerializes DEF FindsOrder
<1>. HIDE DEF calls
<1>6. Seq_!IsConsistent(seq) <=> seq.is_valid_history /\ \E c \in calls : Seq_!IsDone(seq, c)
  BY <1>4 DEF Seq_!IsConsistent
<1>7. IsSearch(H, seq.in_flight_by_thread, depth, level)
  BY <1>2, <1>3, SeqReachedIsSearch
<1>8. FindsOrder(H, depth, level) <=> IsSerializable(H)
  BY <1>2, <1>7, SearchDecides
<1>. QED  BY <1>5, <1>6, <1>8

-----------------------------------------------------------------------------
(* The recorded history as a history of a search                           *)

IsCallOf(call, t, k) ==
    k \in DOMAIN recorded /\ recorded[k].call = call /\ recorded[k].thread = t

\* The calls of each thread in turn: where its operations were invoked and where they returned.
Tracks(name, back) ==
    /\ Len(recorded) \in Nat /\ DOMAIN recorded = 1 .. Len(recorded)
    /\ name \in [ThreadId -> Seq(Nat)] /\ back \in [ThreadId -> Seq(Nat)]
    /\ \A t \in ThreadId :
          /\ Len(back[t]) <= Len(name[t]) /\ Len(name[t]) <= Len(back[t]) + 1
          /\ \A i \in 1 .. Len(name[t]) : IsCallOf("on_invoke", t, name[t][i])
          /\ \A i \in 1 .. Len(back[t]) : IsCallOf("on_return", t, back[t][i]) /\ name[t][i] < back[t][i]
          /\ \A i \in 1 .. Len(back[t]), j \in 1 .. Len(name[t]) : i < j => back[t][i] < name[t][j]
    /\ \A k \in DOMAIN recorded : \E t \in ThreadId :
          \/ \E i \in 1 .. Len(name[t]) : k = name[t][i]
          \/ \E i \in 1 .. Len(back[t]) : k = back[t][i]

RecordedHistory(name, back, kept) ==
    [ops    |-> Invocations,
     of     |-> name,
     done   |-> [t \in ThreadId |-> Len(back[t])],
     what   |-> [k \in Invocations |-> recorded[k].op],
     ret    |-> [k \in Answered |-> recorded[CHOOSE r \in ReturnsOf(k) : TRUE].ret],
     before |-> kept,
     init   |-> lin.init_ref_obj]

\* What is recorded are calls that the reference objects can make.
CallsOf(name, back) ==
    /\ \A t \in ThreadId : \A i \in 1 .. Len(name[t]) : IsOp(recorded[name[t][i]].op)
    /\ \A t \in ThreadId : \A i \in 1 .. Len(back[t]) : IsRet(recorded[back[t][i]].ret)

\* The types of what is tracked of one thread, and its order.
LEMMA TrackedInOrder ==
    ASSUME NEW name, NEW back, Tracks(name, back), NEW t \in ThreadId
    PROVE  /\ name[t] \in Seq(Nat) /\ back[t] \in Seq(Nat)
           /\ Len(name[t]) \in Nat /\ Len(back[t]) \in Nat
           /\ Len(back[t]) <= Len(name[t]) /\ Len(name[t]) <= Len(back[t]) + 1
           /\ \A i \in 1 .. Len(name[t]) : name[t][i] \in Nat
           /\ \A i \in 1 .. Len(back[t]) : back[t][i] \in Nat /\ name[t][i] < back[t][i]
           /\ \A i \in 1 .. Len(back[t]), j \in 1 .. Len(name[t]) : i < j => back[t][i] < name[t][j]
           /\ \A i, j \in 1 .. Len(name[t]) : i < j => name[t][i] < name[t][j]
           /\ \A i, j \in 1 .. Len(back[t]) : i < j => back[t][i] < back[t][j]
<1>1. name[t] \in Seq(Nat) /\ back[t] \in Seq(Nat)
  BY DEF Tracks
<1>2. Len(back[t]) <= Len(name[t]) /\ Len(name[t]) <= Len(back[t]) + 1
  BY DEF Tracks
<1>3. /\ \A i \in 1 .. Len(back[t]) : name[t][i] < back[t][i]
      /\ \A i \in 1 .. Len(back[t]), j \in 1 .. Len(name[t]) : i < j => back[t][i] < name[t][j]
  BY DEF Tracks
<1>4. Len(name[t]) \in Nat /\ Len(back[t]) \in Nat
  BY <1>1
<1>5. /\ \A i \in 1 .. Len(name[t]) : name[t][i] \in Nat
      /\ \A i \in 1 .. Len(back[t]) : back[t][i] \in Nat
  BY <1>1
<1>. DEFINE a == name[t]
            b == back[t]
<1>. HIDE DEF a, b
<1>6. \A i \in 1 .. Len(b) : i \in 1 .. Len(a)
  BY <1>2, <1>4 DEF a, b
<1>7. ASSUME NEW i \in 1 .. Len(a), NEW j \in 1 .. Len(a), i < j
      PROVE  i \in 1 .. Len(b)
  BY <1>2, <1>4, <1>7 DEF a, b
<1>8. ASSUME NEW i \in 1 .. Len(a), NEW j \in 1 .. Len(a), i < j
      PROVE  a[i] < a[j]
  <2>1. a[i] < b[i] /\ b[i] < a[j] /\ a[i] \in Nat /\ b[i] \in Nat /\ a[j] \in Nat
    BY <1>3, <1>5, <1>7, <1>8 DEF a, b
  <2>. QED  BY <2>1
<1>9. ASSUME NEW i \in 1 .. Len(b), NEW j \in 1 .. Len(b), i < j
      PROVE  b[i] < b[j]
  <2>1. b[i] < a[j] /\ a[j] < b[j] /\ b[i] \in Nat /\ a[j] \in Nat /\ b[j] \in Nat
    BY <1>3, <1>5, <1>6, <1>9 DEF a, b
  <2>. QED  BY <2>1
<1>. QED  BY <1>1, <1>2, <1>3, <1>4, <1>5, <1>8, <1>9 DEF a, b

\* The calls of a thread are the ones that are tracked of it.
LEMMA CallsAreTracked ==
    ASSUME NEW name, NEW back, Tracks(name, back), NEW t \in ThreadId,
           NEW k \in DOMAIN recorded, recorded[k].thread = t
    PROVE  \/ recorded[k].call = "on_invoke" /\ \E i \in 1 .. Len(name[t]) : k = name[t][i]
           \/ recorded[k].call = "on_return" /\ \E i \in 1 .. Len(back[t]) : k = back[t][i]
<1>1. PICK u \in ThreadId : \/ \E i \in 1 .. Len(name[u]) : k = name[u][i]
                            \/ \E i \in 1 .. Len(back[u]) : k = back[u][i]
  BY DEF Tracks
<1>2. /\ \A i \in 1 .. Len(name[u]) : IsCallOf("on_invoke", u, name[u][i])
      /\ \A i \in 1 .. Len(back[u]) : IsCallOf("on_return", u, back[u][i])
  BY DEF Tracks
<1>. QED  BY <1>1, <1>2 DEF IsCallOf

\* An operation returned with the call of its thread that comes next.
LEMMA TrackedReturns ==
    ASSUME NEW name, NEW back, Tracks(name, back), NEW t \in ThreadId, NEW i \in 1 .. Len(name[t])
    PROVE  ReturnsOf(name[t][i]) = IF i <= Len(back[t]) THEN {back[t][i]} ELSE {}
<1>. DEFINE a == name[t]
            b == back[t]
            k == a[i]
<1>1. /\ Len(a) \in Nat /\ Len(b) \in Nat /\ Len(b) <= Len(a) /\ Len(a) <= Len(b) + 1
      /\ \A j \in 1 .. Len(a) : a[j] \in Nat
      /\ \A j \in 1 .. Len(b) : b[j] \in Nat /\ a[j] < b[j]
      /\ \A j \in 1 .. Len(b), l \in 1 .. Len(a) : j < l => b[j] < a[l]
      /\ \A j, l \in 1 .. Len(a) : j < l => a[j] < a[l]
      /\ \A j, l \in 1 .. Len(b) : j < l => b[j] < b[l]
  BY TrackedInOrder
<1>2. /\ \A j \in 1 .. Len(a) : a[j] \in DOMAIN recorded /\ recorded[a[j]].thread = t
      /\ \A j \in 1 .. Len(b) : b[j] \in DOMAIN recorded /\ recorded[b[j]].thread = t
  BY DEF Tracks, IsCallOf
<1>3. ASSUME NEW l \in DOMAIN recorded, recorded[l].thread = t
      PROVE  (\E j \in 1 .. Len(a) : l = a[j]) \/ (\E j \in 1 .. Len(b) : l = b[j])
  BY <1>3, CallsAreTracked
<1>4. recorded[k].thread = t /\ k \in Nat
  BY <1>1, <1>2
<1>5. i \in Nat /\ i >= 1 /\ i <= Len(a)
  BY <1>1
<1>. HIDE DEF a, b
\* Nothing of the thread comes between an invocation and its return.
<1>6. ASSUME NEW m \in DOMAIN recorded, recorded[m].thread = t, m > k, i <= Len(b)
      PROVE  m >= b[i]
  <2>1. i \in 1 .. Len(b) /\ i \in 1 .. Len(a)
    BY <1>5, <1>6
  <2>2. ASSUME NEW j \in 1 .. Len(a), m = a[j]
        PROVE  m >= b[i]
    <3>1. ~(j < i) /\ j # i
      BY <1>1, <1>6, <2>1, <2>2
    <3>2. i < j
      BY <1>1, <1>5, <3>1
    <3>. QED  BY <1>1, <2>1, <2>2, <3>2
  <2>3. ASSUME NEW j \in 1 .. Len(b), m = b[j]
        PROVE  m >= b[i]
    <3>1. ~(j < i)
      BY <1>1, <1>6, <2>1, <2>3
    <3>2. j = i \/ i < j
      BY <1>1, <1>5, <3>1
    <3>. QED  BY <1>1, <2>1, <2>3, <3>2
  <2>. QED  BY <1>3, <1>6, <2>2, <2>3
<1>7. CASE i <= Len(b)
  <2>1. i \in 1 .. Len(b)
    BY <1>5, <1>7
  <2>2. b[i] \in DOMAIN recorded /\ recorded[b[i]].thread = t /\ b[i] > k /\ b[i] \in Nat
    BY <1>1, <1>2, <2>1
  <2>3. \A m \in k + 1 .. b[i] - 1 : recorded[m].thread # t
    <3>1. SUFFICES ASSUME NEW m \in k + 1 .. b[i] - 1, recorded[m].thread = t PROVE FALSE
      OBVIOUS
    <3>2. m \in DOMAIN recorded
      <4>1. Len(recorded) \in Nat /\ DOMAIN recorded = 1 .. Len(recorded)
        BY DEF Tracks
      <4>2. k \in 1 .. Len(recorded) /\ b[i] \in 1 .. Len(recorded)
        BY <1>2, <1>5, <2>2, <4>1
      <4>. QED  BY <1>4, <2>2, <4>1, <4>2
    <3>3. m > k
      BY <1>4, <2>2
    <3>4. m >= b[i]
      BY <1>6, <1>7, <3>1, <3>2, <3>3
    <3>. QED  BY <1>4, <2>2, <3>4
  <2>4. b[i] \in ReturnsOf(k)
    BY <1>4, <2>2, <2>3 DEF ReturnsOf
  <2>5. ASSUME NEW l \in ReturnsOf(k)
        PROVE  l = b[i]
    <3>1. /\ l \in DOMAIN recorded /\ l > k /\ recorded[l].thread = t
          /\ \A m \in k + 1 .. l - 1 : recorded[m].thread # t
      BY <1>4 DEF ReturnsOf
    <3>2. l >= b[i]
      BY <1>6, <1>7, <3>1
    <3>3. l \in Nat
      <4>1. (\E j \in 1 .. Len(a) : l = a[j]) \/ (\E j \in 1 .. Len(b) : l = b[j])
        BY <1>3, <3>1
      <4>. QED  BY <1>1, <4>1
    <3>4. ~(b[i] \in k + 1 .. l - 1)
      BY <2>2, <3>1
    <3>. QED  BY <1>4, <2>2, <3>2, <3>3, <3>4
  <2>. QED  BY <1>7, <2>4, <2>5 DEF a, b
<1>8. CASE ~(i <= Len(b))
  <2>1. i = Len(a)
    BY <1>1, <1>5, <1>8
  <2>2. SUFFICES ASSUME NEW l \in ReturnsOf(k) PROVE FALSE
    BY <1>8 DEF a, b
  <2>3. l \in DOMAIN recorded /\ l > k /\ recorded[l].thread = t
    BY <1>4 DEF ReturnsOf
  <2>4. ASSUME NEW j \in 1 .. Len(a), l = a[j]
        PROVE  FALSE
    <3>1. j = i \/ j < i
      BY <1>1, <1>5, <2>1
    <3>2. i \in 1 .. Len(a)
      BY <1>5
    <3>. QED  BY <1>1, <2>3, <2>4, <3>1, <3>2
  <2>5. ASSUME NEW j \in 1 .. Len(b), l = b[j]
        PROVE  FALSE
    <3>1. j < i /\ i \in 1 .. Len(a)
      BY <1>1, <1>5, <1>8
    <3>. QED  BY <1>1, <2>3, <2>5, <3>1
  <2>. QED  BY <1>3, <2>3, <2>4, <2>5
<1>. QED  BY <1>7, <1>8

\* The operations, and which of them returned.
LEMMA TrackedInvocations ==
    ASSUME NEW name, NEW back, Tracks(name, back)
    PROVE  /\ \A t \in ThreadId : \A i \in 1 .. Len(name[t]) : name[t][i] \in Invocations
           /\ \A t \in ThreadId : \A i \in 1 .. Len(name[t]) :
                 name[t][i] \in Answered <=> i <= Len(back[t])
           /\ \A k \in Invocations : \E t \in ThreadId : \E i \in 1 .. Len(name[t]) : k = name[t][i]
           /\ \A t, u \in ThreadId : \A i \in 1 .. Len(name[t]), j \in 1 .. Len(name[u]) :
                 name[t][i] = name[u][j] => t = u /\ i = j
<1>1. ASSUME NEW t \in ThreadId, NEW i \in 1 .. Len(name[t])
      PROVE  name[t][i] \in Invocations /\ recorded[name[t][i]].thread = t
  BY DEF Tracks, IsCallOf, Invocations
<1>2. ASSUME NEW t \in ThreadId, NEW i \in 1 .. Len(name[t])
      PROVE  name[t][i] \in Answered <=> i <= Len(back[t])
  <2>1. ReturnsOf(name[t][i]) = IF i <= Len(back[t]) THEN {back[t][i]} ELSE {}
    BY TrackedReturns
  <2>2. name[t][i] \in Answered <=> ReturnsOf(name[t][i]) # {}
    BY <1>1 DEF Answered
  <2>. QED  BY <2>1, <2>2
<1>3. ASSUME NEW k \in Invocations
      PROVE  \E t \in ThreadId : \E i \in 1 .. Len(name[t]) : k = name[t][i]
  <2>1. k \in DOMAIN recorded /\ recorded[k].call = "on_invoke"
    BY DEF Invocations
  <2>2. PICK t \in ThreadId : \/ \E i \in 1 .. Len(name[t]) : k = name[t][i]
                              \/ \E i \in 1 .. Len(back[t]) : k = back[t][i]
    BY <2>1 DEF Tracks
  <2>3. \A i \in 1 .. Len(back[t]) : recorded[back[t][i]].call = "on_return"
    BY DEF Tracks, IsCallOf
  <2>. QED  BY <2>1, <2>2, <2>3
<1>4. ASSUME NEW t \in ThreadId, NEW u \in ThreadId,
             NEW i \in 1 .. Len(name[t]), NEW j \in 1 .. Len(name[u]), name[t][i] = name[u][j]
      PROVE  t = u /\ i = j
  <2>1. t = u
    BY <1>1, <1>4
  <2>2. /\ Len(name[t]) \in Nat
        /\ \A k \in 1 .. Len(name[t]) : name[t][k] \in Nat
        /\ \A k, l \in 1 .. Len(name[t]) : k < l => name[t][k] < name[t][l]
    BY TrackedInOrder
  <2>3. j \in 1 .. Len(name[t]) /\ name[t][i] = name[t][j]
    BY <1>4, <2>1
  <2>4. ~(i < j) /\ ~(j < i)
    BY <2>2, <2>3
  <2>. QED  BY <2>1, <2>2, <2>3, <2>4
<1>. QED  BY <1>1, <1>2, <1>3, <1>4

\* Which operations of one thread precede which of another.
LEMMA TrackedPrecedes ==
    ASSUME NEW name, NEW back, Tracks(name, back),
           NEW t \in ThreadId, NEW i \in 1 .. Len(name[t]),
           NEW u \in ThreadId, NEW j \in 1 .. Len(name[u])
    PROVE  /\ <<name[t][i], name[u][j]>> \in RealTime
                 <=> i <= Len(back[t]) /\ back[t][i] < name[u][j]
           /\ <<name[t][i], name[u][j]>> \in ProgramOrder <=> t = u /\ i < j
           /\ t = u => (<<name[t][i], name[u][j]>> \in RealTime <=> i < j)
<1>1. <<name[t][i], name[u][j]>> \in RealTime <=> i <= Len(back[t]) /\ back[t][i] < name[u][j]
  <2>1. <<name[t][i], name[u][j]>> \in Invocations \X Invocations
    BY TrackedInvocations
  <2>2. Precedes(name[t][i], name[u][j]) <=> i <= Len(back[t]) /\ back[t][i] < name[u][j]
    <3>1. ReturnsOf(name[t][i]) = IF i <= Len(back[t]) THEN {back[t][i]} ELSE {}
      BY TrackedReturns
    <3>. QED  BY <3>1 DEF Precedes
  <2>. QED  BY <2>1, <2>2 DEF RealTime
<1>2. t = u => (i <= Len(back[t]) /\ back[t][i] < name[u][j] <=> i < j)
  <2>1. SUFFICES ASSUME t = u
                 PROVE  i <= Len(back[t]) /\ back[t][i] < name[t][j] <=> i < j
    OBVIOUS
  <2>2. /\ Len(name[t]) \in Nat /\ Len(back[t]) \in Nat /\ Len(name[t]) <= Len(back[t]) + 1
        /\ \A k \in 1 .. Len(name[t]) : name[t][k] \in Nat
        /\ \A k \in 1 .. Len(back[t]) : back[t][k] \in Nat /\ name[t][k] < back[t][k]
        /\ \A k \in 1 .. Len(back[t]), l \in 1 .. Len(name[t]) : k < l => back[t][k] < name[t][l]
        /\ \A k, l \in 1 .. Len(name[t]) : k < l => name[t][k] < name[t][l]
    BY TrackedInOrder
  <2>3. j \in 1 .. Len(name[t])
    BY <2>1
  <2>4. ASSUME i < j
        PROVE  i <= Len(back[t]) /\ back[t][i] < name[t][j]
    <3>1. i \in 1 .. Len(back[t])
      BY <2>2, <2>3, <2>4
    <3>. QED  BY <2>2, <2>3, <2>4, <3>1
  <2>5. ASSUME i <= Len(back[t]), back[t][i] < name[t][j], ~(i < j)
        PROVE  FALSE
    <3>1. i \in 1 .. Len(back[t])
      BY <2>2, <2>5
    <3>2. name[t][i] < name[t][j]
      <4>1. name[t][i] < back[t][i] /\ name[t][i] \in Nat /\ back[t][i] \in Nat /\ name[t][j] \in Nat
        BY <2>2, <2>3, <3>1
      <4>. QED  BY <2>5, <4>1
    <3>3. j = i \/ j < i
      BY <2>2, <2>3, <2>5
    <3>. QED  BY <2>2, <2>3, <3>2, <3>3
  <2>. QED  BY <2>4, <2>5
<1>3. <<name[t][i], name[u][j]>> \in ProgramOrder
         <=> <<name[t][i], name[u][j]>> \in RealTime /\ t = u
  <2>1. recorded[name[t][i]].thread = t /\ recorded[name[u][j]].thread = u
    BY DEF Tracks, IsCallOf
  <2>. QED  BY <2>1 DEF ProgramOrder
<1>. QED  BY <1>1, <1>2, <1>3

\* What must be kept is the order of each thread at least, and real time at most.
LEMMA TrackedIsHistory ==
    ASSUME NEW name, NEW back, Tracks(name, back), CallsOf(name, back),
           NEW kept, kept \in {RealTime, ProgramOrder}
    PROVE  /\ IsHistory(RecordedHistory(name, back, kept))
           /\ Ended(RecordedHistory(name, back, kept)) = Answered
           /\ \A t \in ThreadId : \A i \in 1 .. Len(back[t]) :
                 RecordedHistory(name, back, kept).ret[name[t][i]] = recorded[back[t][i]].ret
<1>. DEFINE H == RecordedHistory(name, back, kept)
<1>1. /\ H.ops = Invocations /\ H.of = name /\ H.done = [t \in ThreadId |-> Len(back[t])]
      /\ H.what = [k \in Invocations |-> recorded[k].op] /\ H.before = kept
      /\ H.ret = [k \in Answered |-> recorded[CHOOSE r \in ReturnsOf(k) : TRUE].ret]
  BY DEF RecordedHistory
<1>. HIDE DEF H
<1>2. \A t \in ThreadId :
         /\ name[t] \in Seq(Nat) /\ Len(name[t]) \in Nat /\ Len(back[t]) \in Nat /\ H.done[t] = Len(back[t])
         /\ Len(back[t]) <= Len(name[t]) /\ Len(name[t]) <= Len(back[t]) + 1
  BY <1>1, TrackedInOrder
<1>3. \A t \in ThreadId : \A i \in 1 .. Len(back[t]) : i \in 1 .. Len(name[t])
  BY <1>2
<1>4. H.of \in [ThreadId -> Seq(H.ops)]
  <2>1. \A t \in ThreadId : name[t] \in Seq(Invocations)
    <3>1. SUFFICES ASSUME NEW t \in ThreadId PROVE name[t] \in Seq(Invocations)
      OBVIOUS
    <3>2. \A i \in 1 .. Len(name[t]) : name[t][i] \in Invocations
      BY TrackedInvocations
    <3>. QED  BY <1>2, <3>2
  <2>2. name = [t \in ThreadId |-> name[t]]
    BY DEF Tracks
  <2>. QED  BY <1>1, <2>1, <2>2
<1>5. Ended(H) = Answered
  <2>1. ASSUME NEW x \in Answered
        PROVE  x \in Ended(H)
    <3>1. PICK t \in ThreadId : \E i \in 1 .. Len(name[t]) : x = name[t][i]
      BY TrackedInvocations DEF Answered
    <3>2. PICK i \in 1 .. Len(name[t]) : x = name[t][i]
      BY <3>1
    <3>3. i <= Len(back[t])
      BY <3>2, TrackedInvocations
    <3>4. i \in 1 .. H.done[t]
      BY <1>2, <3>3
    <3>5. x \in H.ops
      BY <1>1 DEF Answered
    <3>. QED  BY <1>1, <3>2, <3>4, <3>5 DEF Ended
  <2>2. ASSUME NEW x \in Ended(H)
        PROVE  x \in Answered
    <3>1. PICK t \in ThreadId : \E i \in 1 .. H.done[t] : x = H.of[t][i]
      BY DEF Ended
    <3>2. PICK i \in 1 .. Len(back[t]) : x = name[t][i]
      BY <1>1, <1>2, <3>1
    <3>3. i <= Len(back[t]) /\ i \in 1 .. Len(name[t])
      BY <1>2, <1>3
    <3>. QED  BY <3>2, <3>3, TrackedInvocations
  <2>. QED  BY <2>1, <2>2
<1>6. ASSUME NEW t \in ThreadId, NEW i \in 1 .. Len(back[t])
      PROVE  H.ret[name[t][i]] = recorded[back[t][i]].ret
  <2>1. i \in 1 .. Len(name[t]) /\ i <= Len(back[t])
    BY <1>2
  <2>2. ReturnsOf(name[t][i]) = {back[t][i]} /\ name[t][i] \in Answered
    BY <2>1, TrackedReturns, TrackedInvocations
  <2>3. (CHOOSE r \in ReturnsOf(name[t][i]) : TRUE) = back[t][i]
    BY <2>2
  <2>. QED  BY <1>1, <2>2, <2>3
<1>7. \A t \in ThreadId : \A i, j \in 1 .. Len(name[t]) : <<name[t][i], name[t][j]>> \in kept <=> i < j
  BY TrackedPrecedes
<1>8. ASSUME NEW x \in Invocations, NEW y \in Invocations, <<x, y>> \in kept
      PROVE  x \in Answered
  BY <1>8 DEF RealTime, ProgramOrder, Precedes, Answered
<1>9. \A x \in Invocations : IsOp(H.what[x])
  <2>1. SUFFICES ASSUME NEW x \in Invocations PROVE IsOp(recorded[x].op)
    BY <1>1
  <2>. QED  BY TrackedInvocations DEF CallsOf
<1>10. \A x \in Answered : IsRet(H.ret[x])
  <2>1. SUFFICES ASSUME NEW x \in Answered PROVE IsRet(H.ret[x])
    OBVIOUS
  <2>2. PICK t \in ThreadId : \E i \in 1 .. H.done[t] : x = H.of[t][i]
    BY <1>5 DEF Ended
  <2>3. PICK i \in 1 .. Len(back[t]) : x = name[t][i]
    BY <1>1, <1>2, <2>2
  <2>. QED  BY <1>6, <2>3 DEF CallsOf
<1>11. IsHistory(H)
  <2>1. H.done \in [ThreadId -> Nat]
    BY <1>1, <1>2
  <2>2. \A x \in H.ops : \E t \in ThreadId : \E i \in 1 .. Len(H.of[t]) : x = H.of[t][i]
    BY <1>1, TrackedInvocations
  <2>3. \A t, u \in ThreadId : \A i \in 1 .. Len(H.of[t]), j \in 1 .. Len(H.of[u]) :
           H.of[t][i] = H.of[u][j] => t = u /\ i = j
    BY <1>1, TrackedInvocations
  <2>4. \A t \in ThreadId : H.done[t] <= Len(H.of[t]) /\ Len(H.of[t]) <= H.done[t] + 1
    BY <1>1, <1>2
  <2>5. \A t \in ThreadId : \A i, j \in 1 .. Len(H.of[t]) :
           <<H.of[t][i], H.of[t][j]>> \in H.before <=> i < j
    BY <1>1, <1>7
  <2>6. \A x, y \in H.ops : <<x, y>> \in H.before => x \in Ended(H)
    BY <1>1, <1>5, <1>8
  <2>7. /\ \A x \in H.ops : IsOp(H.what[x])
        /\ \A x \in Ended(H) : IsRet(H.ret[x])
    BY <1>1, <1>5, <1>9, <1>10
  <2>. QED  BY <1>4, <2>1, <2>2, <2>3, <2>4, <2>5, <2>6, <2>7 DEF IsHistory
<1>. QED  BY <1>5, <1>6, <1>11 DEF H

-----------------------------------------------------------------------------
(* The reference definition speaks of the same orders                      *)

\* The objects between the operations of an order.
IsRun(order, f) ==
    f = [i \in 0 .. Len(order) |->
            IF i = 0 THEN lin.init_ref_obj ELSE After(f[i - 1], recorded[order[i]].op)]

\* They are the ones that follow from each other.
LEMMA RunSteps ==
    ASSUME NEW order, NEW n \in Nat, Len(order) = n, NEW f, IsRun(order, f)
    PROVE  /\ f[0] = lin.init_ref_obj
           /\ \A i \in 1 .. n : f[i] = After(f[i - 1], recorded[order[i]].op)
<1>1. \A i \in 0 .. n : f[i] = IF i = 0 THEN lin.init_ref_obj ELSE After(f[i - 1], recorded[order[i]].op)
  BY DEF IsRun
<1>2. 0 \in 0 .. n /\ \A i \in 1 .. n : i \in 0 .. n /\ i # 0
  OBVIOUS
<1>. QED  BY <1>1, <1>2

\* There are such objects.
LEMMA RunExists ==
    ASSUME NEW order, NEW n \in Nat, Len(order) = n
    PROVE  \E f : IsRun(order, f)
<1>. DEFINE FollowedBy(object, i) == After(object, recorded[order[i]].op)
            first == lin.init_ref_obj
            IsSoFar(m, f) ==
               /\ f = [k \in 0 .. n |-> f[k]]
               /\ f[0] = first
               /\ \A k \in 1 .. m : f[k] = FollowedBy(f[k - 1], k)
            S == {m \in 0 .. n : \E f : IsSoFar(m, f)}
<1>. HIDE DEF FollowedBy, first
<1>1. 0 \in S
  <2>. DEFINE f == [k \in 0 .. n |-> first]
  <2>1. f = [k \in 0 .. n |-> f[k]]
    OBVIOUS
  <2>2. f[0] = first
    OBVIOUS
  <2>. HIDE DEF f
  <2>. QED  BY <2>1, <2>2
<1>2. ASSUME NEW m \in 0 .. n - 1, m \in S
      PROVE  m + 1 \in S
  <2>1. PICK f : IsSoFar(m, f)
    BY <1>2
  <2>. DEFINE g == [k \in 0 .. n |-> IF k = m + 1 THEN FollowedBy(f[m], m + 1) ELSE f[k]]
  <2>2. g = [k \in 0 .. n |-> g[k]]
    OBVIOUS
  <2>3. g[0] = first
    BY <2>1
  <2>4. ASSUME NEW k \in 1 .. m + 1
        PROVE  g[k] = FollowedBy(g[k - 1], k)
    <3>1. k \in 0 .. n /\ k - 1 \in 0 .. n /\ k - 1 # m + 1
      OBVIOUS
    <3>2. g[k - 1] = f[k - 1] /\ g[k] = IF k = m + 1 THEN FollowedBy(f[m], m + 1) ELSE f[k]
      BY <3>1
    <3>3. k # m + 1 => f[k] = FollowedBy(f[k - 1], k)
      <4>1. k # m + 1 => k \in 1 .. m
        OBVIOUS
      <4>. QED  BY <2>1, <4>1
    <3>4. k = m + 1 => k - 1 = m
      OBVIOUS
    <3>. HIDE DEF g
    <3>. QED  BY <3>2, <3>3, <3>4
  <2>5. m + 1 \in 0 .. n
    OBVIOUS
  <2>. HIDE DEF g
  <2>. QED  BY <2>2, <2>3, <2>4, <2>5
<1>3. n \in S
  <2>. HIDE DEF S
  <2>1. 0 .. n \subseteq S
    BY <1>1, <1>2, Induction
  <2>. QED  BY <2>1
<1>4. PICK f : IsSoFar(n, f)
  BY <1>3
<1>5. ASSUME NEW i \in 0 .. n
      PROVE  f[i] = IF i = 0 THEN first ELSE FollowedBy(f[i - 1], i)
  <2>1. i # 0 => i \in 1 .. n
    OBVIOUS
  <2>. QED  BY <1>4, <2>1
<1>6. f = [i \in 0 .. n |-> IF i = 0 THEN first ELSE FollowedBy(f[i - 1], i)]
  BY <1>4, <1>5
<1>. QED  BY <1>6 DEF IsRun, FollowedBy, first

\* The order is legal if it returns what was recorded from the objects f.
LegalWith(order, n, f) ==
    /\ f[0] = lin.init_ref_obj
    /\ \A i \in 1 .. n : f[i] = After(f[i - 1], recorded[order[i]].op)
    /\ IsLegal(order) <=>
          \A i \in 1 .. n : \A r \in ReturnsOf(order[i]) :
             recorded[r].ret = Ret(f[i - 1], recorded[order[i]].op)

\* IsLegal is about those objects.
LEMMA LegalMeans ==
    ASSUME NEW order, NEW n \in Nat, Len(order) = n, DOMAIN order = 1 .. n
    PROVE  \E f : LegalWith(order, n, f)
<1>. DEFINE f == CHOOSE g : IsRun(order, g)
<1>1. IsRun(order, f)
  BY RunExists
<1>2. IsLegal(order) <=>
         \A i \in DOMAIN order : \A r \in ReturnsOf(order[i]) :
            recorded[r].ret = Ret(f[i - 1], recorded[order[i]].op)
  BY Zenon DEF IsLegal, IsRun
<1>. HIDE DEF f
<1>3. /\ f[0] = lin.init_ref_obj
      /\ \A i \in 1 .. n : f[i] = After(f[i - 1], recorded[order[i]].op)
  BY <1>1, RunSteps
<1>. QED  BY <1>2, <1>3 DEF LegalWith

\* An order of a set has every element of it.
LEMMA OrdersAreComplete ==
    ASSUME NEW ops, IsFiniteSet(ops), NEW order \in Orders(ops)
    PROVE  /\ Cardinality(ops) \in Nat
           /\ DOMAIN order = 1 .. Cardinality(ops) /\ Len(order) = Cardinality(ops)
           /\ order \in [1 .. Cardinality(ops) -> ops]
           /\ \A i, j \in 1 .. Cardinality(ops) : order[i] = order[j] => i = j
           /\ \A x \in ops : \E i \in 1 .. Cardinality(ops) : order[i] = x
<1>. DEFINE n == Cardinality(ops)
<1>1. n \in Nat
  BY FS_CardinalityType
<1>2. order \in [1 .. n -> ops] /\ \A i, j \in 1 .. n : order[i] = order[j] => i = j
  BY DEF Orders
<1>. HIDE DEF n
<1>3. DOMAIN order = 1 .. n /\ Len(order) = n
  <2>1. order \in Seq(ops)
    BY <1>1, <1>2
  <2>2. DOMAIN order = 1 .. n
    BY <1>2
  <2>3. DOMAIN order = 1 .. Len(order) /\ Len(order) \in Nat
    BY <2>1
  <2>. QED  BY <1>1, <2>2, <2>3
<1>4. order \in Injection(1 .. n, ops)
  BY <1>2 DEF Injection, IsInjective
<1>5. Cardinality(1 .. n) = Cardinality(ops)
  BY <1>1, FS_Interval DEF n
<1>6. order \in Surjection(1 .. n, ops)
  BY <1>4, <1>5, FS_Injection
<1>7. \A x \in ops : \E i \in 1 .. n : order[i] = x
  BY <1>6 DEF Surjection
<1>. QED  BY <1>1, <1>2, <1>3, <1>7 DEF n

\* What is taken, each once, is an order of what is taken.
LEMMA TakenIsOrdered ==
    ASSUME NEW n \in Nat, NEW V, NEW o \in [1 .. n -> V], \A i, j \in 1 .. n : o[i] = o[j] => i = j
    PROVE  /\ Cardinality(Taken(o, n)) = n
           /\ o \in Orders(Taken(o, n))
<1>1. o \in [1 .. n -> Taken(o, n)]
  BY DEF Taken
<1>2. o \in Injection(1 .. n, Taken(o, n))
  BY <1>1 DEF Injection, IsInjective
<1>3. o \in Surjection(1 .. n, Taken(o, n))
  BY <1>1 DEF Surjection, Taken
<1>4. o \in Bijection(1 .. n, Taken(o, n))
  BY <1>2, <1>3 DEF Bijection
<1>5. ExistsBijection(1 .. n, Taken(o, n))
  BY <1>4 DEF ExistsBijection
<1>6. Cardinality(Taken(o, n)) = n
  BY <1>5, FS_CountingElements
<1>7. DOMAIN o = 1 .. n
  OBVIOUS
<1>. QED  BY <1>1, <1>6, <1>7 DEF Orders

\* The reference definition holds exactly if the history has an order.
LEMMA ExplainedMeansSerializable ==
    ASSUME NEW name, NEW back, Tracks(name, back), CallsOf(name, back),
           NEW kept, kept \in {RealTime, ProgramOrder}
    PROVE  IsExplained(kept) <=> IsSerializable(RecordedHistory(name, back, kept))
<1>. DEFINE H == RecordedHistory(name, back, kept)
<1>1. /\ H.ops = Invocations /\ H.what = [k \in Invocations |-> recorded[k].op]
      /\ H.before = kept /\ H.init = lin.init_ref_obj
      /\ H.ret = [k \in Answered |-> recorded[CHOOSE r \in ReturnsOf(k) : TRUE].ret]
  BY DEF RecordedHistory
<1>2. IsHistory(H) /\ Ended(H) = Answered
  BY TrackedIsHistory
<1>3. IsFiniteSet(Invocations)
  BY <1>1, <1>2, PlacesSuffice
<1>4. Answered \subseteq Invocations
  BY DEF Answered
<1>5. \A x, y \in Invocations : <<x, y>> \in kept => x \in Answered
  BY <1>1, <1>2 DEF IsHistory
<1>6. \A x, y : <<x, y>> \in kept => x \in Invocations /\ y \in Invocations
  BY DEF RealTime, ProgramOrder
<1>7. ASSUME NEW x \in Invocations
      PROVE  /\ H.what[x] = recorded[x].op
             /\ ~(x \in Answered) => ReturnsOf(x) = {}
             /\ x \in Answered => ReturnsOf(x) # {} /\ \A r \in ReturnsOf(x) : H.ret[x] = recorded[r].ret
  <2>1. PICK t \in ThreadId : \E i \in 1 .. Len(name[t]) : x = name[t][i]
    BY TrackedInvocations
  <2>2. PICK i \in 1 .. Len(name[t]) : x = name[t][i]
    BY <2>1
  <2>3. ReturnsOf(x) = IF i <= Len(back[t]) THEN {back[t][i]} ELSE {}
    BY <2>2, TrackedReturns
  <2>4. x \in Answered <=> ReturnsOf(x) # {}
    BY DEF Answered
  <2>5. \A r \in ReturnsOf(x) : r = CHOOSE q \in ReturnsOf(x) : TRUE
    BY <2>3
  <2>. HIDE DEF H
  <2>. QED  BY <1>1, <2>4, <2>5
<1>. HIDE DEF H
<1>8. ASSUME IsSerializable(H)
      PROVE  IsExplained(kept)
  <2>1. PICK n \in Nat : \E o, obj : Explains(H, o, n, obj) /\ Ended(H) \subseteq Taken(o, n)
    BY <1>8 DEF IsSerializable
  <2>2. PICK o, obj : Explains(H, o, n, obj) /\ Ended(H) \subseteq Taken(o, n)
    BY <2>1
  <2>3. /\ o \in [1 .. n -> Invocations]
        /\ \A i, j \in 1 .. n : o[i] = o[j] => i = j
        /\ \A i \in 1 .. n : \A x \in Invocations :
              <<x, o[i]>> \in kept => \E j \in 1 .. n : j < i /\ o[j] = x
        /\ obj[0] = lin.init_ref_obj
        /\ \A i \in 1 .. n : obj[i] = After(obj[i - 1], H.what[o[i]])
        /\ \A i \in 1 .. n : o[i] \in Answered => H.ret[o[i]] = Ret(obj[i - 1], H.what[o[i]])
    <3>1. /\ o \in [1 .. n -> H.ops]
          /\ \A i, j \in 1 .. n : o[i] = o[j] => i = j
          /\ \A i \in 1 .. n : \A x \in H.ops :
                <<x, o[i]>> \in H.before => \E j \in 1 .. n : j < i /\ o[j] = x
          /\ obj[0] = H.init
          /\ \A i \in 1 .. n : obj[i] = After(obj[i - 1], H.what[o[i]])
          /\ \A i \in 1 .. n : o[i] \in Ended(H) => H.ret[o[i]] = Ret(obj[i - 1], H.what[o[i]])
      BY <2>2 DEF Explains
    <3>2. H.ops = Invocations /\ H.before = kept /\ H.init = lin.init_ref_obj /\ Ended(H) = Answered
      BY <1>1, <1>2
    <3>. QED  BY <3>1, <3>2
  <2>. DEFINE some == Taken(o, n) \ Answered
  <2>4. some \in SUBSET (Invocations \ Answered) /\ Answered \cup some = Taken(o, n)
    BY <1>2, <2>2, <2>3 DEF Taken
  <2>5. o \in Orders(Answered \cup some) /\ Cardinality(Answered \cup some) = n
    <3>1. o \in Orders(Taken(o, n)) /\ Cardinality(Taken(o, n)) = n
      BY <2>3, TakenIsOrdered
    <3>. QED  BY <2>4, <3>1
  <2>6. IsFiniteSet(Answered \cup some)
    BY <1>3, <1>4, <2>4, FS_Subset
  <2>7. DOMAIN o = 1 .. n /\ Len(o) = n
    BY <2>5, <2>6, OrdersAreComplete
  <2>8. \A i, j \in DOMAIN o : <<o[j], o[i]>> \in kept => j < i
    <3>1. SUFFICES ASSUME NEW i \in 1 .. n, NEW j \in 1 .. n, <<o[j], o[i]>> \in kept PROVE j < i
      BY <2>7
    <3>2. PICK m \in 1 .. n : m < i /\ o[m] = o[j]
      BY <2>3, <3>1
    <3>. QED  BY <2>3, <3>2
  <2>9. IsLegal(o)
    <3>6. PICK f : LegalWith(o, n, f)
      BY <2>7, LegalMeans
    <3>1. /\ f[0] = lin.init_ref_obj
          /\ \A i \in 1 .. n : f[i] = After(f[i - 1], recorded[o[i]].op)
          /\ IsLegal(o) <=>
                \A i \in 1 .. n : \A r \in ReturnsOf(o[i]) :
                   recorded[r].ret = Ret(f[i - 1], recorded[o[i]].op)
      BY <3>6 DEF LegalWith
    <3>. DEFINE S == {i \in 0 .. n : f[i] = obj[i]}
    <3>2. 0 \in S
      BY <2>3, <3>1
    <3>3. ASSUME NEW i \in 0 .. n - 1, i \in S
          PROVE  i + 1 \in S
      <4>1. i + 1 \in 1 .. n /\ (i + 1) - 1 = i /\ i + 1 \in 0 .. n
        OBVIOUS
      <4>2. f[i + 1] = After(f[i], recorded[o[i + 1]].op)
        BY <3>1, <4>1
      <4>3. obj[i + 1] = After(obj[i], recorded[o[i + 1]].op)
        BY <1>7, <2>3, <4>1
      <4>. QED  BY <3>3, <4>1, <4>2, <4>3
    <3>4. 0 .. n \subseteq S
      <4>. HIDE DEF S
      <4>. QED  BY <3>2, <3>3, Induction
    <3>5. ASSUME NEW i \in 1 .. n, NEW r \in ReturnsOf(o[i])
          PROVE  recorded[r].ret = Ret(f[i - 1], recorded[o[i]].op)
      <4>1. o[i] \in Invocations /\ i - 1 \in 0 .. n
        BY <2>3
      <4>2. o[i] \in Answered /\ H.ret[o[i]] = recorded[r].ret /\ H.what[o[i]] = recorded[o[i]].op
        BY <1>7, <4>1
      <4>3. f[i - 1] = obj[i - 1]
        BY <3>4, <4>1
      <4>. QED  BY <2>3, <4>2, <4>3
    <3>. QED  BY <3>1, <3>5
  <2>. HIDE DEF some
  <2>. QED  BY <2>4, <2>5, <2>8, <2>9 DEF IsExplained
<1>9. ASSUME IsExplained(kept)
      PROVE  IsSerializable(H)
  <2>1. PICK some \in SUBSET (Invocations \ Answered) :
           \E order \in Orders(Answered \cup some) :
              /\ \A i, j \in DOMAIN order : <<order[j], order[i]>> \in kept => j < i
              /\ IsLegal(order)
    BY <1>9 DEF IsExplained
  <2>2. PICK order \in Orders(Answered \cup some) :
              /\ \A i, j \in DOMAIN order : <<order[j], order[i]>> \in kept => j < i
              /\ IsLegal(order)
    BY <2>1
  <2>. DEFINE ops == Answered \cup some
              n == Cardinality(ops)
  <2>3. IsFiniteSet(ops) /\ ops \subseteq Invocations
    BY <1>3, <1>4, FS_Subset
  <2>12. order \in Orders(ops)
    OBVIOUS
  <2>. HIDE DEF ops
  <2>4. /\ n \in Nat /\ DOMAIN order = 1 .. n /\ Len(order) = n /\ order \in [1 .. n -> ops]
        /\ \A i, j \in 1 .. n : order[i] = order[j] => i = j
        /\ \A x \in ops : \E i \in 1 .. n : order[i] = x
    BY <2>3, <2>12, OrdersAreComplete
  <2>. HIDE DEF n
  <2>13. PICK f : LegalWith(order, n, f)
    BY <2>4, LegalMeans
  <2>5. /\ f[0] = lin.init_ref_obj
        /\ \A i \in 1 .. n : f[i] = After(f[i - 1], recorded[order[i]].op)
        /\ IsLegal(order) <=>
              \A i \in 1 .. n : \A r \in ReturnsOf(order[i]) :
                 recorded[r].ret = Ret(f[i - 1], recorded[order[i]].op)
    BY <2>13 DEF LegalWith
  <2>6. \A i \in 1 .. n : order[i] \in Invocations
    BY <2>3, <2>4
  <2>7. order \in [1 .. n -> Invocations]
    BY <2>4, <2>6
  <2>8. ASSUME NEW i \in 1 .. n, NEW x \in Invocations, <<x, order[i]>> \in kept
        PROVE  \E j \in 1 .. n : j < i /\ order[j] = x
    <3>1. x \in ops
      BY <1>5, <2>6, <2>8 DEF ops
    <3>2. PICK j \in 1 .. n : order[j] = x
      BY <2>4, <3>1
    <3>. QED  BY <2>2, <2>4, <2>8, <3>2
  <2>9. ASSUME NEW i \in 1 .. n
        PROVE  /\ f[i] = After(f[i - 1], H.what[order[i]])
               /\ order[i] \in Answered => H.ret[order[i]] = Ret(f[i - 1], H.what[order[i]])
    <3>1. /\ H.what[order[i]] = recorded[order[i]].op
          /\ order[i] \in Answered =>
                ReturnsOf(order[i]) # {} /\ \A r \in ReturnsOf(order[i]) : H.ret[order[i]] = recorded[r].ret
      BY <1>7, <2>6
    <3>2. \A r \in ReturnsOf(order[i]) : recorded[r].ret = Ret(f[i - 1], recorded[order[i]].op)
      BY <2>2, <2>5
    <3>. QED  BY <2>5, <3>1, <3>2
  <2>10. Explains(H, order, n, f)
    <3>1. order \in [1 .. n -> H.ops] /\ f[0] = H.init
      BY <1>1, <2>5, <2>7
    <3>2. \A i, j \in 1 .. n : order[i] = order[j] => i = j
      BY <2>4
    <3>3. \A i \in 1 .. n : \A x \in H.ops :
             <<x, order[i]>> \in H.before => \E j \in 1 .. n : j < i /\ order[j] = x
      BY <1>1, <2>8
    <3>4. /\ \A i \in 1 .. n : f[i] = After(f[i - 1], H.what[order[i]])
          /\ \A i \in 1 .. n : order[i] \in Ended(H) => H.ret[order[i]] = Ret(f[i - 1], H.what[order[i]])
      BY <1>2, <2>9
    <3>. QED  BY <3>1, <3>2, <3>3, <3>4 DEF Explains
  <2>11. Ended(H) \subseteq Taken(order, n)
    BY <1>2, <2>4 DEF Taken, ops
  <2>. QED  BY <2>4, <2>10, <2>11 DEF IsSerializable
<1>. QED  BY <1>8, <1>9 DEF H

-----------------------------------------------------------------------------
(* How the testers' records change                                         *)

IsTester(tester) ==
    tester = [init_ref_obj |-> tester.init_ref_obj,
              history_by_thread |-> tester.history_by_thread,
              in_flight_by_thread |-> tester.in_flight_by_thread,
              is_valid_history |-> tester.is_valid_history]

TesterIs(tester, init_ref_obj, history_by_thread, in_flight_by_thread, is_valid_history) ==
    /\ IsTester(tester)
    /\ tester.init_ref_obj = init_ref_obj
    /\ tester.history_by_thread = history_by_thread
    /\ tester.in_flight_by_thread = in_flight_by_thread
    /\ tester.is_valid_history = is_valid_history

\* The fields after an update.
LEMMA TesterUpdates ==
    ASSUME NEW tester, IsTester(tester), NEW flying, NEW t, NEW history, NEW valid
    PROVE  /\ TesterIs([tester EXCEPT !.is_valid_history = valid], tester.init_ref_obj,
                       tester.history_by_thread, tester.in_flight_by_thread, valid)
           /\ TesterIs([tester EXCEPT !.in_flight_by_thread = flying], tester.init_ref_obj,
                       tester.history_by_thread, flying, tester.is_valid_history)
           /\ TesterIs([tester EXCEPT !.in_flight_by_thread = flying, !.history_by_thread[t] = history],
                       tester.init_ref_obj, [tester.history_by_thread EXCEPT ![t] = history],
                       flying, tester.is_valid_history)
<1>. DEFINE a == tester.init_ref_obj
            b == tester.history_by_thread
            c == tester.in_flight_by_thread
            d == tester.is_valid_history
            e == [b EXCEPT ![t] = history]
            first == [tester EXCEPT !.in_flight_by_thread = flying]
            both == [first EXCEPT !.history_by_thread[t] = history]
<1>1. tester = [init_ref_obj |-> a, history_by_thread |-> b, in_flight_by_thread |-> c,
                is_valid_history |-> d]
  BY DEF IsTester
<1>2. both = [tester EXCEPT !.in_flight_by_thread = flying, !.history_by_thread[t] = history]
  OBVIOUS
<1>3. e = [b EXCEPT ![t] = history]
  OBVIOUS
<1>. HIDE DEF a, b, c, d
<1>4. first = [init_ref_obj |-> a, history_by_thread |-> b, in_flight_by_thread |-> flying,
               is_valid_history |-> d]
  BY <1>1
<1>5. [tester EXCEPT !.is_valid_history = valid] =
         [init_ref_obj |-> a, history_by_thread |-> b, in_flight_by_thread |-> c, is_valid_history |-> valid]
  BY <1>1
<1>. HIDE DEF first, e
<1>6. both = [init_ref_obj |-> a, history_by_thread |-> e, in_flight_by_thread |-> flying,
              is_valid_history |-> d]
  BY <1>3, <1>4
<1>. HIDE DEF both
<1>7. TesterIs(both, a, e, flying, d)
  BY <1>6 DEF TesterIs, IsTester
<1>8. TesterIs(first, a, b, flying, d)
  BY <1>4 DEF TesterIs, IsTester
<1>9. TesterIs([tester EXCEPT !.is_valid_history = valid], a, b, c, valid)
  BY <1>5 DEF TesterIs, IsTester
<1>. QED  BY <1>2, <1>7, <1>8, <1>9 DEF first, a, b, c, d, e

LinFlying(t, op) == [completed |-> Lin!LastCompleted(lin, t), op |-> op]

\* What the linearizability tester does with a call: the argument is what is invoked or returned.
LinTold(t, what) ==
    /\ ~lin.is_valid_history => Lin!OnInvoke(lin, t, what) = lin /\ Lin!OnReturn(lin, t, what) = lin
    /\ lin.is_valid_history /\ t \in DOMAIN lin.in_flight_by_thread =>
          /\ TesterIs(Lin!OnInvoke(lin, t, what), lin.init_ref_obj, lin.history_by_thread,
                      lin.in_flight_by_thread, FALSE)
          /\ TesterIs(Lin!OnReturn(lin, t, what), lin.init_ref_obj,
                      [lin.history_by_thread EXCEPT ![t] = Append(lin.history_by_thread[t],
                         [completed |-> lin.in_flight_by_thread[t].completed,
                          op |-> lin.in_flight_by_thread[t].op, ret |-> what])],
                      [u \in DOMAIN lin.in_flight_by_thread \ {t} |-> lin.in_flight_by_thread[u]],
                      lin.is_valid_history)
    /\ lin.is_valid_history /\ ~(t \in DOMAIN lin.in_flight_by_thread) =>
          /\ TesterIs(Lin!OnReturn(lin, t, what), lin.init_ref_obj, lin.history_by_thread,
                      lin.in_flight_by_thread, FALSE)
          /\ TesterIs(Lin!OnInvoke(lin, t, what), lin.init_ref_obj, lin.history_by_thread,
                      [u \in DOMAIN lin.in_flight_by_thread \cup {t} |->
                         IF u = t THEN LinFlying(t, what) ELSE lin.in_flight_by_thread[u]],
                      lin.is_valid_history)

\* It does so in every state.
LEMMA LinIsTold ==
    ASSUME IsTester(lin), NEW t, NEW what, lin.is_valid_history \in BOOLEAN
    PROVE  LinTold(t, what)
<1>. DEFINE more == [u \in DOMAIN lin.in_flight_by_thread \cup {t} |->
                       IF u = t THEN LinFlying(t, what) ELSE lin.in_flight_by_thread[u]]
            less == [u \in DOMAIN lin.in_flight_by_thread \ {t} |-> lin.in_flight_by_thread[u]]
            longer == Append(lin.history_by_thread[t],
                             [completed |-> lin.in_flight_by_thread[t].completed,
                              op |-> lin.in_flight_by_thread[t].op, ret |-> what])
<1>1. ASSUME ~lin.is_valid_history
      PROVE  Lin!OnInvoke(lin, t, what) = lin /\ Lin!OnReturn(lin, t, what) = lin
  BY <1>1 DEF Lin!OnInvoke, Lin!OnReturn
<1>2. ASSUME lin.is_valid_history, t \in DOMAIN lin.in_flight_by_thread
      PROVE  /\ Lin!OnInvoke(lin, t, what) = [lin EXCEPT !.is_valid_history = FALSE]
             /\ Lin!OnReturn(lin, t, what) =
                   [lin EXCEPT !.in_flight_by_thread = less, !.history_by_thread[t] = longer]
  <2>1. Lin!OnInvoke(lin, t, what) = [lin EXCEPT !.is_valid_history = FALSE]
    BY <1>2 DEF Lin!OnInvoke, Lin!IsInFlight, Lin!Invalid
  <2>2. Lin!OnReturn(lin, t, what) =
           [lin EXCEPT !.in_flight_by_thread = less, !.history_by_thread[t] = longer]
    BY <1>2 DEF Lin!OnReturn, Lin!IsInFlight
  <2>. QED  BY <2>1, <2>2
<1>3. ASSUME lin.is_valid_history, ~(t \in DOMAIN lin.in_flight_by_thread)
      PROVE  /\ Lin!OnReturn(lin, t, what) = [lin EXCEPT !.is_valid_history = FALSE]
             /\ Lin!OnInvoke(lin, t, what) = [lin EXCEPT !.in_flight_by_thread = more]
  <2>1. Lin!OnReturn(lin, t, what) = [lin EXCEPT !.is_valid_history = FALSE]
    BY <1>3 DEF Lin!OnReturn, Lin!IsInFlight, Lin!Invalid
  <2>2. Lin!OnInvoke(lin, t, what) = [lin EXCEPT !.in_flight_by_thread = more]
    BY <1>3 DEF Lin!OnInvoke, Lin!IsInFlight, LinFlying
  <2>. QED  BY <2>1, <2>2
<1>. HIDE DEF more, less, longer
<1>4. /\ TesterIs([lin EXCEPT !.is_valid_history = FALSE], lin.init_ref_obj,
                  lin.history_by_thread, lin.in_flight_by_thread, FALSE)
      /\ TesterIs([lin EXCEPT !.in_flight_by_thread = more], lin.init_ref_obj,
                  lin.history_by_thread, more, lin.is_valid_history)
      /\ TesterIs([lin EXCEPT !.in_flight_by_thread = less, !.history_by_thread[t] = longer],
                  lin.init_ref_obj, [lin.history_by_thread EXCEPT ![t] = longer], less, lin.is_valid_history)
  BY TesterUpdates
<1>. QED  BY <1>1, <1>2, <1>3, <1>4 DEF LinTold, more, less, longer

\* What the sequential consistency tester does with a call: the argument is what is invoked or returned.
SeqTold(t, what) ==
    /\ ~seq.is_valid_history => Seq_!OnInvoke(seq, t, what) = seq /\ Seq_!OnReturn(seq, t, what) = seq
    /\ seq.is_valid_history /\ t \in DOMAIN seq.in_flight_by_thread =>
          /\ TesterIs(Seq_!OnInvoke(seq, t, what), seq.init_ref_obj, seq.history_by_thread,
                      seq.in_flight_by_thread, FALSE)
          /\ TesterIs(Seq_!OnReturn(seq, t, what), seq.init_ref_obj,
                      [seq.history_by_thread EXCEPT ![t] = Append(seq.history_by_thread[t],
                         [op |-> seq.in_flight_by_thread[t], ret |-> what])],
                      [u \in DOMAIN seq.in_flight_by_thread \ {t} |-> seq.in_flight_by_thread[u]],
                      seq.is_valid_history)
    /\ seq.is_valid_history /\ ~(t \in DOMAIN seq.in_flight_by_thread) =>
          /\ TesterIs(Seq_!OnReturn(seq, t, what), seq.init_ref_obj, seq.history_by_thread,
                      seq.in_flight_by_thread, FALSE)
          /\ TesterIs(Seq_!OnInvoke(seq, t, what), seq.init_ref_obj, seq.history_by_thread,
                      [u \in DOMAIN seq.in_flight_by_thread \cup {t} |->
                         IF u = t THEN what ELSE seq.in_flight_by_thread[u]],
                      seq.is_valid_history)

\* It does so in every state.
LEMMA SeqIsTold ==
    ASSUME IsTester(seq), NEW t, NEW what, seq.is_valid_history \in BOOLEAN
    PROVE  SeqTold(t, what)
<1>. DEFINE more == [u \in DOMAIN seq.in_flight_by_thread \cup {t} |->
                       IF u = t THEN what ELSE seq.in_flight_by_thread[u]]
            less == [u \in DOMAIN seq.in_flight_by_thread \ {t} |-> seq.in_flight_by_thread[u]]
            longer == Append(seq.history_by_thread[t], [op |-> seq.in_flight_by_thread[t], ret |-> what])
<1>1. ASSUME ~seq.is_valid_history
      PROVE  Seq_!OnInvoke(seq, t, what) = seq /\ Seq_!OnReturn(seq, t, what) = seq
  BY <1>1 DEF Seq_!OnInvoke, Seq_!OnReturn
<1>2. ASSUME seq.is_valid_history, t \in DOMAIN seq.in_flight_by_thread
      PROVE  /\ Seq_!OnInvoke(seq, t, what) = [seq EXCEPT !.is_valid_history = FALSE]
             /\ Seq_!OnReturn(seq, t, what) =
                   [seq EXCEPT !.in_flight_by_thread = less, !.history_by_thread[t] = longer]
  <2>1. Seq_!OnInvoke(seq, t, what) = [seq EXCEPT !.is_valid_history = FALSE]
    BY <1>2 DEF Seq_!OnInvoke, Seq_!IsInFlight, Seq_!Invalid
  <2>2. Seq_!OnReturn(seq, t, what) =
           [seq EXCEPT !.in_flight_by_thread = less, !.history_by_thread[t] = longer]
    BY <1>2 DEF Seq_!OnReturn, Seq_!IsInFlight
  <2>. QED  BY <2>1, <2>2
<1>3. ASSUME seq.is_valid_history, ~(t \in DOMAIN seq.in_flight_by_thread)
      PROVE  /\ Seq_!OnReturn(seq, t, what) = [seq EXCEPT !.is_valid_history = FALSE]
             /\ Seq_!OnInvoke(seq, t, what) = [seq EXCEPT !.in_flight_by_thread = more]
  <2>1. Seq_!OnReturn(seq, t, what) = [seq EXCEPT !.is_valid_history = FALSE]
    BY <1>3 DEF Seq_!OnReturn, Seq_!IsInFlight, Seq_!Invalid
  <2>2. Seq_!OnInvoke(seq, t, what) = [seq EXCEPT !.in_flight_by_thread = more]
    BY <1>3 DEF Seq_!OnInvoke, Seq_!IsInFlight
  <2>. QED  BY <2>1, <2>2
<1>. HIDE DEF more, less, longer
<1>4. /\ TesterIs([seq EXCEPT !.is_valid_history = FALSE], seq.init_ref_obj,
                  seq.history_by_thread, seq.in_flight_by_thread, FALSE)
      /\ TesterIs([seq EXCEPT !.in_flight_by_thread = more], seq.init_ref_obj,
                  seq.history_by_thread, more, seq.is_valid_history)
      /\ TesterIs([seq EXCEPT !.in_flight_by_thread = less, !.history_by_thread[t] = longer],
                  seq.init_ref_obj, [seq.history_by_thread EXCEPT ![t] = longer], less, seq.is_valid_history)
  BY TesterUpdates
<1>. QED  BY <1>1, <1>2, <1>3, <1>4 DEF SeqTold, more, less, longer

-----------------------------------------------------------------------------
(* How what is tracked grows                                               *)

IsSeq(a) == \E V : a \in Seq(V)

\* A sequence after one element more.
LEMMA Appended ==
    ASSUME NEW a, IsSeq(a), NEW e
    PROVE  /\ IsSeq(Append(a, e)) /\ Len(a) \in Nat /\ DOMAIN a = 1 .. Len(a)
           /\ Len(Append(a, e)) = Len(a) + 1 /\ DOMAIN Append(a, e) = 1 .. Len(a) + 1
           /\ \A k \in 1 .. Len(a) : Append(a, e)[k] = a[k]
           /\ Append(a, e)[Len(a) + 1] = e
<1>1. PICK V : a \in Seq(V)
  BY DEF IsSeq
<1>. DEFINE W == V \cup {e}
<1>2. a \in Seq(W) /\ e \in W
  BY <1>1
<1>. HIDE DEF W
<1>3. Append(a, e) \in Seq(W)
  BY <1>2
<1>. QED  BY <1>2, <1>3 DEF IsSeq

\* b is a with m after what a has of t.
IsExtended(a, t, m, b) ==
    /\ \A u \in ThreadId : Len(b[u]) = IF u = t THEN Len(a[u]) + 1 ELSE Len(a[u])
    /\ \A u \in ThreadId : \A i \in 1 .. Len(a[u]) : b[u][i] = a[u][i]
    /\ b[t][Len(a[t]) + 1] = m

\* Every sequence can be extended.
LEMMA Extended ==
    ASSUME NEW a \in [ThreadId -> Seq(Nat)], NEW t \in ThreadId, NEW m \in Nat
    PROVE  \E b \in [ThreadId -> Seq(Nat)] : IsExtended(a, t, m, b)
<1>. DEFINE longer == Append(a[t], m)
            b == [a EXCEPT ![t] = longer]
<1>1. a[t] \in Seq(Nat)
  OBVIOUS
<1>2. /\ longer \in Seq(Nat) /\ Len(longer) = Len(a[t]) + 1
      /\ \A i \in 1 .. Len(a[t]) : longer[i] = a[t][i]
      /\ longer[Len(a[t]) + 1] = m
  BY <1>1
<1>. HIDE DEF longer
<1>3. b \in [ThreadId -> Seq(Nat)] /\ \A u \in ThreadId : b[u] = IF u = t THEN longer ELSE a[u]
  BY <1>2
<1>. HIDE DEF b
<1>4. IsExtended(a, t, m, b)
  BY <1>2, <1>3 DEF IsExtended
<1>. QED  BY <1>3, <1>4

\* What is recorded stays, and the call e comes after it.
Records(e) ==
    /\ Len(recorded) \in Nat /\ DOMAIN recorded = 1 .. Len(recorded)
    /\ Len(recorded') = Len(recorded) + 1 /\ DOMAIN recorded' = 1 .. Len(recorded) + 1
    /\ \A k \in 1 .. Len(recorded) : recorded'[k] = recorded[k]
    /\ recorded'[Len(recorded) + 1] = e

\* A call that is appended is recorded.
LEMMA Recording ==
    ASSUME IsSeq(recorded), NEW e, recorded' = Append(recorded, e)
    PROVE  Records(e) /\ IsSeq(recorded)'
BY Appended DEF Records

\* Where the calls of a thread are recorded.
LEMMA TrackedPositions ==
    ASSUME NEW name, NEW back, Tracks(name, back), NEW t \in ThreadId
    PROVE  /\ \A i \in 1 .. Len(name[t]) : name[t][i] \in 1 .. Len(recorded)
           /\ \A i \in 1 .. Len(back[t]) : back[t][i] \in 1 .. Len(recorded)
           /\ \A i \in 1 .. Len(back[t]) : i \in 1 .. Len(name[t])
<1>1. DOMAIN recorded = 1 .. Len(recorded)
  BY DEF Tracks
<1>2. /\ \A i \in 1 .. Len(name[t]) : name[t][i] \in DOMAIN recorded
      /\ \A i \in 1 .. Len(back[t]) : back[t][i] \in DOMAIN recorded
  BY DEF Tracks, IsCallOf
<1>3. \A i \in 1 .. Len(back[t]) : i \in 1 .. Len(name[t])
  BY TrackedInOrder
<1>. QED  BY <1>1, <1>2, <1>3

\* A thread that waits for nothing invokes.
LEMMA InvokeIsTracked ==
    ASSUME NEW name, NEW back, Tracks(name, back), NEW t \in ThreadId, Len(name[t]) = Len(back[t]),
           NEW e, Records(e), e.call = "on_invoke", e.thread = t,
           NEW name2 \in [ThreadId -> Seq(Nat)], IsExtended(name, t, Len(recorded) + 1, name2)
    PROVE  Tracks(name2, back)'
<1>. DEFINE n == Len(recorded)
<1>1. /\ n \in Nat /\ DOMAIN recorded = 1 .. n /\ Len(recorded') = n + 1 /\ DOMAIN recorded' = 1 .. n + 1
      /\ \A k \in 1 .. n : recorded'[k] = recorded[k]
      /\ recorded'[n + 1] = e
  BY DEF Records
<1>. HIDE DEF n
<1>2. /\ \A u \in ThreadId : Len(name2[u]) = IF u = t THEN Len(name[u]) + 1 ELSE Len(name[u])
      /\ \A u \in ThreadId : \A i \in 1 .. Len(name[u]) : name2[u][i] = name[u][i]
      /\ name2[t][Len(name[t]) + 1] = n + 1
  BY DEF IsExtended, n
<1>3. back \in [ThreadId -> Seq(Nat)]
  BY DEF Tracks
<1>4. ASSUME NEW u \in ThreadId
      PROVE  /\ Len(back[u]) <= Len(name2[u]) /\ Len(name2[u]) <= Len(back[u]) + 1
             /\ \A i \in 1 .. Len(name2[u]) : IsCallOf("on_invoke", u, name2[u][i])'
             /\ \A i \in 1 .. Len(back[u]) : IsCallOf("on_return", u, back[u][i])' /\ name2[u][i] < back[u][i]
             /\ \A i \in 1 .. Len(back[u]), j \in 1 .. Len(name2[u]) : i < j => back[u][i] < name2[u][j]
  <2>. DEFINE a == name[u]
              b == back[u]
              a2 == name2[u]
  <2>1. /\ Len(a) \in Nat /\ Len(b) \in Nat /\ Len(b) <= Len(a) /\ Len(a) <= Len(b) + 1
        /\ \A i \in 1 .. Len(b) : a[i] < b[i]
        /\ \A i \in 1 .. Len(b), j \in 1 .. Len(a) : i < j => b[i] < a[j]
    BY TrackedInOrder
  <2>2. /\ \A i \in 1 .. Len(a) : a[i] \in 1 .. n
        /\ \A i \in 1 .. Len(b) : b[i] \in 1 .. n
        /\ \A i \in 1 .. Len(b) : i \in 1 .. Len(a)
    BY TrackedPositions DEF n
  <2>3. /\ \A i \in 1 .. Len(a) : IsCallOf("on_invoke", u, a[i])
        /\ \A i \in 1 .. Len(b) : IsCallOf("on_return", u, b[i])
    BY DEF Tracks
  <2>4. u = t => Len(a) = Len(b)
    OBVIOUS
  <2>5. /\ Len(a2) = IF u = t THEN Len(a) + 1 ELSE Len(a)
        /\ \A i \in 1 .. Len(a) : a2[i] = a[i]
        /\ u = t => a2[Len(a) + 1] = n + 1
    BY <1>2
  <2>. HIDE DEF a, b, a2
  <2>6. ASSUME NEW i \in 1 .. Len(a2), ~(i \in 1 .. Len(a))
        PROVE  u = t /\ i = Len(a) + 1 /\ a2[i] = n + 1
    BY <2>1, <2>5, <2>6
  <2>7. Len(b) <= Len(a2) /\ Len(a2) <= Len(b) + 1
    BY <2>1, <2>4, <2>5
  <2>8. ASSUME NEW i \in 1 .. Len(a2)
        PROVE  IsCallOf("on_invoke", u, a2[i])'
    <3>1. CASE i \in 1 .. Len(a)
      <4>1. a2[i] = a[i] /\ a[i] \in 1 .. n /\ IsCallOf("on_invoke", u, a[i])
        BY <2>2, <2>3, <2>5, <3>1
      <4>2. a2[i] \in 1 .. n + 1 /\ recorded'[a2[i]] = recorded[a[i]]
        BY <1>1, <4>1
      <4>. QED  BY <1>1, <4>1, <4>2 DEF IsCallOf
    <3>2. CASE ~(i \in 1 .. Len(a))
      BY <1>1, <2>6, <3>2 DEF IsCallOf
    <3>. QED  BY <3>1, <3>2
  <2>9. ASSUME NEW i \in 1 .. Len(b)
        PROVE  IsCallOf("on_return", u, b[i])' /\ a2[i] < b[i]
    <3>1. IsCallOf("on_return", u, b[i])'
      BY <1>1, <2>2, <2>3 DEF IsCallOf
    <3>. QED  BY <2>1, <2>2, <2>5, <3>1
  <2>10. ASSUME NEW i \in 1 .. Len(b), NEW j \in 1 .. Len(a2), i < j
         PROVE  b[i] < a2[j]
    <3>1. CASE j \in 1 .. Len(a)
      BY <2>1, <2>5, <2>10, <3>1
    <3>2. CASE ~(j \in 1 .. Len(a))
      BY <1>1, <2>2, <2>6, <3>2
    <3>. QED  BY <3>1, <3>2
  <2>. QED  BY <2>7, <2>8, <2>9, <2>10 DEF a, b, a2
<1>5. ASSUME NEW k \in 1 .. n + 1
      PROVE  \E u \in ThreadId : \/ \E i \in 1 .. Len(name2[u]) : k = name2[u][i]
                                 \/ \E i \in 1 .. Len(back[u]) : k = back[u][i]
  <2>1. CASE k \in 1 .. n
    <3>1. PICK u \in ThreadId : \/ \E i \in 1 .. Len(name[u]) : k = name[u][i]
                                \/ \E i \in 1 .. Len(back[u]) : k = back[u][i]
      <4>1. k \in DOMAIN recorded
        BY <1>1, <2>1
      <4>. QED  BY <4>1 DEF Tracks
    <3>2. \A i \in 1 .. Len(name[u]) : i \in 1 .. Len(name2[u]) /\ name2[u][i] = name[u][i]
      <4>1. Len(name[u]) \in Nat /\ Len(name2[u]) = IF u = t THEN Len(name[u]) + 1 ELSE Len(name[u])
        BY <1>2, TrackedInOrder
      <4>2. \A i \in 1 .. Len(name[u]) : name2[u][i] = name[u][i]
        BY <1>2
      <4>. QED  BY <4>1, <4>2
    <3>. QED  BY <3>1, <3>2
  <2>2. CASE k = n + 1
    <3>1. Len(name[t]) + 1 \in 1 .. Len(name2[t])
      BY <1>2, TrackedInOrder
    <3>. QED  BY <1>2, <2>2, <3>1
  <2>. QED  BY <1>1, <2>1, <2>2
<1>6. /\ Len(recorded') \in Nat /\ DOMAIN recorded' = 1 .. Len(recorded')
      /\ name2 \in [ThreadId -> Seq(Nat)] /\ back \in [ThreadId -> Seq(Nat)]
  BY <1>1, <1>3
<1>7. \A k \in DOMAIN recorded' : \E u \in ThreadId :
         \/ \E i \in 1 .. Len(name2[u]) : k = name2[u][i]
         \/ \E i \in 1 .. Len(back[u]) : k = back[u][i]
  <2>1. DOMAIN recorded' = 1 .. n + 1
    BY <1>1
  <2>. QED  BY <1>5, <2>1
<1>8. \A u \in ThreadId :
         /\ Len(back[u]) <= Len(name2[u]) /\ Len(name2[u]) <= Len(back[u]) + 1
         /\ \A i \in 1 .. Len(name2[u]) : IsCallOf("on_invoke", u, name2[u][i])'
         /\ \A i \in 1 .. Len(back[u]) : IsCallOf("on_return", u, back[u][i])' /\ name2[u][i] < back[u][i]
         /\ \A i \in 1 .. Len(back[u]), j \in 1 .. Len(name2[u]) : i < j => back[u][i] < name2[u][j]
  BY <1>4
<1>. QED  BY <1>6, <1>7, <1>8 DEF Tracks

\* A thread that waits for an operation returns from it.
LEMMA ReturnIsTracked ==
    ASSUME NEW name, NEW back, Tracks(name, back), NEW t \in ThreadId, Len(name[t]) = Len(back[t]) + 1,
           NEW e, Records(e), e.call = "on_return", e.thread = t,
           NEW back2 \in [ThreadId -> Seq(Nat)], IsExtended(back, t, Len(recorded) + 1, back2)
    PROVE  Tracks(name, back2)'
<1>. DEFINE n == Len(recorded)
<1>1. /\ n \in Nat /\ DOMAIN recorded = 1 .. n /\ Len(recorded') = n + 1 /\ DOMAIN recorded' = 1 .. n + 1
      /\ \A k \in 1 .. n : recorded'[k] = recorded[k]
      /\ recorded'[n + 1] = e
  BY DEF Records
<1>. HIDE DEF n
<1>2. /\ \A u \in ThreadId : Len(back2[u]) = IF u = t THEN Len(back[u]) + 1 ELSE Len(back[u])
      /\ \A u \in ThreadId : \A i \in 1 .. Len(back[u]) : back2[u][i] = back[u][i]
      /\ back2[t][Len(back[t]) + 1] = n + 1
  BY DEF IsExtended, n
<1>3. name \in [ThreadId -> Seq(Nat)]
  BY DEF Tracks
<1>4. ASSUME NEW u \in ThreadId
      PROVE  /\ Len(back2[u]) <= Len(name[u]) /\ Len(name[u]) <= Len(back2[u]) + 1
             /\ \A i \in 1 .. Len(name[u]) : IsCallOf("on_invoke", u, name[u][i])'
             /\ \A i \in 1 .. Len(back2[u]) : IsCallOf("on_return", u, back2[u][i])' /\ name[u][i] < back2[u][i]
             /\ \A i \in 1 .. Len(back2[u]), j \in 1 .. Len(name[u]) : i < j => back2[u][i] < name[u][j]
  <2>. DEFINE a == name[u]
              b == back[u]
              b2 == back2[u]
  <2>1. /\ Len(a) \in Nat /\ Len(b) \in Nat /\ Len(b) <= Len(a) /\ Len(a) <= Len(b) + 1
        /\ \A i \in 1 .. Len(b) : a[i] < b[i]
        /\ \A i \in 1 .. Len(b), j \in 1 .. Len(a) : i < j => b[i] < a[j]
    BY TrackedInOrder
  <2>2. /\ \A i \in 1 .. Len(a) : a[i] \in 1 .. n
        /\ \A i \in 1 .. Len(b) : b[i] \in 1 .. n
    BY TrackedPositions DEF n
  <2>3. /\ \A i \in 1 .. Len(a) : IsCallOf("on_invoke", u, a[i])
        /\ \A i \in 1 .. Len(b) : IsCallOf("on_return", u, b[i])
    BY DEF Tracks
  <2>4. u = t => Len(a) = Len(b) + 1
    OBVIOUS
  <2>5. /\ Len(b2) = IF u = t THEN Len(b) + 1 ELSE Len(b)
        /\ \A i \in 1 .. Len(b) : b2[i] = b[i]
        /\ u = t => b2[Len(b) + 1] = n + 1
    BY <1>2
  <2>. HIDE DEF a, b, b2
  <2>6. ASSUME NEW i \in 1 .. Len(b2), ~(i \in 1 .. Len(b))
        PROVE  u = t /\ i = Len(b) + 1 /\ i = Len(a) /\ b2[i] = n + 1
    BY <2>1, <2>4, <2>5, <2>6
  <2>7. Len(b2) <= Len(a) /\ Len(a) <= Len(b2) + 1
    BY <2>1, <2>4, <2>5
  <2>8. ASSUME NEW i \in 1 .. Len(a)
        PROVE  IsCallOf("on_invoke", u, a[i])'
    BY <1>1, <2>2, <2>3 DEF IsCallOf
  <2>9. ASSUME NEW i \in 1 .. Len(b2)
        PROVE  IsCallOf("on_return", u, b2[i])' /\ a[i] < b2[i]
    <3>1. CASE i \in 1 .. Len(b)
      <4>1. b2[i] = b[i] /\ b[i] \in 1 .. n /\ IsCallOf("on_return", u, b[i]) /\ a[i] < b[i]
        BY <2>1, <2>2, <2>3, <2>5, <3>1
      <4>2. b2[i] \in 1 .. n + 1 /\ recorded'[b2[i]] = recorded[b[i]]
        BY <1>1, <4>1
      <4>. QED  BY <1>1, <4>1, <4>2 DEF IsCallOf
    <3>2. CASE ~(i \in 1 .. Len(b))
      <4>1. IsCallOf("on_return", u, b2[i])'
        BY <1>1, <2>6, <3>2 DEF IsCallOf
      <4>2. i \in 1 .. Len(a)
        BY <2>1, <2>7, <3>2, <2>6
      <4>3. a[i] \in 1 .. n
        BY <2>2, <4>2
      <4>. QED  BY <1>1, <2>6, <3>2, <4>1, <4>3
    <3>. QED  BY <3>1, <3>2
  <2>10. ASSUME NEW i \in 1 .. Len(b2), NEW j \in 1 .. Len(a), i < j
         PROVE  b2[i] < a[j]
    <3>1. i \in 1 .. Len(b)
      <4>1. SUFFICES ASSUME ~(i \in 1 .. Len(b)) PROVE FALSE
        OBVIOUS
      <4>2. i = Len(a)
        BY <2>6, <4>1
      <4>. QED  BY <2>1, <2>10, <4>2
    <3>. QED  BY <2>1, <2>5, <2>10, <3>1
  <2>. QED  BY <2>7, <2>8, <2>9, <2>10 DEF a, b, b2
<1>5. ASSUME NEW k \in 1 .. n + 1
      PROVE  \E u \in ThreadId : \/ \E i \in 1 .. Len(name[u]) : k = name[u][i]
                                 \/ \E i \in 1 .. Len(back2[u]) : k = back2[u][i]
  <2>1. CASE k \in 1 .. n
    <3>1. PICK u \in ThreadId : \/ \E i \in 1 .. Len(name[u]) : k = name[u][i]
                                \/ \E i \in 1 .. Len(back[u]) : k = back[u][i]
      <4>1. k \in DOMAIN recorded
        BY <1>1, <2>1
      <4>. QED  BY <4>1 DEF Tracks
    <3>2. \A i \in 1 .. Len(back[u]) : i \in 1 .. Len(back2[u]) /\ back2[u][i] = back[u][i]
      <4>1. Len(back[u]) \in Nat /\ Len(back2[u]) = IF u = t THEN Len(back[u]) + 1 ELSE Len(back[u])
        BY <1>2, TrackedInOrder
      <4>2. \A i \in 1 .. Len(back[u]) : back2[u][i] = back[u][i]
        BY <1>2
      <4>. QED  BY <4>1, <4>2
    <3>. QED  BY <3>1, <3>2
  <2>2. CASE k = n + 1
    <3>1. Len(back[t]) + 1 \in 1 .. Len(back2[t])
      BY <1>2, TrackedInOrder
    <3>. QED  BY <1>2, <2>2, <3>1
  <2>. QED  BY <1>1, <2>1, <2>2
<1>6. /\ Len(recorded') \in Nat /\ DOMAIN recorded' = 1 .. Len(recorded')
      /\ name \in [ThreadId -> Seq(Nat)] /\ back2 \in [ThreadId -> Seq(Nat)]
  BY <1>1, <1>3
<1>7. \A k \in DOMAIN recorded' : \E u \in ThreadId :
         \/ \E i \in 1 .. Len(name[u]) : k = name[u][i]
         \/ \E i \in 1 .. Len(back2[u]) : k = back2[u][i]
  <2>1. DOMAIN recorded' = 1 .. n + 1
    BY <1>1
  <2>. QED  BY <1>5, <2>1
<1>8. \A u \in ThreadId :
         /\ Len(back2[u]) <= Len(name[u]) /\ Len(name[u]) <= Len(back2[u]) + 1
         /\ \A i \in 1 .. Len(name[u]) : IsCallOf("on_invoke", u, name[u][i])'
         /\ \A i \in 1 .. Len(back2[u]) : IsCallOf("on_return", u, back2[u][i])' /\ name[u][i] < back2[u][i]
         /\ \A i \in 1 .. Len(back2[u]), j \in 1 .. Len(name[u]) : i < j => back2[u][i] < name[u][j]
  BY <1>4
<1>. QED  BY <1>6, <1>7, <1>8 DEF Tracks

-----------------------------------------------------------------------------
(* Well-formed histories                                                   *)

CallsBy(t) == {l \in DOMAIN recorded : recorded[l].thread = t}

\* The thread of the k-th call was waiting, if it returned, and was not, if it invoked.
InTurn(k) ==
    recorded[k].call = "on_return"
       <=> Cardinality({l \in 1 .. k - 1 : recorded[l].thread = recorded[k].thread}) % 2 = 1

Waits(t) == Cardinality(CallsBy(t)) % 2 = 1

\* How many calls of a thread are recorded after one more, ...
LEMMA CallsAreCounted ==
    ASSUME NEW e, Records(e), NEW t
    PROVE  Cardinality(CallsBy(t))' = IF e.thread = t THEN Cardinality(CallsBy(t)) + 1
                                      ELSE Cardinality(CallsBy(t))
<1>. DEFINE n == Len(recorded)
<1>1. /\ n \in Nat /\ DOMAIN recorded = 1 .. n /\ DOMAIN recorded' = 1 .. n + 1
      /\ \A k \in 1 .. n : recorded'[k] = recorded[k]
      /\ recorded'[n + 1] = e
  BY DEF Records
<1>. HIDE DEF n
<1>2. CallsBy(t)' = IF e.thread = t THEN CallsBy(t) \cup {n + 1} ELSE CallsBy(t)
  <2>1. \A k \in 1 .. n + 1 : k \in 1 .. n \/ k = n + 1
    BY <1>1
  <2>2. \A k \in 1 .. n : k \in 1 .. n + 1
    BY <1>1
  <2>3. n + 1 \in 1 .. n + 1
    BY <1>1
  <2>. QED  BY <1>1, <2>1, <2>2, <2>3 DEF CallsBy
<1>3. ~(n + 1 \in CallsBy(t))
  BY <1>1 DEF CallsBy
<1>4. IsFiniteSet(CallsBy(t))
  <2>1. IsFiniteSet(1 .. n)
    BY <1>1, FS_Interval
  <2>2. CallsBy(t) \subseteq 1 .. n
    BY <1>1 DEF CallsBy
  <2>. QED  BY <2>1, <2>2, FS_Subset
<1>5. Cardinality(CallsBy(t) \cup {n + 1}) = Cardinality(CallsBy(t)) + 1
  BY <1>3, <1>4, FS_AddElement
<1>. QED  BY <1>2, <1>5

\* ... and whether the history is still well-formed.
LEMMA StaysWellFormed ==
    ASSUME NEW e, Records(e)
    PROVE  WellFormed' <=> WellFormed /\ (e.call = "on_return" <=> Waits(e.thread))
<1>0. PICK n \in Nat : n = Len(recorded)
  BY DEF Records
<1>1. /\ n \in Nat /\ DOMAIN recorded = 1 .. n /\ DOMAIN recorded' = 1 .. n + 1
      /\ \A k \in 1 .. n : recorded'[k] = recorded[k]
      /\ recorded'[n + 1] = e
  BY <1>0 DEF Records
<1>2. WellFormed <=> \A k \in 1 .. n : InTurn(k)
  BY <1>1, Zenon DEF WellFormed, InTurn
<1>3. WellFormed' <=> \A k \in 1 .. n + 1 : InTurn(k)'
  BY <1>1, Zenon DEF WellFormed, InTurn
<1>4. ASSUME NEW k \in 1 .. n
      PROVE  InTurn(k)' <=> InTurn(k)
  <2>1. recorded'[k] = recorded[k]
    BY <1>1
  <2>2. \A l \in 1 .. k - 1 : recorded'[l] = recorded[l]
    BY <1>1
  <2>3. {l \in 1 .. k - 1 : recorded'[l].thread = recorded'[k].thread}
           = {l \in 1 .. k - 1 : recorded[l].thread = recorded[k].thread}
    BY <2>1, <2>2
  <2>. QED  BY <2>1, <2>3, Zenon DEF InTurn
<1>5. InTurn(n + 1)' <=> (e.call = "on_return" <=> Waits(e.thread))
  <2>1. {l \in 1 .. (n + 1) - 1 : recorded'[l].thread = recorded'[n + 1].thread} = CallsBy(e.thread)
    <3>1. (n + 1) - 1 = n
      BY <1>1
    <3>. QED  BY <1>1, <3>1 DEF CallsBy
  <2>2. recorded'[n + 1] = e
    BY <1>1
  <2>3. InTurn(n + 1)' <=> (recorded'[n + 1].call = "on_return"
           <=> Cardinality({l \in 1 .. (n + 1) - 1 : recorded'[l].thread = recorded'[n + 1].thread}) % 2 = 1)
    BY Zenon DEF InTurn
  <2>4. InTurn(n + 1)' <=> (e.call = "on_return" <=> Cardinality(CallsBy(e.thread)) % 2 = 1)
    BY <2>1, <2>2, <2>3, Zenon
  <2>. QED  BY <2>4, Zenon DEF Waits
<1>6. \A k \in 1 .. n + 1 : k \in 1 .. n \/ k = n + 1
  BY <1>1
<1>7. n + 1 \in 1 .. n + 1 /\ \A k \in 1 .. n : k \in 1 .. n + 1
  BY <1>1
<1>8. (\A k \in 1 .. n + 1 : InTurn(k)') <=> (\A k \in 1 .. n : InTurn(k)') /\ InTurn(n + 1)'
  BY <1>6, <1>7, Zenon
<1>9. (\A k \in 1 .. n : InTurn(k)') <=> \A k \in 1 .. n : InTurn(k)
  BY <1>4, Zenon
<1>. QED  BY <1>2, <1>3, <1>5, <1>8, <1>9, Zenon

\* All calls of a thread are invocations and returns of its operations.
Counted(name, back) ==
    \A t \in ThreadId : Cardinality(CallsBy(t)) = Len(name[t]) + Len(back[t])

\* An odd number has the remainder one.
LEMMA OddNumbers ==
    ASSUME NEW b \in Nat, NEW c \in Nat, c = 2 * b + 1
    PROVE  c % 2 = 1
OBVIOUS

\* A thread waits if one operation more was invoked than has returned.
LEMMA WaitsMeansInFlight ==
    ASSUME NEW name, NEW back, Tracks(name, back), Counted(name, back), NEW t \in ThreadId
    PROVE  Waits(t) <=> Len(name[t]) = Len(back[t]) + 1
<1>. DEFINE a == Len(name[t])
            b == Len(back[t])
            c == Cardinality(CallsBy(t))
<1>1. a \in Nat /\ b \in Nat /\ b <= a /\ a <= b + 1
  BY TrackedInOrder
<1>2. c = a + b
  BY DEF Counted
<1>3. Waits(t) <=> c % 2 = 1
  BY DEF Waits
<1>. HIDE DEF a, b, c
<1>4. a = b \/ a = b + 1
  BY <1>1
<1>5. ASSUME a = b
      PROVE  ~(c % 2 = 1)
  <2>1. c = 2 * b
    BY <1>1, <1>2, <1>5
  <2>. QED  BY <1>1, <2>1
<1>6. ASSUME a = b + 1
      PROVE  c % 2 = 1
  <2>1. c = 2 * b + 1 /\ c \in Nat
    BY <1>1, <1>2, <1>6
  <2>. QED  BY <1>1, <2>1, OddNumbers
<1>. QED  BY <1>1, <1>3, <1>4, <1>5, <1>6 DEF a, b

-----------------------------------------------------------------------------
(* What the testers keep of a history                                      *)

\* completed has the index of the last operation of every other thread that returned before k.
Remembered(back, completed, t, k) ==
    /\ DOMAIN completed \subseteq ThreadId \ {t}
    /\ \A u \in DOMAIN completed : completed[u] \in Nat /\ completed[u] + 1 <= Len(back[u])
    /\ \A u \in ThreadId \ {t} : \A j \in 1 .. Len(back[u]) :
          back[u][j] < k <=> u \in DOMAIN completed /\ j <= completed[u] + 1

LinFlies(name, back) ==
    /\ DOMAIN lin.in_flight_by_thread = {t \in ThreadId : Len(name[t]) = Len(back[t]) + 1}
    /\ lin.in_flight_by_thread =
          [t \in DOMAIN lin.in_flight_by_thread |-> lin.in_flight_by_thread[t]]
    /\ \A t \in DOMAIN lin.in_flight_by_thread :
          /\ lin.in_flight_by_thread[t].op = recorded[name[t][Len(back[t]) + 1]].op
          /\ Remembered(back, lin.in_flight_by_thread[t].completed, t, name[t][Len(back[t]) + 1])

LinKeeps(name, back) ==
    /\ DOMAIN lin.history_by_thread = ThreadId
    /\ \A t \in ThreadId :
          /\ IsSeq(lin.history_by_thread[t]) /\ Len(lin.history_by_thread[t]) = Len(back[t])
          /\ \A i \in 1 .. Len(back[t]) :
                /\ lin.history_by_thread[t][i].op = recorded[name[t][i]].op
                /\ lin.history_by_thread[t][i].ret = recorded[back[t][i]].ret
                /\ Remembered(back, lin.history_by_thread[t][i].completed, t, name[t][i])

LinHolds(name, back) == LinFlies(name, back) /\ LinKeeps(name, back)

SeqFlies(name, back) ==
    /\ DOMAIN seq.in_flight_by_thread = {t \in ThreadId : Len(name[t]) = Len(back[t]) + 1}
    /\ seq.in_flight_by_thread =
          [t \in DOMAIN seq.in_flight_by_thread |-> seq.in_flight_by_thread[t]]
    /\ \A t \in DOMAIN seq.in_flight_by_thread :
          seq.in_flight_by_thread[t] = recorded[name[t][Len(back[t]) + 1]].op

SeqKeeps(name, back) ==
    /\ DOMAIN seq.history_by_thread = ThreadId
    /\ \A t \in ThreadId :
          /\ IsSeq(seq.history_by_thread[t]) /\ Len(seq.history_by_thread[t]) = Len(back[t])
          /\ \A i \in 1 .. Len(back[t]) :
                /\ seq.history_by_thread[t][i].op = recorded[name[t][i]].op
                /\ seq.history_by_thread[t][i].ret = recorded[back[t][i]].ret

SeqHolds(name, back) == SeqFlies(name, back) /\ SeqKeeps(name, back)

\* An operation that returns later was not completed before.
LEMMA RememberedStays ==
    ASSUME NEW back \in [ThreadId -> Seq(Nat)], NEW completed, NEW t \in ThreadId, NEW k \in Nat,
           Remembered(back, completed, t, k), NEW v \in ThreadId, NEW m \in Nat, k <= m,
           NEW back2, IsExtended(back, v, m, back2)
    PROVE  Remembered(back2, completed, t, k)
<1>1. /\ DOMAIN completed \subseteq ThreadId \ {t}
      /\ \A u \in DOMAIN completed : completed[u] \in Nat /\ completed[u] + 1 <= Len(back[u])
      /\ \A u \in ThreadId \ {t} : \A j \in 1 .. Len(back[u]) :
            back[u][j] < k <=> u \in DOMAIN completed /\ j <= completed[u] + 1
  BY DEF Remembered
<1>2. /\ \A u \in ThreadId : Len(back2[u]) = IF u = v THEN Len(back[u]) + 1 ELSE Len(back[u])
      /\ \A u \in ThreadId : \A i \in 1 .. Len(back[u]) : back2[u][i] = back[u][i]
      /\ back2[v][Len(back[v]) + 1] = m
  BY DEF IsExtended
<1>3. \A u \in ThreadId : Len(back[u]) \in Nat /\ Len(back[u]) <= Len(back2[u])
  <2>1. SUFFICES ASSUME NEW u \in ThreadId
                 PROVE  Len(back[u]) \in Nat /\ Len(back[u]) <= Len(back2[u])
    OBVIOUS
  <2>2. Len(back[u]) \in Nat
    OBVIOUS
  <2>3. Len(back2[u]) = IF u = v THEN Len(back[u]) + 1 ELSE Len(back[u])
    BY <1>2
  <2>. QED  BY <2>2, <2>3
<1>4. \A u \in DOMAIN completed : completed[u] \in Nat /\ completed[u] + 1 <= Len(back2[u])
  <2>1. SUFFICES ASSUME NEW u \in DOMAIN completed
                 PROVE  completed[u] \in Nat /\ completed[u] + 1 <= Len(back2[u])
    OBVIOUS
  <2>2. u \in ThreadId /\ completed[u] \in Nat /\ completed[u] + 1 <= Len(back[u])
    BY <1>1
  <2>3. Len(back2[u]) \in Nat
    BY <1>2, <1>3, <2>2
  <2>. QED  BY <1>3, <2>2, <2>3
<1>5. ASSUME NEW u \in ThreadId \ {t}, NEW j \in 1 .. Len(back2[u])
      PROVE  back2[u][j] < k <=> u \in DOMAIN completed /\ j <= completed[u] + 1
  <2>1. Len(back[u]) \in Nat /\ Len(back2[u]) = IF u = v THEN Len(back[u]) + 1 ELSE Len(back[u])
    BY <1>2, <1>3
  <2>2. CASE j \in 1 .. Len(back[u])
    BY <1>1, <1>2, <2>2
  <2>3. CASE ~(j \in 1 .. Len(back[u]))
    <3>1. u = v /\ j = Len(back[u]) + 1
      BY <2>1, <2>3
    <3>2. ~(back2[u][j] < k)
      BY <1>2, <3>1
    <3>3. u \in DOMAIN completed => ~(j <= completed[u] + 1)
      BY <1>1, <2>1, <3>1
    <3>. QED  BY <3>2, <3>3
  <2>. QED  BY <2>2, <2>3
<1>. QED  BY <1>1, <1>4, <1>5 DEF Remembered

\* What is remembered at an invocation is what returned before.
LEMMA LastCompletedIsRemembered ==
    ASSUME NEW name, NEW back, Tracks(name, back), NEW t \in ThreadId,
           \A u \in ThreadId : IsSeq(lin.history_by_thread[u]) /\ Len(lin.history_by_thread[u]) = Len(back[u])
    PROVE  Remembered(back, Lin!LastCompleted(lin, t), t, Len(recorded) + 1)
<1>. DEFINE completed == Lin!LastCompleted(lin, t)
            others == {u \in ThreadId \ {t} : Len(back[u]) > 0}
<1>1. ASSUME NEW u \in ThreadId
      PROVE  /\ lin.history_by_thread[u] # << >> <=> Len(back[u]) > 0
             /\ Len(back[u]) \in Nat
             /\ \A j \in 1 .. Len(back[u]) : back[u][j] < Len(recorded) + 1
  <2>1. PICK V : lin.history_by_thread[u] \in Seq(V)
    BY DEF IsSeq
  <2>2. lin.history_by_thread[u] # << >> <=> Len(lin.history_by_thread[u]) > 0
    BY <2>1
  <2>3. Len(recorded) \in Nat
    BY DEF Tracks
  <2>. QED  BY <2>2, <2>3, TrackedInOrder, TrackedPositions
<1>2. completed = [u \in others |-> Len(back[u]) - 1]
  <2>1. completed = [u \in {v \in ThreadId \ {t} : lin.history_by_thread[v] # << >>} |->
                       Len(lin.history_by_thread[u]) - 1]
    BY DEF Lin!LastCompleted
  <2>2. {v \in ThreadId \ {t} : lin.history_by_thread[v] # << >>} = others
    BY <1>1
  <2>. HIDE DEF completed, others
  <2>3. \A u \in others : Len(lin.history_by_thread[u]) - 1 = Len(back[u]) - 1
    BY DEF others
  <2>. QED  BY <2>1, <2>2, <2>3
<1>3. DOMAIN completed = others /\ \A u \in others : completed[u] = Len(back[u]) - 1
  BY <1>2
<1>. HIDE DEF completed
<1>4. \A u \in DOMAIN completed : completed[u] \in Nat /\ completed[u] + 1 <= Len(back[u])
  BY <1>1, <1>3
<1>5. ASSUME NEW u \in ThreadId \ {t}, NEW j \in 1 .. Len(back[u])
      PROVE  back[u][j] < Len(recorded) + 1 <=> u \in DOMAIN completed /\ j <= completed[u] + 1
  BY <1>1, <1>3
<1>6. DOMAIN completed \subseteq ThreadId \ {t}
  BY <1>3
<1>. QED  BY <1>4, <1>5, <1>6 DEF Remembered, completed

\* An invocation is kept, with what it has to follow.
LEMMA LinHoldsInvocation ==
    ASSUME NEW name, NEW back, Tracks(name, back), LinHolds(name, back),
           NEW t \in ThreadId, Len(name[t]) = Len(back[t]), NEW e, Records(e),
           NEW name2 \in [ThreadId -> Seq(Nat)], IsExtended(name, t, Len(recorded) + 1, name2),
           lin'.history_by_thread = lin.history_by_thread,
           lin'.in_flight_by_thread = [u \in DOMAIN lin.in_flight_by_thread \cup {t} |->
              IF u = t THEN LinFlying(t, e.op) ELSE lin.in_flight_by_thread[u]]
    PROVE  LinHolds(name2, back)'
<1>. DEFINE n == Len(recorded)
            flying == lin.in_flight_by_thread
            flying2 == lin'.in_flight_by_thread
            history == lin.history_by_thread
<1>1. /\ n \in Nat /\ \A k \in 1 .. n : recorded'[k] = recorded[k]
      /\ recorded'[n + 1] = e
  BY DEF Records
<1>2. /\ \A u \in ThreadId : Len(name2[u]) = IF u = t THEN Len(name[u]) + 1 ELSE Len(name[u])
      /\ \A u \in ThreadId : \A i \in 1 .. Len(name[u]) : name2[u][i] = name[u][i]
      /\ name2[t][Len(name[t]) + 1] = n + 1
  BY DEF IsExtended
<1>3. /\ DOMAIN flying = {u \in ThreadId : Len(name[u]) = Len(back[u]) + 1}
      /\ \A u \in DOMAIN flying :
            /\ flying[u].op = recorded[name[u][Len(back[u]) + 1]].op
            /\ Remembered(back, flying[u].completed, u, name[u][Len(back[u]) + 1])
      /\ DOMAIN history = ThreadId
      /\ \A u \in ThreadId : IsSeq(history[u]) /\ Len(history[u]) = Len(back[u])
      /\ \A u \in ThreadId : \A i \in 1 .. Len(back[u]) :
            /\ history[u][i].op = recorded[name[u][i]].op
            /\ history[u][i].ret = recorded[back[u][i]].ret
            /\ Remembered(back, history[u][i].completed, u, name[u][i])
  BY DEF LinHolds, LinFlies, LinKeeps
<1>4. Remembered(back, Lin!LastCompleted(lin, t), t, n + 1)
  BY <1>3, LastCompletedIsRemembered
<1>. HIDE DEF n
<1>5. \A u \in ThreadId : Len(name[u]) \in Nat /\ Len(back[u]) \in Nat
  BY TrackedInOrder
<1>6. /\ flying2 = [u \in DOMAIN flying \cup {t} |-> IF u = t THEN LinFlying(t, e.op) ELSE flying[u]]
      /\ lin'.history_by_thread = history
  OBVIOUS
<1>. HIDE DEF flying, flying2, history
<1>7. DOMAIN flying2 = {u \in ThreadId : Len(name2[u]) = Len(back[u]) + 1}
  <2>1. ASSUME NEW u \in ThreadId
        PROVE  Len(name2[u]) = Len(back[u]) + 1 <=> u = t \/ Len(name[u]) = Len(back[u]) + 1
    <3>1. /\ Len(name2[u]) = IF u = t THEN Len(name[u]) + 1 ELSE Len(name[u])
          /\ Len(back[u]) \in Nat
          /\ u = t => Len(name[u]) = Len(back[u])
      BY <1>2, <1>5
    <3>. QED  BY <3>1
  <2>2. DOMAIN flying2 = DOMAIN flying \cup {t}
    BY <1>6
  <2>. QED  BY <1>3, <2>1, <2>2
<1>8. flying2 = [u \in DOMAIN flying2 |-> flying2[u]]
  BY <1>6
<1>9. ASSUME NEW u \in DOMAIN flying2
      PROVE  /\ flying2[u].op = recorded'[name2[u][Len(back[u]) + 1]].op
             /\ Remembered(back, flying2[u].completed, u, name2[u][Len(back[u]) + 1])
  <2>1. CASE u = t
    <3>1. flying2[u] = LinFlying(t, e.op) /\ name2[u][Len(back[u]) + 1] = n + 1
      BY <1>2, <1>6, <2>1
    <3>. QED  BY <1>1, <1>4, <2>1, <3>1 DEF LinFlying
  <2>2. CASE u # t
    <3>1. u \in DOMAIN flying /\ flying2[u] = flying[u] /\ u \in ThreadId
      BY <1>3, <1>6, <2>2
    <3>2. Len(back[u]) + 1 \in 1 .. Len(name[u])
      BY <1>3, <1>5, <3>1
    <3>3. name2[u][Len(back[u]) + 1] = name[u][Len(back[u]) + 1]
      BY <1>2, <3>1, <3>2
    <3>4. name[u][Len(back[u]) + 1] \in 1 .. n
      BY <3>1, <3>2, TrackedPositions DEF n
    <3>5. recorded'[name[u][Len(back[u]) + 1]] = recorded[name[u][Len(back[u]) + 1]]
      BY <1>1, <3>4
    <3>6. /\ flying[u].op = recorded[name[u][Len(back[u]) + 1]].op
          /\ Remembered(back, flying[u].completed, u, name[u][Len(back[u]) + 1])
      BY <1>3, <3>1
    <3>. QED  BY <3>1, <3>3, <3>5, <3>6
  <2>. QED  BY <2>1, <2>2
<1>10. ASSUME NEW u \in ThreadId, NEW i \in 1 .. Len(back[u])
       PROVE  /\ history[u][i].op = recorded'[name2[u][i]].op
              /\ history[u][i].ret = recorded'[back[u][i]].ret
              /\ Remembered(back, history[u][i].completed, u, name2[u][i])
  <2>1. i \in 1 .. Len(name[u]) /\ name[u][i] \in 1 .. n /\ back[u][i] \in 1 .. n
    BY TrackedPositions DEF n
  <2>2. name2[u][i] = name[u][i]
    BY <1>2, <2>1
  <2>3. recorded'[name[u][i]] = recorded[name[u][i]] /\ recorded'[back[u][i]] = recorded[back[u][i]]
    BY <1>1, <2>1
  <2>4. /\ history[u][i].op = recorded[name[u][i]].op
        /\ history[u][i].ret = recorded[back[u][i]].ret
        /\ Remembered(back, history[u][i].completed, u, name[u][i])
    BY <1>3
  <2>. QED  BY <2>2, <2>3, <2>4
<1>11. lin'.history_by_thread = history /\ lin'.in_flight_by_thread = flying2
  BY <1>6 DEF flying2
<1>12. /\ DOMAIN history = ThreadId
       /\ \A u \in ThreadId : IsSeq(history[u]) /\ Len(history[u]) = Len(back[u])
  BY <1>3
<1>13. LinFlies(name2, back)'
  BY <1>7, <1>8, <1>9, <1>11 DEF LinFlies
<1>14. LinKeeps(name2, back)'
  BY <1>10, <1>11, <1>12 DEF LinKeeps
<1>. QED  BY <1>13, <1>14 DEF LinHolds

\* An operation that returns is kept with its return.
LEMMA LinHoldsReturn ==
    ASSUME NEW name, NEW back, Tracks(name, back), LinHolds(name, back),
           NEW t \in ThreadId, Len(name[t]) = Len(back[t]) + 1, NEW e, Records(e),
           NEW back2 \in [ThreadId -> Seq(Nat)], IsExtended(back, t, Len(recorded) + 1, back2),
           lin'.history_by_thread = [lin.history_by_thread EXCEPT ![t] =
              Append(lin.history_by_thread[t],
                     [completed |-> lin.in_flight_by_thread[t].completed,
                      op |-> lin.in_flight_by_thread[t].op, ret |-> e.ret])],
           lin'.in_flight_by_thread =
              [u \in DOMAIN lin.in_flight_by_thread \ {t} |-> lin.in_flight_by_thread[u]]
    PROVE  LinHolds(name, back2)'
<1>. DEFINE n == Len(recorded)
            flying == lin.in_flight_by_thread
            flying2 == lin'.in_flight_by_thread
            history == lin.history_by_thread
            history2 == lin'.history_by_thread
            entry == [completed |-> flying[t].completed, op |-> flying[t].op, ret |-> e.ret]
            longer == Append(history[t], entry)
<1>1. /\ n \in Nat /\ \A k \in 1 .. n : recorded'[k] = recorded[k]
      /\ recorded'[n + 1] = e
  BY DEF Records
<1>2. /\ \A u \in ThreadId : Len(back2[u]) = IF u = t THEN Len(back[u]) + 1 ELSE Len(back[u])
      /\ \A u \in ThreadId : \A i \in 1 .. Len(back[u]) : back2[u][i] = back[u][i]
      /\ back2[t][Len(back[t]) + 1] = n + 1
  BY DEF IsExtended
<1>3. /\ DOMAIN flying = {u \in ThreadId : Len(name[u]) = Len(back[u]) + 1}
      /\ \A u \in DOMAIN flying :
            /\ flying[u].op = recorded[name[u][Len(back[u]) + 1]].op
            /\ Remembered(back, flying[u].completed, u, name[u][Len(back[u]) + 1])
      /\ DOMAIN history = ThreadId
      /\ \A u \in ThreadId : IsSeq(history[u]) /\ Len(history[u]) = Len(back[u])
      /\ \A u \in ThreadId : \A i \in 1 .. Len(back[u]) :
            /\ history[u][i].op = recorded[name[u][i]].op
            /\ history[u][i].ret = recorded[back[u][i]].ret
            /\ Remembered(back, history[u][i].completed, u, name[u][i])
  BY DEF LinHolds, LinFlies, LinKeeps
<1>4. \A u \in ThreadId : Len(name[u]) \in Nat /\ Len(back[u]) \in Nat
  BY TrackedInOrder
<1>5. /\ flying2 = [u \in DOMAIN flying \ {t} |-> flying[u]]
      /\ history2 = [history EXCEPT ![t] = longer]
  OBVIOUS
<1>6. \A u \in ThreadId : \A i \in 1 .. Len(name[u]) : name[u][i] \in 1 .. n
  BY TrackedPositions
<1>7. ASSUME NEW u \in ThreadId, NEW i \in 1 .. Len(name[u]), NEW completed,
             Remembered(back, completed, u, name[u][i])
      PROVE  Remembered(back2, completed, u, name[u][i])
  <2>1. name[u][i] \in Nat /\ name[u][i] <= n + 1 /\ n + 1 \in Nat
    BY <1>1, <1>6
  <2>2. back \in [ThreadId -> Seq(Nat)]
    BY DEF Tracks
  <2>. QED  BY <1>7, <2>1, <2>2, RememberedStays
<1>8. /\ IsSeq(longer) /\ Len(longer) = Len(back[t]) + 1
      /\ \A i \in 1 .. Len(back[t]) : longer[i] = history[t][i]
      /\ longer[Len(back[t]) + 1] = entry
  BY <1>3, Appended
<1>9. entry.completed = flying[t].completed /\ entry.op = flying[t].op /\ entry.ret = e.ret
  OBVIOUS
<1>. HIDE DEF n, flying, flying2, history, history2, longer, entry
<1>10. DOMAIN flying2 = {u \in ThreadId : Len(name[u]) = Len(back2[u]) + 1}
  <2>1. ASSUME NEW u \in ThreadId
        PROVE  Len(name[u]) = Len(back2[u]) + 1 <=> u # t /\ Len(name[u]) = Len(back[u]) + 1
    <3>1. /\ Len(back2[u]) = IF u = t THEN Len(back[u]) + 1 ELSE Len(back[u])
          /\ Len(back[u]) \in Nat
          /\ u = t => Len(name[u]) = Len(back[u]) + 1
      BY <1>2, <1>4
    <3>. QED  BY <3>1
  <2>2. DOMAIN flying2 = DOMAIN flying \ {t}
    BY <1>5
  <2>. QED  BY <1>3, <2>1, <2>2
<1>11. flying2 = [u \in DOMAIN flying2 |-> flying2[u]]
  BY <1>5
<1>12. ASSUME NEW u \in DOMAIN flying2
       PROVE  /\ flying2[u].op = recorded'[name[u][Len(back2[u]) + 1]].op
              /\ Remembered(back2, flying2[u].completed, u, name[u][Len(back2[u]) + 1])
  <2>1. u \in DOMAIN flying /\ u # t /\ flying2[u] = flying[u] /\ u \in ThreadId
    BY <1>3, <1>5
  <2>2. Len(back2[u]) = Len(back[u]) /\ Len(back[u]) + 1 \in 1 .. Len(name[u])
    BY <1>2, <1>3, <1>4, <2>1
  <2>3. recorded'[name[u][Len(back[u]) + 1]] = recorded[name[u][Len(back[u]) + 1]]
    BY <1>1, <1>6, <2>1, <2>2
  <2>4. /\ flying[u].op = recorded[name[u][Len(back[u]) + 1]].op
        /\ Remembered(back, flying[u].completed, u, name[u][Len(back[u]) + 1])
    BY <1>3, <2>1
  <2>5. Remembered(back2, flying[u].completed, u, name[u][Len(back[u]) + 1])
    BY <1>7, <2>1, <2>2, <2>4
  <2>. QED  BY <2>1, <2>2, <2>3, <2>4, <2>5
<1>13. DOMAIN history2 = ThreadId /\ \A u \in ThreadId : history2[u] = IF u = t THEN longer ELSE history[u]
  BY <1>3, <1>5
<1>14. \A u \in ThreadId : IsSeq(history2[u]) /\ Len(history2[u]) = Len(back2[u])
  BY <1>2, <1>3, <1>8, <1>13
<1>15. ASSUME NEW u \in ThreadId, NEW i \in 1 .. Len(back2[u])
       PROVE  /\ history2[u][i].op = recorded'[name[u][i]].op
              /\ history2[u][i].ret = recorded'[back2[u][i]].ret
              /\ Remembered(back2, history2[u][i].completed, u, name[u][i])
  <2>1. CASE i \in 1 .. Len(back[u])
    <3>1. i \in 1 .. Len(name[u]) /\ name[u][i] \in 1 .. n /\ back[u][i] \in 1 .. n
      BY <2>1, TrackedPositions DEF n
    <3>2. history2[u][i] = history[u][i] /\ back2[u][i] = back[u][i]
      BY <1>2, <1>8, <1>13, <2>1
    <3>3. recorded'[name[u][i]] = recorded[name[u][i]] /\ recorded'[back[u][i]] = recorded[back[u][i]]
      BY <1>1, <3>1
    <3>4. Remembered(back2, history[u][i].completed, u, name[u][i])
      BY <1>3, <1>7, <2>1, <3>1
    <3>. QED  BY <1>3, <2>1, <3>2, <3>3, <3>4
  <2>2. CASE ~(i \in 1 .. Len(back[u]))
    <3>1. u = t /\ i = Len(back[t]) + 1
      <4>1. Len(back[u]) \in Nat /\ Len(back2[u]) = IF u = t THEN Len(back[u]) + 1 ELSE Len(back[u])
        BY <1>2, <1>4
      <4>. QED  BY <2>2, <4>1
    <3>2. history2[u][i] = entry /\ recorded'[back2[u][i]] = e
      BY <1>1, <1>2, <1>8, <1>13, <3>1
    <3>3. t \in DOMAIN flying /\ i \in 1 .. Len(name[t])
      BY <1>3, <1>4, <3>1
    <3>4. recorded'[name[t][i]] = recorded[name[t][i]]
      BY <1>1, <1>6, <3>3
    <3>5. Remembered(back2, flying[t].completed, t, name[t][i])
      BY <1>3, <1>7, <3>1, <3>3
    <3>. QED  BY <1>3, <1>9, <3>1, <3>2, <3>3, <3>4, <3>5
  <2>. QED  BY <2>1, <2>2
<1>16. LinFlies(name, back2)'
  BY <1>10, <1>11, <1>12 DEF LinFlies, flying2
<1>17. LinKeeps(name, back2)'
  BY <1>13, <1>14, <1>15 DEF LinKeeps, history2
<1>. QED  BY <1>16, <1>17 DEF LinHolds

\* The same of the sequential consistency tester, which remembers nothing of the other threads.
LEMMA SeqHoldsInvocation ==
    ASSUME NEW name, NEW back, Tracks(name, back), SeqHolds(name, back),
           NEW t \in ThreadId, Len(name[t]) = Len(back[t]), NEW e, Records(e),
           NEW name2 \in [ThreadId -> Seq(Nat)], IsExtended(name, t, Len(recorded) + 1, name2),
           seq'.history_by_thread = seq.history_by_thread,
           seq'.in_flight_by_thread = [u \in DOMAIN seq.in_flight_by_thread \cup {t} |->
              IF u = t THEN e.op ELSE seq.in_flight_by_thread[u]]
    PROVE  SeqHolds(name2, back)'
<1>. DEFINE n == Len(recorded)
            flying == seq.in_flight_by_thread
            flying2 == seq'.in_flight_by_thread
            history == seq.history_by_thread
<1>1. /\ n \in Nat /\ \A k \in 1 .. n : recorded'[k] = recorded[k]
      /\ recorded'[n + 1] = e
  BY DEF Records
<1>2. /\ \A u \in ThreadId : Len(name2[u]) = IF u = t THEN Len(name[u]) + 1 ELSE Len(name[u])
      /\ \A u \in ThreadId : \A i \in 1 .. Len(name[u]) : name2[u][i] = name[u][i]
      /\ name2[t][Len(name[t]) + 1] = n + 1
  BY DEF IsExtended
<1>3. /\ DOMAIN flying = {u \in ThreadId : Len(name[u]) = Len(back[u]) + 1}
      /\ \A u \in DOMAIN flying : flying[u] = recorded[name[u][Len(back[u]) + 1]].op
      /\ DOMAIN history = ThreadId
      /\ \A u \in ThreadId : IsSeq(history[u]) /\ Len(history[u]) = Len(back[u])
      /\ \A u \in ThreadId : \A i \in 1 .. Len(back[u]) :
            /\ history[u][i].op = recorded[name[u][i]].op
            /\ history[u][i].ret = recorded[back[u][i]].ret
  BY DEF SeqHolds, SeqFlies, SeqKeeps
<1>. HIDE DEF n
<1>5. \A u \in ThreadId : Len(name[u]) \in Nat /\ Len(back[u]) \in Nat
  BY TrackedInOrder
<1>6. /\ flying2 = [u \in DOMAIN flying \cup {t} |-> IF u = t THEN e.op ELSE flying[u]]
      /\ seq'.history_by_thread = history
  OBVIOUS
<1>. HIDE DEF flying, flying2, history
<1>7. DOMAIN flying2 = {u \in ThreadId : Len(name2[u]) = Len(back[u]) + 1}
  <2>1. ASSUME NEW u \in ThreadId
        PROVE  Len(name2[u]) = Len(back[u]) + 1 <=> u = t \/ Len(name[u]) = Len(back[u]) + 1
    <3>1. /\ Len(name2[u]) = IF u = t THEN Len(name[u]) + 1 ELSE Len(name[u])
          /\ Len(back[u]) \in Nat
          /\ u = t => Len(name[u]) = Len(back[u])
      BY <1>2, <1>5
    <3>. QED  BY <3>1
  <2>2. DOMAIN flying2 = DOMAIN flying \cup {t}
    BY <1>6
  <2>. QED  BY <1>3, <2>1, <2>2
<1>8. flying2 = [u \in DOMAIN flying2 |-> flying2[u]]
  BY <1>6
<1>9. ASSUME NEW u \in DOMAIN flying2
      PROVE  flying2[u] = recorded'[name2[u][Len(back[u]) + 1]].op
  <2>1. CASE u = t
    <3>1. flying2[u] = e.op /\ name2[u][Len(back[u]) + 1] = n + 1
      BY <1>2, <1>6, <2>1
    <3>. QED  BY <1>1, <3>1
  <2>2. CASE u # t
    <3>1. u \in DOMAIN flying /\ flying2[u] = flying[u] /\ u \in ThreadId
      BY <1>3, <1>6, <2>2
    <3>2. Len(back[u]) + 1 \in 1 .. Len(name[u])
      BY <1>3, <1>5, <3>1
    <3>3. name2[u][Len(back[u]) + 1] = name[u][Len(back[u]) + 1]
      BY <1>2, <3>1, <3>2
    <3>4. name[u][Len(back[u]) + 1] \in 1 .. n
      BY <3>1, <3>2, TrackedPositions DEF n
    <3>5. recorded'[name[u][Len(back[u]) + 1]] = recorded[name[u][Len(back[u]) + 1]]
      BY <1>1, <3>4
    <3>. QED  BY <1>3, <3>1, <3>3, <3>5
  <2>. QED  BY <2>1, <2>2
<1>10. ASSUME NEW u \in ThreadId, NEW i \in 1 .. Len(back[u])
       PROVE  /\ history[u][i].op = recorded'[name2[u][i]].op
              /\ history[u][i].ret = recorded'[back[u][i]].ret
  <2>1. i \in 1 .. Len(name[u]) /\ name[u][i] \in 1 .. n /\ back[u][i] \in 1 .. n
    BY TrackedPositions DEF n
  <2>2. name2[u][i] = name[u][i]
    BY <1>2, <2>1
  <2>3. recorded'[name[u][i]] = recorded[name[u][i]] /\ recorded'[back[u][i]] = recorded[back[u][i]]
    BY <1>1, <2>1
  <2>. QED  BY <1>3, <2>2, <2>3
<1>11. seq'.history_by_thread = history /\ seq'.in_flight_by_thread = flying2
  BY <1>6 DEF flying2
<1>12. /\ DOMAIN history = ThreadId
       /\ \A u \in ThreadId : IsSeq(history[u]) /\ Len(history[u]) = Len(back[u])
  BY <1>3
<1>13. SeqFlies(name2, back)'
  BY <1>7, <1>8, <1>9, <1>11 DEF SeqFlies
<1>14. SeqKeeps(name2, back)'
  BY <1>10, <1>11, <1>12 DEF SeqKeeps
<1>. QED  BY <1>13, <1>14 DEF SeqHolds

\* And when an operation returns.
LEMMA SeqHoldsReturn ==
    ASSUME NEW name, NEW back, Tracks(name, back), SeqHolds(name, back),
           NEW t \in ThreadId, Len(name[t]) = Len(back[t]) + 1, NEW e, Records(e),
           NEW back2 \in [ThreadId -> Seq(Nat)], IsExtended(back, t, Len(recorded) + 1, back2),
           seq'.history_by_thread = [seq.history_by_thread EXCEPT ![t] =
              Append(seq.history_by_thread[t], [op |-> seq.in_flight_by_thread[t], ret |-> e.ret])],
           seq'.in_flight_by_thread =
              [u \in DOMAIN seq.in_flight_by_thread \ {t} |-> seq.in_flight_by_thread[u]]
    PROVE  SeqHolds(name, back2)'
<1>. DEFINE n == Len(recorded)
            flying == seq.in_flight_by_thread
            flying2 == seq'.in_flight_by_thread
            history == seq.history_by_thread
            history2 == seq'.history_by_thread
            entry == [op |-> flying[t], ret |-> e.ret]
            longer == Append(history[t], entry)
<1>1. /\ n \in Nat /\ \A k \in 1 .. n : recorded'[k] = recorded[k]
      /\ recorded'[n + 1] = e
  BY DEF Records
<1>2. /\ \A u \in ThreadId : Len(back2[u]) = IF u = t THEN Len(back[u]) + 1 ELSE Len(back[u])
      /\ \A u \in ThreadId : \A i \in 1 .. Len(back[u]) : back2[u][i] = back[u][i]
      /\ back2[t][Len(back[t]) + 1] = n + 1
  BY DEF IsExtended
<1>3. /\ DOMAIN flying = {u \in ThreadId : Len(name[u]) = Len(back[u]) + 1}
      /\ \A u \in DOMAIN flying : flying[u] = recorded[name[u][Len(back[u]) + 1]].op
      /\ DOMAIN history = ThreadId
      /\ \A u \in ThreadId : IsSeq(history[u]) /\ Len(history[u]) = Len(back[u])
      /\ \A u \in ThreadId : \A i \in 1 .. Len(back[u]) :
            /\ history[u][i].op = recorded[name[u][i]].op
            /\ history[u][i].ret = recorded[back[u][i]].ret
  BY DEF SeqHolds, SeqFlies, SeqKeeps
<1>4. \A u \in ThreadId : Len(name[u]) \in Nat /\ Len(back[u]) \in Nat
  BY TrackedInOrder
<1>5. /\ flying2 = [u \in DOMAIN flying \ {t} |-> flying[u]]
      /\ history2 = [history EXCEPT ![t] = longer]
  OBVIOUS
<1>6. \A u \in ThreadId : \A i \in 1 .. Len(name[u]) : name[u][i] \in 1 .. n
  BY TrackedPositions
<1>8. /\ IsSeq(longer) /\ Len(longer) = Len(back[t]) + 1
      /\ \A i \in 1 .. Len(back[t]) : longer[i] = history[t][i]
      /\ longer[Len(back[t]) + 1] = entry
  BY <1>3, Appended
<1>9. entry.op = flying[t] /\ entry.ret = e.ret
  OBVIOUS
<1>. HIDE DEF n, flying, flying2, history, history2, longer, entry
<1>10. DOMAIN flying2 = {u \in ThreadId : Len(name[u]) = Len(back2[u]) + 1}
  <2>1. ASSUME NEW u \in ThreadId
        PROVE  Len(name[u]) = Len(back2[u]) + 1 <=> u # t /\ Len(name[u]) = Len(back[u]) + 1
    <3>1. /\ Len(back2[u]) = IF u = t THEN Len(back[u]) + 1 ELSE Len(back[u])
          /\ Len(back[u]) \in Nat
          /\ u = t => Len(name[u]) = Len(back[u]) + 1
      BY <1>2, <1>4
    <3>. QED  BY <3>1
  <2>2. DOMAIN flying2 = DOMAIN flying \ {t}
    BY <1>5
  <2>. QED  BY <1>3, <2>1, <2>2
<1>11. flying2 = [u \in DOMAIN flying2 |-> flying2[u]]
  BY <1>5
<1>12. ASSUME NEW u \in DOMAIN flying2
       PROVE  flying2[u] = recorded'[name[u][Len(back2[u]) + 1]].op
  <2>1. u \in DOMAIN flying /\ u # t /\ flying2[u] = flying[u] /\ u \in ThreadId
    BY <1>3, <1>5
  <2>2. Len(back2[u]) = Len(back[u]) /\ Len(back[u]) + 1 \in 1 .. Len(name[u])
    BY <1>2, <1>3, <1>4, <2>1
  <2>3. recorded'[name[u][Len(back[u]) + 1]] = recorded[name[u][Len(back[u]) + 1]]
    BY <1>1, <1>6, <2>1, <2>2
  <2>. QED  BY <1>3, <2>1, <2>2, <2>3
<1>13. DOMAIN history2 = ThreadId /\ \A u \in ThreadId : history2[u] = IF u = t THEN longer ELSE history[u]
  BY <1>3, <1>5
<1>14. \A u \in ThreadId : IsSeq(history2[u]) /\ Len(history2[u]) = Len(back2[u])
  BY <1>2, <1>3, <1>8, <1>13
<1>15. ASSUME NEW u \in ThreadId, NEW i \in 1 .. Len(back2[u])
       PROVE  /\ history2[u][i].op = recorded'[name[u][i]].op
              /\ history2[u][i].ret = recorded'[back2[u][i]].ret
  <2>1. CASE i \in 1 .. Len(back[u])
    <3>1. i \in 1 .. Len(name[u]) /\ name[u][i] \in 1 .. n /\ back[u][i] \in 1 .. n
      BY <2>1, TrackedPositions DEF n
    <3>2. history2[u][i] = history[u][i] /\ back2[u][i] = back[u][i]
      BY <1>2, <1>8, <1>13, <2>1
    <3>3. recorded'[name[u][i]] = recorded[name[u][i]] /\ recorded'[back[u][i]] = recorded[back[u][i]]
      BY <1>1, <3>1
    <3>. QED  BY <1>3, <2>1, <3>2, <3>3
  <2>2. CASE ~(i \in 1 .. Len(back[u]))
    <3>1. u = t /\ i = Len(back[t]) + 1
      <4>1. Len(back[u]) \in Nat /\ Len(back2[u]) = IF u = t THEN Len(back[u]) + 1 ELSE Len(back[u])
        BY <1>2, <1>4
      <4>. QED  BY <2>2, <4>1
    <3>2. history2[u][i] = entry /\ recorded'[back2[u][i]] = e
      BY <1>1, <1>2, <1>8, <1>13, <3>1
    <3>3. t \in DOMAIN flying /\ i \in 1 .. Len(name[t])
      BY <1>3, <1>4, <3>1
    <3>4. recorded'[name[t][i]] = recorded[name[t][i]]
      BY <1>1, <1>6, <3>3
    <3>. QED  BY <1>3, <1>9, <3>1, <3>2, <3>3, <3>4
  <2>. QED  BY <2>1, <2>2
<1>16. SeqFlies(name, back2)'
  BY <1>10, <1>11, <1>12 DEF SeqFlies, flying2
<1>17. SeqKeeps(name, back2)'
  BY <1>13, <1>14, <1>15 DEF SeqKeeps, history2
<1>. QED  BY <1>16, <1>17 DEF SeqHolds

-----------------------------------------------------------------------------
(* What the testers keep is what their searches need to know               *)

\* The linearizability tester knows the order of real time, ...
LEMMA LinKnowsRealTime ==
    ASSUME NEW name, NEW back, Tracks(name, back), CallsOf(name, back), LinHolds(name, back)
    PROVE  LinKnows(RecordedHistory(name, back, RealTime))
<1>. DEFINE H == RecordedHistory(name, back, RealTime)
            flying == lin.in_flight_by_thread
            history == lin.history_by_thread
<1>1. /\ H.of = name /\ H.done = [t \in ThreadId |-> Len(back[t])] /\ H.before = RealTime
      /\ H.what = [k \in Invocations |-> recorded[k].op] /\ H.init = lin.init_ref_obj
  BY DEF RecordedHistory
<1>2. \A t \in ThreadId : \A i \in 1 .. Len(back[t]) : H.ret[name[t][i]] = recorded[back[t][i]].ret
  BY TrackedIsHistory
<1>3. /\ DOMAIN flying = {u \in ThreadId : Len(name[u]) = Len(back[u]) + 1}
      /\ flying = [u \in DOMAIN flying |-> flying[u]]
      /\ \A u \in DOMAIN flying :
            /\ flying[u].op = recorded[name[u][Len(back[u]) + 1]].op
            /\ Remembered(back, flying[u].completed, u, name[u][Len(back[u]) + 1])
      /\ \A u \in ThreadId : Len(history[u]) = Len(back[u])
      /\ \A u \in ThreadId : \A i \in 1 .. Len(back[u]) :
            /\ history[u][i].op = recorded[name[u][i]].op
            /\ history[u][i].ret = recorded[back[u][i]].ret
            /\ Remembered(back, history[u][i].completed, u, name[u][i])
  BY DEF LinHolds, LinFlies, LinKeeps
<1>. HIDE DEF H, flying, history
<1>4. \A t \in ThreadId : Len(name[t]) \in Nat /\ Len(back[t]) \in Nat /\ H.done[t] = Len(back[t])
  BY <1>1, TrackedInOrder
<1>5. ASSUME NEW t \in ThreadId, NEW i \in 1 .. Len(name[t]), NEW completed,
             Remembered(back, completed, t, name[t][i])
      PROVE  Remembers(H, completed, t, H.of[t][i])
  <2>1. /\ DOMAIN completed \subseteq ThreadId \ {t}
        /\ \A u \in DOMAIN completed : completed[u] \in Nat /\ completed[u] + 1 <= Len(back[u])
        /\ \A u \in ThreadId \ {t} : \A j \in 1 .. Len(back[u]) :
              back[u][j] < name[t][i] <=> u \in DOMAIN completed /\ j <= completed[u] + 1
    BY <1>5 DEF Remembered
  <2>2. \A u \in DOMAIN completed : completed[u] \in Nat /\ completed[u] + 1 <= H.done[u]
    BY <1>4, <2>1
  <2>3. ASSUME NEW u \in ThreadId \ {t}, NEW j \in 1 .. H.done[u]
        PROVE  <<H.of[u][j], H.of[t][i]>> \in H.before <=> u \in DOMAIN completed /\ j <= completed[u] + 1
    <3>1. j \in 1 .. Len(back[u]) /\ j \in 1 .. Len(name[u])
      BY <1>4, TrackedPositions
    <3>2. <<name[u][j], name[t][i]>> \in RealTime <=> j <= Len(back[u]) /\ back[u][j] < name[t][i]
      BY <3>1, TrackedPrecedes
    <3>3. j <= Len(back[u])
      BY <1>4, <3>1
    <3>. QED  BY <1>1, <2>1, <3>1, <3>2, <3>3
  <2>. QED  BY <2>1, <2>2, <2>3 DEF Remembers
<1>6. \A t \in ThreadId : \A i \in 1 .. Len(name[t]) : H.what[H.of[t][i]] = recorded[name[t][i]].op
  BY <1>1, TrackedInvocations
<1>7. DOMAIN flying = {t \in ThreadId : Len(H.of[t]) = H.done[t] + 1}
  BY <1>1, <1>3, <1>4
<1>8. ASSUME NEW t \in DOMAIN flying
      PROVE  /\ flying[t].op = H.what[H.of[t][H.done[t] + 1]]
             /\ Remembers(H, flying[t].completed, t, H.of[t][H.done[t] + 1])
  <2>1. t \in ThreadId /\ H.done[t] = Len(back[t]) /\ Len(back[t]) + 1 \in 1 .. Len(name[t])
    BY <1>3, <1>4
  <2>2. /\ flying[t].op = recorded[name[t][Len(back[t]) + 1]].op
        /\ Remembered(back, flying[t].completed, t, name[t][Len(back[t]) + 1])
    BY <1>3
  <2>. QED  BY <1>5, <1>6, <2>1, <2>2
<1>9. ASSUME NEW t \in ThreadId, NEW i \in 1 .. H.done[t]
      PROVE  /\ history[t][i].op = H.what[H.of[t][i]] /\ history[t][i].ret = H.ret[H.of[t][i]]
             /\ Remembers(H, history[t][i].completed, t, H.of[t][i])
  <2>1. i \in 1 .. Len(back[t]) /\ i \in 1 .. Len(name[t])
    BY <1>4, TrackedPositions
  <2>2. /\ history[t][i].op = recorded[name[t][i]].op
        /\ history[t][i].ret = recorded[back[t][i]].ret
        /\ Remembered(back, history[t][i].completed, t, name[t][i])
    BY <1>3, <2>1
  <2>3. H.ret[H.of[t][i]] = recorded[back[t][i]].ret
    BY <1>1, <1>2, <2>1
  <2>. QED  BY <1>5, <1>6, <2>1, <2>2, <2>3
<1>10. \A t \in ThreadId : Len(history[t]) = H.done[t]
  BY <1>3, <1>4
<1>. QED  BY <1>1, <1>3, <1>7, <1>8, <1>9, <1>10 DEF LinKnows, flying, history, H

\* ... and the sequential consistency tester that of each thread.
LEMMA SeqKnowsProgramOrder ==
    ASSUME NEW name, NEW back, Tracks(name, back), CallsOf(name, back), SeqHolds(name, back),
           seq.init_ref_obj = lin.init_ref_obj
    PROVE  /\ SeqKnows(RecordedHistory(name, back, ProgramOrder))
           /\ KeepsThreads(RecordedHistory(name, back, ProgramOrder))
<1>. DEFINE H == RecordedHistory(name, back, ProgramOrder)
            flying == seq.in_flight_by_thread
            history == seq.history_by_thread
<1>1. /\ H.of = name /\ H.done = [t \in ThreadId |-> Len(back[t])] /\ H.before = ProgramOrder
      /\ H.what = [k \in Invocations |-> recorded[k].op] /\ H.init = lin.init_ref_obj
  BY DEF RecordedHistory
<1>2. \A t \in ThreadId : \A i \in 1 .. Len(back[t]) : H.ret[name[t][i]] = recorded[back[t][i]].ret
  BY TrackedIsHistory
<1>3. /\ DOMAIN flying = {u \in ThreadId : Len(name[u]) = Len(back[u]) + 1}
      /\ flying = [u \in DOMAIN flying |-> flying[u]]
      /\ \A u \in DOMAIN flying : flying[u] = recorded[name[u][Len(back[u]) + 1]].op
      /\ \A u \in ThreadId : Len(history[u]) = Len(back[u])
      /\ \A u \in ThreadId : \A i \in 1 .. Len(back[u]) :
            /\ history[u][i].op = recorded[name[u][i]].op
            /\ history[u][i].ret = recorded[back[u][i]].ret
  BY DEF SeqHolds, SeqFlies, SeqKeeps
<1>. HIDE DEF H, flying, history
<1>4. \A t \in ThreadId : Len(name[t]) \in Nat /\ Len(back[t]) \in Nat /\ H.done[t] = Len(back[t])
  BY <1>1, TrackedInOrder
<1>6. \A t \in ThreadId : \A i \in 1 .. Len(name[t]) : H.what[H.of[t][i]] = recorded[name[t][i]].op
  BY <1>1, TrackedInvocations
<1>7. DOMAIN flying = {t \in ThreadId : Len(H.of[t]) = H.done[t] + 1}
  BY <1>1, <1>3, <1>4
<1>8. ASSUME NEW t \in DOMAIN flying
      PROVE  flying[t] = H.what[H.of[t][H.done[t] + 1]]
  <2>1. t \in ThreadId /\ H.done[t] = Len(back[t]) /\ Len(back[t]) + 1 \in 1 .. Len(name[t])
    BY <1>3, <1>4
  <2>2. flying[t] = recorded[name[t][Len(back[t]) + 1]].op
    BY <1>3
  <2>. QED  BY <1>6, <2>1, <2>2
<1>9. ASSUME NEW t \in ThreadId, NEW i \in 1 .. H.done[t]
      PROVE  /\ history[t][i].op = H.what[H.of[t][i]] /\ history[t][i].ret = H.ret[H.of[t][i]]
  <2>1. i \in 1 .. Len(back[t]) /\ i \in 1 .. Len(name[t])
    BY <1>4, TrackedPositions
  <2>2. /\ history[t][i].op = recorded[name[t][i]].op
        /\ history[t][i].ret = recorded[back[t][i]].ret
    BY <1>3, <2>1
  <2>3. H.ret[H.of[t][i]] = recorded[back[t][i]].ret
    BY <1>1, <1>2, <2>1
  <2>. QED  BY <1>6, <2>1, <2>2, <2>3
<1>10. \A t \in ThreadId : Len(history[t]) = H.done[t]
  BY <1>3, <1>4
<1>11. SeqKnows(H)
  BY <1>1, <1>3, <1>7, <1>8, <1>9, <1>10 DEF SeqKnows, flying, history
<1>12. KeepsThreads(H)
  <2>1. SUFFICES ASSUME NEW t \in ThreadId, NEW u \in ThreadId,
                        NEW i \in 1 .. Len(name[t]), NEW j \in 1 .. Len(name[u]),
                        <<name[u][j], name[t][i]>> \in ProgramOrder
                 PROVE  u = t
    BY <1>1 DEF KeepsThreads
  <2>. QED  BY <2>1, TrackedPrecedes
<1>. QED  BY <1>11, <1>12 DEF H

-----------------------------------------------------------------------------
(* The invariant                                                           *)

(***************************************************************************)
(* The calls so far can be told apart by thread and counted, and both      *)
(* testers keep them.                                                      *)
(***************************************************************************)
Kept(name, back) ==
    /\ Tracks(name, back)
    /\ CallsOf(name, back)
    /\ Counted(name, back)
    /\ LinHolds(name, back)
    /\ SeqHolds(name, back)

HistoryTypeOK ==
    /\ IsSeq(recorded)
    /\ IsTester(lin) /\ IsTester(seq)
    /\ lin.init_ref_obj \in RefObj /\ seq.init_ref_obj = lin.init_ref_obj
    /\ lin.is_valid_history \in BOOLEAN /\ seq.is_valid_history = lin.is_valid_history

\* The testers are valid as long as the history is well-formed, and then they keep all of it.
HistoryInv ==
    /\ HistoryTypeOK
    /\ WellFormed <=> lin.is_valid_history
    /\ lin.is_valid_history =>
          /\ \A k \in Invocations : recorded[k].op \in Ops(lin.init_ref_obj)
          /\ \E name, back : Kept(name, back)

\* At first nothing is recorded.
LEMMA HistoryInvHoldsAtFirst == HistoryInit => HistoryInv
<1>. SUFFICES ASSUME HistoryInit PROVE HistoryInv
  OBVIOUS
<1>1. PICK ref_obj \in RefObj : lin = Lin!New(ref_obj) /\ seq = Seq_!New(ref_obj)
  BY DEF HistoryInit
<1>2. recorded = << >>
  BY DEF HistoryInit
<1>. DEFINE none == [t \in ThreadId |-> << >>]
            flying == [t \in {} |-> << >>]
<1>3. /\ lin = [init_ref_obj |-> ref_obj, history_by_thread |-> none,
                in_flight_by_thread |-> flying, is_valid_history |-> TRUE]
      /\ seq = [init_ref_obj |-> ref_obj, history_by_thread |-> none,
                in_flight_by_thread |-> flying, is_valid_history |-> TRUE]
  BY <1>1 DEF Lin!New, Seq_!New
<1>4. /\ none \in [ThreadId -> Seq(Nat)] /\ DOMAIN none = ThreadId
      /\ \A t \in ThreadId : none[t] = << >> /\ Len(none[t]) = 0
  OBVIOUS
<1>5. DOMAIN flying = {} /\ flying = [t \in DOMAIN flying |-> flying[t]]
  OBVIOUS
<1>. HIDE DEF none, flying
<1>6. /\ lin.init_ref_obj = ref_obj /\ lin.history_by_thread = none
      /\ lin.in_flight_by_thread = flying /\ lin.is_valid_history = TRUE
      /\ seq.init_ref_obj = ref_obj /\ seq.history_by_thread = none
      /\ seq.in_flight_by_thread = flying /\ seq.is_valid_history = TRUE
  BY <1>3
<1>7. Len(recorded) = 0 /\ DOMAIN recorded = {} /\ 1 .. Len(recorded) = {}
  BY <1>2
<1>8. IsSeq(<< >>)
  <2>1. << >> \in Seq({})
    OBVIOUS
  <2>. QED  BY <2>1 DEF IsSeq
<1>9. IsTester(lin) /\ IsTester(seq)
  BY <1>3, <1>6 DEF IsTester
<1>10. HistoryTypeOK
  BY <1>2, <1>6, <1>8, <1>9 DEF HistoryTypeOK
<1>11. WellFormed
  BY <1>7 DEF WellFormed
<1>12. Invocations = {}
  BY <1>7 DEF Invocations
<1>13. Tracks(none, none)
  BY <1>4, <1>7 DEF Tracks
<1>14. CallsOf(none, none)
  BY <1>4 DEF CallsOf
<1>15. Counted(none, none)
  <2>1. \A t \in ThreadId : CallsBy(t) = {}
    BY <1>7 DEF CallsBy
  <2>2. Cardinality({}) = 0
    BY FS_EmptySet
  <2>3. SUFFICES ASSUME NEW t \in ThreadId
                 PROVE  Cardinality(CallsBy(t)) = Len(none[t]) + Len(none[t])
    BY DEF Counted
  <2>4. Len(none[t]) = 0 /\ CallsBy(t) = {}
    BY <1>4, <2>1
  <2>. QED  BY <2>2, <2>4
<1>16. {t \in ThreadId : Len(none[t]) = Len(none[t]) + 1} = {}
  BY <1>4
<1>17. \A t \in ThreadId : IsSeq(none[t]) /\ 1 .. Len(none[t]) = {}
  BY <1>4, <1>8
<1>18. LinHolds(none, none)
  BY <1>4, <1>5, <1>6, <1>16, <1>17 DEF LinHolds, LinFlies, LinKeeps
<1>19. SeqHolds(none, none)
  BY <1>4, <1>5, <1>6, <1>16, <1>17 DEF SeqHolds, SeqFlies, SeqKeeps
<1>20. Kept(none, none)
  BY <1>13, <1>14, <1>15, <1>18, <1>19 DEF Kept
<1>. QED  BY <1>6, <1>10, <1>11, <1>12, <1>20 DEF HistoryInv

\* Once invalid, or told of a call out of turn, the testers are invalid.
LEMMA InvalidStays ==
    ASSUME HistoryInv, NEW e, Records(e), IsSeq(recorded)', IsTester(lin)', IsTester(seq)',
           lin'.init_ref_obj = lin.init_ref_obj, seq'.init_ref_obj = seq.init_ref_obj,
           lin'.is_valid_history = FALSE, seq'.is_valid_history = FALSE,
           ~(WellFormed /\ (e.call = "on_return" <=> Waits(e.thread)))
    PROVE  HistoryInv'
<1>1. HistoryTypeOK
  BY DEF HistoryInv
<1>2. HistoryTypeOK'
  BY <1>1 DEF HistoryTypeOK
<1>3. ~WellFormed'
  BY StaysWellFormed
<1>. QED  BY <1>2, <1>3 DEF HistoryInv

\* A call that is in turn is kept.
LEMMA ValidStays ==
    ASSUME HistoryInv, lin.is_valid_history, NEW e, Records(e), IsSeq(recorded)',
           IsTester(lin)', IsTester(seq)',
           lin'.init_ref_obj = lin.init_ref_obj, seq'.init_ref_obj = seq.init_ref_obj,
           lin'.is_valid_history = lin.is_valid_history, seq'.is_valid_history = seq.is_valid_history,
           e.call = "on_return" <=> Waits(e.thread),
           e.call = "on_invoke" => e.op \in Ops(lin.init_ref_obj),
           NEW name, NEW back, Kept(name, back)'
    PROVE  HistoryInv'
<1>1. HistoryTypeOK /\ WellFormed
  BY DEF HistoryInv
<1>2. HistoryTypeOK'
  BY <1>1 DEF HistoryTypeOK
<1>3. WellFormed'
  BY <1>1, StaysWellFormed
<1>4. ASSUME NEW k \in Invocations'
      PROVE  recorded'[k].op \in Ops(lin'.init_ref_obj)
  <2>1. /\ \A i \in DOMAIN recorded : recorded'[i] = recorded[i]
        /\ k \in DOMAIN recorded \/ recorded'[k] = e
        /\ recorded'[k].call = "on_invoke"
    <3>1. k \in DOMAIN recorded' /\ recorded'[k].call = "on_invoke"
      BY DEF Invocations
    <3>2. /\ Len(recorded) \in Nat /\ DOMAIN recorded = 1 .. Len(recorded)
          /\ DOMAIN recorded' = 1 .. Len(recorded) + 1
          /\ \A i \in 1 .. Len(recorded) : recorded'[i] = recorded[i]
          /\ recorded'[Len(recorded) + 1] = e
      BY DEF Records
    <3>. QED  BY <3>1, <3>2
  <2>2. CASE k \in DOMAIN recorded
    <3>1. k \in Invocations /\ recorded'[k] = recorded[k]
      BY <2>1, <2>2 DEF Invocations
    <3>. QED  BY <3>1 DEF HistoryInv
  <2>3. CASE recorded'[k] = e
    BY <2>1, <2>3
  <2>. QED  BY <2>1, <2>2, <2>3
<1>. QED  BY <1>2, <1>3, <1>4 DEF HistoryInv

\* What the calls are.
LEMMA CallsOfMore ==
    ASSUME NEW name, NEW back, Tracks(name, back), CallsOf(name, back), NEW e, Records(e),
           NEW t \in ThreadId, NEW more
    PROVE  /\ IsExtended(name, t, Len(recorded) + 1, more) /\ IsOp(e.op) => CallsOf(more, back)'
           /\ IsExtended(back, t, Len(recorded) + 1, more) /\ IsRet(e.ret) => CallsOf(name, more)'
<1>1. PICK n \in Nat : n = Len(recorded)
  BY DEF Records
<1>2. /\ \A k \in 1 .. n : recorded'[k] = recorded[k]
      /\ recorded'[n + 1] = e
  BY <1>1 DEF Records
<1>3. /\ \A u \in ThreadId : \A i \in 1 .. Len(name[u]) : name[u][i] \in 1 .. n
      /\ \A u \in ThreadId : \A i \in 1 .. Len(back[u]) : back[u][i] \in 1 .. n
  BY <1>1, TrackedPositions
<1>4. /\ \A u \in ThreadId : \A i \in 1 .. Len(name[u]) : IsOp(recorded[name[u][i]].op)
      /\ \A u \in ThreadId : \A i \in 1 .. Len(back[u]) : IsRet(recorded[back[u][i]].ret)
  BY DEF CallsOf
<1>5. /\ \A u \in ThreadId : \A i \in 1 .. Len(name[u]) : recorded'[name[u][i]] = recorded[name[u][i]]
      /\ \A u \in ThreadId : \A i \in 1 .. Len(back[u]) : recorded'[back[u][i]] = recorded[back[u][i]]
  BY <1>2, <1>3
<1>6. \A u \in ThreadId : Len(name[u]) \in Nat /\ Len(back[u]) \in Nat
  BY TrackedInOrder
<1>7. ASSUME NEW a, a \in {name, back}, IsExtended(a, t, n + 1, more),
             NEW u \in ThreadId, NEW i \in 1 .. Len(more[u])
      PROVE  \/ i \in 1 .. Len(a[u]) /\ more[u][i] = a[u][i]
             \/ recorded'[more[u][i]] = e
  <2>1. Len(a[u]) \in Nat /\ Len(more[u]) = IF u = t THEN Len(a[u]) + 1 ELSE Len(a[u])
    BY <1>6, <1>7 DEF IsExtended
  <2>2. i \in 1 .. Len(a[u]) \/ (u = t /\ i = Len(a[t]) + 1)
    BY <2>1
  <2>3. more[t][Len(a[t]) + 1] = n + 1 /\ (i \in 1 .. Len(a[u]) => more[u][i] = a[u][i])
    BY <1>7 DEF IsExtended
  <2>. QED  BY <1>2, <2>2, <2>3
<1>8. ASSUME IsExtended(name, t, n + 1, more), IsOp(e.op)
      PROVE  CallsOf(more, back)'
  <2>1. \A u \in ThreadId : \A i \in 1 .. Len(more[u]) : IsOp(recorded'[more[u][i]].op)
    <3>1. SUFFICES ASSUME NEW u \in ThreadId, NEW i \in 1 .. Len(more[u])
                   PROVE  IsOp(recorded'[more[u][i]].op)
      OBVIOUS
    <3>2. \/ i \in 1 .. Len(name[u]) /\ more[u][i] = name[u][i]
          \/ recorded'[more[u][i]] = e
      BY <1>7, <1>8
    <3>. QED  BY <1>4, <1>5, <1>8, <3>2
  <2>2. \A u \in ThreadId : \A i \in 1 .. Len(back[u]) : IsRet(recorded'[back[u][i]].ret)
    BY <1>4, <1>5
  <2>. QED  BY <2>1, <2>2 DEF CallsOf
<1>9. ASSUME IsExtended(back, t, n + 1, more), IsRet(e.ret)
      PROVE  CallsOf(name, more)'
  <2>1. \A u \in ThreadId : \A i \in 1 .. Len(more[u]) : IsRet(recorded'[more[u][i]].ret)
    <3>1. SUFFICES ASSUME NEW u \in ThreadId, NEW i \in 1 .. Len(more[u])
                   PROVE  IsRet(recorded'[more[u][i]].ret)
      OBVIOUS
    <3>2. \/ i \in 1 .. Len(back[u]) /\ more[u][i] = back[u][i]
          \/ recorded'[more[u][i]] = e
      BY <1>7, <1>9
    <3>. QED  BY <1>4, <1>5, <1>9, <3>2
  <2>2. \A u \in ThreadId : \A i \in 1 .. Len(name[u]) : IsOp(recorded'[name[u][i]].op)
    BY <1>4, <1>5
  <2>. QED  BY <2>1, <2>2 DEF CallsOf
<1>. QED  BY <1>1, <1>8, <1>9

\* How many there are.
LEMMA CountedMore ==
    ASSUME NEW name, NEW back, Tracks(name, back), Counted(name, back), NEW e, Records(e),
           NEW t \in ThreadId, e.thread = t, NEW m, NEW more
    PROVE  /\ IsExtended(name, t, m, more) => Counted(more, back)'
           /\ IsExtended(back, t, m, more) => Counted(name, more)'
<1>1. ASSUME NEW u \in ThreadId
      PROVE  /\ Cardinality(CallsBy(u))' = IF u = t THEN Len(name[u]) + Len(back[u]) + 1
                                           ELSE Len(name[u]) + Len(back[u])
             /\ Len(name[u]) \in Nat /\ Len(back[u]) \in Nat
  <2>1. Cardinality(CallsBy(u))' = IF e.thread = u THEN Cardinality(CallsBy(u)) + 1
                                   ELSE Cardinality(CallsBy(u))
    BY CallsAreCounted
  <2>2. Cardinality(CallsBy(u)) = Len(name[u]) + Len(back[u])
    BY DEF Counted
  <2>. QED  BY <2>1, <2>2, TrackedInOrder
<1>2. ASSUME IsExtended(name, t, m, more)
      PROVE  Counted(more, back)'
  <2>1. SUFFICES ASSUME NEW u \in ThreadId
                 PROVE  Cardinality(CallsBy(u))' = Len(more[u]) + Len(back[u])
    BY DEF Counted
  <2>2. Len(more[u]) = IF u = t THEN Len(name[u]) + 1 ELSE Len(name[u])
    BY <1>2 DEF IsExtended
  <2>3. /\ Cardinality(CallsBy(u))' = IF u = t THEN Len(name[u]) + Len(back[u]) + 1
                                      ELSE Len(name[u]) + Len(back[u])
        /\ Len(name[u]) \in Nat /\ Len(back[u]) \in Nat
    BY <1>1
  <2>. DEFINE a == Len(name[u])
              b == Len(back[u])
              c == Len(more[u])
              d == Cardinality(CallsBy(u))'
  <2>. HIDE DEF a, b, c, d
  <2>4. CASE u = t
    <3>1. a \in Nat /\ b \in Nat /\ c = IF u = t THEN a + 1 ELSE a
      BY <2>2, <2>3 DEF a, b, c
    <3>2. d = a + b + 1
      BY <2>3, <2>4 DEF a, b, d
    <3>3. c = a + 1
      BY <2>4, <3>1
    <3>4. d = c + b
      BY <3>1, <3>2, <3>3
    <3>. QED  BY <3>4 DEF a, b, c, d
  <2>5. CASE u # t
    BY <2>2, <2>3, <2>5 DEF a, b, c, d
  <2>. QED  BY <2>4, <2>5
<1>3. ASSUME IsExtended(back, t, m, more)
      PROVE  Counted(name, more)'
  <2>1. SUFFICES ASSUME NEW u \in ThreadId
                 PROVE  Cardinality(CallsBy(u))' = Len(name[u]) + Len(more[u])
    BY DEF Counted
  <2>2. Len(more[u]) = IF u = t THEN Len(back[u]) + 1 ELSE Len(back[u])
    BY <1>3 DEF IsExtended
  <2>3. /\ Cardinality(CallsBy(u))' = IF u = t THEN Len(name[u]) + Len(back[u]) + 1
                                      ELSE Len(name[u]) + Len(back[u])
        /\ Len(name[u]) \in Nat /\ Len(back[u]) \in Nat
    BY <1>1
  <2>. DEFINE a == Len(name[u])
              b == Len(back[u])
              c == Len(more[u])
              d == Cardinality(CallsBy(u))'
  <2>. HIDE DEF a, b, c, d
  <2>4. CASE u = t
    <3>1. a \in Nat /\ b \in Nat /\ c = IF u = t THEN b + 1 ELSE b
      BY <2>2, <2>3 DEF a, b, c
    <3>2. d = a + b + 1
      BY <2>3, <2>4 DEF a, b, d
    <3>3. c = b + 1
      BY <2>4, <3>1
    <3>4. d = a + c
      BY <3>1, <3>2, <3>3
    <3>. QED  BY <3>4 DEF a, b, c, d
  <2>5. CASE u # t
    BY <2>2, <2>3, <2>5 DEF a, b, c, d
  <2>. QED  BY <2>4, <2>5
<1>. QED  BY <1>2, <1>3

\* A thread waits exactly if it has an operation in flight, in both testers.
LEMMA InFlightMeansWaits ==
    ASSUME NEW name, NEW back, Kept(name, back), NEW t \in ThreadId
    PROVE  /\ t \in DOMAIN lin.in_flight_by_thread <=> Waits(t)
           /\ t \in DOMAIN seq.in_flight_by_thread <=> Waits(t)
           /\ Waits(t) => Len(name[t]) = Len(back[t]) + 1
           /\ ~Waits(t) => Len(name[t]) = Len(back[t])
<1>1. Tracks(name, back) /\ Counted(name, back)
  BY DEF Kept
<1>2. Waits(t) <=> Len(name[t]) = Len(back[t]) + 1
  BY <1>1, WaitsMeansInFlight
<1>3. /\ DOMAIN lin.in_flight_by_thread = {u \in ThreadId : Len(name[u]) = Len(back[u]) + 1}
      /\ DOMAIN seq.in_flight_by_thread = {u \in ThreadId : Len(name[u]) = Len(back[u]) + 1}
  BY DEF Kept, LinHolds, LinFlies, LinKeeps, SeqHolds, SeqFlies, SeqKeeps
<1>4. /\ Len(name[t]) \in Nat /\ Len(back[t]) \in Nat
      /\ Len(back[t]) <= Len(name[t]) /\ Len(name[t]) <= Len(back[t]) + 1
  BY <1>1, TrackedInOrder
<1>5. ~(Len(name[t]) = Len(back[t]) + 1) => Len(name[t]) = Len(back[t])
  BY <1>4
<1>. QED  BY <1>2, <1>3, <1>5

\* What a thread that waits is answered is an answer of its operation.
LEMMA AnswersAreRets ==
    ASSUME NEW name, NEW back, Tracks(name, back), NEW t \in ThreadId, Len(name[t]) = Len(back[t]) + 1,
           lin.init_ref_obj \in RefObj, \A k \in Invocations : recorded[k].op \in Ops(lin.init_ref_obj),
           NEW ret \in PossibleRets(t)
    PROVE  IsRet(ret)
<1>. DEFINE last == name[t][Len(name[t])]
<1>1. /\ Len(name[t]) \in Nat /\ Len(back[t]) \in Nat
      /\ \A i \in 1 .. Len(name[t]) : name[t][i] \in Nat
      /\ \A i \in 1 .. Len(back[t]) : back[t][i] \in Nat
      /\ \A i \in 1 .. Len(back[t]), j \in 1 .. Len(name[t]) : i < j => back[t][i] < name[t][j]
      /\ \A i, j \in 1 .. Len(name[t]) : i < j => name[t][i] < name[t][j]
  BY TrackedInOrder
<1>2. Len(name[t]) \in 1 .. Len(name[t])
  BY <1>1
<1>3. IsCallOf("on_invoke", t, last)
  BY <1>2 DEF Tracks
<1>4. last \in Nat
  BY <1>1, <1>2
<1>5. DOMAIN recorded = 1 .. Len(recorded) /\ Len(recorded) \in Nat
  BY DEF Tracks
<1>6. ASSUME NEW m \in last + 1 .. Len(recorded)
      PROVE  recorded[m].thread # t
  <2>1. SUFFICES ASSUME recorded[m].thread = t PROVE FALSE
    OBVIOUS
  <2>2. m \in DOMAIN recorded /\ m > last /\ m \in Nat
    BY <1>4, <1>5
  <2>3. (\E i \in 1 .. Len(name[t]) : m = name[t][i]) \/ (\E i \in 1 .. Len(back[t]) : m = back[t][i])
    BY <2>1, <2>2, CallsAreTracked
  <2>4. ASSUME NEW i \in 1 .. Len(name[t]), m = name[t][i]
        PROVE  FALSE
    <3>1. i = Len(name[t]) \/ i < Len(name[t])
      BY <1>1
    <3>2. i < Len(name[t]) => m < last
      BY <1>1, <1>2, <2>4
    <3>. QED  BY <1>4, <2>2, <2>4, <3>1, <3>2
  <2>5. ASSUME NEW i \in 1 .. Len(back[t]), m = back[t][i]
        PROVE  FALSE
    <3>1. i < Len(name[t])
      BY <1>1
    <3>2. m < last
      BY <1>1, <1>2, <2>5, <3>1
    <3>. QED  BY <1>4, <2>2, <3>2
  <2>. QED  BY <2>3, <2>4, <2>5
<1>7. recorded[last].op \in LastOps(t)
  BY <1>3, <1>6 DEF LastOps, IsCallOf
<1>8. PICK op \in LastOps(t) : ret \in Rets(op)
  BY <1>7 DEF PossibleRets
<1>9. op \in Ops(lin.init_ref_obj)
  BY <1>8 DEF LastOps, Invocations
<1>. QED  BY <1>8, <1>9, CallsAssumption

\* A thread invokes.
LEMMA InvokeKeepsHistory ==
    ASSUME HistoryInv, NEW t \in ThreadId, NEW op \in Ops(lin.init_ref_obj), Invoke(t, op)
    PROVE  HistoryInv'
<1>. DEFINE e == [call |-> "on_invoke", thread |-> t, op |-> op]
<1>1. /\ lin' = Lin!OnInvoke(lin, t, op) /\ seq' = Seq_!OnInvoke(seq, t, op)
      /\ recorded' = Append(recorded, e)
  BY DEF Invoke
<1>2. e.call = "on_invoke" /\ e.thread = t /\ e.op = op
  OBVIOUS
<1>. HIDE DEF e
<1>3. /\ IsSeq(recorded) /\ IsTester(lin) /\ IsTester(seq) /\ lin.init_ref_obj \in RefObj
      /\ seq.init_ref_obj = lin.init_ref_obj /\ lin.is_valid_history \in BOOLEAN
      /\ seq.is_valid_history \in BOOLEAN /\ seq.is_valid_history = lin.is_valid_history
      /\ WellFormed <=> lin.is_valid_history
  BY DEF HistoryInv, HistoryTypeOK
<1>4. Records(e) /\ IsSeq(recorded)'
  BY <1>1, <1>3, Recording
<1>5. LinTold(t, op) /\ SeqTold(t, op)
  BY <1>3, LinIsTold, SeqIsTold
<1>6. CASE ~lin.is_valid_history
  <2>1. lin' = lin /\ seq' = seq
    BY <1>1, <1>3, <1>6, <1>5 DEF LinTold, SeqTold
  <2>2. IsTester(lin)' /\ IsTester(seq)' /\ lin'.is_valid_history = FALSE /\ seq'.is_valid_history = FALSE
    BY <1>3, <1>6, <2>1
  <2>3. ~(WellFormed /\ (e.call = "on_return" <=> Waits(e.thread)))
    BY <1>3, <1>6
  <2>. QED  BY <1>4, <2>1, <2>2, <2>3, InvalidStays
<1>7. CASE lin.is_valid_history
  <2>1. PICK name, back : Kept(name, back)
    BY <1>7 DEF HistoryInv
  <2>2. /\ t \in DOMAIN lin.in_flight_by_thread <=> Waits(t)
        /\ t \in DOMAIN seq.in_flight_by_thread <=> Waits(t)
        /\ ~Waits(t) => Len(name[t]) = Len(back[t])
    BY <2>1, InFlightMeansWaits
  <2>3. CASE Waits(t)
    <3>1. /\ IsTester(lin)' /\ lin'.init_ref_obj = lin.init_ref_obj /\ lin'.is_valid_history = FALSE
      <4>1. TesterIs(Lin!OnInvoke(lin, t, op), lin.init_ref_obj, lin.history_by_thread, lin.in_flight_by_thread, FALSE)
        BY <1>3, <1>7, <2>2, <2>3, <1>5 DEF LinTold
      <4>. QED  BY <1>1, <4>1 DEF TesterIs
    <3>2. /\ IsTester(seq)' /\ seq'.init_ref_obj = seq.init_ref_obj /\ seq'.is_valid_history = FALSE
      <4>1. TesterIs(Seq_!OnInvoke(seq, t, op), seq.init_ref_obj, seq.history_by_thread, seq.in_flight_by_thread, FALSE)
        BY <1>3, <1>7, <2>2, <2>3, <1>5 DEF SeqTold
      <4>. QED  BY <1>1, <4>1 DEF TesterIs
    <3>3. ~(e.call = "on_return" <=> Waits(e.thread))
      BY <1>2, <2>3
    <3>. QED  BY <1>4, <3>1, <3>2, <3>3, InvalidStays
  <2>4. CASE ~Waits(t)
    <3>1. /\ IsTester(lin)' /\ lin'.init_ref_obj = lin.init_ref_obj
          /\ lin'.is_valid_history = lin.is_valid_history
          /\ lin'.history_by_thread = lin.history_by_thread
          /\ lin'.in_flight_by_thread = [u \in DOMAIN lin.in_flight_by_thread \cup {t} |->
                IF u = t THEN LinFlying(t, op) ELSE lin.in_flight_by_thread[u]]
      BY <1>1, <1>3, <1>7, <2>2, <2>4, <1>5 DEF LinTold, TesterIs
    <3>2. /\ IsTester(seq)' /\ seq'.init_ref_obj = seq.init_ref_obj
          /\ seq'.is_valid_history = seq.is_valid_history
          /\ seq'.history_by_thread = seq.history_by_thread
          /\ seq'.in_flight_by_thread = [u \in DOMAIN seq.in_flight_by_thread \cup {t} |->
                IF u = t THEN op ELSE seq.in_flight_by_thread[u]]
      BY <1>1, <1>3, <1>7, <2>2, <2>4, <1>5 DEF SeqTold, TesterIs
    <3>3. /\ Tracks(name, back) /\ CallsOf(name, back) /\ Counted(name, back)
          /\ LinHolds(name, back) /\ SeqHolds(name, back)
          /\ Len(name[t]) = Len(back[t])
      BY <2>1, <2>2, <2>4 DEF Kept
    <3>4. name \in [ThreadId -> Seq(Nat)] /\ Len(recorded) + 1 \in Nat
      BY <3>3 DEF Tracks
    <3>5. PICK name2 \in [ThreadId -> Seq(Nat)] : IsExtended(name, t, Len(recorded) + 1, name2)
      BY <3>4, Extended
    <3>6. Tracks(name2, back)'
      BY <1>2, <1>4, <3>3, <3>5, InvokeIsTracked
    <3>7. CallsOf(name2, back)'
      <4>1. IsOp(e.op)
        BY <1>2, <1>3, CallsAssumption
      <4>. QED  BY <1>4, <3>3, <3>5, <4>1, CallsOfMore
    <3>8. Counted(name2, back)'
      BY <1>2, <1>4, <3>3, <3>5, CountedMore
    <3>9. LinHolds(name2, back)'
      <4>1. lin'.in_flight_by_thread = [u \in DOMAIN lin.in_flight_by_thread \cup {t} |->
               IF u = t THEN LinFlying(t, e.op) ELSE lin.in_flight_by_thread[u]]
        BY <1>2, <3>1
      <4>. QED  BY <1>4, <3>1, <3>3, <3>5, <4>1, LinHoldsInvocation
    <3>10. SeqHolds(name2, back)'
      <4>1. seq'.in_flight_by_thread = [u \in DOMAIN seq.in_flight_by_thread \cup {t} |->
               IF u = t THEN e.op ELSE seq.in_flight_by_thread[u]]
        BY <1>2, <3>2
      <4>. QED  BY <1>4, <3>2, <3>3, <3>5, <4>1, SeqHoldsInvocation
    <3>11. Kept(name2, back)'
      BY <3>6, <3>7, <3>8, <3>9, <3>10 DEF Kept
    <3>12. (e.call = "on_return" <=> Waits(e.thread)) /\ e.op \in Ops(lin.init_ref_obj)
      BY <1>2, <2>4
    <3>. QED  BY <1>4, <1>7, <3>1, <3>2, <3>11, <3>12, ValidStays
  <2>. QED  BY <2>3, <2>4
<1>. QED  BY <1>6, <1>7

\* A thread is answered.
LEMMA ReturnKeepsHistory ==
    ASSUME HistoryInv, NEW t \in ThreadId, NEW ret \in PossibleRets(t), Return(t, ret)
    PROVE  HistoryInv'
<1>. DEFINE e == [call |-> "on_return", thread |-> t, ret |-> ret]
<1>1. /\ lin' = Lin!OnReturn(lin, t, ret) /\ seq' = Seq_!OnReturn(seq, t, ret)
      /\ recorded' = Append(recorded, e)
  BY DEF Return
<1>2. e.call = "on_return" /\ e.thread = t /\ e.ret = ret
  OBVIOUS
<1>. HIDE DEF e
<1>3. /\ IsSeq(recorded) /\ IsTester(lin) /\ IsTester(seq) /\ lin.init_ref_obj \in RefObj
      /\ seq.init_ref_obj = lin.init_ref_obj /\ lin.is_valid_history \in BOOLEAN
      /\ seq.is_valid_history \in BOOLEAN /\ seq.is_valid_history = lin.is_valid_history
      /\ WellFormed <=> lin.is_valid_history
  BY DEF HistoryInv, HistoryTypeOK
<1>4. Records(e) /\ IsSeq(recorded)'
  BY <1>1, <1>3, Recording
<1>5. LinTold(t, ret) /\ SeqTold(t, ret)
  BY <1>3, LinIsTold, SeqIsTold
<1>6. CASE ~lin.is_valid_history
  <2>1. lin' = lin /\ seq' = seq
    <3>1. Lin!OnReturn(lin, t, ret) = lin
      BY <1>3, <1>6, <1>5 DEF LinTold
    <3>2. Seq_!OnReturn(seq, t, ret) = seq
      BY <1>3, <1>6, <1>5 DEF SeqTold
    <3>. QED  BY <1>1, <3>1, <3>2
  <2>2. IsTester(lin)' /\ IsTester(seq)' /\ lin'.is_valid_history = FALSE /\ seq'.is_valid_history = FALSE
    BY <1>3, <1>6, <2>1
  <2>3. ~(WellFormed /\ (e.call = "on_return" <=> Waits(e.thread)))
    BY <1>3, <1>6
  <2>. QED  BY <1>4, <2>1, <2>2, <2>3, InvalidStays
<1>7. CASE lin.is_valid_history
  <2>1. PICK name, back : Kept(name, back)
    BY <1>7 DEF HistoryInv
  <2>2. /\ t \in DOMAIN lin.in_flight_by_thread <=> Waits(t)
        /\ t \in DOMAIN seq.in_flight_by_thread <=> Waits(t)
        /\ Waits(t) => Len(name[t]) = Len(back[t]) + 1
    BY <2>1, InFlightMeansWaits
  <2>3. CASE ~Waits(t)
    <3>1. /\ IsTester(lin)' /\ lin'.init_ref_obj = lin.init_ref_obj /\ lin'.is_valid_history = FALSE
      <4>1. TesterIs(Lin!OnReturn(lin, t, ret), lin.init_ref_obj, lin.history_by_thread, lin.in_flight_by_thread, FALSE)
        BY <1>3, <1>7, <2>2, <2>3, <1>5 DEF LinTold
      <4>. QED  BY <1>1, <4>1 DEF TesterIs
    <3>2. /\ IsTester(seq)' /\ seq'.init_ref_obj = seq.init_ref_obj /\ seq'.is_valid_history = FALSE
      <4>1. TesterIs(Seq_!OnReturn(seq, t, ret), seq.init_ref_obj, seq.history_by_thread, seq.in_flight_by_thread, FALSE)
        BY <1>3, <1>7, <2>2, <2>3, <1>5 DEF SeqTold
      <4>. QED  BY <1>1, <4>1 DEF TesterIs
    <3>3. ~(e.call = "on_return" <=> Waits(e.thread))
      BY <1>2, <2>3
    <3>. QED  BY <1>4, <3>1, <3>2, <3>3, InvalidStays
  <2>4. CASE Waits(t)
    <3>1. /\ IsTester(lin)' /\ lin'.init_ref_obj = lin.init_ref_obj
          /\ lin'.is_valid_history = lin.is_valid_history
          /\ lin'.history_by_thread = [lin.history_by_thread EXCEPT ![t] =
                Append(lin.history_by_thread[t],
                       [completed |-> lin.in_flight_by_thread[t].completed,
                        op |-> lin.in_flight_by_thread[t].op, ret |-> ret])]
          /\ lin'.in_flight_by_thread =
                [u \in DOMAIN lin.in_flight_by_thread \ {t} |-> lin.in_flight_by_thread[u]]
      <4>1. TesterIs(Lin!OnReturn(lin, t, ret), lin.init_ref_obj,
                     [lin.history_by_thread EXCEPT ![t] = Append(lin.history_by_thread[t],
                        [completed |-> lin.in_flight_by_thread[t].completed,
                         op |-> lin.in_flight_by_thread[t].op, ret |-> ret])],
                     [u \in DOMAIN lin.in_flight_by_thread \ {t} |-> lin.in_flight_by_thread[u]],
                     lin.is_valid_history)
        BY <1>3, <1>7, <2>2, <2>4, <1>5 DEF LinTold
      <4>. QED  BY <1>1, <4>1 DEF TesterIs
    <3>2. /\ IsTester(seq)' /\ seq'.init_ref_obj = seq.init_ref_obj
          /\ seq'.is_valid_history = seq.is_valid_history
          /\ seq'.history_by_thread = [seq.history_by_thread EXCEPT ![t] =
                Append(seq.history_by_thread[t], [op |-> seq.in_flight_by_thread[t], ret |-> ret])]
          /\ seq'.in_flight_by_thread =
                [u \in DOMAIN seq.in_flight_by_thread \ {t} |-> seq.in_flight_by_thread[u]]
      <4>1. TesterIs(Seq_!OnReturn(seq, t, ret), seq.init_ref_obj,
                     [seq.history_by_thread EXCEPT ![t] = Append(seq.history_by_thread[t],
                        [op |-> seq.in_flight_by_thread[t], ret |-> ret])],
                     [u \in DOMAIN seq.in_flight_by_thread \ {t} |-> seq.in_flight_by_thread[u]],
                     seq.is_valid_history)
        BY <1>3, <1>7, <2>2, <2>4, <1>5 DEF SeqTold
      <4>. QED  BY <1>1, <4>1 DEF TesterIs
    <3>3. /\ Tracks(name, back) /\ CallsOf(name, back) /\ Counted(name, back)
          /\ LinHolds(name, back) /\ SeqHolds(name, back)
          /\ Len(name[t]) = Len(back[t]) + 1
      BY <2>1, <2>2, <2>4 DEF Kept
    <3>4. back \in [ThreadId -> Seq(Nat)] /\ Len(recorded) + 1 \in Nat
      BY <3>3 DEF Tracks
    <3>5. PICK back2 \in [ThreadId -> Seq(Nat)] : IsExtended(back, t, Len(recorded) + 1, back2)
      BY <3>4, Extended
    <3>6. Tracks(name, back2)'
      BY <1>2, <1>4, <3>3, <3>5, ReturnIsTracked
    <3>7. CallsOf(name, back2)'
      <4>1. \A k \in Invocations : recorded[k].op \in Ops(lin.init_ref_obj)
        BY <1>7 DEF HistoryInv
      <4>2. IsRet(e.ret)
        BY <1>2, <1>3, <3>3, <4>1, AnswersAreRets
      <4>. QED  BY <1>4, <3>3, <3>5, <4>2, CallsOfMore
    <3>8. Counted(name, back2)'
      BY <1>2, <1>4, <3>3, <3>5, CountedMore
    <3>9. LinHolds(name, back2)'
      BY <1>2, <1>4, <3>1, <3>3, <3>5, LinHoldsReturn
    <3>10. SeqHolds(name, back2)'
      BY <1>2, <1>4, <3>2, <3>3, <3>5, SeqHoldsReturn
    <3>11. Kept(name, back2)'
      BY <3>6, <3>7, <3>8, <3>9, <3>10 DEF Kept
    <3>12. (e.call = "on_return" <=> Waits(e.thread)) /\ ~(e.call = "on_invoke")
      BY <1>2, <2>4
    <3>. QED  BY <1>4, <1>7, <3>1, <3>2, <3>11, <3>12, ValidStays
  <2>. QED  BY <2>3, <2>4
<1>. QED  BY <1>6, <1>7

(***************************************************************************)
(* The testers of linearizability.rs and sequential_consistency.rs are     *)
(* valid as long as every thread invokes and returns in turn, and then     *)
(* they keep every operation, with the indices of what it must follow.     *)
(***************************************************************************)
THEOREM HistoryInvHolds == HistorySpec => []HistoryInv
<1>1. HistoryInit => HistoryInv
  BY HistoryInvHoldsAtFirst
<1>2. HistoryInv /\ [HistoryNext]_testers => HistoryInv'
  <2>1. SUFFICES ASSUME HistoryInv, [HistoryNext]_testers PROVE HistoryInv'
    OBVIOUS
  <2>2. CASE UNCHANGED testers
    <3>1. lin' = lin /\ seq' = seq /\ recorded' = recorded
      BY <2>2 DEF testers
    <3>2. WellFormed' <=> WellFormed
      BY <3>1 DEF WellFormed
    <3>3. Invocations' = Invocations /\ HistoryTypeOK'
      BY <2>1, <3>1 DEF Invocations, HistoryInv, HistoryTypeOK
    <3>4. ASSUME NEW name, NEW back, Kept(name, back)
          PROVE  Kept(name, back)'
      <4>1. Tracks(name, back)'
        <5>1. Tracks(name, back)
          BY <3>4 DEF Kept
        <5>2. \A call, t, k : IsCallOf(call, t, k)' <=> IsCallOf(call, t, k)
          BY <3>1 DEF IsCallOf
        <5>. QED  BY <3>1, <5>1, <5>2 DEF Tracks
      <4>2. CallsOf(name, back)'
        BY <3>1, <3>4, Zenon DEF Kept, CallsOf
      <4>3. Counted(name, back)'
        BY <3>1, <3>4 DEF Kept, Counted, CallsBy
      <4>4. LinFlies(name, back)' /\ LinKeeps(name, back)'
        BY <3>1, <3>4, Zenon DEF Kept, LinHolds, LinFlies, LinKeeps
      <4>5. SeqFlies(name, back)' /\ SeqKeeps(name, back)'
        BY <3>1, <3>4, Zenon DEF Kept, SeqHolds, SeqFlies, SeqKeeps
      <4>. QED  BY <4>1, <4>2, <4>3, <4>4, <4>5 DEF Kept, LinHolds, SeqHolds
    <3>. QED  BY <2>1, <3>1, <3>2, <3>3, <3>4 DEF HistoryInv
  <2>3. ASSUME NEW t \in ThreadId, NEW op \in Ops(lin.init_ref_obj), Invoke(t, op)
        PROVE  HistoryInv'
    BY <2>1, <2>3, InvokeKeepsHistory
  <2>4. ASSUME NEW t \in ThreadId, NEW ret \in PossibleRets(t), Return(t, ret)
        PROVE  HistoryInv'
    BY <2>1, <2>4, ReturnKeepsHistory
  <2>. QED  BY <2>1, <2>2, <2>3, <2>4 DEF HistoryNext
<1>. QED  BY <1>1, <1>2, PTL DEF HistorySpec

\* The answers of the testers follow from what they keep.
LEMMA TestersDecide ==
    ASSUME HistoryInv
    PROVE  LinearizabilityIsDecided /\ SequentialConsistencyIsDecided
<1>1. CASE ~lin.is_valid_history
  <2>1. ~WellFormed /\ ~seq.is_valid_history
    BY <1>1 DEF HistoryInv, HistoryTypeOK
  <2>2. ~Lin!IsConsistent(lin)
    BY <1>1 DEF Lin!IsConsistent, Lin!SerializedHistories
  <2>3. ~Seq_!IsConsistent(seq)
    BY <2>1 DEF Seq_!IsConsistent, Seq_!SerializedHistories
  <2>. QED  BY <2>1, <2>2, <2>3 DEF LinearizabilityIsDecided, SequentialConsistencyIsDecided
<1>2. CASE lin.is_valid_history
  <2>1. PICK name, back : Kept(name, back)
    BY <1>2 DEF HistoryInv
  <2>2. /\ Tracks(name, back) /\ CallsOf(name, back)
        /\ LinHolds(name, back) /\ SeqHolds(name, back)
        /\ WellFormed /\ seq.is_valid_history /\ seq.init_ref_obj = lin.init_ref_obj
    BY <1>2, <2>1 DEF Kept, HistoryInv, HistoryTypeOK
  <2>3. LinearizabilityIsDecided
    <3>. DEFINE H == RecordedHistory(name, back, RealTime)
    <3>1. IsHistory(H)
      BY <2>2, TrackedIsHistory
    <3>2. LinKnows(H)
      BY <2>2, LinKnowsRealTime
    <3>3. IsExplained(RealTime) <=> IsSerializable(H)
      BY <2>2, ExplainedMeansSerializable
    <3>. HIDE DEF H
    <3>4. Lin!IsConsistent(lin) <=> lin.is_valid_history /\ IsSerializable(H)
      BY <3>1, <3>2, LinDecides
    <3>. QED  BY <1>2, <2>2, <3>3, <3>4 DEF LinearizabilityIsDecided, Linearizable
  <2>4. SequentialConsistencyIsDecided
    <3>. DEFINE H == RecordedHistory(name, back, ProgramOrder)
    <3>1. IsHistory(H)
      BY <2>2, TrackedIsHistory
    <3>2. SeqKnows(H) /\ KeepsThreads(H)
      BY <2>2, SeqKnowsProgramOrder
    <3>3. IsExplained(ProgramOrder) <=> IsSerializable(H)
      BY <2>2, ExplainedMeansSerializable
    <3>. HIDE DEF H
    <3>4. Seq_!IsConsistent(seq) <=> seq.is_valid_history /\ IsSerializable(H)
      BY <3>1, <3>2, SeqDecides
    <3>. QED  BY <2>2, <3>3, <3>4 DEF SequentialConsistencyIsDecided, SequentiallyConsistent
  <2>. QED  BY <2>3, <2>4
<1>. QED  BY <1>1, <1>2

(***************************************************************************)
(* LinearizabilityTester (linearizability.rs) accepts exactly the          *)
(* well-formed histories that are linearizable, of any number of threads   *)
(* and calls: the indices it keeps amount to real time, and its search     *)
(* finds an order if there is one.                                         *)
(***************************************************************************)
THEOREM LinearizabilityIsDecidedAlways == HistorySpec => []LinearizabilityIsDecided
<1>1. HistoryInv => LinearizabilityIsDecided
  BY TestersDecide
<1>. QED  BY <1>1, HistoryInvHolds, PTL

(***************************************************************************)
(* SequentialConsistencyTester (sequential_consistency.rs) accepts exactly *)
(* the well-formed histories that are sequentially consistent.             *)
(***************************************************************************)
THEOREM SequentialConsistencyIsDecidedAlways == HistorySpec => []SequentialConsistencyIsDecided
<1>1. HistoryInv => SequentialConsistencyIsDecided
  BY TestersDecide
<1>. QED  BY <1>1, HistoryInvHolds, PTL

=============================================================================
