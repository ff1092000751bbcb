----------------------------- MODULE DataLemmas -----------------------------
(***************************************************************************)
(* Facts about the data that the state machines are made of: induction and *)
(* recursion over numbers, what is taken of a sequence (Subsequences), and *)
(* what the operations of a vector clock do to its elements (VClock).      *)
(***************************************************************************)
EXTENDS VClock, Subsequences, WellFoundedInduction, FiniteSetTheorems, TLAPS

-----------------------------------------------------------------------------
(* Induction and recursion                                                 *)

\* No sequence of numbers decreases forever.
LEMMA LessIsWellFounded ==
    \E R : IsWellFoundedOn(R, Nat) /\ \A i, j \in Nat : i < j => <<i, j>> \in R
<1>1. \A i, j \in Nat : i < j => <<i, j>> \in OpToRel(<, Nat)
  BY DEF OpToRel
<1>. QED  BY <1>1, NatLessThanWellFounded, Zenon

\* A set of numbers that is not empty has a least element.
LEMMA Least ==
    ASSUME NEW S \in SUBSET Nat, S # {}
    PROVE  \E x \in S : \A y \in S : x <= y
<1>1. PICK R : IsWellFoundedOn(R, Nat) /\ \A i, j \in Nat : i < j => <<i, j>> \in R
  BY LessIsWellFounded
<1>2. S \subseteq Nat
  OBVIOUS
<1>3. PICK x \in S : \A y \in S : ~(<<y, x>> \in R)
  <2>1. IsWellFoundedOn(R, Nat)
    BY <1>1
  <2>. QED  BY <2>1, <1>2, WFMin, Zenon
<1>4. ASSUME NEW y \in S PROVE x <= y
  <2>1. ~(y < x)
    BY <1>1, <1>2, <1>3, Zenon
  <2>. QED  BY <2>1, <1>2, SMT
<1>. QED  BY <1>4

(***************************************************************************)
(* Induction up to n.  A set in the place of the predicate keeps it first  *)
(* order: to prove P(k) for every k, take S to be the k that satisfy it.   *)
(***************************************************************************)
LEMMA Induction ==
    ASSUME NEW n \in Nat, NEW S, 0 \in S,
           \A k \in 0 .. n - 1 : k \in S => k + 1 \in S
    PROVE  0 .. n \subseteq S
<1>. DEFINE Rest == (0 .. n) \ S
<1>. SUFFICES ASSUME Rest # {} PROVE FALSE
  OBVIOUS
<1>1. PICK x \in Rest : \A y \in Rest : x <= y
  <2>1. Rest \in SUBSET Nat /\ Rest # {}
    OBVIOUS
  <2>. HIDE DEF Rest
  <2>. QED  BY <2>1, Least
<1>2. x - 1 \in 0 .. n - 1 /\ x - 1 \in S
  BY <1>1
<1>. QED  BY <1>1, <1>2

\* f is computed by taking one step for every number up to n.
Iterates(n, V, first, step, f) ==
    /\ f \in [0 .. n -> V]
    /\ f[0] = first
    /\ \A k \in 1 .. n : f[k] = step[k][f[k - 1]]

\* There is a step for every number and every value.
StepsUpTo(n, V) == [1 .. n -> [V -> V]]

(***************************************************************************)
(* A function that is defined by recursion from each number to the next:   *)
(* if there is a step for every number and value, there is a function.     *)
(***************************************************************************)
LEMMA Iteration ==
    ASSUME NEW n \in Nat, NEW V, NEW first \in V, NEW step \in StepsUpTo(n, V)
    PROVE  \E f : Iterates(n, V, first, step, f)
<1>. DEFINE Upto(m, f) == f[0] = first /\ \A k \in 1 .. m : f[k] = step[k][f[k - 1]]
            S == {m \in 0 .. n : \E f \in [0 .. n -> V] : Upto(m, f)}
<1>1. 0 \in S
  <2>. DEFINE f == [k \in 0 .. n |-> first]
  <2>1. f \in [0 .. n -> V] /\ Upto(0, f)
    OBVIOUS
  <2>. HIDE DEF f, Upto
  <2>. QED  BY <2>1
<1>2. ASSUME NEW k \in 0 .. n - 1, k \in S
      PROVE  k + 1 \in S
  <2>1. PICK f \in [0 .. n -> V] : Upto(k, f)
    BY <1>2
  <2>. DEFINE g == [f EXCEPT ![k + 1] = step[k + 1][f[k]]]
  <2>2. step[k + 1][f[k]] \in V
    BY <1>2 DEF StepsUpTo
  <2>3. g \in [0 .. n -> V]
    BY <2>2
  <2>4. g[0] = first
    BY <2>1
  <2>5. ASSUME NEW l \in 1 .. k + 1
        PROVE  g[l] = step[l][g[l - 1]]
    BY <1>2, <2>1
  <2>6. Upto(k + 1, g)
    BY <2>4, <2>5
  <2>7. k + 1 \in 0 .. n
    BY <1>2
  <2>. HIDE DEF g, Upto
  <2>. QED  BY <2>3, <2>6, <2>7
<1>3. n \in S
  <2>. HIDE DEF S
  <2>1. 0 .. n \subseteq S
    BY <1>1, <1>2, Induction
  <2>. QED  BY <2>1
<1>. QED  BY <1>3 DEF Iterates

-----------------------------------------------------------------------------
(* Subsequences                                                            *)

\* upto[k] is the subsequence of the first k elements.
Takes(s, I, upto) ==
    upto = [k \in 0 .. Len(s) |->
              IF k = 0 THEN << >>
              ELSE IF k \in I THEN Append(upto[k - 1], s[k]) ELSE upto[k - 1]]

\* How such a function grows, step by step.
LEMMA TakesEachStep ==
    ASSUME NEW V, NEW s \in Seq(V), NEW I, NEW upto, Takes(s, I, upto)
    PROVE  /\ DOMAIN upto = 0 .. Len(s)
           /\ upto[0] = << >>
           /\ \A k \in 1 .. Len(s) :
                 upto[k] = IF k \in I THEN Append(upto[k - 1], s[k]) ELSE upto[k - 1]
<1>. DEFINE body(k) == IF k = 0 THEN << >>
                       ELSE IF k \in I THEN Append(upto[k - 1], s[k]) ELSE upto[k - 1]
<1>1. upto = [k \in 0 .. Len(s) |-> body(k)]
  BY Zenon DEF Takes
<1>4. Len(s) \in Nat
  OBVIOUS
<1>. HIDE DEF body
<1>2. DOMAIN upto = 0 .. Len(s) /\ \A k \in 0 .. Len(s) : upto[k] = body(k)
  BY <1>1
<1>3. 0 \in 0 .. Len(s) /\ \A k \in 1 .. Len(s) : k \in 0 .. Len(s) /\ k # 0
  BY <1>4
<1>. QED  BY <1>2, <1>3 DEF body

\* There is such a function, and a subsequence is its last value.
LEMMA SubsequenceIsDefined ==
    ASSUME NEW V, NEW s \in Seq(V), NEW I
    PROVE  \E upto \in [0 .. Len(s) -> Seq(V)] :
              Takes(s, I, upto) /\ Subsequence(s, I) = upto[Len(s)]
<1>. DEFINE n == Len(s)
            W == Seq(V)
            none == << >>
            step == [k \in 1 .. n |-> [t \in W |-> IF k \in I THEN Append(t, s[k]) ELSE t]]
<1>1. n \in Nat /\ none \in W /\ \A k \in 1 .. n, t \in W : Append(t, s[k]) \in W
  OBVIOUS
<1>. HIDE DEF n, W, none
<1>2. step \in StepsUpTo(n, W)
  BY <1>1 DEF StepsUpTo
<1>3. \A k \in 1 .. n : \A t \in W : step[k][t] = IF k \in I THEN Append(t, s[k]) ELSE t
  OBVIOUS
<1>. HIDE DEF step
<1>4. PICK f \in [0 .. n -> W] : f[0] = none /\ \A k \in 1 .. n : f[k] = step[k][f[k - 1]]
  <2>1. none \in W /\ n \in Nat
    BY <1>1
  <2>2. PICK f : Iterates(n, W, none, step, f)
    BY <2>1, <1>2, Iteration, Zenon
  <2>. QED  BY <2>2 DEF Iterates
<1>5. \A k \in 1 .. n : f[k] = IF k \in I THEN Append(f[k - 1], s[k]) ELSE f[k - 1]
  <2>1. \A k \in 1 .. n : f[k - 1] \in W
    BY <1>1
  <2>. QED  BY <1>3, <1>4, <2>1
<1>6. Takes(s, I, f)
  <2>1. \A k \in 0 .. n : f[k] = IF k = 0 THEN none
                               ELSE IF k \in I THEN Append(f[k - 1], s[k]) ELSE f[k - 1]
    <3>1. \A k \in 0 .. n : k # 0 => k \in 1 .. n
      BY <1>1
    <3>. QED  BY <3>1, <1>4, <1>5
  <2>2. f = [k \in 0 .. n |-> f[k]]
    OBVIOUS
  <2>3. f = [k \in 0 .. n |-> IF k = 0 THEN none
                               ELSE IF k \in I THEN Append(f[k - 1], s[k]) ELSE f[k - 1]]
    BY <2>1, <2>2, Zenon
  <2>. QED  BY <2>3, Zenon DEF Takes, n, none
<1>7. PICK upto : Takes(s, I, upto) /\ Subsequence(s, I) = upto[n]
  BY <1>6 DEF Takes, Subsequence, n
<1>8. /\ DOMAIN upto = 0 .. n
      /\ upto[0] = none
      /\ \A k \in 1 .. n :
            upto[k] = IF k \in I THEN Append(upto[k - 1], s[k]) ELSE upto[k - 1]
  BY <1>7, TakesEachStep DEF n, none
<1>9. upto \in [0 .. n -> W]
  <2>. DEFINE S == {k \in 0 .. n : upto[k] \in W}
  <2>1. 0 \in S
    BY <1>1, <1>8
  <2>2. ASSUME NEW k \in 0 .. n - 1, k \in S
        PROVE  k + 1 \in S
    <3>1. k + 1 \in 1 .. n /\ (k + 1) - 1 = k /\ k + 1 \in 0 .. n
      BY <1>1
    <3>2. upto[k + 1] = IF k + 1 \in I THEN Append(upto[k], s[k + 1]) ELSE upto[k]
      BY <1>8, <3>1
    <3>. QED  BY <1>1, <2>2, <3>1, <3>2
  <2>3. 0 .. n \subseteq S
    <3>. HIDE DEF S
    <3>. QED  BY <1>1, <2>1, <2>2, Induction
  <2>4. upto = [k \in 0 .. n |-> upto[k]]
    BY <1>7 DEF Takes, n
  <2>. QED  BY <2>3, <2>4
<1>. QED  BY <1>7, <1>9 DEF n, W

\* The first k elements decide what is taken of them.
LEMMA TakesAgree ==
    ASSUME NEW V, NEW s \in Seq(V), NEW t \in Seq(V), NEW I, NEW J, NEW f, NEW g,
           Takes(s, I, f), Takes(t, J, g),
           NEW n \in Nat, n <= Len(s), n <= Len(t),
           \A k \in 1 .. n : s[k] = t[k] /\ (k \in I <=> k \in J)
    PROVE  \A k \in 0 .. n : f[k] = g[k]
<1>. DEFINE S == {k \in 0 .. n : f[k] = g[k]}
<1>1. Len(s) \in Nat /\ Len(t) \in Nat
  OBVIOUS
<1>2. /\ f[0] = << >> /\ g[0] = << >>
      /\ \A k \in 1 .. n : f[k] = IF k \in I THEN Append(f[k - 1], s[k]) ELSE f[k - 1]
      /\ \A k \in 1 .. n : g[k] = IF k \in J THEN Append(g[k - 1], t[k]) ELSE g[k - 1]
  <2>1. \A k \in 1 .. n : k \in 1 .. Len(s) /\ k \in 1 .. Len(t)
    BY <1>1
  <2>. QED  BY <2>1, TakesEachStep
<1>3. 0 \in S
  BY <1>2
<1>4. ASSUME NEW k \in 0 .. n - 1, k \in S PROVE k + 1 \in S
  <2>1. k + 1 \in 1 .. n /\ (k + 1) - 1 = k /\ k + 1 \in 0 .. n
    OBVIOUS
  <2>. QED  BY <1>2, <1>4, <2>1
<1>. QED
  <2>. HIDE DEF S
  <2>1. 0 .. n \subseteq S
    BY <1>3, <1>4, Induction
  <2>. QED  BY <2>1 DEF S

\* A subsequence is one of the same elements.
LEMMA SubsequenceIsSeq ==
    ASSUME NEW V, NEW s \in Seq(V), NEW I
    PROVE  Subsequence(s, I) \in Seq(V)
<1>1. Len(s) \in 0 .. Len(s)
  OBVIOUS
<1>. QED  BY <1>1, SubsequenceIsDefined

\* Nothing is taken where nothing is chosen, or nothing is.
LEMMA SubsequenceOfNone ==
    ASSUME NEW V, NEW s \in Seq(V), NEW I, \A k \in 1 .. Len(s) : k \notin I
    PROVE  Subsequence(s, I) = << >>
<1>. DEFINE n == Len(s)
<1>1. PICK f : Takes(s, I, f) /\ Subsequence(s, I) = f[n]
  BY SubsequenceIsDefined
<1>2. f[0] = << >> /\ \A k \in 1 .. n : f[k] = f[k - 1]
  BY <1>1, TakesEachStep
<1>3. n \in Nat
  OBVIOUS
<1>. HIDE DEF n
<1>. DEFINE S == {k \in 0 .. n : f[k] = << >>}
<1>4. 0 \in S
  BY <1>2, <1>3
<1>5. ASSUME NEW k \in 0 .. n - 1, k \in S PROVE k + 1 \in S
  <2>1. k + 1 \in 1 .. n /\ (k + 1) - 1 = k /\ k + 1 \in 0 .. n
    BY <1>3
  <2>. QED  BY <1>2, <1>5, <2>1
<1>6. n \in S
  <2>. HIDE DEF S
  <2>1. 0 .. n \subseteq S
    BY <1>3, <1>4, <1>5, Induction
  <2>. QED  BY <2>1, <1>3
<1>. QED  BY <1>1, <1>6

\* Equal choices among equal elements take the same.
LEMMA SubsequenceAgrees ==
    ASSUME NEW V, NEW s \in Seq(V), NEW t \in Seq(V), NEW I, NEW J, Len(s) = Len(t),
           \A k \in 1 .. Len(s) : s[k] = t[k] /\ (k \in I <=> k \in J)
    PROVE  Subsequence(s, I) = Subsequence(t, J)
<1>. DEFINE n == Len(s)
<1>1. PICK f : Takes(s, I, f) /\ Subsequence(s, I) = f[n]
  BY SubsequenceIsDefined
<1>2. PICK g : Takes(t, J, g) /\ Subsequence(t, J) = g[n]
  BY SubsequenceIsDefined
<1>3. n \in Nat /\ n <= Len(t) /\ n <= Len(s)
  OBVIOUS
<1>4. \A k \in 1 .. n : s[k] = t[k] /\ (k \in I <=> k \in J)
  OBVIOUS
<1>5. \A k \in 0 .. n : f[k] = g[k]
  BY <1>1, <1>2, <1>3, <1>4, TakesAgree
<1>. QED  BY <1>1, <1>2, <1>3, <1>5

\* Sequences of the same elements are the same.
LEMMA SameElements ==
    ASSUME NEW V, NEW a \in Seq(V), NEW b \in Seq(V), Len(a) = Len(b),
           \A k \in 1 .. Len(a) : a[k] = b[k]
    PROVE  a = b
OBVIOUS

\* An element can be appended before or after two sequences are joined.
LEMMA AppendToConcatenation ==
    ASSUME NEW V, NEW a \in Seq(V), NEW b \in Seq(V), NEW e \in V
    PROVE  Append(a \o b, e) = a \o Append(b, e)
OBVIOUS

\* The sequence x is a followed by b.
Begins(x, a, b) == x = a \o b

\* One element more at the end leaves the beginning.
LEMMA BeginsAppended ==
    ASSUME NEW V, NEW x, NEW a \in Seq(V), NEW b \in Seq(V), NEW e \in V, Begins(x, a, b)
    PROVE  Begins(Append(x, e), a, Append(b, e))
<1>1. Append(a \o b, e) = a \o Append(b, e)
  OBVIOUS
<1>2. x = a \o b
  BY DEF Begins
<1>. QED  BY <1>1, <1>2, Zenon DEF Begins

\* The first element that is taken, and those after it.
LEMMA SubsequenceStarts ==
    ASSUME NEW V, NEW s \in Seq(V), NEW I, NEW k \in 1 .. Len(s), k \in I,
           \A l \in 1 .. k - 1 : l \notin I
    PROVE  Begins(Subsequence(s, I), << s[k] >>, Subsequence(s, I \ {k}))
<1>. DEFINE n == Len(s)
            J == I \ {k}
            first == << s[k] >>
<1>1. PICK f \in [0 .. n -> Seq(V)] : Takes(s, I, f) /\ Subsequence(s, I) = f[n]
  BY SubsequenceIsDefined
<1>2. PICK g \in [0 .. n -> Seq(V)] : Takes(s, J, g) /\ Subsequence(s, J) = g[n]
  BY SubsequenceIsDefined
<1>3. /\ f[0] = << >>
      /\ \A l \in 1 .. n : f[l] = IF l \in I THEN Append(f[l - 1], s[l]) ELSE f[l - 1]
  BY <1>1, TakesEachStep
<1>4. /\ g[0] = << >>
      /\ \A l \in 1 .. n : g[l] = IF l \in J THEN Append(g[l - 1], s[l]) ELSE g[l - 1]
  BY <1>2, TakesEachStep
<1>5. n \in Nat /\ k \in Nat /\ first \in Seq(V) /\ \A l \in 1 .. n : s[l] \in V
  OBVIOUS
<1>. DEFINE S == {m \in 0 .. n : IF m < k THEN f[m] = << >> /\ g[m] = << >>
                                 ELSE Begins(f[m], first, g[m])}
<1>6. 0 \in S
  BY <1>3, <1>4, <1>5
<1>7. ASSUME NEW m \in 0 .. n - 1, m \in S
      PROVE  m + 1 \in S
  <2>1. m + 1 \in 1 .. n /\ (m + 1) - 1 = m /\ m + 1 \in 0 .. n /\ m \in 0 .. n
    BY <1>5
  <2>2. /\ f[m + 1] = IF m + 1 \in I THEN Append(f[m], s[m + 1]) ELSE f[m]
        /\ g[m + 1] = IF m + 1 \in J THEN Append(g[m], s[m + 1]) ELSE g[m]
        /\ g[m] \in Seq(V) /\ s[m + 1] \in V
    BY <1>3, <1>4, <1>5, <2>1
  <2>3. CASE m + 1 < k
    <3>1. m + 1 \in 1 .. k - 1 /\ m < k
      BY <1>5, <2>1, <2>3
    <3>. QED  BY <1>7, <2>1, <2>2, <2>3, <3>1
  <2>4. CASE m + 1 = k
    <3>1. m < k /\ f[m] = << >> /\ g[m] = << >>
      BY <1>5, <1>7, <2>4
    <3>2. f[m + 1] = first /\ g[m + 1] = << >>
      BY <2>2, <2>4, <3>1
    <3>3. first = first \o << >>
      BY <1>5
    <3>4. ~(m + 1 < k) /\ Begins(f[m + 1], first, g[m + 1])
      BY <1>5, <2>4, <3>2, <3>3 DEF Begins
    <3>. QED  BY <2>1, <3>4
  <2>5. CASE m + 1 > k
    <3>1. ~(m < k) /\ ~(m + 1 < k) /\ Begins(f[m], first, g[m]) /\ (m + 1 \in I <=> m + 1 \in J)
      BY <1>5, <1>7, <2>1, <2>5
    <3>2. Begins(Append(f[m], s[m + 1]), first, Append(g[m], s[m + 1]))
      BY <1>5, <2>2, <3>1, BeginsAppended
    <3>3. Begins(f[m + 1], first, g[m + 1])
      BY <2>2, <3>1, <3>2
    <3>. QED  BY <2>1, <3>1, <3>3
  <2>. QED  BY <1>5, <2>1, <2>3, <2>4, <2>5
<1>. HIDE DEF S
<1>8. 0 .. n \subseteq S
  BY <1>5, <1>6, <1>7, Induction
<1>9. n \in 0 .. n /\ ~(n < k)
  BY <1>5
<1>. QED  BY <1>1, <1>2, <1>8, <1>9 DEF S, Begins

\* The last place of a sequence comes last in what is taken of it.
LEMMA SubsequenceOfAppend ==
    ASSUME NEW V, NEW s \in Seq(V), NEW e \in V, NEW I
    PROVE  Subsequence(Append(s, e), I) =
              IF Len(s) + 1 \in I THEN Append(Subsequence(s, I), e) ELSE Subsequence(s, I)
<1>. DEFINE n == Len(s)
            t == Append(s, e)
<1>0. /\ n \in Nat /\ t \in Seq(V) /\ Len(t) = n + 1 /\ t[n + 1] = e
      /\ n <= Len(s) /\ n <= Len(t)
      /\ \A k \in 1 .. n : s[k] = t[k]
  OBVIOUS
<1>. HIDE DEF t
<1>1. PICK f : Takes(s, I, f) /\ Subsequence(s, I) = f[n]
  BY SubsequenceIsDefined
<1>2. PICK g : Takes(t, I, g) /\ Subsequence(t, I) = g[n + 1]
  BY <1>0, SubsequenceIsDefined
<1>3. \A k \in 0 .. n : f[k] = g[k]
  BY <1>0, <1>1, <1>2, TakesAgree
<1>4. f[n] = g[n]
  BY <1>0, <1>3
<1>5. \A k \in 1 .. n + 1 : g[k] = IF k \in I THEN Append(g[k - 1], t[k]) ELSE g[k - 1]
  BY <1>0, <1>2, TakesEachStep
<1>6. g[n + 1] = IF n + 1 \in I THEN Append(g[n], e) ELSE g[n]
  <2>1. n + 1 \in 1 .. n + 1 /\ (n + 1) - 1 = n
    BY <1>0
  <2>. QED  BY <1>0, <1>5, <2>1
<1>. QED  BY <1>1, <1>2, <1>4, <1>6 DEF t

\* How many of the places up to k are in I.
LEMMA Counting ==
    ASSUME NEW I, NEW k \in Nat
    PROVE  /\ CountUpTo(I, k) \in Nat
           /\ CountUpTo(I, 0) = 0
           /\ CountUpTo(I, k + 1) = CountUpTo(I, k) + IF k + 1 \in I THEN 1 ELSE 0
<1>. DEFINE C(l) == {m \in 1 .. l : m \in I}
<1>1. IsFiniteSet(1 .. k)
  BY FS_Interval
<1>2. IsFiniteSet(C(k)) /\ Cardinality(C(k)) \in Nat
  <2>1. C(k) \subseteq 1 .. k
    OBVIOUS
  <2>2. IsFiniteSet(C(k))
    BY <1>1, <2>1, FS_Subset
  <2>. QED  BY <2>2, FS_CardinalityType
<1>3. Cardinality(C(0)) = 0
  <2>1. C(0) = {}
    OBVIOUS
  <2>. QED  BY <2>1, FS_EmptySet
<1>4. CASE k + 1 \in I
  <2>1. C(k + 1) = C(k) \cup {k + 1} /\ k + 1 \notin C(k)
    BY <1>4
  <2>2. Cardinality(C(k) \cup {k + 1}) = Cardinality(C(k)) + 1
    BY <1>2, <2>1, FS_AddElement
  <2>. QED  BY <1>2, <1>3, <1>4, <2>1, <2>2 DEF CountUpTo
<1>5. CASE k + 1 \notin I
  <2>1. C(k + 1) = C(k)
    BY <1>5
  <2>. QED  BY <1>2, <1>3, <1>5, <2>1 DEF CountUpTo
<1>. QED  BY <1>4, <1>5

(***************************************************************************)
(* The element at the n-th place that is chosen is the n-th that is taken, *)
(* and no others are.                                                      *)
(***************************************************************************)
LEMMA SubsequenceElements ==
    ASSUME NEW V, NEW s \in Seq(V), NEW I
    PROVE  LET Nth(l) == CountUpTo(I, l)
           IN  /\ Len(Subsequence(s, I)) = Nth(Len(s))
               /\ \A l \in 1 .. Len(s) : l \in I =>
                     /\ Nth(l) \in 1 .. Len(Subsequence(s, I))
                     /\ Subsequence(s, I)[Nth(l)] = s[l]
               /\ \A k \in 1 .. Len(Subsequence(s, I)) :
                     \E l \in 1 .. Len(s) : l \in I /\ Nth(l) = k
<1>. DEFINE n == Len(s)
            W == Seq(V)
            Nth(l) == CountUpTo(I, l)
<1>1. PICK f : f \in [0 .. n -> W] /\ Takes(s, I, f) /\ Subsequence(s, I) = f[n]
  BY SubsequenceIsDefined
<1>2. n \in Nat /\ \A k \in 1 .. n : s[k] \in V
  OBVIOUS
<1>3. f[0] = << >> /\ \A k \in 1 .. n : f[k] = IF k \in I THEN Append(f[k - 1], s[k]) ELSE f[k - 1]
  BY <1>1, TakesEachStep
<1>4. /\ \A k \in Nat : Nth(k) \in Nat
      /\ Nth(0) = 0
      /\ \A k \in Nat : Nth(k + 1) = Nth(k) + IF k + 1 \in I THEN 1 ELSE 0
  <2>1. ASSUME NEW k \in Nat
        PROVE  /\ Nth(k) \in Nat /\ Nth(0) = 0
               /\ Nth(k + 1) = Nth(k) + IF k + 1 \in I THEN 1 ELSE 0
    BY Counting
  <2>2. 0 \in Nat
    OBVIOUS
  <2>. HIDE DEF Nth
  <2>. QED  BY <2>1, <2>2
<1>. HIDE DEF n, Nth
<1>5. \A k \in 0 .. n : f[k] \in Seq(V)
  BY <1>1
<1>. DEFINE P(k) == /\ Len(f[k]) = Nth(k)
                    /\ \A l \in 1 .. k : l \in I => Nth(l) \in 1 .. Nth(k) /\ f[k][Nth(l)] = s[l]
                    /\ \A j \in 1 .. Nth(k) : \E l \in 1 .. k : l \in I /\ Nth(l) = j
            S == {k \in 0 .. n : P(k)}
<1>6. 0 \in S
  <2>1. 0 \in 0 .. n /\ 1 .. 0 = {} /\ Len(f[0]) = 0
    BY <1>2, <1>3
  <2>2. P(0)
    BY <1>4, <2>1
  <2>. QED  BY <2>1, <2>2
<1>7. ASSUME NEW k \in 0 .. n - 1, k \in S PROVE k + 1 \in S
  <2>1. /\ k + 1 \in 1 .. n /\ (k + 1) - 1 = k /\ k + 1 \in 0 .. n /\ k \in Nat /\ k \in 0 .. n
        /\ f[k] \in Seq(V) /\ s[k + 1] \in V
    BY <1>2, <1>5
  <2>2. f[k + 1] = IF k + 1 \in I THEN Append(f[k], s[k + 1]) ELSE f[k]
    BY <1>3, <2>1
  <2>3. P(k)
    BY <1>7
  <2>4. Nth(k) \in Nat /\ Nth(k + 1) = Nth(k) + IF k + 1 \in I THEN 1 ELSE 0
    BY <1>4, <2>1
  <2>5. CASE k + 1 \in I
    <3>1. Len(f[k + 1]) = Nth(k + 1) /\ Nth(k + 1) = Nth(k) + 1
      BY <2>1, <2>2, <2>3, <2>4, <2>5
    <3>2. ASSUME NEW l \in 1 .. k + 1, l \in I
          PROVE  Nth(l) \in 1 .. Nth(k + 1) /\ f[k + 1][Nth(l)] = s[l]
      <4>1. CASE l = k + 1
        <5>1. f[k + 1][Nth(k) + 1] = s[k + 1]
          BY <2>1, <2>2, <2>3, <2>4, <2>5
        <5>. QED  BY <2>4, <3>1, <4>1, <5>1
      <4>2. CASE l # k + 1
        <5>1. l \in 1 .. k
          BY <2>1, <4>2
        <5>2. Nth(l) \in 1 .. Nth(k) /\ f[k][Nth(l)] = s[l]
          BY <2>3, <3>2, <5>1
        <5>3. f[k + 1][Nth(l)] = f[k][Nth(l)]
          BY <2>1, <2>2, <2>3, <2>4, <2>5, <5>2
        <5>. QED  BY <2>4, <3>1, <5>2, <5>3
      <4>. QED  BY <4>1, <4>2
    <3>3. ASSUME NEW j \in 1 .. Nth(k + 1)
          PROVE  \E l \in 1 .. k + 1 : l \in I /\ Nth(l) = j
      <4>1. CASE j = Nth(k + 1)
        BY <2>1, <2>5, <4>1
      <4>2. CASE j # Nth(k + 1)
        <5>1. j \in 1 .. Nth(k)
          BY <2>4, <3>1, <4>2
        <5>2. PICK l \in 1 .. k : l \in I /\ Nth(l) = j
          BY <2>3, <5>1
        <5>. QED  BY <2>1, <5>2
      <4>. QED  BY <4>1, <4>2
    <3>. QED  BY <2>1, <3>1, <3>2, <3>3
  <2>6. CASE k + 1 \notin I
    <3>1. f[k + 1] = f[k] /\ Nth(k + 1) = Nth(k)
      BY <2>2, <2>4, <2>6
    <3>2. \A l \in 1 .. k + 1 : l \in I => l \in 1 .. k
      BY <2>1, <2>6
    <3>3. \A l \in 1 .. k : l \in 1 .. k + 1
      BY <2>1
    <3>. QED  BY <2>1, <2>3, <3>1, <3>2, <3>3
  <2>. QED  BY <2>5, <2>6
<1>8. n \in S
  <2>. HIDE DEF S
  <2>1. 0 .. n \subseteq S
    BY <1>2, <1>6, <1>7, Induction
  <2>. QED  BY <1>2, <2>1
<1>9. P(n)
  BY <1>8
<1>. QED  BY <1>1, <1>9 DEF n, Nth

\* A sequence is determined by its elements.
LEMMA AppendByElements ==
    ASSUME NEW V, NEW a \in Seq(V), NEW b, NEW e, DOMAIN b = 1 .. Len(a) + 1,
           b = [k \in DOMAIN b |-> b[k]],
           \A k \in 1 .. Len(a) : b[k] = a[k],
           b[Len(a) + 1] = e
    PROVE  b = Append(a, e)
<1>. DEFINE W == V \cup {e}
<1>1. a \in Seq(W) /\ e \in W /\ Len(a) \in Nat
  OBVIOUS
<1>2. \A k \in 1 .. Len(a) : a[k] \in W
  BY <1>1
<1>3. b \in [1 .. Len(a) + 1 -> W]
  BY <1>1, <1>2
<1>. HIDE DEF W
<1>4. b \in Seq(W) /\ Len(b) = Len(a) + 1
  BY <1>1, <1>3
<1>5. Append(a, e) \in Seq(W) /\ Len(Append(a, e)) = Len(a) + 1
  BY <1>1
<1>6. \A k \in 1 .. Len(a) + 1 : Append(a, e)[k] = b[k]
  BY <1>1
<1>. QED  BY <1>1, <1>4, <1>5, <1>6

\* What moves from one sequence to the other leaves their concatenation alone.
LEMMA HeadMoves ==
    ASSUME NEW V, NEW a \in Seq(V), NEW b \in Seq(V), b # << >>
    PROVE  a \o b = Append(a, Head(b)) \o Tail(b)
OBVIOUS

-----------------------------------------------------------------------------
(* Vector clocks.  Everything about clocks is proved from these facts: At  *)
(* hides the shape of the vector, as get(i).unwrap_or(&0) does.            *)

Pos == Nat \ {0}

\* An element of a clock is a natural number, also past the end of the vector.
LEMMA AtIsNat ==
    ASSUME NEW v \in Clock, NEW k
    PROVE  At(v, k) \in Nat
BY DEF At, Clock

\* Every element of the empty clock is zero.
LEMMA AtNew == ASSUME NEW k PROVE At(New, k) = 0
BY DEF At, New

\* new_with_len returns a clock of zeros.
LEMMA AtNewWithLen ==
    ASSUME NEW len \in Nat
    PROVE  /\ NewWithLen(len) \in Clock
           /\ \A k : At(NewWithLen(len), k) = 0
BY DEF At, NewWithLen, Clock

\* reset leaves a clock of zeros.
LEMMA AtReset ==
    ASSUME NEW v \in Clock
    PROVE  /\ Reset(v) \in Clock
           /\ \A k : At(Reset(v), k) = 0
<1>1. DOMAIN v = 1 .. Len(v) /\ Len(v) \in Nat
  BY DEF Clock
<1>. QED  BY <1>1 DEF At, Reset, Clock

\* increment adds one to one element and leaves the others alone.
LEMMA AtIncrement ==
    ASSUME NEW v \in Clock, NEW i \in Pos
    PROVE  /\ Increment(v, i) \in Clock
           /\ \A k \in Pos : At(Increment(v, i), k) = IF k = i THEN At(v, k) + 1 ELSE At(v, k)
<1>. DEFINE len == Larger(Len(v), i)
<1>1. DOMAIN v = 1 .. Len(v) /\ Len(v) \in Nat
  BY DEF Clock
<1>2. len \in Nat /\ Len(v) <= len /\ i <= len
  BY <1>1 DEF Larger, Pos
<1>3. \A k : At(v, k) \in Nat
  BY AtIsNat
<1>4. Increment(v, i) \in Clock
  BY <1>2, <1>3 DEF Increment, Clock
<1>5. ASSUME NEW k \in Pos
      PROVE  At(Increment(v, i), k) = IF k = i THEN At(v, k) + 1 ELSE At(v, k)
  BY <1>1, <1>2 DEF Increment, At, Pos
<1>. QED  BY <1>4, <1>5

\* merge_in takes the larger of each pair of elements.
LEMMA AtMergeIn ==
    ASSUME NEW v \in Clock, NEW w \in Clock
    PROVE  /\ MergeIn(v, w) \in Clock
           /\ \A k \in Pos : At(MergeIn(v, w), k) = Larger(At(v, k), At(w, k))
<1>. DEFINE len == Larger(Len(v), Len(w))
<1>1. /\ DOMAIN v = 1 .. Len(v) /\ Len(v) \in Nat
      /\ DOMAIN w = 1 .. Len(w) /\ Len(w) \in Nat
  BY DEF Clock
<1>2. len \in Nat /\ Len(v) <= len /\ Len(w) <= len
  BY <1>1 DEF Larger
<1>3. \A k : At(v, k) \in Nat /\ At(w, k) \in Nat
  BY AtIsNat
<1>4. \A k : Larger(At(v, k), At(w, k)) \in Nat
  BY <1>3 DEF Larger
<1>5. MergeIn(v, w) \in Clock
  <2>1. MergeIn(v, w) = [k \in 1 .. len |-> Larger(At(v, k), At(w, k))]
    BY DEF MergeIn
  <2>. HIDE DEF len
  <2>2. [k \in 1 .. len |-> Larger(At(v, k), At(w, k))] \in Seq(Nat)
    BY <1>2, <1>4
  <2>. QED  BY <2>1, <2>2 DEF Clock
<1>6. ASSUME NEW k \in Pos
      PROVE  At(MergeIn(v, w), k) = Larger(At(v, k), At(w, k))
  <2>1. CASE k <= len
    BY <1>2, <2>1 DEF MergeIn, At, Pos
  <2>2. CASE ~(k <= len)
    BY <1>1, <1>2, <2>2 DEF MergeIn, At, Pos, Larger
  <2>. QED  BY <2>1, <2>2
<1>. QED  BY <1>5, <1>6

\* Comparing up to the longer length compares all elements.
LEMMA LeqIsPointwise ==
    ASSUME NEW v \in Clock, NEW w \in Clock
    PROVE  Leq(v, w) <=> \A k \in Pos : At(v, k) <= At(w, k)
<1>. DEFINE len == Larger(Len(v), Len(w))
<1>1. /\ DOMAIN v = 1 .. Len(v) /\ Len(v) \in Nat
      /\ DOMAIN w = 1 .. Len(w) /\ Len(w) \in Nat
  BY DEF Clock
<1>2. len \in Nat /\ Len(v) <= len /\ Len(w) <= len
  BY <1>1 DEF Larger
<1>3. ASSUME NEW k \in Pos, ~(k <= len)
      PROVE  At(v, k) = 0 /\ At(w, k) = 0
  BY <1>1, <1>2, <1>3 DEF At, Pos
<1>. QED  BY <1>2, <1>3 DEF Leq, Pos

=============================================================================
