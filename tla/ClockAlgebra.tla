---------------------------- MODULE ClockAlgebra ----------------------------
(***************************************************************************)
(* The comparison, equality and hashing of vector clocks as the code       *)
(* computes them, exercised on two clocks that are incremented, merged and *)
(* reset in any order.                                                     *)
(*                                                                         *)
(* The vectors change length at different moments, so equal clocks of      *)
(* different shapes are reached.  A shadow of each clock, a total function *)
(* that has no shape, is the reference the vectors are compared with.      *)
(***************************************************************************)
EXTENDS VClock

CONSTANTS
    MaxIndex,  \* bound: the largest index that is incremented
    MaxCount   \* bound: the largest element a clock reaches

ASSUME MaxIndexAssumption == MaxIndex \in Nat

Index == 1 .. MaxIndex
Names == {"lhs", "rhs"}

VARIABLES
    vec,     \* vec[n]: the vector of clock n
    shadow   \* shadow[n]: the same clock as a total function on Index

clocks == <<vec, shadow>>

-----------------------------------------------------------------------------

Cmp(m, n) == IF m < n THEN "Less" ELSE IF m > n THEN "Greater" ELSE "Equal"

\* Mutant: the ordering stays Greater once it is.
PartialCmpStaysGreaterMutant(v, w) ==
    LET len == Larger(Len(v), Len(w))
        expected_ordering[i \in 0 .. len] ==
            IF i = 0 THEN "Equal"
            ELSE LET expected == expected_ordering[i - 1]
                     ordering == Cmp(At(v, i), At(w, i))
                 IN  CASE expected = "Equal" -> ordering
                       [] expected = "Greater" \/ ordering \in {expected, "Equal"} -> expected
                       [] OTHER -> "None"
    IN  expected_ordering[len]

(***************************************************************************)
(* partial_cmp's loop: the ordering expected after the first i elements,   *)
(* "None" once two elements disagreed.                                     *)
(***************************************************************************)
PartialCmp(v, w) ==
    LET len == Larger(Len(v), Len(w))
        expected_ordering[i \in 0 .. len] ==
            IF i = 0 THEN "Equal"
            ELSE LET expected == expected_ordering[i - 1]
                     ordering == Cmp(At(v, i), At(w, i))
                 IN  CASE expected = "Equal" -> ordering
                       [] expected # "Equal" /\ ordering \in {expected, "Equal"} -> expected
                       [] OTHER -> "None"
    IN  expected_ordering[len]

\* eq walks to the end of the longer vector.
Eq(v, w) == \A i \in 1 .. Larger(Len(v), Len(w)) : At(v, i) = At(w, i)

\* Mutant: the elements up to the first zero.
HashKeyFirstZeroMutant(v) ==
    LET zeros == {k \in DOMAIN v : v[k] = 0}
    IN  SubSeq(v, 1, IF zeros = {} THEN Len(v) ELSE (CHOOSE k \in zeros : \A l \in zeros : k <= l) - 1)

\* What hash feeds to the hasher: the elements up to the last nonzero one.
HashKey(v) ==
    LET nonzero == {k \in DOMAIN v : v[k] # 0}
        cutoff  == CHOOSE k \in nonzero \cup {0} : \A l \in nonzero : l <= k
    IN  SubSeq(v, 1, cutoff)

-----------------------------------------------------------------------------

\* Clocks are created empty (vclock![]) or with a length (new_with_len).
ClockInit ==
    /\ \E l, r \in 0 .. MaxIndex :
         vec = [n \in Names |-> IF n = "lhs" THEN NewWithLen(l) ELSE NewWithLen(r)]
    /\ shadow = [n \in Names |-> [k \in Index |-> 0]]

IncrementClock(n, i) ==
    /\ shadow[n][i] < MaxCount
    /\ vec' = [vec EXCEPT ![n] = Increment(vec[n], i)]
    /\ shadow' = [shadow EXCEPT ![n][i] = @ + 1]

MergeClocks(n, m) ==
    /\ vec' = [vec EXCEPT ![n] = MergeIn(vec[n], vec[m])]
    /\ shadow' = [shadow EXCEPT ![n] =
                    [k \in Index |-> Larger(shadow[n][k], shadow[m][k])]]

ResetClock(n) ==
    /\ vec' = [vec EXCEPT ![n] = Reset(vec[n])]
    /\ shadow' = [shadow EXCEPT ![n] = [k \in Index |-> 0]]

ClockNext ==
    \E n \in Names :
        \/ \E i \in Index : IncrementClock(n, i)
        \/ \E m \in Names \ {n} : MergeClocks(n, m)
        \/ ResetClock(n)

ClockSpec == ClockInit /\ [][ClockNext]_clocks

-----------------------------------------------------------------------------

(***************************************************************************)
(* partial_cmp answers the pointwise order of the clocks, whatever the     *)
(* shapes of the two vectors: Less, Greater and Equal exactly when one     *)
(* clock is below the other, None exactly when they are incomparable.      *)
(* Race detection rests on it (verifier.rs: event_clock >= rj.clock).      *)
(***************************************************************************)
OrderIsPointwise ==
    LET lhs == shadow["lhs"]
        rhs == shadow["rhs"]
        below == \A k \in Index : lhs[k] <= rhs[k]
        above == \A k \in Index : lhs[k] >= rhs[k]
    IN  PartialCmp(vec["lhs"], vec["rhs"]) =
            CASE below /\ above  -> "Equal"
              [] below /\ ~above -> "Less"
              [] above /\ ~below -> "Greater"
              [] OTHER           -> "None"

(***************************************************************************)
(* The three comparisons the type implements agree with one another: eq    *)
(* holds exactly when partial_cmp says Equal, and clocks that are equal    *)
(* hash alike although their vectors differ in trailing zeros.             *)
(***************************************************************************)
EqOrdAndHashAgree ==
    LET v == vec["lhs"]
        w == vec["rhs"]
    IN  /\ Eq(v, w) <=> PartialCmp(v, w) = "Equal"
        /\ Eq(v, w) <=> HashKey(v) = HashKey(w)
        /\ Leq(v, w) <=> PartialCmp(v, w) \in {"Less", "Equal"}

-----------------------------------------------------------------------------
(* The tests of the crate, indices from 0 as there                         *)

CanEquate == {<<v, w>> : v, w \in {<< >>, <<0>>}}

CanTellApart == {<<<< >>, <<1>>>>, <<<<1>>, << >>>>}

CanHash == {<<<< >>, << >>>>, <<<< >>, <<0, 0>>>>, <<<<1>>, <<1, 0>>>>}

\* The indices incremented, and the clock afterwards.
CanIncrement == {<<<<2>>, <<0, 0, 1>>>>, <<<<2, 0, 2>>, <<1, 0, 2>>>>}

CanMerge == {<<<<1, 2, 3, 4>>, <<5, 6, 0>>, <<5, 6, 3, 4>>>>, <<<<1, 0, 2>>, <<3, 1, 0, 4>>, <<3, 1, 2, 4>>>>}

CanOrderPartially ==
    {<<<< >>, << >>, "Equal">>, <<<< >>, <<0, 0>>, "Equal">>, <<<<0, 0>>, << >>, "Equal">>,
     <<<<1, 2, 0>>, <<1, 2>>, "Equal">>,
     <<<< >>, <<1>>, "Less">>, <<<<1, 2, 3>>, <<1, 3, 4>>, "Less">>,
     <<<<1, 2, 3>>, <<1, 3, 3>>, "Less">>, <<<<1, 2, 3>>, <<2, 3, 3>>, "Less">>,
     <<<<1>>, << >>, "Greater">>, <<<<1, 2, 3>>, <<1, 1, 2>>, "Greater">>,
     <<<<1, 2, 3>>, <<1, 1, 3>>, "Greater">>, <<<<1, 2, 4>>, <<0, 1, 3>>, "Greater">>,
     <<<<1, 2, 3>>, <<1, 3, 2>>, "None">>, <<<<1, 2, 3>>, <<3, 2, 1>>, "None">>,
     <<<<1, 2, 2>>, <<2, 1, 2>>, "None">>}

IncrementAll(indices) ==
    LET clock[k \in 0 .. Len(indices)] ==
            IF k = 0 THEN New ELSE Increment(clock[k - 1], indices[k] + 1)
    IN  clock[Len(indices)]

TestsPass ==
    /\ \A t \in CanEquate : Eq(t[1], t[2])
    /\ \A t \in CanTellApart : ~Eq(t[1], t[2]) /\ HashKey(t[1]) # HashKey(t[2])
    /\ \A t \in CanHash : HashKey(t[1]) = HashKey(t[2])
    /\ \A t \in CanIncrement : Eq(IncrementAll(t[1]), t[2])
    /\ \A t \in CanMerge : Eq(MergeIn(t[1], t[2]), t[3])
    /\ \A t \in CanOrderPartially : PartialCmp(t[1], t[2]) = t[3]

=============================================================================
