------------------------------- MODULE VClock -------------------------------
(***************************************************************************)
(* The vector clocks of crates/vector_clock/src/lib.rs.                    *)
(*                                                                         *)
(* A clock is a vector of naturals in which every missing element counts   *)
(* as zero, so <<1, 0>> and <<1>> are the same clock in two shapes.  The   *)
(* code indexes from 0, the model from 1.  The u32 width of an element is  *)
(* not modelled: an element counts the steps of one actor in one trace.    *)
(***************************************************************************)
EXTENDS Integers, Sequences

Clock == Seq(Nat)

Larger(m, n) == IF m >= n THEN m ELSE n

\* Element k of clock v, zero when the vector is too short.
At(v, k) == IF k \in DOMAIN v THEN v[k] ELSE 0

New == << >>

NewWithLen(len) == [k \in 1 .. len |-> 0]

\* Mutant: reset keeps the elements.
ResetNothingMutant(v) == v

Reset(v) == [k \in DOMAIN v |-> 0]

\* Mutant: the vector is not resized.
IncrementWithoutResizeMutant(v, i) == [k \in DOMAIN v |-> IF k = i THEN v[k] + 1 ELSE v[k]]

\* increment resizes the vector when the index is past its end.
Increment(v, i) ==
    [k \in 1 .. Larger(Len(v), i) |-> IF k = i THEN At(v, k) + 1 ELSE At(v, k)]

\* Mutant: the other clock's elements are taken over, without max.
MergeInOverwriteMutant(v, w) ==
    [k \in 1 .. Larger(Len(v), Len(w)) |-> IF k <= Len(w) THEN w[k] ELSE v[k]]

MergeIn(v, w) ==
    [k \in 1 .. Larger(Len(v), Len(w)) |-> Larger(At(v, k), At(w, k))]

\* v <= w, element by element: what partial_cmp's Less and Equal amount to.
Leq(v, w) == \A k \in 1 .. Larger(Len(v), Len(w)) : At(v, k) <= At(w, k)

=============================================================================
