---------------------------- MODULE Subsequences ----------------------------
(***************************************************************************)
(* Parts of a sequence, given by the places they are taken from.           *)
(***************************************************************************)
EXTENDS Naturals, Sequences, FiniteSets

(***************************************************************************)
(* The elements of s at the places in I, in their order.                   *)
(***************************************************************************)
Subsequence(s, I) ==
    LET upto[k \in 0 .. Len(s)] ==
            IF k = 0 THEN << >>
            ELSE IF k \in I THEN Append(upto[k - 1], s[k]) ELSE upto[k - 1]
    IN  upto[Len(s)]

\* How many of the places up to k are in I.
CountUpTo(I, k) == Cardinality({m \in 1 .. k : m \in I})

=============================================================================
