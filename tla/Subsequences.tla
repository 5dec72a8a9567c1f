---------------------------- MODULE Subsequences ----------------------------
(***************************************************************************)
(* The members of a sequence at some of its positions, in the order of the *)
(* sequence.  What filter does to an array, by the positions it keeps.     *)
(***************************************************************************)
EXTENDS Naturals, Sequences, FiniteSets

\* The members.
toSet(s) == {s[k] : k \in DOMAIN s}

\* An array, whatever it holds.
isSequence(x) == x \in Seq(toSet(x))

\* The position in I that k - 1 positions of I precede.
nth(I, k) == CHOOSE i \in I : Cardinality({j \in I : j <= i}) = k

Subsequence(s, I) == [k \in 1 .. Cardinality(I) |-> s[nth(I, k)]]
=============================================================================
