----------------------------- MODULE Reductions -----------------------------
(***************************************************************************)
(* What reduce and flatMap make of an array, one member after the other.   *)
(***************************************************************************)
EXTENDS Integers, Sequences

sum(costs) ==
  LET upto[n \in 0 .. Len(costs)] == IF n = 0 THEN 0 ELSE upto[n - 1] + costs[n]
  IN upto[Len(costs)]

joined(lists) ==
  LET upto[n \in 0 .. Len(lists)] == IF n = 0 THEN <<>> ELSE upto[n - 1] \o lists[n]
  IN upto[Len(lists)]
=============================================================================
