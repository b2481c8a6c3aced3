----------------------------- MODULE MCListHeap -----------------------------
(* Two list heads and three entries, two of which compare equal, for TLC.   *)
EXTENDS ListHeap, TLC

CONSTANTS l1, l2, e1, e2, e3

MCKey == e1 :> 1 @@ e2 :> 2 @@ e3 :> 2

Symmetry == Permutations({l1, l2}) \cup Permutations({e2, e3})
=============================================================================
