------------------------------- MODULE MCProxy -------------------------------
(* Values for TLC: two versions of the same size, or that grow, or shrink. *)
EXTENDS Proxy, TLC

SameSize == <<2, 2>>
Symmetry == Permutations(Requests)
Grows == <<1, 2>>
Shrinks == <<2, 1>>
WholeOrRest == {<<1, 2>>, <<2, 2>>}
===============================================================================
