-------------------------------- MODULE Lists --------------------------------
(***************************************************************************)
(* What the models do with Go slices, written so that proofs can reason    *)
(* about it: SelectSeq takes an operator, which the provers cannot         *)
(* instantiate, Filter takes a set.                                        *)
(***************************************************************************)
EXTENDS Integers, Sequences

\* The elements of s that are in K, in their order: what the loop
\* for _, x := range s { if keep(x) { t = append(t, x) } } leaves in t
Filter(s, K) ==
    LET kept[n \in 0 .. Len(s)] ==
            IF n = 0 THEN <<>>
            ELSE IF s[n] \in K THEN Append(kept[n - 1], s[n]) ELSE kept[n - 1]
    IN  kept[Len(s)]
==============================================================================
