----------------------------- MODULE MCWriteBack -----------------------------
(* Values for TLC. *)
EXTENDS WriteBack

ThreeItems == 1 .. 3
===============================================================================
