----------------------------- MODULE MCDownloaders -----------------------------
(* Instances of Downloaders for TLC. *)
EXTENDS Downloaders, TLC

R(pos, size) == [Pos |-> pos, Size |-> size]

\* All of an item that is one block longer than the source, and a range that
\* another downloader may be fetching already
WholeAndMiddle == {R(0, 3), R(1, 1)}

EachBlock == {R(0, 1), R(1, 1)}

\* Less than the source has: the downloader idles
Front == {R(0, 1)}

\* Readers and downloader structures are interchangeable.
Symmetry == Permutations(Callers) \cup Permutations(Dl)
===============================================================================
