--------------------------- MODULE MCChunkedReaders ---------------------------
(* Instances of ChunkedReaders for TLC. *)
EXTENDS ChunkedReaders

\* Every place of the object, both ends and one on each side of them
Everywhere == -1..Size + 1

\* What Seek passes, and a length that ends inside a chunk
NoneAndThree == {-1, 3}

NoneAndOne == {-1, 1}

\* No limit, and one the doubling reaches
NoneAndTwo == {-1, 2}
===============================================================================
