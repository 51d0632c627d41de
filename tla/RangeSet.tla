------------------------------- MODULE RangeSet -------------------------------
(***************************************************************************)
(* The life of one item.info.Rs (internal/cache/item.go): ranges are added *)
(* when bytes are written, and cut when the file is truncated.  held is    *)
(* the reference: the bytes that ought to be recorded, as a plain set.     *)
(***************************************************************************)
EXTENDS Ranges

CONSTANTS MaxEnd,   \* the last byte offset used
          Deficit   \* how far below zero a size computed by a caller can be

ASSUME RangeSetAssumption == MaxEnd \in Nat /\ Deficit \in Nat

VARIABLES rs, held

vars == <<rs, held>>

Args == {r \in [Pos : 0 .. MaxEnd, Size : -Deficit .. MaxEnd] : End(r) <= MaxEnd}

Init == rs = <<>> /\ held = {}

\* item._written
Written(r) ==
    /\ rs' = Insert(rs, r)
    /\ held' = held \cup Bytes(r)

\* item._truncate keeps what lies below the new size
Truncate(size) ==
    /\ rs' = Intersection(rs, [Pos |-> 0, Size |-> size])
    /\ held' = held \cap (0 .. size - 1)

Next == \/ \E r \in Args : Written(r)
        \/ \E size \in 0 .. MaxEnd : Truncate(size)

Spec == Init /\ [][Next]_vars

-------------------------------------------------------------------------------
\* Ranges "are kept sorted and coalesced to the minimum size" (ranges.go:51):
\* no empty element, and a hole of at least one byte between neighbours.
Canonical ==
    /\ \A i \in 1 .. Len(rs) : ~IsEmpty(rs[i])
    /\ \A i \in 1 .. Len(rs) - 1 : End(rs[i]) < rs[i+1].Pos

\* Insert and Intersection record exactly the bytes written and not cut off, in the
\* one form there is for them.
RecordsWhatIsHeld ==
    /\ rs \in Seq([Pos : Nat, Size : Nat]) /\ held \subseteq 0 .. MaxEnd
    /\ Canonical
    /\ AllBytes(rs) = held /\ TotalSize(rs) = Cardinality(held)

\* Find returns the longest prefix of r that is all present or all absent, says
\* which, and hands back the rest of r (ranges.go:130-141).
FindIsLongestPrefix ==
    \A r \in Args : ~IsEmpty(r) =>
        LET f == Find(rs, r) IN
        /\ f.curr.Pos = r.Pos /\ ~IsEmpty(f.curr)
        /\ IF f.present THEN Bytes(f.curr) \subseteq held
                        ELSE Bytes(f.curr) \cap held = {}
        /\ Bytes(f.next) = Bytes(r) \ Bytes(f.curr)
        /\ ~IsEmpty(f.next) => (f.next.Pos \in held) # f.present

\* FindAll splits r, in order and without gap or overlap, into parts that
\* alternate between present and absent: WriteAtNoOverwrite relies on it.
FindAllPartitions ==
    \A r \in Args : ~IsEmpty(r) =>
        LET fs == FindAll(rs, r) IN
        /\ fs[1].R.Pos = r.Pos /\ End(fs[Len(fs)].R) = End(r)
        /\ \A i \in 1 .. Len(fs) - 1 :
              End(fs[i].R) = fs[i+1].R.Pos /\ fs[i].Present # fs[i+1].Present
        /\ UNION {Bytes(fs[i].R) : i \in {j \in 1 .. Len(fs) : fs[j].Present}}
              = Bytes(r) \cap held

\* Present holds of exactly the ranges whose every byte is held.
PresentIsSubset == \A r \in Args : Present(rs, r) <=> Bytes(r) \subseteq held

\* FindMissing drops exactly the held prefix of r and keeps r's end: "For all
\* returns rout.End() == r.End()" (ranges.go:269).
FindMissingDropsHeldPrefix ==
    \A r \in Args :
        LET m == FindMissing(rs, r) IN
        /\ End(m) = End(r)
        /\ Bytes(r) \ Bytes(m) \subseteq held
        /\ ~IsEmpty(m) => m.Pos \notin held /\ m.Pos >= r.Pos

\* Whatever is asked of the list, in whatever state, the answer is that of the set of
\* bytes it stands for: the callers of all four mix their answers.
AnswersAsSet ==
    FindIsLongestPrefix /\ FindAllPartitions /\ PresentIsSubset /\ FindMissingDropsHeldPrefix

\* What ranges.go:262-263 says of FindMissing: "If r is not present in rs then
\* the block returned will have IsEmpty return true".
\* Does not hold: README.md, section 4.
AbsentGivesEmpty ==
    \A r \in Args : Bytes(r) \cap held = {} => IsEmpty(FindMissing(rs, r))

===============================================================================
