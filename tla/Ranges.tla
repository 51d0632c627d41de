-------------------------------- MODULE Ranges --------------------------------
(***************************************************************************)
(* lib/ranges/ranges.go: the bookkeeping of which bytes of a file are in   *)
(* the cache.  A Range is [Pos, Size]; Ranges is a sequence of them that   *)
(* the code keeps sorted and coalesced.  Indices are 1-based here and      *)
(* 0-based in the code.                                                    *)
(***************************************************************************)
EXTENDS Integers, Sequences, FiniteSets

\* The zero value of the Go struct.
EmptyRange == [Pos |-> 0, Size |-> 0]

Min2(a, b) == IF a <= b THEN a ELSE b
Max2(a, b) == IF a >= b THEN a ELSE b

End(r) == r.Pos + r.Size

IsEmpty(r) == r.Size <= 0

Clip(r, offset) ==
    IF End(r) <= offset THEN r
    ELSE LET size == r.Size - (End(r) - offset)
         IN  IF size < 0 THEN EmptyRange ELSE [r EXCEPT !.Size = size]

\* Range.Intersection
Intersect(r, b) ==
    IF \/ r.Pos >= b.Pos /\ r.Pos < End(b)
       \/ b.Pos >= r.Pos /\ b.Pos < End(r)
    THEN LET pos == Max2(r.Pos, b.Pos)
         IN  [Pos |-> pos, Size |-> Min2(End(r), End(b)) - pos]
    ELSE EmptyRange

\* Variant: ranges that only touch are left apart.
CanMergeIfOverlapping(new, dst) == End(new) > dst.Pos

\* merge(new, dst) succeeds, and what it leaves in dst
CanMerge(new, dst) == End(new) >= dst.Pos

Merged(new, dst) ==
    [Pos  |-> new.Pos,
     Size |-> IF End(new) > End(dst) THEN new.Size
              ELSE dst.Size + (dst.Pos - new.Pos)]

\* What is left of rs once the element at i has absorbed its neighbours: the
\* previous element first, then each following one for as long as it touches.
Coalesce(rs, i) ==
    LET back == i > 1 /\ CanMerge(rs[i-1], rs[i])
        grown[j \in i .. Len(rs)] ==
            IF j > i THEN Merged(grown[j-1], rs[j])
            ELSE IF back THEN Merged(rs[i-1], rs[i]) ELSE rs[i]
        stop == CHOOSE j \in i .. Len(rs) :
                    /\ \A k \in i+1 .. j : CanMerge(grown[k-1], rs[k])
                    /\ j < Len(rs) => ~CanMerge(grown[j], rs[j+1])
        start == IF back THEN i - 1 ELSE i
    IN  SubSeq(rs, 1, start - 1) \o <<grown[stop]>> \o SubSeq(rs, stop + 1, Len(rs))

\* The first element at or after r.Pos, Len(rs)+1 when there is none.
Search(rs, r) ==
    CHOOSE i \in 1 .. Len(rs)+1 :
        /\ i <= Len(rs) => rs[i].Pos >= r.Pos
        /\ \A k \in 1 .. i-1 : rs[k].Pos < r.Pos

Insert(rs, r) ==
    LET i == Search(rs, r)
    IN  CASE IsEmpty(r)  -> rs
          [] ~IsEmpty(r) /\ rs = <<>> -> <<r>>
          [] ~IsEmpty(r) /\ rs # <<>> /\ i <= Len(rs) /\ CanMerge(r, rs[i]) ->
                Coalesce([rs EXCEPT ![i] = Merged(r, rs[i])], i)
          [] OTHER ->
                Coalesce(SubSeq(rs, 1, i-1) \o <<r>> \o SubSeq(rs, i, Len(rs)), i)

\* Variant: the search resumes one byte too far.
AfterSkipsOne(r, curr) == [Pos |-> End(curr) + 1, Size |-> r.Size - curr.Size - 1]

\* r with everything up to the end of its first part, curr, taken off
After(r, curr) == [Pos |-> End(curr), Size |-> r.Size - curr.Size]

Find(rs, r) ==
    LET i      == Search(rs, r)
        before == IF i > 1 THEN Intersect(rs[i-1], r) ELSE EmptyRange
        here   == IF i <= Len(rs) THEN Intersect(rs[i], r) ELSE EmptyRange
        gap    == [Pos |-> r.Pos, Size |-> here.Pos - r.Pos]
        Found(curr, next, present) ==
            [curr |-> curr, next |-> next, present |-> present]
    IN  CASE IsEmpty(r)                   -> Found(r, EmptyRange, FALSE)
          [] ~IsEmpty(r) /\ ~IsEmpty(before) -> Found(before, After(r, before), TRUE)
          [] ~IsEmpty(r) /\ IsEmpty(before) /\ IsEmpty(here) ->
                Found(r, EmptyRange, FALSE)
          [] ~IsEmpty(r) /\ IsEmpty(before) /\ ~IsEmpty(here) /\ r.Pos < here.Pos ->
                Found(gap, After(r, gap), FALSE)
          [] OTHER                        -> Found(here, After(r, here), TRUE)

\* FindAll: the loop over Find, as a function of what is still to be searched.
FindAll(rs, r) ==
    LET all[q \in [Pos : Int, Size : Int]] ==
            IF IsEmpty(q) THEN <<>>
            ELSE LET f == Find(rs, q)
                 IN  <<[R |-> f.curr, Present |-> f.present]>> \o all[f.next]
    IN  all[r]

Present(rs, r) ==
    LET f == Find(rs, r)
    IN  IsEmpty(r) \/ (f.present /\ IsEmpty(f.next))

\* Ranges.Intersection: a loop over Find as in FindAll, that inserts every part it finds
\* present.
Intersection(rs, r) ==
    LET parts == FindAll(rs, r)
        kept[n \in 0 .. Len(parts)] ==
            IF n = 0 THEN <<>>
            ELSE IF parts[n].Present THEN Insert(kept[n-1], parts[n].R) ELSE kept[n-1]
    IN  IF rs = <<>> THEN rs ELSE kept[Len(parts)]

\* Ranges.Size
TotalSize(rs) ==
    LET sum[n \in 0 .. Len(rs)] == IF n = 0 THEN 0 ELSE sum[n-1] + rs[n].Size
    IN  sum[Len(rs)]

FindMissing(rs, r) ==
    LET f == Find(rs, r)
    IN  IF IsEmpty(r) \/ ~f.present THEN r
        ELSE [Pos |-> End(f.curr), Size |-> r.Size - (End(f.curr) - r.Pos)]

-------------------------------------------------------------------------------
\* What the operators mean: the bytes a Range and a Ranges stand for.
Bytes(r) == r.Pos .. End(r) - 1

AllBytes(rs) == UNION {Bytes(rs[i]) : i \in 1 .. Len(rs)}
===============================================================================
