----------------------------- MODULE RangesProofs -----------------------------
(***************************************************************************)
(* What the operators of Ranges do to a list that is sorted and coalesced, *)
(* for lists of any length, and with it that the ranges of an item stand   *)
(* for the bytes it holds (RangeSet).                                      *)
(***************************************************************************)
EXTENDS RangeSet, Lemmas, SequenceTheorems

\* A Range, and one as it is in a list: what the code calls sorted and coalesced.
AnyRange == [Pos : Int, Size : Int]

NatRange == [Pos : Nat, Size : Nat]

Sorted(s) ==
    /\ s \in Seq(NatRange)
    /\ \A i \in 1 .. Len(s) : s[i].Size > 0
    /\ \A i \in 1 .. Len(s) - 1 : End(s[i]) < s[i+1].Pos

\* x is in one of the ranges of s.
Covers(s, x) == \E i \in 1 .. Len(s) : x \in Bytes(s[i])

LEMMA RangeFacts ==
    ASSUME NEW r \in AnyRange
    PROVE  /\ r.Pos \in Int /\ r.Size \in Int /\ End(r) \in Int /\ End(r) = r.Pos + r.Size
           /\ r.Size = End(r) - r.Pos
           /\ IsEmpty(r) <=> r.Size <= 0
           /\ \A x : x \in Bytes(r) <=> x \in Int /\ r.Pos <= x /\ x < End(r)
<1>1. r.Pos \in Int /\ r.Size \in Int
    BY DEF AnyRange
<1>2. End(r) = r.Pos + r.Size
    BY DEF End
<1> QED BY <1>1, <1>2 DEF Bytes, IsEmpty

LEMMA AllBytesIsCovered ==
    ASSUME NEW s
    PROVE  \A x : x \in AllBytes(s) <=> Covers(s, x)
BY DEF AllBytes, Covers

\* merge gives a range that begins with the first and ends with the later of the two,
\* whether or not it should; it should if it stands for no other bytes than they do.
LEMMA MergedFacts ==
    ASSUME NEW new \in AnyRange, NEW dst \in AnyRange
    PROVE  LET m == Merged(new, dst) IN
           /\ m \in AnyRange /\ m.Pos = new.Pos
           /\ new.Pos <= dst.Pos /\ new.Size > 0 /\ dst.Size > 0 =>
                 /\ m.Size > 0 /\ End(m) >= End(new) /\ End(m) >= End(dst)
                 /\ End(m) = End(new) \/ End(m) = End(dst)
                 /\ CanMerge(new, dst) =>
                       \A x : x \in Bytes(m) <=> x \in Bytes(new) \/ x \in Bytes(dst)
<1> DEFINE m == Merged(new, dst)
<1>1. /\ new.Pos \in Int /\ new.Size \in Int /\ End(new) \in Int /\ End(new) = new.Pos + new.Size
      /\ dst.Pos \in Int /\ dst.Size \in Int /\ End(dst) \in Int /\ End(dst) = dst.Pos + dst.Size
    BY RangeFacts
<1>2. PICK n \in Int : n = IF End(new) > End(dst) THEN new.Size ELSE dst.Size + (dst.Pos - new.Pos)
    BY <1>1
<1>3. m = [Pos |-> new.Pos, Size |-> n]
    BY <1>2 DEF Merged
<1>4. m \in AnyRange /\ m.Pos = new.Pos /\ m.Size = n
    BY <1>1, <1>3 DEF AnyRange
<1> HIDE DEF m
<1>5. End(m) = new.Pos + n /\ End(m) \in Int
    BY <1>1, <1>4, RangeFacts
<1>6. End(m) = IF End(new) > End(dst) THEN End(new) ELSE End(dst)
    BY <1>1, <1>2, <1>5
<1>7. ASSUME new.Pos <= dst.Pos, new.Size > 0, dst.Size > 0
      PROVE  /\ m.Size > 0 /\ End(m) >= End(new) /\ End(m) >= End(dst)
             /\ End(m) = End(new) \/ End(m) = End(dst)
    BY <1>1, <1>2, <1>4, <1>6, <1>7
<1>8. ASSUME new.Pos <= dst.Pos, new.Size > 0, dst.Size > 0, CanMerge(new, dst), NEW x
      PROVE  x \in Bytes(m) <=> x \in Bytes(new) \/ x \in Bytes(dst)
    <2>1. End(new) >= dst.Pos
        BY <1>8 DEF CanMerge
    <2>2. /\ x \in Bytes(m) <=> x \in Int /\ m.Pos <= x /\ x < End(m)
          /\ x \in Bytes(new) <=> x \in Int /\ new.Pos <= x /\ x < End(new)
          /\ x \in Bytes(dst) <=> x \in Int /\ dst.Pos <= x /\ x < End(dst)
        BY <1>4, RangeFacts
    <2>3. CASE x \in Int
        BY <1>1, <1>4, <1>6, <1>8, <2>1, <2>2, <2>3
    <2> QED BY <2>2, <2>3
<1> QED BY <1>4, <1>7, <1>8 DEF m

\* The search ends at a place of the list or right behind it, in whatever order the list is.
LEMMA SearchFacts ==
    ASSUME NEW s \in Seq(AnyRange), NEW r \in AnyRange
    PROVE  /\ Search(s, r) \in 1 .. Len(s) + 1
           /\ Search(s, r) <= Len(s) => s[Search(s, r)].Pos >= r.Pos
           /\ \A k \in 1 .. Search(s, r) - 1 : s[k].Pos < r.Pos
<1> DEFINE Right(i) == /\ i <= Len(s) => s[i].Pos >= r.Pos
                       /\ \A k \in 1 .. i - 1 : s[k].Pos < r.Pos
           T == {i \in 1 .. Len(s) + 1 : i <= Len(s) => s[i].Pos >= r.Pos}
<1>1. Len(s) \in Nat /\ r.Pos \in Int /\ \A k \in 1 .. Len(s) : s[k].Pos \in Int
    <2>1. \A k \in 1 .. Len(s) : s[k] \in AnyRange
        OBVIOUS
    <2> QED BY <2>1 DEF AnyRange
<1>2. PICK i \in T : \A j \in T : i <= j
    <2>1. T \in SUBSET Nat /\ Len(s) + 1 \in T
        BY <1>1
    <2> HIDE DEF T
    <2> QED BY <2>1, LeastNumber
<1>3. i \in 1 .. Len(s) + 1 /\ (i <= Len(s) => s[i].Pos >= r.Pos)
    OBVIOUS
<1>4. ASSUME NEW k \in 1 .. i - 1
      PROVE  s[k].Pos < r.Pos
    <2>1. k \in 1 .. Len(s) + 1 /\ k \in 1 .. Len(s) /\ ~(i <= k)
        BY <1>1, <1>3
    <2>2. k \notin T
        <3> HIDE DEF T
        <3> QED BY <1>2, <2>1
    <2>3. ~(s[k].Pos >= r.Pos)
        BY <2>1, <2>2
    <2> QED BY <1>1, <2>1, <2>3
<1>5. Right(i)
    BY <1>3, <1>4
<1>6. Search(s, r) = CHOOSE j \in 1 .. Len(s) + 1 : Right(j)
    BY DEF Search
<1> HIDE DEF Right
<1>7. Search(s, r) \in 1 .. Len(s) + 1 /\ Right(Search(s, r))
    BY <1>3, <1>5, <1>6
<1> QED BY <1>7 DEF Right

\* A list in which x stands for the elements from a to b.
Splice(s, a, x, b) == SubSeq(s, 1, a - 1) \o <<x>> \o SubSeq(s, b + 1, Len(s))

LEMMA Spliced ==
    ASSUME NEW S, NEW s \in Seq(S), NEW x \in S,
           NEW a \in 1 .. Len(s) + 1, NEW b \in a - 1 .. Len(s)
    PROVE  /\ Splice(s, a, x, b) \in Seq(S)
           /\ Len(Splice(s, a, x, b)) = a + Len(s) - b
           /\ \A n \in 1 .. a - 1 : Splice(s, a, x, b)[n] = s[n]
           /\ Splice(s, a, x, b)[a] = x
           /\ \A n \in a + 1 .. a + Len(s) - b : Splice(s, a, x, b)[n] = s[n - a + b]
<1>1. Len(s) \in Nat /\ \A i \in 1 .. Len(s) : s[i] \in S
    OBVIOUS
<1> DEFINE p == SubSeq(s, 1, a - 1)
           q == SubSeq(s, b + 1, Len(s))
           m == p \o <<x>>
           t == m \o q
<1>2. /\ p \in Seq(S) /\ Len(p) = a - 1
      /\ \A i \in 1 .. a - 1 : p[i] = s[i]
    <2>1. \A i \in 1 .. a - 1 : s[i] \in S
        BY <1>1
    <2>2. 1 \in Int /\ a - 1 \in Int
        BY <1>1
    <2>3. /\ p \in Seq(S) /\ Len(p) = IF 1 <= a - 1 THEN a - 1 - 1 + 1 ELSE 0
          /\ \A i \in 1 .. a - 1 - 1 + 1 : p[i] = s[1 + i - 1]
        BY <2>1, <2>2, SubSeqProperties
    <2> HIDE DEF p
    <2> QED BY <1>1, <2>3
<1>3. /\ q \in Seq(S) /\ Len(q) = Len(s) - b
      /\ \A i \in 1 .. Len(s) - b : q[i] = s[b + i]
    <2>1. \A i \in b + 1 .. Len(s) : s[i] \in S
        BY <1>1
    <2>2. b + 1 \in Int /\ Len(s) \in Int
        BY <1>1
    <2>3. /\ q \in Seq(S) /\ Len(q) = IF b + 1 <= Len(s) THEN Len(s) - (b + 1) + 1 ELSE 0
          /\ \A i \in 1 .. Len(s) - (b + 1) + 1 : q[i] = s[b + 1 + i - 1]
        BY <2>1, <2>2, SubSeqProperties
    <2> HIDE DEF q
    <2> QED BY <1>1, <2>3
<1> HIDE DEF p, q
<1>4. /\ m \in Seq(S) /\ Len(m) = a
      /\ \A i \in 1 .. a : m[i] = IF i < a THEN s[i] ELSE x
    <2>1. <<x>> \in Seq(S) /\ Len(<<x>>) = 1 /\ <<x>>[1] = x
        OBVIOUS
    <2>2. /\ m \in Seq(S) /\ Len(m) = a - 1 + 1
          /\ \A i \in 1 .. a - 1 + 1 : m[i] = IF i <= a - 1 THEN p[i] ELSE <<x>>[i - (a - 1)]
        BY <1>2, <2>1, ConcatProperties
    <2> HIDE DEF m
    <2>3. ASSUME NEW i \in 1 .. a
          PROVE  m[i] = IF i < a THEN s[i] ELSE x
        <3>1. i \in 1 .. a - 1 + 1 /\ (i < a => i \in 1 .. a - 1 /\ i <= a - 1) /\ (~(i < a) => i - (a - 1) = 1 /\ ~(i <= a - 1))
            BY <1>1
        <3> QED BY <1>2, <2>1, <2>2, <3>1
    <2> QED BY <1>1, <2>2, <2>3
<1> HIDE DEF m
<1>5. /\ t \in Seq(S) /\ Len(t) = a + (Len(s) - b)
      /\ \A i \in 1 .. a + (Len(s) - b) : t[i] = IF i <= a THEN m[i] ELSE q[i - a]
    <2>1. /\ t \in Seq(S) /\ Len(t) = Len(m) + Len(q)
          /\ \A i \in 1 .. Len(m) + Len(q) : t[i] = IF i <= Len(m) THEN m[i] ELSE q[i - Len(m)]
        BY <1>3, <1>4, ConcatProperties
    <2> HIDE DEF t
    <2> QED BY <1>3, <1>4, <2>1
<1>6. t = Splice(s, a, x, b)
    BY DEF m, p, q, Splice
<1> HIDE DEF t
<1>7. Len(t) = a + Len(s) - b
    BY <1>1, <1>5
<1>8. ASSUME NEW n \in 1 .. a + Len(s) - b
      PROVE  /\ n < a => t[n] = s[n]
             /\ n = a => t[n] = x
             /\ n > a => t[n] = s[n - a + b]
    <2>1. /\ n <= a => n \in 1 .. a
          /\ ~(n <= a) => n - a \in 1 .. Len(s) - b /\ b + (n - a) = n - a + b /\ ~(n < a) /\ n # a
          /\ n \in 1 .. a + (Len(s) - b)
          /\ n <= a <=> n < a \/ n = a
          /\ n > a <=> ~(n <= a)
        BY <1>1
    <2> QED BY <1>3, <1>4, <1>5, <2>1
<1>9. /\ \A n \in 1 .. a - 1 : n \in 1 .. a + Len(s) - b /\ n < a
      /\ a \in 1 .. a + Len(s) - b
      /\ \A n \in a + 1 .. a + Len(s) - b : n \in 1 .. a + Len(s) - b /\ n > a
    BY <1>1
<1> QED BY <1>5, <1>6, <1>7, <1>8, <1>9

-------------------------------------------------------------------------------
(* coalesce *)

\* Where Coalesce(s, i) begins, from what, and how it goes on from there to stop.
First(s, i) == IF i > 1 /\ CanMerge(s[i-1], s[i]) THEN Merged(s[i-1], s[i]) ELSE s[i]

Start(s, i) == IF i > 1 /\ CanMerge(s[i-1], s[i]) THEN i - 1 ELSE i

Grows(s, i, grown, stop) ==
    /\ grown[i] = First(s, i)
    /\ \A j \in i + 1 .. Len(s) : grown[j] = Merged(grown[j - 1], s[j])
    /\ \A k \in i + 1 .. stop : CanMerge(grown[k - 1], s[k])
    /\ stop < Len(s) => ~CanMerge(grown[stop], s[stop + 1])

\* How Coalesce is computed, whatever the list: its loop always stops somewhere.
LEMMA CoalesceIs ==
    ASSUME NEW s \in Seq(AnyRange), NEW i \in 1 .. Len(s)
    PROVE  \E grown \in [i .. Len(s) -> AnyRange], stop \in i .. Len(s) :
              /\ Grows(s, i, grown, stop)
              /\ Coalesce(s, i) = Splice(s, Start(s, i), grown[stop], stop)
<1> DEFINE back  == i > 1 /\ CanMerge(s[i-1], s[i])
           first == IF back THEN Merged(s[i-1], s[i]) ELSE s[i]
           start == IF back THEN i - 1 ELSE i
           D == i .. Len(s)
           Loop(f) == f = [j \in i .. Len(s) |->
                              IF j > i THEN Merged(f[j-1], s[j])
                              ELSE IF back THEN Merged(s[i-1], s[i]) ELSE s[i]]
           grown == CHOOSE f : Loop(f)
           Stops(j) == /\ \A k \in i+1 .. j : CanMerge(grown[k-1], s[k])
                       /\ j < Len(s) => ~CanMerge(grown[j], s[j+1])
           stop == CHOOSE j \in i .. Len(s) : Stops(j)
<1>1. Len(s) \in Nat /\ i \in Nat /\ i >= 1 /\ i <= Len(s) /\ \A j \in 1 .. Len(s) : s[j] \in AnyRange
    OBVIOUS
<1>2. Coalesce(s, i) = Splice(s, start, grown[stop], stop)
    BY DEF Coalesce, Splice
<1>3. first \in AnyRange
    <2>1. CASE back
        <3>1. i - 1 \in 1 .. Len(s)
            BY <1>1, <2>1
        <3> QED BY <1>1, <2>1, <3>1, MergedFacts
    <2> QED BY <1>1, <2>1
<1> HIDE DEF back, start
<1>4. \E f \in [D -> AnyRange] : \A j \in D : f[j] = IF j \in {i} THEN first ELSE Merged(f[j - 1], s[j])
    <2> DEFINE base == [j \in D |-> first]
               next == [j \in D |-> IF j = i THEN i ELSE j - 1]
               step == [j \in D |-> [v \in AnyRange |-> Merged(v, s[j])]]
               size == [j \in D |-> j - i]
    <2>1. Recurses(D, AnyRange, {i}, base, next, step, size)
        <3>1. base \in [D -> AnyRange]
            <4> HIDE DEF first
            <4> QED BY <1>3
        <3>2. next \in [D -> D]
            BY <1>1
        <3>3. size \in [D -> Nat]
            BY <1>1
        <3>4. step \in [D -> [AnyRange -> AnyRange]]
            <4>1. \A j \in D, v \in AnyRange : Merged(v, s[j]) \in AnyRange
                BY <1>1, MergedFacts
            <4> QED BY <4>1
        <3>5. \A j \in D \ {i} : size[next[j]] < size[j]
            BY <1>1
        <3> HIDE DEF base, next, step, size
        <3> QED BY <3>1, <3>2, <3>3, <3>4, <3>5 DEF Recurses
    <2>2. \A j \in D \ {i} : next[j] = j - 1 /\ next[j] \in D
        BY <1>1
    <2>3. \A j \in D : base[j] = first /\ \A v \in AnyRange : step[j][v] = Merged(v, s[j])
        OBVIOUS
    <2> HIDE DEF base, next, step, size, first, D
    <2>4. PICK f : Computed(f, D, AnyRange, {i}, base, next, step)
        BY <2>1, RecursionDefined
    <2>5. f \in [D -> AnyRange] /\ \A j \in D : f[j] = IF j \in {i} THEN base[j] ELSE step[j][f[next[j]]]
        BY <2>4 DEF Computed
    <2>6. ASSUME NEW j \in D
          PROVE  f[j] = IF j \in {i} THEN first ELSE Merged(f[j - 1], s[j])
        <3>1. CASE j \in {i}
            BY <2>3, <2>5, <3>1
        <3>2. CASE j \notin {i}
            <4>1. next[j] = j - 1 /\ next[j] \in D
                BY <2>2, <3>2
            <4>2. f[j - 1] \in AnyRange
                BY <2>5, <4>1
            <4> QED BY <2>3, <2>5, <3>2, <4>1, <4>2
        <3> QED BY <3>1, <3>2
    <2> QED BY <2>5, <2>6
<1>5. Loop(grown)
    <2>1. PICK f \in [D -> AnyRange] : \A j \in D : f[j] = IF j \in {i} THEN first ELSE Merged(f[j - 1], s[j])
        BY <1>4
    <2>2. \A j \in i .. Len(s) : j > i \/ (j = i /\ ~(j > i))
        BY <1>1
    <2>3. f = [j \in i .. Len(s) |->
                 IF j > i THEN Merged(f[j-1], s[j])
                 ELSE IF back THEN Merged(s[i-1], s[i]) ELSE s[i]]
        <3>1. \A j \in i .. Len(s) : f[j] = IF j > i THEN Merged(f[j-1], s[j])
                                            ELSE IF back THEN Merged(s[i-1], s[i]) ELSE s[i]
            BY <2>1, <2>2
        <3> QED BY <3>1
    <2>4. Loop(f)
        BY <2>3
    <2> HIDE DEF Loop
    <2> QED BY <2>4
<1>6. grown = [j \in i .. Len(s) |-> IF j > i THEN Merged(grown[j-1], s[j]) ELSE first]
    <2> HIDE DEF grown
    <2> QED BY <1>5
<1> HIDE DEF grown, first
<1>7. grown[i] = first /\ \A j \in i + 1 .. Len(s) : grown[j] = Merged(grown[j - 1], s[j])
    <2>1. i \in i .. Len(s) /\ ~(i > i) /\ \A j \in i + 1 .. Len(s) : j \in i .. Len(s) /\ j > i
        BY <1>1
    <2> QED BY <1>6, <2>1
<1>8. grown \in [i .. Len(s) -> AnyRange]
    <2> DEFINE T == {j \in i .. Len(s) : grown[j] \notin AnyRange}
    <2>1. T = {}
        <3> SUFFICES ASSUME T # {}
                     PROVE  FALSE
            OBVIOUS
        <3>1. PICK j \in T : \A k \in T : j <= k
            <4>1. T \in SUBSET Nat
                BY <1>1
            <4> HIDE DEF T
            <4> QED BY <4>1, LeastNumber
        <3>2. j \in i .. Len(s) /\ grown[j] \notin AnyRange
            OBVIOUS
        <3>3. j # i /\ j \in i + 1 .. Len(s) /\ j - 1 \in i .. Len(s) /\ ~(j <= j - 1) /\ j \in 1 .. Len(s)
            <4>1. j # i
                BY <1>3, <1>7, <3>2
            <4> QED BY <1>1, <3>2, <4>1
        <3>4. j - 1 \notin T
            <4> HIDE DEF T
            <4> QED BY <3>1, <3>3
        <3>5. grown[j - 1] \in AnyRange /\ s[j] \in AnyRange
            BY <1>1, <3>3, <3>4
        <3> QED BY <1>7, <3>2, <3>3, <3>5, MergedFacts
    <2> QED BY <1>6, <2>1
<1>9. stop \in i .. Len(s) /\ Stops(stop)
    <2> DEFINE T == {j \in i .. Len(s) : j < Len(s) => ~CanMerge(grown[j], s[j+1])}
    <2>1. PICK j \in T : \A k \in T : j <= k
        <3>1. T \in SUBSET Nat /\ Len(s) \in T
            BY <1>1
        <3> HIDE DEF T
        <3> QED BY <3>1, LeastNumber
    <2>2. j \in i .. Len(s) /\ (j < Len(s) => ~CanMerge(grown[j], s[j+1]))
        OBVIOUS
    <2>3. ASSUME NEW k \in i + 1 .. j
          PROVE  CanMerge(grown[k - 1], s[k])
        <3>1. k - 1 \in i .. Len(s) /\ ~(j <= k - 1) /\ k - 1 < Len(s) /\ k - 1 + 1 = k
            BY <1>1, <2>2
        <3>2. k - 1 \notin T
            <4> HIDE DEF T
            <4> QED BY <2>1, <3>1
        <3>3. CanMerge(grown[k - 1], s[k - 1 + 1])
            BY <3>1, <3>2
        <3> QED BY <3>1, <3>3
    <2>4. Stops(j)
        BY <2>2, <2>3
    <2> HIDE DEF Stops
    <2> QED BY <2>2, <2>4
<1> HIDE DEF stop
<1>10. start = Start(s, i) /\ first = First(s, i)
    BY DEF back, start, first, Start, First
<1> QED BY <1>2, <1>7, <1>8, <1>9, <1>10 DEF Grows

LEMMA CoalesceType ==
    ASSUME NEW s \in Seq(AnyRange), NEW i \in 1 .. Len(s)
    PROVE  Coalesce(s, i) \in Seq(AnyRange)
<1>1. PICK a \in 1 .. Len(s) + 1, x \in AnyRange, b \in 0 .. Len(s) :
           /\ b \in a - 1 .. Len(s)
           /\ Coalesce(s, i) = Splice(s, a, x, b)
    <2>1. PICK grown \in [i .. Len(s) -> AnyRange], stop \in i .. Len(s) :
              Coalesce(s, i) = Splice(s, Start(s, i), grown[stop], stop)
        BY CoalesceIs
    <2>2. Start(s, i) = i \/ (Start(s, i) = i - 1 /\ i > 1)
        BY DEF Start
    <2>3. Start(s, i) \in 1 .. Len(s) + 1 /\ stop \in 0 .. Len(s) /\ stop \in Start(s, i) - 1 .. Len(s)
        BY <2>2
    <2>4. grown[stop] \in AnyRange
        OBVIOUS
    <2> QED BY <2>1, <2>3, <2>4
<1> QED BY <1>1, Spliced

\* A list that is sorted but for its element at i, which lies after the elements before it
\* and before those after it, if not clear of them: "an element has been inserted at i".
SortedBut(s, i) ==
    /\ s \in Seq(NatRange) /\ i \in 1 .. Len(s)
    /\ \A k \in 1 .. Len(s) : s[k].Size > 0
    /\ \A k \in 1 .. Len(s) - 1 : k # i /\ k + 1 # i => End(s[k]) < s[k+1].Pos
    /\ \A k \in 1 .. i - 1 : s[k].Pos <= s[i].Pos
    /\ \A k \in i + 1 .. Len(s) : s[i].Pos <= s[k].Pos

\* coalesce makes such a list sorted, and covers the same bytes.
LEMMA CoalesceSorts ==
    ASSUME NEW s, NEW i, SortedBut(s, i)
    PROVE  Sorted(Coalesce(s, i)) /\ \A x : Covers(Coalesce(s, i), x) <=> Covers(s, x)
<1> DEFINE back == i > 1 /\ CanMerge(s[i-1], s[i])
           first == First(s, i)
           start == Start(s, i)
<1>1. /\ s \in Seq(NatRange) /\ i \in 1 .. Len(s) /\ Len(s) \in Nat
      /\ \A k \in 1 .. Len(s) : s[k].Size > 0
      /\ \A k \in 1 .. Len(s) - 1 : k # i /\ k + 1 # i => End(s[k]) < s[k+1].Pos
      /\ \A k \in 1 .. i - 1 : s[k].Pos <= s[i].Pos
      /\ \A k \in i + 1 .. Len(s) : s[i].Pos <= s[k].Pos
    BY DEF SortedBut
<1>2. /\ \A k \in 1 .. Len(s) : s[k] \in NatRange /\ s[k] \in AnyRange /\ s[k].Pos \in Nat
      /\ s \in Seq(AnyRange)
    <2>1. \A r \in NatRange : r \in AnyRange /\ r.Pos \in Nat
        BY DEF AnyRange, NatRange
    <2>2. \A k \in 1 .. Len(s) : s[k] \in NatRange
        BY <1>1
    <2>3. NatRange \subseteq AnyRange
        BY <2>1
    <2>4. s \in Seq(AnyRange)
        BY <1>1, <2>3, SeqMonotonic
    <2> QED BY <2>1, <2>2, <2>4
<1>3. PICK grown \in [i .. Len(s) -> AnyRange], stop \in i .. Len(s) :
          /\ Grows(s, i, grown, stop)
          /\ Coalesce(s, i) = Splice(s, start, grown[stop], stop)
    BY <1>1, <1>2, CoalesceIs
<1>4. /\ grown[i] = first
      /\ \A j \in i + 1 .. Len(s) : grown[j] = Merged(grown[j - 1], s[j])
      /\ \A k \in i + 1 .. stop : CanMerge(grown[k - 1], s[k])
      /\ stop < Len(s) => ~CanMerge(grown[stop], s[stop + 1])
    BY <1>3 DEF Grows
\* where it begins
<1>5. /\ start \in 1 .. i /\ first \in AnyRange /\ first.Size > 0
      /\ first.Pos \in Nat /\ first.Pos = s[start].Pos /\ first.Pos <= s[i].Pos
      /\ \A x : x \in Bytes(first) <=> \E k \in start .. i : x \in Bytes(s[k])
      /\ start > 1 => End(s[start - 1]) < first.Pos
    <2>1. CASE back
        <3>1. i - 1 \in 1 .. Len(s) /\ i - 1 \in 1 .. i - 1 /\ i > 1
            BY <1>1, <2>1
        <3>2. start = i - 1 /\ first = Merged(s[i-1], s[i])
            BY <2>1 DEF Start, First
        <3>3. s[i-1].Pos <= s[i].Pos /\ s[i-1].Size > 0 /\ s[i].Size > 0 /\ CanMerge(s[i-1], s[i])
            BY <1>1, <2>1, <3>1
        <3>4. s[i-1] \in AnyRange /\ s[i] \in AnyRange /\ s[i-1].Pos \in Nat
            BY <1>1, <1>2, <3>1
        <3>5. /\ first \in AnyRange /\ first.Pos = s[i-1].Pos /\ first.Size > 0
              /\ \A x : x \in Bytes(first) <=> x \in Bytes(s[i-1]) \/ x \in Bytes(s[i])
            BY <3>2, <3>3, <3>4, MergedFacts
        <3>6. \A k : k \in start .. i <=> k = i - 1 \/ k = i
            BY <1>1, <3>1, <3>2
        <3>7. start > 1 => End(s[start - 1]) < first.Pos
            <4>1. start > 1 => start - 1 \in 1 .. Len(s) - 1 /\ start - 1 # i /\ start - 1 + 1 # i
                               /\ start - 1 + 1 = start
                BY <1>1, <3>1, <3>2
            <4> QED BY <1>1, <3>2, <3>5, <4>1
        <3>8. \A x : x \in Bytes(first) <=> \E k \in start .. i : x \in Bytes(s[k])
            BY <3>5, <3>6
        <3>9. start \in 1 .. i /\ first.Pos \in Nat /\ first.Pos = s[start].Pos /\ first.Pos <= s[i].Pos
            <4> HIDE DEF start, first
            <4> QED BY <1>1, <3>1, <3>2, <3>3, <3>4, <3>5
        <3> HIDE DEF start, first
        <3> QED BY <3>5, <3>7, <3>8, <3>9
    <2>2. CASE ~back
        <3>1. start = i /\ first = s[i]
            BY <2>2 DEF Start, First
        <3>2. s[i] \in AnyRange /\ s[i].Size > 0 /\ s[i].Pos \in Nat /\ End(s[i]) \in Int
            BY <1>1, <1>2, RangeFacts
        <3>3. \A k : k \in start .. i <=> k = i
            BY <1>1, <3>1
        <3>4. start > 1 => End(s[start - 1]) < first.Pos
            <4>1. ASSUME start > 1
                  PROVE  End(s[start - 1]) < first.Pos
                <5>1. i - 1 \in 1 .. Len(s) /\ ~CanMerge(s[i-1], s[i])
                    BY <1>1, <2>2, <3>1, <4>1
                <5>2. End(s[i-1]) \in Int
                    BY <1>2, <5>1, RangeFacts
                <5> QED BY <3>1, <3>2, <5>1, <5>2 DEF CanMerge
            <4> QED BY <4>1
        <3>5. \A x : x \in Bytes(first) <=> \E k \in start .. i : x \in Bytes(s[k])
            BY <3>1, <3>3
        <3> QED BY <1>1, <3>1, <3>2, <3>4, <3>5
    <2> QED BY <2>1, <2>2
<1> HIDE DEF first, start, back
\* how it goes on
<1>6. \A j \in i .. stop : /\ grown[j] \in AnyRange /\ grown[j].Pos = first.Pos /\ grown[j].Size > 0
                           /\ \A x : x \in Bytes(grown[j]) <=> \E k \in start .. j : x \in Bytes(s[k])
    <2> DEFINE Right(j) == /\ grown[j] \in AnyRange /\ grown[j].Pos = first.Pos /\ grown[j].Size > 0
                           /\ \A x : x \in Bytes(grown[j]) <=> \E k \in start .. j : x \in Bytes(s[k])
               T == {j \in i .. stop : ~Right(j)}
    <2>1. Right(i)
        BY <1>4, <1>5
    <2>2. ASSUME NEW j \in i + 1 .. stop, Right(j - 1)
          PROVE  Right(j)
        <3>1. j \in 1 .. Len(s) /\ j \in i + 1 .. Len(s) /\ start \in Nat /\ start <= j
            BY <1>1, <1>5
        <3>2. grown[j] = Merged(grown[j-1], s[j]) /\ CanMerge(grown[j-1], s[j])
            BY <1>4, <3>1
        <3>3. s[j] \in AnyRange /\ s[j].Size > 0 /\ s[j].Pos \in Nat /\ s[i].Pos \in Nat /\ s[i].Pos <= s[j].Pos
            BY <1>1, <1>2, <3>1
        <3>4. grown[j-1] \in AnyRange /\ grown[j-1].Pos = first.Pos /\ grown[j-1].Size > 0
            BY <2>2
        <3>5. grown[j-1].Pos <= s[j].Pos
            BY <1>5, <3>3, <3>4
        <3>6. /\ grown[j] \in AnyRange /\ grown[j].Pos = first.Pos /\ grown[j].Size > 0
              /\ \A x : x \in Bytes(grown[j]) <=> x \in Bytes(grown[j-1]) \/ x \in Bytes(s[j])
            BY <3>2, <3>3, <3>4, <3>5, MergedFacts
        <3>7. \A k : k \in start .. j <=> k \in start .. j - 1 \/ k = j
            BY <3>1
        <3>8. \A x : x \in Bytes(grown[j]) <=> \E k \in start .. j : x \in Bytes(s[k])
            BY <2>2, <3>6, <3>7
        <3> QED BY <3>6, <3>8
    <2> HIDE DEF Right
    <2>3. T = {}
        <3> SUFFICES ASSUME T # {}
                     PROVE  FALSE
            OBVIOUS
        <3>1. PICK j \in T : \A k \in T : j <= k
            <4>1. T \in SUBSET Nat
                BY <1>1
            <4> HIDE DEF T
            <4> QED BY <4>1, LeastNumber
        <3>2. j \in i .. stop /\ ~Right(j)
            OBVIOUS
        <3>3. j \in i + 1 .. stop /\ j - 1 \in i .. stop /\ ~(j <= j - 1)
            <4>1. j # i
                BY <2>1, <3>2
            <4> QED BY <1>1, <3>2, <4>1
        <3>4. Right(j - 1)
            <4>1. j - 1 \notin T
                <5> HIDE DEF T
                <5> QED BY <3>1, <3>3
            <4> QED BY <3>3, <4>1
        <3> QED BY <2>2, <3>2, <3>3, <3>4
    <2>4. \A j \in i .. stop : Right(j)
        BY <2>3
    <2> QED BY <2>4 DEF Right
\* what it leaves
<1> DEFINE m == grown[stop]
           t == Coalesce(s, i)
<1>7. stop \in 1 .. Len(s) /\ start <= stop /\ start \in 1 .. Len(s) + 1 /\ stop \in start - 1 .. Len(s)
    BY <1>1, <1>5
<1>8. /\ m \in AnyRange /\ m.Pos = first.Pos /\ m.Size > 0 /\ m.Pos \in Nat /\ End(m) \in Int
      /\ \A x : x \in Bytes(m) <=> \E k \in start .. stop : x \in Bytes(s[k])
    <2>1. stop \in i .. stop
        BY <1>1
    <2> QED BY <1>5, <1>6, <2>1, RangeFacts
<1>9. m \in NatRange
    <2>1. m.Size \in Nat
        BY <1>8, RangeFacts
    <2> HIDE DEF m
    <2> QED BY <1>8, <2>1 DEF NatRange, AnyRange
<1> HIDE DEF m
<1>10. /\ t \in Seq(NatRange) /\ Len(t) = start + Len(s) - stop
       /\ \A n \in 1 .. start - 1 : t[n] = s[n]
       /\ t[start] = m
       /\ \A n \in start + 1 .. start + Len(s) - stop : t[n] = s[n - start + stop]
    <2>1. t = Splice(s, start, m, stop)
        BY <1>3 DEF m
    <2>2. s \in Seq(NatRange) /\ start \in 1 .. Len(s) + 1 /\ stop \in start - 1 .. Len(s)
        BY <1>1, <1>7
    <2> HIDE DEF t
    <2>3. t \in Seq(NatRange) /\ Len(t) = start + Len(s) - stop
        <3>1. /\ Splice(s, start, m, stop) \in Seq(NatRange)
              /\ Len(Splice(s, start, m, stop)) = start + Len(s) - stop
            BY <1>9, <2>2, Spliced
        <3> QED BY <2>1, <3>1
    <2>4. ASSUME NEW n \in 1 .. start - 1
          PROVE  t[n] = s[n]
        <3>1. Splice(s, start, m, stop)[n] = s[n]
            BY <1>9, <2>2, Spliced
        <3> QED BY <2>1, <3>1
    <2>5. t[start] = m
        <3>1. Splice(s, start, m, stop)[start] = m
            BY <1>9, <2>2, Spliced
        <3> QED BY <2>1, <3>1
    <2>6. ASSUME NEW n \in start + 1 .. start + Len(s) - stop
          PROVE  t[n] = s[n - start + stop]
        <3>1. Splice(s, start, m, stop)[n] = s[n - start + stop]
            BY <1>9, <2>2, Spliced
        <3> QED BY <2>1, <3>1
    <2> QED BY <2>3, <2>4, <2>5, <2>6
<1> HIDE DEF t
<1>11. \A n \in 1 .. Len(t) : /\ n < start => n \in 1 .. Len(s) /\ t[n] = s[n]
                              /\ n = start => t[n] = m
                              /\ n > start => /\ n - start + stop \in stop + 1 .. Len(s)
                                              /\ t[n] = s[n - start + stop]
    <2> SUFFICES ASSUME NEW n \in 1 .. Len(t)
                 PROVE  /\ n < start => n \in 1 .. Len(s) /\ t[n] = s[n]
                        /\ n = start => t[n] = m
                        /\ n > start => /\ n - start + stop \in stop + 1 .. Len(s)
                                        /\ t[n] = s[n - start + stop]
        OBVIOUS
    <2>1. n \in Int /\ n >= 1 /\ n <= start + Len(s) - stop
        BY <1>1, <1>7, <1>10
    <2>2. ASSUME n < start
          PROVE  n \in 1 .. Len(s) /\ t[n] = s[n]
        <3>1. n \in 1 .. start - 1 /\ n \in 1 .. Len(s)
            BY <1>1, <1>7, <2>1, <2>2
        <3> QED BY <1>10, <3>1
    <2>3. ASSUME n > start
          PROVE  n - start + stop \in stop + 1 .. Len(s) /\ t[n] = s[n - start + stop]
        <3>1. /\ n \in start + 1 .. start + Len(s) - stop
              /\ n - start + stop \in stop + 1 .. Len(s)
            BY <1>1, <1>7, <2>1, <2>3
        <3> QED BY <1>10, <3>1
    <2> QED BY <1>10, <2>2, <2>3
<1>12. \A n \in 1 .. Len(t) : t[n].Size > 0
    <2> SUFFICES ASSUME NEW n \in 1 .. Len(t)
                 PROVE  t[n].Size > 0
        OBVIOUS
    <2>1. n < start \/ n = start \/ n > start
        BY <1>5
    <2>2. n > start => n - start + stop \in 1 .. Len(s)
        BY <1>7, <1>11
    <2> QED BY <1>1, <1>8, <1>11, <2>1, <2>2
<1>13. ASSUME NEW n \in 1 .. Len(t) - 1
       PROVE  End(t[n]) < t[n+1].Pos
    <2>1. n \in 1 .. Len(t) /\ n + 1 \in 1 .. Len(t)
        BY <1>1, <1>7, <1>10
    <2>2. CASE n + 1 < start
        <3>1. n \in 1 .. start - 1 /\ n + 1 \in 1 .. start - 1 /\ n \in 1 .. Len(s) - 1 /\ n # i /\ n + 1 # i
            BY <1>1, <1>5, <1>7, <2>1, <2>2
        <3>2. t[n] = s[n] /\ t[n+1] = s[n+1]
            BY <1>10, <3>1
        <3> QED BY <1>1, <3>1, <3>2
    <2>3. CASE n + 1 = start
        <3>1. t[n] = s[start - 1] /\ t[n+1] = m /\ start > 1
            BY <1>7, <1>11, <2>1, <2>3
        <3> QED BY <1>5, <1>8, <3>1
    <2>4. CASE n = start
        <3>1. t[n] = m /\ t[n+1] = s[stop+1] /\ stop < Len(s) /\ stop + 1 \in 1 .. Len(s)
            <4> DEFINE j == n + 1
            <4>1. j \in start + 1 .. start + Len(s) - stop /\ j - start + stop = stop + 1
                <5>1. n \in Int /\ n <= start + Len(s) - stop - 1
                    BY <1>1, <1>7, <1>10
                <5>2. start \in Int /\ stop \in Int /\ Len(s) \in Int
                    BY <1>1, <1>7
                <5>3. j \in start + 1 .. start + Len(s) - stop
                    BY <2>4, <5>1, <5>2
                <5>4. j - start + stop = stop + 1
                    BY <2>4, <5>1, <5>2
                <5> QED BY <5>3, <5>4
            <4>2. t[n] = m
                BY <1>10, <2>4
            <4>3. t[n+1] = s[stop+1]
                <5> HIDE DEF j
                <5>1. t[j] = s[j - start + stop]
                    BY <1>10, <4>1
                <5>2. t[j] = s[stop+1]
                    BY <4>1, <5>1
                <5> QED BY <5>2 DEF j
            <4>4. stop < Len(s) /\ stop + 1 \in 1 .. Len(s)
                <5> HIDE DEF j
                <5>1. start \in Int /\ stop \in Nat /\ Len(s) \in Int
                    BY <1>1, <1>7
                <5>2. start + 1 <= start + Len(s) - stop
                    BY <4>1, <5>1
                <5> QED BY <5>1, <5>2
            <4> QED BY <4>1, <4>2, <4>3, <4>4
        <3>2. ~CanMerge(m, s[stop+1]) /\ s[stop+1].Pos \in Nat
            BY <1>2, <1>4, <3>1 DEF m
        <3> QED BY <1>8, <3>1, <3>2 DEF CanMerge
    <2>5. CASE n > start
        <3> DEFINE k == n - start + stop
        <3>1. /\ n + 1 > start /\ n + 1 - start + stop = k + 1
              /\ k \in stop + 1 .. Len(s) /\ k + 1 \in stop + 1 .. Len(s)
              /\ t[n] = s[k] /\ t[n+1] = s[k+1]
            <4>1. n + 1 > start /\ n + 1 - start + stop = k + 1
                BY <1>7, <2>5
            <4>2. k \in stop + 1 .. Len(s) /\ t[n] = s[k]
                BY <1>11, <2>1, <2>5
            <4> DEFINE j == n + 1
            <4>3. j \in start + 1 .. start + Len(s) - stop /\ j - start + stop = k + 1 /\ k + 1 \in stop + 1 .. Len(s)
                <5>1. n \in Int /\ n > start /\ n <= start + Len(s) - stop - 1
                    BY <1>1, <1>7, <1>10, <2>5
                <5>2. start \in Int /\ stop \in Int /\ Len(s) \in Int
                    BY <1>1, <1>7
                <5>3. j \in start + 1 .. start + Len(s) - stop
                    BY <5>1, <5>2
                <5>4. j - start + stop = k + 1 /\ k + 1 \in stop + 1 .. Len(s)
                    BY <5>1, <5>2
                <5> QED BY <5>3, <5>4
            <4> HIDE DEF j, k
            <4>4. t[j] = s[j - start + stop]
                BY <1>10, <4>3
            <4>5. t[n + 1] = s[k + 1]
                BY <4>3, <4>4 DEF j
            <4> QED BY <4>1, <4>2, <4>3, <4>5
        <3> HIDE DEF k
        <3>2. k \in 1 .. Len(s) - 1 /\ k # i /\ k + 1 # i
            BY <1>1, <1>7, <3>1
        <3> QED BY <1>1, <3>1, <3>2
    <2> QED BY <1>7, <2>2, <2>3, <2>4, <2>5
<1>14. Sorted(t)
    BY <1>10, <1>12, <1>13 DEF Sorted
<1>15. ASSUME NEW x
       PROVE  Covers(t, x) <=> Covers(s, x)
    <2>1. ASSUME NEW n \in 1 .. Len(t), x \in Bytes(t[n])
          PROVE  \E k \in 1 .. Len(s) : x \in Bytes(s[k])
        <3>1. CASE n < start
            BY <1>11, <2>1, <3>1
        <3>2. CASE n = start
            <4>1. PICK k \in start .. stop : x \in Bytes(s[k])
                BY <1>8, <1>11, <2>1, <3>2
            <4>2. k \in 1 .. Len(s)
                BY <1>7
            <4> QED BY <4>1, <4>2
        <3>3. CASE n > start
            <4>1. n - start + stop \in 1 .. Len(s)
                BY <1>7, <1>11, <3>3
            <4> QED BY <1>11, <2>1, <3>3, <4>1
        <3> QED BY <1>7, <3>1, <3>2, <3>3
    <2>2. ASSUME NEW k \in 1 .. Len(s), x \in Bytes(s[k])
          PROVE  \E n \in 1 .. Len(t) : x \in Bytes(t[n])
        <3>1. CASE k < start
            <4>1. k \in 1 .. Len(t)
                BY <1>1, <1>7, <1>10, <3>1
            <4> QED BY <1>11, <2>2, <3>1, <4>1
        <3>2. CASE k \in start .. stop
            <4>1. start \in 1 .. Len(t) /\ t[start] = m
                BY <1>1, <1>7, <1>10
            <4>2. x \in Bytes(m)
                BY <1>8, <2>2, <3>2
            <4> QED BY <4>1, <4>2
        <3>3. CASE k > stop
            <4> DEFINE n == k - stop + start
            <4>1. n \in 1 .. Len(t) /\ n > start /\ n - start + stop = k
                BY <1>1, <1>7, <1>10, <3>3
            <4> HIDE DEF n
            <4>2. t[n] = s[k]
                BY <1>11, <4>1
            <4> QED BY <2>2, <4>1, <4>2
        <3> QED BY <1>7, <3>1, <3>2, <3>3
    <2> QED BY <2>1, <2>2 DEF Covers
<1> QED BY <1>14, <1>15 DEF t

-------------------------------------------------------------------------------
(* Insert *)

\* In a sorted list a range ends before every later one begins.
LEMMA SortedFacts ==
    ASSUME NEW s, Sorted(s)
    PROVE  /\ s \in Seq(NatRange) /\ s \in Seq(AnyRange) /\ Len(s) \in Nat
           /\ \A k \in 1 .. Len(s) : /\ s[k] \in NatRange /\ s[k] \in AnyRange
                                     /\ s[k].Pos \in Nat /\ End(s[k]) \in Int
                                     /\ s[k].Size > 0 /\ s[k].Pos < End(s[k])
           /\ \A i, j \in 1 .. Len(s) : i < j => End(s[i]) < s[j].Pos
<1>1. /\ s \in Seq(NatRange) /\ Len(s) \in Nat
      /\ \A k \in 1 .. Len(s) : s[k] \in NatRange /\ s[k].Size > 0
      /\ \A k \in 1 .. Len(s) - 1 : End(s[k]) < s[k+1].Pos
    <2>1. s \in Seq(NatRange)
        BY DEF Sorted
    <2>2. Len(s) \in Nat /\ \A k \in 1 .. Len(s) : s[k] \in NatRange
        BY <2>1
    <2> QED BY <2>1, <2>2 DEF Sorted
<1>2. NatRange \subseteq AnyRange /\ \A r \in NatRange : r.Pos \in Nat
    BY DEF NatRange, AnyRange
<1>3. \A k \in 1 .. Len(s) : /\ s[k] \in AnyRange /\ s[k].Pos \in Nat /\ End(s[k]) \in Int
                             /\ s[k].Pos < End(s[k])
    <2> SUFFICES ASSUME NEW k \in 1 .. Len(s)
                 PROVE  /\ s[k] \in AnyRange /\ s[k].Pos \in Nat /\ End(s[k]) \in Int
                        /\ s[k].Pos < End(s[k])
        OBVIOUS
    <2>1. s[k] \in AnyRange /\ s[k].Pos \in Nat /\ s[k].Size > 0
        BY <1>1, <1>2
    <2>2. End(s[k]) = s[k].Pos + s[k].Size /\ s[k].Size \in Int /\ End(s[k]) \in Int
        BY <2>1, RangeFacts
    <2> QED BY <2>1, <2>2
<1>4. s \in Seq(AnyRange)
    BY <1>1, <1>2, SeqMonotonic
<1>5. ASSUME NEW i \in 1 .. Len(s)
      PROVE  \A j \in i + 1 .. Len(s) : End(s[i]) < s[j].Pos
    <2> DEFINE T == {j \in i + 1 .. Len(s) : ~(End(s[i]) < s[j].Pos)}
    <2> SUFFICES ASSUME T # {}
                 PROVE  FALSE
        OBVIOUS
    <2>1. PICK j \in T : \A k \in T : j <= k
        <3>1. T \in SUBSET Nat
            BY <1>1
        <3> HIDE DEF T
        <3> QED BY <3>1, LeastNumber
    <2>2. j \in i + 1 .. Len(s) /\ ~(End(s[i]) < s[j].Pos)
        OBVIOUS
    <2>3. j - 1 \in 1 .. Len(s) - 1 /\ j - 1 + 1 = j /\ j - 1 \in 1 .. Len(s) /\ j \in 1 .. Len(s) /\ ~(j <= j - 1)
        BY <1>1, <2>2
    <2>4. End(s[j-1]) < s[j].Pos
        BY <1>1, <2>3
    <2>5. j # i + 1 /\ j - 1 \in i + 1 .. Len(s)
        <3>1. j # i + 1
            <4>1. j = i + 1 => j - 1 = i
                BY <1>1
            <4> QED BY <2>2, <2>4, <4>1
        <3> QED BY <1>1, <2>2, <3>1
    <2>6. End(s[i]) < s[j-1].Pos
        <3>1. j - 1 \notin T
            <4> HIDE DEF T
            <4> QED BY <2>1, <2>3
        <3> QED BY <2>5, <3>1
    <2>7. /\ End(s[i]) \in Int /\ s[j-1].Pos \in Nat /\ End(s[j-1]) \in Int /\ s[j].Pos \in Nat
          /\ s[j-1].Pos < End(s[j-1])
        BY <1>3, <2>3
    <2>8. ~(End(s[i]) < s[j].Pos)
        BY <2>2
    <2> HIDE DEF T
    <2> QED BY <2>4, <2>6, <2>7, <2>8
<1>6. ASSUME NEW i \in 1 .. Len(s), NEW j \in 1 .. Len(s), i < j
      PROVE  End(s[i]) < s[j].Pos
    <2>1. j \in i + 1 .. Len(s)
        BY <1>1, <1>6
    <2> QED BY <1>5, <2>1
<1> QED BY <1>1, <1>3, <1>4, <1>6

\* The cases of Insert.
LEMMA InsertIs ==
    ASSUME NEW s, NEW r
    PROVE  LET i == Search(s, r) IN
           \/ IsEmpty(r) /\ Insert(s, r) = s
           \/ ~IsEmpty(r) /\ s = <<>> /\ Insert(s, r) = <<r>>
           \/ /\ ~IsEmpty(r) /\ s # <<>> /\ i <= Len(s) /\ CanMerge(r, s[i])
              /\ Insert(s, r) = Coalesce([s EXCEPT ![i] = Merged(r, s[i])], i)
           \/ /\ ~IsEmpty(r) /\ s # <<>> /\ ~(i <= Len(s) /\ CanMerge(r, s[i]))
              /\ Insert(s, r) = Coalesce(SubSeq(s, 1, i - 1) \o <<r>> \o SubSeq(s, i, Len(s)), i)
<1> DEFINE i == Search(s, r)
<1> HIDE DEF i
<1>1. CASE IsEmpty(r)
    BY <1>1 DEF Insert
<1>2. CASE ~IsEmpty(r) /\ s = <<>>
    BY <1>2 DEF Insert
<1>3. CASE ~IsEmpty(r) /\ s # <<>> /\ i <= Len(s) /\ CanMerge(r, s[i])
    BY <1>3 DEF Insert, i
<1>4. CASE ~IsEmpty(r) /\ s # <<>> /\ ~(i <= Len(s) /\ CanMerge(r, s[i]))
    BY <1>4 DEF Insert, i
<1> QED BY <1>1, <1>2, <1>3, <1>4 DEF i

LEMMA InsertType ==
    ASSUME NEW s \in Seq(AnyRange), NEW r \in AnyRange
    PROVE  Insert(s, r) \in Seq(AnyRange)
<1> DEFINE i == Search(s, r)
<1>1. i \in 1 .. Len(s) + 1 /\ Len(s) \in Nat
    BY SearchFacts
<1> HIDE DEF i
<1>2. CASE ~IsEmpty(r) /\ s = <<>> /\ Insert(s, r) = <<r>>
    <2>1. <<r>> \in Seq(AnyRange)
        OBVIOUS
    <2> QED BY <1>2, <2>1
<1>3. CASE i <= Len(s) /\ Insert(s, r) = Coalesce([s EXCEPT ![i] = Merged(r, s[i])], i)
    <2> DEFINE m == Merged(r, s[i])
               t == [s EXCEPT ![i] = m]
    <2>1. i \in 1 .. Len(s) /\ s[i] \in AnyRange
        BY <1>1, <1>3
    <2>2. m \in AnyRange
        BY <2>1, MergedFacts
    <2> HIDE DEF m
    <2>3. t \in Seq(AnyRange) /\ Len(t) = Len(s)
        BY <2>1, <2>2, ExceptSeq
    <2> HIDE DEF t
    <2>4. Coalesce(t, i) \in Seq(AnyRange)
        BY <2>1, <2>3, CoalesceType
    <2> QED BY <1>3, <2>4 DEF t, m
<1>4. CASE Insert(s, r) = Coalesce(SubSeq(s, 1, i - 1) \o <<r>> \o SubSeq(s, i, Len(s)), i)
    <2> DEFINE t == Splice(s, i, r, i - 1)
    <2>1. i - 1 \in i - 1 .. Len(s) /\ i - 1 + 1 = i
        BY <1>1
    <2>2. t \in Seq(AnyRange) /\ Len(t) = i + Len(s) - (i - 1)
        BY <1>1, <2>1, Spliced
    <2>3. t = SubSeq(s, 1, i - 1) \o <<r>> \o SubSeq(s, i, Len(s))
        BY <2>1 DEF Splice
    <2> HIDE DEF t
    <2>4. i \in 1 .. Len(t)
        BY <1>1, <2>2
    <2>5. Coalesce(t, i) \in Seq(AnyRange)
        BY <2>2, <2>4, CoalesceType
    <2> QED BY <1>4, <2>3, <2>5
<1> QED BY <1>2, <1>3, <1>4, InsertIs DEF i

\* Insert keeps a list sorted and coalesced, and adds the bytes of r and no others.
THEOREM InsertCorrect ==
    ASSUME NEW s, Sorted(s), NEW r \in [Pos : Nat, Size : Int]
    PROVE  /\ Sorted(Insert(s, r))
           /\ AllBytes(Insert(s, r)) = AllBytes(s) \cup Bytes(r)
<1> DEFINE i == Search(s, r)
           Right(t) == Sorted(t) /\ \A x : Covers(t, x) <=> Covers(s, x) \/ x \in Bytes(r)
<1> SUFFICES Right(Insert(s, r))
    BY AllBytesIsCovered
<1>1. r \in AnyRange /\ r.Pos \in Nat
    BY DEF AnyRange
<1>2. /\ s \in Seq(NatRange) /\ s \in Seq(AnyRange) /\ Len(s) \in Nat
      /\ \A k \in 1 .. Len(s) : /\ s[k] \in NatRange /\ s[k] \in AnyRange
                                /\ s[k].Pos \in Nat /\ End(s[k]) \in Int
                                /\ s[k].Size > 0 /\ s[k].Pos < End(s[k])
      /\ \A j, k \in 1 .. Len(s) : j < k => End(s[j]) < s[k].Pos
    BY SortedFacts
<1>3. /\ i \in 1 .. Len(s) + 1
      /\ i <= Len(s) => s[i].Pos >= r.Pos
      /\ \A k \in 1 .. i - 1 : s[k].Pos < r.Pos
    BY <1>1, <1>2, SearchFacts
<1> HIDE DEF i
<1>4. r.Size \in Int /\ (~IsEmpty(r) => r.Size > 0 /\ r \in NatRange)
    <2>1. r = [Pos |-> r.Pos, Size |-> r.Size] /\ r.Size \in Int
        OBVIOUS
    <2>2. ~IsEmpty(r) => r.Size > 0
        BY <2>1 DEF IsEmpty
    <2> QED BY <2>1, <2>2 DEF NatRange
\* the elements behind the place of the search
<1>5. \A k \in 1 .. Len(s) : k >= i => r.Pos <= s[k].Pos
    <2> SUFFICES ASSUME NEW k \in 1 .. Len(s), k >= i
                 PROVE  r.Pos <= s[k].Pos
        OBVIOUS
    <2>1. i \in 1 .. Len(s) /\ r.Pos <= s[i].Pos
        BY <1>1, <1>2, <1>3
    <2>2. k = i \/ (i < k /\ End(s[i]) < s[k].Pos)
        BY <1>2, <2>1
    <2>3. s[i].Pos \in Nat /\ s[k].Pos \in Nat /\ End(s[i]) \in Int /\ s[i].Pos < End(s[i])
        BY <1>2, <2>1
    <2> QED BY <1>1, <2>1, <2>2, <2>3
<1>6. CASE IsEmpty(r) /\ Insert(s, r) = s
    <2>1. \A x : x \notin Bytes(r)
        BY <1>1, <1>4, <1>6, RangeFacts
    <2> QED BY <1>6, <2>1
<1>7. CASE ~IsEmpty(r) /\ s = <<>> /\ Insert(s, r) = <<r>>
    <2> DEFINE t == <<r>>
    <2>1. Len(t) = 1 /\ t[1] = r /\ t \in Seq(NatRange)
        BY <1>4, <1>7
    <2> HIDE DEF t
    <2>2. Sorted(t)
        BY <1>4, <1>7, <2>1 DEF Sorted
    <2>3. \A x : Covers(t, x) <=> x \in Bytes(r)
        <3>1. \A k : k \in 1 .. 1 <=> k = 1
            OBVIOUS
        <3> QED BY <2>1, <3>1 DEF Covers
    <2>4. \A x : ~Covers(s, x)
        <3>1. Len(s) = 0 /\ 1 .. 0 = {}
            BY <1>7
        <3> QED BY <3>1 DEF Covers
    <2>5. Insert(s, r) = t
        BY <1>7 DEF t
    <2> QED BY <2>2, <2>3, <2>4, <2>5
<1>8. CASE /\ ~IsEmpty(r) /\ i <= Len(s) /\ CanMerge(r, s[i])
           /\ Insert(s, r) = Coalesce([s EXCEPT ![i] = Merged(r, s[i])], i)
    <2> DEFINE m == Merged(r, s[i])
               t == [s EXCEPT ![i] = m]
    <2>1. i \in 1 .. Len(s) /\ s[i] \in AnyRange /\ r.Pos <= s[i].Pos /\ s[i].Size > 0 /\ r.Size > 0
        BY <1>2, <1>3, <1>4, <1>5, <1>8
    <2>2. /\ m \in AnyRange /\ m.Pos = r.Pos /\ m.Size > 0
          /\ \A x : x \in Bytes(m) <=> x \in Bytes(r) \/ x \in Bytes(s[i])
        BY <1>1, <1>8, <2>1, MergedFacts
    <2> HIDE DEF m
    <2>3. m \in NatRange
        BY <1>1, <2>2 DEF NatRange, AnyRange
    <2>4. /\ t \in Seq(NatRange) /\ Len(t) = Len(s)
          /\ t[i] = m /\ \A k \in 1 .. Len(s) : k # i => t[k] = s[k]
        BY <1>2, <2>1, <2>3, ExceptSeq
    <2>5. Insert(s, r) = Coalesce(t, i)
        BY <1>8 DEF t, m
    <2> HIDE DEF t
    <2>6. \A k \in 1 .. Len(t) : t[k].Size > 0
        BY <1>2, <2>2, <2>4
    <2>7. \A k \in 1 .. Len(t) - 1 : k # i /\ k + 1 # i => End(t[k]) < t[k+1].Pos
        <3> SUFFICES ASSUME NEW k \in 1 .. Len(t) - 1, k # i, k + 1 # i
                     PROVE  End(t[k]) < t[k+1].Pos
            OBVIOUS
        <3>1. k \in 1 .. Len(s) /\ k + 1 \in 1 .. Len(s) /\ k < k + 1
            BY <1>2, <2>4
        <3> QED BY <1>2, <2>4, <3>1
    <2>8. \A k \in 1 .. i - 1 : t[k].Pos <= t[i].Pos
        <3> SUFFICES ASSUME NEW k \in 1 .. i - 1
                     PROVE  t[k].Pos <= t[i].Pos
            OBVIOUS
        <3>1. k \in 1 .. Len(s) /\ k # i
            BY <2>1
        <3> QED BY <1>1, <1>2, <1>3, <2>2, <2>4, <3>1
    <2>9. \A k \in i + 1 .. Len(t) : t[i].Pos <= t[k].Pos
        <3> SUFFICES ASSUME NEW k \in i + 1 .. Len(t)
                     PROVE  t[i].Pos <= t[k].Pos
            OBVIOUS
        <3>1. k \in 1 .. Len(s) /\ k # i /\ k >= i
            BY <1>2, <2>1, <2>4
        <3> QED BY <1>5, <2>2, <2>4, <3>1
    <2>10. SortedBut(t, i)
        BY <2>1, <2>4, <2>6, <2>7, <2>8, <2>9 DEF SortedBut
    <2>11. \A x : Covers(t, x) <=> Covers(s, x) \/ x \in Bytes(r)
        BY <2>1, <2>2, <2>4 DEF Covers
    <2> QED BY <2>5, <2>10, <2>11, CoalesceSorts
<1>9. CASE /\ ~IsEmpty(r) /\ ~(i <= Len(s) /\ CanMerge(r, s[i]))
           /\ Insert(s, r) = Coalesce(SubSeq(s, 1, i - 1) \o <<r>> \o SubSeq(s, i, Len(s)), i)
    <2> DEFINE t == Splice(s, i, r, i - 1)
    <2>1. i - 1 \in i - 1 .. Len(s) /\ i - 1 + 1 = i /\ r \in NatRange /\ r.Size > 0
        BY <1>2, <1>3, <1>4, <1>9
    <2>2. t \in Seq(NatRange) /\ Len(t) = Len(s) + 1
        <3>1. t \in Seq(NatRange) /\ Len(t) = i + Len(s) - (i - 1)
            BY <1>2, <1>3, <2>1, Spliced
        <3> HIDE DEF t
        <3> QED BY <1>2, <1>3, <3>1
    <2>3. (\A k \in 1 .. i - 1 : t[k] = s[k]) /\ t[i] = r
        BY <1>2, <1>3, <2>1, Spliced
    <2>4. \A k \in i + 1 .. Len(s) + 1 : t[k] = s[k - 1]
        <3>1. ASSUME NEW k \in i + 1 .. i + Len(s) - (i - 1)
              PROVE  t[k] = s[k - i + (i - 1)]
            <4> DEFINE b == i - 1
            <4>1. b \in i - 1 .. Len(s) /\ k \in i + 1 .. i + Len(s) - b
                BY <2>1
            <4> HIDE DEF b
            <4>2. Splice(s, i, r, b)[k] = s[k - i + b]
                BY <1>2, <1>3, <2>1, <4>1, Spliced
            <4> QED BY <4>2 DEF b
        <3> HIDE DEF t
        <3>2. ASSUME NEW k \in i + 1 .. Len(s) + 1
              PROVE  t[k] = s[k - 1]
            <4>1. k \in i + 1 .. i + Len(s) - (i - 1) /\ k - i + (i - 1) = k - 1
                BY <1>2, <1>3
            <4> QED BY <3>1, <4>1
        <3> QED BY <3>2
    <2>5. Insert(s, r) = Coalesce(t, i)
        BY <1>9, <2>1 DEF Splice
    <2> HIDE DEF t
    <2>6. \A k \in 1 .. Len(t) : k \in 1 .. i - 1 \/ k = i \/ (k \in i + 1 .. Len(s) + 1 /\ k - 1 \in 1 .. Len(s) /\ k - 1 >= i)
        BY <1>2, <1>3, <2>2
    <2>7. \A k \in 1 .. i - 1 : k \in 1 .. Len(s)
        BY <1>2, <1>3
    <2>8. \A k \in 1 .. Len(t) : t[k].Size > 0
        BY <1>2, <2>1, <2>3, <2>4, <2>6, <2>7
    <2>9. \A k \in 1 .. Len(t) - 1 : k # i /\ k + 1 # i => End(t[k]) < t[k+1].Pos
        <3> SUFFICES ASSUME NEW k \in 1 .. Len(t) - 1, k # i, k + 1 # i
                     PROVE  End(t[k]) < t[k+1].Pos
            OBVIOUS
        <3>1. CASE k < i
            <4>1. /\ k \in 1 .. i - 1 /\ k + 1 \in 1 .. i - 1
                  /\ k \in 1 .. Len(s) /\ k + 1 \in 1 .. Len(s) /\ k < k + 1
                BY <1>2, <1>3, <3>1
            <4> QED BY <1>2, <2>3, <4>1
        <3>2. CASE k > i
            <4>1. /\ k \in i + 1 .. Len(s) + 1 /\ k + 1 \in i + 1 .. Len(s) + 1
                  /\ k - 1 \in 1 .. Len(s) /\ k \in 1 .. Len(s) /\ k - 1 < k /\ k + 1 - 1 = k
                BY <1>2, <1>3, <2>2, <3>2
            <4>2. t[k] = s[k - 1] /\ t[k + 1] = s[k]
                BY <2>4, <4>1
            <4> QED BY <1>2, <4>1, <4>2
        <3> QED BY <1>2, <1>3, <3>1, <3>2
    <2>10. \A k \in 1 .. i - 1 : t[k].Pos <= t[i].Pos
        <3> SUFFICES ASSUME NEW k \in 1 .. i - 1
                     PROVE  t[k].Pos <= t[i].Pos
            OBVIOUS
        <3>1. s[k].Pos \in Nat /\ s[k].Pos < r.Pos
            BY <1>2, <1>3, <2>7
        <3> QED BY <1>1, <2>3, <3>1
    <2>11. \A k \in i + 1 .. Len(t) : t[i].Pos <= t[k].Pos
        <3> SUFFICES ASSUME NEW k \in i + 1 .. Len(t)
                     PROVE  t[i].Pos <= t[k].Pos
            OBVIOUS
        <3>1. k - 1 \in 1 .. Len(s) /\ k - 1 >= i /\ k \in i + 1 .. Len(s) + 1
            BY <1>2, <1>3, <2>2
        <3> QED BY <1>5, <2>3, <2>4, <3>1
    <2>12. i \in 1 .. Len(t)
        BY <1>2, <1>3, <2>2
    <2>13. SortedBut(t, i)
        BY <2>2, <2>8, <2>9, <2>10, <2>11, <2>12 DEF SortedBut
    <2>14. ASSUME NEW x
           PROVE  Covers(t, x) <=> Covers(s, x) \/ x \in Bytes(r)
        <3>1. ASSUME NEW k \in 1 .. Len(t), x \in Bytes(t[k])
              PROVE  Covers(s, x) \/ x \in Bytes(r)
            BY <2>3, <2>4, <2>6, <2>7, <3>1 DEF Covers
        <3>2. ASSUME NEW k \in 1 .. Len(s), x \in Bytes(s[k])
              PROVE  Covers(t, x)
            <4>1. CASE k < i
                <5>1. k \in 1 .. i - 1 /\ k \in 1 .. Len(t)
                    BY <1>2, <1>3, <2>2, <4>1
                <5> QED BY <2>3, <3>2, <5>1 DEF Covers
            <4>2. CASE k >= i
                <5>1. k + 1 \in i + 1 .. Len(s) + 1 /\ k + 1 - 1 = k /\ k + 1 \in 1 .. Len(t)
                    BY <1>2, <1>3, <2>2, <4>2
                <5>2. t[k + 1] = s[k]
                    BY <2>4, <5>1
                <5> QED BY <3>2, <5>1, <5>2 DEF Covers
            <4> QED BY <1>2, <1>3, <4>1, <4>2
        <3>3. x \in Bytes(r) => Covers(t, x)
            BY <2>3, <2>12 DEF Covers
        <3> QED BY <3>1, <3>2, <3>3 DEF Covers
    <2> QED BY <2>5, <2>13, <2>14, CoalesceSorts
<1> HIDE DEF Right
<1> QED BY <1>6, <1>7, <1>8, <1>9, InsertIs DEF i

-------------------------------------------------------------------------------
(* Find *)

\* Two ranges that are not empty have a range in common exactly if they overlap.
LEMMA IntersectFacts ==
    ASSUME NEW a \in AnyRange, NEW b \in AnyRange, a.Size > 0, b.Size > 0
    PROVE  LET m == Intersect(a, b) IN
           /\ m \in AnyRange
           /\ IsEmpty(m) <=> ~(a.Pos < End(b) /\ b.Pos < End(a))
           /\ ~IsEmpty(m) => /\ m.Pos = IF a.Pos >= b.Pos THEN a.Pos ELSE b.Pos
                             /\ End(m) = IF End(a) <= End(b) THEN End(a) ELSE End(b)
<1> DEFINE m == Intersect(a, b)
           meet == a.Pos < End(b) /\ b.Pos < End(a)
<1>1. /\ a.Pos \in Int /\ End(a) \in Int /\ a.Pos < End(a)
      /\ b.Pos \in Int /\ End(b) \in Int /\ b.Pos < End(b)
    <2>1. /\ a.Pos \in Int /\ a.Size \in Int /\ End(a) = a.Pos + a.Size /\ End(a) \in Int
          /\ b.Pos \in Int /\ b.Size \in Int /\ End(b) = b.Pos + b.Size /\ End(b) \in Int
        BY RangeFacts
    <2> QED BY <2>1
<1>2. CASE meet
    <2>1. PICK p \in Int : p = IF a.Pos >= b.Pos THEN a.Pos ELSE b.Pos
        BY <1>1
    <2>2. PICK e \in Int : e = IF End(a) <= End(b) THEN End(a) ELSE End(b)
        BY <1>1
    <2>3. m = [Pos |-> p, Size |-> e - p]
        <3>1. \/ a.Pos >= b.Pos /\ a.Pos < End(b)
              \/ b.Pos >= a.Pos /\ b.Pos < End(a)
            BY <1>1, <1>2
        <3>2. Max2(a.Pos, b.Pos) = p /\ Min2(End(a), End(b)) = e
            BY <2>1, <2>2 DEF Max2, Min2
        <3> QED BY <3>1, <3>2 DEF Intersect
    <2>4. m \in AnyRange /\ m.Pos = p /\ m.Size = e - p
        BY <2>3 DEF AnyRange
    <2> HIDE DEF m
    <2>5. End(m) = p + (e - p)
        BY <2>4 DEF End
    <2>6. End(m) = e /\ e - p > 0
        BY <1>1, <1>2, <2>1, <2>2, <2>5
    <2>7. ~IsEmpty(m)
        BY <2>4, <2>6 DEF IsEmpty
    <2> QED BY <1>2, <2>1, <2>2, <2>4, <2>6, <2>7 DEF m
<1>3. CASE ~meet
    <2>1. ~(\/ a.Pos >= b.Pos /\ a.Pos < End(b)
            \/ b.Pos >= a.Pos /\ b.Pos < End(a))
        BY <1>1, <1>3
    <2>2. m = EmptyRange
        BY <2>1 DEF Intersect
    <2>3. EmptyRange \in AnyRange /\ IsEmpty(EmptyRange)
        BY DEF EmptyRange, AnyRange, IsEmpty
    <2> QED BY <1>3, <2>2, <2>3
<1> QED BY <1>2, <1>3

\* Right behind a range of a sorted list there is a hole.
LEMMA HoleBehind ==
    ASSUME NEW s, Sorted(s), NEW i \in 1 .. Len(s)
    PROVE  ~Covers(s, End(s[i]))
<1>1. /\ Len(s) \in Nat
      /\ \A k \in 1 .. Len(s) : s[k] \in AnyRange /\ s[k].Pos \in Nat /\ End(s[k]) \in Int /\ s[k].Pos < End(s[k])
      /\ \A j, k \in 1 .. Len(s) : j < k => End(s[j]) < s[k].Pos
    BY SortedFacts
<1> SUFFICES ASSUME NEW k \in 1 .. Len(s), End(s[i]) \in Bytes(s[k])
             PROVE  FALSE
    BY DEF Covers
<1>2. s[k].Pos <= End(s[i]) /\ End(s[i]) < End(s[k])
    BY <1>1, RangeFacts
<1>3. k = i \/ k < i \/ i < k
    BY <1>1
<1>4. /\ k < i => End(s[k]) < s[i].Pos
      /\ i < k => End(s[i]) < s[k].Pos
    BY <1>1
<1>5. s[k].Pos \in Nat /\ End(s[k]) \in Int /\ s[i].Pos \in Nat /\ End(s[i]) \in Int /\ s[i].Pos < End(s[i])
    BY <1>1
<1> QED BY <1>2, <1>3, <1>4, <1>5

\* What Find is to answer: the longest part at the beginning of r that is all covered, or
\* not covered at all, and the rest.
Answers(s, r, f) ==
    /\ f.curr \in AnyRange /\ f.next \in AnyRange /\ f.present \in BOOLEAN
    /\ f.curr.Pos = r.Pos /\ f.curr.Size > 0 /\ End(f.curr) <= End(r)
    /\ f.present => \A x \in Bytes(f.curr) : Covers(s, x)
    /\ ~f.present => \A x \in Bytes(f.curr) : ~Covers(s, x)
    /\ End(f.curr) = End(r) => IsEmpty(f.next)
    /\ End(f.curr) # End(r) => /\ f.next.Pos = End(f.curr) /\ End(f.next) = End(r)
                               /\ Covers(s, f.next.Pos) <=> ~f.present

LEMMA AfterFacts ==
    ASSUME NEW r \in AnyRange, NEW c \in AnyRange, c.Pos = r.Pos
    PROVE  /\ After(r, c) \in AnyRange
           /\ After(r, c).Pos = End(c) /\ End(After(r, c)) = End(r)
           /\ End(c) = End(r) => IsEmpty(After(r, c))
<1>1. /\ r.Pos \in Int /\ r.Size \in Int /\ End(r) = r.Pos + r.Size /\ c.Size \in Int
      /\ End(c) = r.Pos + c.Size /\ End(c) \in Int
    BY RangeFacts
<1>2. PICK z \in Int : z = r.Size - c.Size
    BY <1>1
<1>3. After(r, c) = [Pos |-> End(c), Size |-> z]
    BY <1>2 DEF After
<1>4. After(r, c) \in AnyRange /\ After(r, c).Pos = End(c) /\ After(r, c).Size = z
    BY <1>1, <1>3 DEF AnyRange
<1>5. End(After(r, c)) = End(c) + z
    BY <1>4 DEF End
<1>6. IsEmpty(After(r, c)) <=> z <= 0
    BY <1>4 DEF IsEmpty
<1> HIDE DEF After, End
<1> QED BY <1>1, <1>2, <1>4, <1>5, <1>6

LEMMA FindEmpty ==
    ASSUME NEW s, NEW r, IsEmpty(r)
    PROVE  Find(s, r) = [curr |-> r, next |-> EmptyRange, present |-> FALSE]
BY DEF Find

LEMMA FindAnswers ==
    ASSUME NEW s, Sorted(s), NEW r \in AnyRange, ~IsEmpty(r)
    PROVE  Answers(s, r, Find(s, r))
<1> DEFINE i == Search(s, r)
           f == Find(s, r)
           before == IF i > 1 THEN Intersect(s[i-1], r) ELSE EmptyRange
           here == IF i <= Len(s) THEN Intersect(s[i], r) ELSE EmptyRange
           gap == [Pos |-> r.Pos, Size |-> here.Pos - r.Pos]
<1>1. /\ Len(s) \in Nat /\ s \in Seq(AnyRange)
      /\ \A k \in 1 .. Len(s) : /\ s[k] \in AnyRange /\ s[k].Size > 0
                                /\ s[k].Pos \in Int /\ End(s[k]) \in Int /\ s[k].Pos < End(s[k])
      /\ \A j, k \in 1 .. Len(s) : j < k => End(s[j]) < s[k].Pos
    BY SortedFacts
<1>2. /\ i \in 1 .. Len(s) + 1
      /\ i <= Len(s) => s[i].Pos >= r.Pos
      /\ \A k \in 1 .. i - 1 : s[k].Pos < r.Pos
    BY <1>1, SearchFacts
<1>3. r.Pos \in Int /\ r.Size \in Int /\ r.Size > 0 /\ End(r) \in Int /\ r.Pos < End(r)
    <2>1. r.Pos \in Int /\ r.Size \in Int /\ End(r) = r.Pos + r.Size /\ End(r) \in Int /\ (IsEmpty(r) <=> r.Size <= 0)
        BY RangeFacts
    <2> QED BY <2>1
<1>4. f = IF ~IsEmpty(before) THEN [curr |-> before, next |-> After(r, before), present |-> TRUE]
          ELSE IF IsEmpty(here) THEN [curr |-> r, next |-> EmptyRange, present |-> FALSE]
          ELSE IF r.Pos < here.Pos THEN [curr |-> gap, next |-> After(r, gap), present |-> FALSE]
          ELSE [curr |-> here, next |-> After(r, here), present |-> TRUE]
    <2> HIDE DEF before, here
    <2>1. CASE ~IsEmpty(before)
        BY <2>1 DEF Find, before, here
    <2>2. CASE IsEmpty(before) /\ IsEmpty(here)
        BY <2>2 DEF Find, before, here
    <2>3. CASE IsEmpty(before) /\ ~IsEmpty(here) /\ r.Pos < here.Pos
        BY <2>3 DEF Find, before, here
    <2>4. CASE IsEmpty(before) /\ ~IsEmpty(here) /\ ~(r.Pos < here.Pos)
        BY <2>4 DEF Find, before, here
    <2> QED BY <2>1, <2>2, <2>3, <2>4
<1> HIDE DEF i, f
<1>5. EmptyRange \in AnyRange /\ IsEmpty(EmptyRange)
    BY DEF EmptyRange, AnyRange, IsEmpty
<1>6. /\ before \in AnyRange
      /\ ~IsEmpty(before) => /\ i - 1 \in 1 .. Len(s) /\ before.Pos = r.Pos
                             /\ End(before) = IF End(s[i-1]) <= End(r) THEN End(s[i-1]) ELSE End(r)
      /\ IsEmpty(before) /\ i > 1 => End(s[i-1]) <= r.Pos
    <2>1. CASE i > 1
        <3>1. i - 1 \in 1 .. Len(s) /\ i - 1 \in 1 .. i - 1
            BY <1>1, <1>2, <2>1
        <3>2. /\ s[i-1] \in AnyRange /\ s[i-1].Size > 0 /\ s[i-1].Pos < r.Pos
              /\ s[i-1].Pos \in Int /\ End(s[i-1]) \in Int
            BY <1>1, <1>2, <3>1
        <3>3. before = Intersect(s[i-1], r)
            BY <2>1
        <3> HIDE DEF before
        <3>4. /\ before \in AnyRange
              /\ IsEmpty(before) <=> ~(s[i-1].Pos < End(r) /\ r.Pos < End(s[i-1]))
              /\ ~IsEmpty(before) => /\ before.Pos = IF s[i-1].Pos >= r.Pos THEN s[i-1].Pos ELSE r.Pos
                                     /\ End(before) = IF End(s[i-1]) <= End(r) THEN End(s[i-1]) ELSE End(r)
            BY <1>3, <3>2, <3>3, IntersectFacts
        <3>5. IsEmpty(before) => End(s[i-1]) <= r.Pos
            BY <1>3, <3>2, <3>4
        <3>6. ~IsEmpty(before) => before.Pos = r.Pos
            BY <1>3, <3>2, <3>4
        <3> QED BY <3>1, <3>4, <3>5, <3>6
    <2>2. CASE ~(i > 1)
        BY <1>5, <2>2
    <2> QED BY <2>1, <2>2
<1>7. /\ here \in AnyRange
      /\ ~IsEmpty(here) => /\ i \in 1 .. Len(s) /\ here.Pos = s[i].Pos /\ s[i].Pos < End(r)
                           /\ End(here) = IF End(s[i]) <= End(r) THEN End(s[i]) ELSE End(r)
      /\ IsEmpty(here) /\ i <= Len(s) => End(r) <= s[i].Pos
    <2>1. CASE i <= Len(s)
        <3>1. i \in 1 .. Len(s)
            BY <1>1, <1>2, <2>1
        <3>2. /\ s[i] \in AnyRange /\ s[i].Size > 0 /\ s[i].Pos >= r.Pos
              /\ s[i].Pos \in Int /\ End(s[i]) \in Int /\ s[i].Pos < End(s[i])
            BY <1>1, <1>2, <3>1
        <3>3. here = Intersect(s[i], r)
            BY <2>1
        <3> HIDE DEF here
        <3>4. /\ here \in AnyRange
              /\ IsEmpty(here) <=> ~(s[i].Pos < End(r) /\ r.Pos < End(s[i]))
              /\ ~IsEmpty(here) => /\ here.Pos = IF s[i].Pos >= r.Pos THEN s[i].Pos ELSE r.Pos
                                   /\ End(here) = IF End(s[i]) <= End(r) THEN End(s[i]) ELSE End(r)
            BY <1>3, <3>2, <3>3, IntersectFacts
        <3>5. IsEmpty(here) => End(r) <= s[i].Pos
            BY <1>3, <3>2, <3>4
        <3>6. ~IsEmpty(here) => here.Pos = s[i].Pos /\ s[i].Pos < End(r)
            BY <1>3, <3>2, <3>4
        <3> QED BY <3>1, <3>4, <3>5, <3>6
    <2>2. CASE ~(i <= Len(s))
        BY <1>5, <2>2
    <2> QED BY <2>1, <2>2
<1> HIDE DEF before, here
<1>8. CASE ~IsEmpty(before)
    <2>1. f.curr = before /\ f.next = After(r, before) /\ f.present = TRUE
        BY <1>4, <1>8
    <2>2. /\ i - 1 \in 1 .. Len(s) /\ before.Pos = r.Pos /\ before.Size > 0
          /\ before \in AnyRange /\ s[i-1] \in AnyRange
        BY <1>1, <1>6, <1>8, RangeFacts
    <2>3. /\ End(s[i-1]) \in Int /\ s[i-1].Pos \in Int /\ s[i-1].Pos < r.Pos
        BY <1>1, <1>2, <2>2
    <2>4. /\ End(before) <= End(r) /\ End(before) <= End(s[i-1]) /\ End(before) \in Int
          /\ End(before) # End(r) => End(before) = End(s[i-1])
        BY <1>3, <1>6, <1>8, <2>3
    <2>5. ASSUME NEW x \in Bytes(before)
          PROVE  Covers(s, x)
        <3>1. x \in Int /\ r.Pos <= x /\ x < End(before)
            BY <2>2, RangeFacts
        <3>2. s[i-1].Pos <= x /\ x < End(s[i-1])
            BY <1>3, <2>3, <2>4, <3>1
        <3>3. x \in Bytes(s[i-1])
            BY <2>2, <3>1, <3>2, RangeFacts
        <3> QED BY <2>2, <3>3 DEF Covers
    <2>6. /\ After(r, before) \in AnyRange
          /\ After(r, before).Pos = End(before) /\ End(After(r, before)) = End(r)
          /\ End(before) = End(r) => IsEmpty(After(r, before))
        BY <2>2, AfterFacts
    <2>7. End(before) # End(r) => ~Covers(s, After(r, before).Pos)
        BY <2>2, <2>4, <2>6, HoleBehind
    <2> QED BY <2>1, <2>2, <2>4, <2>5, <2>6, <2>7 DEF Answers, f
<1>9. ASSUME IsEmpty(before), NEW x \in Int, r.Pos <= x, NEW k \in 1 .. Len(s), k < i
      PROVE  x \notin Bytes(s[k])
    <2>1. /\ i > 1 /\ i - 1 \in 1 .. Len(s) /\ End(s[i-1]) <= r.Pos
          /\ k = i - 1 \/ k < i - 1
        BY <1>1, <1>2, <1>6, <1>9
    <2>2. End(s[k]) <= End(s[i-1]) /\ End(s[k]) \in Int /\ End(s[i-1]) \in Int
        <3>1. End(s[k]) \in Int /\ End(s[i-1]) \in Int /\ s[i-1].Pos \in Int /\ s[i-1].Pos < End(s[i-1])
            BY <1>1, <2>1
        <3>2. k < i - 1 => End(s[k]) < s[i-1].Pos
            BY <1>1, <2>1
        <3> QED BY <2>1, <3>1, <3>2
    <2>3. ~(x < End(s[k]))
        BY <1>3, <1>9, <2>1, <2>2
    <2> QED BY <1>1, <2>3, RangeFacts
<1>10. ASSUME NEW k \in 1 .. Len(s), ~(k < i)
       PROVE  i \in 1 .. Len(s) /\ s[i].Pos <= s[k].Pos
    <2>1. i \in 1 .. Len(s) /\ (k = i \/ i < k)
        BY <1>1, <1>2, <1>10
    <2>2. s[i].Pos \in Int /\ End(s[i]) \in Int /\ s[i].Pos < End(s[i]) /\ s[k].Pos \in Int
        BY <1>1, <2>1
    <2>3. i < k => End(s[i]) < s[k].Pos
        BY <1>1, <2>1
    <2> QED BY <2>1, <2>2, <2>3
<1>11. CASE IsEmpty(before) /\ IsEmpty(here)
    <2>1. f.curr = r /\ f.next = EmptyRange /\ f.present = FALSE
        BY <1>4, <1>11
    <2>2. ASSUME NEW x \in Bytes(r)
          PROVE  ~Covers(s, x)
        <3>1. x \in Int /\ r.Pos <= x /\ x < End(r)
            BY RangeFacts
        <3> SUFFICES ASSUME NEW k \in 1 .. Len(s), x \in Bytes(s[k])
                     PROVE  FALSE
            BY DEF Covers
        <3>2. ~(k < i)
            BY <1>9, <1>11, <3>1
        <3>3. i \in 1 .. Len(s) /\ s[i].Pos <= s[k].Pos
            BY <1>10, <3>2
        <3>4. End(r) <= s[i].Pos /\ s[i].Pos \in Int /\ s[k].Pos \in Int
            BY <1>1, <1>7, <1>11, <3>3
        <3>5. s[k].Pos <= x
            BY <1>1, RangeFacts
        <3> QED BY <1>3, <3>1, <3>3, <3>4, <3>5
    <2>3. End(r) <= End(r)
        BY <1>3
    <2> QED BY <1>3, <1>5, <2>1, <2>2, <2>3 DEF Answers, f
<1>12. CASE IsEmpty(before) /\ ~IsEmpty(here) /\ r.Pos < here.Pos
    <2>1. f.curr = gap /\ f.next = After(r, gap) /\ f.present = FALSE
        BY <1>4, <1>12
    <2>2. /\ i \in 1 .. Len(s) /\ here.Pos = s[i].Pos /\ s[i].Pos < End(r)
          /\ s[i].Pos \in Int /\ s[i] \in AnyRange /\ s[i].Pos < End(s[i])
        BY <1>1, <1>7, <1>12
    <2>3. PICK z \in Int : z = s[i].Pos - r.Pos
        BY <1>3, <2>2
    <2>4. gap = [Pos |-> r.Pos, Size |-> z]
        BY <2>2, <2>3
    <2>5. gap \in AnyRange /\ gap.Pos = r.Pos /\ gap.Size = z
        BY <1>3, <2>4 DEF AnyRange
    <2> HIDE DEF gap
    <2>6. End(gap) = r.Pos + z
        BY <2>5, RangeFacts
    <2>7. End(gap) = s[i].Pos /\ z > 0 /\ End(gap) <= End(r) /\ End(gap) # End(r)
        BY <1>3, <1>12, <2>2, <2>3, <2>6
    <2>8. ASSUME NEW x \in Bytes(gap)
          PROVE  ~Covers(s, x)
        <3>1. x \in Int /\ r.Pos <= x /\ x < s[i].Pos
            BY <2>5, <2>7, RangeFacts
        <3> SUFFICES ASSUME NEW k \in 1 .. Len(s), x \in Bytes(s[k])
                     PROVE  FALSE
            BY DEF Covers
        <3>2. ~(k < i)
            BY <1>9, <1>12, <3>1
        <3>3. s[i].Pos <= s[k].Pos /\ s[k].Pos \in Int
            BY <1>1, <1>10, <3>2
        <3>4. s[k].Pos <= x
            BY <1>1, RangeFacts
        <3> QED BY <2>2, <3>1, <3>3, <3>4
    <2>9. Covers(s, s[i].Pos)
        <3>1. s[i].Pos \in Bytes(s[i])
            BY <2>2, RangeFacts
        <3> QED BY <2>2, <3>1 DEF Covers
    <2>10. /\ After(r, gap) \in AnyRange
           /\ After(r, gap).Pos = End(gap) /\ End(After(r, gap)) = End(r)
        BY <2>5, AfterFacts
    <2> QED BY <2>1, <2>5, <2>7, <2>8, <2>9, <2>10 DEF Answers, f
<1>13. CASE IsEmpty(before) /\ ~IsEmpty(here) /\ ~(r.Pos < here.Pos)
    <2>1. f.curr = here /\ f.next = After(r, here) /\ f.present = TRUE
        BY <1>4, <1>13
    <2>2. /\ i \in 1 .. Len(s) /\ here.Pos = s[i].Pos /\ here.Size > 0
          /\ here \in AnyRange /\ s[i] \in AnyRange
        BY <1>1, <1>7, <1>13, RangeFacts
    <2>3. End(s[i]) \in Int /\ s[i].Pos \in Int /\ s[i].Pos >= r.Pos
        BY <1>1, <1>2, <2>2
    <2>4. /\ here.Pos = r.Pos
          /\ End(here) <= End(r) /\ End(here) <= End(s[i]) /\ End(here) \in Int
          /\ End(here) # End(r) => End(here) = End(s[i])
        BY <1>3, <1>7, <1>13, <2>2, <2>3
    <2>5. ASSUME NEW x \in Bytes(here)
          PROVE  Covers(s, x)
        <3>1. x \in Int /\ s[i].Pos <= x /\ x < End(here)
            BY <2>2, RangeFacts
        <3>2. x < End(s[i])
            BY <2>3, <2>4, <3>1
        <3>3. x \in Bytes(s[i])
            BY <2>2, <3>1, <3>2, RangeFacts
        <3> QED BY <2>2, <3>3 DEF Covers
    <2>6. /\ After(r, here) \in AnyRange
          /\ After(r, here).Pos = End(here) /\ End(After(r, here)) = End(r)
          /\ End(here) = End(r) => IsEmpty(After(r, here))
        BY <2>2, <2>4, AfterFacts
    <2>7. End(here) # End(r) => ~Covers(s, After(r, here).Pos)
        BY <2>2, <2>4, <2>6, HoleBehind
    <2> QED BY <2>1, <2>2, <2>4, <2>5, <2>6, <2>7 DEF Answers, f
<1> QED BY <1>8, <1>11, <1>12, <1>13

-------------------------------------------------------------------------------
(* FindAll *)

Found == [R : AnyRange, Present : BOOLEAN]

Part(s, q) == [R |-> Find(s, q).curr, Present |-> Find(s, q).present]

\* Find takes something off the range it is given.
LEMMA FindShrinks ==
    ASSUME NEW s, Sorted(s), NEW q \in AnyRange
    PROVE  /\ Part(s, q) \in Found /\ Find(s, q).next \in AnyRange
           /\ ~IsEmpty(q) => Find(s, q).next.Size < q.Size
<1> DEFINE f == Find(s, q)
<1>1. CASE IsEmpty(q)
    <2>1. f = [curr |-> q, next |-> EmptyRange, present |-> FALSE]
        BY <1>1, FindEmpty
    <2>2. EmptyRange \in AnyRange
        BY DEF EmptyRange, AnyRange
    <2> HIDE DEF f
    <2>3. f.curr = q /\ f.next = EmptyRange /\ f.present = FALSE
        BY <2>1
    <2> QED BY <1>1, <2>2, <2>3 DEF Part, Found, f
<1>2. CASE ~IsEmpty(q)
    <2>1. Answers(s, q, f)
        BY <1>2, FindAnswers
    <2> HIDE DEF f
    <2>2. f.curr \in AnyRange /\ f.next \in AnyRange /\ f.present \in BOOLEAN
        BY <2>1 DEF Answers
    <2>3. /\ f.curr.Pos = q.Pos /\ f.curr.Size > 0
          /\ End(f.curr) = End(q) => IsEmpty(f.next)
          /\ End(f.curr) # End(q) => f.next.Pos = End(f.curr) /\ End(f.next) = End(q)
        BY <2>1 DEF Answers
    <2>4. /\ q.Pos \in Int /\ q.Size \in Int /\ End(q) = q.Pos + q.Size
          /\ f.curr.Size \in Int /\ End(f.curr) = q.Pos + f.curr.Size
          /\ f.next.Pos \in Int /\ f.next.Size \in Int /\ End(f.next) = f.next.Pos + f.next.Size
          /\ IsEmpty(f.next) <=> f.next.Size <= 0
          /\ q.Size > 0
        BY <1>2, <2>2, <2>3, RangeFacts
    <2>5. f.next.Size < q.Size
        <3>1. CASE End(f.curr) = End(q)
            BY <2>3, <2>4, <3>1
        <3>2. CASE End(f.curr) # End(q)
            BY <2>3, <2>4, <3>2
        <3> QED BY <3>1, <3>2
    <2>6. Part(s, q) \in Found
        BY <2>2 DEF Part, Found, f
    <2> QED BY <2>2, <2>5, <2>6 DEF f
<1> QED BY <1>1, <1>2

\* How FindAll is computed: its loop always ends.
LEMMA FindAllIs ==
    ASSUME NEW s, Sorted(s)
    PROVE  \E all \in [AnyRange -> Seq(Found)] :
              /\ \A q \in AnyRange : IF IsEmpty(q) THEN all[q] = <<>>
                                     ELSE all[q] = <<Part(s, q)>> \o all[Find(s, q).next]
              /\ \A r : FindAll(s, r) = all[r]
<1> DEFINE Loops(f) == f = [q \in [Pos : Int, Size : Int] |->
                              IF IsEmpty(q) THEN <<>>
                              ELSE <<[R |-> Find(s, q).curr, Present |-> Find(s, q).present]>>
                                   \o f[Find(s, q).next]]
           all == CHOOSE f : Loops(f)
           V == Seq(Found)
           Done == {q \in AnyRange : IsEmpty(q)}
           base == [q \in AnyRange |-> <<>>]
           next == [q \in AnyRange |-> Find(s, q).next]
           step == [q \in AnyRange |-> [v \in V |-> <<Part(s, q)>> \o v]]
           size == [q \in AnyRange |-> IF q.Size > 0 THEN q.Size ELSE 0]
<1>1. \A r : FindAll(s, r) = all[r]
    BY DEF FindAll
<1> HIDE DEF all
<1>2. \A q \in AnyRange : Part(s, q) \in Found /\ Find(s, q).next \in AnyRange
    BY FindShrinks
<1>3. Recurses(AnyRange, V, Done, base, next, step, size)
    <2>1. base \in [AnyRange -> V]
        OBVIOUS
    <2>2. next \in [AnyRange -> AnyRange]
        BY <1>2
    <2>3. step \in [AnyRange -> [V -> V]]
        <3>1. \A q \in AnyRange, v \in V : <<Part(s, q)>> \o v \in V
            <4> SUFFICES ASSUME NEW q \in AnyRange, NEW v \in V
                         PROVE  <<Part(s, q)>> \o v \in V
                OBVIOUS
            <4>1. <<Part(s, q)>> \in Seq(Found)
                BY <1>2
            <4> QED BY <4>1, ConcatProperties
        <3> HIDE DEF V
        <3> QED BY <3>1
    <2>4. \A q \in AnyRange : q.Size \in Int /\ (IsEmpty(q) <=> q.Size <= 0)
        BY RangeFacts
    <2>5. size \in [AnyRange -> Nat]
        BY <2>4
    <2>6. ASSUME NEW q \in AnyRange \ Done
          PROVE  size[next[q]] < size[q]
        <3>1. ~IsEmpty(q) /\ next[q] = Find(s, q).next /\ Find(s, q).next \in AnyRange /\ q \in AnyRange
            BY <1>2
        <3>2. Find(s, q).next.Size < q.Size
            BY <3>1, FindShrinks
        <3> DEFINE n == Find(s, q).next
        <3>3. n.Size \in Int /\ q.Size \in Int /\ q.Size > 0
            BY <2>4, <3>1
        <3>4. size[n] = (IF n.Size > 0 THEN n.Size ELSE 0) /\ size[q] = q.Size
            BY <3>1, <3>3
        <3> HIDE DEF n, size, next
        <3>5. next[q] = n /\ n.Size < q.Size
            BY <3>1, <3>2 DEF n
        <3> QED BY <3>3, <3>4, <3>5
    <2> HIDE DEF V, Done, base, next, step, size
    <2> QED BY <2>1, <2>2, <2>3, <2>5, <2>6 DEF Recurses
<1>4. PICK f : Computed(f, AnyRange, V, Done, base, next, step)
    <2> HIDE DEF V, Done, base, next, step, size
    <2> QED BY <1>3, RecursionDefined
<1>5. /\ f \in [AnyRange -> V]
      /\ \A q \in AnyRange : f[q] = IF q \in Done THEN base[q] ELSE step[q][f[next[q]]]
    <2> HIDE DEF V, Done, base, next, step, size
    <2> QED BY <1>4 DEF Computed
<1>6. \A q \in AnyRange : f[q] = IF IsEmpty(q) THEN <<>> ELSE <<Part(s, q)>> \o f[Find(s, q).next]
    <2> SUFFICES ASSUME NEW q \in AnyRange
                 PROVE  f[q] = IF IsEmpty(q) THEN <<>> ELSE <<Part(s, q)>> \o f[Find(s, q).next]
        OBVIOUS
    <2>1. base[q] = <<>> /\ next[q] = Find(s, q).next /\ next[q] \in AnyRange /\ (q \in Done <=> IsEmpty(q))
        BY <1>2
    <2>2. f[next[q]] \in V
        BY <1>5, <2>1
    <2>3. \A v \in V : step[q][v] = <<Part(s, q)>> \o v
        OBVIOUS
    <2> HIDE DEF V, Done, base, next, step, size
    <2>4. f[q] = IF q \in Done THEN base[q] ELSE step[q][f[next[q]]]
        BY <1>5
    <2>5. step[q][f[next[q]]] = <<Part(s, q)>> \o f[next[q]]
        BY <2>2, <2>3
    <2> QED BY <2>1, <2>4, <2>5
<1>7. Loops(f)
    <2>1. f = [q \in AnyRange |-> f[q]]
        BY <1>5
    <2>2. f = [q \in AnyRange |-> IF IsEmpty(q) THEN <<>> ELSE <<Part(s, q)>> \o f[Find(s, q).next]]
        BY <1>6, <2>1
    <2> QED BY <2>2 DEF AnyRange, Part
<1>8. Loops(all)
    <2> HIDE DEF Loops
    <2> QED BY <1>7 DEF all
<1>9. /\ DOMAIN all = AnyRange
      /\ \A q \in AnyRange : IF IsEmpty(q) THEN all[q] = <<>>
                             ELSE all[q] = <<Part(s, q)>> \o all[Find(s, q).next]
    BY <1>8 DEF AnyRange, Part
<1>10. all \in [AnyRange -> V]
    <2> DEFINE Bad == {q \in AnyRange : all[q] \notin V}
               T == {size[q] : q \in Bad}
    <2>1. Bad = {}
        <3> SUFFICES ASSUME Bad # {}
                     PROVE  FALSE
            OBVIOUS
        <3>1. size \in [AnyRange -> Nat] /\ next \in [AnyRange -> AnyRange] /\ \A q \in AnyRange \ Done : size[next[q]] < size[q]
            <4> HIDE DEF V, Done, base, next, step, size
            <4> QED BY <1>3 DEF Recurses
        <3>2. \A q \in AnyRange : next[q] = Find(s, q).next /\ (q \in Done <=> IsEmpty(q))
            OBVIOUS
        <3> HIDE DEF size, next, Done
        <3>3. PICK k \in T : \A j \in T : k <= j
            <4>1. T \in SUBSET Nat /\ T # {}
                BY <3>1
            <4> HIDE DEF T
            <4> QED BY <4>1, LeastNumber
        <3>4. PICK q \in Bad : k = size[q]
            OBVIOUS
        <3>5. q \in AnyRange /\ all[q] \notin V
            OBVIOUS
        <3>6. ~IsEmpty(q)
            <4>1. <<>> \in V
                OBVIOUS
            <4> HIDE DEF V
            <4> QED BY <1>9, <3>5, <4>1
        <3>7. all[q] = <<Part(s, q)>> \o all[next[q]] /\ next[q] \in AnyRange
            BY <1>9, <3>1, <3>2, <3>5, <3>6
        <3>8. size[next[q]] \in Nat /\ size[q] \in Nat /\ size[next[q]] < size[q]
            BY <3>1, <3>2, <3>5, <3>6, <3>7
        <3>9. all[next[q]] \in V
            <4>1. size[next[q]] \notin T
                <5> HIDE DEF T
                <5> QED BY <3>3, <3>4, <3>8
            <4> QED BY <3>7, <4>1
        <3>10. <<Part(s, q)>> \in Seq(Found)
            BY <1>2, <3>5
        <3>11. <<Part(s, q)>> \o all[next[q]] \in Seq(Found)
            BY <3>9, <3>10, ConcatProperties
        <3> QED BY <3>5, <3>7, <3>11
    <2>2. \A q \in AnyRange : all[q] \in V
        BY <2>1
    <2>3. all = [q \in AnyRange |-> all[q]]
        BY <1>8 DEF AnyRange
    <2> HIDE DEF V
    <2> QED BY <2>2, <2>3
<1> QED BY <1>1, <1>9, <1>10

\* An answer of Find begins where the question does and says whether that byte is there.
LEMMA AnswerFacts ==
    ASSUME NEW s, NEW q \in AnyRange, NEW f, Answers(s, q, f)
    PROVE  /\ q.Pos \in Int /\ End(q) \in Int /\ End(f.curr) \in Int /\ q.Pos < End(f.curr)
           /\ f.next.Pos \in Int /\ End(f.next) \in Int
           /\ f.present <=> Covers(s, q.Pos)
           /\ IsEmpty(f.next) <=> End(f.curr) = End(q)
<1>1. /\ f.curr \in AnyRange /\ f.next \in AnyRange /\ f.present \in BOOLEAN
      /\ f.curr.Pos = q.Pos /\ f.curr.Size > 0 /\ End(f.curr) <= End(q)
      /\ f.present => \A x \in Bytes(f.curr) : Covers(s, x)
      /\ ~f.present => \A x \in Bytes(f.curr) : ~Covers(s, x)
      /\ End(f.curr) = End(q) => IsEmpty(f.next)
      /\ End(f.curr) # End(q) => f.next.Pos = End(f.curr) /\ End(f.next) = End(q)
    BY DEF Answers
<1>2. /\ q.Pos \in Int /\ End(q) \in Int /\ End(f.curr) \in Int /\ q.Pos < End(f.curr)
      /\ f.next.Pos \in Int /\ End(f.next) \in Int
      /\ IsEmpty(f.next) <=> End(f.next) <= f.next.Pos
    <2>1. /\ f.curr.Size \in Int /\ f.curr.Pos \in Int /\ End(f.curr) = f.curr.Pos + f.curr.Size
          /\ q.Pos \in Int /\ End(q) \in Int /\ End(f.curr) \in Int
          /\ f.next.Pos \in Int /\ f.next.Size \in Int /\ End(f.next) = f.next.Pos + f.next.Size
          /\ End(f.next) \in Int
          /\ IsEmpty(f.next) <=> f.next.Size <= 0
        BY <1>1, RangeFacts
    <2>2. q.Pos < End(f.curr)
        BY <1>1, <2>1
    <2>3. IsEmpty(f.next) <=> End(f.next) <= f.next.Pos
        BY <2>1
    <2> QED BY <2>1, <2>2, <2>3
<1>3. /\ \A x : x \in Bytes(f.curr) <=> x \in Int /\ q.Pos <= x /\ x < End(f.curr)
      /\ \A x : x \in Bytes(f.next) <=> x \in Int /\ f.next.Pos <= x /\ x < End(f.next)
      /\ \A x : x \in Bytes(q) <=> x \in Int /\ q.Pos <= x /\ x < End(q)
    BY <1>1, RangeFacts
<1>4. f.present <=> Covers(s, q.Pos)
    <2>1. q.Pos \in Bytes(f.curr)
        BY <1>2, <1>3
    <2> QED BY <1>1, <2>1
<1>5. IsEmpty(f.next) <=> End(f.curr) = End(q)
    <2>1. CASE End(f.curr) # End(q)
        <3>1. f.next.Pos = End(f.curr) /\ End(f.next) = End(q) /\ End(f.curr) <= End(q)
            BY <1>1, <2>1
        <3> QED BY <1>2, <2>1, <3>1
    <2> QED BY <1>1, <2>1
<1> QED BY <1>2, <1>4, <1>5

\* x is in a part that is said to be present.
InPresent(fs, x) == \E i \in 1 .. Len(fs) : fs[i].Present /\ x \in Bytes(fs[i].R)

\* What FindAll is to say of q: it splits q, in order and without gap or overlap, into
\* parts that alternate, and those present are the bytes of q that s has.
Parts(s, q, fs) ==
    /\ fs \in Seq(Found) /\ Len(fs) >= 1
    /\ fs[1].R.Pos = q.Pos /\ End(fs[Len(fs)].R) = End(q)
    /\ fs[1].Present <=> Covers(s, q.Pos)
    /\ \A i \in 1 .. Len(fs) : fs[i].R.Pos >= q.Pos
    /\ \A i \in 1 .. Len(fs) - 1 :
          End(fs[i].R) = fs[i+1].R.Pos /\ fs[i].Present # fs[i+1].Present
    /\ \A x : InPresent(fs, x) <=> x \in Bytes(q) /\ Covers(s, x)

LEMMA PartsStep ==
    ASSUME NEW s, NEW q \in AnyRange, ~IsEmpty(q), Part(s, q) \in Found,
           Answers(s, q, Find(s, q)),
           NEW rest \in Seq(Found),
           IF IsEmpty(Find(s, q).next) THEN rest = <<>> ELSE Parts(s, Find(s, q).next, rest)
    PROVE  Parts(s, q, <<Part(s, q)>> \o rest)
<1> DEFINE f == Find(s, q)
           p == Part(s, q)
           fs == <<p>> \o rest
<1>1. p.R = f.curr /\ p.Present = f.present /\ p \in Found
    BY DEF Part
<1>2. /\ f.curr \in AnyRange /\ f.next \in AnyRange /\ f.present \in BOOLEAN
      /\ f.curr.Pos = q.Pos /\ f.curr.Size > 0 /\ End(f.curr) <= End(q)
      /\ f.present => \A x \in Bytes(f.curr) : Covers(s, x)
      /\ ~f.present => \A x \in Bytes(f.curr) : ~Covers(s, x)
      /\ End(f.curr) = End(q) => IsEmpty(f.next)
      /\ End(f.curr) # End(q) => /\ f.next.Pos = End(f.curr) /\ End(f.next) = End(q)
                                 /\ Covers(s, f.next.Pos) <=> ~f.present
    BY DEF Answers
<1>3. IF IsEmpty(f.next) THEN rest = <<>> ELSE Parts(s, f.next, rest)
    OBVIOUS
<1>4. /\ fs \in Seq(Found) /\ Len(fs) = 1 + Len(rest) /\ Len(rest) \in Nat /\ fs[1] = p
      /\ \A i \in 1 .. Len(rest) : fs[i+1] = rest[i]
    BY <1>1
<1> HIDE DEF f, p, fs
<1>5. /\ q.Pos \in Int /\ End(q) \in Int /\ End(f.curr) \in Int /\ q.Pos < End(f.curr)
      /\ f.next.Pos \in Int /\ End(f.next) \in Int
    BY AnswerFacts DEF f
<1>6. /\ \A x : x \in Bytes(f.curr) <=> x \in Int /\ q.Pos <= x /\ x < End(f.curr)
      /\ \A x : x \in Bytes(f.next) <=> x \in Int /\ f.next.Pos <= x /\ x < End(f.next)
      /\ \A x : x \in Bytes(q) <=> x \in Int /\ q.Pos <= x /\ x < End(q)
    BY <1>2, RangeFacts
<1>7. f.present <=> Covers(s, q.Pos)
    BY AnswerFacts DEF f
<1>8. IsEmpty(f.next) <=> End(f.curr) = End(q)
    BY AnswerFacts DEF f
<1>9. \A x : InPresent(fs, x) <=> (f.present /\ x \in Bytes(f.curr)) \/ InPresent(rest, x)
    <2> SUFFICES ASSUME NEW x
                 PROVE  InPresent(fs, x) <=> (f.present /\ x \in Bytes(f.curr)) \/ InPresent(rest, x)
        OBVIOUS
    <2>1. ASSUME InPresent(fs, x)
          PROVE  (f.present /\ x \in Bytes(f.curr)) \/ InPresent(rest, x)
        <3>1. PICK i \in 1 .. Len(fs) : fs[i].Present /\ x \in Bytes(fs[i].R)
            BY <2>1 DEF InPresent
        <3>2. CASE i = 1
            BY <1>1, <1>4, <3>1, <3>2
        <3>3. CASE i # 1
            <4>1. PICK j \in 1 .. Len(rest) : i = j + 1
                <5>1. i - 1 \in 1 .. Len(rest) /\ i = (i - 1) + 1
                    BY <1>4, <3>3
                <5> QED BY <5>1
            <4>2. fs[i] = rest[j]
                BY <1>4, <4>1
            <4> QED BY <3>1, <4>2 DEF InPresent
        <3> QED BY <3>2, <3>3
    <2>2. ASSUME f.present, x \in Bytes(f.curr)
          PROVE  InPresent(fs, x)
        <3>1. 1 \in 1 .. Len(fs)
            BY <1>4
        <3> QED BY <1>1, <1>4, <2>2, <3>1 DEF InPresent
    <2>3. ASSUME InPresent(rest, x)
          PROVE  InPresent(fs, x)
        <3>1. PICK i \in 1 .. Len(rest) : rest[i].Present /\ x \in Bytes(rest[i].R)
            BY <2>3 DEF InPresent
        <3>2. i + 1 \in 1 .. Len(fs)
            BY <1>4
        <3>3. fs[i+1] = rest[i]
            BY <1>4
        <3> QED BY <3>1, <3>2, <3>3 DEF InPresent
    <2> QED BY <2>1, <2>2, <2>3
<1>10. \A x : f.present /\ x \in Bytes(f.curr) <=> Covers(s, x) /\ x \in Bytes(f.curr)
    BY <1>2
<1>11. CASE IsEmpty(f.next)
    <2>1. rest = <<>> /\ Len(rest) = 0
        BY <1>3, <1>11
    <2>2. Len(fs) = 1 /\ End(f.curr) = End(q)
        BY <1>4, <1>8, <1>11, <2>1
    <2>3. fs[1].R.Pos = q.Pos /\ End(fs[Len(fs)].R) = End(q) /\ (fs[1].Present <=> Covers(s, q.Pos))
        BY <1>1, <1>2, <1>4, <1>7, <2>2
    <2>4. \A i \in 1 .. Len(fs) : fs[i].R.Pos >= q.Pos
        BY <1>5, <2>2, <2>3
    <2>5. ASSUME NEW x
          PROVE  InPresent(fs, x) <=> x \in Bytes(q) /\ Covers(s, x)
        <3>1. ~InPresent(rest, x)
            BY <2>1 DEF InPresent
        <3>2. x \in Bytes(q) <=> x \in Bytes(f.curr)
            BY <1>6, <2>2
        <3> QED BY <1>9, <1>10, <3>1, <3>2
    <2>6. Len(fs) >= 1 /\ 1 .. Len(fs) - 1 = {}
        BY <2>2
    <2>7. Parts(s, q, fs)
        BY <1>4, <2>3, <2>4, <2>5, <2>6 DEF Parts
    <2> QED BY <2>7 DEF fs, p
<1>12. CASE ~IsEmpty(f.next)
    <2>1. /\ Len(rest) >= 1 /\ rest \in Seq(Found)
          /\ rest[1].R.Pos = f.next.Pos /\ End(rest[Len(rest)].R) = End(f.next)
          /\ rest[1].Present <=> Covers(s, f.next.Pos)
          /\ \A i \in 1 .. Len(rest) : rest[i].R.Pos >= f.next.Pos
          /\ \A i \in 1 .. Len(rest) - 1 :
                End(rest[i].R) = rest[i+1].R.Pos /\ rest[i].Present # rest[i+1].Present
          /\ \A x : InPresent(rest, x) <=> x \in Bytes(f.next) /\ Covers(s, x)
        BY <1>3, <1>12 DEF Parts
    <2>2. /\ f.next.Pos = End(f.curr) /\ End(f.next) = End(q)
          /\ Covers(s, f.next.Pos) <=> ~f.present
        BY <1>2, <1>8, <1>12
    <2>3. fs[1].R.Pos = q.Pos /\ (fs[1].Present <=> Covers(s, q.Pos))
        BY <1>1, <1>2, <1>4, <1>7
    <2>4. End(fs[Len(fs)].R) = End(q)
        <3>1. Len(rest) \in 1 .. Len(rest) /\ Len(fs) = Len(rest) + 1
            BY <1>4, <2>1
        <3>2. fs[Len(fs)] = rest[Len(rest)]
            BY <1>4, <3>1
        <3> QED BY <2>1, <2>2, <3>2
    <2>5. ASSUME NEW i \in 1 .. Len(fs)
          PROVE  fs[i].R.Pos >= q.Pos
        <3>1. CASE i = 1
            BY <1>5, <2>3, <3>1
        <3>2. CASE i # 1
            <4>1. PICK j \in 1 .. Len(rest) : i = j + 1
                <5>1. i - 1 \in 1 .. Len(rest) /\ i = (i - 1) + 1
                    BY <1>4, <3>2
                <5> QED BY <5>1
            <4>2. fs[i] = rest[j] /\ rest[j] \in Found
                BY <1>4, <2>1, <4>1
            <4>3. rest[j].R.Pos \in Int
                BY <4>2 DEF Found, AnyRange
            <4>4. rest[j].R.Pos >= f.next.Pos
                BY <2>1
            <4> QED BY <1>5, <2>2, <4>2, <4>3, <4>4
        <3> QED BY <3>1, <3>2
    <2>6. ASSUME NEW i \in 1 .. Len(fs) - 1
          PROVE  End(fs[i].R) = fs[i+1].R.Pos /\ fs[i].Present # fs[i+1].Present
        <3>1. CASE i = 1
            <4>1. 1 \in 1 .. Len(rest)
                BY <2>1, <1>4
            <4>2. fs[1+1] = rest[1] /\ fs[1] = p
                BY <1>4, <4>1
            <4>3. End(fs[1].R) = fs[1+1].R.Pos
                BY <1>1, <2>1, <2>2, <4>2
            <4>4. fs[1].Present = f.present /\ fs[1+1].Present = rest[1].Present
                BY <1>1, <4>2
            <4>5. rest[1].Present \in BOOLEAN
                <5>1. rest[1] \in Found
                    BY <2>1, <4>1
                <5> QED BY <5>1 DEF Found
            <4>6. fs[1].Present # fs[1+1].Present
                BY <1>2, <2>1, <2>2, <4>4, <4>5
            <4> QED BY <3>1, <4>3, <4>6
        <3>2. CASE i # 1
            <4>1. PICK j \in 1 .. Len(rest) : i = j + 1
                <5>1. i - 1 \in 1 .. Len(rest) /\ i = (i - 1) + 1
                    BY <1>4, <3>2
                <5> QED BY <5>1
            <4>2. j \in 1 .. Len(rest) - 1 /\ i \in 1 .. Len(rest)
                BY <1>4, <4>1
            <4>3. fs[i] = rest[j] /\ fs[i+1] = rest[j+1]
                BY <1>4, <4>1, <4>2
            <4> QED BY <2>1, <4>2, <4>3
        <3> QED BY <3>1, <3>2
    <2>7. ASSUME NEW x
          PROVE  InPresent(fs, x) <=> x \in Bytes(q) /\ Covers(s, x)
        <3>1. InPresent(rest, x) <=> x \in Bytes(f.next) /\ Covers(s, x)
            BY <2>1
        <3>2. x \in Bytes(q) <=> x \in Bytes(f.curr) \/ x \in Bytes(f.next)
            <4>1. CASE x \in Int
                BY <1>2, <1>5, <1>6, <2>2, <4>1
            <4> QED BY <1>6, <4>1
        <3>3. (f.present /\ x \in Bytes(f.curr)) <=> (Covers(s, x) /\ x \in Bytes(f.curr))
            BY <1>10
        <3> QED BY <1>9, <3>1, <3>2, <3>3
    <2>8. Len(fs) >= 1
        BY <1>4
    <2>9. Parts(s, q, fs)
        BY <1>4, <2>3, <2>4, <2>5, <2>6, <2>7, <2>8 DEF Parts
    <2> QED BY <2>9 DEF fs, p
<1> QED BY <1>11, <1>12

\* FindAll splits a range as its callers rely on.
LEMMA FindAllParts ==
    ASSUME NEW s, Sorted(s), NEW r \in AnyRange
    PROVE  IF IsEmpty(r) THEN FindAll(s, r) = <<>> ELSE Parts(s, r, FindAll(s, r))
<1>1. PICK all \in [AnyRange -> Seq(Found)] :
          /\ \A q \in AnyRange : IF IsEmpty(q) THEN all[q] = <<>>
                                 ELSE all[q] = <<Part(s, q)>> \o all[Find(s, q).next]
          /\ \A q : FindAll(s, q) = all[q]
    BY FindAllIs
<1> DEFINE Bad == {q \in AnyRange : ~IsEmpty(q) /\ ~Parts(s, q, all[q])}
           T == {q.Size : q \in Bad}
<1>2. Bad = {}
    <2> SUFFICES ASSUME Bad # {}
                 PROVE  FALSE
        OBVIOUS
    <2>1. \A q \in AnyRange : q.Size \in Int /\ (IsEmpty(q) <=> q.Size <= 0)
        BY RangeFacts
    <2>2. PICK k \in T : \A j \in T : k <= j
        <3>1. \A q \in Bad : q.Size \in Nat
            BY <2>1
        <3>2. T \in SUBSET Nat /\ T # {}
            BY <3>1
        <3> HIDE DEF T
        <3> QED BY <3>2, LeastNumber
    <2>3. PICK q \in Bad : k = q.Size
        OBVIOUS
    <2>4. q \in AnyRange /\ ~IsEmpty(q) /\ ~Parts(s, q, all[q])
        OBVIOUS
    <2> DEFINE n == Find(s, q).next
    <2>5. n \in AnyRange /\ Part(s, q) \in Found /\ n.Size < q.Size
        BY <2>4, FindShrinks
    <2>6. Answers(s, q, Find(s, q))
        BY <2>4, FindAnswers
    <2>7. all[n] \in Seq(Found) /\ all[q] = <<Part(s, q)>> \o all[n]
        BY <1>1, <2>4, <2>5
    <2>8. CASE IsEmpty(n)
        <3>1. all[n] = <<>>
            BY <1>1, <2>5, <2>8
        <3> QED BY <2>4, <2>5, <2>6, <2>7, <2>8, <3>1, PartsStep
    <2>9. CASE ~IsEmpty(n)
        <3>1. Parts(s, n, all[n])
            <4>1. ~(k <= n.Size)
                BY <2>1, <2>3, <2>4, <2>5
            <4>2. n \notin Bad
                <5> SUFFICES ASSUME n \in Bad
                             PROVE  FALSE
                    OBVIOUS
                <5>1. n.Size \in T
                    OBVIOUS
                <5> HIDE DEF T, Bad, n
                <5> QED BY <2>2, <4>1, <5>1
            <4> QED BY <2>5, <2>9, <4>2
        <3> QED BY <2>4, <2>5, <2>6, <2>7, <2>9, <3>1, PartsStep
    <2> QED BY <2>8, <2>9
<1> QED BY <1>1, <1>2

\* Present says whether the list has every byte of the range.
LEMMA PresentIs ==
    ASSUME NEW s, Sorted(s), NEW r \in AnyRange
    PROVE  Present(s, r) <=> \A x \in Bytes(r) : Covers(s, x)
<1> DEFINE f == Find(s, r)
<1>1. Present(s, r) <=> IsEmpty(r) \/ (f.present /\ IsEmpty(f.next))
    BY DEF Present
<1>2. /\ r.Pos \in Int /\ End(r) \in Int /\ (IsEmpty(r) <=> End(r) <= r.Pos)
      /\ \A x : x \in Bytes(r) <=> x \in Int /\ r.Pos <= x /\ x < End(r)
    <2>1. /\ r.Pos \in Int /\ r.Size \in Int /\ End(r) \in Int /\ r.Size = End(r) - r.Pos
          /\ IsEmpty(r) <=> r.Size <= 0
          /\ \A x : x \in Bytes(r) <=> x \in Int /\ r.Pos <= x /\ x < End(r)
        BY RangeFacts
    <2> QED BY <2>1
<1>3. CASE IsEmpty(r)
    <2>1. \A x : x \notin Bytes(r)
        BY <1>2, <1>3
    <2> QED BY <1>1, <1>3, <2>1
<1>4. CASE ~IsEmpty(r)
    <2>1. Answers(s, r, f)
        BY <1>4, FindAnswers
    <2> HIDE DEF f
    <2>2. /\ End(f.curr) \in Int /\ r.Pos < End(f.curr) /\ End(f.curr) <= End(r)
          /\ f.present <=> Covers(s, r.Pos)
          /\ IsEmpty(f.next) <=> End(f.curr) = End(r)
        BY <2>1, AnswerFacts DEF Answers
    <2>3. /\ f.curr \in AnyRange /\ f.curr.Pos = r.Pos
          /\ f.present => \A x \in Bytes(f.curr) : Covers(s, x)
          /\ End(f.curr) # End(r) => f.next.Pos = End(f.curr) /\ (Covers(s, f.next.Pos) <=> ~f.present)
        BY <2>1 DEF Answers
    <2>4. \A x : x \in Bytes(f.curr) <=> x \in Int /\ r.Pos <= x /\ x < End(f.curr)
        BY <2>3, RangeFacts
    <2>5. ASSUME f.present, IsEmpty(f.next), NEW x \in Bytes(r)
          PROVE  Covers(s, x)
        BY <1>2, <2>2, <2>3, <2>4, <2>5
    <2>6. ASSUME \A x \in Bytes(r) : Covers(s, x)
          PROVE  f.present /\ IsEmpty(f.next)
        <3>1. r.Pos \in Bytes(r)
            BY <1>2, <1>4
        <3>2. f.present
            BY <2>2, <2>6, <3>1
        <3>3. ASSUME End(f.curr) # End(r)
              PROVE  FALSE
            <4>1. End(f.curr) \in Bytes(r)
                BY <1>2, <2>2, <3>3
            <4> QED BY <2>3, <2>6, <3>2, <3>3, <4>1
        <3> QED BY <2>2, <3>2, <3>3
    <2> QED BY <1>1, <1>4, <2>5, <2>6
<1> QED BY <1>3, <1>4

\* FindMissing takes off what the list has of the range's beginning, and nothing else.
LEMMA FindMissingIs ==
    ASSUME NEW s, Sorted(s), NEW r \in AnyRange
    PROVE  LET m == FindMissing(s, r) IN
           /\ m \in AnyRange /\ End(m) = End(r)
           /\ \A x \in Bytes(r) : x \notin Bytes(m) => Covers(s, x)
           /\ ~IsEmpty(m) => ~Covers(s, m.Pos) /\ m.Pos >= r.Pos
<1> DEFINE f == Find(s, r)
           m == FindMissing(s, r)
<1>1. m = IF IsEmpty(r) \/ ~f.present THEN r
          ELSE [Pos |-> End(f.curr), Size |-> r.Size - (End(f.curr) - r.Pos)]
    BY DEF FindMissing
<1>2. /\ r.Pos \in Int /\ r.Size \in Int /\ End(r) \in Int /\ r.Size = End(r) - r.Pos
      /\ End(r) = r.Pos + r.Size
      /\ \A x : x \in Bytes(r) <=> x \in Int /\ r.Pos <= x /\ x < End(r)
    BY RangeFacts
<1>3. CASE IsEmpty(r)
    <2> HIDE DEF f, m
    <2>1. m = r
        BY <1>1, <1>3
    <2> QED BY <1>2, <1>3, <2>1 DEF m
<1>4. CASE ~IsEmpty(r)
    <2>1. Answers(s, r, f)
        BY <1>4, FindAnswers
    <2> HIDE DEF f, m
    <2>2. /\ End(f.curr) \in Int /\ r.Pos < End(f.curr) /\ End(f.curr) <= End(r)
          /\ f.present <=> Covers(s, r.Pos)
        BY <2>1, AnswerFacts DEF Answers
    <2>3. CASE ~f.present
        <3>1. m = r
            BY <1>1, <2>3
        <3>2. ~Covers(s, r.Pos) /\ r.Pos >= r.Pos
            BY <1>2, <2>2, <2>3
        <3> QED BY <3>1, <3>2 DEF m
    <2>4. CASE f.present
        <3>1. /\ f.curr \in AnyRange /\ f.curr.Pos = r.Pos
              /\ \A x \in Bytes(f.curr) : Covers(s, x)
              /\ End(f.curr) # End(r) => ~Covers(s, End(f.curr))
            BY <2>1, <2>4 DEF Answers
        <3>2. \A x : x \in Bytes(f.curr) <=> x \in Int /\ r.Pos <= x /\ x < End(f.curr)
            BY <3>1, RangeFacts
        <3>3. PICK z \in Int : z = r.Size - (End(f.curr) - r.Pos)
            BY <1>2, <2>2
        <3> DEFINE e == End(f.curr)
                   to == End(r)
                   from == r.Pos
        <3>4. e \in Int /\ to \in Int /\ from \in Int /\ z = to - e
            <4>1. e \in Int /\ to \in Int /\ from \in Int
                BY <1>2, <2>2
            <4>2. r.Size = to - from /\ z = r.Size - (e - from)
                BY <1>2, <3>3
            <4> HIDE DEF e, to, from
            <4> QED BY <4>1, <4>2
        <3>5. m = [Pos |-> End(f.curr), Size |-> z]
            BY <1>1, <1>4, <2>4, <3>3
        <3>6. m \in AnyRange /\ m.Pos = End(f.curr) /\ m.Size = z
            BY <2>2, <3>5 DEF AnyRange
        <3>7. End(m) = m.Pos + m.Size /\ (IsEmpty(m) <=> m.Size <= 0)
            BY <3>6, RangeFacts
        <3>8. End(m) = End(r)
            <4>1. End(m) = End(f.curr) + z
                BY <3>6, <3>7
            <4> QED BY <3>4, <4>1
        <3>9. \A x : x \in Bytes(m) <=> x \in Int /\ End(f.curr) <= x /\ x < End(r)
            BY <3>6, <3>8, RangeFacts
        <3>10. ASSUME NEW x \in Bytes(r), x \notin Bytes(m)
              PROVE  Covers(s, x)
            BY <1>2, <2>2, <3>1, <3>2, <3>9, <3>10
        <3>11. ASSUME ~IsEmpty(m)
               PROVE  ~Covers(s, m.Pos) /\ m.Pos >= r.Pos
            <4>1. End(f.curr) # End(r)
                <5>1. z > 0
                    BY <3>3, <3>6, <3>7, <3>11
                <5> QED BY <3>4, <5>1
            <4>2. ~Covers(s, m.Pos)
                BY <3>1, <3>6, <4>1
            <4>3. m.Pos >= r.Pos
                BY <1>2, <2>2, <3>6
            <4> QED BY <4>2, <4>3
        <3> QED BY <3>6, <3>8, <3>10, <3>11 DEF m
    <2> QED BY <2>3, <2>4
<1> QED BY <1>3, <1>4

-------------------------------------------------------------------------------
(* Intersection and Size *)

\* How Intersection is computed.
LEMMA IntersectionIs ==
    ASSUME NEW s, NEW r, NEW fs \in Seq(Found), FindAll(s, r) = fs, s # <<>>
    PROVE  \E kept \in [0 .. Len(fs) -> Seq(AnyRange)] :
              /\ kept[0] = <<>>
              /\ \A n \in 1 .. Len(fs) :
                    kept[n] = IF fs[n].Present THEN Insert(kept[n-1], fs[n].R) ELSE kept[n-1]
              /\ Intersection(s, r) = kept[Len(fs)]
<1> DEFINE N == Len(fs)
           V == Seq(AnyRange)
           step == [n \in 1 .. N |-> [v \in V |-> IF fs[n].Present THEN Insert(v, fs[n].R) ELSE v]]
           Is(f) == f = [n \in 0 .. N |-> IF n = 0 THEN <<>>
                                          ELSE IF fs[n].Present THEN Insert(f[n-1], fs[n].R)
                                          ELSE f[n-1]]
           kept == CHOOSE f : Is(f)
<1>1. Intersection(s, r) = kept[N]
    BY DEF Intersection
<1>2. N \in Nat /\ <<>> \in V
    OBVIOUS
<1>3. step \in [1 .. N -> [V -> V]]
    <2>1. ASSUME NEW n \in 1 .. N, NEW v \in V
          PROVE  (IF fs[n].Present THEN Insert(v, fs[n].R) ELSE v) \in V
        <3>1. fs[n] \in Found
            OBVIOUS
        <3>2. fs[n].R \in AnyRange
            BY <3>1 DEF Found
        <3> QED BY <3>2, InsertType
    <2> HIDE DEF V, N
    <2> QED BY <2>1
<1>4. PICK f : Iterates(f, N, V, <<>>, step)
    <2> HIDE DEF N, V, step
    <2> QED BY <1>2, <1>3, LoopDefined
<1>5. f \in [0 .. N -> V] /\ f = [n \in 0 .. N |-> IF n = 0 THEN <<>> ELSE step[n][f[n-1]]]
    <2> HIDE DEF N, V, step
    <2> QED BY <1>4 DEF Iterates
<1>6. ASSUME NEW n \in 1 .. N
      PROVE  step[n][f[n-1]] = IF fs[n].Present THEN Insert(f[n-1], fs[n].R) ELSE f[n-1]
    <2>1. f[n-1] \in V
        <3> HIDE DEF V, N, step
        <3>1. n - 1 \in 0 .. N
            BY <1>2
        <3> QED BY <1>5, <3>1
    <2> HIDE DEF V, N
    <2> QED BY <2>1
<1>7. Is(f)
    <2>1. \A n \in 0 .. N : n # 0 => n \in 1 .. N
        BY <1>2
    <2> HIDE DEF step, N, V
    <2> QED BY <1>5, <1>6, <2>1
<1>8. Is(kept)
    <2> HIDE DEF Is
    <2> QED BY <1>7 DEF kept
<1> HIDE DEF kept
<1>9. kept[0] = <<>>
    BY <1>2, <1>8
<1>10. ASSUME NEW n \in 1 .. N
       PROVE  kept[n] = IF fs[n].Present THEN Insert(kept[n-1], fs[n].R) ELSE kept[n-1]
    <2>1. n \in 0 .. N /\ n # 0
        BY <1>2
    <2> HIDE DEF N
    <2> QED BY <1>8, <2>1
<1>11. \A n \in 0 .. N : kept[n] \in V
    <2> DEFINE T == {n \in 0 .. N : kept[n] \notin V}
    <2> SUFFICES ASSUME T # {}
                 PROVE  FALSE
        OBVIOUS
    <2>1. PICK n \in T : \A j \in T : n <= j
        <3>1. T \in SUBSET Nat
            BY <1>2
        <3> HIDE DEF T
        <3> QED BY <3>1, LeastNumber
    <2>2. n \in 0 .. N /\ kept[n] \notin V
        OBVIOUS
    <2>3. n \in 1 .. N /\ n - 1 \in 0 .. N /\ ~(n <= n - 1)
        <3>1. n # 0
            BY <1>2, <1>9, <2>2
        <3> HIDE DEF N, V, T
        <3> QED BY <1>2, <2>2, <3>1
    <2>4. kept[n-1] \in V
        <3>1. n - 1 \notin T
            <4> HIDE DEF T
            <4> QED BY <2>1, <2>3
        <3> QED BY <2>3, <3>1
    <2>5. fs[n] \in Found
        BY <2>3
    <2>6. fs[n].R \in AnyRange
        BY <2>5 DEF Found
    <2>7. Insert(kept[n-1], fs[n].R) \in V
        BY <2>4, <2>6, InsertType
    <2> QED BY <1>10, <2>2, <2>3, <2>4, <2>7
<1>12. kept \in [0 .. N -> V]
    <2>1. kept = [n \in 0 .. N |-> kept[n]]
        BY <1>8
    <2> HIDE DEF N, V
    <2> QED BY <1>11, <2>1
<1> QED BY <1>1, <1>9, <1>10, <1>12

\* Intersection cuts the list down to a range: item._truncate.
THEOREM IntersectionCorrect ==
    ASSUME NEW s, Sorted(s), NEW r \in [Pos : Nat, Size : Int]
    PROVE  /\ Sorted(Intersection(s, r))
           /\ AllBytes(Intersection(s, r)) = AllBytes(s) \cap Bytes(r)
<1>1. r \in AnyRange /\ r.Pos \in Nat /\ r.Pos >= 0
    BY DEF AnyRange
<1> SUFFICES /\ Sorted(Intersection(s, r))
             /\ \A x : Covers(Intersection(s, r), x) <=> x \in Bytes(r) /\ Covers(s, x)
    BY AllBytesIsCovered
<1>2. CASE s = <<>>
    <2>1. Intersection(s, r) = s
        BY <1>2 DEF Intersection
    <2>2. \A x : ~Covers(s, x)
        BY <1>2 DEF Covers
    <2> QED BY <2>1, <2>2
<1>3. CASE s # <<>>
    <2> DEFINE fs == FindAll(s, r)
    <2>1. IF IsEmpty(r) THEN fs = <<>> ELSE Parts(s, r, fs)
        BY <1>1, FindAllParts
    <2>2. /\ fs \in Seq(Found) /\ \A i \in 1 .. Len(fs) : fs[i].R.Pos >= r.Pos
          /\ \A x : InPresent(fs, x) <=> x \in Bytes(r) /\ Covers(s, x)
        <3> HIDE DEF fs
        <3>1. CASE IsEmpty(r)
            <4>1. \A x : x \notin Bytes(r)
                <5>1. /\ r.Pos \in Int /\ r.Size \in Int /\ r.Size <= 0 /\ End(r) = r.Pos + r.Size
                      /\ \A x : x \in Bytes(r) <=> x \in Int /\ r.Pos <= x /\ x < End(r)
                    BY <1>1, <3>1, RangeFacts
                <5> QED BY <5>1
            <4>2. fs = <<>>
                BY <2>1, <3>1
            <4> QED BY <4>1, <4>2 DEF InPresent
        <3>2. CASE ~IsEmpty(r)
            BY <2>1, <3>2 DEF Parts
        <3> QED BY <3>1, <3>2
    <2>3. PICK kept \in [0 .. Len(fs) -> Seq(AnyRange)] :
              /\ kept[0] = <<>>
              /\ \A n \in 1 .. Len(fs) :
                    kept[n] = IF fs[n].Present THEN Insert(kept[n-1], fs[n].R) ELSE kept[n-1]
              /\ Intersection(s, r) = kept[Len(fs)]
        BY <1>3, <2>2, IntersectionIs
    <2> HIDE DEF fs
    <2>4. Len(fs) \in Nat
        BY <2>2
    <2> DEFINE Upto(n, x) == \E i \in 1 .. n : fs[i].Present /\ x \in Bytes(fs[i].R)
               Right(n) == Sorted(kept[n]) /\ \A x : Covers(kept[n], x) <=> Upto(n, x)
               T == {n \in 0 .. Len(fs) : ~Right(n)}
    <2>5. Right(0)
        <3>1. Sorted(<<>>) /\ \A x : ~Covers(<<>>, x)
            BY DEF Sorted, Covers
        <3> QED BY <2>3, <3>1
    <2>6. ASSUME NEW n \in 1 .. Len(fs), Right(n - 1)
          PROVE  Right(n)
        <3>1. /\ fs[n] \in Found /\ fs[n].R.Pos >= r.Pos
            BY <2>2
        <3>2. fs[n].R \in AnyRange /\ fs[n].Present \in BOOLEAN
            BY <3>1 DEF Found
        <3>3. fs[n].R \in [Pos : Nat, Size : Int]
            <4>1. fs[n].R.Pos \in Int
                BY <3>2 DEF AnyRange
            <4>2. fs[n].R.Pos \in Nat
                BY <1>1, <3>1, <4>1
            <4> QED BY <3>2, <4>2 DEF AnyRange
        <3>4. \A x : Upto(n, x) <=> Upto(n - 1, x) \/ (fs[n].Present /\ x \in Bytes(fs[n].R))
            <4>1. \A i : i \in 1 .. n <=> i \in 1 .. n - 1 \/ i = n
                BY <2>4
            <4> QED BY <4>1
        <3>5. CASE fs[n].Present
            <4>1. kept[n] = Insert(kept[n-1], fs[n].R)
                BY <2>3, <3>5
            <4>2. /\ Sorted(kept[n])
                  /\ AllBytes(kept[n]) = AllBytes(kept[n-1]) \cup Bytes(fs[n].R)
                BY <2>6, <3>3, <4>1, InsertCorrect
            <4>3. \A x : Covers(kept[n], x) <=> Covers(kept[n-1], x) \/ x \in Bytes(fs[n].R)
                BY <4>2, AllBytesIsCovered
            <4> HIDE DEF Upto
            <4> QED BY <2>6, <3>4, <3>5, <4>2, <4>3
        <3>6. CASE ~fs[n].Present
            <4>1. kept[n] = kept[n-1]
                BY <2>3, <3>6
            <4> HIDE DEF Upto
            <4> QED BY <2>6, <3>4, <3>6, <4>1
        <3> QED BY <3>5, <3>6
    <2>7. T = {}
        <3> SUFFICES ASSUME T # {}
                     PROVE  FALSE
            OBVIOUS
        <3> HIDE DEF Right
        <3>1. PICK n \in T : \A j \in T : n <= j
            <4>1. T \in SUBSET Nat
                BY <2>4
            <4> HIDE DEF T
            <4> QED BY <4>1, LeastNumber
        <3>2. n \in 0 .. Len(fs) /\ ~Right(n)
            OBVIOUS
        <3>3. n \in 1 .. Len(fs) /\ n - 1 \in 0 .. Len(fs) /\ ~(n <= n - 1)
            BY <2>4, <2>5, <3>2
        <3>4. n - 1 \notin T
            <4> HIDE DEF T
            <4> QED BY <3>1, <3>3
        <3>5. Right(n - 1)
            BY <3>3, <3>4
        <3> QED BY <2>6, <3>2, <3>3, <3>5
    <2>8. Right(Len(fs))
        <3> HIDE DEF Right
        <3> QED BY <2>4, <2>7
    <2>9. \A x : Covers(Intersection(s, r), x) <=> InPresent(fs, x)
        BY <2>3, <2>8 DEF InPresent
    <2> QED BY <2>2, <2>3, <2>8, <2>9
<1> QED BY <1>2, <1>3

LEMMA TotalSizeIs ==
    ASSUME NEW s \in Seq(NatRange)
    PROVE  \E sum \in [0 .. Len(s) -> Nat] :
              /\ sum[0] = 0
              /\ \A n \in 1 .. Len(s) : sum[n] = sum[n-1] + s[n].Size
              /\ TotalSize(s) = sum[Len(s)]
<1> DEFINE N == Len(s)
           step == [n \in 1 .. N |-> [v \in Nat |-> v + s[n].Size]]
           Is(f) == f = [n \in 0 .. N |-> IF n = 0 THEN 0 ELSE f[n-1] + s[n].Size]
           sum == CHOOSE f : Is(f)
<1>1. TotalSize(s) = sum[N]
    BY DEF TotalSize
<1>2. N \in Nat /\ \A n \in 1 .. N : s[n].Size \in Nat
    <2>1. \A n \in 1 .. N : s[n] \in NatRange
        OBVIOUS
    <2> QED BY <2>1 DEF NatRange
<1>3. step \in [1 .. N -> [Nat -> Nat]]
    BY <1>2
<1>4. PICK f : Iterates(f, N, Nat, 0, step)
    <2> HIDE DEF N, step
    <2> QED BY <1>2, <1>3, LoopDefined
<1>5. f \in [0 .. N -> Nat] /\ f = [n \in 0 .. N |-> IF n = 0 THEN 0 ELSE step[n][f[n-1]]]
    <2> HIDE DEF N, step
    <2> QED BY <1>4 DEF Iterates
<1>6. ASSUME NEW n \in 1 .. N
      PROVE  step[n][f[n-1]] = f[n-1] + s[n].Size
    <2>1. f[n-1] \in Nat
        <3> HIDE DEF N, step
        <3>1. n - 1 \in 0 .. N
            BY <1>2
        <3> QED BY <1>5, <3>1
    <2> HIDE DEF N
    <2> QED BY <2>1
<1>7. Is(f)
    <2>1. \A n \in 0 .. N : n # 0 => n \in 1 .. N
        BY <1>2
    <2> HIDE DEF step, N
    <2> QED BY <1>5, <1>6, <2>1
<1>8. Is(sum)
    <2> HIDE DEF Is
    <2> QED BY <1>7 DEF sum
<1> HIDE DEF sum
<1>9. sum[0] = 0
    BY <1>2, <1>8
<1>10. ASSUME NEW n \in 1 .. N
       PROVE  sum[n] = sum[n-1] + s[n].Size
    <2>1. n \in 0 .. N /\ n # 0
        BY <1>2
    <2> HIDE DEF N
    <2> QED BY <1>8, <2>1
<1>11. \A n \in 0 .. N : sum[n] \in Nat
    <2> DEFINE T == {n \in 0 .. N : sum[n] \notin Nat}
    <2> SUFFICES ASSUME T # {}
                 PROVE  FALSE
        OBVIOUS
    <2>1. PICK n \in T : \A j \in T : n <= j
        <3>1. T \in SUBSET Nat
            BY <1>2
        <3> HIDE DEF T
        <3> QED BY <3>1, LeastNumber
    <2>2. n \in 0 .. N /\ sum[n] \notin Nat
        OBVIOUS
    <2>3. n \in 1 .. N /\ n - 1 \in 0 .. N /\ ~(n <= n - 1)
        <3>1. n # 0
            BY <1>2, <1>9, <2>2
        <3> HIDE DEF N, T
        <3> QED BY <1>2, <2>2, <3>1
    <2>4. n - 1 \notin T
        <3> HIDE DEF T
        <3> QED BY <2>1, <2>3
    <2>5. sum[n-1] \in Nat /\ s[n].Size \in Nat
        BY <1>2, <2>3, <2>4
    <2>6. sum[n] = sum[n-1] + s[n].Size
        BY <1>10, <2>3
    <2> HIDE DEF N, T
    <2> QED BY <2>2, <2>5, <2>6
<1>12. sum \in [0 .. N -> Nat]
    <2>1. sum = [n \in 0 .. N |-> sum[n]]
        BY <1>8
    <2> HIDE DEF N
    <2> QED BY <1>11, <2>1
<1> QED BY <1>1, <1>9, <1>10, <1>12

\* Size is how many bytes the list stands for: none is counted twice.
THEOREM TotalSizeCorrect ==
    ASSUME NEW s, Sorted(s)
    PROVE  TotalSize(s) = Cardinality(AllBytes(s))
<1>1. /\ s \in Seq(NatRange) /\ Len(s) \in Nat
      /\ \A k \in 1 .. Len(s) : /\ s[k] \in AnyRange /\ s[k].Pos \in Nat /\ End(s[k]) \in Int
                                /\ s[k].Size > 0 /\ s[k].Pos < End(s[k])
      /\ \A i, j \in 1 .. Len(s) : i < j => End(s[i]) < s[j].Pos
    BY SortedFacts
<1>2. PICK sum \in [0 .. Len(s) -> Nat] :
          /\ sum[0] = 0
          /\ \A n \in 1 .. Len(s) : sum[n] = sum[n-1] + s[n].Size
          /\ TotalSize(s) = sum[Len(s)]
    BY <1>1, TotalSizeIs
<1> DEFINE U(n) == {x \in Int : \E i \in 1 .. n : x \in Bytes(s[i])}
           Right(n) == IsFiniteSet(U(n)) /\ sum[n] = Cardinality(U(n))
           T == {n \in 0 .. Len(s) : ~Right(n)}
<1>3. Right(0)
    <2>1. U(0) = {}
        OBVIOUS
    <2> QED BY <1>2, <2>1, FS_EmptySet
<1>4. ASSUME NEW n \in 1 .. Len(s), Right(n - 1)
      PROVE  Right(n)
    <2> DEFINE B == Bytes(s[n])
    <2>1. /\ s[n] \in AnyRange /\ s[n].Pos \in Int /\ End(s[n]) \in Int /\ s[n].Pos < End(s[n])
          /\ s[n].Size = End(s[n]) - s[n].Pos
          /\ \A x : x \in B <=> x \in Int /\ s[n].Pos <= x /\ x < End(s[n])
        BY <1>1, RangeFacts
    <2>2. IsFiniteSet(B) /\ Cardinality(B) = s[n].Size
        <3> DEFINE b == End(s[n]) - 1
                   a == s[n].Pos
        <3>1. a \in Int /\ b \in Int /\ a <= b /\ s[n].Size = b - a + 1
            BY <2>1
        <3>2. B = a .. b
            BY DEF Bytes
        <3> HIDE DEF a, b, B
        <3> QED BY <3>1, <3>2, FS_Interval
    <2>3. U(n) = U(n - 1) \cup B
        <3>1. \A i : i \in 1 .. n <=> i \in 1 .. n - 1 \/ i = n
            BY <1>1
        <3>2. \A x \in B : x \in Int
            BY <2>1
        <3> HIDE DEF B
        <3> QED BY <3>1, <3>2 DEF B
    <2>4. U(n - 1) \cap B = {}
        <3> SUFFICES ASSUME NEW x \in Int, NEW i \in 1 .. n - 1, x \in Bytes(s[i]), x \in B
                     PROVE  FALSE
            OBVIOUS
        <3>1. i \in 1 .. Len(s) /\ i < n
            BY <1>1
        <3>2. End(s[i]) < s[n].Pos /\ s[i] \in AnyRange /\ End(s[i]) \in Int
            BY <1>1, <3>1
        <3>3. x < End(s[i])
            BY <3>2, RangeFacts
        <3>4. s[n].Pos <= x
            BY <2>1
        <3> HIDE DEF B
        <3> QED BY <2>1, <3>2, <3>3, <3>4
    <2>5. sum[n] = sum[n-1] + s[n].Size /\ sum[n-1] \in Nat /\ s[n].Size \in Int
        <3>1. n - 1 \in 0 .. Len(s)
            BY <1>1
        <3>2. s[n].Size \in Int
            BY <2>1
        <3> QED BY <1>2, <3>1, <3>2
    <2> DEFINE W == U(n - 1)
               C == U(n)
    <2>6. IsFiniteSet(W) /\ sum[n-1] = Cardinality(W)
        BY <1>4
    <2>7. C = W \cup B /\ W \cap B = {}
        BY <2>3, <2>4
    <2> HIDE DEF W, C, B
    <2>8. IsFiniteSet(C) /\ Cardinality(C) = Cardinality(W) + Cardinality(B) - Cardinality({})
        <3>1. /\ IsFiniteSet(W \cup B)
              /\ Cardinality(W \cup B) = Cardinality(W) + Cardinality(B) - Cardinality(W \cap B)
            BY <2>2, <2>6, FS_Union
        <3> QED BY <2>7, <3>1
    <2>9. Cardinality({}) = 0
        BY FS_EmptySet
    <2>10. sum[n] = Cardinality(C)
        BY <2>2, <2>5, <2>6, <2>8, <2>9
    <2> QED BY <2>8, <2>10 DEF C
<1>5. T = {}
    <2> SUFFICES ASSUME T # {}
                 PROVE  FALSE
        OBVIOUS
    <2> HIDE DEF Right
    <2>1. PICK n \in T : \A j \in T : n <= j
        <3>1. T \in SUBSET Nat
            BY <1>1
        <3> HIDE DEF T
        <3> QED BY <3>1, LeastNumber
    <2>2. n \in 0 .. Len(s) /\ ~Right(n)
        OBVIOUS
    <2>3. n \in 1 .. Len(s) /\ n - 1 \in 0 .. Len(s) /\ ~(n <= n - 1)
        BY <1>1, <1>3, <2>2
    <2>4. n - 1 \notin T
        <3> HIDE DEF T
        <3> QED BY <2>1, <2>3
    <2>5. Right(n - 1)
        BY <2>3, <2>4
    <2> QED BY <1>4, <2>2, <2>3, <2>5
<1>6. Right(Len(s))
    <2> HIDE DEF Right
    <2> QED BY <1>1, <1>5
<1>7. U(Len(s)) = AllBytes(s)
    <2>1. \A x : Covers(s, x) => x \in Int
        <3> SUFFICES ASSUME NEW x, NEW i \in 1 .. Len(s), x \in Bytes(s[i])
                     PROVE  x \in Int
            BY DEF Covers
        <3>1. s[i] \in AnyRange
            BY <1>1
        <3> QED BY <3>1, RangeFacts
    <2>2. \A x : x \in U(Len(s)) <=> Covers(s, x)
        BY <2>1 DEF Covers
    <2> HIDE DEF U
    <2> QED BY <2>2, AllBytesIsCovered
<1> QED BY <1>2, <1>6, <1>7

-------------------------------------------------------------------------------
(* The ranges of an item *)

\* The list is sorted and coalesced, and its bytes are those held.
Kept == Sorted(rs) /\ AllBytes(rs) = held /\ held \subseteq 0 .. MaxEnd

LEMMA ArgsType ==
    ASSUME NEW r \in Args
    PROVE  r \in [Pos : Nat, Size : Int] /\ r \in AnyRange /\ Bytes(r) \subseteq 0 .. MaxEnd
<1>1. MaxEnd \in Nat /\ Deficit \in Nat
    BY RangeSetAssumption
<1>2. r \in [Pos : 0 .. MaxEnd, Size : -Deficit .. MaxEnd] /\ End(r) <= MaxEnd
    BY DEF Args
<1>3. r \in [Pos : Nat, Size : Int]
    <2>1. \A z : z \in -Deficit .. MaxEnd => z \in Int
        BY <1>1
    <2>2. \A z : z \in 0 .. MaxEnd => z \in Nat
        BY <1>1
    <2> QED BY <1>2, <2>1, <2>2
<1>4. r \in AnyRange /\ r.Pos >= 0
    BY <1>3 DEF AnyRange
<1>5. /\ r.Pos \in Int /\ End(r) \in Int
      /\ \A x : x \in Bytes(r) <=> x \in Int /\ r.Pos <= x /\ x < End(r)
    BY <1>4, RangeFacts
<1>6. ASSUME NEW x \in Bytes(r)
      PROVE  x \in 0 .. MaxEnd
    <2>1. x \in Int /\ r.Pos <= x /\ x < End(r)
        BY <1>5
    <2> QED BY <1>1, <1>2, <1>4, <1>5, <2>1
<1> QED BY <1>3, <1>4, <1>6

LEMMA WrittenKeeps ==
    ASSUME Kept, NEW r \in Args, Written(r)
    PROVE  Kept'
<1>1. r \in [Pos : Nat, Size : Int] /\ Bytes(r) \subseteq 0 .. MaxEnd
    BY ArgsType
<1>2. Sorted(rs) /\ AllBytes(rs) = held /\ held \subseteq 0 .. MaxEnd
    BY DEF Kept
<1>3. rs' = Insert(rs, r) /\ held' = held \cup Bytes(r)
    BY DEF Written
<1>4. Sorted(rs') /\ AllBytes(rs') = AllBytes(rs) \cup Bytes(r)
    BY <1>1, <1>2, <1>3, InsertCorrect
<1> QED BY <1>1, <1>2, <1>3, <1>4 DEF Kept

LEMMA TruncateKeeps ==
    ASSUME Kept, NEW size \in 0 .. MaxEnd, Truncate(size)
    PROVE  Kept'
<1> DEFINE r == [Pos |-> 0, Size |-> size]
<1>1. r \in [Pos : Nat, Size : Int] /\ Bytes(r) = 0 .. size - 1
    <2>1. size \in Int /\ 0 + size = size
        BY RangeSetAssumption
    <2> QED BY <2>1 DEF Bytes, End
<1>2. Sorted(rs) /\ AllBytes(rs) = held /\ held \subseteq 0 .. MaxEnd
    BY DEF Kept
<1>3. rs' = Intersection(rs, r) /\ held' = held \cap (0 .. size - 1)
    BY DEF Truncate
<1> HIDE DEF r
<1>4. Sorted(rs') /\ AllBytes(rs') = AllBytes(rs) \cap Bytes(r)
    BY <1>1, <1>2, <1>3, IntersectionCorrect
<1> QED BY <1>1, <1>2, <1>3, <1>4 DEF Kept

LEMMA KeptInvariant == Spec => []Kept
<1>1. Init => Kept
    <2> SUFFICES ASSUME Init
                 PROVE  Kept
        OBVIOUS
    <2>1. rs = <<>> /\ held = {}
        BY DEF Init
    <2>2. Sorted(<<>>) /\ AllBytes(<<>>) = {}
        BY DEF Sorted, AllBytes
    <2> QED BY <2>1, <2>2 DEF Kept
<1>2. Kept /\ [Next]_vars => Kept'
    <2> SUFFICES ASSUME Kept, [Next]_vars
                 PROVE  Kept'
        OBVIOUS
    <2>1. CASE \E r \in Args : Written(r)
        BY <2>1, WrittenKeeps
    <2>2. CASE \E size \in 0 .. MaxEnd : Truncate(size)
        BY <2>2, TruncateKeeps
    <2>3. CASE UNCHANGED vars
        BY <2>3 DEF Kept, vars
    <2> QED BY <2>1, <2>2, <2>3 DEF Next
<1> QED BY <1>1, <1>2, PTL DEF Spec

LEMMA KeptRecords == Kept => RecordsWhatIsHeld
<1> SUFFICES ASSUME Kept
             PROVE  RecordsWhatIsHeld
    OBVIOUS
<1>1. Sorted(rs) /\ AllBytes(rs) = held /\ held \subseteq 0 .. MaxEnd
    BY DEF Kept
<1>2. rs \in Seq([Pos : Nat, Size : Nat])
    BY <1>1 DEF Sorted, NatRange
<1>3. ASSUME NEW i \in 1 .. Len(rs)
      PROVE  ~IsEmpty(rs[i])
    <2>1. rs[i].Size > 0 /\ rs[i] \in AnyRange
        BY <1>1, SortedFacts
    <2>2. rs[i].Size \in Int /\ (IsEmpty(rs[i]) <=> rs[i].Size <= 0)
        BY <2>1, RangeFacts
    <2> QED BY <2>1, <2>2
<1>4. \A i \in 1 .. Len(rs) - 1 : End(rs[i]) < rs[i+1].Pos
    BY <1>1 DEF Sorted
<1>5. TotalSize(rs) = Cardinality(held)
    BY <1>1, TotalSizeCorrect
<1> QED BY <1>1, <1>2, <1>3, <1>4, <1>5 DEF RecordsWhatIsHeld, Canonical

\* What was written into the cache file and not cut off again is what the item's ranges
\* say is there, and Size counts it: _written and _truncate, in any order and number.
THEOREM RecordCorrect == Spec => []RecordsWhatIsHeld
BY KeptInvariant, KeptRecords, PTL

LEMMA FindAsSet == Kept => FindIsLongestPrefix
<1> SUFFICES ASSUME Kept, NEW r \in Args, ~IsEmpty(r)
             PROVE  LET f == Find(rs, r) IN
                    /\ f.curr.Pos = r.Pos /\ ~IsEmpty(f.curr)
                    /\ IF f.present THEN Bytes(f.curr) \subseteq held
                                    ELSE Bytes(f.curr) \cap held = {}
                    /\ Bytes(f.next) = Bytes(r) \ Bytes(f.curr)
                    /\ ~IsEmpty(f.next) => (f.next.Pos \in held) # f.present
    BY DEF FindIsLongestPrefix
<1> DEFINE f == Find(rs, r)
<1>1. Sorted(rs) /\ \A x : Covers(rs, x) <=> x \in held
    BY AllBytesIsCovered DEF Kept
<1>2. r \in AnyRange
    BY ArgsType
<1>3. Answers(rs, r, f)
    BY <1>1, <1>2, FindAnswers
<1> HIDE DEF f
<1>4. /\ f.curr \in AnyRange /\ f.next \in AnyRange /\ f.present \in BOOLEAN
      /\ f.curr.Pos = r.Pos /\ f.curr.Size > 0 /\ End(f.curr) <= End(r)
      /\ f.present => \A x \in Bytes(f.curr) : x \in held
      /\ ~f.present => \A x \in Bytes(f.curr) : x \notin held
      /\ End(f.curr) # End(r) => /\ f.next.Pos = End(f.curr) /\ End(f.next) = End(r)
                                 /\ f.next.Pos \in held <=> ~f.present
    BY <1>1, <1>3 DEF Answers
<1>5. /\ r.Pos \in Int /\ End(r) \in Int /\ End(f.curr) \in Int /\ r.Pos < End(f.curr)
      /\ f.next.Pos \in Int /\ End(f.next) \in Int
      /\ IsEmpty(f.next) <=> End(f.curr) = End(r)
    BY <1>2, <1>3, AnswerFacts
<1>6. ~IsEmpty(f.curr)
    <2>1. f.curr.Size \in Int /\ (IsEmpty(f.curr) <=> f.curr.Size <= 0)
        BY <1>4, RangeFacts
    <2> QED BY <1>4, <2>1
<1>7. IF f.present THEN Bytes(f.curr) \subseteq held ELSE Bytes(f.curr) \cap held = {}
    BY <1>4
<1>8. Bytes(f.next) = Bytes(r) \ Bytes(f.curr)
    <2>1. /\ \A x : x \in Bytes(f.curr) <=> x \in Int /\ r.Pos <= x /\ x < End(f.curr)
          /\ \A x : x \in Bytes(f.next) <=> x \in Int /\ f.next.Pos <= x /\ x < End(f.next)
          /\ \A x : x \in Bytes(r) <=> x \in Int /\ r.Pos <= x /\ x < End(r)
        BY <1>2, <1>4, RangeFacts
    <2>2. CASE End(f.curr) = End(r)
        <3>1. f.next.Size \in Int /\ f.next.Size <= 0 /\ End(f.next) = f.next.Pos + f.next.Size
            <4>1. IsEmpty(f.next)
                BY <1>5, <2>2
            <4> QED BY <1>4, <4>1, RangeFacts
        <3>2. \A x : x \notin Bytes(f.next)
            BY <1>5, <2>1, <3>1
        <3>3. \A x : x \in Bytes(r) <=> x \in Bytes(f.curr)
            BY <2>1, <2>2
        <3> QED BY <3>2, <3>3
    <2>3. CASE End(f.curr) # End(r)
        <3>1. f.next.Pos = End(f.curr) /\ End(f.next) = End(r)
            BY <1>4, <2>3
        <3>2. ASSUME NEW x
              PROVE  x \in Bytes(f.next) <=> x \in Bytes(r) /\ x \notin Bytes(f.curr)
            <4>1. CASE x \in Int
                BY <1>4, <1>5, <2>1, <3>1, <4>1
            <4> QED BY <2>1, <4>1
        <3> QED BY <3>2
    <2> QED BY <2>2, <2>3
<1>9. ~IsEmpty(f.next) => (f.next.Pos \in held) # f.present
    <2> SUFFICES ASSUME ~IsEmpty(f.next)
                 PROVE  (f.next.Pos \in held) # f.present
        OBVIOUS
    <2>1. f.next.Pos \in held <=> ~f.present
        BY <1>4, <1>5
    <2> QED BY <1>4, <2>1
<1> QED BY <1>4, <1>6, <1>7, <1>8, <1>9 DEF f

LEMMA FindAllAsSet == Kept => FindAllPartitions
<1> SUFFICES ASSUME Kept, NEW r \in Args, ~IsEmpty(r)
             PROVE  LET fs == FindAll(rs, r) IN
                    /\ fs[1].R.Pos = r.Pos /\ End(fs[Len(fs)].R) = End(r)
                    /\ \A i \in 1 .. Len(fs) - 1 :
                          End(fs[i].R) = fs[i+1].R.Pos /\ fs[i].Present # fs[i+1].Present
                    /\ UNION {Bytes(fs[i].R) : i \in {j \in 1 .. Len(fs) : fs[j].Present}}
                          = Bytes(r) \cap held
    BY DEF FindAllPartitions
<1> DEFINE fs == FindAll(rs, r)
<1>1. Sorted(rs) /\ \A x : Covers(rs, x) <=> x \in held
    BY AllBytesIsCovered DEF Kept
<1>2. r \in AnyRange
    BY ArgsType
<1>3. Parts(rs, r, fs)
    BY <1>1, <1>2, FindAllParts
<1> HIDE DEF fs
<1>4. /\ fs[1].R.Pos = r.Pos /\ End(fs[Len(fs)].R) = End(r)
      /\ \A i \in 1 .. Len(fs) - 1 :
            End(fs[i].R) = fs[i+1].R.Pos /\ fs[i].Present # fs[i+1].Present
      /\ \A x : InPresent(fs, x) <=> x \in Bytes(r) /\ x \in held
    BY <1>1, <1>3 DEF Parts
<1>5. UNION {Bytes(fs[i].R) : i \in {j \in 1 .. Len(fs) : fs[j].Present}} = Bytes(r) \cap held
    <2>1. \A x : x \in UNION {Bytes(fs[i].R) : i \in {j \in 1 .. Len(fs) : fs[j].Present}}
                 <=> InPresent(fs, x)
        BY DEF InPresent
    <2> QED BY <1>4, <2>1
<1> QED BY <1>4, <1>5 DEF fs

LEMMA PresentAsSet == Kept => PresentIsSubset
<1> SUFFICES ASSUME Kept, NEW r \in Args
             PROVE  Present(rs, r) <=> Bytes(r) \subseteq held
    BY DEF PresentIsSubset
<1>1. Sorted(rs) /\ \A x : Covers(rs, x) <=> x \in held
    BY AllBytesIsCovered DEF Kept
<1>2. Present(rs, r) <=> \A x \in Bytes(r) : Covers(rs, x)
    BY <1>1, ArgsType, PresentIs
<1> QED BY <1>1, <1>2

LEMMA FindMissingAsSet == Kept => FindMissingDropsHeldPrefix
<1> SUFFICES ASSUME Kept, NEW r \in Args
             PROVE  LET m == FindMissing(rs, r) IN
                    /\ End(m) = End(r)
                    /\ Bytes(r) \ Bytes(m) \subseteq held
                    /\ ~IsEmpty(m) => m.Pos \notin held /\ m.Pos >= r.Pos
    BY DEF FindMissingDropsHeldPrefix
<1> DEFINE m == FindMissing(rs, r)
<1>1. Sorted(rs) /\ \A x : Covers(rs, x) <=> x \in held
    BY AllBytesIsCovered DEF Kept
<1>2. r \in AnyRange
    BY ArgsType
<1>3. /\ End(m) = End(r)
      /\ \A x \in Bytes(r) : x \notin Bytes(m) => Covers(rs, x)
      /\ ~IsEmpty(m) => ~Covers(rs, m.Pos) /\ m.Pos >= r.Pos
    BY <1>1, <1>2, FindMissingIs
<1> HIDE DEF m
<1>4. End(m) = End(r) /\ Bytes(r) \ Bytes(m) \subseteq held
    BY <1>1, <1>3
<1>5. ~IsEmpty(m) => m.Pos \notin held /\ m.Pos >= r.Pos
    BY <1>1, <1>3
<1> QED BY <1>4, <1>5 DEF m

\* Find, FindAll, Present and FindMissing, whatever is asked and in whatever state,
\* answer as the set of bytes held would: the item never takes one of them for the other.
THEOREM AnswersCorrect == Spec => []AnswersAsSet
<1>1. Kept => AnswersAsSet
    BY FindAsSet, FindAllAsSet, PresentAsSet, FindMissingAsSet DEF AnswersAsSet
<1> QED BY KeptInvariant, <1>1, PTL
==============================================================================
