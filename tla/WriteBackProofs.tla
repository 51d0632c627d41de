--------------------------- MODULE WriteBackProofs ----------------------------
(***************************************************************************)
(* Proofs about WriteBack, for any number of files, items, callers, calls  *)
(* and uploads at a time.                                                  *)
(***************************************************************************)
EXTENDS WriteBack, Lemmas, SequenceTheorems

\* No handle is of item 0.
LEMMA ItemsAre ==
    /\ \E n \in Nat : Items = 1 .. n
    /\ NoItem \notin Items /\ AnId \in Ids
<1>1. Cardinality(Items) \in Nat
    BY WriteBackAssumption, FS_CardinalityType
<1>2. AnId \in Ids
    BY WriteBackAssumption DEF AnId
<1> QED BY <1>1, <1>2, WriteBackAssumption DEF NoItem

-------------------------------------------------------------------------------
(* The heap *)

\* The first n elements of a sequence.
LEMMA FirstOf ==
    ASSUME NEW S, NEW s \in Seq(S), NEW n \in Nat, n <= Len(s)
    PROVE  /\ SubSeq(s, 1, n) \in Seq(S) /\ Len(SubSeq(s, 1, n)) = n
           /\ \A k \in 1 .. n : SubSeq(s, 1, n)[k] = s[k]
<1>1. \A i \in 1 .. n : s[i] \in S
    OBVIOUS
<1>2. /\ SubSeq(s, 1, n) \in Seq(S)
      /\ Len(SubSeq(s, 1, n)) = IF 1 <= n THEN n - 1 + 1 ELSE 0
      /\ \A i \in 1 .. n - 1 + 1 : SubSeq(s, 1, n)[i] = s[1 + i - 1]
    BY <1>1, SubSeqProperties
<1> QED BY <1>2

\* The elements from the n-th on.
LEMMA OthersOf ==
    ASSUME NEW S, NEW s \in Seq(S), NEW n \in 1 .. Len(s) + 1
    PROVE  /\ SubSeq(s, n, Len(s)) \in Seq(S) /\ Len(SubSeq(s, n, Len(s))) = Len(s) + 1 - n
           /\ \A k \in 1 .. Len(s) + 1 - n : SubSeq(s, n, Len(s))[k] = s[k + n - 1]
<1>1. Len(s) \in Nat /\ n \in Nat /\ \A i \in n .. Len(s) : s[i] \in S
    OBVIOUS
<1>2. /\ SubSeq(s, n, Len(s)) \in Seq(S)
      /\ Len(SubSeq(s, n, Len(s))) = IF n <= Len(s) THEN Len(s) - n + 1 ELSE 0
      /\ \A i \in 1 .. Len(s) - n + 1 : SubSeq(s, n, Len(s))[i] = s[n + i - 1]
    BY <1>1, SubSeqProperties
<1>3. ASSUME NEW k \in 1 .. Len(s) + 1 - n
      PROVE  SubSeq(s, n, Len(s))[k] = s[k + n - 1]
    <2>1. k \in 1 .. Len(s) - n + 1 /\ n + k - 1 = k + n - 1
        BY <1>1
    <2> QED BY <1>2, <2>1
<1> QED BY <1>1, <1>2, <1>3

\* Nothing is on the heap twice.
GoodQueue(q) ==
    /\ q \in [heap : Seq(Items), due : Nat] /\ q.due <= Len(q.heap)
    /\ \A j, k \in 1 .. Len(q.heap) : q.heap[j] = q.heap[k] => j = k

\* What is on the heap, and what of it has expired, by position.
LEMMA Places ==
    ASSUME NEW q, GoodQueue(q), NEW i
    PROVE  /\ Held(q, i) <=> \E k \in 1 .. Len(q.heap) : q.heap[k] = i
           /\ HasExpired(q, i) <=> \E k \in 1 .. q.due : q.heap[k] = i
           /\ HasExpired(q, i) => Held(q, i)
           /\ Held(q, i) => i \in Items
<1>1. PICK h \in Seq(Items), d \in Nat : h = q.heap /\ d = q.due /\ d <= Len(h)
    BY DEF GoodQueue
<1>2. Len(h) \in Nat /\ DOMAIN h = 1 .. Len(h)
    OBVIOUS
<1>9. /\ SubSeq(h, 1, d) \in Seq(Items) /\ Len(SubSeq(h, 1, d)) = d
      /\ \A k \in 1 .. d : SubSeq(h, 1, d)[k] = h[k]
    BY <1>1, FirstOf
<1>3. PICK p \in Seq(Items) : p = SubSeq(h, 1, d) /\ Len(p) = d /\ \A k \in 1 .. d : p[k] = h[k]
    BY <1>9
<1>4. DOMAIN p = 1 .. d
    BY <1>3
<1>5. Held(q, i) <=> \E k \in 1 .. Len(h) : h[k] = i
    BY <1>1, <1>2 DEF Held, Range
<1>6. HasExpired(q, i) <=> \E k \in 1 .. d : h[k] = i
    BY <1>1, <1>3, <1>4 DEF HasExpired, Range
<1>7. \A k \in 1 .. d : k \in 1 .. Len(h)
    BY <1>1, <1>2
<1>8. \A k \in 1 .. Len(h) : h[k] \in Items
    BY <1>1
<1> QED BY <1>1, <1>5, <1>6, <1>7, <1>8

\* What is on the heap and has expired, by position.
HeldAt(q) == \A i : Held(q, i) <=> \E k \in 1 .. Len(q.heap) : q.heap[k] = i
ExpiredAt(q) == \A i : HasExpired(q, i) <=> \E k \in 1 .. q.due : q.heap[k] = i

\* The same of all items at once.
LEMMA PlacesAre ==
    ASSUME NEW q, GoodQueue(q)
    PROVE  HeldAt(q) /\ ExpiredAt(q)
BY Places DEF HeldAt, ExpiredAt

\* The queue without the items in gone.
Dropped(q, gone) ==
    [heap |-> Filter(q.heap, Items \ gone),
     due |-> Cardinality({m \in 1 .. q.due : q.heap[m] \in Items \ gone})]

\* Items that are taken off the heap leave the others as they are.
LEMMA DroppedIs ==
    ASSUME NEW q, GoodQueue(q), NEW gone
    PROVE  /\ GoodQueue(Dropped(q, gone))
           /\ \A i : Held(Dropped(q, gone), i) <=> Held(q, i) /\ i \notin gone
           /\ \A i : HasExpired(Dropped(q, gone), i) <=> HasExpired(q, i) /\ i \notin gone
<1> DEFINE K == Items \ gone
           kept == {m \in 1 .. q.due : q.heap[m] \in K}
<1>1. PICK h \in Seq(Items), d \in Nat : h = q.heap /\ d = q.due /\ d <= Len(h)
    BY DEF GoodQueue
<1>2. \A j, k \in 1 .. Len(h) : h[j] = h[k] => j = k
    BY <1>1 DEF GoodQueue
<1>3. Len(h) \in Nat /\ d \in 0 .. Len(h)
    BY <1>1
<1>4. PICK t \in Seq(Items) : t = Filter(h, K)
    BY FilterPicks
<1>12. PICK c \in 0 .. Len(t) : c = Cardinality(kept)
    BY <1>1, <1>3, <1>4, FilterCount
<1>5. PICK g : /\ Picks(g, t, h, Len(h), K)
               /\ \A i \in 1 .. Len(t) : g[i] <= d <=> i <= c
    BY <1>1, <1>3, <1>4, <1>12, FilterCount
<1> DEFINE p == Dropped(q, gone)
<1>6. p = [heap |-> t, due |-> c]
    BY <1>1, <1>4, <1>12 DEF Dropped
<1> HIDE DEF K, kept, p
<1>7. /\ \A i \in 1 .. Len(t) : g[i] \in 1 .. Len(h) /\ t[i] = h[g[i]] /\ t[i] \in K
      /\ \A i, j \in 1 .. Len(t) : i < j => g[i] < g[j]
      /\ \A m \in 1 .. Len(h) : h[m] \in K => \E i \in 1 .. Len(t) : g[i] = m
      /\ Len(t) \in Nat /\ c \in Nat /\ c <= Len(t)
    BY <1>4, <1>5 DEF Picks
<1>8. \A j, k \in 1 .. Len(t) : t[j] = t[k] => j = k
    <2> SUFFICES ASSUME NEW j \in 1 .. Len(t), NEW k \in 1 .. Len(t), j # k
                 PROVE  t[j] # t[k]
        OBVIOUS
    <2>1. j < k \/ k < j
        OBVIOUS
    <2>2. g[j] # g[k]
        BY <1>3, <1>7, <2>1
    <2>3. /\ g[j] \in 1 .. Len(h) /\ t[j] = h[g[j]]
          /\ g[k] \in 1 .. Len(h) /\ t[k] = h[g[k]]
        BY <1>7
    <2> QED BY <1>2, <2>2, <2>3
<1>9. GoodQueue(p)
    BY <1>6, <1>7, <1>8 DEF GoodQueue
<1>10. ASSUME NEW i
       PROVE  Held(p, i) <=> Held(q, i) /\ i \notin gone
    <2>1. Held(p, i) <=> \E k \in 1 .. Len(t) : t[k] = i
        BY <1>6, <1>9, Places
    <2>2. Held(q, i) <=> i \in Items /\ \E k \in 1 .. Len(h) : h[k] = i
        BY <1>1, Places
    <2>3. (\E k \in 1 .. Len(t) : t[k] = i) => i \in K /\ \E k \in 1 .. Len(h) : h[k] = i
        BY <1>7
    <2>4. i \in K /\ (\E k \in 1 .. Len(h) : h[k] = i) => \E k \in 1 .. Len(t) : t[k] = i
        BY <1>7
    <2> QED BY <2>1, <2>2, <2>3, <2>4 DEF K
<1>11. ASSUME NEW i
       PROVE  HasExpired(p, i) <=> HasExpired(q, i) /\ i \notin gone
    <2>1. HasExpired(p, i) <=> \E k \in 1 .. c : t[k] = i
        BY <1>6, <1>9, Places
    <2>2. HasExpired(q, i) <=> i \in Items /\ \E k \in 1 .. d : h[k] = i
        BY <1>1, Places
    <2>3. ASSUME NEW k \in 1 .. c, t[k] = i
          PROVE  i \in K /\ \E m \in 1 .. d : h[m] = i
        <3>1. k \in 1 .. Len(t) /\ k <= c
            BY <1>7
        <3>2. g[k] \in 1 .. d
            BY <1>5, <1>7, <3>1
        <3> QED BY <1>7, <2>3, <3>1, <3>2
    <2>4. ASSUME i \in K, NEW m \in 1 .. d, h[m] = i
          PROVE  \E k \in 1 .. c : t[k] = i
        <3>1. m \in 1 .. Len(h) /\ m <= d
            BY <1>3
        <3>2. PICK k \in 1 .. Len(t) : g[k] = m
            BY <1>7, <2>4, <3>1
        <3>3. k \in 1 .. c
            BY <1>5, <1>7, <3>1, <3>2
        <3> QED BY <1>7, <2>4, <3>2, <3>3
    <2> QED BY <2>1, <2>2, <2>3, <2>4 DEF K
<1> QED BY <1>9, <1>10, <1>11 DEF p

\* _removeItem takes one item off the heap.
LEMMA WithoutIs ==
    ASSUME NEW q, GoodQueue(q), NEW i \in Items
    PROVE  Without(q, i) = Dropped(q, {i})
<1>1. PICK h \in Seq(Items), d \in Nat : h = q.heap /\ d = q.due /\ d <= Len(h)
    BY DEF GoodQueue
<1>2. \A j, k \in 1 .. d : h[j] = h[k] => j = k
    <2>1. \A k \in 1 .. d : k \in 1 .. Len(h)
        BY <1>1
    <2> QED BY <1>1, <2>1 DEF GoodQueue
<1> DEFINE kept == {m \in 1 .. d : h[m] \in Items \ {i}}
<1>3. \A m \in 1 .. d : h[m] \in Items
    BY <1>1
<1>4. IsFiniteSet(1 .. d) /\ Cardinality(1 .. d) = d
    BY FS_Interval
<1>5. HasExpired(q, i) <=> \E k \in 1 .. d : h[k] = i
    BY <1>1, Places
<1>6. CASE HasExpired(q, i)
    <2>1. PICK k \in 1 .. d : h[k] = i
        BY <1>5, <1>6
    <2>2. kept = (1 .. d) \ {k}
        BY <1>2, <1>3, <2>1
    <2>3. Cardinality(kept) = d - 1
        BY <1>4, <2>2, FS_RemoveElement
    <2> QED BY <1>1, <1>6, <2>3 DEF Without, Dropped
<1>7. CASE ~HasExpired(q, i)
    <2>1. kept = 1 .. d
        BY <1>3, <1>5, <1>7
    <2> QED BY <1>1, <1>4, <1>7, <2>1 DEF Without, Dropped
<1> QED BY <1>6, <1>7

\* t is s with e at place n, and what was there moved up.
Puts(t, s, n, e) ==
    /\ Len(t) = Len(s) + 1
    /\ \A k \in 1 .. Len(s) + 1 :
          t[k] = IF k < n THEN s[k] ELSE IF k = n THEN e ELSE s[k - 1]

\* InsertAt, in those terms.
LEMMA InsertAtIs ==
    ASSUME NEW S, NEW s \in Seq(S), NEW e \in S, NEW n \in 1 .. Len(s) + 1
    PROVE  InsertAt(s, n, e) \in Seq(S) /\ Puts(InsertAt(s, n, e), s, n, e)
<1>1. Len(s) \in Nat /\ n \in Nat /\ n - 1 \in Nat /\ n - 1 <= Len(s)
    OBVIOUS
<1> DEFINE a == SubSeq(s, 1, n - 1)
           b == SubSeq(s, n, Len(s))
           c == a \o <<e>>
           t == c \o b
<1>2. a \in Seq(S) /\ Len(a) = n - 1 /\ \A k \in 1 .. n - 1 : a[k] = s[k]
    BY <1>1, FirstOf
<1>3. b \in Seq(S) /\ Len(b) = Len(s) + 1 - n /\ \A k \in 1 .. Len(s) + 1 - n : b[k] = s[k + n - 1]
    BY OthersOf
<1>4. InsertAt(s, n, e) = t
    BY DEF InsertAt
<1> HIDE DEF a, b
<1>5. c \in Seq(S) /\ Len(c) = n /\ \A k \in 1 .. n : c[k] = IF k < n THEN s[k] ELSE e
    <2>1. <<e>> \in Seq(S) /\ Len(<<e>>) = 1 /\ <<e>>[1] = e
        OBVIOUS
    <2>2. /\ c \in Seq(S) /\ Len(c) = Len(a) + Len(<<e>>)
          /\ \A k \in 1 .. Len(a) + Len(<<e>>) : c[k] = IF k <= Len(a) THEN a[k] ELSE <<e>>[k - Len(a)]
        BY <1>2, <2>1, ConcatProperties
    <2> HIDE DEF c
    <2>3. ASSUME NEW k \in 1 .. n
          PROVE  c[k] = IF k < n THEN s[k] ELSE e
        <3>1. CASE k < n
            BY <1>1, <1>2, <2>1, <2>2, <3>1
        <3>2. CASE k = n
            <4>1. k - Len(a) = 1
                BY <1>1, <1>2, <3>2
            <4> QED BY <1>1, <1>2, <2>1, <2>2, <3>2, <4>1
        <3> QED BY <1>1, <3>1, <3>2
    <2> QED BY <1>1, <1>2, <2>1, <2>2, <2>3
<1> HIDE DEF c
<1>6. /\ t \in Seq(S) /\ Len(t) = Len(c) + Len(b)
      /\ \A k \in 1 .. Len(c) + Len(b) : t[k] = IF k <= Len(c) THEN c[k] ELSE b[k - Len(c)]
    BY <1>3, <1>5, ConcatProperties
<1> HIDE DEF t
<1>7. Len(t) = Len(s) + 1
    BY <1>1, <1>3, <1>5, <1>6
<1>8. ASSUME NEW k \in 1 .. Len(s) + 1
      PROVE  t[k] = IF k < n THEN s[k] ELSE IF k = n THEN e ELSE s[k - 1]
    <2>1. CASE k <= n
        <3>1. k \in 1 .. Len(c) /\ k \in 1 .. n
            BY <1>1, <1>5, <2>1
        <3>2. t[k] = c[k]
            BY <1>5, <1>6, <3>1
        <3> QED BY <1>1, <1>5, <2>1, <3>1, <3>2
    <2>2. CASE ~(k <= n)
        <3>1. k - n \in 1 .. Len(b) /\ k - n \in 1 .. Len(s) + 1 - n /\ (k - n) + n - 1 = k - 1
            BY <1>1, <1>3, <2>2
        <3>2. t[k] = b[k - n]
            <4>1. k \in 1 .. Len(c) + Len(b) /\ ~(k <= Len(c)) /\ k - Len(c) = k - n
                BY <1>1, <1>3, <1>5, <2>2
            <4> QED BY <1>6, <4>1
        <3>3. b[k - n] = s[k - 1]
            BY <1>3, <3>1
        <3> QED BY <1>1, <2>2, <3>2, <3>3
    <2> QED BY <2>1, <2>2
<1> QED BY <1>4, <1>6, <1>7, <1>8 DEF Puts

\* Whoever is on the heap and has not expired was there before, or is one of moved.
Follows(q, p, moved) ==
    \A j : j \notin moved /\ Held(p, j) /\ ~HasExpired(p, j) => Held(q, j) /\ ~HasExpired(q, j)

\* An item that was not on the heap has come to place n of it.
LEMMA Inserted ==
    ASSUME NEW q, GoodQueue(q), NEW i \in Items, ~Held(q, i), NEW n \in 1 .. Len(q.heap) + 1,
           NEW t \in Seq(Items), Puts(t, q.heap, n, i), NEW d \in Nat, d <= Len(t),
           NEW p, p = [heap |-> t, due |-> d]
    PROVE  /\ GoodQueue(p)
           /\ \A j : Held(p, j) <=> Held(q, j) \/ j = i
           /\ d = q.due /\ n > d => \A j : HasExpired(p, j) <=> HasExpired(q, j)
           /\ d = q.due + 1 /\ n <= d => \A j : HasExpired(p, j) <=> HasExpired(q, j) \/ j = i
<1>1. PICK h \in Seq(Items), e \in Nat : h = q.heap /\ e = q.due /\ e <= Len(h)
    BY DEF GoodQueue
<1>2. \A j, k \in 1 .. Len(h) : h[j] = h[k] => j = k
    BY <1>1 DEF GoodQueue
<1>3. Len(h) \in Nat /\ n \in 1 .. Len(h) + 1 /\ Len(t) = Len(h) + 1
    BY <1>1 DEF Puts
<1>4. \A k \in 1 .. Len(h) + 1 : t[k] = IF k < n THEN h[k] ELSE IF k = n THEN i ELSE h[k - 1]
    BY <1>1 DEF Puts
<1>5. \A k \in 1 .. Len(h) : h[k] # i
    BY <1>1, Places
<1> DEFINE From(k) == IF k < n THEN k ELSE k - 1
<1>6. \A k \in 1 .. Len(h) + 1 : k # n => From(k) \in 1 .. Len(h) /\ t[k] = h[From(k)]
    BY <1>3, <1>4
<1>7. \A j, k \in 1 .. Len(h) + 1 : t[j] = t[k] => j = k
    <2> SUFFICES ASSUME NEW j \in 1 .. Len(h) + 1, NEW k \in 1 .. Len(h) + 1, j # k
                 PROVE  t[j] # t[k]
        OBVIOUS
    <2>1. t[n] = i /\ \A m \in 1 .. Len(h) + 1 : m # n => t[m] # i
        <3>1. t[n] = i
            BY <1>3, <1>4
        <3> QED BY <1>5, <1>6, <3>1
    <2>3. CASE j = n \/ k = n
        BY <2>1, <2>3
    <2>2. CASE j # n /\ k # n
        <3>1. From(j) # From(k)
            BY <1>3, <2>2
        <3> QED BY <1>2, <1>6, <2>2, <3>1
    <2> QED BY <2>2, <2>3
<1>8. GoodQueue(p)
    BY <1>3, <1>7 DEF GoodQueue
<1>9. \A k \in 1 .. Len(h) : \E m \in 1 .. Len(h) + 1 : t[m] = h[k] /\ m = (IF k < n THEN k ELSE k + 1)
    <2> SUFFICES ASSUME NEW k \in 1 .. Len(h)
                 PROVE  \E m \in 1 .. Len(h) + 1 : t[m] = h[k] /\ m = (IF k < n THEN k ELSE k + 1)
        OBVIOUS
    <2>1. CASE k < n
        <3>1. k \in 1 .. Len(h) + 1 /\ t[k] = h[k]
            BY <1>3, <1>4, <2>1
        <3> QED BY <2>1, <3>1
    <2>2. CASE ~(k < n)
        <3>1. k + 1 \in 1 .. Len(h) + 1 /\ ~(k + 1 < n) /\ k + 1 # n /\ (k + 1) - 1 = k
            BY <1>3, <2>2
        <3>2. t[k + 1] = h[k]
            BY <1>4, <3>1
        <3> QED BY <2>2, <3>1, <3>2
    <2> QED BY <2>1, <2>2
<1>10. p.heap = t /\ p.due = d
    OBVIOUS
<1>11. ASSUME NEW j
       PROVE  Held(p, j) <=> Held(q, j) \/ j = i
    <2>1. Held(p, j) <=> \E k \in 1 .. Len(t) : t[k] = j
        BY <1>8, <1>10, Places
    <2>2. Held(q, j) <=> \E k \in 1 .. Len(h) : h[k] = j
        BY <1>1, Places
    <2>3. t[n] = i /\ n \in 1 .. Len(t)
        BY <1>3, <1>4
    <2>4. (\E k \in 1 .. Len(t) : t[k] = j) => j = i \/ \E k \in 1 .. Len(h) : h[k] = j
        BY <1>3, <1>6, <2>3
    <2>5. (\E k \in 1 .. Len(h) : h[k] = j) => \E k \in 1 .. Len(t) : t[k] = j
        BY <1>3, <1>9
    <2> QED BY <2>1, <2>2, <2>3, <2>4, <2>5
<1>12. ASSUME NEW j
       PROVE  /\ HasExpired(p, j) <=> \E k \in 1 .. d : t[k] = j
              /\ HasExpired(q, j) <=> \E k \in 1 .. e : h[k] = j
    <2>1. HasExpired(p, j) <=> \E k \in 1 .. p.due : p.heap[k] = j
        <3>1. ExpiredAt(p)
            BY <1>8, PlacesAre
        <3> QED BY <3>1 DEF ExpiredAt
    <2>2. HasExpired(q, j) <=> \E k \in 1 .. q.due : q.heap[k] = j
        BY Places
    <2> QED BY <1>1, <1>10, <2>1, <2>2
<1>13. ASSUME d = e, n > d, NEW j
       PROVE  HasExpired(p, j) <=> HasExpired(q, j)
    <2>1. \A k \in 1 .. d : t[k] = h[k]
        BY <1>3, <1>4, <1>13
    <2> QED BY <1>12, <1>13, <2>1
<1>14. ASSUME d = e + 1, n <= d, NEW j
       PROVE  HasExpired(p, j) <=> HasExpired(q, j) \/ j = i
    <2>1. t[n] = i /\ n \in 1 .. d
        BY <1>3, <1>4, <1>14
    <2>2. \A k \in 1 .. d : k # n => From(k) \in 1 .. e /\ t[k] = h[From(k)]
        <3>1. ASSUME NEW k \in 1 .. d, k # n
              PROVE  From(k) \in 1 .. e /\ t[k] = h[From(k)]
            <4>1. k \in 1 .. Len(h) + 1
                BY <1>1, <1>3, <1>14
            <4>2. From(k) \in 1 .. e
                BY <1>3, <1>14, <3>1
            <4> QED BY <1>6, <3>1, <4>1, <4>2
        <3> QED BY <3>1
    <2>3. ASSUME NEW k \in 1 .. e
          PROVE  \E m \in 1 .. d : t[m] = h[k]
        <3>1. k \in 1 .. Len(h)
            BY <1>1, <1>3
        <3>2. PICK m \in 1 .. Len(h) + 1 : t[m] = h[k] /\ m = (IF k < n THEN k ELSE k + 1)
            BY <1>9, <3>1
        <3>3. m \in 1 .. d
            BY <1>1, <1>3, <1>14, <3>2
        <3> QED BY <3>2, <3>3
    <2> QED BY <1>12, <2>1, <2>2, <2>3
<1> QED BY <1>1, <1>8, <1>11, <1>13, <1>14

\* _removeItem takes one item off.
LEMMA TakenOff ==
    ASSUME NEW q, GoodQueue(q), NEW i \in Items
    PROVE  /\ GoodQueue(Without(q, i)) /\ Follows(q, Without(q, i), {})
           /\ \A j : Held(Without(q, i), j) <=> Held(q, j) /\ j # i
<1>1. PICK p : p = Dropped(q, {i})
    OBVIOUS
<1>2. p = Without(q, i)
    BY <1>1, WithoutIs
<1>3. /\ GoodQueue(p)
      /\ \A j : Held(p, j) <=> Held(q, j) /\ j \notin {i}
      /\ \A j : HasExpired(p, j) <=> HasExpired(q, j) /\ j \notin {i}
    BY <1>1, DroppedIs
<1> QED BY <1>2, <1>3 DEF Follows

\* A new expiry in the future puts an item on the heap, if it is not there.
LEMMA LaterIs ==
    ASSUME NEW q, GoodQueue(q), NEW i \in Items, NEW p \in Later(q, i)
    PROVE  /\ GoodQueue(p) /\ Follows(q, p, {i})
           /\ \A j : Held(p, j) <=> Held(q, j) \/ j = i
<1>1. PICK o : o = Without(q, i)
    OBVIOUS
<1>2. /\ GoodQueue(o) /\ Follows(q, o, {})
      /\ \A j : Held(o, j) <=> Held(q, j) /\ j # i
    BY <1>1, TakenOff
<1>3. PICK h \in Seq(Items), d \in Nat : o = [heap |-> h, due |-> d] /\ d <= Len(h)
    BY <1>2 DEF GoodQueue
<1>4. PICK n \in d + 1 .. Len(h) + 1 : p = [o EXCEPT !.heap = InsertAt(@, n, i)]
    BY <1>1, <1>3 DEF Later
<1>5. n \in 1 .. Len(h) + 1 /\ n > d /\ Len(h) \in Nat
    BY <1>3
<1>11. InsertAt(h, n, i) \in Seq(Items) /\ Puts(InsertAt(h, n, i), h, n, i)
    BY <1>5, InsertAtIs
<1>6. PICK t \in Seq(Items) : t = InsertAt(h, n, i) /\ Puts(t, h, n, i)
    BY <1>11
<1>7. Len(t) = Len(h) + 1
    BY <1>6 DEF Puts
<1>8. p = [heap |-> t, due |-> d]
    BY <1>3, <1>4, <1>6
<1>9. ~Held(o, i) /\ o.heap = h /\ o.due = d /\ d <= Len(t)
    BY <1>2, <1>3, <1>5, <1>7
<1>12. n \in 1 .. Len(o.heap) + 1 /\ Puts(t, o.heap, n, i) /\ d \in Nat /\ d <= Len(t)
    BY <1>5, <1>6, <1>9
<1>10. /\ GoodQueue(p)
       /\ \A j : Held(p, j) <=> Held(o, j) \/ j = i
       /\ \A j : HasExpired(p, j) <=> HasExpired(o, j)
    BY <1>2, <1>5, <1>6, <1>8, <1>9, <1>12, Inserted
<1> QED BY <1>2, <1>10 DEF Follows

\* So does one that has come already.
LEMMA SoonerIs ==
    ASSUME NEW q, GoodQueue(q), NEW i \in Items, NEW p \in Sooner(q, i)
    PROVE  /\ GoodQueue(p) /\ Follows(q, p, {i})
           /\ \A j : Held(p, j) <=> Held(q, j) \/ j = i
<1>1. PICK o : o = Without(q, i)
    OBVIOUS
<1>2. /\ GoodQueue(o) /\ Follows(q, o, {})
      /\ \A j : Held(o, j) <=> Held(q, j) /\ j # i
    BY <1>1, TakenOff
<1>3. PICK h \in Seq(Items), d \in Nat : o = [heap |-> h, due |-> d] /\ d <= Len(h)
    BY <1>2 DEF GoodQueue
<1>4. PICK n \in 1 .. d + 1 : p = [heap |-> InsertAt(h, n, i), due |-> d + 1]
    BY <1>1, <1>3 DEF Sooner
<1>5. n \in 1 .. Len(h) + 1 /\ n <= d + 1 /\ Len(h) \in Nat /\ d + 1 \in Nat
    BY <1>3
<1>11. InsertAt(h, n, i) \in Seq(Items) /\ Puts(InsertAt(h, n, i), h, n, i)
    BY <1>5, InsertAtIs
<1>6. PICK t \in Seq(Items) : t = InsertAt(h, n, i) /\ Puts(t, h, n, i)
    BY <1>11
<1>7. Len(t) = Len(h) + 1
    BY <1>6 DEF Puts
<1>8. p = [heap |-> t, due |-> d + 1]
    BY <1>4, <1>6
<1>9. ~Held(o, i) /\ o.heap = h /\ o.due = d /\ d + 1 <= Len(t)
    BY <1>2, <1>3, <1>5, <1>7
<1>12. n \in 1 .. Len(o.heap) + 1 /\ Puts(t, o.heap, n, i) /\ d + 1 \in Nat /\ d + 1 <= Len(t)
    BY <1>5, <1>6, <1>9
<1>10. /\ GoodQueue(p)
       /\ \A j : Held(p, j) <=> Held(o, j) \/ j = i
       /\ \A j : HasExpired(p, j) <=> HasExpired(o, j) \/ j = i
    BY <1>2, <1>5, <1>6, <1>8, <1>9, <1>12, Inserted
<1> QED BY <1>2, <1>10 DEF Follows

\* _update moves an item only if it is on the heap.
LEMMA UpdatedIs ==
    ASSUME NEW q, GoodQueue(q), NEW i \in Items, NEW p \in Updated(q, i)
    PROVE  /\ GoodQueue(p) /\ Follows(q, p, {i})
           /\ \A j : Held(p, j) <=> Held(q, j)
<1>1. CASE Held(q, i)
    BY <1>1, LaterIs DEF Updated
<1>2. CASE ~Held(q, i)
    BY <1>2 DEF Updated, Follows
<1> QED BY <1>1, <1>2

\* Rename puts an item back to the front, as one that has expired.
LEMMA PutInFront ==
    ASSUME NEW q, GoodQueue(q), NEW i \in Items, ~Held(q, i)
    PROVE  LET p == [heap |-> <<i>> \o q.heap, due |-> q.due + 1] IN
           /\ GoodQueue(p) /\ Follows(q, p, {})
           /\ \A j : Held(p, j) <=> Held(q, j) \/ j = i
<1>1. PICK h \in Seq(Items), d \in Nat : h = q.heap /\ d = q.due /\ d <= Len(h)
    BY DEF GoodQueue
<1>2. PICK t : t = <<i>> \o h
    OBVIOUS
<1>3. <<i>> \in Seq(Items) /\ Len(<<i>>) = 1 /\ <<i>>[1] = i
    OBVIOUS
<1>4. /\ t \in Seq(Items) /\ Len(t) = Len(<<i>>) + Len(h)
      /\ \A k \in 1 .. Len(<<i>>) + Len(h) : t[k] = IF k <= Len(<<i>>) THEN <<i>>[k] ELSE h[k - Len(<<i>>)]
    BY <1>2, <1>3, ConcatProperties
<1>5. Len(h) \in Nat /\ Len(t) = Len(h) + 1 /\ 1 \in 1 .. Len(h) + 1 /\ d + 1 \in Nat /\ d + 1 <= Len(t) /\ 1 <= d + 1
    BY <1>1, <1>3, <1>4
<1>6. Puts(t, h, 1, i)
    BY <1>3, <1>4, <1>5 DEF Puts
<1>8. PICK p : p = [heap |-> t, due |-> d + 1]
    OBVIOUS
<1>7. /\ GoodQueue(p)
      /\ \A j : Held(p, j) <=> Held(q, j) \/ j = i
      /\ \A j : HasExpired(p, j) <=> HasExpired(q, j) \/ j = i
    BY <1>1, <1>4, <1>5, <1>6, <1>8, Inserted
<1> QED BY <1>1, <1>2, <1>7, <1>8 DEF Follows

\* Rename takes several off: what is left of those that had expired is counted.
LEMMA DroppedCount ==
    ASSUME NEW q, GoodQueue(q), NEW gone
    PROVE  Dropped(q, gone) = [heap |-> Filter(q.heap, Items \ gone),
                               due |-> Len(Filter(SubSeq(q.heap, 1, q.due), Items \ gone))]
<1> DEFINE K == Items \ gone
<1>1. PICK h \in Seq(Items), d \in Nat : h = q.heap /\ d = q.due /\ d <= Len(h)
    BY DEF GoodQueue
<1>2. SubSeq(h, 1, d) \in Seq(Items) /\ Len(SubSeq(h, 1, d)) = d /\ \A k \in 1 .. d : SubSeq(h, 1, d)[k] = h[k]
    BY <1>1, FirstOf
<1>3. PICK s \in Seq(Items) : s = SubSeq(h, 1, d) /\ Len(s) = d /\ \A k \in 1 .. d : s[k] = h[k]
    BY <1>2
<1> HIDE DEF K
<1>4. PICK t \in Seq(Items) : t = Filter(s, K)
    BY FilterPicks
<1> DEFINE kept == {m \in 1 .. d : s[m] \in K}
<1>5. d \in 0 .. Len(s) /\ Len(t) \in Nat
    BY <1>3
<1>6. PICK g : /\ Picks(g, t, s, Len(s), K)
               /\ \A i \in 1 .. Len(t) : g[i] <= d <=> i <= Cardinality(kept)
    BY <1>4, <1>5, FilterCount
<1>7. Cardinality(kept) \in 0 .. Len(t)
    BY <1>4, <1>5, FilterCount
<1>8. \A i \in 1 .. Len(t) : g[i] \in 1 .. d
    BY <1>3, <1>6 DEF Picks
<1>9. Cardinality(kept) = Len(t)
    <2> HIDE DEF kept
    <2>1. CASE Len(t) = 0
        BY <1>7, <2>1
    <2>2. CASE Len(t) # 0
        <3>1. Len(t) \in 1 .. Len(t)
            BY <1>5, <2>2
        <3>2. Len(t) <= Cardinality(kept)
            BY <1>6, <1>8, <3>1
        <3> QED BY <1>5, <1>7, <3>2
    <2> QED BY <2>1, <2>2
<1>10. kept = {m \in 1 .. q.due : q.heap[m] \in K}
    BY <1>1, <1>3
<1> QED BY <1>1, <1>3, <1>4, <1>9, <1>10 DEF Dropped, K

\* The queue without its first n.
Left(n) == [heap |-> SubSeq(queue.heap, n + 1, Len(queue.heap)), due |-> queue.due - n]

\* What processItems takes, and what it leaves on the heap.
LEMMA StartableIs ==
    ASSUME GoodQueue(queue), uploads \in 0 .. MaxUploads,
           NEW n, n = Len(Startable),
           NEW q, q = Left(n)
    PROVE  /\ Startable \in Seq(Items) /\ n \in Nat /\ uploads + n <= MaxUploads
           /\ \A j, k \in 1 .. n : Startable[j] = Startable[k] => j = k
           /\ \A j \in Range(Startable) : HasExpired(queue, j)
           /\ GoodQueue(q) /\ Follows(queue, q, {})
           /\ \A j : Held(q, j) <=> Held(queue, j) /\ j \notin Range(Startable)
           /\ q.due > 0 => uploads + n = MaxUploads
           /\ ~(q.due > 0) => \A j : HasExpired(queue, j) => j \in Range(Startable)
<1>1. PICK h \in Seq(Items), d \in Nat : h = queue.heap /\ d = queue.due /\ d <= Len(h) /\ queue = [heap |-> h, due |-> d]
    BY DEF GoodQueue
<1>2. MaxUploads \in Nat /\ uploads \in Nat /\ uploads <= MaxUploads /\ Len(h) \in Nat
    BY WriteBackAssumption
<1> DEFINE m == IF d <= MaxUploads - uploads THEN d ELSE MaxUploads - uploads
<1>3. m \in Nat /\ m <= d /\ m <= Len(h) /\ uploads + m <= MaxUploads /\ (m < d => uploads + m = MaxUploads)
    BY <1>1, <1>2
<1>4. Startable = SubSeq(h, 1, m)
    BY <1>1 DEF Startable
<1> HIDE DEF m
<1>5. SubSeq(h, 1, m) \in Seq(Items) /\ Len(SubSeq(h, 1, m)) = m /\ \A k \in 1 .. m : SubSeq(h, 1, m)[k] = h[k]
    BY <1>3, FirstOf
<1>6. PICK s \in Seq(Items) : s = Startable /\ n = m /\ Len(s) = m /\ \A k \in 1 .. m : s[k] = h[k]
    BY <1>4, <1>5
<1>7. \A j : j \in Range(s) <=> \E k \in 1 .. m : h[k] = j
    <2>1. DOMAIN s = 1 .. m
        BY <1>6
    <2>2. Range(s) = {s[k] : k \in 1 .. m}
        BY <2>1 DEF Range
    <2> QED BY <1>6, <2>2
<1>8. m + 1 \in 1 .. Len(h) + 1 /\ Len(h) + 1 - (m + 1) = Len(h) - m
    BY <1>2, <1>3
<1>9. /\ SubSeq(h, m + 1, Len(h)) \in Seq(Items) /\ Len(SubSeq(h, m + 1, Len(h))) = Len(h) + 1 - (m + 1)
      /\ \A k \in 1 .. Len(h) + 1 - (m + 1) : SubSeq(h, m + 1, Len(h))[k] = h[k + (m + 1) - 1]
    BY <1>8, OthersOf
<1>10. PICK t \in Seq(Items) : /\ t = SubSeq(h, m + 1, Len(h)) /\ Len(t) = Len(h) - m
                               /\ \A k \in 1 .. Len(h) - m : t[k] = h[k + m]
    <2>1. \A k \in 1 .. Len(h) - m : k + (m + 1) - 1 = k + m
        BY <1>2, <1>3
    <2> QED BY <1>8, <1>9, <2>1
<1>11. q = [heap |-> t, due |-> d - m] /\ q.heap = t /\ q.due = d - m
    BY <1>1, <1>6, <1>10 DEF Left
<1>23. Len(t) = Len(h) - m
    BY <1>10
<1>24. \A k \in 1 .. Len(h) - m : t[k] = h[k + m]
    BY <1>10
<1>12. \A j, k \in 1 .. Len(h) : h[j] = h[k] => j = k
    BY <1>1 DEF GoodQueue
<1>13. \A k \in 1 .. Len(h) - m : k + m \in 1 .. Len(h) /\ k + m \notin 1 .. m
    BY <1>2, <1>3
<1>14. GoodQueue(q)
    <2>1. \A j, k \in 1 .. Len(t) : t[j] = t[k] => j = k
        <3> SUFFICES ASSUME NEW j \in 1 .. Len(t), NEW k \in 1 .. Len(t), t[j] = t[k]
                     PROVE  j = k
            OBVIOUS
        <3>1. h[j + m] = h[k + m] /\ j + m \in 1 .. Len(h) /\ k + m \in 1 .. Len(h)
            BY <1>13, <1>23, <1>24
        <3>2. j + m = k + m
            BY <1>12, <3>1
        <3> QED BY <1>3, <3>2
    <2>2. d - m \in Nat /\ d - m <= Len(h) - m
        BY <1>1, <1>2, <1>3
    <2>3. q \in [heap : Seq(Items), due : Nat]
        BY <1>11, <2>2
    <2> QED BY <1>11, <1>23, <2>1, <2>2, <2>3 DEF GoodQueue
<1>15. ASSUME NEW j
       PROVE  Held(q, j) <=> Held(queue, j) /\ j \notin Range(s)
    <2>5. Held(q, j) <=> \E k \in 1 .. Len(q.heap) : q.heap[k] = j
        <3>1. HeldAt(q)
            BY <1>14, PlacesAre
        <3> QED BY <3>1 DEF HeldAt
    <2>1. Held(q, j) <=> \E k \in 1 .. Len(t) : t[k] = j
        BY <1>11, <2>5
    <2>2. Held(queue, j) <=> \E k \in 1 .. Len(h) : h[k] = j
        BY <1>1, Places
    <2>3. ASSUME NEW k \in 1 .. Len(t), t[k] = j
          PROVE  Held(queue, j) /\ j \notin Range(s)
        <3>1. k + m \in 1 .. Len(h) /\ h[k + m] = j /\ k + m \notin 1 .. m
            BY <1>13, <1>23, <1>24, <2>3
        <3>2. \A l \in 1 .. m : h[l] # j
            BY <1>3, <1>12, <3>1
        <3> QED BY <1>7, <2>2, <3>1, <3>2
    <2>4. ASSUME NEW k \in 1 .. Len(h), h[k] = j, j \notin Range(s)
          PROVE  \E l \in 1 .. Len(t) : t[l] = j
        <3>1. k \notin 1 .. m
            BY <1>7, <2>4
        <3>2. k - m \in 1 .. Len(t) /\ (k - m) + m = k
            BY <1>2, <1>3, <1>23, <3>1
        <3>3. t[k - m] = h[(k - m) + m]
            BY <1>23, <1>24, <3>2
        <3> QED BY <2>4, <3>2, <3>3
    <2> QED BY <2>1, <2>2, <2>3, <2>4
<1>16. \A j : HasExpired(queue, j) <=> \E k \in 1 .. d : h[k] = j
    BY <1>1, Places
<1>17. ASSUME NEW j, HasExpired(queue, j), j \notin Range(s)
       PROVE  HasExpired(q, j)
    <2>1. PICK k \in 1 .. d : h[k] = j
        BY <1>16, <1>17
    <2>2. k \notin 1 .. m
        BY <1>7, <1>17, <2>1
    <2>3. k - m \in 1 .. d - m /\ k - m \in 1 .. Len(h) - m /\ (k - m) + m = k
        BY <1>1, <1>2, <1>3, <2>2
    <2>4. t[k - m] = j
        BY <1>24, <2>1, <2>3
    <2>6. HasExpired(q, j) <=> \E l \in 1 .. q.due : q.heap[l] = j
        <3>1. ExpiredAt(q)
            BY <1>14, PlacesAre
        <3> QED BY <3>1 DEF ExpiredAt
    <2>5. HasExpired(q, j) <=> \E l \in 1 .. d - m : t[l] = j
        BY <1>11, <2>6
    <2> QED BY <2>3, <2>4, <2>5
<1>18. Follows(queue, q, {})
    BY <1>15, <1>17 DEF Follows
<1>19. \A j \in Range(s) : HasExpired(queue, j)
    BY <1>3, <1>7, <1>16
<1>20. ASSUME ~(q.due > 0), NEW j, HasExpired(queue, j)
       PROVE  j \in Range(s)
    <2>1. d = m
        BY <1>3, <1>11, <1>20
    <2> QED BY <1>7, <1>16, <1>20, <2>1
<1>21. q.due > 0 => uploads + m = MaxUploads
    BY <1>3, <1>11
<1>22. \A j, k \in 1 .. m : s[j] = s[k] => j = k
    <2>1. \A j \in 1 .. m : j \in 1 .. Len(h)
        BY <1>2, <1>3
    <2>2. \A j \in 1 .. m : s[j] = h[j]
        BY <1>6
    <2> QED BY <1>12, <2>1, <2>2
<1> QED BY <1>3, <1>6, <1>14, <1>15, <1>18, <1>19, <1>20, <1>21, <1>22

-------------------------------------------------------------------------------
(* The uploads that run *)

Uploads == [Items -> Seq(BOOLEAN)]

\* The n-th of an item's, for each.
Running(u) == {r \in Items \X Nat : r[2] \in 1 .. Len(u[r[1]])}

\* What RemoveAt leaves.
LEMMA RemoveAtIs ==
    ASSUME NEW S, NEW s \in Seq(S), NEW n \in 1 .. Len(s)
    PROVE  /\ RemoveAt(s, n) \in Seq(S) /\ Len(RemoveAt(s, n)) = Len(s) - 1
           /\ \A k \in 1 .. Len(s) - 1 : RemoveAt(s, n)[k] = IF k < n THEN s[k] ELSE s[k + 1]
<1>1. Len(s) \in Nat /\ n \in Nat /\ n - 1 \in Nat /\ n - 1 <= Len(s) /\ n + 1 \in 1 .. Len(s) + 1
    OBVIOUS
<1> DEFINE a == SubSeq(s, 1, n - 1)
           b == SubSeq(s, n + 1, Len(s))
           t == a \o b
<1>2. a \in Seq(S) /\ Len(a) = n - 1 /\ \A k \in 1 .. n - 1 : a[k] = s[k]
    BY <1>1, FirstOf
<1>3. /\ b \in Seq(S) /\ Len(b) = Len(s) + 1 - (n + 1)
      /\ \A k \in 1 .. Len(s) + 1 - (n + 1) : b[k] = s[k + (n + 1) - 1]
    BY <1>1, OthersOf
<1>4. RemoveAt(s, n) = t
    BY DEF RemoveAt
<1> HIDE DEF a, b
<1>5. /\ t \in Seq(S) /\ Len(t) = Len(a) + Len(b)
      /\ \A k \in 1 .. Len(a) + Len(b) : t[k] = IF k <= Len(a) THEN a[k] ELSE b[k - Len(a)]
    BY <1>2, <1>3, ConcatProperties
<1> HIDE DEF t
<1>6. Len(t) = Len(s) - 1
    BY <1>1, <1>2, <1>3, <1>5
<1>7. ASSUME NEW k \in 1 .. Len(s) - 1
      PROVE  t[k] = IF k < n THEN s[k] ELSE s[k + 1]
    <2>1. k \in 1 .. Len(a) + Len(b)
        BY <1>1, <1>2, <1>3
    <2>2. CASE k < n
        <3>1. k <= Len(a) /\ k \in 1 .. n - 1
            BY <1>1, <1>2, <2>2
        <3> QED BY <1>2, <1>5, <2>1, <2>2, <3>1
    <2>3. CASE ~(k < n)
        <3>1. ~(k <= Len(a)) /\ k - Len(a) \in 1 .. Len(s) + 1 - (n + 1) /\ (k - Len(a)) + (n + 1) - 1 = k + 1
            BY <1>1, <1>2, <2>3
        <3>2. t[k] = b[k - Len(a)]
            BY <1>5, <2>1, <3>1
        <3>3. b[k - Len(a)] = s[(k - Len(a)) + (n + 1) - 1]
            BY <1>3, <3>1
        <3> QED BY <2>3, <3>1, <3>2, <3>3
    <2> QED BY <2>2, <2>3
<1> QED BY <1>4, <1>5, <1>6, <1>7

\* v is u without the upload n of i, or with one more for each of the items in s.
LessOne(u, v, i, n) == v = [u EXCEPT ![i] = RemoveAt(@, n)]
PlusSome(u, v, s) == v = [i \in Items |-> IF i \in Range(s) THEN Append(u[i], TRUE) ELSE u[i]]
NoneTwice(s, n) == \A j, k \in 1 .. n : s[j] = s[k] => j = k

\* One upload ends: one less runs.
LEMMA OneEnds ==
    ASSUME NEW u \in Uploads, IsFiniteSet(Running(u)), NEW i \in Items, NEW n \in DOMAIN u[i],
           NEW v, LessOne(u, v, i, n)
    PROVE  /\ v \in Uploads
           /\ IsFiniteSet(Running(v))
           /\ Cardinality(Running(u)) \in Nat \ {0}
           /\ Cardinality(Running(v)) = Cardinality(Running(u)) - 1
<1>1. PICK s \in Seq(BOOLEAN) : s = u[i] /\ Len(s) \in Nat /\ n \in 1 .. Len(s)
    BY DEF Uploads
<1>2. RemoveAt(s, n) \in Seq(BOOLEAN) /\ Len(RemoveAt(s, n)) = Len(s) - 1
    BY <1>1, RemoveAtIs
<1>3. v \in Uploads /\ Len(v[i]) = Len(s) - 1 /\ \A j \in Items : j # i => v[j] = u[j]
    BY <1>1, <1>2 DEF Uploads, LessOne
<1> DEFINE last == <<i, Len(s)>>
<1>4. last \in Running(u)
    BY <1>1 DEF Running
<1>5. Running(v) = Running(u) \ {last}
    <2>1. ASSUME NEW r \in Items \X Nat
          PROVE  r \in Running(v) <=> r \in Running(u) /\ r # last
        <3>1. PICK j \in Items, k \in Nat : r = <<j, k>>
            OBVIOUS
        <3>2. CASE j = i
            BY <1>1, <1>3, <3>1, <3>2 DEF Running
        <3>3. CASE j # i
            BY <1>3, <3>1, <3>3 DEF Running
        <3> QED BY <3>2, <3>3
    <2> QED BY <2>1 DEF Running
<1> HIDE DEF last
<1>6. Cardinality(Running(u)) \in Nat /\ Cardinality(Running(u)) # 0
    BY <1>4, FS_CardinalityType, FS_EmptySet
<1>7. IsFiniteSet(Running(v)) /\ Cardinality(Running(v)) = Cardinality(Running(u)) - 1
    <2>1. PICK U : U = Running(u) /\ IsFiniteSet(U) /\ last \in U
        BY <1>4
    <2>2. IsFiniteSet(U \ {last}) /\ Cardinality(U \ {last}) = Cardinality(U) - 1
        BY <2>1, FS_RemoveElement
    <2> QED BY <1>5, <2>1, <2>2
<1> QED BY <1>3, <1>6, <1>7

\* An upload begins for each item of a sequence that has none twice.
LEMMA SomeBegin ==
    ASSUME NEW u \in Uploads, IsFiniteSet(Running(u)), NEW s \in Seq(Items), NEW n \in Nat, n = Len(s),
           NoneTwice(s, n), NEW v, PlusSome(u, v, s)
    PROVE  /\ v \in Uploads
           /\ IsFiniteSet(Running(v))
           /\ Cardinality(Running(v)) = Cardinality(Running(u)) + n
<1>0. v = [i \in Items |-> IF i \in Range(s) THEN Append(u[i], TRUE) ELSE u[i]]
    BY DEF PlusSome
<1>16. \A j, k \in 1 .. n : s[j] = s[k] => j = k
    BY DEF NoneTwice
<1>1. ASSUME NEW i \in Items
      PROVE  /\ u[i] \in Seq(BOOLEAN) /\ Len(u[i]) \in Nat
             /\ Append(u[i], TRUE) \in Seq(BOOLEAN) /\ Len(Append(u[i], TRUE)) = Len(u[i]) + 1
    <2>1. PICK t \in Seq(BOOLEAN) : t = u[i]
        BY DEF Uploads
    <2>2. Append(t, TRUE) \in Seq(BOOLEAN) /\ Len(Append(t, TRUE)) = Len(t) + 1 /\ Len(t) \in Nat
        BY AppendProperties, LenProperties
    <2> QED BY <2>1, <2>2
<1>2. v \in Uploads
    BY <1>0, <1>1 DEF Uploads
<1>3. Range(s) = {s[k] : k \in 1 .. n}
    BY DEF Range
<1>4. \A k \in 1 .. n : s[k] \in Items
    OBVIOUS
<1> DEFINE new == {<<i, Len(u[i]) + 1>> : i \in Range(s)}
           f == [k \in 1 .. n |-> <<s[k], Len(u[s[k]]) + 1>>]
<1>5. new \subseteq Running(v)
    <2>1. ASSUME NEW i \in Range(s)
          PROVE  <<i, Len(u[i]) + 1>> \in Running(v)
        <3>1. i \in Items
            BY <1>3, <1>4
        <3>2. Len(v[i]) = Len(u[i]) + 1 /\ Len(u[i]) \in Nat
            BY <1>0, <1>1, <3>1
        <3> QED BY <3>1, <3>2 DEF Running
    <2> QED BY <2>1
<1>6. Running(v) = Running(u) \cup new
    <2>1. ASSUME NEW r \in Items \X Nat
          PROVE  r \in Running(v) <=> r \in Running(u) \/ r \in new
        <3>1. PICK j \in Items, k \in Nat : r = <<j, k>>
            OBVIOUS
        <3>2. r \in new <=> j \in Range(s) /\ k = Len(u[j]) + 1
            BY <3>1
        <3>3. r \in Running(u) <=> k \in 1 .. Len(u[j])
            BY <3>1 DEF Running
        <3>4. r \in Running(v) <=> k \in 1 .. Len(v[j])
            BY <3>1 DEF Running
        <3>5. Len(v[j]) = IF j \in Range(s) THEN Len(u[j]) + 1 ELSE Len(u[j])
            BY <1>0, <1>1
        <3>6. k \in 1 .. Len(u[j]) + 1 <=> k \in 1 .. Len(u[j]) \/ k = Len(u[j]) + 1
            <4>1. PICK b \in Nat : b = Len(u[j])
                BY <1>1
            <4>2. k \in 1 .. b + 1 <=> k \in 1 .. b \/ k = b + 1
                OBVIOUS
            <4> QED BY <4>1, <4>2
        <3> HIDE DEF new
        <3> QED BY <3>2, <3>3, <3>4, <3>5, <3>6
    <2>2. \A r : r \in Running(v) \/ r \in Running(u) \/ r \in new => r \in Items \X Nat
        BY <1>5 DEF Running
    <2> HIDE DEF new
    <2> QED BY <2>1, <2>2
<1>7. Running(u) \cap new = {}
    <2>1. ASSUME NEW i \in Range(s)
          PROVE  <<i, Len(u[i]) + 1>> \notin Running(u)
        <3>1. i \in Items
            BY <1>3, <1>4
        <3> QED BY <1>1, <3>1 DEF Running
    <2> QED BY <2>1
<1>8. f \in Bijection(1 .. n, new)
    <2>1. f \in [1 .. n -> new]
        BY <1>3
    <2>2. \A j, k \in 1 .. n : f[j] = f[k] => j = k
        BY <1>16
    <2>3. \A r \in new : \E k \in 1 .. n : f[k] = r
        BY <1>3
    <2> HIDE DEF f, new
    <2> QED BY <2>1, <2>2, <2>3, Fun_IsBij
<1> HIDE DEF f, new
<1>9. ExistsBijection(1 .. n, new)
    BY <1>8 DEF ExistsBijection
<1>10. IsFiniteSet(new) /\ Cardinality(new) = n
    BY <1>9, FS_CountingElements, FS_NatBijection
<1>11. Cardinality(Running(u)) \in Nat /\ Cardinality(Running(u) \cap new) = 0
    BY <1>7, FS_CardinalityType, FS_EmptySet
<1>12. PICK U : U = Running(u) /\ IsFiniteSet(U) /\ U \cap new = {} /\ Running(v) = U \cup new
    BY <1>6, <1>7
<1>13. /\ IsFiniteSet(U \cup new)
       /\ Cardinality(U \cup new) = Cardinality(U) + Cardinality(new) - Cardinality(U \cap new)
    BY <1>10, <1>12, FS_Union
<1>14. Cardinality(U) \in Nat /\ Cardinality(U \cap new) = 0
    BY <1>11, <1>12
<1>15. Cardinality(U \cup new) = Cardinality(U) + n
    BY <1>10, <1>13, <1>14
<1> QED BY <1>2, <1>12, <1>13, <1>15

\* What changes nothing about how many uploads an item has.
LEMMA SameRun ==
    ASSUME NEW u, NEW v, \A i \in Items : Len(v[i]) = Len(u[i])
    PROVE  Running(v) = Running(u)
BY DEF Running

-------------------------------------------------------------------------------
(* Types *)

AnItem == Items \cup {NoItem}
ItemType == [id : Ids, name : Ids, uploading : BOOLEAN, closed : BOOLEAN]
TimerType == [for : AnItem, armed : BOOLEAN]
FileType == [wanted : BOOLEAN, saved : BOOLEAN]

\* Places at which a caller waits for an upload, and those where it has been woken.
Waiting == {"addWaits", "removeWaits", "renameWaits", "namesakeWaits"}
Resuming == {"addAgain", "removeAgain", "renameAgain", "namesakeAgain"}

\* A caller has an item in hand while it is inside a call.
CallerType ==
    {r \in [pc : {"idle"} \cup Waiting \cup Resuming, item : AnItem, renamed : AnItem, to : Ids, todo : SUBSET Items] :
        /\ r.pc = "idle" <=> r.item = NoItem
        /\ r.pc \in {"namesakeWaits", "namesakeAgain"} => r.renamed \in Items}

QueueTyped == GoodQueue(queue) /\ timer \in TimerType
ItemsTyped == lookup \in [Ids -> AnItem] /\ wbItem \in [Items -> ItemType]
UploadsTyped ==
    /\ upload \in Uploads /\ IsFiniteSet(Running(upload))
    /\ uploads = Cardinality(Running(upload)) /\ uploads <= MaxUploads
CallersTyped == caller \in [Callers -> CallerType]
RestTyped == fired \in BOOLEAN /\ calls \in 0 .. MaxCalls /\ file \in [Ids -> FileType]

\* Types, the queue without repetitions, and wb.uploads as the number of uploads that run.
Typed == QueueTyped /\ ItemsTyped /\ UploadsTyped /\ CallersTyped /\ RestTyped

\* Where callers wait, and that they go on from there.
LEMMA WaitingIs == DOMAIN Then = Waiting /\ \A pc \in Waiting : Then[pc] \in Resuming
    BY DEF Then, Waiting, Resuming

\* wb.uploads is within its limit.
LEMMA UploadsAre ==
    ASSUME UploadsTyped
    PROVE  uploads \in 0 .. MaxUploads /\ uploads \in Nat
    BY WriteBackAssumption, FS_CardinalityType DEF UploadsTyped

\* What _resetTimer makes of the timer.
LEMMA Requeued ==
    ASSUME QueueTyped, NEW q, GoodQueue(q), NEW moved, Requeue(q, moved)
    PROVE  /\ QueueTyped' /\ queue' = q
           /\ \/ q.heap = <<>> /\ timer' = NoTimer
              \/ q.heap # <<>> /\ timer.for = Head(q.heap) /\ timer.for \notin moved /\ timer' = timer
              \/ q.heap # <<>> /\ timer' = [for |-> Head(q.heap), armed |-> TRUE]
<1>1. PICK h \in Seq(Items) : h = q.heap
    BY DEF GoodQueue
<1>2. h # <<>> => Head(h) \in Items
    OBVIOUS
<1>3. queue' = q /\ timer' = ResetTimer(q, moved)
    BY DEF Requeue
<1>4. /\ timer' \in TimerType
      /\ \/ q.heap = <<>> /\ timer' = NoTimer
         \/ q.heap # <<>> /\ timer.for = Head(q.heap) /\ timer.for \notin moved /\ timer' = timer
         \/ q.heap # <<>> /\ timer' = [for |-> Head(q.heap), armed |-> TRUE]
    <2>1. CASE h = <<>>
        BY <1>1, <1>3, <2>1 DEF ResetTimer, NoTimer, TimerType, AnItem
    <2>2. CASE h # <<>> /\ timer.for = Head(h) /\ timer.for \notin moved
        BY <1>1, <1>3, <2>2 DEF ResetTimer, QueueTyped
    <2>3. CASE h # <<>> /\ ~(timer.for = Head(h) /\ timer.for \notin moved)
        <3>1. timer' = [for |-> Head(h), armed |-> TRUE]
            BY <1>1, <1>3, <2>3 DEF ResetTimer
        <3> QED BY <1>1, <1>2, <2>3, <3>1 DEF TimerType, AnItem
    <2> QED BY <2>1, <2>2, <2>3
<1> QED BY <1>3, <1>4 DEF QueueTyped

\* Who is woken, and what it keeps.
LEMMA WokenIs ==
    ASSUME CallersTyped, NEW i \in Items
    PROVE  /\ Woken(i) \in [Callers -> CallerType]
           /\ \A c \in Callers :
                 /\ Woken(i)[c].item = caller[c].item
                 /\ IF caller[c].item = i /\ caller[c].pc \in Waiting
                    THEN Woken(i)[c].pc \in Resuming
                    ELSE Woken(i)[c] = caller[c]
<1>1. ASSUME NEW c \in Callers
      PROVE  LET r == IF WaitsFor(c, i) THEN [caller[c] EXCEPT !.pc = Then[@]] ELSE caller[c] IN
             /\ r \in CallerType /\ r.item = caller[c].item
             /\ IF caller[c].item = i /\ caller[c].pc \in Waiting THEN r.pc \in Resuming ELSE r = caller[c]
    <2>1. PICK m \in CallerType : m = caller[c]
        BY DEF CallersTyped
    <2>2. WaitsFor(c, i) <=> m.item = i /\ m.pc \in Waiting
        BY <2>1, WaitingIs DEF WaitsFor
    <2>3. ASSUME m.item = i, m.pc \in Waiting
          PROVE  [m EXCEPT !.pc = Then[@]] \in CallerType /\ [m EXCEPT !.pc = Then[@]].pc \in Resuming
        <3>1. PICK pc \in Resuming : pc = Then[m.pc] /\ (pc = "namesakeAgain" => m.pc = "namesakeWaits")
            BY <2>3 DEF Then, Waiting, Resuming
        <3>2. [m EXCEPT !.pc = Then[@]] = [m EXCEPT !.pc = pc]
            BY <3>1
        <3>3. m.item # NoItem /\ pc # "idle"
            BY <2>3, ItemsAre DEF Resuming
        <3>4. [m EXCEPT !.pc = pc] \in CallerType
            BY <3>1, <3>3 DEF CallerType, Resuming
        <3> QED BY <3>1, <3>2, <3>4 DEF CallerType
    <2>4. m \in [pc : {"idle"} \cup Waiting \cup Resuming, item : AnItem, renamed : AnItem, to : Ids, todo : SUBSET Items]
        BY DEF CallerType
    <2> QED BY <2>1, <2>2, <2>3, <2>4
<1> QED BY <1>1 DEF Woken

\* The files of some handles are unwanted, of others as they were.
LEMMA UnwantedIs ==
    ASSUME file \in [Ids -> FileType], NEW ids, Unwanted(ids)
    PROVE  /\ file' \in [Ids -> FileType]
           /\ \A id \in Ids : /\ file'[id].wanted <=> file[id].wanted /\ id \notin ids
                              /\ file'[id].saved = file[id].saved
<1>1. PICK f \in [Ids -> FileType] : f = file
    OBVIOUS
<1>2. file' = [id \in Ids |-> [f[id] EXCEPT !.wanted = @ /\ id \notin ids]]
    BY <1>1 DEF Unwanted
<1>3. ASSUME NEW id \in Ids
      PROVE  LET r == [f[id] EXCEPT !.wanted = @ /\ id \notin ids] IN
             r \in FileType /\ (r.wanted <=> f[id].wanted /\ id \notin ids) /\ r.saved = f[id].saved
    <2>1. PICK r \in FileType : r = f[id]
        OBVIOUS
    <2>2. (r.wanted /\ id \notin ids) \in BOOLEAN
        OBVIOUS
    <2> QED BY <2>1, <2>2 DEF FileType
<1> QED BY <1>1, <1>2, <1>3

\* Uploads of what a file was before it was modified.
LEMMA ModifiedIs ==
    ASSUME file \in [Ids -> FileType], UploadsTyped, NEW id \in Ids, Modified(id)
    PROVE  /\ file' \in [Ids -> FileType]
           /\ file'[id].wanted /\ ~file'[id].saved /\ \A a \in Ids : a # id => file'[a] = file[a]
           /\ upload' \in Uploads /\ Running(upload') = Running(upload)
           /\ \A i \in Items : /\ Len(upload'[i]) = Len(upload[i]) /\ DOMAIN upload'[i] = DOMAIN upload[i]
                               /\ wbItem[i].id # id => \A n \in DOMAIN upload[i] : upload[i][n] => upload'[i][n]
<1>1. /\ file' = [file EXCEPT ![id] = [wanted |-> TRUE, saved |-> FALSE]]
      /\ upload' = [i \in Items |-> [n \in DOMAIN upload[i] |-> upload[i][n] /\ wbItem[i].id # id]]
    BY DEF Modified
<1>2. /\ file' \in [Ids -> FileType]
      /\ file'[id].wanted /\ ~file'[id].saved /\ \A a \in Ids : a # id => file'[a] = file[a]
    BY <1>1 DEF FileType
<1>3. ASSUME NEW i \in Items
      PROVE  LET s == [n \in DOMAIN upload[i] |-> upload[i][n] /\ wbItem[i].id # id] IN
             s \in Seq(BOOLEAN) /\ Len(s) = Len(upload[i]) /\ DOMAIN s = DOMAIN upload[i]
    <2>1. PICK t \in Seq(BOOLEAN), k \in Nat : t = upload[i] /\ Len(t) = k /\ DOMAIN t = 1 .. k
        BY DEF UploadsTyped, Uploads
    <2> DEFINE s == [n \in 1 .. k |-> t[n] /\ wbItem[i].id # id]
    <2>2. s \in [1 .. k -> BOOLEAN]
        OBVIOUS
    <2>3. s \in Seq(BOOLEAN)
        <3> HIDE DEF s
        <3> QED BY <2>2, SeqDef
    <2>4. Len(s) = k /\ DOMAIN s = 1 .. k
        <3>1. DOMAIN s = 1 .. k
            OBVIOUS
        <3> HIDE DEF s
        <3> QED BY <2>3, <3>1
    <2> QED BY <2>1, <2>3, <2>4
<1>4. \A i \in Items : upload'[i] = [n \in DOMAIN upload[i] |-> upload[i][n] /\ wbItem[i].id # id]
    BY <1>1
<1>5. upload' \in Uploads /\ \A i \in Items : Len(upload'[i]) = Len(upload[i]) /\ DOMAIN upload'[i] = DOMAIN upload[i]
    BY <1>1, <1>3 DEF Uploads
<1>6. Running(upload') = Running(upload)
    BY <1>5, SameRun
<1>7. \A i \in Items : wbItem[i].id # id => \A n \in DOMAIN upload[i] : upload[i][n] => upload'[i][n]
    BY <1>4
<1> QED BY <1>2, <1>5, <1>6, <1>7

\* How far the loop of Rename comes: some items are removed, and then it waits for one that is
\* uploading or is through.
RenameComes(c, i, to, todo, q, l, removed, gone, p, moved) ==
    /\ GoodQueue(p) /\ Follows(q, p, moved) /\ \A j : Held(p, j) <=> Held(q, j) /\ j \notin gone
    /\ Requeue(p, moved)
    /\ lookup' = [id \in Ids |-> IF l[id] \in gone THEN NoItem ELSE l[id]]
    /\ Unwanted({wbItem[j].id : j \in gone \cup removed})
    /\ upload' = upload
    /\ \/ /\ caller' = [caller EXCEPT ![c] = Returned]
          /\ wbItem' = [wbItem EXCEPT ![i].name = to]
       \/ \E j \in todo, rest \in SUBSET todo :
             /\ wbItem[j].uploading /\ wbItem' = wbItem
             /\ caller' = [caller EXCEPT ![c] = [pc |-> "namesakeWaits", item |-> j, renamed |-> i,
                                                 to |-> to, todo |-> rest]]

Unbusy(todo) == {j \in todo : ~wbItem[j].uploading}

RenameGoesOn(c, i, to, todo, q, l, removed) ==
    \E gone \in SUBSET Unbusy(todo), moved \in {{}, {i}} :
        \E p : RenameComes(c, i, to, todo, q, l, removed, gone, p, moved)

\* The loop of Rename comes that far, whatever queue and lookup have become before.
LEMMA RenameOnIs ==
    ASSUME NEW c, NEW i \in Items, NEW to, NEW todo \in SUBSET Items, NEW q, GoodQueue(q), NEW l, NEW removed,
           RenameOn(c, i, to, todo, q, l, removed)
    PROVE  RenameGoesOn(c, i, to, todo, q, l, removed)
<1>1. PICK gone \in SUBSET Unbusy(todo) :
          LET p == [heap |-> Filter(q.heap, Items \ gone),
                    due |-> Len(Filter(SubSeq(q.heap, 1, q.due), Items \ gone))]
              m == [id \in Ids |-> IF l[id] \in gone THEN NoItem ELSE l[id]]
          IN  /\ Unwanted({wbItem[j].id : j \in gone \cup removed})
              /\ IF gone = todo THEN RenameEnds(c, i, to, p, m)
                 ELSE WaitForNamesake(c, i, to, todo \ gone, p, m)
    BY DEF RenameOn, Unbusy
<1>2. PICK p : p = Dropped(q, gone)
    OBVIOUS
<1>3. PICK m : m = [id \in Ids |-> IF l[id] \in gone THEN NoItem ELSE l[id]]
    OBVIOUS
<1>4. /\ Unwanted({wbItem[j].id : j \in gone \cup removed})
      /\ IF gone = todo THEN RenameEnds(c, i, to, p, m)
         ELSE WaitForNamesake(c, i, to, todo \ gone, p, m)
    BY <1>1, <1>2, <1>3, DroppedCount
<1>5. /\ GoodQueue(p) /\ Follows(q, p, {}) /\ \A j : Held(p, j) <=> Held(q, j) /\ j \notin gone
    BY <1>2, DroppedIs DEF Follows
<1>6. CASE gone = todo
    <2>1. RenameEnds(c, i, to, p, m)
        BY <1>4, <1>6
    <2>2. PICK o \in Updated(p, i) : Requeue(o, {i})
        BY <2>1 DEF RenameEnds
    <2>3. GoodQueue(o) /\ Follows(p, o, {i}) /\ \A j : Held(o, j) <=> Held(p, j)
        BY <1>5, UpdatedIs
    <2>4. Follows(q, o, {i})
        BY <1>5, <2>3 DEF Follows
    <2>5. /\ lookup' = m /\ upload' = upload /\ wbItem' = [wbItem EXCEPT ![i].name = to]
          /\ caller' = [caller EXCEPT ![c] = Returned]
        BY <2>1 DEF RenameEnds, Goes
    <2>6. RenameComes(c, i, to, todo, q, l, removed, gone, o, {i})
        BY <1>3, <1>4, <1>5, <2>2, <2>3, <2>4, <2>5 DEF RenameComes
    <2> QED BY <2>6 DEF RenameGoesOn
<1>7. CASE gone # todo
    <2>1. WaitForNamesake(c, i, to, todo \ gone, p, m)
        BY <1>4, <1>7
    <2>2. PICK j \in todo \ gone :
             /\ wbItem[j].uploading
             /\ Requeue(p, {}) /\ lookup' = m
             /\ Goes(c, [pc |-> "namesakeWaits", item |-> j, renamed |-> i, to |-> to, todo |-> (todo \ gone) \ {j}])
             /\ UNCHANGED <<wbItem, upload>>
        BY <2>1 DEF WaitForNamesake
    <2>3. (todo \ gone) \ {j} \in SUBSET todo
        OBVIOUS
    <2>4. \E k \in todo, rest \in SUBSET todo :
             /\ wbItem[k].uploading /\ wbItem' = wbItem
             /\ caller' = [caller EXCEPT ![c] = [pc |-> "namesakeWaits", item |-> k, renamed |-> i,
                                                 to |-> to, todo |-> rest]]
        BY <2>2, <2>3 DEF Goes
    <2>5. RenameComes(c, i, to, todo, q, l, removed, gone, p, {})
        BY <1>3, <1>4, <1>5, <2>2, <2>4 DEF RenameComes
    <2> QED BY <2>5 DEF RenameGoesOn
<1> QED BY <1>6, <1>7

\* The types hold at first ...
LEMMA TypedInit == Init => Typed
<1> SUFFICES ASSUME Init
             PROVE  Typed
    OBVIOUS
<1> USE DEF Init
<1>1. QueueTyped
    <2>1. <<>> \in Seq(Items) /\ Len(<<>>) = 0
        OBVIOUS
    <2> QED BY <2>1 DEF QueueTyped, GoodQueue, TimerType, NoTimer, AnItem
<1>2. ItemsTyped
    BY ItemsAre DEF ItemsTyped, AnItem, ItemType, Unused
<1>3. UploadsTyped
    <2>1. upload \in Uploads /\ \A i \in Items : Len(upload[i]) = 0
        BY DEF Uploads
    <2>2. Running(upload) = {}
        BY <2>1 DEF Running
    <2>3. IsFiniteSet(Running(upload)) /\ Cardinality(Running(upload)) = 0
        BY <2>2, FS_EmptySet
    <2> QED BY <2>1, <2>3, WriteBackAssumption DEF UploadsTyped
<1>4. CallersTyped
    <2>1. Returned \in CallerType
        BY ItemsAre DEF Returned, CallerType, AnItem
    <2> QED BY <2>1 DEF CallersTyped
<1>5. RestTyped
    <2>1. calls = 0 /\ fired \in BOOLEAN
        OBVIOUS
    <2>3. calls \in 0 .. MaxCalls
        BY <2>1, WriteBackAssumption
    <2>2. file \in [Ids -> FileType]
        BY DEF FileType
    <2> QED BY <2>1, <2>2, <2>3 DEF RestTyped
<1> QED BY <1>1, <1>2, <1>3, <1>4, <1>5 DEF Typed

\* A call leaves the uploads alone, and there are no more than there may be.
LEMMA CallIs ==
    ASSUME RestTyped, NEW c, NEW what, Call(c, what)
    PROVE  /\ calls' \in 0 .. MaxCalls /\ caller[c].pc = "idle"
           /\ uploads' = uploads /\ fired' = fired
<1>1. calls \in Nat /\ calls < MaxCalls /\ calls' = calls + 1
    BY DEF Call, RestTyped
<1>2. calls' \in 0 .. MaxCalls
    BY <1>1, WriteBackAssumption
<1> QED BY <1>2 DEF Call, Background

\* Records in which a call waits.
LEMMA WaitsIs ==
    ASSUME NEW i \in Items
    PROVE  /\ Returned \in CallerType
           /\ \A pc \in Waiting \ {"namesakeWaits"} : Waits(pc, i) \in CallerType
           /\ \A to \in Ids : [Waits("renameWaits", i) EXCEPT !.to = to] \in CallerType
           /\ \A j \in Items, to \in Ids, todo \in SUBSET Items :
                 [pc |-> "namesakeWaits", item |-> j, renamed |-> i, to |-> to, todo |-> todo] \in CallerType
BY ItemsAre DEF Returned, Waits, CallerType, AnItem, Waiting

\* Items in lookup.
LEMMA Namesake ==
    ASSUME ItemsTyped, NEW i, NEW name
    PROVE  Namesakes(i, name) \in SUBSET Items /\ i \notin Namesakes(i, name)
BY DEF ItemsTyped, Namesakes, AnItem, Range

\* Removing items that are not uploading is all that the loop of Rename does to types.
LEMMA RenameTyped ==
    ASSUME Typed, NEW c \in Callers, NEW i \in Items, NEW to \in Ids, NEW todo \in SUBSET Items,
           NEW q, GoodQueue(q), NEW l \in [Ids -> AnItem], NEW removed, RenameOn(c, i, to, todo, q, l, removed)
    PROVE  /\ QueueTyped' /\ ItemsTyped' /\ CallersTyped' /\ upload' = upload
           /\ file' \in [Ids -> FileType]
<1>4. RenameGoesOn(c, i, to, todo, q, l, removed)
    BY RenameOnIs
<1>1. PICK gone \in SUBSET Unbusy(todo), moved \in {{}, {i}} :
          \E p : RenameComes(c, i, to, todo, q, l, removed, gone, p, moved)
    BY <1>4 DEF RenameGoesOn
<1>2. PICK p : RenameComes(c, i, to, todo, q, l, removed, gone, p, moved)
    BY <1>1
<1>3. QueueTyped' /\ upload' = upload
    BY <1>2, Requeued DEF RenameComes, Typed
<1>7. file' \in [Ids -> FileType]
    BY <1>2, UnwantedIs DEF RenameComes, Typed, RestTyped
<1>5. lookup' \in [Ids -> AnItem]
    BY <1>2 DEF RenameComes, AnItem
<1>6. wbItem' \in [Items -> ItemType] /\ caller' \in [Callers -> CallerType]
    <2>1. wbItem \in [Items -> ItemType] /\ caller \in [Callers -> CallerType]
        BY DEF Typed, ItemsTyped, CallersTyped
    <2>2. CASE /\ caller' = [caller EXCEPT ![c] = Returned]
               /\ wbItem' = [wbItem EXCEPT ![i].name = to]
        <3>1. PICK m \in ItemType : m = wbItem[i]
            BY <2>1
        <3>2. [m EXCEPT !.name = to] \in ItemType /\ wbItem' = [wbItem EXCEPT ![i] = [m EXCEPT !.name = to]]
            BY <2>2, <3>1 DEF ItemType
        <3> QED BY <2>1, <2>2, <3>2, WaitsIs
    <2>3. CASE \E j \in todo, rest \in SUBSET todo :
                  /\ wbItem[j].uploading /\ wbItem' = wbItem
                  /\ caller' = [caller EXCEPT ![c] = [pc |-> "namesakeWaits", item |-> j, renamed |-> i,
                                                      to |-> to, todo |-> rest]]
        <3>1. PICK j \in todo, rest \in SUBSET todo :
                  /\ wbItem[j].uploading /\ wbItem' = wbItem
                  /\ caller' = [caller EXCEPT ![c] = [pc |-> "namesakeWaits", item |-> j, renamed |-> i,
                                                      to |-> to, todo |-> rest]]
            BY <2>3
        <3>2. PICK r : r = [pc |-> "namesakeWaits", item |-> j, renamed |-> i, to |-> to, todo |-> rest]
            OBVIOUS
        <3>3. r \in CallerType
            BY <3>2, WaitsIs
        <3> QED BY <2>1, <3>1, <3>2, <3>3
    <2> QED BY <1>2, <2>2, <2>3 DEF RenameComes
<1> QED BY <1>3, <1>7, <1>5, <1>6 DEF ItemsTyped, CallersTyped

\* ... and every step keeps them.
LEMMA TypedNext == Typed /\ [Next]_vars => Typed'
<1> SUFFICES ASSUME Typed, [Next]_vars
             PROVE  Typed'
    OBVIOUS
<1>1. /\ QueueTyped /\ ItemsTyped /\ UploadsTyped /\ CallersTyped /\ RestTyped
      /\ GoodQueue(queue) /\ lookup \in [Ids -> AnItem] /\ wbItem \in [Items -> ItemType]
      /\ upload \in Uploads /\ caller \in [Callers -> CallerType] /\ file \in [Ids -> FileType]
      /\ fired \in BOOLEAN /\ calls \in 0 .. MaxCalls /\ timer \in TimerType
    BY DEF Typed, QueueTyped, ItemsTyped, UploadsTyped, CallersTyped, RestTyped
<1> USE ItemsAre
<1>2. ASSUME upload' \in Uploads, Running(upload') = Running(upload), uploads' = uploads
      PROVE  UploadsTyped'
    BY <1>1, <1>2 DEF UploadsTyped
<1>3. ASSUME lookup' = lookup, wbItem' = wbItem
      PROVE  ItemsTyped'
    BY <1>1, <1>3 DEF ItemsTyped
<1>4. ASSUME queue' = queue, timer' = timer
      PROVE  QueueTyped'
    BY <1>1, <1>4 DEF QueueTyped
<1>5. ASSUME NEW c \in Callers, NEW r \in CallerType, caller' = [caller EXCEPT ![c] = r]
      PROVE  CallersTyped'
    BY <1>1, <1>5 DEF CallersTyped
<1>6. ASSUME upload' = upload, uploads' = uploads
      PROVE  UploadsTyped'
    BY <1>1, <1>6 DEF UploadsTyped
<1>7. ASSUME NEW c, NEW what, Call(c, what), file' \in [Ids -> FileType]
      PROVE  RestTyped' /\ uploads' = uploads
    BY <1>1, <1>7, CallIs DEF RestTyped
<1>8. ASSUME Background, calls' = calls, file' \in [Ids -> FileType]
      PROVE  RestTyped' /\ uploads' = uploads
    BY <1>1, <1>8 DEF RestTyped, Background
<1>9. Returned \in CallerType
    BY WaitsIs DEF Returned, CallerType, AnItem
<1>10. ASSUME NEW c \in Callers, Goes(c, Returned)
       PROVE  CallersTyped'
    BY <1>5, <1>9, <1>10 DEF Goes
<1>11. CASE TimePasses
    <2>1. PICK h \in Seq(Items), d \in Nat : queue = [heap |-> h, due |-> d] /\ d <= Len(h)
        BY <1>1 DEF GoodQueue
    <2>2. queue' = [heap |-> h, due |-> d + 1] /\ d + 1 <= Len(h)
        BY <1>11, <2>1 DEF TimePasses
    <2>3. \A j, k \in 1 .. Len(h) : h[j] = h[k] => j = k
        BY <1>1, <2>1 DEF GoodQueue
    <2>4. GoodQueue(queue')
        BY <2>2, <2>3 DEF GoodQueue
    <2>5. QueueTyped' /\ ItemsTyped' /\ UploadsTyped' /\ CallersTyped' /\ RestTyped'
        BY <1>1, <1>3, <1>6, <1>11, <2>4 DEF TimePasses, QueueTyped, CallersTyped, RestTyped
    <2> QED BY <2>5 DEF Typed
<1>12. CASE TimerFires
    <2>1. PICK m \in TimerType : m = timer
        BY <1>1
    <2>2. timer' = [m EXCEPT !.armed = FALSE]
        BY <1>12, <2>1 DEF TimerFires
    <2>3. timer' \in TimerType
        BY <2>2 DEF TimerType
    <2>4. QueueTyped' /\ ItemsTyped' /\ UploadsTyped' /\ CallersTyped' /\ RestTyped'
        BY <1>1, <1>3, <1>6, <1>12, <2>3 DEF TimerFires, QueueTyped, CallersTyped, RestTyped
    <2> QED BY <2>4 DEF Typed
<1>13. CASE ProcessItems
    <2>1. PICK n : n = Len(Startable)
        OBVIOUS
    <2>2. PICK q : q = Left(n)
        OBVIOUS
    <2>3. /\ Startable \in Seq(Items) /\ n \in Nat /\ uploads + n <= MaxUploads /\ GoodQueue(q)
          /\ \A j, k \in 1 .. n : Startable[j] = Startable[k] => j = k
        BY <1>1, <2>1, <2>2, UploadsAre, StartableIs
    <2>4. queue' = q /\ timer' = IF q.due > 0 THEN NoTimer ELSE ResetTimer(q, {})
        BY <1>13, <2>1, <2>2 DEF ProcessItems, Left
    <2>5. QueueTyped'
        <3>1. CASE q.due > 0
            BY <2>3, <2>4, <3>1 DEF QueueTyped, NoTimer, TimerType, AnItem
        <3>2. CASE ~(q.due > 0)
            <4>1. Requeue(q, {})
                BY <2>4, <3>2 DEF Requeue
            <4> QED BY <1>1, <2>3, <4>1, Requeued
        <3> QED BY <3>1, <3>2
    <2>6. PICK s \in Seq(Items) : s = Startable
        BY <2>3
    <2>7. /\ uploads' = uploads + n
          /\ upload' = [i \in Items |-> IF i \in Range(s) THEN Append(upload[i], TRUE) ELSE upload[i]]
          /\ wbItem' = [i \in Items |->
                 IF i \in Range(s) THEN [wbItem[i] EXCEPT !.uploading = TRUE, !.closed = FALSE]
                 ELSE wbItem[i]]
        BY <1>13, <2>1, <2>6 DEF ProcessItems
    <2>8. UploadsTyped'
        <3>1. /\ upload' \in Uploads
              /\ IsFiniteSet(Running(upload'))
              /\ Cardinality(Running(upload')) = Cardinality(Running(upload)) + n
            <4>1. PlusSome(upload, upload', s) /\ NoneTwice(s, n) /\ n = Len(s)
                BY <2>1, <2>3, <2>6, <2>7 DEF PlusSome, NoneTwice
            <4>2. upload \in Uploads /\ IsFiniteSet(Running(upload))
                BY <1>1 DEF UploadsTyped
            <4> QED BY <2>3, <4>1, <4>2, SomeBegin
        <3> QED BY <1>1, <2>3, <2>7, <3>1 DEF UploadsTyped
    <2>9. wbItem' \in [Items -> ItemType]
        <3>1. ASSUME NEW m \in ItemType
              PROVE  [m EXCEPT !.uploading = TRUE, !.closed = FALSE] \in ItemType
            BY DEF ItemType
        <3> QED BY <1>1, <2>7, <3>1
    <2>10. ItemsTyped' /\ CallersTyped' /\ RestTyped'
        BY <1>1, <1>13, <2>9 DEF ProcessItems, ItemsTyped, CallersTyped, RestTyped
    <2> QED BY <2>5, <2>8, <2>10 DEF Typed
<1>14. ASSUME NEW i \in Items, NEW n \in DOMAIN upload[i], UploadEnds(i, n)
       PROVE  UploadsTyped' /\ wbItem' \in [Items -> ItemType] /\ CallersTyped' /\ fired' = fired /\ calls' = calls
    <2>1. UploadsTyped'
        <3>1. PICK v : v = [upload EXCEPT ![i] = RemoveAt(@, n)]
            OBVIOUS
        <3>2. upload' = v /\ uploads' = uploads - 1
            BY <1>14, <3>1 DEF UploadEnds
        <3>3. /\ v \in Uploads
              /\ IsFiniteSet(Running(v))
              /\ Cardinality(Running(upload)) \in Nat \ {0}
              /\ Cardinality(Running(v)) = Cardinality(Running(upload)) - 1
            <4>1. LessOne(upload, v, i, n)
                BY <3>1 DEF LessOne
            <4>2. upload \in Uploads /\ IsFiniteSet(Running(upload))
                BY <1>1 DEF UploadsTyped
            <4> QED BY <1>14, <4>1, <4>2, OneEnds
        <3> QED BY <1>1, <3>2, <3>3, WriteBackAssumption DEF UploadsTyped
    <2>2. wbItem' \in [Items -> ItemType]
        <3>1. PICK m \in ItemType : m = wbItem[i]
            BY <1>1
        <3>2. wbItem' = [wbItem EXCEPT ![i] = [m EXCEPT !.uploading = FALSE, !.closed = TRUE]]
            BY <1>14, <3>1 DEF UploadEnds
        <3>3. [m EXCEPT !.uploading = FALSE, !.closed = TRUE] \in ItemType
            BY DEF ItemType
        <3> QED BY <1>1, <3>2, <3>3
    <2>3. CallersTyped' /\ fired' = fired /\ calls' = calls
        BY <1>1, <1>14, WokenIs DEF UploadEnds, CallersTyped
    <2> QED BY <2>1, <2>2, <2>3
<1>15. CASE \E i \in Items : UploadFails(i)
    <2>3. PICK i \in Items : UploadFails(i)
        BY <1>15
    <2>1. PICK n \in DOMAIN upload[i], q \in Later(queue, i) :
             /\ UploadEnds(i, n)
             /\ Requeue(q, {i})
             /\ UNCHANGED <<lookup, file>>
        BY <2>3 DEF UploadFails
    <2>2. QueueTyped'
        BY <1>1, <2>1, LaterIs, Requeued
    <2> QED BY <1>1, <1>14, <2>1, <2>2 DEF Typed, ItemsTyped, RestTyped
<1>16. CASE \E i \in Items : UploadSucceeds(i)
    <2>1. PICK i \in Items : UploadSucceeds(i)
        BY <1>16
    <2>2. PICK n \in DOMAIN upload[i] :
             /\ UploadEnds(i, n)
             /\ file' = [file EXCEPT ![wbItem[i].id].saved = @ \/ upload[i][n]]
             /\ lookup' = [lookup EXCEPT ![wbItem[i].id] = NoItem]
             /\ Requeue(queue, {})
        BY <2>1 DEF UploadSucceeds
    <2>3. PICK id \in Ids : id = wbItem[i].id
        BY <1>1 DEF ItemType
    <2>4. lookup' \in [Ids -> AnItem]
        BY <1>1, <2>2, <2>3 DEF AnItem
    <2>5. file' \in [Ids -> FileType]
        <3>1. PICK f \in FileType : f = file[id]
            BY <1>1
        <3>2. PICK b \in BOOLEAN : b = (f.saved \/ upload[i][n])
            OBVIOUS
        <3>3. file' = [file EXCEPT ![id] = [f EXCEPT !.saved = b]]
            BY <2>2, <2>3, <3>1, <3>2
        <3>4. [f EXCEPT !.saved = b] \in FileType
            BY DEF FileType
        <3> QED BY <1>1, <3>3, <3>4
    <2>6. QueueTyped'
        BY <1>1, <2>2, Requeued
    <2>7. UploadsTyped' /\ ItemsTyped' /\ CallersTyped' /\ RestTyped'
        BY <1>1, <1>14, <2>2, <2>4, <2>5 DEF ItemsTyped, RestTyped
    <2> QED BY <2>6, <2>7 DEF Typed
<1>17. ASSUME NEW id \in Ids, NEW i, i = lookup[id], i # NoItem
       PROVE  i \in Items
    BY <1>1, <1>17 DEF AnItem
<1>18. ASSUME NEW c \in Callers, AddNew(c)
       PROVE  Typed'
    <2>1. Call(c, "Add") /\ Goes(c, Returned)
        BY <1>18 DEF AddNew
    <2>2. PICK id \in Ids, i \in Items :
             /\ lookup' = [lookup EXCEPT ![id] = i]
             /\ wbItem' = [wbItem EXCEPT ![i] = [Unused EXCEPT !.id = id, !.name = id]]
             /\ \E q \in Later(queue, i) : Requeue(q, {i})
             /\ Modified(id)
        BY <1>18 DEF AddNew
    <2>3. [Unused EXCEPT !.id = id, !.name = id] \in ItemType
        BY DEF Unused, ItemType
    <2>4. ItemsTyped'
        BY <1>1, <2>2, <2>3 DEF ItemsTyped, AnItem
    <2>5. QueueTyped'
        BY <1>1, <2>2, LaterIs, Requeued
    <2>6. file' \in [Ids -> FileType] /\ upload' \in Uploads /\ Running(upload') = Running(upload)
        BY <1>1, <2>2, ModifiedIs
    <2> QED BY <1>2, <1>7, <1>10, <2>1, <2>4, <2>5, <2>6 DEF Typed
<1>19. ASSUME NEW c \in Callers, AddKnown(c)
       PROVE  Typed'
    <2>1. Call(c, "Add") /\ Goes(c, Returned) /\ ItemsTyped'
        BY <1>3, <1>19 DEF AddKnown
    <2>2. PICK id \in Ids, modified \in BOOLEAN, i \in Items :
             /\ \E q \in Updated(queue, i) : Requeue(q, {i})
             /\ IF modified THEN Modified(id) ELSE UNCHANGED <<upload, file>>
        BY <1>17, <1>19 DEF AddKnown
    <2>3. QueueTyped'
        BY <1>1, <2>2, UpdatedIs, Requeued
    <2>4. file' \in [Ids -> FileType] /\ upload' \in Uploads /\ Running(upload') = Running(upload)
        <3>1. CASE modified
            BY <1>1, <2>2, <3>1, ModifiedIs
        <3>2. CASE ~modified
            BY <1>1, <2>2, <3>2
        <3> QED BY <3>1, <3>2
    <2> QED BY <1>2, <1>7, <1>10, <2>1, <2>3, <2>4 DEF Typed
<1>20. ASSUME NEW c \in Callers, NEW r \in CallerType, CancelUpload(c, r)
       PROVE  QueueTyped' /\ ItemsTyped' /\ CallersTyped'
    BY <1>3, <1>4, <1>5, <1>20 DEF CancelUpload
<1>21. ASSUME NEW c \in Callers, AddCancels(c)
       PROVE  Typed'
    <2>1. Call(c, "Add")
        BY <1>21 DEF AddCancels
    <2>2. PICK id \in Ids, i \in Items : Modified(id) /\ CancelUpload(c, Waits("addWaits", i))
        BY <1>17, <1>21 DEF AddCancels
    <2>3. Waits("addWaits", i) \in CallerType
        BY WaitsIs DEF Waiting
    <2>4. file' \in [Ids -> FileType] /\ upload' \in Uploads /\ Running(upload') = Running(upload)
        BY <1>1, <2>2, ModifiedIs
    <2>5. QueueTyped' /\ ItemsTyped' /\ CallersTyped'
        BY <1>20, <2>2, <2>3
    <2> QED BY <1>2, <1>7, <2>1, <2>4, <2>5 DEF Typed
<1>22. ASSUME NEW i \in Items, Removed(i)
       PROVE  QueueTyped' /\ lookup' \in [Ids -> AnItem]
    <2>1. wbItem[i].id \in Ids
        BY <1>1 DEF ItemType
    <2>2. QueueTyped'
        BY <1>1, <1>22, TakenOff, Requeued DEF Removed
    <2> QED BY <1>1, <1>22, <2>1, <2>2 DEF Removed, AnItem
<1>23. ASSUME NEW c \in Callers, RemoveNow(c)
       PROVE  Typed'
    <2>1. Call(c, "Remove") /\ Goes(c, Returned) /\ wbItem' = wbItem /\ upload' = upload
        BY <1>23 DEF RemoveNow
    <2>2. PICK id \in Ids :
             /\ IF lookup[id] = NoItem THEN Requeue(queue, {}) /\ UNCHANGED lookup
                ELSE ~wbItem[lookup[id]].uploading /\ Removed(lookup[id])
             /\ Unwanted({id})
        BY <1>23 DEF RemoveNow
    <2>3. QueueTyped' /\ lookup' \in [Ids -> AnItem]
        <3>1. CASE lookup[id] = NoItem
            BY <1>1, <2>2, <3>1, Requeued
        <3>2. CASE lookup[id] # NoItem
            BY <1>17, <1>22, <2>2, <3>2
        <3> QED BY <3>1, <3>2
    <2>4. file' \in [Ids -> FileType]
        BY <1>1, <2>2, UnwantedIs
    <2>5. ItemsTyped'
        BY <1>1, <2>1, <2>3 DEF ItemsTyped
    <2> QED BY <1>6, <1>7, <1>10, <2>1, <2>3, <2>4, <2>5 DEF Typed
<1>24. ASSUME NEW c \in Callers, RemoveCancels(c)
       PROVE  Typed'
    <2>1. Call(c, "Remove") /\ upload' = upload /\ file' = file
        BY <1>24 DEF RemoveCancels
    <2>2. PICK i \in Items : CancelUpload(c, Waits("removeWaits", i))
        BY <1>17, <1>24 DEF RemoveCancels
    <2>3. Waits("removeWaits", i) \in CallerType
        BY WaitsIs DEF Waiting
    <2>4. QueueTyped' /\ ItemsTyped' /\ CallersTyped'
        BY <1>20, <2>2, <2>3
    <2> QED BY <1>1, <1>6, <1>7, <2>1, <2>4 DEF Typed
<1>25. ASSUME NEW c \in Callers, RenameUnknown(c)
       PROVE  Typed'
    BY <1>1, <1>3, <1>4, <1>6, <1>7, <1>10, <1>25 DEF RenameUnknown, Typed
<1>26. ASSUME NEW c \in Callers, NEW i \in Items, NEW to \in Ids, NEW todo \in SUBSET Items,
              NEW q, GoodQueue(q), NEW l \in [Ids -> AnItem], NEW removed, RenameOn(c, i, to, todo, q, l, removed)
       PROVE  /\ QueueTyped' /\ ItemsTyped' /\ CallersTyped' /\ upload' = upload
              /\ file' \in [Ids -> FileType]
    BY <1>26, RenameTyped
<1>27. ASSUME NEW c \in Callers, Rename(c)
       PROVE  Typed'
    <2>1. Call(c, "Rename")
        BY <1>27 DEF Rename
    <2>2. PICK to \in Ids, i \in Items :
             IF wbItem[i].uploading
             THEN /\ CancelUpload(c, [Waits("renameWaits", i) EXCEPT !.to = to])
                  /\ UNCHANGED <<upload, file>>
             ELSE RenameOn(c, i, to, Namesakes(i, to), queue, lookup, {})
        BY <1>17, <1>27 DEF Rename
    <2>3. CASE wbItem[i].uploading
        <3>1. [Waits("renameWaits", i) EXCEPT !.to = to] \in CallerType
            BY WaitsIs
        <3>2. QueueTyped' /\ ItemsTyped' /\ CallersTyped'
            BY <1>20, <2>2, <2>3, <3>1
        <3> QED BY <1>1, <1>6, <1>7, <2>1, <2>2, <2>3, <3>2 DEF Typed
    <2>4. CASE ~wbItem[i].uploading
        <3>1. Namesakes(i, to) \in SUBSET Items
            BY <1>1, Namesake
        <3>2. RenameOn(c, i, to, Namesakes(i, to), queue, lookup, {})
            BY <2>2, <2>4
        <3>3. QueueTyped' /\ ItemsTyped' /\ CallersTyped' /\ upload' = upload /\ file' \in [Ids -> FileType]
            BY <1>1, <1>26, <3>1, <3>2
        <3> QED BY <1>6, <1>7, <2>1, <3>3 DEF Typed
    <2> QED BY <2>3, <2>4
<1>28. ASSUME NEW c \in Callers, SetExpiry(c)
       PROVE  Typed'
    <2>1. Call(c, "SetExpiry") /\ Goes(c, Returned) /\ lookup' = lookup /\ wbItem' = wbItem
          /\ upload' = upload /\ file' = file
        BY <1>28 DEF SetExpiry
    <2>2. PICK i \in Items :
             \E q \in Updated(queue, i) \cup (IF OnHeap(i) THEN Sooner(queue, i) ELSE {}) : Requeue(q, {i})
        BY <1>17, <1>28 DEF SetExpiry
    <2>3. PICK q : (q \in Updated(queue, i) \/ q \in Sooner(queue, i)) /\ Requeue(q, {i})
        BY <2>2
    <2>4. QueueTyped'
        BY <1>1, <2>3, UpdatedIs, SoonerIs, Requeued
    <2> QED BY <1>1, <1>3, <1>6, <1>7, <1>10, <2>1, <2>4 DEF Typed
<1>29. ASSUME NEW c \in Callers, NEW pc \in Resuming, caller[c].pc = pc
       PROVE  /\ caller[c].item \in Items /\ caller[c].to \in Ids /\ caller[c].todo \in SUBSET Items
              /\ pc = "namesakeAgain" => caller[c].renamed \in Items
    <2>1. PICK m \in CallerType : m = caller[c]
        BY <1>1
    <2> QED BY <1>29, <2>1 DEF CallerType, Resuming, AnItem
<1>30. ASSUME NEW c \in Callers, AddResumes(c)
       PROVE  Typed'
    <2>1. caller[c].item \in Items
        BY <1>29, <1>30 DEF AddResumes, Resuming
    <2>2. QueueTyped'
        BY <1>1, <1>30, <2>1, LaterIs, Requeued DEF AddResumes
    <2>3. /\ Goes(c, Returned) /\ lookup' = lookup /\ wbItem' = wbItem /\ upload' = upload
          /\ calls' = calls /\ file' = file /\ Background
        BY <1>30 DEF AddResumes
    <2> QED BY <1>1, <1>3, <1>6, <1>8, <1>10, <2>2, <2>3 DEF Typed
<1>31. ASSUME NEW c \in Callers, RemoveResumes(c)
       PROVE  Typed'
    <2>1. caller[c].item \in Items
        BY <1>29, <1>31 DEF RemoveResumes, Resuming
    <2>2. /\ Goes(c, Returned) /\ wbItem' = wbItem /\ upload' = upload /\ calls' = calls /\ Background
          /\ Removed(caller[c].item) /\ Unwanted({wbItem[caller[c].item].id})
        BY <1>31 DEF RemoveResumes
    <2>3. QueueTyped' /\ lookup' \in [Ids -> AnItem]
        BY <1>22, <2>1, <2>2
    <2>4. file' \in [Ids -> FileType]
        BY <1>1, <2>2, UnwantedIs
    <2>5. ItemsTyped'
        BY <1>1, <2>2, <2>3 DEF ItemsTyped
    <2> QED BY <1>6, <1>8, <1>10, <2>2, <2>3, <2>4, <2>5 DEF Typed
<1>32. ASSUME NEW c \in Callers, RenameResumes(c)
       PROVE  Typed'
    <2>1. PICK i \in Items, to \in Ids : i = caller[c].item /\ to = caller[c].to
        BY <1>29, <1>32 DEF RenameResumes, Resuming
    <2>2. PICK q : q = IF OnHeap(i) THEN queue ELSE [heap |-> <<i>> \o queue.heap, due |-> queue.due + 1]
        OBVIOUS
    <2>3. GoodQueue(q)
        BY <1>1, <2>2, PutInFront DEF OnHeap
    <2>4. RenameOn(c, i, to, Namesakes(i, to), q, lookup, {}) /\ calls' = calls /\ Background
        BY <1>32, <2>1, <2>2 DEF RenameResumes
    <2>5. Namesakes(i, to) \in SUBSET Items
        BY <1>1, Namesake
    <2>6. QueueTyped' /\ ItemsTyped' /\ CallersTyped' /\ upload' = upload /\ file' \in [Ids -> FileType]
        BY <1>1, <1>26, <2>3, <2>4, <2>5
    <2> QED BY <1>6, <1>8, <2>4, <2>6 DEF Typed
<1>33. ASSUME NEW c \in Callers, NamesakeResumes(c)
       PROVE  Typed'
    <2>1. PICK i \in Items, j \in Items, to \in Ids, todo \in SUBSET Items :
             i = caller[c].renamed /\ j = caller[c].item /\ to = caller[c].to /\ todo = caller[c].todo
        BY <1>29, <1>33 DEF NamesakeResumes, Resuming
    <2>2. PICK l \in [Ids -> AnItem] : l = [lookup EXCEPT ![wbItem[j].id] = NoItem]
        BY <1>1 DEF AnItem
    <2>3. GoodQueue(Without(queue, j))
        BY <1>1, TakenOff
    <2>4. /\ RenameOn(c, i, to, todo \cap Namesakes(i, to), Without(queue, j), l, {j})
          /\ calls' = calls /\ Background
        BY <1>33, <2>1, <2>2 DEF NamesakeResumes
    <2>5. todo \cap Namesakes(i, to) \in SUBSET Items
        OBVIOUS
    <2>6. QueueTyped' /\ ItemsTyped' /\ CallersTyped' /\ upload' = upload /\ file' \in [Ids -> FileType]
        BY <1>1, <1>26, <2>3, <2>4, <2>5
    <2> QED BY <1>6, <1>8, <2>4, <2>6 DEF Typed
<1>34. CASE vars' = vars
    <2>1. QueueTyped' /\ ItemsTyped' /\ UploadsTyped' /\ CallersTyped' /\ RestTyped'
        BY <1>1, <1>3, <1>4, <1>6, <1>34 DEF vars, CallersTyped, RestTyped
    <2> QED BY <2>1 DEF Typed
<1> QED BY <1>11, <1>12, <1>13, <1>15, <1>16, <1>18, <1>19, <1>21, <1>23, <1>24, <1>25, <1>27, <1>28,
           <1>30, <1>31, <1>32, <1>33, <1>34 DEF Next, Resume

\* The state of the queue keeps its types, uploads its limit and calls theirs.
THEOREM TypeCorrect == Spec => []TypeOK
<1>1. Typed => TypeOK
    <2> SUFFICES ASSUME Typed
                 PROVE  TypeOK
        OBVIOUS
    <2>1. queue.heap \in Seq(Items) /\ queue.due \in 0 .. Len(queue.heap)
        BY DEF Typed, QueueTyped, GoodQueue
    <2>2. uploads \in 0 .. MaxUploads
        BY UploadsAre DEF Typed
    <2>3. \A i \in Items : upload[i] \in Seq(BOOLEAN)
        BY DEF Typed, UploadsTyped, Uploads
    <2>4. lookup \in [Ids -> Items \cup {NoItem}] /\ wbItem \in [Items -> ItemType]
        BY DEF Typed, ItemsTyped, AnItem
    <2>5. timer \in [for : Items \cup {NoItem}, armed : BOOLEAN] /\ fired \in BOOLEAN /\ calls \in 0 .. MaxCalls
          /\ file \in [Ids -> FileType]
        BY DEF Typed, QueueTyped, RestTyped, TimerType, AnItem
    <2> QED BY <2>1, <2>2, <2>3, <2>4, <2>5 DEF TypeOK, ItemType, FileType
<1> QED BY <1>1, TypedInit, TypedNext, PTL DEF Spec

-------------------------------------------------------------------------------
(* The timer *)

\* Unless it is armed, the timer has fired for what has expired; it is for the first of the
\* queue, except at the limit of uploads.
TimerRight ==
    /\ ~timer.armed /\ OnHeap(timer.for) => HasExpired(queue, timer.for)
    /\ ~timer.armed /\ timer.for # NoItem => fired
    /\ queue.heap # <<>> => timer.for = Head(queue.heap) \/ uploads = MaxUploads

\* The queue changes, and the timer is set anew.
Moves ==
    /\ \E p, moved : GoodQueue(p) /\ Follows(queue, p, moved) /\ Requeue(p, moved)
    /\ fired' = fired

\* A queue follows itself.
LEMMA NothingMoved ==
    ASSUME GoodQueue(queue)
    PROVE  Follows(queue, queue, {})
BY DEF Follows

\* What the loop of Rename does to the queue.
LEMMA RenameMoves ==
    ASSUME NEW c \in Callers, NEW i \in Items, NEW to \in Ids, NEW todo \in SUBSET Items, NEW q, GoodQueue(q),
           Follows(queue, q, {}), NEW l, NEW removed, RenameOn(c, i, to, todo, q, l, removed),
           fired' = fired
    PROVE  Moves
<1>4. RenameGoesOn(c, i, to, todo, q, l, removed)
    BY RenameOnIs
<1>1. PICK gone \in SUBSET Unbusy(todo), moved \in {{}, {i}} :
          \E p : RenameComes(c, i, to, todo, q, l, removed, gone, p, moved)
    BY <1>4 DEF RenameGoesOn
<1>2. PICK p : RenameComes(c, i, to, todo, q, l, removed, gone, p, moved)
    BY <1>1
<1>3. GoodQueue(p) /\ Follows(q, p, moved) /\ Requeue(p, moved)
    BY <1>2 DEF RenameComes
<1>5. Follows(queue, p, moved)
    BY <1>3 DEF Follows
<1> QED BY <1>3, <1>5 DEF Moves

\* Every step but those of the timer and of time sets the timer as the queue changes.
LEMMA TimerKept ==
    ASSUME Typed, Next, ~TimePasses, ~TimerFires, ~ProcessItems
    PROVE  Moves \/ UNCHANGED <<queue, timer, uploads, fired>>
<1>1. /\ GoodQueue(queue) /\ lookup \in [Ids -> AnItem] /\ ItemsTyped
      /\ caller \in [Callers -> CallerType]
    BY DEF Typed, QueueTyped, ItemsTyped, CallersTyped
<1> USE ItemsAre
<1>2. ASSUME NEW p, NEW moved, GoodQueue(p), Follows(queue, p, moved), Requeue(p, moved), fired' = fired
      PROVE  Moves
    BY <1>2 DEF Moves
<1>3. ASSUME Requeue(queue, {}), fired' = fired
      PROVE  Moves
    BY <1>1, <1>2, <1>3, NothingMoved
<1>4. \A c, what : Call(c, what) => fired' = fired /\ uploads' = uploads
    BY DEF Call, Background
<1>5. ASSUME NEW i \in Items, UploadFails(i)
      PROVE  Moves
    <2>1. PICK n \in DOMAIN upload[i], q \in Later(queue, i) : UploadEnds(i, n) /\ Requeue(q, {i})
        BY <1>5 DEF UploadFails
    <2>2. GoodQueue(q) /\ Follows(queue, q, {i})
        BY <1>1, LaterIs
    <2> QED BY <1>2, <2>1, <2>2 DEF UploadEnds
<1>6. ASSUME NEW i \in Items, UploadSucceeds(i)
      PROVE  Moves
    BY <1>3, <1>6 DEF UploadSucceeds, UploadEnds
<1>7. ASSUME NEW id \in Ids, lookup[id] # NoItem
      PROVE  lookup[id] \in Items
    BY <1>1, <1>7 DEF AnItem
<1>8. ASSUME NEW i \in Items, NEW q, q \in Later(queue, i) \/ q \in Sooner(queue, i) \/ q \in Updated(queue, i),
             Requeue(q, {i}), fired' = fired
      PROVE  Moves
    <2>1. GoodQueue(q) /\ Follows(queue, q, {i})
        BY <1>1, <1>8, LaterIs, SoonerIs, UpdatedIs
    <2> QED BY <1>2, <1>8, <2>1
<1>9. ASSUME NEW c \in Callers, AddNew(c)
      PROVE  Moves
    <2>1. PICK i \in Items : \E q \in Later(queue, i) : Requeue(q, {i})
        BY <1>9 DEF AddNew
    <2> QED BY <1>4, <1>8, <1>9, <2>1 DEF AddNew
<1>10. ASSUME NEW c \in Callers, AddKnown(c)
       PROVE  Moves
    <2>1. PICK i \in Items : \E q \in Updated(queue, i) : Requeue(q, {i})
        BY <1>7, <1>10 DEF AddKnown
    <2> QED BY <1>4, <1>8, <1>10, <2>1 DEF AddKnown
<1>11. ASSUME NEW c \in Callers, AddCancels(c) \/ RemoveCancels(c) \/ RenameUnknown(c)
       PROVE  UNCHANGED <<queue, timer, uploads, fired>>
    BY <1>4, <1>11 DEF AddCancels, RemoveCancels, RenameUnknown, CancelUpload
<1>12. ASSUME NEW i \in Items, Removed(i), fired' = fired
       PROVE  Moves
    <2>1. GoodQueue(Without(queue, i)) /\ Follows(queue, Without(queue, i), {})
        BY <1>1, TakenOff
    <2> QED BY <1>2, <1>12, <2>1 DEF Removed
<1>13. ASSUME NEW c \in Callers, RemoveNow(c)
       PROVE  Moves
    <2>1. PICK id \in Ids : IF lookup[id] = NoItem THEN Requeue(queue, {}) ELSE Removed(lookup[id])
        BY <1>13 DEF RemoveNow
    <2>2. fired' = fired
        BY <1>4, <1>13 DEF RemoveNow
    <2>3. CASE lookup[id] = NoItem
        BY <1>3, <2>1, <2>2, <2>3
    <2>4. CASE lookup[id] # NoItem
        BY <1>7, <1>12, <2>1, <2>2, <2>4
    <2> QED BY <2>3, <2>4
<1>14. ASSUME NEW c \in Callers, Rename(c)
       PROVE  Moves \/ UNCHANGED <<queue, timer, uploads, fired>>
    <2>1. PICK to \in Ids, i \in Items :
             IF wbItem[i].uploading
             THEN CancelUpload(c, [Waits("renameWaits", i) EXCEPT !.to = to])
             ELSE RenameOn(c, i, to, Namesakes(i, to), queue, lookup, {})
        BY <1>7, <1>14 DEF Rename
    <2>2. fired' = fired /\ uploads' = uploads
        BY <1>4, <1>14 DEF Rename
    <2>3. CASE wbItem[i].uploading
        BY <2>1, <2>2, <2>3 DEF CancelUpload
    <2>4. CASE ~wbItem[i].uploading
        <3>1. Namesakes(i, to) \in SUBSET Items
            BY <1>1, Namesake
        <3>2. RenameOn(c, i, to, Namesakes(i, to), queue, lookup, {})
            BY <2>1, <2>4
        <3> QED BY <1>1, <2>2, <3>1, <3>2, NothingMoved, RenameMoves
    <2> QED BY <2>3, <2>4
<1>15. ASSUME NEW c \in Callers, SetExpiry(c)
       PROVE  Moves
    <2>1. PICK i \in Items :
             \E q \in Updated(queue, i) \cup (IF OnHeap(i) THEN Sooner(queue, i) ELSE {}) : Requeue(q, {i})
        BY <1>7, <1>15 DEF SetExpiry
    <2>2. PICK q : (q \in Updated(queue, i) \/ q \in Sooner(queue, i)) /\ Requeue(q, {i})
        BY <2>1
    <2>3. fired' = fired
        BY <1>4, <1>15 DEF SetExpiry
    <2> QED BY <1>8, <2>2, <2>3
<1>16. ASSUME NEW c \in Callers, NEW pc \in Resuming, caller[c].pc = pc
       PROVE  /\ caller[c].item \in Items /\ caller[c].to \in Ids /\ caller[c].todo \in SUBSET Items
              /\ pc = "namesakeAgain" => caller[c].renamed \in Items
    <2>1. PICK m \in CallerType : m = caller[c]
        BY <1>1
    <2> QED BY <1>16, <2>1 DEF CallerType, Resuming, AnItem
<1>17. ASSUME NEW c \in Callers, AddResumes(c)
       PROVE  Moves
    <2>1. caller[c].item \in Items
        BY <1>16, <1>17 DEF AddResumes, Resuming
    <2> QED BY <1>8, <1>17, <2>1 DEF AddResumes, Background
<1>18. ASSUME NEW c \in Callers, RemoveResumes(c)
       PROVE  Moves
    <2>1. caller[c].item \in Items
        BY <1>16, <1>18 DEF RemoveResumes, Resuming
    <2> QED BY <1>12, <1>18, <2>1 DEF RemoveResumes, Background
<1>19. ASSUME NEW c \in Callers, RenameResumes(c)
       PROVE  Moves
    <2>1. PICK i \in Items, to \in Ids : i = caller[c].item /\ to = caller[c].to
        BY <1>16, <1>19 DEF RenameResumes, Resuming
    <2>2. PICK q : q = IF OnHeap(i) THEN queue ELSE [heap |-> <<i>> \o queue.heap, due |-> queue.due + 1]
        OBVIOUS
    <2>3. GoodQueue(q) /\ Follows(queue, q, {})
        BY <1>1, <2>2, NothingMoved, PutInFront DEF OnHeap
    <2>4. RenameOn(c, i, to, Namesakes(i, to), q, lookup, {}) /\ fired' = fired
        BY <1>19, <2>1, <2>2 DEF RenameResumes, Background
    <2>5. Namesakes(i, to) \in SUBSET Items
        BY <1>1, Namesake
    <2> QED BY <1>1, <2>3, <2>4, <2>5, RenameMoves
<1>20. ASSUME NEW c \in Callers, NamesakeResumes(c)
       PROVE  Moves
    <2>1. PICK i \in Items, j \in Items, to \in Ids, todo \in SUBSET Items :
             i = caller[c].renamed /\ j = caller[c].item /\ to = caller[c].to /\ todo = caller[c].todo
        BY <1>16, <1>20 DEF NamesakeResumes, Resuming
    <2>2. GoodQueue(Without(queue, j)) /\ Follows(queue, Without(queue, j), {})
        BY <1>1, TakenOff
    <2>3. /\ RenameOn(c, i, to, todo \cap Namesakes(i, to), Without(queue, j),
                      [lookup EXCEPT ![wbItem[j].id] = NoItem], {j})
          /\ fired' = fired
        BY <1>20, <2>1 DEF NamesakeResumes, Background
    <2>4. todo \cap Namesakes(i, to) \in SUBSET Items
        OBVIOUS
    <2> QED BY <1>1, <2>2, <2>3, <2>4, RenameMoves
<1> QED BY <1>5, <1>6, <1>9, <1>10, <1>11, <1>13, <1>14, <1>15, <1>17, <1>18, <1>19, <1>20 DEF Next, Resume

\* Every step keeps the timer right.
LEMMA TimerNext == Typed /\ TimerRight /\ [Next]_vars => TimerRight'
<1> SUFFICES ASSUME Typed, TimerRight, [Next]_vars
             PROVE  TimerRight'
    OBVIOUS
<1>1. GoodQueue(queue) /\ timer \in TimerType /\ QueueTyped /\ UploadsTyped
    BY DEF Typed, QueueTyped
<1>2. uploads \in 0 .. MaxUploads
    BY <1>1, UploadsAre
<1>3. ASSUME NEW p, GoodQueue(p)
      PROVE  /\ ~Held(p, NoItem)
             /\ p.heap # <<>> => Held(p, Head(p.heap)) /\ Head(p.heap) # NoItem
    <2>1. PICK h \in Seq(Items) : h = p.heap
        BY <1>3 DEF GoodQueue
    <2>2. ~Held(p, NoItem)
        BY <1>3, Places, ItemsAre
    <2>3. ASSUME h # <<>>
          PROVE  Held(p, Head(h)) /\ Head(h) # NoItem
        <3>1. 1 \in 1 .. Len(h) /\ Head(h) = h[1] /\ h[1] \in Items
            BY <2>3
        <3>2. Held(p, h[1])
            BY <1>3, <2>1, <3>1, Places
        <3> QED BY <3>1, <3>2, ItemsAre
    <2> QED BY <2>1, <2>2, <2>3
<1>4. CASE TimePasses
    <2>1. PICK h \in Seq(Items), d \in Nat : queue = [heap |-> h, due |-> d] /\ d <= Len(h) /\ queue.due = d
        BY <1>1 DEF GoodQueue
    <2>2. PICK p : p = queue'
        OBVIOUS
    <2>3. p = [heap |-> h, due |-> d + 1] /\ p.heap = h /\ p.due = d + 1
        BY <1>4, <2>1, <2>2 DEF TimePasses
    <2>4. GoodQueue(p)
        <3>1. Typed'
            BY TypedNext
        <3> QED BY <2>2, <3>1 DEF Typed, QueueTyped
    <2>5. \A i : Held(p, i) <=> Held(queue, i)
        BY <2>1, <2>3 DEF Held
    <2>6. ASSUME NEW i, HasExpired(queue, i)
          PROVE  HasExpired(p, i)
        <3>1. PICK k \in 1 .. d : h[k] = i
            BY <1>1, <2>1, <2>6, Places
        <3>2. k \in 1 .. d + 1
            OBVIOUS
        <3>3. HasExpired(p, i) <=> \E k1 \in 1 .. p.due : p.heap[k1] = i
            BY <2>4, Places
        <3> QED BY <2>3, <3>1, <3>2, <3>3
    <2>7. timer' = timer /\ fired' = fired /\ uploads' = uploads
        BY <1>4 DEF TimePasses
    <2> QED BY <2>1, <2>2, <2>3, <2>5, <2>6, <2>7 DEF TimerRight, OnHeap
<1>5. CASE TimerFires
    <2>1. PICK m \in TimerType : m = timer
        BY <1>1
    <2>2. /\ queue' = queue /\ uploads' = uploads /\ fired' /\ timer' = [m EXCEPT !.armed = FALSE]
          /\ OnHeap(m.for) => HasExpired(queue, m.for)
        BY <1>5, <2>1 DEF TimerFires
    <2>3. timer'.for = m.for
        BY <2>2 DEF TimerType
    <2> QED BY <2>1, <2>2, <2>3 DEF TimerRight, OnHeap
<1>6. CASE ProcessItems
    <2>1. PICK n : n = Len(Startable)
        OBVIOUS
    <2>2. PICK q : q = Left(n)
        OBVIOUS
    <2>3. /\ n \in Nat /\ GoodQueue(q) /\ Follows(queue, q, {})
          /\ \A j : Held(q, j) <=> Held(queue, j) /\ j \notin Range(Startable)
          /\ q.due > 0 => uploads + n = MaxUploads
          /\ ~(q.due > 0) => \A j : HasExpired(queue, j) => j \in Range(Startable)
        BY <1>1, <1>2, <2>1, <2>2, StartableIs
    <2>4. queue' = q /\ timer' = (IF q.due > 0 THEN NoTimer ELSE ResetTimer(q, {})) /\ uploads' = uploads + n
        BY <1>6, <2>1, <2>2 DEF ProcessItems, Left
    <2>5. CASE q.due > 0
        <3>1. timer'.for = NoItem /\ uploads' = MaxUploads
            BY <2>3, <2>4, <2>5 DEF NoTimer
        <3> QED BY <1>3, <2>3, <2>4, <3>1 DEF TimerRight, OnHeap
    <2>6. CASE ~(q.due > 0)
        <3>1. Requeue(q, {})
            BY <2>4, <2>6 DEF Requeue
        <3>2. \/ q.heap = <<>> /\ timer' = NoTimer
              \/ q.heap # <<>> /\ timer.for = Head(q.heap) /\ timer' = timer
              \/ q.heap # <<>> /\ timer' = [for |-> Head(q.heap), armed |-> TRUE]
            BY <1>1, <2>3, <3>1, Requeued
        <3>3. CASE q.heap = <<>> /\ timer' = NoTimer
            BY <1>3, <2>3, <2>4, <3>3 DEF TimerRight, NoTimer, OnHeap
        <3>4. CASE q.heap # <<>> /\ timer.for = Head(q.heap) /\ timer' = timer
            <4>1. Held(q, timer.for)
                BY <1>3, <2>3, <3>4
            <4>2. Held(queue, timer.for) /\ ~HasExpired(queue, timer.for)
                BY <2>3, <2>6, <4>1
            <4>3. timer.armed
                BY <4>2 DEF TimerRight, OnHeap
            <4> QED BY <2>4, <3>4, <4>3 DEF TimerRight
        <3>5. CASE q.heap # <<>> /\ timer' = [for |-> Head(q.heap), armed |-> TRUE]
            BY <2>4, <3>5 DEF TimerRight
        <3> QED BY <3>2, <3>3, <3>4, <3>5
    <2> QED BY <2>5, <2>6
<1>7. CASE Moves
    <2>1. PICK p, moved : GoodQueue(p) /\ Follows(queue, p, moved) /\ Requeue(p, moved) /\ fired' = fired
        BY <1>7 DEF Moves
    <2>2. /\ queue' = p
          /\ \/ p.heap = <<>> /\ timer' = NoTimer
             \/ p.heap # <<>> /\ timer.for = Head(p.heap) /\ timer.for \notin moved /\ timer' = timer
             \/ p.heap # <<>> /\ timer' = [for |-> Head(p.heap), armed |-> TRUE]
        BY <1>1, <2>1, Requeued
    <2>3. CASE p.heap = <<>> /\ timer' = NoTimer
        BY <1>3, <2>1, <2>2, <2>3 DEF TimerRight, NoTimer, OnHeap
    <2>4. CASE p.heap # <<>> /\ timer.for = Head(p.heap) /\ timer.for \notin moved /\ timer' = timer
        <3>1. ~timer.armed /\ Held(p, timer.for) => HasExpired(p, timer.for)
            BY <2>1, <2>4 DEF TimerRight, Follows, OnHeap
        <3> QED BY <2>1, <2>2, <2>4, <3>1 DEF TimerRight, OnHeap
    <2>5. CASE p.heap # <<>> /\ timer' = [for |-> Head(p.heap), armed |-> TRUE]
        BY <2>2, <2>5 DEF TimerRight
    <2> QED BY <2>2, <2>3, <2>4, <2>5
<1>8. CASE UNCHANGED <<queue, timer, uploads, fired>>
    BY <1>8 DEF TimerRight, OnHeap
<1>9. CASE vars' = vars
    BY <1>8, <1>9 DEF vars
<1> QED BY <1>4, <1>5, <1>6, <1>7, <1>8, <1>9, TimerKept

\* Whatever is queued is going to be looked at, however the timer and the lock interleave.
THEOREM TimerCorrect == Spec => []TimerIsSet
<1>1. Init => TimerRight
    <2> SUFFICES ASSUME Init
                 PROVE  TimerRight
        OBVIOUS
    <2>1. queue.heap = <<>> /\ timer.for = NoItem /\ GoodQueue(queue)
        BY TypedInit DEF Init, NoTimer, Typed, QueueTyped
    <2>2. ~OnHeap(NoItem)
        BY <2>1, Places, ItemsAre DEF OnHeap
    <2> QED BY <2>1, <2>2 DEF TimerRight
<1>2. Typed /\ TimerRight => TimerIsSet
    <2> SUFFICES ASSUME Typed, TimerRight, queue.heap # <<>>, ~fired, uploads # MaxUploads
                 PROVE  timer = [for |-> Head(queue.heap), armed |-> TRUE]
        BY DEF TimerIsSet
    <2>1. PICK h \in Seq(Items) : h = queue.heap
        BY DEF Typed, QueueTyped, GoodQueue
    <2>2. Head(h) \in Items
        BY <2>1
    <2>3. PICK m \in TimerType : m = timer
        BY DEF Typed, QueueTyped
    <2>4. m.for = Head(h) /\ m.armed = TRUE
        BY <2>1, <2>2, <2>3, ItemsAre DEF TimerRight, TimerType
    <2> QED BY <2>1, <2>3, <2>4 DEF TimerType
<1> QED BY <1>1, <1>2, TypedInit, TypedNext, TimerNext, PTL DEF Spec

-------------------------------------------------------------------------------
(* Nothing is forgotten *)

\* An item that is queued, uploaded as it is, or in the hands of a caller that waits.
InHand(i) == \E c \in Callers : caller[c].item = i
Cares(i) ==
    \/ OnHeap(i)
    \/ \E n \in DOMAIN upload[i] : upload[i][n]
    \/ InHand(i)
InMind(id) == \E i \in Items : wbItem[i].id = id /\ Cares(i)

\* What lookup has for a handle is its own, and queued or being uploaded.
Known ==
    \A id \in Ids : lookup[id] # NoItem =>
        wbItem[lookup[id]].id = id /\ (OnHeap(lookup[id]) \/ wbItem[lookup[id]].uploading)

\* Nothing is forgotten if everything unsaved is in mind, now ...
LEMMA InMindIs == NothingIsForgotten <=> \A id \in Ids : file[id].wanted /\ ~file[id].saved => InMind(id)
BY DEF NothingIsForgotten, InMind, Cares, InHand

\* ... and after a step.
LEMMA InMindNext ==
    ASSUME \A id \in Ids : file'[id].wanted /\ ~file'[id].saved => InMind(id)'
    PROVE  NothingIsForgotten'
BY DEF NothingIsForgotten, InMind, Cares, InHand

\* The items of the other callers stay in hand.
LEMMA HandsKept ==
    ASSUME CallersTyped, NEW c \in Callers, NEW r, caller' = [caller EXCEPT ![c] = r], NEW i
    PROVE  /\ InHand(i) /\ caller[c].item # i => InHand(i)'
           /\ r.item = i => InHand(i)'
BY DEF CallersTyped, InHand

\* So do all, if no caller's item changes.
LEMMA HandsSame ==
    ASSUME NEW i, \A c \in Callers : caller'[c].item = caller[c].item
    PROVE  InHand(i) => InHand(i)'
BY DEF InHand

\* What a file has in mind stays, if each of its items is still cared for.
LEMMA MindKept ==
    ASSUME NEW id, InMind(id),
           \A i \in Items : wbItem[i].id = id /\ Cares(i) => wbItem'[i].id = id /\ Cares(i)'
    PROVE  InMind(id)'
BY DEF InMind

\* One that is cared for is enough.
LEMMA MindOf ==
    ASSUME NEW i \in Items, NEW id, wbItem'[i].id = id, Cares(i)'
    PROVE  InMind(id)'
BY DEF InMind

\* What removing items in Rename leaves.
LEMMA RenameRemembers ==
    ASSUME Typed, Known, NothingIsForgotten, NEW c \in Callers, NEW i \in Items, NEW to \in Ids,
           NEW todo \in SUBSET Items, NEW q, GoodQueue(q), NEW l \in [Ids -> AnItem], NEW removed \in SUBSET Items,
           RenameOn(c, i, to, todo, q, l, removed),
           \A j \in Items \ removed : OnHeap(j) => Held(q, j),
           \A id \in Ids : l[id] # NoItem => l[id] = lookup[id] /\ l[id] \notin removed,
           \A j \in Items : caller[c].item = j => Held(q, j) \/ j \in removed
    PROVE  Known' /\ NothingIsForgotten'
<1>9. RenameGoesOn(c, i, to, todo, q, l, removed)
    BY RenameOnIs
<1>1. PICK gone \in SUBSET Unbusy(todo), moved \in {{}, {i}} :
          \E p : RenameComes(c, i, to, todo, q, l, removed, gone, p, moved)
    BY <1>9 DEF RenameGoesOn
<1>2. PICK p : RenameComes(c, i, to, todo, q, l, removed, gone, p, moved)
    BY <1>1
<1>3. /\ queue' = p /\ (\A j : Held(p, j) <=> Held(q, j) /\ j \notin gone)
      /\ lookup' = [id \in Ids |-> IF l[id] \in gone THEN NoItem ELSE l[id]]
      /\ Unwanted({wbItem[j].id : j \in gone \cup removed})
      /\ upload' = upload
    BY <1>2 DEF RenameComes, Requeue
<1>4. PICK r : caller' = [caller EXCEPT ![c] = r]
    BY <1>2 DEF RenameComes
<1>5. wbItem \in [Items -> ItemType] /\ CallersTyped /\ gone \in SUBSET Items
    BY DEF Typed, ItemsTyped, Unbusy
<1>6. \A j \in Items : wbItem'[j].id = wbItem[j].id /\ wbItem'[j].uploading = wbItem[j].uploading
    <2>1. CASE wbItem' = [wbItem EXCEPT ![i].name = to]
        <3>1. PICK m \in ItemType : m = wbItem[i]
            BY <1>5
        <3>2. wbItem' = [wbItem EXCEPT ![i] = [m EXCEPT !.name = to]]
            BY <2>1, <3>1
        <3>3. [m EXCEPT !.name = to].id = m.id /\ [m EXCEPT !.name = to].uploading = m.uploading
            BY DEF ItemType
        <3> QED BY <1>5, <3>1, <3>2, <3>3
    <2>2. CASE wbItem' = wbItem
        BY <2>2
    <2> QED BY <1>2, <2>1, <2>2 DEF RenameComes
<1>7. Known'
    <2> SUFFICES ASSUME NEW id \in Ids, lookup'[id] # NoItem
                 PROVE  /\ wbItem'[lookup'[id]].id = id
                        /\ Held(queue', lookup'[id]) \/ wbItem'[lookup'[id]].uploading
        BY DEF Known, OnHeap
    <2>1. PICK j \in Items : j = lookup'[id] /\ j = lookup[id] /\ j \notin gone \cup removed
        BY <1>3, ItemsAre DEF AnItem
    <2>2. wbItem[j].id = id /\ (OnHeap(j) \/ wbItem[j].uploading)
        BY <2>1, ItemsAre DEF Known
    <2> QED BY <1>3, <1>6, <2>1, <2>2
<1>8. ASSUME NEW id \in Ids, file'[id].wanted, ~file'[id].saved
      PROVE  InMind(id)'
    <2>1. /\ file[id].wanted /\ ~file[id].saved
          /\ id \notin {wbItem[j].id : j \in gone \cup removed}
        BY <1>3, <1>8, UnwantedIs DEF Typed, RestTyped
    <2>2. InMind(id)
        BY <2>1, InMindIs
    <2>3. ASSUME NEW j \in Items, wbItem[j].id = id, Cares(j)
          PROVE  Cares(j)'
        <3>1. j \notin gone /\ j \notin removed
            BY <2>1, <2>3
        <3>2. OnHeap(j) => OnHeap(j)'
            BY <1>3, <3>1 DEF OnHeap
        <3>3. caller[c].item = j => OnHeap(j)'
            BY <1>3, <3>1 DEF OnHeap
        <3>4. InHand(j) => InHand(j)' \/ OnHeap(j)'
            BY <1>4, <1>5, <3>3, HandsKept
        <3> QED BY <1>3, <2>3, <3>2, <3>4 DEF Cares
    <2> QED BY <1>6, <2>2, <2>3, MindKept
<1> QED BY <1>7, <1>8, InMindNext

\* What stays when the items, the callers' items and the files stay.
LEMMA RememberSame ==
    ASSUME Known, NothingIsForgotten, lookup' = lookup, wbItem' = wbItem, upload' = upload, file' = file,
           \A i \in Items : OnHeap(i) => OnHeap(i)', \A i \in Items : InHand(i) => InHand(i)' \/ OnHeap(i)',
           NoItem \notin Items, lookup \in [Ids -> AnItem]
    PROVE  Known' /\ NothingIsForgotten'
<1>1. Known'
    BY DEF Known, AnItem
<1>2. ASSUME NEW id \in Ids, file'[id].wanted, ~file'[id].saved
      PROVE  InMind(id)'
    <2>1. InMind(id)
        BY <1>2, InMindIs
    <2>2. ASSUME NEW j \in Items, Cares(j)
          PROVE  Cares(j)'
        BY <2>2 DEF Cares
    <2> QED BY <2>1, <2>2, MindKept
<1> QED BY <1>1, <1>2, InMindNext

\* No step forgets a file.
LEMMA RememberNext == Typed /\ Known /\ NothingIsForgotten /\ [Next]_vars => Known' /\ NothingIsForgotten'
<1> SUFFICES ASSUME Typed, Known, NothingIsForgotten, [Next]_vars
             PROVE  Known' /\ NothingIsForgotten'
    OBVIOUS
<1>1. /\ QueueTyped /\ ItemsTyped /\ UploadsTyped /\ CallersTyped /\ RestTyped
      /\ GoodQueue(queue) /\ lookup \in [Ids -> AnItem] /\ wbItem \in [Items -> ItemType]
      /\ upload \in Uploads /\ caller \in [Callers -> CallerType] /\ file \in [Ids -> FileType]
    BY DEF Typed, QueueTyped, ItemsTyped, UploadsTyped, CallersTyped, RestTyped
<1> USE ItemsAre
<1>2. ASSUME NEW id \in Ids, NEW i, i = lookup[id], i # NoItem
      PROVE  i \in Items /\ wbItem[i].id = id /\ (OnHeap(i) \/ wbItem[i].uploading)
    BY <1>1, <1>2 DEF AnItem, Known
<1>3. ASSUME NEW c \in Callers, NEW what, Call(c, what)
      PROVE  caller[c].item = NoItem
    <2>1. PICK m \in CallerType : m = caller[c]
        BY <1>1
    <2>2. m.pc = "idle"
        BY <1>3, <2>1 DEF Call
    <2> QED BY <2>1, <2>2 DEF CallerType
<1>4. ASSUME NEW c \in Callers, NEW what, NEW r, Call(c, what), caller' = [caller EXCEPT ![c] = r]
      PROVE  \A i \in Items : InHand(i) => InHand(i)'
    BY <1>1, <1>3, <1>4, HandsKept
<1>5. ASSUME NEW c \in Callers, NEW what, Call(c, what), Goes(c, Returned)
      PROVE  \A i \in Items : InHand(i) => InHand(i)'
    BY <1>4, <1>5 DEF Goes
<1>6. ASSUME NEW i, queue' = queue
      PROVE  OnHeap(i) => OnHeap(i)'
    BY <1>6 DEF OnHeap
<1>7. ASSUME NEW i, caller' = caller
      PROVE  InHand(i) => InHand(i)'
    BY <1>7 DEF InHand
<1>8. ASSUME NEW i \in Items, NEW q, q \in Later(queue, i) \/ q \in Sooner(queue, i) \/ q \in Updated(queue, i),
             NEW moved, Requeue(q, moved)
      PROVE  /\ \A j \in Items : OnHeap(j) => OnHeap(j)'
             /\ q \in Later(queue, i) => OnHeap(i)'
    <2>1. queue' = q
        BY <1>8 DEF Requeue
    <2> QED BY <1>1, <1>8, <2>1, LaterIs, SoonerIs, UpdatedIs DEF OnHeap
<1>11. CASE TimePasses
    <2>1. ASSUME NEW i
          PROVE  OnHeap(i) => OnHeap(i)'
        <3>1. PICK h \in Seq(Items), d \in Nat : queue = [heap |-> h, due |-> d]
            BY <1>1 DEF GoodQueue
        <3>2. queue' = [heap |-> h, due |-> d + 1]
            BY <1>11, <3>1 DEF TimePasses
        <3> QED BY <3>1, <3>2 DEF OnHeap, Held
    <2> QED BY <1>1, <1>7, <1>11, <2>1, RememberSame DEF TimePasses
<1>12. CASE TimerFires
    BY <1>1, <1>6, <1>7, <1>12, RememberSame DEF TimerFires
<1>13. CASE ProcessItems
    <2>1. PICK n : n = Len(Startable)
        OBVIOUS
    <2>2. PICK q : q = Left(n)
        OBVIOUS
    <2>3. /\ Startable \in Seq(Items)
          /\ \A j : Held(q, j) <=> Held(queue, j) /\ j \notin Range(Startable)
        BY <1>1, <2>1, <2>2, UploadsAre, StartableIs
    <2>4. PICK s \in Seq(Items) : s = Startable
        BY <2>3
    <2>5. /\ queue' = q /\ caller' = caller /\ lookup' = lookup /\ file' = file
          /\ upload' = [i \in Items |-> IF i \in Range(s) THEN Append(upload[i], TRUE) ELSE upload[i]]
          /\ wbItem' = [i \in Items |->
                 IF i \in Range(s) THEN [wbItem[i] EXCEPT !.uploading = TRUE, !.closed = FALSE]
                 ELSE wbItem[i]]
        BY <1>13, <2>1, <2>2, <2>4 DEF ProcessItems, Left
    <2>6. ASSUME NEW i \in Items
          PROVE  /\ wbItem'[i].id = wbItem[i].id
                 /\ wbItem[i].uploading \/ i \in Range(s) => wbItem'[i].uploading
                 /\ i \notin Range(s) /\ OnHeap(i) => OnHeap(i)'
        <3>1. PICK m \in ItemType : m = wbItem[i]
            BY <1>1
        <3>2. /\ [m EXCEPT !.uploading = TRUE, !.closed = FALSE].id = m.id
              /\ [m EXCEPT !.uploading = TRUE, !.closed = FALSE].uploading
            BY DEF ItemType
        <3>3. wbItem'[i] = IF i \in Range(s) THEN [m EXCEPT !.uploading = TRUE, !.closed = FALSE] ELSE m
            BY <2>5, <3>1
        <3> QED BY <2>3, <2>4, <2>5, <3>1, <3>2, <3>3 DEF OnHeap
    <2>7. Known'
        <3> SUFFICES ASSUME NEW id \in Ids, lookup'[id] # NoItem
                     PROVE  /\ wbItem'[lookup'[id]].id = id
                            /\ OnHeap(lookup[id])' \/ wbItem'[lookup'[id]].uploading
            BY <2>5 DEF Known, OnHeap
        <3>1. PICK i \in Items : i = lookup[id] /\ i = lookup'[id] /\ wbItem[i].id = id /\ (OnHeap(i) \/ wbItem[i].uploading)
            BY <1>2, <2>5
        <3>2. OnHeap(i)' \/ wbItem'[i].uploading
            BY <2>6, <3>1
        <3> QED BY <2>5, <2>6, <3>1, <3>2 DEF OnHeap
    <2>8. ASSUME NEW i \in Items, Cares(i)
          PROVE  Cares(i)'
        <3>1. CASE i \in Range(s)
            <4>1. PICK t \in Seq(BOOLEAN) : t = upload[i]
                BY <1>1 DEF Uploads
            <4>2. Len(Append(t, TRUE)) = Len(t) + 1 /\ Append(t, TRUE)[Len(t) + 1] = TRUE
                  /\ Append(t, TRUE) \in Seq(BOOLEAN)
                BY AppendProperties
            <4>3. Len(t) + 1 \in DOMAIN Append(t, TRUE)
                BY <4>2, LenProperties
            <4>4. upload'[i] = Append(t, TRUE)
                BY <2>5, <3>1, <4>1
            <4> QED BY <4>2, <4>3, <4>4 DEF Cares
        <3>2. CASE i \notin Range(s)
            BY <1>7, <2>5, <2>6, <2>8, <3>2 DEF Cares
        <3> QED BY <3>1, <3>2
    <2>9. ASSUME NEW id \in Ids, file'[id].wanted, ~file'[id].saved
          PROVE  InMind(id)'
        <3>1. InMind(id)
            BY <2>5, <2>9, InMindIs
        <3> QED BY <2>6, <2>8, <3>1, MindKept
    <2> QED BY <2>7, <2>9, InMindNext
<1>14. ASSUME NEW i \in Items, NEW n \in DOMAIN upload[i], UploadEnds(i, n)
       PROVE  /\ \A j \in Items : /\ wbItem'[j].id = wbItem[j].id
                                  /\ j # i => wbItem'[j].uploading = wbItem[j].uploading /\ upload'[j] = upload[j]
              /\ \A j : InHand(j) => InHand(j)'
              /\ \A k \in DOMAIN upload[i] : k # n /\ upload[i][k] => \E m \in DOMAIN upload'[i] : upload'[i][m]
    <2>1. PICK m \in ItemType : m = wbItem[i]
        BY <1>1
    <2>2. wbItem' = [wbItem EXCEPT ![i] = [m EXCEPT !.uploading = FALSE, !.closed = TRUE]]
        BY <1>14, <2>1 DEF UploadEnds
    <2>3. [m EXCEPT !.uploading = FALSE, !.closed = TRUE].id = m.id
        BY DEF ItemType
    <2>4. \A c \in Callers : caller'[c].item = caller[c].item
        BY <1>1, <1>14, WokenIs DEF UploadEnds
    <2>5. upload' = [upload EXCEPT ![i] = RemoveAt(@, n)]
        BY <1>14 DEF UploadEnds
    <2>6. PICK t \in Seq(BOOLEAN) : t = upload[i]
        BY <1>1 DEF Uploads
    <2>7. n \in 1 .. Len(t) /\ DOMAIN t = 1 .. Len(t) /\ Len(t) \in Nat
        BY <2>6, LenProperties
    <2>8. /\ RemoveAt(t, n) \in Seq(BOOLEAN) /\ Len(RemoveAt(t, n)) = Len(t) - 1
          /\ \A k \in 1 .. Len(t) - 1 : RemoveAt(t, n)[k] = IF k < n THEN t[k] ELSE t[k + 1]
        BY <2>7, RemoveAtIs
    <2>9. PICK v \in Seq(BOOLEAN) : v = RemoveAt(t, n) /\ Len(v) = Len(t) - 1
        BY <2>8
    <2>10. DOMAIN v = 1 .. Len(t) - 1
        BY <2>9, LenProperties
    <2>11. upload'[i] = v
        BY <1>1, <2>5, <2>6, <2>9 DEF Uploads
    <2>12. ASSUME NEW k \in DOMAIN upload[i], k # n, upload[i][k]
           PROVE  \E m1 \in DOMAIN upload'[i] : upload'[i][m1]
        <3>1. k \in 1 .. Len(t) /\ t[k]
            BY <2>6, <2>7, <2>12
        <3>2. CASE k < n
            <4>1. k \in 1 .. Len(t) - 1
                BY <2>7, <3>1, <3>2
            <4>2. v[k]
                BY <2>8, <2>9, <3>1, <3>2, <4>1
            <4> QED BY <2>10, <2>11, <4>1, <4>2
        <3>3. CASE n < k
            <4>1. k - 1 \in 1 .. Len(t) - 1 /\ ~(k - 1 < n) /\ (k - 1) + 1 = k
                BY <2>7, <3>1, <3>3
            <4>2. v[k - 1]
                BY <2>8, <2>9, <3>1, <4>1
            <4> QED BY <2>10, <2>11, <4>1, <4>2
        <3> QED BY <2>7, <2>12, <3>1, <3>2, <3>3
    <2>13. \A j \in Items : /\ wbItem'[j].id = wbItem[j].id
                            /\ j # i => wbItem'[j].uploading = wbItem[j].uploading /\ upload'[j] = upload[j]
        BY <1>1, <2>1, <2>2, <2>3, <2>5 DEF Uploads
    <2>14. \A j : InHand(j) => InHand(j)'
        BY <2>4, HandsSame
    <2> QED BY <2>12, <2>13, <2>14
<1>15. CASE \E i \in Items : UploadFails(i)
    <2>1. PICK i \in Items : UploadFails(i)
        BY <1>15
    <2>2. PICK n \in DOMAIN upload[i], q \in Later(queue, i) :
             UploadEnds(i, n) /\ Requeue(q, {i}) /\ lookup' = lookup /\ file' = file
        BY <2>1 DEF UploadFails
    <2>3. (\A j \in Items : OnHeap(j) => OnHeap(j)') /\ OnHeap(i)'
        BY <1>8, <2>2
    <2>4. Known'
        <3> SUFFICES ASSUME NEW id \in Ids, lookup'[id] # NoItem
                     PROVE  /\ wbItem'[lookup'[id]].id = id
                            /\ Held(queue', lookup'[id]) \/ wbItem'[lookup'[id]].uploading
            BY DEF Known, OnHeap
        <3>1. PICK j \in Items : j = lookup[id] /\ j = lookup'[id] /\ wbItem[j].id = id /\ (OnHeap(j) \/ wbItem[j].uploading)
            BY <1>2, <2>2
        <3>2. wbItem'[j].id = id /\ (OnHeap(j)' \/ wbItem'[j].uploading)
            BY <1>14, <2>2, <2>3, <3>1
        <3> QED BY <3>1, <3>2 DEF OnHeap
    <2>5. ASSUME NEW j \in Items, Cares(j)
          PROVE  Cares(j)'
        BY <1>14, <2>2, <2>3, <2>5 DEF Cares
    <2>6. ASSUME NEW id \in Ids, file'[id].wanted, ~file'[id].saved
          PROVE  InMind(id)'
        <3>1. InMind(id)
            BY <2>2, <2>6, InMindIs
        <3> QED BY <1>14, <2>2, <2>5, <3>1, MindKept
    <2> QED BY <2>4, <2>6, InMindNext
<1>16. ASSUME \A id \in Ids : lookup'[id] # NoItem =>
                  \E i \in Items : /\ i = lookup'[id] /\ wbItem'[i].id = id
                                   /\ Held(queue', i) \/ wbItem'[i].uploading
       PROVE  Known'
    <2> SUFFICES ASSUME NEW id \in Ids, lookup'[id] # NoItem
                 PROVE  /\ wbItem'[lookup'[id]].id = id
                        /\ Held(queue', lookup'[id]) \/ wbItem'[lookup'[id]].uploading
        BY DEF Known, OnHeap
    <2> QED BY <1>16
<1>17. CASE \E i \in Items : UploadSucceeds(i)
    <2>1. PICK i \in Items : UploadSucceeds(i)
        BY <1>17
    <2>2. PICK n \in DOMAIN upload[i] :
             /\ UploadEnds(i, n)
             /\ file' = [file EXCEPT ![wbItem[i].id].saved = @ \/ upload[i][n]]
             /\ lookup' = [lookup EXCEPT ![wbItem[i].id] = NoItem]
             /\ Requeue(queue, {})
        BY <2>1 DEF UploadSucceeds
    <2>3. PICK own \in Ids : own = wbItem[i].id
        BY <1>1 DEF ItemType
    <2>4. queue' = queue /\ lookup' = [lookup EXCEPT ![own] = NoItem]
        BY <2>2, <2>3 DEF Requeue
    <2>5. Known'
        <3>1. ASSUME NEW id \in Ids, lookup'[id] # NoItem
              PROVE  \E j \in Items : /\ j = lookup'[id] /\ wbItem'[j].id = id
                                      /\ Held(queue', j) \/ wbItem'[j].uploading
            <4>1. id # own /\ lookup'[id] = lookup[id]
                BY <1>1, <2>4, <3>1
            <4>2. PICK j \in Items : j = lookup[id] /\ wbItem[j].id = id /\ (OnHeap(j) \/ wbItem[j].uploading)
                BY <1>2, <3>1, <4>1
            <4>3. j # i
                BY <2>3, <4>1, <4>2
            <4> QED BY <1>14, <2>2, <2>4, <4>1, <4>2, <4>3 DEF OnHeap
        <3> QED BY <1>16, <3>1
    <2>6. ASSUME NEW j \in Items, j # i, Cares(j)
          PROVE  Cares(j)'
        <3>1. upload'[j] = upload[j]
            BY <1>14, <2>2, <2>6
        <3>2. InHand(j) => InHand(j)'
            BY <1>14, <2>2
        <3> QED BY <2>4, <2>6, <3>1, <3>2 DEF Cares, OnHeap
    <2>7. ASSUME Cares(i), ~upload[i][n]
          PROVE  Cares(i)'
        <3>1. (\E k \in DOMAIN upload[i] : upload[i][k]) => \E m \in DOMAIN upload'[i] : upload'[i][m]
            BY <1>14, <2>2, <2>7
        <3>2. InHand(i) => InHand(i)'
            BY <1>14, <2>2
        <3> QED BY <2>4, <2>7, <3>1, <3>2 DEF Cares, OnHeap
    <2>8. ASSUME NEW id \in Ids, file'[id].wanted, ~file'[id].saved
          PROVE  InMind(id)'
        <3>1. PICK f \in FileType : f = file[own]
            BY <1>1
        <3>2. PICK b \in BOOLEAN : b = (f.saved \/ upload[i][n])
            OBVIOUS
        <3>3. file' = [file EXCEPT ![own] = [f EXCEPT !.saved = b]]
            BY <2>2, <2>3, <3>1, <3>2
        <3>4. [f EXCEPT !.saved = b].wanted = f.wanted /\ [f EXCEPT !.saved = b].saved = b
            BY DEF FileType
        <3>5. id # own => file'[id] = file[id]
            BY <1>1, <3>3
        <3>6. id = own => file'[id] = [f EXCEPT !.saved = b]
            BY <1>1, <3>3
        <3>7. file[id].wanted /\ ~file[id].saved /\ (id = own => ~upload[i][n])
            BY <2>8, <3>1, <3>2, <3>4, <3>5, <3>6
        <3>8. InMind(id)
            BY <3>7, InMindIs
        <3>9. ASSUME NEW j \in Items, wbItem[j].id = id, Cares(j)
              PROVE  wbItem'[j].id = id /\ Cares(j)'
            BY <1>14, <2>2, <2>3, <2>6, <2>7, <3>7, <3>9
        <3> QED BY <3>8, <3>9, MindKept
    <2> QED BY <2>5, <2>8, InMindNext
<1>18. ASSUME NEW id \in Ids, Modified(id), NEW a \in Ids, a # id, file'[a].wanted, ~file'[a].saved,
              \A j \in Items : OnHeap(j) => OnHeap(j)', \A j \in Items : InHand(j) => InHand(j)',
              \A j \in Items : Cares(j) => wbItem'[j].id = wbItem[j].id
       PROVE  InMind(a)'
    <2>1. file'[a] = file[a]
        BY <1>1, <1>18, ModifiedIs
    <2>2. InMind(a)
        BY <1>18, <2>1, InMindIs
    <2>3. ASSUME NEW j \in Items, wbItem[j].id = a, Cares(j)
          PROVE  wbItem'[j].id = a /\ Cares(j)'
        <3>1. /\ DOMAIN upload'[j] = DOMAIN upload[j]
              /\ \A n \in DOMAIN upload[j] : upload[j][n] => upload'[j][n]
            BY <1>1, <1>18, <2>3, ModifiedIs
        <3>2. (\E n \in DOMAIN upload[j] : upload[j][n]) => \E n \in DOMAIN upload'[j] : upload'[j][n]
            BY <3>1
        <3> QED BY <1>18, <2>3, <3>2 DEF Cares
    <2> QED BY <2>2, <2>3, MindKept
<1>19. ASSUME NEW c \in Callers, AddNew(c)
       PROVE  Known' /\ NothingIsForgotten'
    <2>1. PICK id \in Ids, i \in Items :
             /\ ~Referenced(i)
             /\ lookup' = [lookup EXCEPT ![id] = i]
             /\ wbItem' = [wbItem EXCEPT ![i] = [Unused EXCEPT !.id = id, !.name = id]]
             /\ \E q \in Later(queue, i) : Requeue(q, {i})
             /\ Modified(id)
        BY <1>19 DEF AddNew
    <2>2. wbItem'[i].id = id /\ \A j \in Items : j # i => wbItem'[j] = wbItem[j]
        <3>1. [Unused EXCEPT !.id = id, !.name = id].id = id
            BY DEF Unused
        <3> QED BY <1>1, <2>1, <3>1
    <2>3. (\A j \in Items : OnHeap(j) => OnHeap(j)') /\ OnHeap(i)'
        BY <1>8, <2>1
    <2>4. \A j \in Items : InHand(j) => InHand(j)'
        BY <1>5, <1>19 DEF AddNew
    <2>5. i \notin Range(lookup) /\ ~Cares(i)
        <3>1. PICK t \in Seq(BOOLEAN) : t = upload[i]
            BY <1>1 DEF Uploads
        <3>2. t = <<>>
            BY <2>1, <3>1 DEF Referenced
        <3>3. DOMAIN t = {}
            BY <3>2
        <3> QED BY <2>1, <3>1, <3>3 DEF Referenced, Cares, InHand
    <2>6. Known'
        <3>1. ASSUME NEW a \in Ids, lookup'[a] # NoItem
              PROVE  \E j \in Items : /\ j = lookup'[a] /\ wbItem'[j].id = a
                                      /\ Held(queue', j) \/ wbItem'[j].uploading
            <4>1. CASE a = id
                BY <1>1, <2>1, <2>2, <2>3, <4>1 DEF OnHeap
            <4>2. CASE a # id
                <5>1. lookup'[a] = lookup[a] /\ lookup[a] \in Range(lookup)
                    BY <1>1, <2>1, <4>2 DEF Range
                <5>2. PICK j \in Items : j = lookup[a] /\ wbItem[j].id = a /\ (OnHeap(j) \/ wbItem[j].uploading)
                    BY <1>2, <3>1, <5>1
                <5> QED BY <2>2, <2>3, <2>5, <5>1, <5>2 DEF OnHeap
            <4> QED BY <4>1, <4>2
        <3> QED BY <1>16, <3>1
    <2>7. ASSUME NEW a \in Ids, file'[a].wanted, ~file'[a].saved
          PROVE  InMind(a)'
        <3>1. CASE a = id
            BY <2>2, <2>3, <3>1, MindOf DEF Cares
        <3>2. CASE a # id
            BY <1>18, <2>1, <2>2, <2>3, <2>4, <2>5, <2>7, <3>2
        <3> QED BY <3>1, <3>2
    <2> QED BY <2>6, <2>7, InMindNext
<1>20. ASSUME NEW id \in Ids, lookup[id] # NoItem, Modified(id), lookup' = lookup, wbItem' = wbItem,
              \A j \in Items : OnHeap(j) => OnHeap(j)', \A j \in Items : InHand(j) => InHand(j)',
              OnHeap(lookup[id]) \/ \A i \in Items : i = lookup[id] => InHand(i)'
       PROVE  Known' /\ NothingIsForgotten'
    <2>1. PICK i \in Items : i = lookup[id] /\ wbItem[i].id = id
        BY <1>2, <1>20
    <2>2. Cares(i)'
        BY <1>20, <2>1 DEF Cares
    <2>3. Known'
        <3>1. ASSUME NEW a \in Ids, lookup'[a] # NoItem
              PROVE  \E j \in Items : /\ j = lookup'[a] /\ wbItem'[j].id = a
                                      /\ Held(queue', j) \/ wbItem'[j].uploading
            BY <1>2, <1>20, <3>1 DEF OnHeap
        <3> QED BY <1>16, <3>1
    <2>4. ASSUME NEW a \in Ids, file'[a].wanted, ~file'[a].saved
          PROVE  InMind(a)'
        <3>1. CASE a = id
            BY <1>20, <2>1, <2>2, <3>1, MindOf
        <3>2. CASE a # id
            BY <1>18, <1>20, <2>4, <3>2
        <3> QED BY <3>1, <3>2
    <2> QED BY <2>3, <2>4, InMindNext
<1>21. ASSUME NEW c \in Callers, AddKnown(c)
       PROVE  Known' /\ NothingIsForgotten'
    <2>1. PICK id \in Ids, modified \in BOOLEAN :
             /\ lookup[id] # NoItem /\ ~(wbItem[lookup[id]].uploading /\ modified)
             /\ \E q \in Updated(queue, lookup[id]) : Requeue(q, {lookup[id]})
             /\ IF modified THEN Modified(id) ELSE UNCHANGED <<upload, file>>
        BY <1>21 DEF AddKnown
    <2>2. PICK i \in Items : i = lookup[id] /\ wbItem[i].id = id /\ (OnHeap(i) \/ wbItem[i].uploading)
        BY <1>2, <2>1
    <2>3. \A j \in Items : OnHeap(j) => OnHeap(j)'
        BY <1>8, <2>1, <2>2
    <2>4. \A j \in Items : InHand(j) => InHand(j)'
        BY <1>5, <1>21 DEF AddKnown
    <2>5. lookup' = lookup /\ wbItem' = wbItem
        BY <1>21 DEF AddKnown
    <2>6. CASE modified
        BY <1>20, <2>1, <2>2, <2>3, <2>4, <2>5, <2>6
    <2>7. CASE ~modified
        BY <1>1, <2>1, <2>3, <2>4, <2>5, <2>7, RememberSame
    <2> QED BY <2>6, <2>7
<1>22. ASSUME NEW c \in Callers, AddCancels(c)
       PROVE  Known' /\ NothingIsForgotten'
    <2>1. PICK id \in Ids :
             /\ lookup[id] # NoItem /\ Modified(id)
             /\ CancelUpload(c, Waits("addWaits", lookup[id]))
        BY <1>22 DEF AddCancels
    <2>2. PICK i \in Items : i = lookup[id]
        BY <1>2, <2>1
    <2>3. /\ caller' = [caller EXCEPT ![c] = Waits("addWaits", i)]
          /\ queue' = queue /\ lookup' = lookup /\ wbItem' = wbItem
        BY <2>1, <2>2 DEF CancelUpload
    <2>4. Call(c, "Add") /\ Waits("addWaits", i).item = i
        BY <1>22 DEF AddCancels, Waits, Returned
    <2>5. (\A j \in Items : InHand(j) => InHand(j)') /\ InHand(i)'
        <3>1. InHand(i)'
            BY <1>1, <2>3, <2>4, HandsKept
        <3> QED BY <1>4, <2>3, <2>4, <3>1
    <2>6. \A j \in Items : OnHeap(j) => OnHeap(j)'
        BY <1>6, <2>3
    <2>7. \A j \in Items : j = lookup[id] => InHand(j)'
        BY <2>2, <2>5
    <2> QED BY <1>20, <2>1, <2>3, <2>5, <2>6, <2>7
<1>23. ASSUME NEW c \in Callers, NEW what, NEW r, Call(c, what), CancelUpload(c, r), upload' = upload, file' = file
       PROVE  Known' /\ NothingIsForgotten'
    <2>1. \A j \in Items : InHand(j) => InHand(j)'
        BY <1>4, <1>23 DEF CancelUpload
    <2>2. \A j \in Items : OnHeap(j) => OnHeap(j)'
        BY <1>6, <1>23 DEF CancelUpload
    <2> QED BY <1>1, <1>23, <2>1, <2>2, RememberSame DEF CancelUpload
<1>24. ASSUME NEW c \in Callers, RemoveCancels(c)
       PROVE  Known' /\ NothingIsForgotten'
    BY <1>23, <1>24 DEF RemoveCancels
<1>25. ASSUME NEW ids, Unwanted(ids), NEW a \in Ids, file'[a].wanted, ~file'[a].saved
       PROVE  a \notin ids /\ InMind(a)
    BY <1>1, <1>25, UnwantedIs, InMindIs
<1>26. ASSUME NEW i \in Items, Removed(i), Unwanted({wbItem[i].id}), wbItem' = wbItem, upload' = upload,
              \A j \in Items \ {i} : InHand(j) => InHand(j)'
       PROVE  Known' /\ NothingIsForgotten'
    <2>1. PICK id \in Ids : id = wbItem[i].id
        BY <1>1 DEF ItemType
    <2>2. \A j \in Items \ {i} : OnHeap(j) => OnHeap(j)'
        BY <1>1, <1>26, TakenOff DEF Removed, Requeue, OnHeap
    <2>3. lookup' = [lookup EXCEPT ![id] = NoItem]
        BY <1>26, <2>1 DEF Removed
    <2>4. Known'
        <3>1. ASSUME NEW a \in Ids, lookup'[a] # NoItem
              PROVE  \E j \in Items : /\ j = lookup'[a] /\ wbItem'[j].id = a
                                      /\ Held(queue', j) \/ wbItem'[j].uploading
            <4>1. a # id /\ lookup'[a] = lookup[a]
                BY <1>1, <2>3, <3>1
            <4>2. PICK j \in Items : j = lookup[a] /\ wbItem[j].id = a /\ (OnHeap(j) \/ wbItem[j].uploading)
                BY <1>2, <3>1, <4>1
            <4>3. j # i
                BY <2>1, <4>1, <4>2
            <4> QED BY <1>26, <2>2, <4>1, <4>2, <4>3 DEF OnHeap
        <3> QED BY <1>16, <3>1
    <2>5. ASSUME NEW a \in Ids, file'[a].wanted, ~file'[a].saved
          PROVE  InMind(a)'
        <3>1. a # id /\ InMind(a)
            BY <1>25, <1>26, <2>1, <2>5
        <3>2. ASSUME NEW j \in Items, wbItem[j].id = a, Cares(j)
              PROVE  wbItem'[j].id = a /\ Cares(j)'
            <4>1. j # i
                BY <2>1, <3>1, <3>2
            <4> QED BY <1>26, <2>2, <3>2, <4>1 DEF Cares
        <3> QED BY <3>1, <3>2, MindKept
    <2> QED BY <2>4, <2>5, InMindNext
<1>27. ASSUME NEW c \in Callers, RemoveNow(c)
       PROVE  Known' /\ NothingIsForgotten'
    <2>1. PICK id \in Ids :
             /\ IF lookup[id] = NoItem THEN Requeue(queue, {}) /\ UNCHANGED lookup
                ELSE ~wbItem[lookup[id]].uploading /\ Removed(lookup[id])
             /\ Unwanted({id})
        BY <1>27 DEF RemoveNow
    <2>2. (\A j \in Items : InHand(j) => InHand(j)') /\ wbItem' = wbItem /\ upload' = upload
        BY <1>5, <1>27 DEF RemoveNow
    <2>3. CASE lookup[id] # NoItem
        BY <1>2, <1>26, <2>1, <2>2, <2>3
    <2>4. CASE lookup[id] = NoItem
        <3>1. queue' = queue /\ lookup' = lookup
            BY <2>1, <2>4 DEF Requeue
        <3>2. Known'
            BY <2>2, <3>1 DEF Known, OnHeap
        <3>3. ASSUME NEW a \in Ids, file'[a].wanted, ~file'[a].saved
              PROVE  InMind(a)'
            <4>1. InMind(a)
                BY <1>25, <2>1, <3>3
            <4>2. \A j \in Items : Cares(j) => Cares(j)'
                BY <2>2, <3>1 DEF Cares, OnHeap
            <4> QED BY <2>2, <4>1, <4>2, MindKept
        <3> QED BY <3>2, <3>3, InMindNext
    <2> QED BY <2>3, <2>4
<1>28. ASSUME NEW c \in Callers, RenameUnknown(c)
       PROVE  Known' /\ NothingIsForgotten'
    <2>1. (\A j \in Items : InHand(j) => InHand(j)') /\ \A j \in Items : OnHeap(j) => OnHeap(j)'
        BY <1>5, <1>6, <1>28 DEF RenameUnknown
    <2> QED BY <1>1, <1>28, <2>1, RememberSame DEF RenameUnknown
<1>29. \A a \in Ids : lookup[a] # NoItem => lookup[a] = lookup[a] /\ lookup[a] \notin {}
    OBVIOUS
<1>30. ASSUME NEW c \in Callers, Rename(c)
       PROVE  Known' /\ NothingIsForgotten'
    <2>1. Call(c, "Rename")
        BY <1>30 DEF Rename
    <2>2. PICK to \in Ids, i \in Items :
             IF wbItem[i].uploading
             THEN /\ CancelUpload(c, [Waits("renameWaits", i) EXCEPT !.to = to])
                  /\ UNCHANGED <<upload, file>>
             ELSE RenameOn(c, i, to, Namesakes(i, to), queue, lookup, {})
        BY <1>2, <1>30 DEF Rename
    <2>3. CASE wbItem[i].uploading
        BY <1>23, <2>1, <2>2, <2>3
    <2>4. CASE ~wbItem[i].uploading
        <3>1. Namesakes(i, to) \in SUBSET Items
            BY <1>1, Namesake
        <3>2. RenameOn(c, i, to, Namesakes(i, to), queue, lookup, {})
            BY <2>2, <2>4
        <3>3. \A j \in Items : caller[c].item = j => Held(queue, j) \/ j \in {}
            BY <1>3, <2>1
        <3>4. \A j \in Items \ {} : OnHeap(j) => Held(queue, j)
            BY DEF OnHeap
        <3> QED BY <1>1, <1>29, <3>1, <3>2, <3>3, <3>4, RenameRemembers
    <2> QED BY <2>3, <2>4
<1>31. ASSUME NEW c \in Callers, SetExpiry(c)
       PROVE  Known' /\ NothingIsForgotten'
    <2>1. PICK i \in Items :
             \E q \in Updated(queue, i) \cup (IF OnHeap(i) THEN Sooner(queue, i) ELSE {}) : Requeue(q, {i})
        BY <1>2, <1>31 DEF SetExpiry
    <2>2. PICK q : (q \in Updated(queue, i) \/ q \in Sooner(queue, i)) /\ Requeue(q, {i})
        BY <2>1
    <2>3. (\A j \in Items : InHand(j) => InHand(j)') /\ \A j \in Items : OnHeap(j) => OnHeap(j)'
        BY <1>5, <1>8, <1>31, <2>2 DEF SetExpiry
    <2> QED BY <1>1, <1>31, <2>3, RememberSame DEF SetExpiry
<1>32. ASSUME NEW c \in Callers, NEW pc \in Resuming, caller[c].pc = pc
       PROVE  /\ caller[c].item \in Items /\ caller[c].to \in Ids /\ caller[c].todo \in SUBSET Items
              /\ pc = "namesakeAgain" => caller[c].renamed \in Items
    <2>1. PICK m \in CallerType : m = caller[c]
        BY <1>1
    <2> QED BY <1>32, <2>1 DEF CallerType, Resuming, AnItem
<1>33. ASSUME NEW c \in Callers, AddResumes(c)
       PROVE  Known' /\ NothingIsForgotten'
    <2>1. PICK i \in Items : i = caller[c].item
        BY <1>32, <1>33 DEF AddResumes, Resuming
    <2>2. (\A j \in Items : OnHeap(j) => OnHeap(j)') /\ OnHeap(i)'
        BY <1>8, <1>33, <2>1 DEF AddResumes
    <2>3. \A j \in Items : InHand(j) => InHand(j)' \/ OnHeap(j)'
        BY <1>1, <1>33, <2>1, <2>2, HandsKept DEF AddResumes, Goes
    <2> QED BY <1>1, <1>33, <2>2, <2>3, RememberSame DEF AddResumes
<1>34. ASSUME NEW c \in Callers, RemoveResumes(c)
       PROVE  Known' /\ NothingIsForgotten'
    <2>1. PICK i \in Items : i = caller[c].item
        BY <1>32, <1>34 DEF RemoveResumes, Resuming
    <2>2. \A j \in Items \ {i} : InHand(j) => InHand(j)'
        BY <1>1, <1>34, <2>1, HandsKept DEF RemoveResumes, Goes
    <2> QED BY <1>26, <1>34, <2>1, <2>2 DEF RemoveResumes
<1>35. ASSUME NEW c \in Callers, RenameResumes(c)
       PROVE  Known' /\ NothingIsForgotten'
    <2>1. PICK i \in Items, to \in Ids : i = caller[c].item /\ to = caller[c].to
        BY <1>32, <1>35 DEF RenameResumes, Resuming
    <2>2. PICK q : q = IF OnHeap(i) THEN queue ELSE [heap |-> <<i>> \o queue.heap, due |-> queue.due + 1]
        OBVIOUS
    <2>3. GoodQueue(q) /\ Held(q, i) /\ \A j \in Items \ {} : OnHeap(j) => Held(q, j)
        BY <1>1, <2>2, PutInFront DEF OnHeap
    <2>4. RenameOn(c, i, to, Namesakes(i, to), q, lookup, {})
        BY <1>35, <2>1, <2>2 DEF RenameResumes
    <2>5. Namesakes(i, to) \in SUBSET Items
        BY <1>1, Namesake
    <2>6. \A j \in Items : caller[c].item = j => Held(q, j) \/ j \in {}
        BY <2>1, <2>3
    <2> QED BY <1>1, <1>29, <2>3, <2>4, <2>5, <2>6, RenameRemembers
<1>36. ASSUME NEW c \in Callers, NamesakeResumes(c)
       PROVE  Known' /\ NothingIsForgotten'
    <2>1. PICK i \in Items, j \in Items, to \in Ids, todo \in SUBSET Items :
             i = caller[c].renamed /\ j = caller[c].item /\ to = caller[c].to /\ todo = caller[c].todo
        BY <1>32, <1>36 DEF NamesakeResumes, Resuming
    <2>2. PICK l \in [Ids -> AnItem] : l = [lookup EXCEPT ![wbItem[j].id] = NoItem]
        BY <1>1 DEF AnItem
    <2>3. GoodQueue(Without(queue, j)) /\ \A k \in Items \ {j} : OnHeap(k) => Held(Without(queue, j), k)
        BY <1>1, TakenOff DEF OnHeap
    <2>4. RenameOn(c, i, to, todo \cap Namesakes(i, to), Without(queue, j), l, {j})
        BY <1>36, <2>1, <2>2 DEF NamesakeResumes
    <2>5. todo \cap Namesakes(i, to) \in SUBSET Items
        OBVIOUS
    <2>6. ASSUME NEW a \in Ids, l[a] # NoItem
          PROVE  l[a] = lookup[a] /\ l[a] \notin {j}
        <3>1. a # wbItem[j].id /\ l[a] = lookup[a]
            BY <1>1, <2>2, <2>6
        <3> QED BY <1>2, <2>6, <3>1
    <2>7. \A k \in Items : caller[c].item = k => Held(Without(queue, j), k) \/ k \in {j}
        BY <2>1
    <2>8. {j} \in SUBSET Items
        OBVIOUS
    <2> QED BY <1>1, <2>3, <2>4, <2>5, <2>6, <2>7, <2>8, RenameRemembers
<1>37. CASE vars' = vars
    BY <1>1, <1>6, <1>7, <1>37, RememberSame DEF vars
<1> QED BY <1>11, <1>12, <1>13, <1>15, <1>17, <1>19, <1>21, <1>22, <1>24, <1>27, <1>28, <1>30, <1>31,
           <1>33, <1>34, <1>35, <1>36, <1>37 DEF Next, Resume

\* However calls, uploads and the timer interleave, whoever gives the lock up in between: a
\* file that was added is not lost from sight before it is saved as it is.
THEOREM NothingForgotten == Spec => []NothingIsForgotten
<1>1. Init => Known /\ NothingIsForgotten
    BY DEF Init, Known, NothingIsForgotten
<1> QED BY <1>1, TypedInit, TypedNext, RememberNext, PTL DEF Spec

-------------------------------------------------------------------------------
(* Queue and uploads *)

\* The uploads of an item, its done and its place on the heap.
UploadRight(i) ==
    /\ Len(upload[i]) = (IF wbItem[i].uploading THEN 1 ELSE 0)
    /\ OnHeap(i) => ~wbItem[i].uploading
    /\ wbItem[i].uploading => ~wbItem[i].closed

\* Whoever waits, waits for an upload that runs; whoever has been woken holds an item that is
\* not uploaded again before it has the lock.
WaitRight(c) ==
    /\ caller[c].pc \in Waiting => wbItem[caller[c].item].uploading
    /\ caller[c].pc \in Resuming => ~wbItem[caller[c].item].uploading

Sound == (\A i \in Items : UploadRight(i)) /\ \A c \in Callers : WaitRight(c)

\* What a caller comes to.
MayBe(r) == r.pc = "idle" \/ (r.pc \in Waiting /\ wbItem[r.item].uploading)

\* Steps that start and end no upload.
LEMMA SoundSame ==
    ASSUME Typed, Sound, CallersTyped',
           \A i \in Items : /\ wbItem'[i].uploading = wbItem[i].uploading /\ wbItem'[i].closed = wbItem[i].closed
                            /\ Len(upload'[i]) = Len(upload[i])
                            /\ OnHeap(i)' => OnHeap(i) \/ ~wbItem[i].uploading,
           \A c \in Callers : caller'[c] = caller[c] \/ MayBe(caller'[c])
    PROVE  Sound'
<1>1. ASSUME NEW i \in Items
      PROVE  UploadRight(i)'
    BY <1>1 DEF Sound, UploadRight
<1>2. ASSUME NEW c \in Callers
      PROVE  WaitRight(c)'
    <2>1. PICK r \in CallerType : r = caller'[c]
        BY DEF CallersTyped
    <2>2. r.pc \in Waiting \cup Resuming => r.item \in Items
        BY <2>1 DEF CallerType, AnItem, Waiting, Resuming
    <2>3. CASE r = caller[c]
        BY <2>1, <2>2, <2>3 DEF Sound, WaitRight
    <2>4. CASE MayBe(r)
        BY <2>1, <2>2, <2>4 DEF MayBe, WaitRight, Waiting, Resuming
    <2> QED BY <2>1, <2>3, <2>4
<1> QED BY <1>1, <1>2 DEF Sound

\* What Rename removes is off the heap, and what it waits for is uploading.
LEMMA RenameSound ==
    ASSUME Typed, Typed', Sound, NEW c \in Callers, NEW i \in Items, NEW to \in Ids, NEW todo \in SUBSET Items,
           NEW q, GoodQueue(q), NEW l, NEW removed, RenameOn(c, i, to, todo, q, l, removed),
           \A j \in Items : Held(q, j) => OnHeap(j) \/ ~wbItem[j].uploading
    PROVE  Sound'
<1>1. RenameGoesOn(c, i, to, todo, q, l, removed)
    BY RenameOnIs
<1>2. PICK gone \in SUBSET Unbusy(todo), moved \in {{}, {i}} :
          \E p : RenameComes(c, i, to, todo, q, l, removed, gone, p, moved)
    BY <1>1 DEF RenameGoesOn
<1>3. PICK p : RenameComes(c, i, to, todo, q, l, removed, gone, p, moved)
    BY <1>2
<1>4. wbItem \in [Items -> ItemType] /\ CallersTyped /\ CallersTyped'
    BY DEF Typed, ItemsTyped
<1>5. /\ queue' = p /\ (\A j : Held(p, j) <=> Held(q, j) /\ j \notin gone)
      /\ upload' = upload
    BY <1>3 DEF RenameComes, Requeue
<1>6. \A j \in Items : wbItem'[j].uploading = wbItem[j].uploading /\ wbItem'[j].closed = wbItem[j].closed
    <2>1. CASE wbItem' = [wbItem EXCEPT ![i].name = to]
        <3>1. PICK m \in ItemType : m = wbItem[i]
            BY <1>4
        <3>2. wbItem' = [wbItem EXCEPT ![i] = [m EXCEPT !.name = to]]
            BY <2>1, <3>1
        <3>3. /\ [m EXCEPT !.name = to].uploading = m.uploading
              /\ [m EXCEPT !.name = to].closed = m.closed
            BY DEF ItemType
        <3> QED BY <1>4, <3>1, <3>2, <3>3
    <2>2. CASE wbItem' = wbItem
        BY <2>2
    <2> QED BY <1>3, <2>1, <2>2 DEF RenameComes
<1>7. \A d \in Callers : caller'[d] = caller[d] \/ MayBe(caller'[d])
    <2>1. PICK r : caller' = [caller EXCEPT ![c] = r] /\ MayBe(r)
        <3>1. CASE caller' = [caller EXCEPT ![c] = Returned]
            <4>1. MayBe(Returned)
                BY DEF MayBe, Returned
            <4> QED BY <3>1, <4>1
        <3>2. CASE \E j \in todo, rest \in SUBSET todo :
                     /\ wbItem[j].uploading /\ wbItem' = wbItem
                     /\ caller' = [caller EXCEPT ![c] = [pc |-> "namesakeWaits", item |-> j, renamed |-> i,
                                                         to |-> to, todo |-> rest]]
            <4>1. PICK j \in todo, rest \in SUBSET todo :
                     /\ wbItem[j].uploading
                     /\ caller' = [caller EXCEPT ![c] = [pc |-> "namesakeWaits", item |-> j, renamed |-> i,
                                                         to |-> to, todo |-> rest]]
                BY <3>2
            <4>2. PICK r : r = [pc |-> "namesakeWaits", item |-> j, renamed |-> i, to |-> to, todo |-> rest]
                OBVIOUS
            <4>3. r.pc = "namesakeWaits" /\ r.item = j
                BY <4>2
            <4>4. MayBe(r)
                BY <4>1, <4>3 DEF MayBe, Waiting
            <4> QED BY <4>1, <4>2, <4>4
        <3> QED BY <1>3, <3>1, <3>2 DEF RenameComes
    <2>2. caller \in [Callers -> CallerType]
        BY <1>4 DEF CallersTyped
    <2> QED BY <2>1, <2>2
<1>8. \A j \in Items : OnHeap(j)' => OnHeap(j) \/ ~wbItem[j].uploading
    BY <1>5 DEF OnHeap
<1> QED BY <1>4, <1>5, <1>6, <1>7, <1>8, SoundSame

\* No step starts an upload that runs, or queues what is uploaded.
LEMMA SoundNext ==
    ASSUME Prompt, Typed, Typed', Sound, [Next]_vars
    PROVE  Sound'
<1>1. /\ QueueTyped /\ ItemsTyped /\ UploadsTyped /\ CallersTyped /\ RestTyped /\ CallersTyped'
      /\ GoodQueue(queue) /\ lookup \in [Ids -> AnItem] /\ wbItem \in [Items -> ItemType]
      /\ upload \in Uploads /\ caller \in [Callers -> CallerType] /\ file \in [Ids -> FileType]
    BY DEF Typed, QueueTyped, ItemsTyped, UploadsTyped, CallersTyped, RestTyped
<1> USE ItemsAre
<1>2. ASSUME NEW id \in Ids, lookup[id] # NoItem
      PROVE  lookup[id] \in Items
    BY <1>1, <1>2 DEF AnItem
<1>3. ASSUME NEW c \in Callers, NEW r, MayBe(r), caller' = [caller EXCEPT ![c] = r]
      PROVE  \A d \in Callers : caller'[d] = caller[d] \/ MayBe(caller'[d])
    BY <1>1, <1>3
<1>4. MayBe(Returned)
    BY DEF MayBe, Returned
<1>5. ASSUME NEW c \in Callers, Goes(c, Returned)
      PROVE  \A d \in Callers : caller'[d] = caller[d] \/ MayBe(caller'[d])
    BY <1>3, <1>4, <1>5 DEF Goes
<1>6. ASSUME wbItem' = wbItem, \A i \in Items : Len(upload'[i]) = Len(upload[i]),
             \A i \in Items : OnHeap(i)' => OnHeap(i) \/ ~wbItem[i].uploading,
             \A d \in Callers : caller'[d] = caller[d] \/ MayBe(caller'[d])
      PROVE  Sound'
    BY <1>1, <1>6, SoundSame
<1>7. ASSUME NEW i \in Items, NEW q, q \in Later(queue, i) \/ q \in Sooner(queue, i) \/ q \in Updated(queue, i),
             NEW moved, Requeue(q, moved), OnHeap(i) \/ ~wbItem[i].uploading \/ q \in Updated(queue, i)
      PROVE  \A j \in Items : OnHeap(j)' => OnHeap(j) \/ ~wbItem[j].uploading
    <2>1. queue' = q
        BY <1>7 DEF Requeue
    <2>2. CASE q \in Updated(queue, i)
        BY <1>1, <2>1, <2>2, UpdatedIs DEF OnHeap
    <2>3. CASE q \in Later(queue, i) \/ q \in Sooner(queue, i)
        <3>1. \A j : Held(q, j) <=> Held(queue, j) \/ j = i
            BY <1>1, <2>3, LaterIs, SoonerIs
        <3>2. OnHeap(i) \/ ~wbItem[i].uploading \/ q \in Updated(queue, i)
            BY <1>7
        <3> QED BY <2>1, <2>2, <3>1, <3>2 DEF OnHeap
    <2> QED BY <1>7, <2>2, <2>3
<1>8. ASSUME queue' = queue
      PROVE  \A j \in Items : OnHeap(j)' => OnHeap(j) \/ ~wbItem[j].uploading
    BY <1>8 DEF OnHeap
<1>9. CASE TimePasses
    <2>1. PICK h \in Seq(Items), d \in Nat : queue = [heap |-> h, due |-> d]
        BY <1>1 DEF GoodQueue
    <2>2. queue' = [heap |-> h, due |-> d + 1]
        BY <1>9, <2>1 DEF TimePasses
    <2>3. \A j \in Items : OnHeap(j)' => OnHeap(j) \/ ~wbItem[j].uploading
        BY <2>1, <2>2 DEF OnHeap, Held
    <2> QED BY <1>6, <1>9, <2>3 DEF TimePasses
<1>10. CASE TimerFires
    BY <1>6, <1>8, <1>10 DEF TimerFires
<1>11. CASE ProcessItems
    <2>1. PICK n : n = Len(Startable)
        OBVIOUS
    <2>2. PICK q : q = Left(n)
        OBVIOUS
    <2>3. /\ Startable \in Seq(Items)
          /\ \A j \in Range(Startable) : HasExpired(queue, j)
          /\ \A j : Held(q, j) <=> Held(queue, j) /\ j \notin Range(Startable)
        BY <1>1, <2>1, <2>2, UploadsAre, StartableIs
    <2>4. PICK s \in Seq(Items) : s = Startable
        BY <2>3
    <2>5. /\ queue' = q /\ caller' = caller
          /\ upload' = [i \in Items |-> IF i \in Range(s) THEN Append(upload[i], TRUE) ELSE upload[i]]
          /\ wbItem' = [i \in Items |->
                 IF i \in Range(s) THEN [wbItem[i] EXCEPT !.uploading = TRUE, !.closed = FALSE]
                 ELSE wbItem[i]]
          /\ \A c \in Callers : caller[c].item \in Range(s) => caller[c].pc \in Waiting
        BY <1>11, <2>1, <2>2, <2>4, WaitingIs DEF ProcessItems, Left, InTime
    <2>6. ASSUME NEW i \in Items, i \in Range(s)
          PROVE  ~wbItem[i].uploading /\ wbItem'[i].uploading /\ UploadRight(i)'
        <3>1. OnHeap(i) /\ ~OnHeap(i)'
            BY <1>1, <2>3, <2>4, <2>5, <2>6, Places DEF OnHeap
        <3>2. ~wbItem[i].uploading /\ Len(upload[i]) = 0
            BY <3>1 DEF Sound, UploadRight
        <3>3. PICK t \in Seq(BOOLEAN) : t = upload[i]
            BY <1>1 DEF Uploads
        <3>4. Len(upload'[i]) = 1
            <4>1. upload'[i] = Append(t, TRUE)
                BY <2>5, <2>6, <3>3
            <4>2. Len(Append(t, TRUE)) = Len(t) + 1
                BY AppendProperties
            <4> QED BY <3>2, <3>3, <4>1, <4>2
        <3>5. PICK m \in ItemType : m = wbItem[i]
            BY <1>1
        <3>6. /\ [m EXCEPT !.uploading = TRUE, !.closed = FALSE].uploading = TRUE
              /\ [m EXCEPT !.uploading = TRUE, !.closed = FALSE].closed = FALSE
            BY DEF ItemType
        <3>7. wbItem'[i] = [m EXCEPT !.uploading = TRUE, !.closed = FALSE]
            BY <2>5, <2>6, <3>5
        <3> QED BY <3>1, <3>2, <3>4, <3>6, <3>7 DEF UploadRight
    <2>7. ASSUME NEW i \in Items, i \notin Range(s)
          PROVE  wbItem'[i] = wbItem[i] /\ UploadRight(i)'
        BY <2>3, <2>4, <2>5, <2>7 DEF OnHeap, Sound, UploadRight
    <2>8. ASSUME NEW c \in Callers
          PROVE  WaitRight(c)'
        <3>1. PICK r \in CallerType : r = caller[c]
            BY <1>1
        <3>2. r.pc \in Waiting \cup Resuming => r.item \in Items
            BY <3>1 DEF CallerType, AnItem, Waiting, Resuming
        <3>3. CASE r.item \in Range(s)
            <4>1. r.pc \in Waiting /\ r.item \in Items
                BY <2>5, <3>1, <3>2, <3>3
            <4> QED BY <2>5, <2>6, <3>1, <3>3, <4>1 DEF WaitRight, Waiting, Resuming
        <3>4. CASE r.item \notin Range(s)
            BY <2>5, <2>7, <3>1, <3>2, <3>4 DEF Sound, WaitRight
        <3> QED BY <3>3, <3>4
    <2> QED BY <2>6, <2>7, <2>8 DEF Sound
<1>12. ASSUME NEW i \in Items, NEW n \in DOMAIN upload[i], UploadEnds(i, n),
              \A j \in Items : OnHeap(j)' => OnHeap(j) \/ j = i
       PROVE  Sound'
    <2>1. PICK m \in ItemType : m = wbItem[i]
        BY <1>1
    <2>2. wbItem' = [wbItem EXCEPT ![i] = [m EXCEPT !.uploading = FALSE, !.closed = TRUE]]
        BY <1>12, <2>1 DEF UploadEnds
    <2>3. ~[m EXCEPT !.uploading = FALSE, !.closed = TRUE].uploading
        BY DEF ItemType
    <2>4. ~wbItem'[i].uploading /\ \A j \in Items : j # i => wbItem'[j] = wbItem[j]
        BY <1>1, <2>2, <2>3
    <2>5. upload' = [upload EXCEPT ![i] = RemoveAt(@, n)]
        BY <1>12 DEF UploadEnds
    <2>6. PICK t \in Seq(BOOLEAN) : t = upload[i]
        BY <1>1 DEF Uploads
    <2>7. n \in 1 .. Len(t) /\ Len(t) \in Nat
        BY <2>6, LenProperties
    <2>8. Len(RemoveAt(t, n)) = Len(t) - 1
        BY <2>7, RemoveAtIs
    <2>9. Len(t) = IF wbItem[i].uploading THEN 1 ELSE 0
        BY <2>6 DEF Sound, UploadRight
    <2>10. Len(upload'[i]) = 0
        <3>1. upload'[i] = RemoveAt(t, n)
            BY <1>1, <2>5, <2>6 DEF Uploads
        <3>2. Len(t) = 1
            BY <2>7, <2>9
        <3> QED BY <2>8, <3>1, <3>2
    <2>11. UploadRight(i)'
        BY <2>4, <2>10 DEF UploadRight
    <2>12. ASSUME NEW j \in Items, j # i
           PROVE  UploadRight(j)'
        <3>1. upload'[j] = upload[j]
            BY <1>1, <2>5, <2>12 DEF Uploads
        <3> QED BY <1>12, <2>4, <2>12, <3>1 DEF Sound, UploadRight
    <2>13. ASSUME NEW c \in Callers
           PROVE  WaitRight(c)'
        <3>1. /\ caller'[c].item = caller[c].item
              /\ IF caller[c].item = i /\ caller[c].pc \in Waiting
                 THEN caller'[c].pc \in Resuming
                 ELSE caller'[c] = caller[c]
            BY <1>1, <1>12, WokenIs DEF UploadEnds
        <3>2. CASE caller[c].item = i
            <4>1. caller'[c].pc \notin Waiting
                BY <3>1, <3>2 DEF Waiting, Resuming
            <4> QED BY <2>4, <3>1, <3>2, <4>1 DEF WaitRight
        <3>3. CASE caller[c].item # i
            <4>1. PICK r \in CallerType : r = caller[c]
                BY <1>1
            <4>2. r.pc \in Waiting \cup Resuming => r.item \in Items
                BY <4>1 DEF CallerType, AnItem, Waiting, Resuming
            <4> QED BY <2>4, <3>1, <3>3, <4>1, <4>2 DEF Sound, WaitRight
        <3> QED BY <3>2, <3>3
    <2> QED BY <2>11, <2>12, <2>13 DEF Sound
<1>13. ASSUME NEW i \in Items, UploadFails(i) \/ UploadSucceeds(i)
       PROVE  Sound'
    <2>1. CASE UploadFails(i)
        <3>1. PICK n \in DOMAIN upload[i], q \in Later(queue, i) : UploadEnds(i, n) /\ Requeue(q, {i})
            BY <2>1 DEF UploadFails
        <3>2. \A j \in Items : OnHeap(j)' => OnHeap(j) \/ j = i
            BY <1>1, <3>1, LaterIs DEF Requeue, OnHeap
        <3> QED BY <1>12, <3>1, <3>2
    <2>2. CASE UploadSucceeds(i)
        <3>1. PICK n \in DOMAIN upload[i] : UploadEnds(i, n) /\ Requeue(queue, {})
            BY <2>2 DEF UploadSucceeds
        <3>2. \A j \in Items : OnHeap(j)' => OnHeap(j) \/ j = i
            BY <3>1 DEF Requeue, OnHeap
        <3> QED BY <1>12, <3>1, <3>2
    <2> QED BY <1>13, <2>1, <2>2
<1>14. ASSUME NEW id \in Ids, Modified(id)
       PROVE  \A i \in Items : Len(upload'[i]) = Len(upload[i])
    BY <1>1, <1>14, ModifiedIs
<1>15. ASSUME NEW c \in Callers, AddNew(c)
       PROVE  Sound'
    <2>1. PICK id \in Ids, i \in Items :
             /\ ~Referenced(i)
             /\ wbItem' = [wbItem EXCEPT ![i] = [Unused EXCEPT !.id = id, !.name = id]]
             /\ \E q \in Later(queue, i) : Requeue(q, {i})
             /\ Modified(id)
        BY <1>15 DEF AddNew
    <2>2. ~wbItem'[i].uploading /\ \A j \in Items : j # i => wbItem'[j] = wbItem[j]
        <3>1. ~[Unused EXCEPT !.id = id, !.name = id].uploading
            BY DEF Unused
        <3> QED BY <1>1, <2>1, <3>1
    <2>3. \A j \in Items : OnHeap(j)' => OnHeap(j) \/ j = i
        <3>1. PICK q \in Later(queue, i) : queue' = q
            BY <2>1 DEF Requeue
        <3> QED BY <1>1, <3>1, LaterIs DEF OnHeap
    <2>4. Len(upload'[i]) = 0 /\ \A j \in Items : Len(upload'[j]) = Len(upload[j])
        <3>1. PICK t \in Seq(BOOLEAN) : t = upload[i]
            BY <1>1 DEF Uploads
        <3>2. t = <<>>
            BY <2>1, <3>1 DEF Referenced
        <3>3. Len(t) = 0
            BY <3>2
        <3> QED BY <1>14, <2>1, <3>1, <3>3
    <2>5. ASSUME NEW j \in Items
          PROVE  UploadRight(j)'
        BY <2>2, <2>3, <2>4 DEF Sound, UploadRight
    <2>6. ASSUME NEW d \in Callers
          PROVE  WaitRight(d)'
        <3>1. caller'[d] = caller[d] \/ caller'[d] = Returned
            BY <1>1, <1>15 DEF AddNew, Goes
        <3>2. CASE caller'[d] = Returned
            BY <3>2 DEF WaitRight, Returned, Waiting, Resuming
        <3>3. CASE caller'[d] = caller[d]
            <4>1. PICK r \in CallerType : r = caller[d]
                BY <1>1
            <4>2. r.pc \in Waiting \cup Resuming => r.item \in Items
                BY <4>1 DEF CallerType, AnItem, Waiting, Resuming
            <4>3. r.item # i
                BY <2>1, <4>1 DEF Referenced
            <4> QED BY <2>2, <3>3, <4>1, <4>2, <4>3 DEF Sound, WaitRight
        <3> QED BY <3>1, <3>2, <3>3
    <2> QED BY <2>5, <2>6 DEF Sound
<1>16. ASSUME NEW c \in Callers, AddKnown(c)
       PROVE  Sound'
    <2>1. PICK id \in Ids, modified \in BOOLEAN, i \in Items :
             /\ \E q \in Updated(queue, i) : Requeue(q, {i})
             /\ IF modified THEN Modified(id) ELSE UNCHANGED <<upload, file>>
        BY <1>2, <1>16 DEF AddKnown
    <2>2. \A j \in Items : OnHeap(j)' => OnHeap(j) \/ ~wbItem[j].uploading
        BY <1>7, <2>1
    <2>3. \A j \in Items : Len(upload'[j]) = Len(upload[j])
        <3>1. CASE modified
            BY <1>14, <2>1, <3>1
        <3>2. CASE ~modified
            BY <2>1, <3>2
        <3> QED BY <3>1, <3>2
    <2> QED BY <1>5, <1>6, <1>16, <2>2, <2>3 DEF AddKnown
<1>17. ASSUME NEW c \in Callers, NEW r, CancelUpload(c, r), MayBe(r),
              \A j \in Items : Len(upload'[j]) = Len(upload[j])
       PROVE  Sound'
    <2>1. queue' = queue /\ wbItem' = wbItem /\ caller' = [caller EXCEPT ![c] = r]
        BY <1>17 DEF CancelUpload
    <2> QED BY <1>3, <1>6, <1>8, <1>17, <2>1
<1>18. ASSUME NEW c \in Callers, AddCancels(c)
       PROVE  Sound'
    <2>1. PICK id \in Ids :
             /\ wbItem[lookup[id]].uploading /\ Modified(id)
             /\ CancelUpload(c, Waits("addWaits", lookup[id]))
        BY <1>18 DEF AddCancels
    <2>2. MayBe(Waits("addWaits", lookup[id]))
        BY <2>1 DEF MayBe, Waits, Returned, Waiting
    <2> QED BY <1>14, <1>17, <2>1, <2>2
<1>19. ASSUME NEW c \in Callers, RemoveCancels(c)
       PROVE  Sound'
    <2>1. PICK id \in Ids :
             /\ wbItem[lookup[id]].uploading /\ upload' = upload
             /\ CancelUpload(c, Waits("removeWaits", lookup[id]))
        BY <1>19 DEF RemoveCancels
    <2>2. MayBe(Waits("removeWaits", lookup[id]))
        BY <2>1 DEF MayBe, Waits, Returned, Waiting
    <2> QED BY <1>17, <2>1, <2>2
<1>20. ASSUME NEW i \in Items, Removed(i)
       PROVE  \A j \in Items : OnHeap(j)' => OnHeap(j) \/ ~wbItem[j].uploading
    BY <1>1, <1>20, TakenOff DEF Removed, Requeue, OnHeap
<1>21. ASSUME NEW c \in Callers, RemoveNow(c)
       PROVE  Sound'
    <2>1. PICK id \in Ids :
             IF lookup[id] = NoItem THEN Requeue(queue, {}) ELSE Removed(lookup[id])
        BY <1>21 DEF RemoveNow
    <2>2. \A j \in Items : OnHeap(j)' => OnHeap(j) \/ ~wbItem[j].uploading
        <3>1. CASE lookup[id] = NoItem
            BY <1>8, <2>1, <3>1 DEF Requeue
        <3>2. CASE lookup[id] # NoItem
            BY <1>2, <1>20, <2>1, <3>2
        <3> QED BY <3>1, <3>2
    <2> QED BY <1>5, <1>6, <1>21, <2>2 DEF RemoveNow
<1>22. ASSUME NEW c \in Callers, RenameUnknown(c)
       PROVE  Sound'
    BY <1>5, <1>6, <1>8, <1>22 DEF RenameUnknown
<1>23. ASSUME NEW c \in Callers, Rename(c)
       PROVE  Sound'
    <2>1. PICK to \in Ids, i \in Items :
             IF wbItem[i].uploading
             THEN /\ CancelUpload(c, [Waits("renameWaits", i) EXCEPT !.to = to])
                  /\ UNCHANGED <<upload, file>>
             ELSE RenameOn(c, i, to, Namesakes(i, to), queue, lookup, {})
        BY <1>2, <1>23 DEF Rename
    <2>2. CASE wbItem[i].uploading
        <3>1. MayBe([Waits("renameWaits", i) EXCEPT !.to = to])
            BY <2>2 DEF MayBe, Waits, Returned, Waiting
        <3> QED BY <1>17, <2>1, <2>2, <3>1
    <2>3. CASE ~wbItem[i].uploading
        <3>1. Namesakes(i, to) \in SUBSET Items
            BY <1>1, Namesake
        <3>2. RenameOn(c, i, to, Namesakes(i, to), queue, lookup, {})
            BY <2>1, <2>3
        <3>3. \A j \in Items : Held(queue, j) => OnHeap(j) \/ ~wbItem[j].uploading
            BY DEF OnHeap
        <3> QED BY <1>1, <3>1, <3>2, <3>3, RenameSound
    <2> QED BY <2>2, <2>3
<1>24. ASSUME NEW c \in Callers, SetExpiry(c)
       PROVE  Sound'
    <2>1. PICK i \in Items :
             \E q \in Updated(queue, i) \cup (IF OnHeap(i) THEN Sooner(queue, i) ELSE {}) : Requeue(q, {i})
        BY <1>2, <1>24 DEF SetExpiry
    <2>2. PICK q : (q \in Updated(queue, i) \/ (q \in Sooner(queue, i) /\ OnHeap(i))) /\ Requeue(q, {i})
        BY <2>1
    <2>3. \A j \in Items : OnHeap(j)' => OnHeap(j) \/ ~wbItem[j].uploading
        BY <1>7, <2>2
    <2> QED BY <1>5, <1>6, <1>24, <2>3 DEF SetExpiry
<1>25. ASSUME NEW c \in Callers, NEW pc \in Resuming, caller[c].pc = pc
       PROVE  /\ caller[c].item \in Items /\ caller[c].to \in Ids /\ caller[c].todo \in SUBSET Items
              /\ pc = "namesakeAgain" => caller[c].renamed \in Items
              /\ ~wbItem[caller[c].item].uploading
    <2>1. PICK m \in CallerType : m = caller[c]
        BY <1>1
    <2>2. ~wbItem[caller[c].item].uploading
        BY <1>25 DEF Sound, WaitRight
    <2> QED BY <1>25, <2>1, <2>2 DEF CallerType, Resuming, AnItem
<1>26. ASSUME NEW c \in Callers, AddResumes(c)
       PROVE  Sound'
    <2>1. PICK i \in Items : i = caller[c].item /\ ~wbItem[i].uploading
        BY <1>25, <1>26 DEF AddResumes, Resuming
    <2>2. \A j \in Items : OnHeap(j)' => OnHeap(j) \/ ~wbItem[j].uploading
        BY <1>7, <1>26, <2>1 DEF AddResumes
    <2> QED BY <1>5, <1>6, <1>26, <2>2 DEF AddResumes
<1>27. ASSUME NEW c \in Callers, RemoveResumes(c)
       PROVE  Sound'
    <2>1. caller[c].item \in Items
        BY <1>25, <1>27 DEF RemoveResumes, Resuming
    <2>2. \A j \in Items : OnHeap(j)' => OnHeap(j) \/ ~wbItem[j].uploading
        BY <1>20, <1>27, <2>1 DEF RemoveResumes
    <2> QED BY <1>5, <1>6, <1>27, <2>2 DEF RemoveResumes
<1>28. ASSUME NEW c \in Callers, RenameResumes(c)
       PROVE  Sound'
    <2>1. PICK i \in Items, to \in Ids : i = caller[c].item /\ to = caller[c].to /\ ~wbItem[i].uploading
        BY <1>25, <1>28 DEF RenameResumes, Resuming
    <2>2. PICK q : q = IF OnHeap(i) THEN queue ELSE [heap |-> <<i>> \o queue.heap, due |-> queue.due + 1]
        OBVIOUS
    <2>6. GoodQueue(q) /\ \A j : Held(q, j) => Held(queue, j) \/ j = i
        <3>1. CASE OnHeap(i)
            BY <1>1, <2>2, <3>1
        <3>2. CASE ~OnHeap(i)
            BY <1>1, <2>2, <3>2, PutInFront DEF OnHeap
        <3> QED BY <3>1, <3>2
    <2>3. GoodQueue(q) /\ \A j \in Items : Held(q, j) => OnHeap(j) \/ ~wbItem[j].uploading
        BY <2>1, <2>6 DEF OnHeap
    <2>4. RenameOn(c, i, to, Namesakes(i, to), q, lookup, {})
        BY <1>28, <2>1, <2>2 DEF RenameResumes
    <2>5. Namesakes(i, to) \in SUBSET Items
        BY <1>1, Namesake
    <2> QED BY <1>1, <2>3, <2>4, <2>5, RenameSound
<1>29. ASSUME NEW c \in Callers, NamesakeResumes(c)
       PROVE  Sound'
    <2>1. PICK i \in Items, j \in Items, to \in Ids, todo \in SUBSET Items :
             i = caller[c].renamed /\ j = caller[c].item /\ to = caller[c].to /\ todo = caller[c].todo
        BY <1>25, <1>29 DEF NamesakeResumes, Resuming
    <2>2. PICK l : l = [lookup EXCEPT ![wbItem[j].id] = NoItem]
        OBVIOUS
    <2>3. GoodQueue(Without(queue, j)) /\ \A k \in Items : Held(Without(queue, j), k) => OnHeap(k) \/ ~wbItem[k].uploading
        BY <1>1, TakenOff DEF OnHeap
    <2>4. RenameOn(c, i, to, todo \cap Namesakes(i, to), Without(queue, j), l, {j})
        BY <1>29, <2>1, <2>2 DEF NamesakeResumes
    <2>5. todo \cap Namesakes(i, to) \in SUBSET Items
        OBVIOUS
    <2> QED BY <1>1, <2>3, <2>4, <2>5, RenameSound
<1>30. CASE vars' = vars
    BY <1>6, <1>8, <1>30 DEF vars
<1> QED BY <1>9, <1>10, <1>11, <1>13, <1>15, <1>16, <1>18, <1>19, <1>21, <1>22, <1>23, <1>24,
           <1>26, <1>27, <1>28, <1>29, <1>30 DEF Next, Resume

\* If whoever waited for an upload gets the lock before the item's next upload, nothing is
\* uploaded twice at once or queued while it is, done is closed once, and a timer is set for
\* what is queued, whatever is called, removed or renamed in between.
THEOREM QueueCorrect == ASSUME Prompt PROVE Spec => []QueueIsSound
<1>1. Init => Sound
    <2> SUFFICES ASSUME Init
                 PROVE  Sound
        OBVIOUS
    <2>1. ASSUME NEW i \in Items
          PROVE  UploadRight(i)
        <3>1. upload[i] = <<>> /\ wbItem[i] = Unused
            BY DEF Init
        <3> QED BY <3>1 DEF UploadRight, Unused
    <2>2. ASSUME NEW c \in Callers
          PROVE  WaitRight(c)
        <3>1. caller[c] = Returned
            BY DEF Init
        <3> QED BY <3>1 DEF WaitRight, Returned, Waiting, Resuming
    <2> QED BY <2>1, <2>2 DEF Sound
<1>2. Typed /\ Typed' /\ Sound /\ [Next]_vars => Sound'
    BY SoundNext
<1>3. Typed /\ Sound => OneUpload /\ ClosedOnce
    <2> SUFFICES ASSUME Typed, Sound
                 PROVE  OneUpload /\ ClosedOnce
        OBVIOUS
    <2>1. PICK h \in Seq(Items) : /\ h = queue.heap
                                  /\ \A j, k \in 1 .. Len(h) : h[j] = h[k] => j = k
        BY DEF Typed, QueueTyped, GoodQueue
    <2>2. ASSUME NEW i \in Items
          PROVE  Cardinality({n \in DOMAIN queue.heap : queue.heap[n] = i}) <= 1
        <3>1. PICK places : places = {n \in 1 .. Len(h) : h[n] = i}
            OBVIOUS
        <3>2. {n \in DOMAIN queue.heap : queue.heap[n] = i} = places
            BY <2>1, <3>1
        <3>3. CASE places = {}
            <4>1. Cardinality(places) = 0
                BY <3>3, FS_EmptySet
            <4>2. Cardinality(places) <= 1
                BY <4>1
            <4> QED BY <3>2, <4>2
        <3>4. CASE places # {}
            <4>1. PICK k \in places : TRUE
                BY <3>4
            <4>4. \A m \in places : m = k
                BY <2>1, <3>1, <4>1
            <4>5. places = {k}
                BY <4>1, <4>4
            <4>2. Cardinality(places) = 1
                BY <4>5, FS_Singleton
            <4>3. Cardinality(places) <= 1
                BY <4>2
            <4> QED BY <3>2, <4>3
        <3> QED BY <3>3, <3>4
    <2>3. ASSUME NEW i \in Items, upload[i] # <<>>
          PROVE  ~wbItem[i].closed
        <3>1. PICK t \in Seq(BOOLEAN) : t = upload[i]
            BY DEF Typed, UploadsTyped, Uploads
        <3>2. Len(t) # 0
            BY <2>3, <3>1
        <3> QED BY <3>1, <3>2 DEF Sound, UploadRight
    <2>4. OneUpload
        BY <2>2 DEF OneUpload, Sound, UploadRight
    <2> QED BY <2>3, <2>4 DEF ClosedOnce
<1>4. Spec => [](OneUpload /\ ClosedOnce)
    BY <1>1, <1>2, <1>3, TypedInit, TypedNext, PTL DEF Spec
<1>5. OneUpload /\ ClosedOnce /\ TimerIsSet => QueueIsSound
    BY DEF QueueIsSound
<1> QED BY <1>4, <1>5, TimerCorrect, PTL
==============================================================================
