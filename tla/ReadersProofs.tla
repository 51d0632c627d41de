---------------------------- MODULE ReadersProofs -----------------------------
(***************************************************************************)
(* Proofs about ChunkedReaders, for objects, chunks and buffers of any     *)
(* size and any number of streams: what the two readers keep, and that     *)
(* each of their steps is one of ByteStream or none.                       *)
(***************************************************************************)
EXTENDS ChunkedReaders, Lemmas, SequenceTheorems

\* A chunk has bytes.
LEMMA ChunkIs == ChunkSize \in Nat \ {0} /\ Size \in Nat /\ Streams \in Nat \ {0}
BY ParallelAssumption

\* The first of a sequence and the others.
LEMMA FirstAndRest ==
    ASSUME NEW S, NEW s \in Seq(S), s # <<>>
    PROVE  /\ Len(s) \in Nat \ {0} /\ DOMAIN s = 1 .. Len(s)
           /\ Head(s) = s[1] /\ s[1] \in S
           /\ Tail(s) \in Seq(S) /\ Len(Tail(s)) = Len(s) - 1
           /\ \A i \in 1 .. Len(s) - 1 : Tail(s)[i] = s[i + 1]
           /\ Tail(s) = <<>> <=> Len(s) = 1
<1>1. /\ Tail(s) \in Seq(S) /\ Len(Tail(s)) = Len(s) - 1
      /\ \A i \in 1 .. Len(Tail(s)) : Tail(s)[i] = s[i + 1]
    BY HeadTailProperties
<1>2. Len(s) \in Nat \ {0}
    BY EmptySeq
<1>3. DOMAIN s = 1 .. Len(s) /\ Head(s) = s[1]
    BY <1>2
<1>4. s[1] \in S
    BY <1>2, ElementOfSeq
<1>5. Tail(s) = <<>> <=> Len(Tail(s)) = 0
    BY <1>1, EmptySeq
<1> QED BY <1>1, <1>2, <1>3, <1>4, <1>5

\* A set of places is finite.
LEMMA FinitePlaces ==
    ASSUME NEW n \in Nat, NEW B \in SUBSET (1 .. n)
    PROVE  IsFiniteSet(B) /\ Cardinality(B) \in Nat
<1>1. B \in SUBSET Nat /\ \A i \in B : i <= n
    OBVIOUS
<1>2. IsFiniteSet(B)
    BY <1>1, FS_BoundedSetOfNaturals
<1> QED BY <1>2, FS_CardinalityType

-------------------------------------------------------------------------------
(* The streams of the parallel reader, as a row: ss ends at end. *)

\* A stream has no more than its part of the object, and no body before it opens one.
StreamRight(s) ==
    /\ s \in StreamType /\ Done(s) <= Size
    /\ ~s.whole /\ s.have <= s.size /\ s.rOffset <= s.have
    /\ s.writer = "open" => ~s.rc

\* A stream ends within the object.
LEMMA DoneIs ==
    ASSUME NEW s, StreamRight(s)
    PROVE  Done(s) \in Nat /\ Done(s) <= Size
<1>1. s.offset \in Nat /\ s.size \in Nat
    BY ChunkIs DEF StreamRight, StreamType
<1> QED BY <1>1, ChunkIs DEF Done, StreamRight

\* Nothing has been read from a stream.
Untouched(s) == s.rOffset = 0 /\ s.readBytes = 0

Row(ss, end) ==
    /\ ss \in Seq(StreamType) /\ Len(ss) <= Streams
    /\ \A i \in 1 .. Len(ss) : StreamRight(ss[i])
    /\ \A i \in 2 .. Len(ss) : Untouched(ss[i])
    /\ \A i \in 1 .. Len(ss) - 1 : Done(ss[i]) = ss[i + 1].offset
    /\ Len(ss) # 0 => Done(ss[Len(ss)]) = end

\* The streams that have a body.
WithBody(ss) == {i \in DOMAIN ss : ss[i].rc}

\* A row as it is after a step that changes no stream's part of the object.
LEMMA RowChanged ==
    ASSUME NEW ss, NEW end, Row(ss, end), NEW tt \in Seq(StreamType), Len(tt) = Len(ss),
           \A i \in 1 .. Len(ss) : /\ StreamRight(tt[i])
                                   /\ tt[i].offset = ss[i].offset /\ tt[i].size = ss[i].size,
           \A i \in 2 .. Len(ss) : Untouched(tt[i])
    PROVE  Row(tt, end)
<1>1. ss \in Seq(StreamType) /\ Len(ss) \in Nat /\ Len(ss) <= Streams
    BY DEF Row
<1>2. \A i \in 1 .. Len(ss) : Done(tt[i]) = Done(ss[i])
    BY DEF Done
<1>3. ASSUME NEW i \in 1 .. Len(ss) - 1
      PROVE  Done(tt[i]) = tt[i + 1].offset
    <2>1. i \in 1 .. Len(ss) /\ i + 1 \in 1 .. Len(ss)
        BY <1>1
    <2>2. Done(ss[i]) = ss[i + 1].offset
        BY DEF Row
    <2> QED BY <1>2, <2>1, <2>2
<1>4. Len(ss) # 0 => Done(tt[Len(ss)]) = end
    <2>1. Len(ss) # 0 => Len(ss) \in 1 .. Len(ss) /\ Done(ss[Len(ss)]) = end
        BY <1>1 DEF Row
    <2> QED BY <1>2, <2>1
<1> QED BY <1>1, <1>3, <1>4 DEF Row

\* The first stream is popped: the next begins where it ended, and nothing has been
\* read from it.
LEMMA RowPopped ==
    ASSUME NEW ss, NEW end, Row(ss, end), ss # <<>>
    PROVE  /\ Row(Tail(ss), end)
           /\ StreamRight(Head(ss)) /\ Head(ss) = ss[1]
           /\ Tail(ss) = <<>> => Done(Head(ss)) = end
           /\ Tail(ss) # <<>> => /\ Untouched(Head(Tail(ss)))
                                 /\ Head(Tail(ss)).offset = Done(Head(ss))
           /\ Tail(ss) = <<>> <=> Len(ss) = 1
<1>1. ss \in Seq(StreamType) /\ Len(ss) \in Nat \ {0} /\ Len(ss) <= Streams /\ Streams \in Nat
    BY ChunkIs, FirstAndRest DEF Row
<1>2. PICK tt \in Seq(StreamType) :
          tt = Tail(ss) /\ Len(tt) = Len(ss) - 1 /\ \A i \in 1 .. Len(ss) - 1 : tt[i] = ss[i + 1]
    BY <1>1, FirstAndRest
<1>3. \A i \in 1 .. Len(tt) : i + 1 \in 1 .. Len(ss) /\ i + 1 \in 2 .. Len(ss) /\ tt[i] = ss[i + 1]
    BY <1>1, <1>2
<1>4. \A i \in 1 .. Len(tt) : StreamRight(tt[i]) /\ Untouched(tt[i])
    BY <1>3 DEF Row
<1>5. ASSUME NEW i \in 1 .. Len(tt) - 1
      PROVE  Done(tt[i]) = tt[i + 1].offset
    <2>1. i \in 1 .. Len(tt) /\ i + 1 \in 1 .. Len(tt) /\ i + 1 \in 1 .. Len(ss) - 1
        BY <1>1, <1>2
    <2>2. tt[i] = ss[i + 1] /\ tt[i + 1] = ss[i + 1 + 1]
        BY <1>3, <2>1
    <2> QED BY <2>1, <2>2 DEF Row
<1>6. Len(tt) # 0 => Done(tt[Len(tt)]) = end
    <2>1. Len(tt) # 0 => Len(tt) \in 1 .. Len(tt) /\ Len(tt) + 1 = Len(ss)
        BY <1>1, <1>2
    <2>2. Done(ss[Len(ss)]) = end
        BY <1>1 DEF Row
    <2> QED BY <1>3, <2>1, <2>2
<1>7. Row(tt, end)
    <2>1. \A i \in 2 .. Len(tt) : i \in 1 .. Len(tt)
        OBVIOUS
    <2>2. Len(tt) <= Streams
        BY <1>1, <1>2
    <2> QED BY <1>2, <1>4, <1>5, <1>6, <2>1, <2>2 DEF Row
<1>8. Head(ss) = ss[1] /\ StreamRight(ss[1])
    BY <1>1, FirstAndRest DEF Row
<1>9. tt = <<>> <=> Len(ss) = 1
    BY <1>1, <1>2, FirstAndRest
<1>10. Len(ss) = 1 => Done(ss[1]) = end
    BY DEF Row
<1>11. ASSUME tt # <<>>
       PROVE  Head(tt) = ss[2] /\ Untouched(ss[2]) /\ Done(ss[1]) = ss[2].offset
    <2>5. PICK n \in Nat : n = Len(ss) /\ n # 0 /\ n # 1
        BY <1>1, <1>9, <1>11
    <2>1. 1 \in 1 .. Len(ss) - 1 /\ 2 \in 2 .. Len(ss)
        BY <2>5
    <2>2. Head(tt) = tt[1] /\ tt[1] = ss[1 + 1]
        BY <1>2, <1>11, <2>1
    <2>3. Done(ss[1]) = ss[1 + 1].offset
        BY <2>1 DEF Row
    <2>4. Untouched(ss[2])
        BY <2>1 DEF Row
    <2> QED BY <2>2, <2>3, <2>4
<1> QED BY <1>2, <1>7, <1>8, <1>9, <1>10, <1>11

\* The bodies of a row without its first stream.
LEMMA BodiesPopped ==
    ASSUME NEW ss \in Seq(StreamType), ss # <<>>
    PROVE  /\ IsFiniteSet(WithBody(ss)) /\ IsFiniteSet(WithBody(Tail(ss)))
           /\ Cardinality(WithBody(ss))
              = Cardinality(WithBody(Tail(ss))) + (IF Head(ss).rc THEN 1 ELSE 0)
<1>1. Len(ss) \in Nat \ {0} /\ Head(ss) = ss[1]
    BY FirstAndRest
<1>2. PICK tt \in Seq(StreamType) :
          tt = Tail(ss) /\ Len(tt) = Len(ss) - 1 /\ \A i \in 1 .. Len(ss) - 1 : tt[i] = ss[i + 1]
    BY FirstAndRest
<1> DEFINE B == {i \in 1 .. Len(tt) : tt[i].rc}
           C == {i \in 2 .. Len(ss) : ss[i].rc}
           f == [i \in B |-> i + 1]
<1>3. WithBody(tt) = B
    BY <1>2 DEF WithBody
<1>4. WithBody(ss) = IF ss[1].rc THEN C \cup {1} ELSE C
    <2>1. DOMAIN ss = 1 .. Len(ss) /\ \A i \in 1 .. Len(ss) : i = 1 \/ i \in 2 .. Len(ss)
        BY <1>1
    <2>2. \A i \in 2 .. Len(ss) : i \in 1 .. Len(ss)
        OBVIOUS
    <2>3. 1 \in 1 .. Len(ss)
        BY <1>1
    <2> QED BY <2>1, <2>2, <2>3 DEF WithBody
<1>5. f \in Bijection(B, C)
    <2>1. \A i \in B : i + 1 \in C
        BY <1>1, <1>2
    <2>2. f \in [B -> C]
        BY <2>1
    <2>3. \A i, j \in B : f[i] = f[j] => i = j
        BY <1>1, <1>2
    <2>4. ASSUME NEW k \in C
          PROVE  \E i \in B : f[i] = k
        <3>1. k - 1 \in 1 .. Len(tt) /\ tt[k - 1] = ss[k]
            BY <1>1, <1>2
        <3>2. k - 1 \in B /\ f[k - 1] = k
            BY <1>1, <3>1
        <3> QED BY <3>2
    <2> HIDE DEF f, B, C
    <2> QED BY <2>2, <2>3, <2>4, Fun_IsBij
<1>6. IsFiniteSet(B)
    <2>1. Len(tt) \in Nat /\ B \subseteq 1 .. Len(tt)
        OBVIOUS
    <2> HIDE DEF B
    <2> QED BY <2>1, FinitePlaces
<1>7. IsFiniteSet(C) /\ Cardinality(C) = Cardinality(B) /\ Cardinality(B) \in Nat
    <2> HIDE DEF f, B, C
    <2>1. ExistsBijection(B, C)
        BY <1>5 DEF ExistsBijection
    <2> QED BY <1>6, <2>1, FS_Bijection, FS_CardinalityType
<1>8. 1 \notin C
    OBVIOUS
<1>9. IsFiniteSet(C \cup {1}) /\ Cardinality(C \cup {1}) = Cardinality(C) + 1
    <2> HIDE DEF B, C
    <2> QED BY <1>7, <1>8, FS_AddElement
<1> HIDE DEF B, C
<1> QED BY <1>1, <1>2, <1>3, <1>4, <1>6, <1>7, <1>9

\* The stream at k opens its body.
LEMMA BodiesOpened ==
    ASSUME NEW ss \in Seq(StreamType), NEW tt \in Seq(StreamType), Len(tt) = Len(ss),
           NEW k \in 1 .. Len(ss), ~ss[k].rc, tt[k].rc,
           \A i \in 1 .. Len(ss) : i # k => tt[i] = ss[i]
    PROVE  Cardinality(WithBody(tt)) = Cardinality(WithBody(ss)) + 1
<1>1. DOMAIN ss = 1 .. Len(ss) /\ DOMAIN tt = 1 .. Len(ss) /\ Len(ss) \in Nat
    OBVIOUS
<1>2. WithBody(tt) = WithBody(ss) \cup {k} /\ k \notin WithBody(ss)
    BY <1>1 DEF WithBody
<1>3. IsFiniteSet(WithBody(ss))
    <2>1. WithBody(ss) \subseteq 1 .. Len(ss)
        BY <1>1 DEF WithBody
    <2> QED BY <1>1, <2>1, FinitePlaces
<1> QED BY <1>2, <1>3, FS_AddElement

-------------------------------------------------------------------------------
(* _open *)

\* rest bytes are so many chunks, the last of which may be short.
LEMMA ChunksIn ==
    ASSUME NEW rest \in Nat, NEW c \in Nat \ {0}
    PROVE  LET n == (rest + c - 1) \div c
           IN  /\ n \in Nat /\ (n = 0 <=> rest = 0)
               /\ \A i \in 1 .. n : (i - 1) * c \in Nat /\ (i - 1) * c < rest
<1> DEFINE n == (rest + c - 1) \div c
<1>1. n \in Nat /\ c * n <= rest + c - 1 /\ rest + c - 1 < c * n + c
    OBVIOUS
<1> HIDE DEF n
<1>2. n = 0 => rest = 0
    BY <1>1
<1>3. ASSUME NEW i \in 1 .. n
      PROVE  (i - 1) * c \in Nat /\ (i - 1) * c < rest
    <2>1. PICK j \in Nat : j = i - 1 /\ j + 1 <= n
        BY <1>1
    <2>2. j * c \in Nat /\ (j + 1) * c = j * c + c
        OBVIOUS
    <2>3. (j + 1) * c <= n * c
        BY <1>1, <2>1
    <2>4. n * c = c * n /\ c * n \in Nat
        BY <1>1
    <2>5. j * c + c <= rest + c - 1
        BY <1>1, <2>2, <2>3, <2>4
    <2> QED BY <2>1, <2>2, <2>5
<1>4. n # 0 => rest # 0
    <2> SUFFICES ASSUME n # 0
                 PROVE  rest # 0
        OBVIOUS
    <2>1. (1 - 1) * c < rest /\ (1 - 1) * c = 0
        BY <1>1, <1>3
    <2> QED BY <2>1
<1> QED BY <1>1, <1>2, <1>3, <1>4 DEF n

\* The new streams go on where the row ends, to the end of the object at most.
LEMMA OpenedAre ==
    ASSUME endStream \in 0 .. Size, ctxDone \in BOOLEAN,
           Len(streams) \in Nat, Len(streams) <= Streams
    PROVE  /\ Opened \in Seq(StreamType) /\ Len(Opened) = Missing
           /\ Missing \in 0 .. Streams - Len(streams)
           /\ Missing = 0 /\ Len(streams) = 0 => endStream = Size
           /\ \A i \in 1 .. Missing : /\ StreamRight(Opened[i]) /\ Untouched(Opened[i])
                                      /\ ~Opened[i].rc
           /\ \A i \in 1 .. Missing - 1 : Done(Opened[i]) = Opened[i + 1].offset
           /\ Missing # 0 => Opened[1].offset = endStream
<1> DEFINE C == ChunkSize
           n == (Size - endStream + C - 1) \div C
           m == Missing
           from(i) == endStream + (i - 1) * C
<1>1. C \in Nat \ {0} /\ Size \in Nat /\ Streams \in Nat \ {0} /\ Size - endStream \in Nat
    BY ChunkIs
<1> HIDE DEF C
<1>2. /\ n \in Nat /\ (n = 0 <=> Size - endStream = 0)
      /\ \A i \in 1 .. n : (i - 1) * C \in Nat /\ (i - 1) * C < Size - endStream
    BY <1>1, ChunksIn
<1> HIDE DEF n
<1>3. m = MinOf(Streams - Len(streams), n)
    BY DEF Missing, n, C
<1>4. m \in Nat /\ m <= n /\ m <= Streams - Len(streams)
    BY <1>1, <1>2, <1>3 DEF MinOf
<1>5. m = 0 /\ Len(streams) = 0 => endStream = Size
    BY <1>1, <1>2, <1>3 DEF MinOf
<1> HIDE DEF m
<1>6. \A i \in 1 .. m : from(i) \in Nat /\ from(i) < Size
    <2> SUFFICES ASSUME NEW i \in 1 .. m
                 PROVE  from(i) \in Nat /\ from(i) < Size
        OBVIOUS
    <2>1. PICK k \in Nat : k = (i - 1) * C /\ k < Size - endStream
        BY <1>2, <1>4
    <2> QED BY <1>1, <2>1
<1>7. from(1) = endStream
    BY <1>1
<1>8. \A i \in 1 .. m - 1 : from(i + 1) = from(i) + C
    <2> SUFFICES ASSUME NEW i \in 1 .. m - 1
                 PROVE  from(i + 1) = from(i) + C
        OBVIOUS
    <2>1. PICK j \in Nat : i = j + 1
        BY <1>4
    <2>2. (j + 1) * C = j * C + C /\ j * C \in Nat
        BY <1>1
    <2> QED BY <1>1, <2>1, <2>2
<1> HIDE DEF from
<1>9. \A i \in 1 .. m : Opened[i] = NewStream(from(i), MinOf(C, Size - from(i)))
    BY DEF Opened, from, C, m
<1>10. ASSUME NEW i \in 1 .. m
       PROVE  LET s == Opened[i] IN
              /\ StreamRight(s) /\ Untouched(s) /\ ~s.rc
              /\ s.offset = from(i) /\ Done(s) = from(i) + MinOf(C, Size - from(i))
    <2>1. PICK a \in Nat : a = from(i) /\ a < Size
        BY <1>6
    <2>2. PICK z \in Nat : z = MinOf(C, Size - a) /\ z <= C /\ a + z <= Size
        BY <1>1, <2>1 DEF MinOf
    <2>3. Opened[i] = NewStream(a, z)
        BY <1>9, <2>1, <2>2
    <2>4. NewStream(a, z) \in StreamType
        BY <1>1, <2>1, <2>2 DEF NewStream, StreamType, C
    <2>5. /\ NewStream(a, z).offset = a /\ NewStream(a, z).size = z
          /\ ~NewStream(a, z).rc /\ ~NewStream(a, z).whole
          /\ NewStream(a, z).have = 0 /\ NewStream(a, z).rOffset = 0
          /\ NewStream(a, z).readBytes = 0
        BY DEF NewStream
    <2> QED BY <2>1, <2>2, <2>3, <2>4, <2>5 DEF StreamRight, Untouched, Done
<1>11. \A i \in 1 .. m - 1 : Done(Opened[i]) = Opened[i + 1].offset
    <2> SUFFICES ASSUME NEW i \in 1 .. m - 1
                 PROVE  Done(Opened[i]) = Opened[i + 1].offset
        OBVIOUS
    <2>1. i \in 1 .. m /\ i + 1 \in 1 .. m
        BY <1>4
    <2>2. from(i) \in Nat /\ from(i) + C < Size
        BY <1>6, <1>8, <2>1
    <2>3. MinOf(C, Size - from(i)) = C
        BY <1>1, <2>2 DEF MinOf
    <2> QED BY <1>8, <1>10, <2>1, <2>3
<1>12. Opened \in [1 .. m -> StreamType]
    <2>1. DOMAIN Opened = 1 .. m /\ Opened = [i \in 1 .. m |-> Opened[i]]
        BY DEF Opened, m
    <2>2. \A i \in 1 .. m : Opened[i] \in StreamType
        BY <1>10 DEF StreamRight
    <2> QED BY <2>1, <2>2
<1>13. Opened \in Seq(StreamType)
    BY <1>4, <1>12, SeqDef
<1>14. Len(Opened) = m
    <2>1. DOMAIN Opened = 1 .. Len(Opened) /\ Len(Opened) \in Nat
        BY <1>13, LenProperties
    <2> QED BY <1>4, <1>12, <2>1
<1>15. m # 0 => Opened[1].offset = endStream
    <2>1. m # 0 => 1 \in 1 .. m
        BY <1>4
    <2> QED BY <1>7, <1>10, <2>1
<1>16. m \in 0 .. Streams - Len(streams)
    BY <1>1, <1>4
<1> QED BY <1>5, <1>10, <1>11, <1>13, <1>14, <1>15, <1>16 DEF m

\* What StartStreams makes of a row.
LEMMA RowStarted ==
    ASSUME Row(streams, endStream), endStream \in 0 .. Size, ctxDone \in BOOLEAN, StartStreams
    PROVE  /\ Row(streams', endStream') /\ endStream' \in 0 .. Size
           /\ WithBody(streams') = WithBody(streams)
           /\ streams # <<>> => streams' # <<>> /\ Head(streams') = Head(streams)
           /\ streams = <<>> /\ streams' # <<>> =>
                 Head(streams').offset = endStream /\ Untouched(Head(streams'))
           /\ streams' = <<>> => streams = <<>> /\ endStream' = endStream /\ endStream = Size
<1>1. PICK ss \in Seq(StreamType) : ss = streams /\ Len(ss) \in Nat /\ Len(ss) <= Streams
    BY DEF Row
<1>2. PICK tt \in Seq(StreamType) : tt = Opened /\ Len(tt) = Missing
    BY <1>1, OpenedAre
<1>3. PICK uu \in Seq(StreamType) : uu = streams'
    BY <1>1, <1>2, ConcatProperties DEF StartStreams
<1>4. /\ Len(uu) = Len(ss) + Len(tt)
      /\ \A i \in 1 .. Len(ss) + Len(tt) : uu[i] = IF i <= Len(ss) THEN ss[i] ELSE tt[i - Len(ss)]
    <2>1. uu = ss \o tt
        BY <1>1, <1>2, <1>3 DEF StartStreams
    <2>2. /\ Len(ss \o tt) = Len(ss) + Len(tt)
          /\ \A i \in 1 .. Len(ss) + Len(tt) :
                 (ss \o tt)[i] = IF i <= Len(ss) THEN ss[i] ELSE tt[i - Len(ss)]
        BY ConcatProperties
    <2> QED BY <2>1, <2>2
<1>5. PICK n \in Nat, m \in Nat :
          /\ n = Len(ss) /\ m = Len(tt) /\ n + m = Len(uu) /\ n + m <= Streams
          /\ (m = 0 /\ n = 0 => endStream = Size)
    <2>1. PICK n \in Nat, m \in Nat : n = Len(ss) /\ m = Len(tt)
        BY <1>1, LenProperties
    <2>2. m \in 0 .. Streams - n /\ (m = 0 /\ n = 0 => endStream = Size)
        BY <1>1, <1>2, <2>1, OpenedAre
    <2>3. n + m <= Streams
        BY <2>2, ChunkIs
    <2> QED BY <1>4, <2>1, <2>2, <2>3
<1>6. /\ \A i \in 1 .. n : uu[i] = ss[i]
      /\ \A i \in 1 .. m : uu[n + i] = tt[i]
      /\ \A i \in 1 .. n + m : i \in 1 .. n \/ \E j \in 1 .. m : i = n + j
    <2>1. ASSUME NEW i \in 1 .. n PROVE uu[i] = ss[i]
        BY <1>4, <1>5
    <2>2. ASSUME NEW i \in 1 .. m PROVE uu[n + i] = tt[i]
        <3>1. n + i \in 1 .. n + m /\ ~(n + i <= n) /\ n + i - n = i
            BY <1>5
        <3> QED BY <1>4, <1>5, <3>1
    <2>3. ASSUME NEW i \in 1 .. n + m, i \notin 1 .. n PROVE \E j \in 1 .. m : i = n + j
        <3>1. i - n \in 1 .. m /\ i = n + (i - n)
            BY <1>5, <2>3
        <3> QED BY <3>1
    <2> QED BY <2>1, <2>2, <2>3
<1>7. /\ \A i \in 1 .. n : StreamRight(ss[i])
      /\ \A i \in 2 .. n : Untouched(ss[i])
      /\ \A i \in 1 .. n - 1 : Done(ss[i]) = ss[i + 1].offset
      /\ n # 0 => Done(ss[n]) = endStream
    BY <1>1, <1>5 DEF Row
<1>8. /\ \A i \in 1 .. m : StreamRight(tt[i]) /\ Untouched(tt[i]) /\ ~tt[i].rc
      /\ \A i \in 1 .. m - 1 : Done(tt[i]) = tt[i + 1].offset
      /\ m # 0 => tt[1].offset = endStream
    BY <1>1, <1>2, <1>5, OpenedAre
<1>9. endStream' = IF m = 0 THEN endStream ELSE Done(tt[m])
    <2>1. Opened = <<>> <=> m = 0
        BY <1>2, <1>5, EmptySeq
    <2>2. Last(Opened) = tt[m]
        BY <1>2, <1>5 DEF Last
    <2> QED BY <2>1, <2>2 DEF StartStreams
<1>10. \A i \in 1 .. n + m : StreamRight(uu[i])
    BY <1>6, <1>7, <1>8
<1>11. \A i \in 2 .. n + m : Untouched(uu[i])
    <2>1. \A i \in 2 .. n + m : i \in 1 .. n + m /\ (i \in 1 .. n => i \in 2 .. n)
        OBVIOUS
    <2> QED BY <1>6, <1>7, <1>8, <2>1
<1>12. ASSUME NEW i \in 1 .. n + m - 1
       PROVE  Done(uu[i]) = uu[i + 1].offset
    <2>1. CASE i + 1 <= n
        <3>1. i \in 1 .. n - 1 /\ i \in 1 .. n /\ i + 1 \in 1 .. n
            BY <2>1
        <3> QED BY <1>6, <1>7, <3>1
    <2>2. CASE i = n
        <3>1. n # 0 /\ n \in 1 .. n /\ 1 \in 1 .. m /\ m # 0 /\ i + 1 = n + 1
            BY <2>2
        <3>2. uu[n] = ss[n] /\ uu[n + 1] = tt[1]
            BY <1>6, <3>1
        <3> QED BY <1>7, <1>8, <2>2, <3>1, <3>2
    <2>3. CASE i > n
        <3>1. PICK j \in 1 .. m - 1 : i = n + j
            <4>1. i - n \in 1 .. m - 1 /\ i = n + (i - n)
                BY <2>3
            <4> QED BY <4>1
        <3>2. j \in 1 .. m /\ j + 1 \in 1 .. m /\ i + 1 = n + (j + 1)
            BY <3>1
        <3>3. uu[i] = tt[j] /\ uu[i + 1] = tt[j + 1]
            BY <1>6, <3>1, <3>2
        <3> QED BY <1>8, <3>1, <3>3
    <2> QED BY <2>1, <2>2, <2>3
<1>13. n + m # 0 => Done(uu[n + m]) = endStream'
    <2>1. CASE m = 0
        <3>1. n # 0 => n \in 1 .. n
            OBVIOUS
        <3> QED BY <1>6, <1>7, <1>9, <2>1, <3>1
    <2>2. CASE m # 0
        <3>1. m \in 1 .. m
            BY <2>2
        <3> QED BY <1>6, <1>9, <2>2, <3>1
    <2> QED BY <2>1, <2>2
<1>14. Row(uu, endStream')
    <2>0. PICK k \in Nat : k = n + m /\ k = Len(uu) /\ k <= Streams
        BY <1>5
    <2>1. PICK e : k = n + m /\ k = Len(uu) /\ k <= Streams /\ e = endStream'
        BY <2>0
    <2>3. /\ \A i \in 1 .. k : StreamRight(uu[i])
          /\ \A i \in 2 .. k : Untouched(uu[i])
          /\ k # 0 => Done(uu[k]) = e
        BY <1>10, <1>11, <1>13, <2>1
    <2>4. \A i \in 1 .. k - 1 : Done(uu[i]) = uu[i + 1].offset
        BY <1>12, <2>1
    <2>2. Row(uu, e)
        BY <2>1, <2>3, <2>4 DEF Row
    <2> QED BY <2>1, <2>2
<1>15. endStream' \in 0 .. Size
    <2>1. CASE m = 0
        BY <1>9, <2>1
    <2>2. CASE m # 0
        <3>1. m \in 1 .. m
            BY <2>2
        <3>2. StreamRight(tt[m])
            BY <1>8, <3>1
        <3>3. Done(tt[m]) \in Nat /\ Done(tt[m]) <= Size
            BY <3>2, DoneIs
        <3> QED BY <1>9, <2>2, <3>3, ChunkIs
    <2> QED BY <2>1, <2>2
<1>16. WithBody(uu) = WithBody(ss)
    <2>1. DOMAIN uu = 1 .. n + m /\ DOMAIN ss = 1 .. n
        BY <1>5, LenProperties
    <2>2. \A i \in 1 .. n : i \in 1 .. n + m
        OBVIOUS
    <2>3. \A i \in 1 .. n + m : uu[i].rc => i \in 1 .. n
        BY <1>6, <1>8
    <2>4. \A i \in 1 .. n : uu[i] = ss[i]
        BY <1>6
    <2>5. {i \in 1 .. n + m : uu[i].rc} = {i \in 1 .. n : ss[i].rc}
        BY <2>2, <2>3, <2>4
    <2> QED BY <2>1, <2>5 DEF WithBody
<1>17. /\ ss = <<>> <=> n = 0
       /\ uu = <<>> <=> n + m = 0
    BY <1>5, EmptySeq
<1>18. n # 0 => Head(uu) = Head(ss)
    <2>1. n # 0 => 1 \in 1 .. n /\ Head(uu) = uu[1] /\ Head(ss) = ss[1]
        BY <1>17, FirstAndRest
    <2> QED BY <1>6, <2>1
<1>19. n = 0 /\ n + m # 0 => Head(uu).offset = endStream /\ Untouched(Head(uu))
    <2>1. n = 0 /\ n + m # 0 => 1 \in 1 .. m /\ Head(uu) = uu[1] /\ n + 1 = 1
        BY <1>17, FirstAndRest
    <2> QED BY <1>6, <1>8, <2>1
<1>20. n + m = 0 => n = 0 /\ m = 0
    OBVIOUS
<1> QED BY <1>1, <1>3, <1>5, <1>9, <1>14, <1>15, <1>16, <1>17, <1>18, <1>19, <1>20

-------------------------------------------------------------------------------
(* The parallel reader's invariant *)

\* Two streams are alike to who reads them.
Alike(s, t) ==
    /\ s.offset = t.offset /\ s.size = t.size
    /\ s.readBytes = t.readBytes /\ s.rOffset = t.rOffset

\* ss with s for the stream at i.
With(ss, i, s) == [ss EXCEPT ![i] = s]

LEMMA WithIs ==
    ASSUME NEW ss, NEW end, Row(ss, end), NEW i \in 1 .. Len(ss), NEW s, StreamRight(s),
           s.offset = ss[i].offset, s.size = ss[i].size, i # 1 => Untouched(s)
    PROVE  /\ Row(With(ss, i, s), end)
           /\ ss # <<>> /\ With(ss, i, s) # <<>>
           /\ Head(With(ss, i, s)) = IF i = 1 THEN s ELSE Head(ss)
           /\ s.rc = ss[i].rc => WithBody(With(ss, i, s)) = WithBody(ss)
           /\ ~ss[i].rc /\ s.rc =>
                 Cardinality(WithBody(With(ss, i, s))) = Cardinality(WithBody(ss)) + 1
<1>1. ss \in Seq(StreamType) /\ Len(ss) \in Nat /\ s \in StreamType
    BY DEF Row, StreamRight
<1>12. /\ With(ss, i, s) \in Seq(StreamType) /\ Len(With(ss, i, s)) = Len(ss)
       /\ \A j \in 1 .. Len(ss) : With(ss, i, s)[j] = IF j = i THEN s ELSE ss[j]
    <2>1. /\ [ss EXCEPT ![i] = s] \in Seq(StreamType)
          /\ Len([ss EXCEPT ![i] = s]) = Len(ss)
          /\ \A j \in 1 .. Len(ss) : [ss EXCEPT ![i] = s][j] = IF j = i THEN s ELSE ss[j]
        BY <1>1, ExceptSeq
    <2> QED BY <2>1 DEF With
<1>2. PICK tt \in Seq(StreamType) :
          /\ tt = With(ss, i, s) /\ Len(tt) = Len(ss)
          /\ \A j \in 1 .. Len(ss) : tt[j] = IF j = i THEN s ELSE ss[j]
    BY <1>12
<1>3. \A j \in 1 .. Len(ss) : /\ StreamRight(tt[j])
                              /\ tt[j].offset = ss[j].offset /\ tt[j].size = ss[j].size
    BY <1>2 DEF Row
<1>4. \A j \in 2 .. Len(ss) : j \in 1 .. Len(ss) /\ Untouched(tt[j])
    BY <1>2 DEF Row
<1>5. Row(tt, end)
    BY <1>2, <1>3, <1>4, RowChanged
<1>6. Len(ss) # 0 /\ 1 \in 1 .. Len(ss)
    BY <1>1
<1>7. ss # <<>> /\ tt # <<>>
    BY <1>1, <1>2, <1>6, EmptySeq
<1>8. Head(ss) = ss[1] /\ Head(tt) = tt[1]
    BY <1>1, <1>2, <1>7, FirstAndRest
<1>9. Head(tt) = IF i = 1 THEN s ELSE Head(ss)
    BY <1>2, <1>6, <1>8
<1>10. s.rc = ss[i].rc => WithBody(tt) = WithBody(ss)
    <2>1. DOMAIN tt = 1 .. Len(ss) /\ DOMAIN ss = 1 .. Len(ss)
        BY <1>1, <1>2, LenProperties
    <2>2. s.rc = ss[i].rc => \A j \in 1 .. Len(ss) : tt[j].rc = ss[j].rc
        BY <1>2
    <2> QED BY <2>1, <2>2 DEF WithBody
<1>11. ~ss[i].rc /\ s.rc => Cardinality(WithBody(tt)) = Cardinality(WithBody(ss)) + 1
    BY <1>1, <1>2, BodiesOpened
<1> QED BY <1>2, <1>5, <1>7, <1>9, <1>10, <1>11

ReadPlaces == {"idle", "open", "stream", "pop", "seek", "ditch", "ditchAll", "seekWait"}

Typed ==
    /\ offset \in 0 .. Size /\ endStream \in 0 .. Size
    /\ closed \in BOOLEAN /\ ctxDone \in BOOLEAN /\ bodies \in Nat
    /\ rd \in [pc : ReadPlaces, left : Nat, nn : Nat]
    /\ cl \in {"idle", "waiting", "closing"}

\* The next byte of the first stream's buffer is the one the caller gets next.
InStep ==
    IF streams = <<>> THEN offset + rd.nn = endStream
    ELSE /\ offset + rd.nn = Current.offset + Current.rOffset
         /\ Current.readBytes = Current.rOffset

\* Where the reader and the closer are, and what the streams are then.
Placed ==
    /\ rd.nn # 0 => rd.pc = "stream"
    /\ rd.pc = "stream" => rd.left # 0
    /\ rd.pc # "idle" => ~closed
    /\ cl = "closing" => closed
    /\ rd.pc \in {"stream", "pop", "ditch", "ditchAll", "seekWait"} \/ cl = "closing" =>
          streams # <<>>
    /\ closed /\ cl # "closing" => streams = <<>>
    /\ rd.pc \in {"idle", "open", "stream"} /\ ~closed => InStep
    /\ rd.pc = "pop" => offset = Done(Current)
    /\ rd.pc = "seekWait" => /\ Current.offset <= offset /\ offset < Done(Current)
                             /\ Current.readBytes = offset - Current.offset

ParallelInv ==
    /\ Typed /\ Row(streams, endStream) /\ Placed
    /\ bodies = Cardinality(WithBody(streams))

\* What the theorems suppose: an upstream that keeps to the range it is asked for,
\* and no Open after Close (README.md, section 4).
RangesAreServed == "whole" \notin Faults /\ ~OpenAfterClose

\* The reader and the closer see no difference.
LEMMA PlacedSame ==
    ASSUME Placed, UNCHANGED <<offset, endStream, closed, rd, cl>>,
           streams' = <<>> <=> streams = <<>>,
           streams # <<>> => Alike(Current', Current)
    PROVE  Placed'
<1>1. InStep => InStep'
    BY DEF InStep, Alike
<1>2. streams # <<>> => Done(Current') = Done(Current)
    BY DEF Alike, Done
<1>3. /\ rd.nn # 0 => rd.pc = "stream"
      /\ rd.pc = "stream" => rd.left # 0
      /\ rd.pc # "idle" => ~closed
      /\ cl = "closing" => closed
      /\ rd.pc \in {"stream", "pop", "ditch", "ditchAll", "seekWait"} \/ cl = "closing" =>
            streams # <<>>
      /\ closed /\ cl # "closing" => streams = <<>>
      /\ rd.pc \in {"idle", "open", "stream"} /\ ~closed => InStep
    BY DEF Placed
<1>4. rd.pc = "pop" => offset = Done(Current')
    BY <1>2, <1>3 DEF Placed
<1>5. rd.pc = "seekWait" => /\ Current'.offset <= offset /\ offset < Done(Current')
                            /\ Current'.readBytes = offset - Current'.offset
    BY <1>2, <1>3 DEF Placed, Alike
<1> QED BY <1>1, <1>3, <1>4, <1>5 DEF Placed

\* A stream's own step.
LEMMA WriterInv ==
    ASSUME ParallelInv, RangesAreServed, NEW i \in 1 .. Streams, Writer(i)
    PROVE  ParallelInv'
<1>1. streams \in Seq(StreamType) /\ Len(streams) \in Nat /\ i \in 1 .. Len(streams)
    BY LenProperties DEF ParallelInv, Row, Writer
<1>2. PICK s \in StreamType : s = streams[i] /\ StreamRight(s)
    BY <1>1 DEF ParallelInv, Row
<1>3. i # 1 => Untouched(s)
    <2>1. i # 1 => i \in 2 .. Len(streams)
        BY <1>1
    <2> QED BY <1>2, <2>1 DEF ParallelInv, Row
<1>4. \E t : /\ WriterOnly(i, t) /\ StreamRight(t) /\ Alike(t, s)
             /\ \/ t.rc = s.rc /\ UNCHANGED bodies
                \/ ~s.rc /\ t.rc /\ bodies' = bodies + 1
    <2>1. CASE WriterOpens(i)
        <3>1. s.writer = "open" /\ bodies' = bodies + 1 /\ ~s.rc
            BY <1>2, <2>1 DEF WriterOpens, StreamRight
        <3> DEFINE t == [s EXCEPT !.writer = "copy", !.rc = TRUE, !.whole = FALSE]
        <3>4. PICK whole \in {FALSE} \cup {"whole" \in Faults} :
                  WriterOnly(i, [s EXCEPT !.writer = "copy", !.rc = TRUE, !.whole = whole])
            BY <1>2, <2>1 DEF WriterOpens
        <3>5. whole = FALSE
            <4>1. ~("whole" \in Faults)
                BY DEF RangesAreServed
            <4>2. ("whole" \in Faults) = FALSE
                BY <4>1
            <4> QED BY <4>2
        <3>2. WriterOnly(i, t)
            BY <3>4, <3>5
        <3>3. StreamRight(t) /\ Alike(t, s) /\ t.rc
            BY <1>2 DEF StreamRight, StreamType, Alike, Done
        <3> QED BY <3>1, <3>2, <3>3
    <2>2. CASE WriterCannotOpen(i)
        <3> DEFINE t == [s EXCEPT !.writer = "end", !.err = "error"]
        <3>1. WriterOnly(i, t) /\ UNCHANGED bodies
            BY <1>2, <2>2 DEF WriterCannotOpen
        <3>2. StreamRight(t) /\ Alike(t, s) /\ t.rc = s.rc
            BY <1>2 DEF StreamRight, StreamType, Alike, Done
        <3> QED BY <3>1, <3>2
    <2>3. CASE WriterAppends(i)
        <3>1. PICK n \in 1 .. Body(s) - s.have : WriterOnly(i, [s EXCEPT !.have = @ + n])
            BY <1>2, <2>3 DEF WriterAppends
        <3> DEFINE t == [s EXCEPT !.have = s.have + n]
        <3>2. WriterOnly(i, t) /\ UNCHANGED bodies
            BY <2>3, <3>1 DEF WriterAppends
        <3>3. PICK h \in Nat : h = s.have + n /\ h <= s.size /\ s.rOffset <= h /\ h \in 0 .. Size
            BY <1>2, ChunkIs DEF StreamRight, StreamType, Done, Body
        <3>4. StreamRight(t) /\ Alike(t, s) /\ t.rc = s.rc
            <4>1. t \in StreamType
                BY <1>2, <3>3 DEF StreamType
            <4>2. /\ t.have = h /\ t.offset = s.offset /\ t.size = s.size /\ t.whole = s.whole
                  /\ t.rOffset = s.rOffset /\ t.readBytes = s.readBytes
                  /\ t.writer = s.writer /\ t.rc = s.rc
                BY <1>2, <3>3 DEF StreamType
            <4> HIDE DEF t
            <4> QED BY <1>2, <3>3, <4>1, <4>2 DEF StreamRight, Alike, Done
        <3> QED BY <3>2, <3>4
    <2>4. CASE WriterEnds(i)
        <3> DEFINE t == [s EXCEPT !.writer = "end", !.err = "nil"]
        <3>1. WriterOnly(i, t) /\ UNCHANGED bodies
            BY <1>2, <2>4 DEF WriterEnds
        <3>2. StreamRight(t) /\ Alike(t, s) /\ t.rc = s.rc
            BY <1>2 DEF StreamRight, StreamType, Alike, Done
        <3> QED BY <3>1, <3>2
    <2>5. CASE WriterFails(i)
        <3> DEFINE t == [s EXCEPT !.writer = "end", !.err = "error"]
        <3>1. WriterOnly(i, t) /\ UNCHANGED bodies
            BY <1>2, <2>5 DEF WriterFails
        <3>2. StreamRight(t) /\ Alike(t, s) /\ t.rc = s.rc
            BY <1>2 DEF StreamRight, StreamType, Alike, Done
        <3> QED BY <3>1, <3>2
    <2> QED BY <2>1, <2>2, <2>3, <2>4, <2>5 DEF Writer
<1>5. PICK t : /\ WriterOnly(i, t) /\ StreamRight(t) /\ Alike(t, s)
               /\ \/ t.rc = s.rc /\ UNCHANGED bodies
                  \/ ~s.rc /\ t.rc /\ bodies' = bodies + 1
    BY <1>4
<1>6. streams' = With(streams, i, t) /\ UNCHANGED <<offset, endStream, closed, rd, cl, ctxDone>>
    BY <1>5 DEF WriterOnly, With
<1>7. t.offset = streams[i].offset /\ t.size = streams[i].size /\ (i # 1 => Untouched(t))
    BY <1>2, <1>3, <1>5 DEF Alike, Untouched
<1>8. Row(streams, endStream)
    BY DEF ParallelInv
<1>9. /\ Row(streams', endStream) /\ streams # <<>> /\ streams' # <<>>
      /\ Head(streams') = IF i = 1 THEN t ELSE Head(streams)
      /\ t.rc = s.rc => WithBody(streams') = WithBody(streams)
      /\ ~s.rc /\ t.rc => Cardinality(WithBody(streams')) = Cardinality(WithBody(streams)) + 1
    BY <1>1, <1>2, <1>5, <1>6, <1>7, <1>8, WithIs
<1>10. Alike(Current', Current)
    <2>1. i = 1 => Head(streams) = s
        BY <1>1, <1>2, <1>9, FirstAndRest
    <2> QED BY <1>5, <1>9, <2>1 DEF Current, Alike
<1>11. Placed'
    BY <1>6, <1>9, <1>10, PlacedSame DEF ParallelInv
<1>12. bodies' = Cardinality(WithBody(streams')) /\ bodies' \in Nat
    BY <1>5, <1>9 DEF ParallelInv, Typed
<1> QED BY <1>6, <1>9, <1>11, <1>12 DEF ParallelInv, Typed

\* Cancelling the first stream changes nothing else.
LEMMA CancelledIs ==
    ASSUME NEW ss, NEW end, Row(ss, end), ss # <<>>
    PROVE  /\ Row(Cancelled(ss), end) /\ Cancelled(ss) # <<>>
           /\ Alike(Head(Cancelled(ss)), Head(ss))
           /\ WithBody(Cancelled(ss)) = WithBody(ss)
<1>1. ss \in Seq(StreamType) /\ 1 \in 1 .. Len(ss) /\ Head(ss) = ss[1]
    BY FirstAndRest DEF Row
<1>2. PICK s \in StreamType : s = ss[1] /\ StreamRight(s)
    BY <1>1 DEF Row
<1> DEFINE t == [s EXCEPT !.cancelled = TRUE]
<1>3. StreamRight(t) /\ Alike(t, s) /\ t.rc = s.rc
    BY <1>2 DEF StreamRight, StreamType, Alike, Done
<1>4. Cancelled(ss) = With(ss, 1, t)
    BY <1>2 DEF Cancelled, With
<1> HIDE DEF t
<1>5. t.offset = ss[1].offset /\ t.size = ss[1].size /\ t.rc = ss[1].rc
    BY <1>2, <1>3 DEF Alike
<1>6. /\ Row(With(ss, 1, t), end) /\ With(ss, 1, t) # <<>> /\ Head(With(ss, 1, t)) = t
      /\ WithBody(With(ss, 1, t)) = WithBody(ss)
    BY <1>1, <1>3, <1>5, WithIs
<1> QED BY <1>1, <1>2, <1>3, <1>4, <1>6

\* Without streams a row ends anywhere.
LEMMA RowEmpty ==
    ASSUME NEW end
    PROVE  Row(<<>>, end) /\ Cardinality(WithBody(<<>>)) = 0
<1>1. Row(<<>>, end)
    BY EmptySeq, ChunkIs DEF Row
<1>2. WithBody(<<>>) = {}
    BY DEF WithBody
<1> QED BY <1>1, <1>2, FS_EmptySet

\* The first stream is gone, and its body with it.
LEMMA PoppedIs ==
    ASSUME ParallelInv, streams # <<>>, Popped
    PROVE  bodies' = Cardinality(WithBody(Tail(streams))) /\ bodies' \in Nat
<1>1. streams \in Seq(StreamType)
    BY DEF ParallelInv, Row
<1>2. /\ IsFiniteSet(WithBody(Tail(streams)))
      /\ bodies = Cardinality(WithBody(Tail(streams))) + (IF Current.rc THEN 1 ELSE 0)
    BY <1>1, BodiesPopped DEF ParallelInv, Current
<1>3. Cardinality(WithBody(Tail(streams))) \in Nat
    BY <1>2, FS_CardinalityType
<1> QED BY <1>2, <1>3 DEF Popped

\* _popStreams takes one stream, and cancels the next if there is one.
LEMMA PopAllIs ==
    ASSUME ParallelInv, streams # <<>>, NEW more \in BOOLEAN, PopAll(more)
    PROVE  /\ bodies' = Cardinality(WithBody(streams')) /\ bodies' \in Nat
           /\ more => Row(streams', endStream) /\ streams' # <<>>
           /\ ~more => streams' = <<>>
<1>1. Row(streams, endStream)
    BY DEF ParallelInv
<1>2. /\ Row(Tail(streams), endStream)
      /\ Tail(streams) = <<>> <=> Len(streams) = 1
    BY <1>1, RowPopped
<1>3. Len(streams) \in Nat \ {0}
    BY <1>1, FirstAndRest DEF Row
<1>4. bodies' = Cardinality(WithBody(Tail(streams))) /\ bodies' \in Nat
    BY PoppedIs DEF PopAll
<1>5. CASE more
    <2>2. Len(streams) > 1
        BY <1>5, Zenon DEF PopAll
    <2>5. \A l \in Nat : l > 1 => l # 1
        OBVIOUS
    <2>4. Len(streams) # 1
        BY <1>3, <2>2, <2>5, Zenon
    <2>1. Tail(streams) # <<>>
        BY <1>2, <2>4, Zenon
    <2>3. streams' = Cancelled(Tail(streams))
        BY <1>5 DEF PopAll
    <2> QED BY <1>2, <1>4, <1>5, <2>1, <2>3, CancelledIs
<1>6. CASE ~more
    <2>2. ~(Len(streams) > 1)
        BY <1>6, Zenon DEF PopAll
    <2>1. streams' = <<>> /\ Tail(streams) = <<>>
        BY <1>2, <1>3, <1>6, <2>2 DEF PopAll
    <2> QED BY <1>4, <1>6, <2>1
<1> QED BY <1>5, <1>6

\* Read and Seek are called; they begin under the lock.
LEMMA CallsInv ==
    ASSUME ParallelInv,
           \/ \E n \in Lens : Read(n)
           \/ \E to \in Targets : Seek(to)
    PROVE  ParallelInv'
<1>1. PICK r \in [pc : ReadPlaces, left : Nat, nn : Nat] : r = rd
    BY DEF ParallelInv, Typed
<1>2. /\ rd.pc = "idle" /\ cl # "closing" /\ rd.nn = 0
      /\ UNCHANGED <<endStream, streams, closed, cl, ctxDone, bodies>>
    BY DEF Read, Seek, Held, ParallelInv, Placed
<1>3. Typed /\ Placed /\ (~closed => InStep)
    BY <1>2 DEF ParallelInv, Placed
<1>4. Typed' /\ Placed'
    <2>1. ASSUME NEW n \in Lens, Read(n)
          PROVE  Typed' /\ Placed'
        <3>1. n \in Nat
            BY ParallelAssumption
        <3>2. UNCHANGED offset
            BY <2>1 DEF Read
        <3>3. CASE closed
            <4>1. rd' = rd
                BY <2>1, <3>3 DEF Read
            <4> QED BY <1>2, <1>3, <3>2, <3>3, <4>1 DEF Typed, Placed
        <3>4. CASE ~closed
            <4>1. rd' = [pc |-> "open", left |-> n, nn |-> 0]
                BY <2>1, <3>4 DEF Read
            <4>2. rd' \in [pc : ReadPlaces, left : Nat, nn : Nat] /\ rd'.pc = "open" /\ rd'.nn = 0
                BY <3>1, <4>1 DEF ReadPlaces
            <4>3. InStep'
                BY <1>2, <1>3, <3>2, <3>4, <4>2 DEF InStep, Current
            <4> QED BY <1>2, <1>3, <3>2, <3>4, <4>2, <4>3 DEF Typed, Placed
        <3> QED BY <3>3, <3>4
    <2>2. ASSUME NEW to \in Targets, Seek(to)
          PROVE  Typed' /\ Placed'
        <3>1. CASE closed \/ to \notin 0 .. Size - 1
            <4>1. UNCHANGED <<offset, rd>>
                BY <2>2, <3>1 DEF Seek
            <4>2. InStep => InStep'
                BY <1>2, <4>1 DEF InStep, Current
            <4> QED BY <1>2, <1>3, <4>1, <4>2 DEF Typed, Placed
        <3>2. CASE ~closed /\ to \in 0 .. Size - 1 /\ to = offset
            <4>1. UNCHANGED <<offset, rd>>
                BY <2>2, <3>2 DEF Seek
            <4>2. InStep => InStep'
                BY <1>2, <4>1 DEF InStep, Current
            <4> QED BY <1>2, <1>3, <4>1, <4>2 DEF Typed, Placed
        <3>3. CASE ~closed /\ to \in 0 .. Size - 1 /\ to # offset
            <4>1. offset' = to /\ rd' = [Idle EXCEPT !.pc = "seek"]
                BY <2>2, <3>3 DEF Seek
            <4>2. rd' \in [pc : ReadPlaces, left : Nat, nn : Nat] /\ rd'.pc = "seek" /\ rd'.nn = 0
                BY <4>1 DEF ReadPlaces, Idle
            <4>3. offset' \in 0 .. Size
                BY <3>3, <4>1, ChunkIs
            <4> QED BY <1>2, <1>3, <3>3, <4>2, <4>3 DEF Typed, Placed
        <3> QED BY <3>1, <3>2, <3>3
    <2> QED BY <2>1, <2>2
<1> QED BY <1>2, <1>4 DEF ParallelInv

\* Streams are started: what was next is next.
LEMMA StartedInStep ==
    ASSUME ParallelInv, StartStreams, InStep
    PROVE  /\ Row(streams', endStream') /\ endStream' \in 0 .. Size
           /\ WithBody(streams') = WithBody(streams)
           /\ IF streams' = <<>> THEN offset + rd.nn = Size
              ELSE /\ offset + rd.nn = Head(streams').offset + Head(streams').rOffset
                   /\ Head(streams').readBytes = Head(streams').rOffset
           /\ streams' = <<>> => offset + rd.nn = endStream'
<1>1. Row(streams, endStream) /\ endStream \in 0 .. Size /\ ctxDone \in BOOLEAN
    BY DEF ParallelInv, Typed
<1>2. /\ Row(streams', endStream') /\ endStream' \in 0 .. Size
      /\ WithBody(streams') = WithBody(streams)
      /\ streams # <<>> => streams' # <<>> /\ Head(streams') = Head(streams)
      /\ streams = <<>> /\ streams' # <<>> =>
            Head(streams').offset = endStream /\ Untouched(Head(streams'))
      /\ streams' = <<>> => streams = <<>> /\ endStream' = endStream /\ endStream = Size
    BY <1>1, RowStarted
<1>3. CASE streams # <<>>
    BY <1>2, <1>3 DEF InStep, Current
<1>4. CASE streams = <<>>
    <2>1. offset + rd.nn = endStream
        BY <1>4 DEF InStep
    <2> QED BY <1>1, <1>2, <1>4, <2>1 DEF Untouched
<1> QED BY <1>2, <1>3, <1>4

LEMMA OpenInv ==
    ASSUME ParallelInv, RangesAreServed, Open
    PROVE  ParallelInv'
<1>1. /\ rd.pc = "idle" /\ cl # "closing" /\ ~closed /\ StartStreams
      /\ UNCHANGED <<offset, closed, rd, cl, ctxDone, bodies>>
    BY DEF Open, Held, RangesAreServed, ParallelInv, Placed
<1>2. InStep
    BY <1>1 DEF ParallelInv, Placed
<1>3. /\ Row(streams', endStream') /\ endStream' \in 0 .. Size
      /\ WithBody(streams') = WithBody(streams)
      /\ IF streams' = <<>> THEN offset + rd.nn = endStream'
         ELSE /\ offset + rd.nn = Head(streams').offset + Head(streams').rOffset
              /\ Head(streams').readBytes = Head(streams').rOffset
    BY <1>1, <1>2, StartedInStep
<1>4. InStep'
    BY <1>1, <1>3 DEF InStep, Current
<1>5. Placed'
    BY <1>1, <1>4 DEF ParallelInv, Placed
<1> QED BY <1>1, <1>3, <1>5 DEF ParallelInv, Typed

\* The reader's record, typed.
LEMMA RdIs ==
    ASSUME ParallelInv
    PROVE  rd.pc \in ReadPlaces /\ rd.left \in Nat /\ rd.nn \in Nat /\ offset \in Nat
BY ChunkIs DEF ParallelInv, Typed

LEMMA OpenStreamsInv ==
    ASSUME ParallelInv, OpenStreams
    PROVE  ParallelInv'
<1>1. /\ rd.pc = "open" /\ ~closed /\ cl # "closing" /\ rd.nn = 0 /\ InStep
      /\ UNCHANGED <<offset, closed, cl, ctxDone, bodies>>
    BY DEF OpenStreams, ParallelInv, Placed
<1>2. PICK r \in [pc : ReadPlaces, left : Nat, nn : Nat] : r = rd
    BY DEF ParallelInv, Typed
<1>3. CASE rd.left = 0
    <2>1. rd' = Idle /\ UNCHANGED <<streams, endStream>>
        BY <1>3 DEF OpenStreams
    <2>2. rd' \in [pc : ReadPlaces, left : Nat, nn : Nat] /\ rd'.pc = "idle" /\ rd'.nn = 0
        BY <2>1 DEF Idle, ReadPlaces
    <2>3. InStep'
        BY <1>1, <2>1, <2>2 DEF InStep, Current
    <2>4. Placed'
        BY <1>1, <2>1, <2>2, <2>3 DEF ParallelInv, Placed
    <2> QED BY <1>1, <2>1, <2>2, <2>4 DEF ParallelInv, Typed
<1>4. CASE rd.left # 0
    <2>1. StartStreams
        BY <1>4 DEF OpenStreams
    <2>2. /\ Row(streams', endStream') /\ endStream' \in 0 .. Size
          /\ WithBody(streams') = WithBody(streams)
          /\ IF streams' = <<>> THEN offset + rd.nn = endStream'
             ELSE /\ offset + rd.nn = Head(streams').offset + Head(streams').rOffset
                  /\ Head(streams').readBytes = Head(streams').rOffset
        BY <1>1, <2>1, StartedInStep
    <2>3. rd' = IF streams' = <<>> THEN Idle ELSE [rd EXCEPT !.pc = "stream"]
        BY <1>4 DEF OpenStreams
    <2>4. /\ rd' \in [pc : ReadPlaces, left : Nat, nn : Nat] /\ rd'.nn = 0
          /\ rd'.pc = IF streams' = <<>> THEN "idle" ELSE "stream"
          /\ streams' # <<>> => rd'.left # 0
        BY <1>1, <1>2, <1>4, <2>3 DEF Idle, ReadPlaces
    <2>5. InStep'
        BY <1>1, <2>2, <2>4 DEF InStep, Current
    <2>6. Placed'
        BY <1>1, <2>4, <2>5 DEF ParallelInv, Placed
    <2> QED BY <1>1, <2>2, <2>4, <2>6 DEF ParallelInv, Typed
<1> QED BY <1>3, <1>4

\* What TakeBytes takes: n bytes of the first stream, those that are next.
LEMMA TakenIs ==
    ASSUME ParallelInv, RangesAreServed, TakeBytes
    PROVE  LET s == Current
               n == Taken(s, rd.left)
               eof == s.readBytes + n >= s.size
               t == [s EXCEPT !.readBytes = s.readBytes + n, !.rOffset = s.rOffset + n]
               taken == With(streams, 1, t)
           IN  /\ StreamRight(s) /\ streams # <<>>
               /\ n \in Nat \ {0} /\ n <= rd.left /\ n < rd.left + 1 /\ s.rOffset + n <= s.size
               /\ offset + rd.nn = s.offset + s.rOffset /\ s.readBytes = s.rOffset
               /\ Row(taken, endStream) /\ taken # <<>> /\ Head(taken) = t /\ StreamRight(t)
               /\ WithBody(taken) = WithBody(streams)
               /\ streams' = IF eof THEN Cancelled(taken) ELSE taken
<1> DEFINE s == Current
           n == Taken(s, rd.left)
           eof == s.readBytes + n >= s.size
           t == [s EXCEPT !.readBytes = s.readBytes + n, !.rOffset = s.rOffset + n]
           taken == With(streams, 1, t)
<1>1. rd.pc = "stream" /\ streams # <<>> /\ rd.left # 0 /\ rd.left \in Nat /\ InStep
    BY RdIs DEF TakeBytes, ParallelInv, Placed
<1>2. Row(streams, endStream) /\ streams \in Seq(StreamType)
    BY DEF ParallelInv, Row
<1>3. StreamRight(s) /\ s = streams[1] /\ 1 \in 1 .. Len(streams)
    <2>1. StreamRight(Head(streams)) /\ Head(streams) = streams[1]
        BY <1>1, <1>2, RowPopped
    <2>2. Len(streams) \in Nat \ {0}
        BY <1>1, <1>2, FirstAndRest
    <2> QED BY <2>1, <2>2 DEF Current
<1>4. PICK x \in StreamType : x = s
    BY <1>3 DEF StreamRight
<1>5. offset + rd.nn = s.offset + s.rOffset /\ s.readBytes = s.rOffset
    BY <1>1 DEF InStep
<1>6. /\ x.have \in Nat /\ x.rOffset \in Nat /\ x.readBytes \in Nat /\ x.size \in Nat
      /\ x.have <= x.size /\ x.rOffset < x.have
    BY <1>3, <1>4, ChunkIs DEF StreamRight, StreamType, TakeBytes, NothingToRead
<1>7. n \in Nat \ {0} /\ n <= rd.left /\ s.rOffset + n <= s.have
    BY <1>1, <1>4, <1>6 DEF Taken, MinOf
<1> HIDE DEF n
<1>8. PICK p \in Nat : p = s.rOffset + n /\ p <= s.have /\ p <= s.size
    BY <1>4, <1>6, <1>7
<1>9. t = [x EXCEPT !.readBytes = p, !.rOffset = p]
    BY <1>4, <1>5, <1>8
<1>10. StreamRight(t) /\ t.offset = s.offset /\ t.size = s.size /\ t.rc = s.rc
    <2>1. p \in 0 .. Size /\ p \in 0 .. ChunkSize
        <3>1. x.size <= ChunkSize /\ x.have <= Size
            BY <1>4, <1>6, ChunkIs DEF StreamType
        <3> QED BY <1>4, <1>6, <1>8, <3>1, ChunkIs
    <2>2. [x EXCEPT !.readBytes = p, !.rOffset = p] \in StreamType
        BY <2>1 DEF StreamType
    <2> QED BY <1>3, <1>4, <1>8, <1>9, <2>2 DEF StreamRight, StreamType, Done
<1> HIDE DEF t
<1>11. /\ Row(taken, endStream) /\ taken # <<>> /\ Head(taken) = t
       /\ WithBody(taken) = WithBody(streams)
    BY <1>2, <1>3, <1>10, WithIs
<1>12. streams' = IF eof THEN Cancelled(taken) ELSE taken
    BY DEF TakeBytes, With, t, n
<1> QED BY <1>1, <1>3, <1>5, <1>7, <1>8, <1>10, <1>11, <1>12 DEF n, t

LEMMA TakeBytesInv ==
    ASSUME ParallelInv, RangesAreServed, TakeBytes
    PROVE  ParallelInv'
<1>1. PICK s \in StreamType, n \in Nat \ {0}, t \in StreamType :
          /\ StreamRight(s) /\ s = Current /\ streams # <<>> /\ n = Taken(s, rd.left)
          /\ n <= rd.left /\ s.rOffset + n <= s.size
          /\ offset + rd.nn = s.offset + s.rOffset /\ s.readBytes = s.rOffset
          /\ t = [s EXCEPT !.readBytes = s.readBytes + n, !.rOffset = s.rOffset + n]
          /\ Row(With(streams, 1, t), endStream) /\ With(streams, 1, t) # <<>> /\ Head(With(streams, 1, t)) = t
          /\ WithBody(With(streams, 1, t)) = WithBody(streams)
          /\ streams' = IF s.readBytes + n >= s.size THEN Cancelled(With(streams, 1, t)) ELSE With(streams, 1, t)
    BY TakenIs DEF StreamRight
<1>2. PICK r \in [pc : ReadPlaces, left : Nat, nn : Nat] : r = rd
    BY DEF ParallelInv, Typed
<1>3. PICK eof \in BOOLEAN : eof <=> s.readBytes + n >= s.size
    OBVIOUS
<1>4. PICK u : u = Head(streams') /\ Alike(u, t)
    <2>1. eof => Alike(Head(Cancelled(With(streams, 1, t))), Head(With(streams, 1, t)))
        BY <1>1, CancelledIs
    <2>2. CASE eof
        <3>1. streams' = Cancelled(With(streams, 1, t)) /\ Head(With(streams, 1, t)) = t
            BY <1>1, <1>3, <2>2
        <3> QED BY <2>1, <2>2, <3>1
    <2>3. CASE ~eof
        <3>1. streams' = With(streams, 1, t) /\ Head(With(streams, 1, t)) = t
            BY <1>1, <1>3, <2>3
        <3> QED BY <3>1 DEF Alike
    <2> QED BY <2>2, <2>3
<1>5. Row(streams', endStream) /\ streams' # <<>> /\ WithBody(streams') = WithBody(streams)
    BY <1>1, CancelledIs
<1>6. /\ s.offset \in Nat /\ s.size \in Nat /\ s.rOffset \in Nat /\ s.offset + s.size <= Size
      /\ t.offset = s.offset /\ t.size = s.size
      /\ t.readBytes = s.rOffset + n /\ t.rOffset = s.rOffset + n
    BY <1>1, ChunkIs DEF StreamRight, StreamType, Done
<1>7. PICK p \in Nat : p = s.rOffset + n /\ p <= s.size /\ (eof <=> p = s.size)
    BY <1>1, <1>3, <1>6
<1>8. /\ u.offset = s.offset /\ u.size = s.size /\ u.readBytes = p /\ u.rOffset = p
    BY <1>4, <1>6, <1>7 DEF Alike
<1>9. /\ rd.pc = "stream" /\ ~closed
      /\ offset' = IF eof \/ n = rd.left THEN offset + rd.nn + n ELSE offset
      /\ rd' = [pc |-> IF eof THEN "pop" ELSE IF eof \/ n = rd.left THEN "open" ELSE "stream",
                left |-> rd.left - n,
                nn |-> IF eof \/ n = rd.left THEN 0 ELSE rd.nn + n]
      /\ UNCHANGED <<endStream, closed, cl, ctxDone, bodies>>
    BY <1>1, <1>3 DEF TakeBytes, ParallelInv, Placed
<1>10. PICK l \in Nat, k \in Nat, o \in 0 .. Size : l = rd.left /\ k = rd.nn /\ o = offset
    BY <1>2 DEF ParallelInv, Typed
<1>11. /\ rd'.pc = IF eof THEN "pop" ELSE IF n = l THEN "open" ELSE "stream"
       /\ rd'.left = l - n /\ rd'.nn = IF eof \/ n = l THEN 0 ELSE k + n
       /\ offset' = IF eof \/ n = l THEN o + k + n ELSE o
    BY <1>9, <1>10
<1>12. rd' \in [pc : ReadPlaces, left : Nat, nn : Nat]
    <2>1. l - n \in Nat /\ k + n \in Nat
        BY <1>1, <1>10
    <2> QED BY <1>9, <1>10, <2>1 DEF ReadPlaces
<1>13. offset' + rd'.nn = s.offset + p /\ offset' \in 0 .. Size
    <2>5. PICK a \in Nat, b \in Nat, z \in Nat :
              /\ a = s.offset /\ b = s.rOffset /\ z = s.size
              /\ o + k = a + b /\ p = b + n /\ p <= z /\ a + z <= Size
        BY <1>1, <1>6, <1>7, <1>10
    <2>6. a + p <= Size /\ o + k + n = a + p
        BY <2>5, ChunkIs
    <2>1. o + k + n = s.offset + p /\ s.offset + p <= Size
        BY <2>5, <2>6
    <2>2. o + (k + n) = o + k + n
        BY <1>10
    <2>3. CASE eof \/ n = l
        <3>1. offset' = s.offset + p /\ rd'.nn = 0
            BY <1>11, <2>1, <2>3
        <3> QED BY <1>6, <1>7, <2>1, <3>1, ChunkIs
    <2>4. CASE ~(eof \/ n = l)
        <3>1. offset' = o /\ rd'.nn = k + n
            BY <1>11, <2>4
        <3> QED BY <1>10, <2>1, <2>2, <3>1
    <2> QED BY <2>3, <2>4
<1>14. ~eof => InStep'
    BY <1>4, <1>5, <1>8, <1>13 DEF InStep, Current
<1>15. eof => offset' = Done(Current')
    BY <1>4, <1>6, <1>7, <1>8, <1>11, <1>13 DEF Done, Current
<1>16. rd'.nn # 0 => rd'.pc = "stream"
    BY <1>11
<1>17. rd'.pc = "stream" => rd'.left # 0
    BY <1>1, <1>10, <1>11
<1>18. cl = "closing" => closed
    BY DEF ParallelInv, Placed
<1>19. Placed'
    BY <1>5, <1>9, <1>11, <1>14, <1>15, <1>16, <1>17, <1>18 DEF Placed
<1>20. Typed'
    BY <1>9, <1>12, <1>13 DEF ParallelInv, Typed
<1> QED BY <1>5, <1>9, <1>19, <1>20 DEF ParallelInv

\* The facts of a row that lost its first stream, for the streams of the reader.
LEMMA TailIs ==
    ASSUME ParallelInv, streams # <<>>
    PROVE  /\ Row(Tail(streams), endStream) /\ StreamRight(Current)
           /\ Tail(streams) = <<>> => Done(Current) = endStream
           /\ Tail(streams) # <<>> => /\ Untouched(Head(Tail(streams)))
                                      /\ Head(Tail(streams)).offset = Done(Current)
BY RowPopped DEF ParallelInv, Current

LEMMA PopStreamInv ==
    ASSUME ParallelInv, PopStream
    PROVE  ParallelInv'
<1>1. /\ rd.pc = "pop" /\ Popped /\ streams' = Tail(streams)
      /\ streams # <<>> /\ ~closed /\ cl # "closing" /\ rd.nn = 0 /\ offset = Done(Current)
      /\ UNCHANGED <<offset, endStream, closed, cl, ctxDone>>
    BY DEF PopStream, ParallelInv, Placed
<1>2. PICK r \in [pc : ReadPlaces, left : Nat, nn : Nat] : r = rd
    BY DEF ParallelInv, Typed
<1>3. rd' = IF Current.err = "error" THEN Idle ELSE [r EXCEPT !.pc = "open"]
    BY <1>2 DEF PopStream
<1>4. /\ rd' \in [pc : ReadPlaces, left : Nat, nn : Nat]
      /\ rd'.pc \in {"idle", "open"} /\ rd'.nn = 0
    BY <1>1, <1>2, <1>3 DEF Idle, ReadPlaces
<1>5. bodies' = Cardinality(WithBody(streams')) /\ bodies' \in Nat
    BY <1>1, PoppedIs
<1>6. /\ Row(streams', endStream)
      /\ streams' = <<>> => Done(Current) = endStream
      /\ streams' # <<>> => Untouched(Head(streams')) /\ Head(streams').offset = Done(Current)
    BY <1>1, TailIs
<1>7. offset \in Nat
    BY RdIs
<1>8. InStep'
    BY <1>1, <1>4, <1>6, <1>7 DEF InStep, Current, Untouched
<1>9. Placed'
    BY <1>1, <1>4, <1>8 DEF Placed
<1> QED BY <1>1, <1>4, <1>5, <1>6, <1>9 DEF ParallelInv, Typed

-------------------------------------------------------------------------------
(* Seek goes on *)

LEMMA SeekInv ==
    ASSUME ParallelInv, SeekRestarts \/ SeekDitches \/ Ditch \/ DitchAll \/ SeekInside \/ SeekBuffer
    PROVE  ParallelInv'
<1>1. PICK r \in [pc : ReadPlaces, left : Nat, nn : Nat] : r = rd
    BY DEF ParallelInv, Typed
<1>2. /\ rd.pc \in {"seek", "ditch", "ditchAll", "seekWait"} /\ rd.nn = 0 /\ ~closed /\ cl # "closing"
      /\ UNCHANGED <<offset, closed, cl, ctxDone>>
    BY DEF SeekRestarts, SeekDitches, Ditch, DitchAll, SeekInside, SeekBuffer, ParallelInv, Placed
<1>3. Row(streams, endStream) /\ endStream \in 0 .. Size /\ offset \in 0 .. Size
    BY DEF ParallelInv, Typed
<1>4. /\ Idle \in [pc : ReadPlaces, left : Nat, nn : Nat] /\ Idle.pc = "idle" /\ Idle.nn = 0
      /\ \A p \in ReadPlaces : /\ [r EXCEPT !.pc = p] \in [pc : ReadPlaces, left : Nat, nn : Nat]
                               /\ [r EXCEPT !.pc = p].pc = p /\ [r EXCEPT !.pc = p].nn = r.nn
    BY DEF Idle, ReadPlaces
<1>5. CASE SeekRestarts
    <2>1. /\ streams = <<>> /\ endStream' = offset /\ rd' = Idle
          /\ UNCHANGED <<streams, bodies>>
        BY <1>5 DEF SeekRestarts
    <2>2. Row(streams', endStream')
        BY <2>1, RowEmpty
    <2>3. InStep'
        BY <1>2, <1>3, <1>4, <2>1 DEF InStep
    <2>4. Placed'
        BY <1>2, <1>4, <2>1, <2>3 DEF Placed
    <2> QED BY <1>2, <1>3, <1>4, <2>1, <2>2, <2>4 DEF ParallelInv, Typed
<1>6. CASE SeekDitches
    <2>1. PICK p \in {"ditch", "ditchAll"} :
              /\ streams # <<>> /\ streams' = Cancelled(streams) /\ rd' = [r EXCEPT !.pc = p]
              /\ UNCHANGED <<endStream, bodies>>
        BY <1>1, <1>6 DEF SeekDitches
    <2>2. /\ Row(streams', endStream) /\ streams' # <<>> /\ WithBody(streams') = WithBody(streams)
        BY <1>3, <2>1, CancelledIs
    <2>3. rd' \in [pc : ReadPlaces, left : Nat, nn : Nat] /\ rd'.pc = p /\ rd'.nn = 0
        BY <1>1, <1>2, <1>4, <2>1 DEF ReadPlaces
    <2>4. Placed'
        BY <1>2, <2>1, <2>2, <2>3 DEF Placed
    <2> QED BY <1>2, <2>1, <2>2, <2>3, <2>4 DEF ParallelInv, Typed
<1>7. CASE Ditch
    <2>1. /\ Popped /\ streams # <<>> /\ streams' = Tail(streams) /\ rd' = [r EXCEPT !.pc = "seek"]
          /\ UNCHANGED endStream
        BY <1>1, <1>7 DEF Ditch, ParallelInv, Placed
    <2>2. Row(streams', endStream)
        BY <2>1, TailIs
    <2>3. bodies' = Cardinality(WithBody(streams')) /\ bodies' \in Nat
        BY <2>1, PoppedIs
    <2>4. rd' \in [pc : ReadPlaces, left : Nat, nn : Nat] /\ rd'.pc = "seek" /\ rd'.nn = 0
        BY <1>1, <1>2, <1>4, <2>1 DEF ReadPlaces
    <2>5. Placed'
        BY <1>2, <2>4 DEF Placed
    <2> QED BY <1>2, <2>1, <2>2, <2>3, <2>4, <2>5 DEF ParallelInv, Typed
<1>8. CASE DitchAll
    <2>1. PICK more \in BOOLEAN : /\ PopAll(more) /\ streams # <<>>
                                  /\ rd' = IF more THEN rd ELSE Idle
                                  /\ endStream' = IF more THEN endStream ELSE offset
        BY <1>8 DEF DitchAll, ParallelInv, Placed
    <2>2. /\ bodies' = Cardinality(WithBody(streams')) /\ bodies' \in Nat
          /\ more => Row(streams', endStream) /\ streams' # <<>>
          /\ ~more => streams' = <<>>
        BY <2>1, PopAllIs
    <2>3. Row(streams', endStream') /\ endStream' \in 0 .. Size
        BY <1>3, <2>1, <2>2, RowEmpty
    <2>4. CASE more
        <3>1. rd' = rd /\ endStream' = endStream /\ rd.pc = "ditchAll"
            BY <1>8, <2>1, <2>4 DEF DitchAll
        <3>2. Placed'
            BY <1>2, <2>2, <2>4, <3>1 DEF Placed
        <3> QED BY <1>2, <2>2, <2>3, <3>1, <3>2 DEF ParallelInv, Typed
    <2>5. CASE ~more
        <3>1. rd' = Idle /\ endStream' = offset /\ streams' = <<>>
            BY <2>1, <2>2, <2>5
        <3>2. InStep'
            BY <1>2, <1>3, <1>4, <3>1 DEF InStep
        <3>3. Placed'
            BY <1>2, <1>4, <3>1, <3>2 DEF Placed
        <3> QED BY <1>2, <1>4, <2>2, <2>3, <3>1, <3>3 DEF ParallelInv, Typed
    <2> QED BY <2>4, <2>5
<1>9. ASSUME NEW s \in StreamType, NEW t \in StreamType, s = Current, streams # <<>>,
             StreamRight(t), t.offset = s.offset, t.size = s.size, t.rc = s.rc,
             streams' = With(streams, 1, t), UNCHANGED <<endStream, bodies>>
      PROVE  /\ Row(streams', endStream') /\ streams' # <<>> /\ Current' = t
             /\ bodies' = Cardinality(WithBody(streams'))
    <2>1. 1 \in 1 .. Len(streams) /\ s = streams[1]
        BY <1>3, <1>9, FirstAndRest DEF Row, Current
    <2>2. /\ Row(With(streams, 1, t), endStream) /\ With(streams, 1, t) # <<>>
          /\ Head(With(streams, 1, t)) = t
          /\ WithBody(With(streams, 1, t)) = WithBody(streams)
        BY <1>3, <1>9, <2>1, WithIs
    <2> QED BY <1>9, <2>2 DEF ParallelInv, Current
<1>10. CASE SeekInside
    <2>1. /\ streams # <<>> /\ offset \in Current.offset .. Done(Current) - 1
          /\ streams' = [streams EXCEPT ![1].readBytes = offset - Current.offset]
          /\ rd' = [r EXCEPT !.pc = "seekWait"]
          /\ UNCHANGED <<endStream, bodies>>
        BY <1>1, <1>10 DEF SeekInside
    <2>2. PICK s \in StreamType : s = Current /\ StreamRight(s) /\ s = streams[1]
        BY <1>3, <2>1, TailIs, FirstAndRest DEF StreamRight, Row, Current
    <2>3. s.offset \in Nat /\ s.size \in Nat /\ s.size <= ChunkSize
        BY <2>2, ChunkIs DEF StreamType
    <2>12. s.offset <= offset /\ offset < s.offset + s.size /\ offset \in Nat
        BY <1>3, <2>1, <2>2, <2>3, ChunkIs DEF Done
    <2>4. PICK q \in Nat : q = offset - s.offset /\ q < s.size /\ q \in 0 .. ChunkSize
        BY <2>3, <2>12, ChunkIs
    <2> DEFINE t == [s EXCEPT !.readBytes = q]
    <2>5. streams' = With(streams, 1, t)
        BY <2>1, <2>2, <2>4 DEF With
    <2>6. t \in StreamType /\ StreamRight(t) /\ t.offset = s.offset /\ t.size = s.size /\ t.rc = s.rc
        BY <2>2, <2>4 DEF StreamType, StreamRight, Done
    <2>7. t.readBytes = q
        BY DEF StreamType
    <2> HIDE DEF t
    <2>8. /\ Row(streams', endStream') /\ streams' # <<>> /\ Current' = t
          /\ bodies' = Cardinality(WithBody(streams'))
        BY <1>9, <2>1, <2>2, <2>5, <2>6
    <2>9. rd' \in [pc : ReadPlaces, left : Nat, nn : Nat] /\ rd'.pc = "seekWait" /\ rd'.nn = 0
        BY <1>1, <1>2, <1>4, <2>1 DEF ReadPlaces
    <2>10. /\ Current'.offset <= offset /\ offset < Done(Current')
           /\ Current'.readBytes = offset - Current'.offset
        BY <1>3, <2>3, <2>4, <2>6, <2>7, <2>8 DEF Done
    <2>11. Placed'
        BY <1>2, <2>8, <2>9, <2>10 DEF Placed
    <2> QED BY <1>2, <2>1, <2>8, <2>9, <2>11 DEF ParallelInv, Typed
<1>11. CASE SeekBuffer
    <2>1. /\ streams # <<>> /\ Current.have >= offset - Current.offset
          /\ streams' = [streams EXCEPT ![1] = SoughtTo(@, offset - Current.offset)]
          /\ rd' = Idle /\ Current.offset <= offset /\ offset < Done(Current)
          /\ Current.readBytes = offset - Current.offset
          /\ UNCHANGED <<endStream, bodies>>
        BY <1>11 DEF SeekBuffer, ParallelInv, Placed
    <2>2. PICK s \in StreamType : s = Current /\ StreamRight(s) /\ s = streams[1]
        BY <1>3, <2>1, TailIs, FirstAndRest DEF StreamRight, Row, Current
    <2>3. s.offset \in Nat /\ s.size \in Nat /\ s.have \in Nat /\ s.have <= Size
        BY <2>2, ChunkIs DEF StreamType
    <2>4. PICK q \in Nat : q = offset - s.offset /\ q <= s.have /\ q \in 0 .. Size
        BY <1>3, <2>1, <2>2, <2>3, ChunkIs DEF Done
    <2> DEFINE t == [s EXCEPT !.rOffset = q]
    <2>12. MinOf(q, s.have) = q
        BY <2>3, <2>4 DEF MinOf
    <2>5. streams' = With(streams, 1, t)
        BY <2>1, <2>2, <2>4, <2>12 DEF With, SoughtTo
    <2>6. t \in StreamType /\ StreamRight(t) /\ t.offset = s.offset /\ t.size = s.size /\ t.rc = s.rc
        BY <2>2, <2>4 DEF StreamType, StreamRight, Done
    <2>7. t.rOffset = q /\ t.readBytes = q
        BY <2>1, <2>2, <2>4 DEF StreamType
    <2> HIDE DEF t
    <2>8. /\ Row(streams', endStream') /\ streams' # <<>> /\ Current' = t
          /\ bodies' = Cardinality(WithBody(streams'))
        BY <1>9, <2>1, <2>2, <2>5, <2>6
    <2>9. InStep'
        BY <1>2, <1>3, <1>4, <2>1, <2>3, <2>4, <2>6, <2>7, <2>8 DEF InStep
    <2>10. Placed'
        BY <1>2, <1>4, <2>1, <2>8, <2>9 DEF Placed
    <2> QED BY <1>2, <1>4, <2>1, <2>8, <2>10 DEF ParallelInv, Typed
<1> QED BY <1>5, <1>6, <1>7, <1>8, <1>10, <1>11

-------------------------------------------------------------------------------
(* Close, and the context *)

LEMMA CloseInv ==
    ASSUME ParallelInv, CallClose \/ CloseBegin \/ CloseNext
    PROVE  ParallelInv'
<1>1. UNCHANGED <<offset, endStream, rd, ctxDone>>
    BY DEF CallClose, CloseBegin, CloseNext
<1>2. Typed /\ Row(streams, endStream) /\ Placed
    BY DEF ParallelInv
<1>3. CASE CallClose
    <2>1. cl = "idle" /\ cl' = "waiting" /\ UNCHANGED <<streams, closed, bodies>>
        BY <1>3 DEF CallClose
    <2>2. InStep => InStep'
        BY <1>1, <2>1 DEF InStep, Current
    <2>3. Placed'
        BY <1>1, <1>2, <2>1, <2>2 DEF Placed, Current
    <2> QED BY <1>1, <2>1, <2>3 DEF ParallelInv, Typed
<1>4. CASE CloseBegin
    <2>1. /\ rd.pc = "idle" /\ cl = "waiting" /\ closed' = TRUE /\ UNCHANGED bodies
          /\ IF closed \/ streams = <<>> THEN cl' = "idle" /\ UNCHANGED streams
             ELSE cl' = "closing" /\ streams' = Cancelled(streams)
        BY <1>4 DEF CloseBegin, Held
    <2>2. CASE closed \/ streams = <<>>
        <3>1. streams = <<>>
            BY <1>2, <2>1, <2>2 DEF Placed
        <3>2. Placed'
            BY <1>1, <1>2, <2>1, <2>2, <3>1 DEF Placed
        <3> QED BY <1>1, <2>1, <2>2, <3>2 DEF ParallelInv, Typed
    <2>3. CASE ~(closed \/ streams = <<>>)
        <3>1. /\ Row(streams', endStream) /\ streams' # <<>>
              /\ WithBody(streams') = WithBody(streams)
            BY <1>2, <2>1, <2>3, CancelledIs
        <3>2. Placed'
            BY <1>1, <1>2, <2>1, <2>3, <3>1 DEF Placed
        <3> QED BY <1>1, <2>1, <2>3, <3>1, <3>2 DEF ParallelInv, Typed
    <2> QED BY <2>2, <2>3
<1>5. CASE CloseNext
    <2>1. cl = "closing" /\ closed /\ streams # <<>> /\ rd.pc = "idle" /\ UNCHANGED closed
        BY <1>2, <1>5 DEF CloseNext, Placed
    <2>2. PICK more \in BOOLEAN : PopAll(more) /\ cl' = IF more THEN cl ELSE "idle"
        BY <1>5 DEF CloseNext
    <2>3. /\ bodies' = Cardinality(WithBody(streams')) /\ bodies' \in Nat
          /\ more => Row(streams', endStream) /\ streams' # <<>>
          /\ ~more => streams' = <<>>
        BY <2>1, <2>2, PopAllIs
    <2>4. Row(streams', endStream')
        BY <1>1, <2>3, RowEmpty
    <2>5. Placed'
        BY <1>1, <1>2, <2>1, <2>2, <2>3 DEF Placed
    <2> QED BY <1>1, <2>1, <2>2, <2>3, <2>4, <2>5 DEF ParallelInv, Typed
<1> QED BY <1>3, <1>4, <1>5

LEMMA CancelInv ==
    ASSUME ParallelInv, CancelContext
    PROVE  ParallelInv'
<1>1. UNCHANGED <<offset, endStream, closed, rd, cl, bodies>> /\ ctxDone' = TRUE
    BY DEF CancelContext
<1>2. PICK ss \in Seq(StreamType) : ss = streams /\ Len(ss) \in Nat /\ DOMAIN ss = 1 .. Len(ss)
    BY LenProperties DEF ParallelInv, Row
<1>3. streams' = [i \in 1 .. Len(ss) |-> [ss[i] EXCEPT !.cancelled = TRUE]]
    BY <1>2 DEF CancelContext
<1>4. \A i \in 1 .. Len(ss) : /\ streams'[i] = [ss[i] EXCEPT !.cancelled = TRUE]
                              /\ ss[i] \in StreamType /\ StreamRight(ss[i])
    BY <1>2, <1>3 DEF ParallelInv, Row
<1>5. ASSUME NEW s \in StreamType, StreamRight(s)
      PROVE  LET t == [s EXCEPT !.cancelled = TRUE] IN
             t \in StreamType /\ StreamRight(t) /\ Alike(t, s) /\ t.rc = s.rc
    BY <1>5 DEF StreamType, StreamRight, Alike, Done
<1>6. \A i \in 1 .. Len(ss) : /\ streams'[i] \in StreamType /\ StreamRight(streams'[i])
                              /\ Alike(streams'[i], ss[i]) /\ streams'[i].rc = ss[i].rc
    BY <1>4, <1>5
<1>7. streams' \in [1 .. Len(ss) -> StreamType]
    BY <1>3, <1>6
<1>8. streams' \in Seq(StreamType)
    BY <1>2, <1>7, SeqDef
<1>9. PICK tt \in Seq(StreamType) : tt = streams' /\ Len(tt) = Len(ss) /\ DOMAIN tt = 1 .. Len(ss)
    <2>1. DOMAIN streams' = 1 .. Len(streams') /\ Len(streams') \in Nat
        BY <1>8, LenProperties
    <2>2. Len(streams') = Len(ss)
        BY <1>2, <1>7, <2>1
    <2> QED BY <1>8, <2>1, <2>2
<1>10. Row(ss, endStream)
    BY <1>2 DEF ParallelInv
<1>11. \A i \in 2 .. Len(ss) : i \in 1 .. Len(ss) /\ Untouched(tt[i])
    BY <1>6, <1>9, <1>10 DEF Row, Untouched, Alike
<1>12. \A i \in 1 .. Len(ss) : /\ StreamRight(tt[i])
                               /\ tt[i].offset = ss[i].offset /\ tt[i].size = ss[i].size
    BY <1>6, <1>9 DEF Alike
<1>13. Row(tt, endStream)
    BY <1>9, <1>10, <1>11, <1>12, RowChanged
<1>14. WithBody(tt) = WithBody(ss)
    BY <1>2, <1>6, <1>9 DEF WithBody
<1>15. /\ ss = <<>> <=> Len(ss) = 0
       /\ tt = <<>> <=> Len(ss) = 0
    BY <1>9, EmptySeq
<1>16. ss # <<>> => Alike(Head(tt), Head(ss))
    <2>1. ss # <<>> => 1 \in 1 .. Len(ss) /\ Head(ss) = ss[1] /\ Head(tt) = tt[1]
        BY <1>2, <1>9, <1>15, FirstAndRest
    <2> QED BY <1>6, <1>9, <2>1
<1>17. Placed'
    BY <1>1, <1>2, <1>9, <1>15, <1>16, PlacedSame DEF ParallelInv, Current
<1> QED BY <1>1, <1>2, <1>9, <1>13, <1>14, <1>17 DEF ParallelInv, Typed

-------------------------------------------------------------------------------
(* The parallel reader as a whole *)

LEMMA ParallelInit == Init => ParallelInv
<1> SUFFICES ASSUME Init
             PROVE  ParallelInv
    OBVIOUS
<1>1. rd \in [pc : ReadPlaces, left : Nat, nn : Nat] /\ rd.pc = "idle" /\ rd.nn = 0
    BY DEF Init, Idle, ReadPlaces
<1>2. Typed
    <2>1. 0 \in 0 .. Size /\ 0 \in Nat
        BY ChunkIs
    <2>2. /\ offset = 0 /\ endStream = 0 /\ closed = FALSE /\ ctxDone = FALSE /\ bodies = 0
          /\ cl = "idle"
        BY DEF Init
    <2> QED BY <1>1, <2>1, <2>2 DEF Typed
<1>3. streams = <<>> /\ Row(streams, endStream) /\ bodies = Cardinality(WithBody(streams))
    BY RowEmpty DEF Init
<1>4. Placed
    BY <1>1, <1>3 DEF Init, Placed, InStep
<1> QED BY <1>2, <1>3, <1>4 DEF ParallelInv

LEMMA ParallelNext == ParallelInv /\ RangesAreServed /\ [Next]_vars => ParallelInv'
<1> SUFFICES ASSUME ParallelInv, RangesAreServed, [Next]_vars
             PROVE  ParallelInv'
    OBVIOUS
<1>1. CASE UNCHANGED vars
    BY <1>1 DEF vars, ParallelInv, Typed, Placed, InStep, Current
<1>2. CASE ReaderStep
    BY <1>2, OpenStreamsInv, TakeBytesInv, PopStreamInv, SeekInv DEF ReaderStep
<1> QED BY <1>1, <1>2, WriterInv, CallsInv, OpenInv, CloseInv, CancelInv DEF Next

LEMMA ParallelMeans == ParallelInv => StreamsFit /\ BodiesAreOwned
<1> SUFFICES ASSUME ParallelInv
             PROVE  StreamsFit /\ BodiesAreOwned
    OBVIOUS
<1>1. PICK ss \in Seq(StreamType) : /\ ss = streams /\ Row(ss, endStream)
                                    /\ Len(ss) \in Nat /\ DOMAIN ss = 1 .. Len(ss)
    BY LenProperties DEF ParallelInv, Row
<1>2. TypeOK
    BY <1>1 DEF ParallelInv, Typed, TypeOK, ReadPlaces, Row
<1>3. StreamsAreContiguous
    <2>1. ss = <<>> <=> Len(ss) = 0
        BY <1>1, EmptySeq
    <2>2. Last(ss) = ss[Len(ss)]
        BY DEF Last
    <2> QED BY <1>1, <2>1, <2>2 DEF StreamsAreContiguous, Row
<1>4. BufferIsAtOffset
    <2> SUFFICES ASSUME rd.pc = "idle", ~closed
                 PROVE  offset = IF streams = <<>> THEN endStream ELSE Current.offset + Current.rOffset
        BY DEF BufferIsAtOffset
    <2>1. rd.nn = 0 /\ InStep
        BY DEF ParallelInv, Placed
    <2> QED BY <2>1, RdIs DEF InStep
<1>5. bodies = Cardinality({i \in DOMAIN streams : streams[i].rc})
    BY DEF ParallelInv, WithBody
<1>6. closed /\ cl # "closing" => bodies = 0
    BY RowEmpty DEF ParallelInv, Placed
<1> QED BY <1>2, <1>3, <1>4, <1>5, <1>6 DEF StreamsFit, BodiesAreOwned

\* The caller sees no step.
LEMMA NothingSeen ==
    ASSUME ParallelInv, ParallelInv', UNCHANGED <<offset, closed, told>>,
           rd.pc # "stream", rd'.pc # "stream" \/ rd'.nn = 0
    PROVE  UNCHANGED <<Place, closed, told>>
<1>1. rd.nn = 0 /\ rd'.nn = 0
    BY DEF ParallelInv, Placed
<1> QED BY <1>1 DEF Place

LEMMA ParallelSteps ==
    ASSUME ParallelInv, ParallelInv', RangesAreServed, [Next]_vars
    PROVE  [Stream!Next]_<<Place, closed, told>>
<1>1. CASE UNCHANGED vars
    BY <1>1 DEF vars, Place
<1>2. ASSUME NEW i \in 1 .. Streams, Writer(i)
      PROVE  UNCHANGED <<Place, closed, told>>
    <2>1. UNCHANGED <<offset, closed, rd, told>>
        BY <1>2 DEF Writer, WriterOpens, WriterCannotOpen, WriterAppends, WriterEnds, WriterFails,
                    WriterOnly
    <2> QED BY <2>1 DEF Place
<1>3. CASE Open \/ CallClose \/ CloseNext \/ CancelContext
    <2>1. UNCHANGED <<offset, closed, rd, told>>
        BY <1>3 DEF Open, CallClose, CloseNext, CancelContext
    <2> QED BY <2>1 DEF Place
<1>4. CASE SeekRestarts \/ SeekDitches \/ Ditch \/ DitchAll \/ SeekInside \/ SeekBuffer \/ PopStream
    <2>1. UNCHANGED <<offset, closed, told>> /\ rd.pc # "stream"
        BY <1>4 DEF SeekRestarts, SeekDitches, Ditch, DitchAll, SeekInside, SeekBuffer, PopStream
    <2>2. PICK r \in [pc : ReadPlaces, left : Nat, nn : Nat] : r = rd
        BY DEF ParallelInv, Typed
    <2>3. rd' = rd \/ rd' = Idle \/ \E p \in {"ditch", "ditchAll", "seek", "seekWait", "open"} :
                                        rd' = [r EXCEPT !.pc = p]
        BY <1>4, <2>2
            DEF SeekRestarts, SeekDitches, Ditch, DitchAll, SeekInside, SeekBuffer, PopStream
    <2>4. rd'.pc # "stream"
        BY <2>1, <2>2, <2>3 DEF Idle
    <2> QED BY <2>1, <2>4, NothingSeen
<1>5. ASSUME NEW n \in Lens, Read(n)
      PROVE  Stream!Call \/ Stream!Refuse
    <2>1. rd.pc = "idle" /\ UNCHANGED <<offset, closed>>
        BY <1>5 DEF Read, Held
    <2>2. rd.nn = 0
        BY <2>1 DEF ParallelInv, Placed
    <2>3. CASE closed
        <3>1. told' = Stream!FileClosed /\ Place' = Place
            BY <1>5, <2>1, <2>3 DEF Read, Place
        <3> QED BY <2>1, <2>3, <3>1 DEF Stream!Refuse
    <2>4. CASE ~closed
        <3>1. told' = Stream!Nothing /\ rd' = [pc |-> "open", left |-> n, nn |-> 0]
            BY <1>5, <2>4 DEF Read
        <3>2. Place' = Place
            BY <2>1, <2>2, <3>1 DEF Place
        <3> QED BY <2>1, <3>1, <3>2 DEF Stream!Call
    <2> QED BY <2>3, <2>4
<1>6. ASSUME NEW to \in Targets, Seek(to)
      PROVE  Stream!Refuse \/ Stream!Fail \/ \E x \in 0 .. Size - 1 : Stream!Move(x)
    <2>1. rd.pc = "idle" /\ UNCHANGED closed
        BY <1>6 DEF Seek, Held
    <2>2. rd.nn = 0 /\ offset \in Nat
        BY <2>1, RdIs DEF ParallelInv, Placed
    <2>3. CASE closed
        <3>1. told' = Stream!FileClosed /\ Place' = Place
            BY <1>6, <2>1, <2>3 DEF Seek, Place
        <3> QED BY <2>1, <2>3, <3>1 DEF Stream!Refuse
    <2>4. CASE ~closed /\ to \notin 0 .. Size - 1
        <3>1. told' = Stream!Error /\ UNCHANGED <<offset, rd>>
            BY <1>6, <2>4 DEF Seek
        <3>2. Place' = Place
            BY <2>1, <3>1 DEF Place
        <3> QED BY <2>1, <2>4, <3>1, <3>2 DEF Stream!Fail
    <2>5. CASE ~closed /\ to \in 0 .. Size - 1
        <3>1. /\ told' = Stream!Nothing /\ offset' = to
              /\ rd' = IF to = offset THEN rd ELSE [Idle EXCEPT !.pc = "seek"]
            BY <1>6, <2>5 DEF Seek
        <3>2. rd'.nn = 0
            BY <2>2, <3>1 DEF Idle
        <3>3. Place' = to
            BY <2>1, <2>5, <3>1, <3>2, ChunkIs DEF Place
        <3>4. Stream!Move(to)
            BY <2>1, <2>5, <3>1, <3>3 DEF Stream!Move
        <3> QED BY <2>5, <3>4
    <2> QED BY <2>3, <2>4, <2>5
<1>7. CASE OpenStreams
    <2>1. rd.pc = "open" /\ UNCHANGED <<offset, closed>> /\ ~closed /\ rd.nn = 0 /\ InStep
        BY <1>7 DEF OpenStreams, ParallelInv, Placed
    <2>2. PICK r \in [pc : ReadPlaces, left : Nat, nn : Nat] : r = rd
        BY DEF ParallelInv, Typed
    <2>3. CASE rd.left = 0
        <3>1. rd' = Idle /\ UNCHANGED told
            BY <1>7, <2>3 DEF OpenStreams
        <3>2. rd'.pc # "stream"
            BY <3>1 DEF Idle
        <3> QED BY <2>1, <3>1, <3>2, NothingSeen
    <2>4. CASE rd.left # 0
        <3>1. StartStreams
            BY <1>7, <2>4 DEF OpenStreams
        <3>2. streams' = <<>> => offset + rd.nn = Size
            BY <2>1, <3>1, StartedInStep
        <3>3. CASE streams' = <<>>
            <4>1. rd' = Idle /\ told' = Stream!Eof
                BY <1>7, <2>4, <3>3 DEF OpenStreams
            <4>2. rd'.nn = 0
                BY <4>1 DEF Idle
            <4>3. Place' = Place /\ Place = Size
                BY <2>1, <3>2, <3>3, <4>2 DEF Place
            <4> QED BY <2>1, <4>1, <4>3 DEF Stream!Next, Stream!End
        <3>4. CASE streams' # <<>>
            <4>1. rd' = [r EXCEPT !.pc = "stream"] /\ UNCHANGED told
                BY <1>7, <2>2, <2>4, <3>4 DEF OpenStreams
            <4>2. rd'.nn = 0
                BY <2>1, <2>2, <4>1
            <4> QED BY <2>1, <4>1, <4>2, NothingSeen
        <3> QED BY <3>3, <3>4
    <2> QED BY <2>3, <2>4
<1>8. CASE TakeBytes
    <2>1. PICK s \in StreamType, n \in Nat \ {0} :
              /\ StreamRight(s) /\ s = Current /\ n = Taken(s, rd.left)
              /\ s.rOffset + n <= s.size /\ offset + rd.nn = s.offset + s.rOffset
        BY <1>8, TakenIs DEF StreamRight
    <2>11. s.offset \in Nat /\ s.rOffset \in Nat /\ s.size \in Nat
        BY <2>1, ChunkIs DEF StreamType
    <2>12. offset \in Nat /\ rd.nn \in Nat /\ rd.left \in Nat
        BY RdIs
    <2>2. PICK a \in Nat, b \in Nat, z \in Nat, o \in Nat, k \in Nat, l \in Nat :
              /\ a = s.offset /\ b = s.rOffset /\ z = s.size /\ o = offset /\ k = rd.nn
              /\ l = rd.left
        BY <2>11, <2>12
    <2>3. o + k = a + b /\ b + n <= z /\ a + z <= Size /\ s.whole = FALSE
        BY <2>1, <2>2 DEF StreamRight, Done, StreamType
    <2>4. ~closed /\ UNCHANGED closed
        BY <1>8 DEF TakeBytes, ParallelInv, Placed
    <2>5. told' = Stream!Bytes(a + b, a + b + n)
        BY <1>8, <2>1, <2>2, <2>3 DEF TakeBytes
    <2>6. PICK back \in BOOLEAN : back <=> s.readBytes + n >= s.size \/ n = l
        OBVIOUS
    <2>7. offset' = (IF back THEN o + k + n ELSE o) /\ rd'.nn = IF back THEN 0 ELSE k + n
        BY <1>8, <2>1, <2>2, <2>6 DEF TakeBytes
    <2>8. Place = a + b /\ Place' = a + b + n
        <3>1. offset' + rd'.nn = a + b + n
            BY <2>2, <2>3, <2>7
        <3> QED BY <2>2, <2>3, <2>4, <3>1 DEF Place
    <2>9. n \in 1 .. Size /\ a + b + n <= Size
        BY <2>3, ChunkIs
    <2>10. Stream!Give(n)
        BY <2>4, <2>5, <2>8, <2>9 DEF Stream!Give
    <2> QED BY <2>9, <2>10 DEF Stream!Next
<1>9. CASE CloseBegin
    <2>1. rd.pc = "idle" /\ UNCHANGED <<offset, rd>> /\ closed' = TRUE
        BY <1>9 DEF CloseBegin, Held
    <2>2. CASE closed
        <3>1. told' = Stream!FileClosed /\ Place' = Place
            BY <1>9, <2>1, <2>2 DEF CloseBegin, Place
        <3> QED BY <2>1, <2>2, <3>1 DEF Stream!Next, Stream!Refuse, ParallelInv, Typed
    <2>3. CASE ~closed
        <3>1. UNCHANGED told /\ Place' = 0
            BY <1>9, <2>1, <2>3 DEF CloseBegin, Place
        <3> QED BY <2>1, <2>3, <3>1 DEF Stream!Next, Stream!Close
    <2> QED BY <2>2, <2>3
<1> QED BY <1>1, <1>2, <1>3, <1>4, <1>5, <1>6, <1>7, <1>8, <1>9 DEF Next, ReaderStep, Stream!Next

-------------------------------------------------------------------------------
(* The sequential reader's invariant *)

\* Where the chunk of reader c ends.
ChunkEnd(c) ==
    IF c.chunkSize <= 0 THEN Size ELSE Sequential!MinOf(Size, c.chunkOffset + c.chunkSize)

BodyType == [at : 0 .. Size, end : -1 .. Size]

SequentialType ==
    [offset : -1 .. Size, chunkOffset : 0 .. Size, chunkSize : Int,
     initialChunkSize : Int, maxChunkSize : Int, customChunkSize : BOOLEAN,
     closed : BOOLEAN, rc : BodyType, known : BOOLEAN]

\* What is true of a reader whatever its last call told.
SequentialRight(c) ==
    /\ c \in SequentialType
    /\ c.maxChunkSize = -1 \/ c.initialChunkSize <= c.maxChunkSize
    /\ c.maxChunkSize = -1 \/ c.customChunkSize \/ c.chunkSize <= c.maxChunkSize
    /\ c.rc # Sequential!NoBody => c.rc.end >= 0
    /\ c.closed => c.rc = Sequential!NoBody
    /\ ~c.closed /\ c.offset # -1 => c.rc # Sequential!NoBody

\* The body is the rest of the chunk.
BodyFits(c) ==
    /\ c.rc = [at |-> c.offset, end |-> ChunkEnd(c)]
    /\ c.chunkOffset <= c.offset /\ c.offset <= ChunkEnd(c)

SequentialInv ==
    /\ SequentialRight(seq) /\ left \in Nat /\ pc \in {"idle", "loop", "fill"}
    /\ seqBodies = IF seq.rc # Sequential!NoBody THEN 1 ELSE 0
    /\ pc # "idle" => ~seq.closed /\ told # Stream!Error
    /\ pc = "fill" => seq.offset # -1
    /\ ~seq.closed /\ seq.offset # -1 /\ told # Stream!Error => BodyFits(seq)

\* What the theorems suppose of the sequential reader: a body is not cut without an
\* error, and nobody reads on after one or seeks from the current offset (README.md,
\* section 4).
ErrorsAreHeeded ==
    SequentialFaults \cap {"drop", "short"} = {} /\ ~ReadsAfterError /\ "current" \notin Whences

\* What a call may say, the same in every instance of ByteStream.
LEMMA Words ==
    /\ Sequential!Stream!Nothing = Stream!Nothing /\ Sequential!Stream!Eof = Stream!Eof
    /\ Sequential!Stream!Error = Stream!Error /\ Sequential!Stream!FileClosed = Stream!FileClosed
    /\ \A a, b : Sequential!Stream!Bytes(a, b) = Stream!Bytes(a, b)
    /\ Reader!Nothing = Stream!Nothing /\ Reader!Eof = Stream!Eof
    /\ Reader!Error = Stream!Error /\ Reader!FileClosed = Stream!FileClosed
    /\ \A a, b : Reader!Bytes(a, b) = Stream!Bytes(a, b)
    /\ Stream!Nothing # Stream!Error /\ Stream!Eof # Stream!Error
    /\ Stream!FileClosed # Stream!Error /\ \A a, b : Stream!Bytes(a, b) # Stream!Error
BY DEF Sequential!Stream!Nothing, Sequential!Stream!Eof, Sequential!Stream!Error,
       Sequential!Stream!FileClosed, Sequential!Stream!Bytes, Stream!Nothing, Stream!Eof,
       Stream!Error, Stream!FileClosed, Stream!Bytes, Reader!Nothing, Reader!Eof,
       Reader!Error, Reader!FileClosed, Reader!Bytes

\* A chunk ends in the object, and not before it starts.
LEMMA ChunkEndIs ==
    ASSUME NEW c \in SequentialType
    PROVE  /\ ChunkEnd(c) \in Int /\ ChunkEnd(c) <= Size
           /\ c.chunkSize > 0 => ChunkEnd(c) <= c.chunkOffset + c.chunkSize
           /\ c.chunkOffset <= ChunkEnd(c)
<1>1. PICK k \in Int, o \in 0 .. Size : k = c.chunkSize /\ o = c.chunkOffset
    BY DEF SequentialType
<1>2. ChunkEnd(c) = IF k <= 0 \/ Size < o + k THEN Size ELSE o + k
    BY <1>1, ChunkIs DEF ChunkEnd, Sequential!MinOf
<1> QED BY <1>1, <1>2, ChunkIs

\* A range is opened: the body is the whole chunk.
LEMMA RangeOpened ==
    ASSUME NEW c, SequentialRight(c), ~c.closed, Sequential!OpenRange(c)
    PROVE  /\ SequentialRight(seq') /\ BodyFits(seq') /\ ~seq'.closed
           /\ seq'.rc # Sequential!NoBody /\ seq'.offset = c.chunkOffset /\ seq'.offset # -1
           /\ seqBodies' = IF Sequential!HasBody THEN seqBodies ELSE seqBodies + 1
<1>1. PICK x \in SequentialType : x = c
    BY DEF SequentialRight
<1>2. PICK o \in 0 .. Size, e \in 0 .. Size : o = x.chunkOffset /\ e = ChunkEnd(x) /\ o <= e
    <2>1. x.chunkOffset \in 0 .. Size /\ x.chunkOffset \in Int
        BY ChunkIs DEF SequentialType
    <2> QED BY <2>1, ChunkEndIs, ChunkIs
<1>3. PICK b \in BodyType : b = [at |-> o, end |-> e]
    <2>1. e \in -1 .. Size
        BY ChunkIs
    <2> QED BY <2>1 DEF BodyType
<1>4. b # Sequential!NoBody /\ b.end >= 0
    BY <1>3, ChunkIs DEF Sequential!NoBody
<1>5. o \in -1 .. Size /\ o # -1
    BY ChunkIs
<1> DEFINE y == [x EXCEPT !.rc = b, !.offset = o]
<1>6. seq' = y
    BY <1>1, <1>2, <1>3 DEF Sequential!OpenRange, Sequential!Upstream, ChunkEnd
<1>7. /\ y \in SequentialType /\ y.rc = b /\ y.offset = o
      /\ y.chunkOffset = o /\ y.chunkSize = x.chunkSize /\ y.closed = x.closed
      /\ y.initialChunkSize = x.initialChunkSize /\ y.maxChunkSize = x.maxChunkSize
      /\ y.customChunkSize = x.customChunkSize
    BY <1>2, <1>5 DEF SequentialType
<1> HIDE DEF y
<1>8. ChunkEnd(y) = e
    BY <1>2, <1>7 DEF ChunkEnd
<1>9. SequentialRight(y)
    BY <1>1, <1>4, <1>7 DEF SequentialRight
<1>10. BodyFits(y)
    BY <1>2, <1>3, <1>7, <1>8 DEF BodyFits
<1>11. seqBodies' = IF Sequential!HasBody THEN seqBodies ELSE seqBodies + 1
    BY DEF Sequential!OpenRange
<1> QED BY <1>1, <1>2, <1>4, <1>5, <1>6, <1>7, <1>9, <1>10, <1>11

\* The chunk that follows keeps to the limit.
LEMMA NextChunkIs ==
    ASSUME SequentialRight(seq), ~seq.closed, seq.offset \in 0 .. Size
    PROVE  LET c == Sequential!NextChunk IN
           /\ SequentialRight(c) /\ ~c.closed
           /\ c.chunkOffset = seq.offset /\ c.offset = seq.offset /\ c.rc = seq.rc
<1>1. PICK x \in SequentialType : x = seq
    BY DEF SequentialRight
<1>2. PICK k \in Int : k = IF x.customChunkSize THEN x.initialChunkSize
                           ELSE IF x.maxChunkSize = -1 THEN 2 * x.chunkSize
                           ELSE Sequential!MinOf(2 * x.chunkSize, x.maxChunkSize)
    BY DEF SequentialType, Sequential!MinOf
<1>3. x.maxChunkSize = -1 \/ k <= x.maxChunkSize
    BY <1>1, <1>2 DEF SequentialRight, SequentialType, Sequential!MinOf
<1> DEFINE c == [x EXCEPT !.chunkOffset = x.offset, !.customChunkSize = FALSE, !.chunkSize = k]
<1>4. Sequential!NextChunk = c
    BY <1>1, <1>2 DEF Sequential!NextChunk
<1>5. /\ c \in SequentialType /\ c.chunkOffset = x.offset /\ c.chunkSize = k /\ c.rc = x.rc
      /\ c.offset = x.offset /\ c.closed = x.closed
      /\ c.initialChunkSize = x.initialChunkSize /\ c.maxChunkSize = x.maxChunkSize
    BY <1>1 DEF SequentialType
<1> HIDE DEF c
<1> QED BY <1>1, <1>3, <1>4, <1>5 DEF SequentialRight

\* The chunk that a seek chooses.
LEMMA SoughtIs ==
    ASSUME SequentialRight(seq), NEW to \in Int, NEW length \in Int
    PROVE  LET c == Sequential!Sought(to, length) IN
           /\ SequentialRight(c) /\ c.offset = -1 /\ c.rc = seq.rc /\ c.closed = seq.closed
           /\ c.chunkOffset = IF to \in 0 .. Sequential!SizeOf - 1 THEN to ELSE 0
<1>1. PICK x \in SequentialType : x = seq
    BY DEF SequentialRight
<1>2. PICK o \in 0 .. Size : o = IF to \in 0 .. Sequential!SizeOf - 1 THEN to ELSE 0
    BY ChunkIs DEF Sequential!SizeOf
<1>3. PICK k \in Int : k = IF length > 0 THEN length ELSE x.initialChunkSize
    BY DEF SequentialType
<1>4. PICK custom \in BOOLEAN : custom <=> x.customChunkSize \/ length > 0
    OBVIOUS
<1> DEFINE c == [x EXCEPT !.offset = -1, !.chunkOffset = o, !.customChunkSize = custom,
                          !.chunkSize = k]
<1>5. Sequential!Sought(to, length) = c
    BY <1>1, <1>2, <1>3, <1>4 DEF Sequential!Sought
<1>6. /\ c \in SequentialType /\ c.chunkOffset = o /\ c.chunkSize = k /\ c.rc = x.rc
      /\ c.offset = -1 /\ c.closed = x.closed /\ c.customChunkSize = custom
      /\ c.initialChunkSize = x.initialChunkSize /\ c.maxChunkSize = x.maxChunkSize
    <2>1. -1 \in -1 .. Size
        BY ChunkIs
    <2> QED BY <1>1, <2>1 DEF SequentialType
<1> HIDE DEF c
<1> QED BY <1>1, <1>2, <1>3, <1>4, <1>5, <1>6 DEF SequentialRight

\* What the invariant asks of the next state.
LEMMA SequentialAfter ==
    ASSUME SequentialRight(seq'), left' \in Nat, pc' \in {"idle", "loop", "fill"},
           seqBodies' = IF seq'.rc # Sequential!NoBody THEN 1 ELSE 0,
           pc' # "idle" => ~seq'.closed /\ told' # Stream!Error,
           pc' = "fill" => seq'.offset # -1,
           ~seq'.closed /\ seq'.offset # -1 /\ told' # Stream!Error => BodyFits(seq')
    PROVE  SequentialInv'
<1>1. SequentialRight(seq)' /\ (seq'.offset # -1 /\ ~seq'.closed /\ told' # Stream!Error => BodyFits(seq)')
    BY DEF SequentialRight, BodyFits, ChunkEnd, Sequential!NoBody, Sequential!MinOf
<1> QED BY <1>1 DEF SequentialInv, Sequential!NoBody, Stream!Error

\* A step of the stream that the sequential reader is.
SequentialMoves == [Sequential!Stream!Next]_<<Sequential!Position, seq.closed, told>>

\* The chunk that Read's loop opens starts where the reader is.
LEMMA LoopChunk ==
    ASSUME SequentialInv, pc = "loop", Sequential!AtBoundary \/ seq.offset = -1
    PROVE  LET c == IF Sequential!AtBoundary THEN Sequential!NextChunk ELSE seq IN
           /\ SequentialRight(c) /\ ~c.closed /\ c.rc = seq.rc /\ c.offset = seq.offset
           /\ c.chunkOffset = Sequential!Position /\ (seq.offset = -1 => c = seq)
<1>1. SequentialRight(seq) /\ ~seq.closed
    BY DEF SequentialInv
<1>2. CASE Sequential!AtBoundary
    <2>1. PICK o \in -1 .. Size, k \in Int, f \in 0 .. Size :
              /\ o = seq.offset /\ k = seq.chunkSize /\ f = seq.chunkOffset
              /\ k > 0 /\ o = f + k
        BY <1>1, <1>2 DEF Sequential!AtBoundary, SequentialRight, SequentialType
    <2>2. seq.offset \in 0 .. Size /\ seq.offset # -1
        BY <2>1, ChunkIs
    <2>3. Sequential!Position = seq.offset
        BY <1>1, <2>2 DEF Sequential!Position
    <2> QED BY <1>1, <1>2, <2>2, <2>3, NextChunkIs
<1>3. CASE ~Sequential!AtBoundary
    BY <1>1, <1>3 DEF Sequential!Position
<1> QED BY <1>2, <1>3

LEMMA LoopStep ==
    ASSUME SequentialInv, Sequential!Loop
    PROVE  SequentialInv' /\ SequentialMoves
<1> DEFINE c == IF Sequential!AtBoundary THEN Sequential!NextChunk ELSE seq
<1>1. /\ SequentialRight(seq) /\ ~seq.closed /\ left \in Nat /\ pc = "loop"
      /\ told # Stream!Error
      /\ seqBodies = IF seq.rc # Sequential!NoBody THEN 1 ELSE 0
      /\ seq.offset # -1 => BodyFits(seq)
    BY DEF SequentialInv, Sequential!Loop
<1>2. CASE /\ UNCHANGED <<seq, left, seqBodies, told>>
           /\ pc' = "idle" \/ (pc' = "fill" /\ seq.offset # -1)
    <2>1. SequentialMoves
        BY <1>2 DEF SequentialMoves, Sequential!Position
    <2>2. SequentialInv'
        BY <1>1, <1>2, SequentialAfter
    <2> QED BY <2>1, <2>2
<1>3. CASE /\ Sequential!AtBoundary \/ seq.offset = -1
           /\ Sequential!OpenRange(c) /\ pc' = "fill" /\ UNCHANGED <<left, told>>
    <2>1. /\ SequentialRight(c) /\ ~c.closed /\ c.chunkOffset = Sequential!Position
        BY <1>1, <1>3, LoopChunk
    <2> HIDE DEF c
    <2>2. /\ SequentialRight(seq') /\ BodyFits(seq') /\ ~seq'.closed
          /\ seq'.rc # Sequential!NoBody /\ seq'.offset = c.chunkOffset /\ seq'.offset # -1
          /\ seqBodies' = IF Sequential!HasBody THEN seqBodies ELSE seqBodies + 1
        BY <1>3, <2>1, RangeOpened
    <2>3. seqBodies' = 1
        BY <1>1, <2>2 DEF Sequential!HasBody
    <2>4. SequentialInv'
        BY <1>1, <1>3, <2>2, <2>3, SequentialAfter
    <2>5. Sequential!Position' = Sequential!Position /\ seq'.closed = seq.closed
        BY <1>1, <2>1, <2>2 DEF Sequential!Position, SequentialRight, SequentialType
    <2> QED BY <1>3, <2>4, <2>5 DEF SequentialMoves
<1>4. CASE /\ Sequential!AtBoundary \/ seq.offset = -1
           /\ Sequential!OpenRangeFails(c) /\ told' = Stream!Error /\ pc' = "idle" /\ left' = 0
    <2>1. /\ SequentialRight(c) /\ ~c.closed /\ c.rc = seq.rc /\ c.offset = seq.offset
          /\ (seq.offset = -1 => c = seq)
        BY <1>1, <1>4, LoopChunk
    <2> HIDE DEF c
    <2>2. seq' = c /\ seqBodies' = seqBodies
        BY <1>4 DEF Sequential!OpenRangeFails
    <2>3. SequentialInv'
        BY <1>1, <1>4, <2>1, <2>2, SequentialAfter
    <2>4. Sequential!Position' = Sequential!Position /\ seq'.closed = seq.closed
        BY <1>1, <2>1, <2>2 DEF Sequential!Position, SequentialRight, SequentialType
    <2>5. Sequential!Stream!Fail
        BY <1>1, <1>4, <2>4, Words DEF Sequential!Stream!Fail
    <2> QED BY <2>3, <2>5 DEF SequentialMoves, Sequential!Stream!Next
<1>5. \/ /\ UNCHANGED <<seq, left, seqBodies, told>>
         /\ pc' = "idle" \/ (pc' = "fill" /\ seq.offset # -1)
      \/ /\ Sequential!AtBoundary \/ seq.offset = -1
         /\ Sequential!OpenRange(c) /\ pc' = "fill" /\ UNCHANGED <<left, told>>
      \/ /\ Sequential!AtBoundary \/ seq.offset = -1
         /\ Sequential!OpenRangeFails(c) /\ told' = Stream!Error /\ pc' = "idle" /\ left' = 0
    BY Words DEF Sequential!Loop, Sequential!Tell
<1> QED BY <1>2, <1>3, <1>4, <1>5

\* What is read from the body: never past the chunk, and nothing only when nothing is wanted.
LEMMA FilledIs ==
    ASSUME SequentialInv, pc = "fill"
    PROVE  \E x \in SequentialType, o \in 0 .. Size, e \in 0 .. Size, w \in Nat :
              /\ x = seq /\ o = x.offset /\ e = ChunkEnd(x) /\ w = Sequential!Want
              /\ x.rc = [at |-> o, end |-> e] /\ x.chunkOffset <= o /\ o <= e /\ w <= left
              /\ o = e /\ w > 0 => o = Size
<1>1. SequentialRight(seq) /\ BodyFits(seq) /\ seq.offset # -1 /\ left \in Nat
    BY DEF SequentialInv
<1>2. PICK x \in SequentialType : x = seq
    BY <1>1 DEF SequentialRight
<1>3. PICK o \in Int, f \in Int, k \in Int, e \in Int, l \in Nat :
          /\ o = x.offset /\ f = x.chunkOffset /\ k = x.chunkSize /\ e = ChunkEnd(x) /\ l = left
          /\ 0 <= f /\ o <= Size
    <2>1. x.chunkOffset \in 0 .. Size /\ x.offset \in -1 .. Size
        BY DEF SequentialType
    <2>2. x.chunkOffset \in Int /\ x.offset \in Int /\ 0 <= x.chunkOffset /\ x.offset <= Size
        BY <2>1, ChunkIs
    <2> QED BY <1>1, <2>2, ChunkEndIs DEF SequentialType
<1>4. e = (IF k <= 0 \/ Size < f + k THEN Size ELSE f + k) /\ f <= o /\ o <= e
    BY <1>1, <1>2, <1>3, ChunkIs DEF ChunkEnd, Sequential!MinOf, BodyFits
<1>5. PICK w \in Int : /\ w = Sequential!Want
                       /\ w = IF k > 0 /\ f + k - o <= l THEN f + k - o ELSE l
    BY <1>2, <1>3 DEF Sequential!Want, Sequential!MinOf
<1>6. o \in 0 .. Size /\ e \in 0 .. Size /\ w \in Nat /\ w <= left /\ (o = e /\ w > 0 => o = Size)
    BY <1>3, <1>4, <1>5, ChunkIs
<1>7. x.rc = [at |-> o, end |-> e]
    BY <1>1, <1>2, <1>3 DEF BodyFits
<1> QED BY <1>2, <1>3, <1>4, <1>5, <1>6, <1>7

LEMMA FillStep ==
    ASSUME SequentialInv, Sequential!Fill
    PROVE  SequentialInv' /\ SequentialMoves
<1>1. /\ SequentialRight(seq) /\ ~seq.closed /\ left \in Nat /\ told # Stream!Error
      /\ seqBodies = IF seq.rc # Sequential!NoBody THEN 1 ELSE 0
      /\ BodyFits(seq) /\ pc = "fill" /\ UNCHANGED seqBodies
    BY DEF SequentialInv, Sequential!Fill
<1>2. PICK x \in SequentialType, o \in 0 .. Size, e \in 0 .. Size, w \in Nat :
              /\ x = seq /\ o = x.offset /\ e = ChunkEnd(x) /\ w = Sequential!Want
              /\ x.rc = [at |-> o, end |-> e] /\ x.chunkOffset <= o /\ o <= e /\ w <= left
    BY <1>1, FilledIs
<1>3. PICK n \in Nat : /\ n = Sequential!MinOf(Sequential!Want, seq.rc.end - seq.rc.at)
                       /\ n <= e - o /\ n <= w
    BY <1>2, ChunkIs DEF Sequential!MinOf
<1>4. /\ told' = IF n = 0 THEN told ELSE Stream!Bytes(o, o + n)
      /\ seq' = [x EXCEPT !.rc.at = @ + n, !.offset = @ + n]
      /\ left' = left - n /\ pc' \in {"loop", "fill"}
    <2>1. seq.rc.at = o
        BY <1>2
    <2>2. /\ told' = IF n = 0 THEN told ELSE Sequential!Stream!Bytes(seq.rc.at, seq.rc.at + n)
          /\ seq' = [seq EXCEPT !.rc.at = @ + n, !.offset = @ + n]
          /\ left' = left - n /\ pc' = IF n = Sequential!Want THEN "loop" ELSE "fill"
        BY <1>3 DEF Sequential!Fill
    <2>3. Sequential!Stream!Bytes(seq.rc.at, seq.rc.at + n) = Stream!Bytes(o, o + n)
        BY <2>1, Words
    <2> QED BY <1>2, <2>2, <2>3
<1>5. PICK v \in 0 .. Size : v = o + n /\ v <= e /\ v \in -1 .. Size /\ v # -1 /\ x.chunkOffset <= v
    <2>1. o + n \in 0 .. Size /\ o + n <= e /\ o + n \in -1 .. Size /\ o + n # -1
        BY <1>2, <1>3, ChunkIs
    <2>2. x.chunkOffset \in Int
        BY ChunkIs DEF SequentialType
    <2>3. x.chunkOffset <= o + n
        BY <1>2, <2>2, ChunkIs
    <2> QED BY <2>1, <2>3
<1>6. PICK b \in BodyType : b = [at |-> v, end |-> e]
    <2>1. e \in -1 .. Size
        BY ChunkIs
    <2> QED BY <2>1 DEF BodyType
<1>7. b # Sequential!NoBody /\ b.end >= 0
    BY <1>6, ChunkIs DEF Sequential!NoBody
<1> DEFINE y == [x EXCEPT !.rc = b, !.offset = v]
<1>8. seq' = y
    <2>1. x.rc.at = o /\ x.offset = o /\ [x.rc EXCEPT !.at = @ + n] = b
        BY <1>2, <1>5, <1>6
    <2> QED BY <1>4, <1>5, <2>1
<1>9. /\ y \in SequentialType /\ y.rc = b /\ y.offset = v /\ y.closed = x.closed
      /\ y.chunkOffset = x.chunkOffset /\ y.chunkSize = x.chunkSize
      /\ y.initialChunkSize = x.initialChunkSize /\ y.maxChunkSize = x.maxChunkSize
      /\ y.customChunkSize = x.customChunkSize
    BY <1>5 DEF SequentialType
<1> HIDE DEF y
<1>10. ChunkEnd(y) = e
    BY <1>2, <1>9 DEF ChunkEnd
<1>11. SequentialRight(y)
    BY <1>1, <1>2, <1>7, <1>9 DEF SequentialRight
<1>12. BodyFits(y)
    BY <1>5, <1>6, <1>9, <1>10 DEF BodyFits
<1>13. told' # Stream!Error
    BY <1>1, <1>4, Words
<1>14. left' \in Nat
    BY <1>1, <1>2, <1>3, <1>4
<1>15. x.rc # Sequential!NoBody
    BY <1>2, ChunkIs DEF Sequential!NoBody
<1>16. SequentialInv'
    BY <1>1, <1>2, <1>4, <1>5, <1>7, <1>8, <1>9, <1>11, <1>12, <1>13, <1>14, <1>15, SequentialAfter
<1>17. Sequential!Position = o /\ Sequential!Position' = v /\ seq'.closed = seq.closed
    <2>1. o # -1
        BY ChunkIs
    <2> QED BY <1>1, <1>2, <1>5, <1>8, <1>9, <2>1 DEF Sequential!Position
<1>18. CASE n = 0
    <2>1. v = o
        BY <1>5, <1>18, ChunkIs
    <2> QED BY <1>4, <1>16, <1>17, <1>18, <2>1 DEF SequentialMoves
<1>19. CASE n # 0
    <2>1. n \in 1 .. Size /\ o + n <= Size
        BY <1>3, <1>5, <1>19, ChunkIs
    <2>2. Sequential!Stream!Give(n)
        BY <1>1, <1>4, <1>5, <1>17, <1>19, <2>1, Words DEF Sequential!Stream!Give
    <2> QED BY <1>16, <2>1, <2>2 DEF SequentialMoves, Sequential!Stream!Next
<1> QED BY <1>18, <1>19

LEMMA FillEndsStep ==
    ASSUME SequentialInv, ErrorsAreHeeded, Sequential!FillEnds
    PROVE  SequentialInv' /\ SequentialMoves
<1>1. /\ SequentialRight(seq) /\ ~seq.closed /\ BodyFits(seq) /\ pc = "fill"
      /\ seqBodies = IF seq.rc # Sequential!NoBody THEN 1 ELSE 0
      /\ UNCHANGED <<seq, seqBodies>> /\ told' = Stream!Eof /\ pc' = "idle" /\ left' = 0
    BY Words DEF SequentialInv, Sequential!FillEnds, Sequential!Tell
<1>2. Sequential!Want > 0 /\ seq.rc.at = seq.rc.end
    BY DEF Sequential!FillEnds, ErrorsAreHeeded
<1>3. PICK x \in SequentialType, o \in 0 .. Size, e \in 0 .. Size, w \in Nat :
              /\ x = seq /\ o = x.offset /\ e = ChunkEnd(x) /\ w = Sequential!Want
              /\ x.rc = [at |-> o, end |-> e]
              /\ o = e /\ w > 0 => o = Size
    BY <1>1, FilledIs
<1>4. o = Size /\ o # -1
    BY <1>2, <1>3, ChunkIs
<1>5. SequentialInv'
    BY <1>1, <1>4, SequentialAfter, Words
<1>6. Sequential!Position = Size /\ Sequential!Position' = Size
    BY <1>1, <1>3, <1>4 DEF Sequential!Position
<1>7. Sequential!Stream!End
    BY <1>1, <1>6, Words DEF Sequential!Stream!End
<1> QED BY <1>5, <1>7 DEF SequentialMoves, Sequential!Stream!Next

LEMMA FillFailsStep ==
    ASSUME SequentialInv, Sequential!FillFails
    PROVE  SequentialInv' /\ SequentialMoves
<1>1. /\ SequentialRight(seq) /\ ~seq.closed
      /\ seqBodies = IF seq.rc # Sequential!NoBody THEN 1 ELSE 0
      /\ UNCHANGED <<seq, seqBodies>> /\ told' = Stream!Error /\ pc' = "idle" /\ left' = 0
    BY Words DEF SequentialInv, Sequential!FillFails, Sequential!Tell
<1>2. SequentialInv'
    BY <1>1, SequentialAfter
<1>3. Sequential!Stream!Fail
    BY <1>1, Words DEF Sequential!Stream!Fail, Sequential!Position
<1> QED BY <1>2, <1>3 DEF SequentialMoves, Sequential!Stream!Next

LEMMA SequentialRead ==
    ASSUME SequentialInv, ErrorsAreHeeded, NEW n \in Lens, Sequential!Read(n)
    PROVE  SequentialInv' /\ SequentialMoves
<1>1. /\ SequentialRight(seq) /\ left \in Nat /\ told # Stream!Error /\ pc = "idle"
      /\ seqBodies = IF seq.rc # Sequential!NoBody THEN 1 ELSE 0
      /\ ~seq.closed /\ seq.offset # -1 => BodyFits(seq)
      /\ UNCHANGED <<seq, seqBodies>>
    BY Words DEF SequentialInv, Sequential!Read, ErrorsAreHeeded
<1>2. Sequential!Position' = Sequential!Position
    BY <1>1 DEF Sequential!Position
<1>3. CASE seq.closed
    <2>1. told' = Stream!FileClosed /\ UNCHANGED <<pc, left>>
        BY <1>3, Words DEF Sequential!Read, Sequential!Tell
    <2>2. SequentialInv'
        BY <1>1, <1>3, <2>1, SequentialAfter, Words
    <2>3. Sequential!Stream!Refuse
        BY <1>1, <1>2, <1>3, <2>1, Words DEF Sequential!Stream!Refuse
    <2> QED BY <2>2, <2>3 DEF SequentialMoves, Sequential!Stream!Next
<1>4. CASE ~seq.closed
    <2>1. told' = Stream!Nothing /\ pc' = "loop" /\ left' = n
        BY <1>4, Words DEF Sequential!Read, Sequential!Tell
    <2>2. SequentialInv'
        BY <1>1, <1>4, <2>1, SequentialAfter, Words, ParallelAssumption
    <2>3. Sequential!Stream!Call
        BY <1>1, <1>2, <2>1, Words DEF Sequential!Stream!Call
    <2> QED BY <2>2, <2>3 DEF SequentialMoves, Sequential!Stream!Next
<1> QED BY <1>3, <1>4

LEMMA SequentialSeek ==
    ASSUME SequentialInv, ErrorsAreHeeded,
           NEW t \in Targets, NEW w \in Whences, NEW n \in Lengths, Sequential!RangeSeek(t, w, n)
    PROVE  SequentialInv' /\ SequentialMoves
<1>1. /\ SequentialRight(seq) /\ left \in Nat /\ pc = "idle"
      /\ seqBodies = IF seq.rc # Sequential!NoBody THEN 1 ELSE 0
      /\ ~seq.closed /\ seq.offset # -1 /\ told # Stream!Error => BodyFits(seq)
      /\ UNCHANGED <<left, pc, seqBodies>>
    BY DEF SequentialInv, Sequential!RangeSeek
<1>2. CASE seq.closed
    <2>1. told' = Stream!FileClosed /\ UNCHANGED seq
        BY <1>2, Words DEF Sequential!RangeSeek, Sequential!Tell
    <2>2. SequentialInv'
        BY <1>1, <1>2, <2>1, SequentialAfter
    <2>3. Sequential!Stream!Refuse
        BY <1>2, <2>1, Words DEF Sequential!Stream!Refuse, Sequential!Position
    <2> QED BY <2>2, <2>3 DEF SequentialMoves, Sequential!Stream!Next
<1>3. CASE ~seq.closed /\ w = "end" /\ Sequential!SizeOf < 0
    <2>1. told' = Stream!Error /\ UNCHANGED seq
        BY <1>3, Words DEF Sequential!RangeSeek, Sequential!Tell
    <2>2. SequentialInv'
        BY <1>1, <1>3, <2>1, SequentialAfter
    <2>3. Sequential!Stream!Fail
        BY <1>3, <2>1, Words DEF Sequential!Stream!Fail, Sequential!Position
    <2> QED BY <2>2, <2>3 DEF SequentialMoves, Sequential!Stream!Next
<1>4. CASE ~seq.closed /\ ~(w = "end" /\ Sequential!SizeOf < 0)
    <2>1. PICK z \in Int : z = Sequential!SizeOf /\ z <= Size
        BY ChunkIs DEF Sequential!SizeOf
    <2>2. w = "start" \/ w = "end"
        BY ReadersAssumption DEF ErrorsAreHeeded
    <2>3. PICK base \in Int : base = CASE w = "start" -> 0
                                       [] w = "end" -> Sequential!SizeOf
                                       [] w = "current" -> seq.offset
        BY <2>1, <2>2
    <2>4. PICK to \in Int : to = base + t
        <3>1. t \in Int
            BY ParallelAssumption
        <3>2. base + t \in Int
            BY <3>1
        <3> QED BY <3>2
    <2>5. /\ seq' = Sequential!Sought(to, n)
          /\ told' = IF to \in 0 .. z - 1 THEN Stream!Nothing ELSE Stream!Error
        BY <1>4, <2>1, <2>3, <2>4, Words DEF Sequential!RangeSeek, Sequential!Tell
    <2>6. n \in Int
        BY ReadersAssumption
    <2>7. /\ SequentialRight(seq') /\ seq'.offset = -1 /\ seq'.rc = seq.rc
          /\ ~seq'.closed /\ seq'.closed = seq.closed
          /\ seq'.chunkOffset = IF to \in 0 .. z - 1 THEN to ELSE 0
        BY <1>1, <1>4, <2>1, <2>5, <2>6, SoughtIs
    <2>8. SequentialInv'
        BY <1>1, <2>7, SequentialAfter
    <2>9. Sequential!Position' = IF to \in 0 .. z - 1 THEN to ELSE 0
        BY <2>7 DEF Sequential!Position
    <2>10. CASE to \in 0 .. z - 1
        <3>1. to \in 0 .. Size - 1
            BY <2>1, <2>10, ChunkIs
        <3>2. Sequential!Stream!Move(to)
            BY <1>4, <2>5, <2>7, <2>9, <2>10, <3>1, Words DEF Sequential!Stream!Move
        <3> QED BY <2>8, <3>1, <3>2 DEF SequentialMoves, Sequential!Stream!Next
    <2>11. CASE to \notin 0 .. z - 1
        <3>1. Sequential!Stream!Fail
            BY <1>4, <2>5, <2>7, <2>9, <2>11, Words DEF Sequential!Stream!Fail
        <3> QED BY <2>8, <3>1 DEF SequentialMoves, Sequential!Stream!Next
    <2> QED BY <2>10, <2>11
<1> QED BY <1>2, <1>3, <1>4

LEMMA SequentialOpen ==
    ASSUME SequentialInv, ErrorsAreHeeded, Sequential!Open
    PROVE  SequentialInv' /\ SequentialMoves
<1>1. /\ SequentialRight(seq) /\ left \in Nat /\ pc = "idle" /\ told # Stream!Error
      /\ seqBodies = IF seq.rc # Sequential!NoBody THEN 1 ELSE 0
      /\ seq.closed => seq.rc = Sequential!NoBody
      /\ ~seq.closed /\ seq.offset # -1 => BodyFits(seq) /\ seq.rc # Sequential!NoBody
      /\ UNCHANGED <<left, pc>>
    BY Words DEF SequentialInv, SequentialRight, Sequential!Open, ErrorsAreHeeded
<1>2. CASE /\ Sequential!HasBody /\ seq.offset # -1
           /\ told' = Stream!Nothing /\ UNCHANGED <<seq, seqBodies>>
    <2>1. SequentialInv'
        BY <1>1, <1>2, SequentialAfter
    <2>2. Sequential!Stream!Call
        BY <1>2, Words DEF Sequential!Stream!Call, Sequential!Position
    <2> QED BY <2>1, <2>2 DEF SequentialMoves, Sequential!Stream!Next
<1>3. CASE seq.closed /\ told' = Stream!FileClosed /\ UNCHANGED <<seq, seqBodies>>
    <2>1. SequentialInv'
        BY <1>1, <1>3, SequentialAfter
    <2>2. Sequential!Stream!Refuse
        BY <1>3, Words DEF Sequential!Stream!Refuse, Sequential!Position
    <2> QED BY <2>1, <2>2 DEF SequentialMoves, Sequential!Stream!Next
<1>4. CASE /\ ~(Sequential!HasBody /\ seq.offset # -1) /\ ~seq.closed
           /\ Sequential!OpenRange(seq) /\ told' = Stream!Nothing
    <2>1. seq.offset = -1
        BY <1>1, <1>4 DEF Sequential!HasBody
    <2>2. /\ SequentialRight(seq') /\ BodyFits(seq') /\ ~seq'.closed
          /\ seq'.rc # Sequential!NoBody /\ seq'.offset = seq.chunkOffset /\ seq'.offset # -1
          /\ seqBodies' = IF Sequential!HasBody THEN seqBodies ELSE seqBodies + 1
        BY <1>1, <1>4, RangeOpened
    <2>3. seqBodies' = 1
        BY <1>1, <2>2 DEF Sequential!HasBody
    <2>4. SequentialInv'
        BY <1>1, <2>2, <2>3, SequentialAfter
    <2>5. seq'.closed = seq.closed
        BY <1>1, <1>4, <2>2 DEF SequentialRight, SequentialType
    <2>6. Sequential!Stream!Call
        BY <1>4, <2>1, <2>2, <2>5, Words DEF Sequential!Stream!Call, Sequential!Position
    <2> QED BY <2>4, <2>6 DEF SequentialMoves, Sequential!Stream!Next
<1>5. CASE ~seq.closed /\ Sequential!OpenRangeFails(seq) /\ told' = Stream!Error
    <2>1. UNCHANGED <<seq, seqBodies>>
        BY <1>5 DEF Sequential!OpenRangeFails
    <2>2. SequentialInv'
        BY <1>1, <1>5, <2>1, SequentialAfter
    <2>3. Sequential!Stream!Fail
        BY <1>5, <2>1, Words DEF Sequential!Stream!Fail, Sequential!Position
    <2> QED BY <2>2, <2>3 DEF SequentialMoves, Sequential!Stream!Next
<1> QED BY <1>2, <1>3, <1>4, <1>5, Words DEF Sequential!Open, Sequential!Tell

LEMMA SequentialClose ==
    ASSUME SequentialInv, Sequential!Close
    PROVE  SequentialInv' /\ SequentialMoves
<1>1. /\ SequentialRight(seq) /\ left \in Nat /\ pc = "idle"
      /\ seqBodies = IF seq.rc # Sequential!NoBody THEN 1 ELSE 0
      /\ UNCHANGED <<left, pc>>
    BY DEF SequentialInv, Sequential!Close
<1>2. CASE seq.closed
    <2>1. told' = Stream!FileClosed /\ UNCHANGED <<seq, seqBodies>>
        BY <1>2, Words DEF Sequential!Close, Sequential!Tell
    <2>2. SequentialInv'
        BY <1>1, <1>2, <2>1, SequentialAfter
    <2>3. Sequential!Stream!Refuse
        BY <1>2, <2>1, Words DEF Sequential!Stream!Refuse, Sequential!Position
    <2> QED BY <2>2, <2>3 DEF SequentialMoves, Sequential!Stream!Next
<1>3. CASE ~seq.closed
    <2>1. PICK x \in SequentialType, b \in BodyType, o \in -1 .. Size :
              x = seq /\ b = Sequential!NoBody /\ o = 0
        <3>1. 0 \in 0 .. Size /\ 0 \in -1 .. Size /\ -1 \in -1 .. Size
            BY ChunkIs
        <3> QED BY <1>1, <3>1 DEF SequentialRight, BodyType, Sequential!NoBody
    <2> DEFINE y == [x EXCEPT !.closed = TRUE, !.rc = b, !.offset = o]
    <2>2. /\ seq' = y /\ UNCHANGED told
          /\ seqBodies' = IF Sequential!HasBody THEN seqBodies - 1 ELSE seqBodies
        BY <1>3, <2>1 DEF Sequential!Close
    <2>3. /\ y \in SequentialType /\ y.rc = b /\ y.offset = o /\ y.closed = TRUE
          /\ y.chunkSize = x.chunkSize /\ y.customChunkSize = x.customChunkSize
          /\ y.initialChunkSize = x.initialChunkSize /\ y.maxChunkSize = x.maxChunkSize
        BY DEF SequentialType
    <2> HIDE DEF y
    <2>4. SequentialRight(y)
        BY <1>1, <2>1, <2>3 DEF SequentialRight
    <2>5. seqBodies' = 0
        BY <1>1, <2>2 DEF Sequential!HasBody
    <2>6. SequentialInv'
        BY <1>1, <2>1, <2>2, <2>3, <2>4, <2>5, SequentialAfter
    <2>7. Sequential!Stream!Close
        BY <1>3, <2>2, <2>3 DEF Sequential!Stream!Close, Sequential!Position
    <2> QED BY <2>6, <2>7 DEF SequentialMoves, Sequential!Stream!Next
<1> QED BY <1>2, <1>3

LEMMA SequentialNext ==
    ASSUME SequentialInv, ErrorsAreHeeded, Sequential!Next
    PROVE  SequentialInv' /\ SequentialMoves
BY LoopStep, FillStep, FillEndsStep, FillFailsStep, SequentialRead, SequentialSeek,
   SequentialOpen, SequentialClose
   DEF Sequential!Next, Sequential!Step

-------------------------------------------------------------------------------
(* The two readers behind New *)

\* The reader that New did not make is left alone.
SequentialPart ==
    /\ SequentialInv /\ kind \in {"parallel", "sequential"}
    /\ kind = "parallel" =>
           pc = "idle" /\ seq.offset = -1 /\ seq.rc = Sequential!NoBody /\ ~seq.closed

LEMMA NewMade ==
    ASSUME NEW known \in BOOLEAN, NEW i \in Int, NEW m \in Int, m = -1 \/ i <= m
    PROVE  LET c == Sequential!New(known, i, m) IN
           /\ SequentialRight(c) /\ c.offset = -1 /\ c.chunkOffset = 0
           /\ c.rc = Sequential!NoBody /\ c.closed = FALSE
<1> DEFINE c == Sequential!New(known, i, m)
<1>1. Sequential!NoBody \in BodyType /\ 0 \in 0 .. Size /\ -1 \in -1 .. Size
    BY ChunkIs DEF Sequential!NoBody, BodyType
<1>2. c \in SequentialType
    BY <1>1 DEF SequentialType, Sequential!New
<1> QED BY <1>2 DEF SequentialRight, Sequential!New

LEMMA NewStarts ==
    ASSUME NewInit
    PROVE  ParallelInv /\ SequentialPart /\ Reader!Init
<1>1. PICK known \in BOOLEAN, n \in StreamCounts, initial \in Chunks, max \in Limits :
          LET sizes == Consistent(initial, max) IN
          /\ kind = Kind(known, n)
          /\ seq = IF kind = "sequential" THEN Sequential!New(known, sizes[1], sizes[2])
                   ELSE Sequential!New(known, -1, -1)
    BY DEF NewInit
<1>2. PICK i \in Int, m \in Int : Consistent(initial, max) = <<i, m>> /\ (m = -1 \/ i <= m)
    <2>1. initial \in Int /\ max \in Int
        BY ReadersAssumption
    <2> QED BY <2>1 DEF Consistent
<1>3. kind \in {"parallel", "sequential"}
    BY <1>1 DEF Kind
<1>4. PICK j \in Int, l \in Int : (l = -1 \/ j <= l) /\ seq = Sequential!New(known, j, l)
    BY <1>1, <1>2
<1>5. /\ SequentialRight(seq) /\ seq.offset = -1 /\ seq.chunkOffset = 0
      /\ seq.rc = Sequential!NoBody /\ seq.closed = FALSE
    <2>1. /\ SequentialRight(Sequential!New(known, j, l))
          /\ Sequential!New(known, j, l).offset = -1
          /\ Sequential!New(known, j, l).chunkOffset = 0
          /\ Sequential!New(known, j, l).rc = Sequential!NoBody
          /\ Sequential!New(known, j, l).closed = FALSE
        BY <1>4, NewMade
    <2> QED BY <1>4, <2>1
<1>6. Init /\ left = 0 /\ pc = "idle" /\ seqBodies = 0
    BY DEF NewInit
<1>7. ParallelInv
    BY <1>6, ParallelInit
<1>8. SequentialPart
    BY <1>3, <1>5, <1>6 DEF SequentialPart, SequentialInv
<1>9. Reader!Init
    BY <1>5, <1>6, Words DEF Init, Idle, Place, Sequential!Position, Reader!Init
<1> QED BY <1>7, <1>8, <1>9

LEMMA NewKeepsParallel == ParallelInv /\ RangesAreServed /\ [NewNext]_newVars => ParallelInv'
<1> SUFFICES ASSUME ParallelInv, RangesAreServed, [NewNext]_newVars
             PROVE  ParallelInv'
    OBVIOUS
<1>1. CASE Next
    BY <1>1, ParallelNext
<1>2. CASE UNCHANGED <<offset, endStream, streams, closed, rd, cl, ctxDone, bodies>>
    BY <1>2 DEF ParallelInv, Typed, Placed, InStep, Current
<1> QED BY <1>1, <1>2 DEF NewNext, SequentialOnly, newVars, vars

LEMMA NewKeepsSequential ==
    SequentialPart /\ ErrorsAreHeeded /\ [NewNext]_newVars => SequentialPart'
<1> SUFFICES ASSUME SequentialPart, ErrorsAreHeeded, [NewNext]_newVars
             PROVE  SequentialPart'
    OBVIOUS
<1>1. CASE ParallelOnly
    <2>1. /\ SequentialRight(seq') /\ left' \in Nat /\ pc' = "idle" /\ kind' = "parallel"
          /\ seqBodies' = IF seq'.rc # Sequential!NoBody THEN 1 ELSE 0
          /\ seq'.offset = -1 /\ seq'.rc = Sequential!NoBody /\ ~seq'.closed
        BY <1>1 DEF ParallelOnly, SequentialPart, SequentialInv
    <2>2. SequentialInv'
        BY <2>1, SequentialAfter
    <2> QED BY <2>1, <2>2 DEF SequentialPart, Sequential!NoBody
<1>2. CASE Sequential!Next /\ SequentialOnly
    <2>1. SequentialInv' /\ kind' = "sequential"
        BY <1>2, SequentialNext DEF SequentialPart, SequentialOnly
    <2> QED BY <2>1 DEF SequentialPart
<1>3. CASE UNCHANGED newVars
    <2>1. UNCHANGED <<kind, seq, left, pc, seqBodies, told>>
        BY <1>3 DEF newVars, vars
    <2>2. SequentialInv'
        BY <2>1, SequentialAfter DEF SequentialPart, SequentialInv
    <2> QED BY <2>1, <2>2 DEF SequentialPart, Sequential!NoBody
<1> QED BY <1>1, <1>2, <1>3 DEF NewNext

LEMMA SequentialMeans == SequentialPart => ChunksFit /\ Sequential!OneBody
<1> SUFFICES ASSUME SequentialPart
             PROVE  ChunksFit /\ Sequential!OneBody
    OBVIOUS
<1>1. PICK x \in SequentialType : x = seq
    BY DEF SequentialPart, SequentialInv, SequentialRight
<1>2. Sequential!TypeOK
    <2>1. x.rc.at \in 0 .. Size /\ x.rc.end \in -1 .. Size
        BY DEF SequentialType, BodyType
    <2>2. x.maxChunkSize = -1 \/ x.customChunkSize \/ x.chunkSize <= x.maxChunkSize
        BY <1>1 DEF SequentialPart, SequentialInv, SequentialRight
    <2>3. left \in Nat /\ pc \in {"idle", "loop", "fill"} /\ seqBodies \in Nat
        BY DEF SequentialPart, SequentialInv
    <2> QED BY <1>1, <2>1, <2>2, <2>3 DEF SequentialType, Sequential!TypeOK
<1>3. Sequential!BodyIsRestOfChunk
    <2> SUFFICES ASSUME seq.rc # Sequential!NoBody, seq.offset # -1, told # Stream!Error
                 PROVE  seq.rc = [Sequential!Upstream(seq) EXCEPT !.at = seq.offset]
        BY Words DEF Sequential!BodyIsRestOfChunk, Sequential!HasBody
    <2>1. BodyFits(seq)
        BY DEF SequentialPart, SequentialInv, SequentialRight
    <2> QED BY <2>1 DEF BodyFits, ChunkEnd, Sequential!Upstream
<1>4. Sequential!OneBody
    BY DEF SequentialPart, SequentialInv, Sequential!OneBody, Sequential!HasBody
<1> QED BY <1>2, <1>3, <1>4 DEF ChunksFit, SequentialPart

LEMMA NewSteps ==
    ASSUME ParallelInv, SequentialPart, RangesAreServed, ErrorsAreHeeded, [NewNext]_newVars
    PROVE  Reader!Next \/ UNCHANGED <<IF kind = "parallel" THEN Place ELSE Sequential!Position,
                                      IF kind = "parallel" THEN closed ELSE seq.closed, told>>
<1>1. CASE Next /\ ParallelOnly
    <2>1. kind = "parallel" /\ kind' = "parallel"
        BY <1>1 DEF ParallelOnly
    <2>2. ParallelInv'
        BY <1>1, ParallelNext
    <2>3. [Stream!Next]_<<Place, closed, told>>
        BY <1>1, <2>2, ParallelSteps
    <2>4. CASE UNCHANGED <<Place, closed, told>>
        BY <2>1, <2>4
    <2>5. CASE Stream!Next
        BY <2>1, <2>5, Words
            DEF Stream!Next, Stream!Call, Stream!End, Stream!Fail, Stream!Close, Stream!Refuse,
                Stream!Give, Stream!Move, Reader!Next, Reader!Call, Reader!End, Reader!Fail,
                Reader!Close, Reader!Refuse, Reader!Give, Reader!Move
    <2> QED BY <2>3, <2>4, <2>5
<1>2. CASE Sequential!Next /\ SequentialOnly
    <2>1. kind = "sequential" /\ kind' = "sequential"
        BY <1>2 DEF SequentialOnly
    <2>2. SequentialMoves
        BY <1>2, SequentialNext DEF SequentialPart
    <2>3. CASE UNCHANGED <<Sequential!Position, seq.closed, told>>
        BY <2>1, <2>3
    <2>4. CASE Sequential!Stream!Next
        BY <2>1, <2>4, Words
            DEF Sequential!Stream!Next, Sequential!Stream!Call, Sequential!Stream!End,
                Sequential!Stream!Fail, Sequential!Stream!Close, Sequential!Stream!Refuse,
                Sequential!Stream!Give, Sequential!Stream!Move, Reader!Next, Reader!Call,
                Reader!End, Reader!Fail, Reader!Close, Reader!Refuse, Reader!Give, Reader!Move
    <2> QED BY <2>2, <2>3, <2>4 DEF SequentialMoves
<1>3. CASE UNCHANGED newVars
    BY <1>3 DEF newVars, vars, Place, Sequential!Position
<1> QED BY <1>1, <1>2, <1>3 DEF NewNext

-------------------------------------------------------------------------------
(* The theorems *)

\* The streams of the parallel reader cover the object from its offset on without gap or
\* overlap, and between calls the first one's buffer is at the offset (parallel.go:150-395).
THEOREM StreamsCorrect ==
    ASSUME RangesAreServed
    PROVE  NewSpec => []StreamsFit
<1>1. NewInit => ParallelInv
    BY NewStarts
<1>2. ParallelInv /\ [NewNext]_newVars => ParallelInv'
    BY NewKeepsParallel
<1>3. ParallelInv => StreamsFit
    BY ParallelMeans
<1> QED BY <1>1, <1>2, <1>3, PTL DEF NewSpec

\* The sequential reader's body is the rest of its chunk while no call has failed, and a
\* chunk keeps to the limit (sequential.go:54-92).
THEOREM ChunksCorrect ==
    ASSUME ErrorsAreHeeded
    PROVE  NewSpec => []ChunksFit
<1>1. NewInit => SequentialPart
    BY NewStarts
<1>2. SequentialPart /\ [NewNext]_newVars => SequentialPart'
    BY NewKeepsSequential
<1>3. SequentialPart => ChunksFit
    BY SequentialMeans
<1> QED BY <1>1, <1>2, <1>3, PTL DEF NewSpec

\* Every open response body belongs to a stream or is the sequential reader's only one, and
\* Close leaves none (parallel.go:400-416, sequential.go:232-242).
THEOREM BodiesCorrect ==
    ASSUME RangesAreServed, ErrorsAreHeeded
    PROVE  NewSpec => []NoBodyLeaks
<1>1. NewInit => ParallelInv /\ SequentialPart
    BY NewStarts
<1>2. ParallelInv /\ SequentialPart /\ [NewNext]_newVars => ParallelInv' /\ SequentialPart'
    BY NewKeepsParallel, NewKeepsSequential
<1>3. ParallelInv /\ SequentialPart => NoBodyLeaks
    BY ParallelMeans, SequentialMeans DEF NoBodyLeaks
<1> QED BY <1>1, <1>2, <1>3, PTL DEF NewSpec

\* Whichever reader New makes, the caller gets the object's bytes, each at its place, and EOF
\* at the end (chunkedreader.go:45-67).
THEOREM Refinement ==
    ASSUME RangesAreServed, ErrorsAreHeeded
    PROVE  NewSpec => ReaderIsByteStream
<1>1. NewInit => ParallelInv /\ SequentialPart /\ Reader!Init
    BY NewStarts
<1>2. ParallelInv /\ SequentialPart /\ [NewNext]_newVars => ParallelInv' /\ SequentialPart'
    BY NewKeepsParallel, NewKeepsSequential
<1>3. ParallelInv /\ SequentialPart /\ [NewNext]_newVars =>
          [Reader!Next]_<<IF kind = "parallel" THEN Place ELSE Sequential!Position,
                          IF kind = "parallel" THEN closed ELSE seq.closed, told>>
    BY NewSteps
<1> QED BY <1>1, <1>2, <1>3, PTL DEF NewSpec, ReaderIsByteStream, Reader!Spec
==============================================================================
