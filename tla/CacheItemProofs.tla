----------------------------- MODULE CacheItemProofs -----------------------------
(***************************************************************************)
(* What the life of a cache item keeps true for any number of handlers,    *)
(* items and blocks: types, the count of the accesses under way, resets    *)
(* that find nobody inside, and Rs and metadata that claim nothing which   *)
(* is not there.                                                           *)
(***************************************************************************)
EXTENDS CacheItem, FiniteSetTheorems, FunctionTheorems, Lemmas

(* Types, for opens and pending without the bounds that counting gives them *)

Sizes == {"nil", "ok", "bad"}

ItemType == [opens : Int, rs : SUBSET Blocks, sized : BOOLEAN, fd : Inodes \cup {NoFile},
             o : Sizes, dls : Sizes, lost : BOOLEAN, pending : Int, reset : BOOLEAN,
             grace : BOOLEAN, closing : BOOLEAN, mu : BOOLEAN]

MetaType == [exists : BOOLEAN, rs : SUBSET Blocks]
DataType == [Inodes -> [Blocks -> {"hole", "data"}]]
DiskType == [path : Inodes \cup {NoFile}, meta : MetaType, data : DataType]

States == [it : ItemType, dk : DiskType]

\* Places of a handler: inside open, inside readAt, and the others
Opening == {"recreate", "failed", "put", "check", "putBack", "finish"}
Reading == {"ensure", "new", "wait", "closed", "copy"}
Outside == {"idle", "open", "opened", "size", "reading", "read"}

HandlerType == [pc : Opening \cup Reading \cup Outside, i : Items \cup {NoItem},
                old : Items \cup {NoItem}, opened : Items \cup {NoItem},
                head : Sizes, b : Blocks, res : {"none", "err", "nospace", "hole", "data"}]

\* What a handler's locals are at each of its places
HandlerOK(r) ==
    /\ r \in HandlerType
    /\ r.pc \notin {"idle", "opened", "reading"} => r.i \in Items
    /\ r.pc \in {"check", "putBack"} => r.old \in Items
    /\ r.pc \in {"idle", "open"} \cup Opening => r.opened = NoItem
    /\ CanClose /\ r.pc \in Reading \cup {"opened", "size", "reading", "read"} => r.opened \in Items

\* The map, the purger and the cleaner
RestTyped ==
    /\ map \in Items \cup {NoItem} /\ cmu \in BOOLEAN /\ errItem \in BOOLEAN
    /\ purges \in 0 .. MaxPurges /\ restarts \in 0 .. MaxRestarts
    /\ purger \in [pc : {"idle", "item", "meta"}, i : Items \cup {NoItem}]
    /\ purger.pc # "idle" => purger.i \in Items
    /\ cleaner \in [pc : {"idle", "round", "removing", "resetting"}, i : Items \cup {NoItem}]
    /\ cleaner.pc # "idle" => cleaner.i \in Items

Typed ==
    /\ item \in [Items -> ItemType] /\ disk \in DiskType
    /\ handler \in [Handlers -> HandlerType]
    /\ \A h \in Handlers : HandlerOK(handler[h])
    /\ RestTyped

-------------------------------------------------------------------------------
(* The functions of item.go keep types, and most fields *)

\* NoItem is not one of the items.
LEMMA NoItemIsNone == NoItem \notin Items
<1>1. PICK n \in Nat : Items = 1 .. n
    BY CacheItemAssumption, FS_CardinalityType
<1> QED BY <1>1 DEF NoItem

\* There is a cache file number left that no item has open.
LEMMA FreeInode ==
    ASSUME Typed
    PROVE  \E n \in Inodes : \A j \in Items : item[j].fd # n
<1> SUFFICES ASSUME \A n \in Inodes : \E j \in Items : item[j].fd = n
             PROVE  FALSE
    OBVIOUS
<1>1. PICK f \in [Inodes -> Items] : \A n \in Inodes : item[f[n]].fd = n
    <2> DEFINE g == [n \in Inodes |-> CHOOSE j \in Items : item[j].fd = n]
    <2>1. g \in [Inodes -> Items] /\ \A n \in Inodes : item[g[n]].fd = n
        OBVIOUS
    <2> QED BY <2>1
<1>2. Cardinality(Items) \in Nat
    BY CacheItemAssumption, FS_CardinalityType
<1>3. IsFiniteSet(Inodes) /\ Cardinality(Inodes) = Cardinality(Items) + 1
    BY <1>2, CacheItemAssumption, FS_Interval
<1>4. IsFiniteSet(Items) /\ Cardinality(Items) < Cardinality(Inodes)
    BY <1>2, <1>3, CacheItemAssumption
<1>5. \E x, y \in Inodes : x # y /\ f[x] = f[y]
    BY <1>3, <1>4, FS_PigeonHole
<1> QED BY <1>1, <1>5

\* i and the disk become s, the other items stay as they are.
LEMMA BecomesType ==
    ASSUME Typed, NEW i \in Items, NEW s \in States, Becomes(i, s)
    PROVE  /\ item' = [item EXCEPT ![i] = s.it] /\ item' \in [Items -> ItemType]
           /\ disk' \in DiskType
<1>1. s.it \in ItemType /\ s.dk \in DiskType
    BY DEF States
<1>2. item' = [item EXCEPT ![i] = s.it] /\ item' \in [Items -> ItemType]
    BY <1>1 DEF Becomes, Typed
<1> DEFINE d == [n \in Inodes |->
                    IF n = s.dk.path \/ n = s.it.fd \/ \E j \in Items \ {i} : item[j].fd = n
                    THEN s.dk.data[n] ELSE Holes]
<1>3. d \in DataType
    BY <1>1 DEF DiskType, DataType, Holes
<1>4. disk' = [s.dk EXCEPT !.data = d]
    BY DEF Becomes
<1> QED BY <1>1, <1>2, <1>3, <1>4 DEF DiskType

\* An item and the disk are a state.
LEMMA AtType == ASSUME Typed, NEW i \in Items
                PROVE  At(i) \in States /\ At(i).it = item[i] /\ At(i).dk = disk
BY DEF Typed, States, At

\* newItem
LEMMA NewItemType ==
    ASSUME NEW dk \in DiskType
    PROVE  /\ NewItem(dk) \in States
           /\ NewItem(dk).it.opens = 0 /\ NewItem(dk).it.pending = 0
           /\ ~NewItem(dk).it.reset
<1> DEFINE both == dk.path # NoFile /\ dk.meta.exists
           rs == IF both THEN dk.meta.rs ELSE {}
           it == [Fresh EXCEPT !.rs = rs, !.sized = dk.path # NoFile]
           dk2 == IF both THEN dk ELSE [dk EXCEPT !.path = NoFile, !.meta = NoMeta]
<1>1. rs \in SUBSET Blocks
    BY DEF DiskType, MetaType
<1>2. dk2 \in DiskType
    BY DEF DiskType, MetaType, NoMeta, NoFile
<1> HIDE DEF rs, dk2
<1>3. it \in ItemType /\ it.opens = 0 /\ it.pending = 0 /\ ~it.reset
    <2>1. Fresh \in ItemType /\ Fresh.opens = 0 /\ Fresh.pending = 0 /\ ~Fresh.reset
        BY DEF ItemType, Fresh, Sizes, NoFile
    <2> QED BY <1>1, <2>1 DEF ItemType
<1>4. NewItem(dk) = [it |-> it, dk |-> dk2]
    BY DEF NewItem, rs, dk2
<1> HIDE DEF it
<1> QED BY <1>2, <1>3, <1>4 DEF States

\* What the parts of an item are that most functions leave alone
Counters(it) == <<it.opens, it.pending, it.reset>>

\* _checkObject touches neither the counters nor the open file.
LEMMA CheckObjectType ==
    ASSUME Typed, NEW s \in States, NEW o \in Sizes
    PROVE  /\ CheckObject(s, o) \in States
           /\ Counters(CheckObject(s, o).it) = Counters(s.it)
           /\ CheckObject(s, o).it.fd = s.it.fd
<1> DEFINE new == CHOOSE n \in Inodes : \A j \in Items : item[j].fd # n
<1>1. new \in Inodes
    BY FreeInode
<1> HIDE DEF new
<1>2. s.it \in ItemType /\ s.dk \in DiskType
    BY DEF States
<1> DEFINE dk2 == [s.dk EXCEPT !.path = new, !.data[new] = Holes,
                               !.meta = IF s.it.rs # {} THEN NoMeta ELSE @]
<1>3. dk2 \in DiskType
    BY <1>1, <1>2 DEF DiskType, DataType, MetaType, NoMeta, Holes
<1> HIDE DEF dk2
<1> DEFINE file == IF s.it.fd # NoFile THEN s.it.fd ELSE s.dk.path
<1>4. CASE file # NoFile
    <2> DEFINE it == [s.it EXCEPT !.o = o, !.sized = TRUE]
    <2>1. it \in ItemType /\ Counters(it) = Counters(s.it) /\ it.fd = s.it.fd
        BY <1>2 DEF ItemType, Counters
    <2>2. CheckObject(s, o) = [it |-> it, dk |-> s.dk]
        BY <1>4 DEF CheckObject, States
    <2> HIDE DEF it
    <2> QED BY <1>2, <2>1, <2>2 DEF States
<1>5. CASE file = NoFile /\ o = "bad"
    <2> DEFINE it == [s.it EXCEPT !.o = o, !.sized = FALSE]
    <2>1. it \in ItemType /\ Counters(it) = Counters(s.it) /\ it.fd = s.it.fd
        BY <1>2 DEF ItemType, Counters
    <2>2. CheckObject(s, o) = [it |-> it, dk |-> s.dk]
        BY <1>5 DEF CheckObject, States
    <2> HIDE DEF it
    <2> QED BY <1>2, <2>1, <2>2 DEF States
<1>6. CASE file = NoFile /\ o # "bad"
    <2> DEFINE it == [s.it EXCEPT !.o = o, !.sized = TRUE, !.rs = {}]
    <2>1. it \in ItemType /\ Counters(it) = Counters(s.it) /\ it.fd = s.it.fd
        BY <1>2 DEF ItemType, Counters
    <2>2. CheckObject(s, o) = [it |-> it, dk |-> dk2]
        BY <1>6 DEF CheckObject, dk2, new
    <2> HIDE DEF it
    <2> QED BY <1>3, <2>1, <2>2 DEF States
<1> QED BY <1>4, <1>5, <1>6

\* _remove touches neither the counters nor the open file.
LEMMA RemovedType ==
    ASSUME NEW s \in States
    PROVE  /\ Removed(s) \in States
           /\ Counters(Removed(s).it) = Counters(s.it)
           /\ Removed(s).it.fd = s.it.fd /\ Removed(s).it.rs = {}
BY DEF Removed, States, ItemType, DiskType, MetaType, NoMeta, Counters, NoFile

\* _createFile touches no counters.
LEMMA CreatedType ==
    ASSUME NEW s \in States
    PROVE  /\ Created(s) \in States
           /\ Counters(Created(s).it) = Counters(s.it)
BY DEF Created, States, ItemType, DiskType, MetaType, Meta, Counters

\* Making downloaders touches no counters.
LEMMA WithDownloadersType ==
    ASSUME NEW it \in ItemType
    PROVE  /\ WithDownloaders(it) \in ItemType
           /\ Counters(WithDownloaders(it)) = Counters(it)
BY DEF WithDownloaders, ItemType, Counters

\* The counters of the item are set to opens and pending.
Counting(s, opens, pending) == [s EXCEPT !.it.opens = opens, !.it.pending = pending]

\* preAccess, postAccess and the count of the handles keep the types.
LEMMA CountingType ==
    ASSUME NEW s \in States, NEW o \in Int, NEW n \in Int
    PROVE  /\ Counting(s, o, n) \in States
           /\ Counting(s, o, n).it.opens = o /\ Counting(s, o, n).it.pending = n
           /\ Counting(s, o, n).it.reset = s.it.reset /\ Counting(s, o, n).it.fd = s.it.fd
<1> PICK x \in ItemType : x = s.it
    BY DEF States
<1> DEFINE it == [x EXCEPT !.opens = o, !.pending = n]
<1>1. it \in ItemType /\ it.opens = o /\ it.pending = n /\ it.reset = x.reset /\ it.fd = x.fd
    BY DEF ItemType
<1>2. Counting(s, o, n) = [s EXCEPT !.it = it]
    BY DEF Counting, States
<1> HIDE DEF it
<1> QED BY <1>1, <1>2 DEF States

\* The item of a state is replaced.
With(s, it) == [s EXCEPT !.it = it]

\* Every function of item.go ends in such a state.
LEMMA WithType ==
    ASSUME NEW s \in States, NEW it \in ItemType
    PROVE  With(s, it) \in States /\ With(s, it).it = it /\ With(s, it).dk = s.dk
BY DEF With, States

-------------------------------------------------------------------------------
(* Counting *)

\* A handler at r is inside an access to i; it has opened i, or is opening it
InsideOf(r, i) == r.i = i /\ r.pc \in Opening \cup Reading
Opens(r, i) == (r.i = i /\ r.pc \in Opening) \/ r.opened = i

Openers(i) == {h \in Handlers : Opens(handler[h], i)}

\* pending counts the accesses under way, opens at least those that will give it back,
\* and nobody is inside an item that is being reset.
Counted ==
    /\ \A i \in Items : /\ item[i].pending = Cardinality(Inside(i))
                        /\ Cardinality(Openers(i)) <= item[i].opens /\ item[i].opens <= MaxOpens
                        /\ item[i].reset => Inside(i) = {}
    /\ cleaner.pc = "resetting" => item[cleaner.i].reset

CountInv == Typed /\ Counted

Bit(b) == IF b THEN 1 ELSE 0

\* Inside is the set of handlers that are inside.
LEMMA InsideIs == \A i : Inside(i) = {h \in Handlers : InsideOf(handler[h], i)}
BY DEF Inside, InsideOf, Opening, Reading

\* Both sets are finite.
LEMMA Finite ==
    ASSUME NEW i
    PROVE  /\ IsFiniteSet(Inside(i)) /\ Cardinality(Inside(i)) \in Nat
           /\ IsFiniteSet(Openers(i)) /\ Cardinality(Openers(i)) \in Nat
<1>1. Inside(i) \subseteq Handlers /\ Openers(i) \subseteq Handlers
    BY DEF Inside, Openers
<1> QED BY <1>1, CacheItemAssumption, FS_Subset, FS_CardinalityType

\* What one element that comes or goes does to the size of a finite set.
LEMMA OneElement ==
    ASSUME NEW S, NEW T, NEW h, IsFiniteSet(S), \A x : x # h => (x \in S <=> x \in T)
    PROVE  Cardinality(T) = Cardinality(S) + Bit(h \in T) - Bit(h \in S)
<1>0. Cardinality(S) \in Nat
    BY FS_CardinalityType
<1>1. CASE h \in T /\ h \notin S
    <2>1. T = S \cup {h}
        BY <1>1
    <2> QED BY <1>0, <1>1, <2>1, FS_AddElement DEF Bit
<1>2. CASE h \notin T /\ h \in S
    <2>1. T = S \ {h}
        BY <1>2
    <2> QED BY <1>0, <1>2, <2>1, FS_RemoveElement DEF Bit
<1>3. CASE (h \in T) <=> (h \in S)
    <2>1. T = S
        BY <1>3
    <2> QED BY <1>0, <1>3, <2>1 DEF Bit
<1> QED BY <1>1, <1>2, <1>3

\* A step in which one handler counts itself in or out, and no other does.
LEMMA OneHandler ==
    ASSUME CountInv, NEW h \in Handlers, NEW r, handler'[h] = r,
           \A x \in Handlers \ {h}, j \in Items :
              /\ InsideOf(handler'[x], j) <=> InsideOf(handler[x], j)
              /\ Opens(handler'[x], j) <=> Opens(handler[x], j),
           cleaner' = cleaner,
           \A j \in Items :
              /\ item'[j].pending = item[j].pending + Bit(InsideOf(r, j)) - Bit(InsideOf(handler[h], j))
              /\ item'[j].opens \in Int /\ item'[j].opens <= MaxOpens
              /\ item'[j].opens >= item[j].opens + Bit(Opens(r, j)) - Bit(Opens(handler[h], j))
              /\ item'[j].reset = item[j].reset
              /\ item[j].reset /\ InsideOf(r, j) => InsideOf(handler[h], j)
    PROVE  Counted'
<1>2. ASSUME NEW j \in Items
      PROVE  /\ item'[j].pending = Cardinality(Inside(j)')
             /\ Cardinality(Openers(j)') <= item'[j].opens /\ item'[j].opens <= MaxOpens
             /\ item'[j].reset => Inside(j)' = {}
    <2>1. Inside(j)' = {x \in Handlers : InsideOf(handler'[x], j)}
        BY DEF Inside, InsideOf, Opening, Reading
    <2>2. /\ \A x : x # h => (x \in Inside(j) <=> x \in Inside(j)')
          /\ (h \in Inside(j)' <=> InsideOf(r, j)) /\ (h \in Inside(j) <=> InsideOf(handler[h], j))
        BY <2>1, InsideIs
    <2>3. /\ \A x : x # h => (x \in Openers(j) <=> x \in Openers(j)')
          /\ (h \in Openers(j)' <=> Opens(r, j)) /\ (h \in Openers(j) <=> Opens(handler[h], j))
        BY DEF Openers
    <2> HIDE DEF Inside, Openers, InsideOf, Opens
    <2>4. /\ Cardinality(Inside(j)') = Cardinality(Inside(j)) + Bit(InsideOf(r, j))
                                                            - Bit(InsideOf(handler[h], j))
          /\ Cardinality(Openers(j)') = Cardinality(Openers(j)) + Bit(Opens(r, j))
                                                              - Bit(Opens(handler[h], j))
        <3>1. Cardinality(Inside(j)') = Cardinality(Inside(j)) + Bit(h \in Inside(j)')
                                                              - Bit(h \in Inside(j))
            BY <2>2, Finite, OneElement
        <3>2. Cardinality(Openers(j)') = Cardinality(Openers(j)) + Bit(h \in Openers(j)')
                                                                - Bit(h \in Openers(j))
            BY <2>3, Finite, OneElement
        <3> QED BY <2>2, <2>3, <3>1, <3>2 DEF Bit
    <2>5. /\ item[j].pending = Cardinality(Inside(j)) /\ Cardinality(Openers(j)) <= item[j].opens
          /\ item[j].opens \in Int /\ (item[j].reset => Inside(j) = {})
        BY DEF CountInv, Counted, Typed, ItemType
    <2>6. item'[j].reset => Inside(j)' = {}
        BY <2>2, <2>5
    <2>7. item'[j].pending = Cardinality(Inside(j)')
        BY <2>4, <2>5
    <2>8. Cardinality(Openers(j)') <= item'[j].opens
        BY <2>4, <2>5, Finite, CacheItemAssumption DEF Bit
    <2> QED BY <2>6, <2>7, <2>8
<1>3. cleaner'.pc = "resetting" => item'[cleaner'.i].reset
    BY DEF CountInv, Counted, Typed, RestTyped
<1> QED BY <1>2, <1>3 DEF Counted

\* A step in which nobody counts itself in or out.
LEMMA NoHandler ==
    ASSUME CountInv,
           \A h \in Handlers, j \in Items :
              /\ InsideOf(handler'[h], j) <=> InsideOf(handler[h], j)
              /\ Opens(handler'[h], j) <=> Opens(handler[h], j),
           \A j \in Items :
              /\ item'[j].pending = item[j].pending /\ item'[j].opens = item[j].opens
              /\ item'[j].reset => item[j].reset \/ item[j].pending = 0,
           cleaner'.pc = "resetting" => item'[cleaner'.i].reset
    PROVE  Counted'
<1> SUFFICES ASSUME NEW j \in Items
             PROVE  /\ item'[j].pending = Cardinality(Inside(j)')
                    /\ Cardinality(Openers(j)') <= item'[j].opens /\ item'[j].opens <= MaxOpens
                    /\ item'[j].reset => Inside(j)' = {}
    BY DEF Counted
<1>1. Inside(j)' = Inside(j)
    <2>1. Inside(j)' = {x \in Handlers : InsideOf(handler'[x], j)}
        BY DEF Inside, InsideOf, Opening, Reading
    <2> QED BY <2>1, InsideIs
<1>2. Openers(j)' = Openers(j)
    BY DEF Openers
<1>3. item[j].pending = 0 => Inside(j) = {}
    BY Finite, FS_EmptySet DEF CountInv, Counted
<1> QED BY <1>1, <1>2, <1>3 DEF CountInv, Counted

\* The step of a handler on its item, to s and r.
LEMMA OnStep ==
    ASSUME CountInv, NEW h \in Handlers, NEW r, NEW s \in States,
           handler[h].i \in Items, On(h, s, r), HandlerOK(r), r.i \in {handler[h].i, NoItem},
           r.opened \in {handler[h].i, handler[h].opened, NoItem},
           LET i == handler[h].i IN
              /\ s.it.pending = item[i].pending + Bit(InsideOf(r, i)) - Bit(InsideOf(handler[h], i))
              /\ s.it.opens <= MaxOpens
              /\ s.it.opens >= item[i].opens + Bit(Opens(r, i)) - Bit(Opens(handler[h], i))
              /\ s.it.reset = item[i].reset
              /\ item[i].reset /\ InsideOf(r, i) => InsideOf(handler[h], i)
    PROVE  CountInv'
<1> DEFINE i == handler[h].i
<1>1. /\ item' = [item EXCEPT ![i] = s.it] /\ item' \in [Items -> ItemType] /\ disk' \in DiskType
      /\ handler' = [handler EXCEPT ![h] = r]
      /\ UNCHANGED <<map, cmu, purger, purges, cleaner, errItem, restarts>>
    BY BecomesType DEF On, Handler, CountInv
<1>2. Typed'
    BY <1>1 DEF CountInv, Typed, RestTyped, HandlerOK
<1>3. ASSUME NEW j \in Items
      PROVE  /\ item'[j].pending = item[j].pending + Bit(InsideOf(r, j)) - Bit(InsideOf(handler[h], j))
             /\ item'[j].opens \in Int /\ item'[j].opens <= MaxOpens
             /\ item'[j].opens >= item[j].opens + Bit(Opens(r, j)) - Bit(Opens(handler[h], j))
             /\ item'[j].reset = item[j].reset
             /\ item[j].reset /\ InsideOf(r, j) => InsideOf(handler[h], j)
    <2>1. CASE j = i
        BY <1>1, <2>1 DEF CountInv, Typed, States, ItemType
    <2>2. CASE j # i
        <3>1. item'[j] = item[j] /\ item[j].opens \in Int /\ item[j].pending \in Int /\ item[j].opens <= MaxOpens
            BY <1>1, <2>2 DEF CountInv, Typed, ItemType, Counted
        <3>2. j # NoItem
            BY NoItemIsNone
        <3>3. ~InsideOf(r, j) /\ ~InsideOf(handler[h], j)
            BY <2>2, <3>2 DEF InsideOf
        <3>4. Opens(r, j) => Opens(handler[h], j)
            BY <2>2, <3>2 DEF Opens
        <3> QED BY <3>1, <3>3, <3>4, CacheItemAssumption DEF Bit
    <2> QED BY <2>1, <2>2
<1>4. /\ handler'[h] = r
      /\ \A x \in Handlers \ {h} : handler'[x] = handler[x]
    BY <1>1 DEF CountInv, Typed
<1>5. Counted'
    BY <1>1, <1>3, <1>4, OneHandler
<1> QED BY <1>2, <1>5 DEF CountInv

\* The handler's record at its places, and what it counts for.
LEMMA HandlerAt ==
    ASSUME CountInv, NEW h \in Handlers
    PROVE  /\ HandlerOK(handler[h])
           /\ handler[h].i \in Items =>
                 /\ At(handler[h].i) \in States
                 /\ At(handler[h].i).it = item[handler[h].i] /\ At(handler[h].i).dk = disk
                 /\ item[handler[h].i] \in ItemType
                 /\ item[handler[h].i].opens <= MaxOpens
                 /\ item[handler[h].i].opens >= Bit(Opens(handler[h], handler[h].i))
                 /\ item[handler[h].i].opens >= 0
<1>1. HandlerOK(handler[h])
    BY DEF CountInv, Typed
<1>2. ASSUME NEW i \in Items
      PROVE  /\ At(i) \in States /\ At(i).it = item[i] /\ At(i).dk = disk
             /\ item[i] \in ItemType /\ item[i].opens <= MaxOpens
             /\ item[i].opens >= Bit(Opens(handler[h], i)) /\ item[i].opens >= 0
    <2>1. /\ item[i] \in ItemType /\ item[i].opens \in Int /\ item[i].opens <= MaxOpens
          /\ Cardinality(Openers(i)) <= item[i].opens
        BY DEF CountInv, Typed, Counted, ItemType
    <2>2. /\ IsFiniteSet(Openers(i)) /\ Cardinality(Openers(i)) \in Nat
          /\ Cardinality(Openers(i)) = 0 => Openers(i) = {}
        BY Finite, FS_EmptySet
    <2>3. Opens(handler[h], i) => h \in Openers(i)
        BY DEF Openers
    <2>4. item[i].opens >= Bit(Opens(handler[h], i)) /\ item[i].opens >= 0
        BY <2>1, <2>2, <2>3 DEF Bit
    <2> QED BY <2>1, <2>4, AtType DEF CountInv
<1> QED BY <1>1, <1>2

-------------------------------------------------------------------------------
(* The steps of open *)

\* What open leaves of the item it works on, when it has counted itself in or out
Adds(s, i, opens, pending) ==
    /\ s \in States /\ s.it.reset = item[i].reset
    /\ s.it.opens = item[i].opens + opens /\ s.it.pending = item[i].pending + pending

\* The end of open's part under the lock: counted in by now.
LEMMA CreateFileStep ==
    ASSUME CountInv, NEW h \in Handlers, NEW s, handler[h].pc \in {"open", "recreate"},
           handler[h].pc = "open" => /\ Adds(s, handler[h].i, 1, 1) /\ ~item[handler[h].i].reset
                                     /\ item[handler[h].i].opens = 0,
           handler[h].pc = "recreate" => Adds(s, handler[h].i, 0, 0),
           CreateFile(h, s)
    PROVE  CountInv'
<1> DEFINE i == handler[h].i
<1>1. handler[h] \in HandlerType /\ i \in Items /\ handler[h].opened = NoItem
    BY HandlerAt DEF HandlerOK, Opening, Reading, Outside
<1>2. /\ s \in States /\ s.it \in ItemType /\ item[i] \in ItemType
      /\ s.it.opens <= MaxOpens /\ 1 <= MaxOpens
    BY <1>1, HandlerAt, CacheItemAssumption DEF Adds, States, ItemType
<1>3. PICK t, r :
          /\ t \in States /\ On(h, t, r) /\ Counters(t.it) = Counters(s.it)
          /\ \E pc \in {"put", "failed"}, res \in {"none", "nospace", "err", handler[h].res} :
                r = [handler[h] EXCEPT !.pc = pc, !.res = res]
    <2>1. CASE CanCreate(s) /\ On(h, Created(s), [handler[h] EXCEPT !.pc = "put"])
        <3>1. [handler[h] EXCEPT !.pc = "put"] = [handler[h] EXCEPT !.pc = "put", !.res = handler[h].res]
            BY <1>1 DEF HandlerType
        <3> QED BY <1>2, <2>1, <3>1, CreatedType
    <2>2. CASE On(h, s, [handler[h] EXCEPT !.pc = "failed",
                                           !.res = IF CanCreate(s) THEN "nospace" ELSE "err"])
        BY <1>2, <2>2
    <2> QED BY <2>1, <2>2 DEF CreateFile
<1>4. /\ HandlerOK(r) /\ r.i = i /\ r.opened = NoItem /\ r.pc \in Opening
    BY <1>1, <1>3 DEF HandlerOK, HandlerType, Opening, Reading, Outside
<1>5. /\ InsideOf(r, i) /\ Opens(r, i)
      /\ InsideOf(handler[h], i) <=> handler[h].pc = "recreate"
      /\ Opens(handler[h], i) <=> handler[h].pc = "recreate"
    BY <1>1, <1>4, NoItemIsNone DEF InsideOf, Opens, Opening, Reading
<1>6. t.it.opens = s.it.opens /\ t.it.pending = s.it.pending /\ t.it.reset = s.it.reset
    BY <1>3 DEF Counters
<1>7. /\ t.it.pending = item[i].pending + Bit(InsideOf(r, i)) - Bit(InsideOf(handler[h], i))
      /\ t.it.opens <= MaxOpens
      /\ t.it.opens >= item[i].opens + Bit(Opens(r, i)) - Bit(Opens(handler[h], i))
      /\ t.it.reset = item[i].reset
      /\ item[i].reset /\ InsideOf(r, i) => InsideOf(handler[h], i)
    BY <1>2, <1>5, <1>6 DEF Bit, Adds, ItemType
<1> QED BY <1>1, <1>3, <1>4, <1>7, OnStep

\* open on an item that is not open.
LEMMA OpenFirstStep ==
    ASSUME CountInv, NEW h \in Handlers, OpenFirst(h)
    PROVE  CountInv'
<1> DEFINE i == handler[h].i
           c == CheckObject(At(i), handler[h].head)
           s == [c EXCEPT !.it.opens = 1, !.it.pending = @ + 1]
<1>1. handler[h].pc = "open" /\ ~item[i].reset /\ item[i].opens = 0 /\ CreateFile(h, s)
    BY DEF OpenFirst
<1>2. i \in Items /\ handler[h].head \in Sizes
    BY <1>1, HandlerAt DEF HandlerOK, HandlerType
<1>3. c \in States /\ Counters(c.it) = Counters(item[i])
    BY <1>2, HandlerAt, CheckObjectType DEF CountInv
<1> HIDE DEF c
<1>4. Adds(s, i, 1, 1)
    <2>1. c.it \in ItemType /\ c.it.pending = item[i].pending /\ c.it.reset = item[i].reset
        BY <1>3 DEF Counters, States
    <2>2. c.it.pending + 1 \in Int
        BY <2>1 DEF ItemType
    <2>3. s = Counting(c, 1, c.it.pending + 1)
        BY DEF Counting
    <2> HIDE DEF s
    <2> QED BY <1>1, <1>3, <2>1, <2>2, <2>3, CountingType DEF Adds
<1> HIDE DEF s
<1> QED BY <1>1, <1>4, CreateFileStep

\* open goes on after the file has vanished.
LEMMA RecreateStep ==
    ASSUME CountInv, NEW h \in Handlers, Recreate(h)
    PROVE  CountInv'
<1>1. handler[h].pc = "recreate" /\ CreateFile(h, At(handler[h].i)) /\ handler[h].i \in Items
    BY HandlerAt DEF Recreate, HandlerOK
<1>2. At(handler[h].i) \in States /\ At(handler[h].i).it = item[handler[h].i]
    BY <1>1, HandlerAt
<1>3. item[handler[h].i] \in ItemType
    BY <1>1, HandlerAt
<1>4. Adds(At(handler[h].i), handler[h].i, 0, 0)
    BY <1>2, <1>3 DEF Adds, ItemType
<1> QED BY <1>1, <1>4, CreateFileStep

\* open on an item that is open already, or in its grace period.
LEMMA OpenAgainStep ==
    ASSUME CountInv, NEW h \in Handlers, OpenAgain(h)
    PROVE  CountInv'
<1> DEFINE i == handler[h].i
           c == CheckObject(At(i), handler[h].head)
           s == [c EXCEPT !.it.opens = @ + 1, !.it.grace = FALSE]
           r == Opened(h)
<1>1. handler[h].pc = "open" /\ ~item[i].reset /\ item[i].opens < MaxOpens /\ On(h, s, r)
    BY DEF OpenAgain
<1>2. i \in Items /\ handler[h] \in HandlerType /\ handler[h].opened = NoItem
    BY <1>1, HandlerAt DEF HandlerOK
<1>3. c \in States /\ Counters(c.it) = Counters(item[i])
    BY <1>2, HandlerAt, CheckObjectType DEF CountInv, HandlerType
<1> HIDE DEF c
<1>4. /\ s \in States /\ s.it.opens = item[i].opens + 1
      /\ s.it.pending = item[i].pending /\ s.it.reset = item[i].reset
    <2>1. PICK x \in ItemType : x = c.it
        BY <1>3 DEF States
    <2>0. PICK n \in Int : n = x.opens + 1
        BY DEF ItemType
    <2> DEFINE it == [x EXCEPT !.opens = n, !.grace = FALSE]
    <2>2. it \in ItemType /\ it.opens = n /\ it.pending = x.pending /\ it.reset = x.reset
        BY DEF ItemType
    <2>4. n = item[i].opens + 1 /\ x.pending = item[i].pending /\ x.reset = item[i].reset
        BY <1>3, <2>1, <2>0 DEF Counters
    <2>3. s = With(c, it)
        BY <1>3, <2>1, <2>0 DEF With
    <2> HIDE DEF it, s
    <2> QED BY <1>3, <2>2, <2>3, <2>4, WithType
<1> HIDE DEF s
<1>5. HandlerOK(r) /\ r.i = NoItem /\ r.opened \in {i, NoItem} /\ r.pc = "opened"
    BY ZenonT(60), <1>2 DEF Opened, HandlerOK, HandlerType, Opening, Reading, Outside
<1> HIDE DEF r
<1>6. ~InsideOf(r, i) /\ ~InsideOf(handler[h], i) /\ ~Opens(handler[h], i)
    BY <1>1, <1>2, <1>5, NoItemIsNone DEF InsideOf, Opens, Opening, Reading
<1>7. item[i] \in ItemType /\ item[i].opens >= 0
    BY <1>2, HandlerAt
<1>8. /\ s.it.opens <= MaxOpens
      /\ s.it.opens >= item[i].opens + Bit(Opens(r, i)) - Bit(Opens(handler[h], i))
    BY <1>1, <1>4, <1>6, <1>7, CacheItemAssumption DEF Bit, ItemType
<1>9. s.it.pending = item[i].pending + Bit(InsideOf(r, i)) - Bit(InsideOf(handler[h], i))
    BY <1>4, <1>6, <1>7 DEF Bit, ItemType
<1> QED BY <1>1, <1>2, <1>4, <1>5, <1>6, <1>8, <1>9, OnStep

\* A read ends: it counts itself out.
LEMMA ReadEndsStep ==
    ASSUME CountInv, NEW h \in Handlers, NEW c \in States, NEW r, handler[h].pc \in Reading,
           Counters(c.it) = Counters(item[handler[h].i]), HandlerOK(r), r.pc \in {"read", "reading"},
           r.i \in {handler[h].i, NoItem}, r.opened = handler[h].opened,
           On(h, [c EXCEPT !.it.pending = @ - 1], r)
    PROVE  CountInv'
<1> DEFINE i == handler[h].i
           s == [c EXCEPT !.it.pending = @ - 1]
<1>1. i \in Items /\ handler[h] \in HandlerType
    BY HandlerAt DEF HandlerOK, Reading
<1>0. On(h, s, r)
    OBVIOUS
<1>2. /\ s \in States /\ s.it.pending = item[i].pending - 1
      /\ s.it.opens = item[i].opens /\ s.it.reset = item[i].reset
    <2>1. PICK x \in ItemType : x = c.it
        BY DEF States
    <2>2. PICK n \in Int : n = x.pending - 1
        BY DEF ItemType
    <2> DEFINE it == [x EXCEPT !.pending = n]
    <2>3. it \in ItemType /\ it.opens = x.opens /\ it.pending = n /\ it.reset = x.reset
        BY DEF ItemType
    <2>4. x.opens = item[i].opens /\ x.pending = item[i].pending /\ x.reset = item[i].reset
        BY <2>1 DEF Counters
    <2>5. s = With(c, it)
        BY <2>1, <2>2 DEF With
    <2> HIDE DEF it, s
    <2> QED BY <2>2, <2>3, <2>4, <2>5, WithType
<1> HIDE DEF s
<1>3. /\ InsideOf(handler[h], i) /\ ~InsideOf(r, i)
      /\ Opens(handler[h], i) <=> Opens(r, i)
    BY <1>1, NoItemIsNone DEF InsideOf, Opens, Opening, Reading
<1>4. item[i] \in ItemType /\ item[i].opens <= MaxOpens
    BY <1>1, HandlerAt
<1>5. /\ s.it.pending = item[i].pending + Bit(InsideOf(r, i)) - Bit(InsideOf(handler[h], i))
      /\ s.it.opens <= MaxOpens
      /\ s.it.opens >= item[i].opens + Bit(Opens(r, i)) - Bit(Opens(handler[h], i))
    BY <1>2, <1>3, <1>4, CacheItemAssumption DEF Bit, ItemType
<1> QED BY <1>0, <1>1, <1>2, <1>3, <1>5, OnStep

\* Download fails.
LEMMA ReadFailsStep ==
    ASSUME CountInv, NEW h \in Handlers, ReadFails(h)
    PROVE  CountInv'
<1>1. handler[h].pc \in {"wait", "ensure"} /\ HandlerOK(handler[h]) /\ handler[h].i \in Items
    BY HandlerAt DEF ReadFails, HandlerOK
<1>2. PICK r \in {Over(h, "err"), [handler[h] EXCEPT !.pc = "read"]} :
          On(h, [At(handler[h].i) EXCEPT !.it.pending = @ - 1], r)
    BY DEF ReadFails
<1>3. Idle.b \in Blocks
    BY CacheItemAssumption DEF Idle
<1>4. /\ HandlerOK(r) /\ r.pc \in {"read", "reading"} /\ r.i \in {handler[h].i, NoItem}
      /\ r.opened = handler[h].opened
    BY <1>1, <1>2, <1>3 DEF Over, HandlerOK, HandlerType, Opening, Reading, Outside
<1>5. /\ At(handler[h].i) \in States
      /\ Counters(At(handler[h].i).it) = Counters(item[handler[h].i])
    BY <1>1, HandlerAt
<1> QED BY <1>1, <1>2, <1>4, <1>5, ReadEndsStep DEF Reading

\* The block is read from the file.
LEMMA ReadEndStep ==
    ASSUME CountInv, NEW h \in Handlers, ReadEnd(h)
    PROVE  CountInv'
<1> DEFINE i == handler[h].i
           s == IF item[i].o = "ok" /\ ~item[i].sized THEN CheckObject(At(i), "ok") ELSE At(i)
           res == IF s.it.fd = NoFile THEN "err" ELSE disk.data[s.it.fd][handler[h].b]
           r == Over(h, res)
<1>1. handler[h].pc = "copy" /\ HandlerOK(handler[h]) /\ i \in Items /\ handler[h].b \in Blocks
    BY HandlerAt DEF ReadEnd, HandlerOK, HandlerType
<1>2. s \in States /\ Counters(s.it) = Counters(item[i])
    <2>1. At(i) \in States /\ At(i).it = item[i]
        BY <1>1, HandlerAt
    <2>2. /\ CheckObject(At(i), "ok") \in States
          /\ Counters(CheckObject(At(i), "ok").it) = Counters(item[i])
        BY <2>1, CheckObjectType DEF CountInv, Sizes
    <2> QED BY <2>1, <2>2
<1>3. On(h, [s EXCEPT !.it.pending = @ - 1], r)
    BY DEF ReadEnd
<1> HIDE DEF s
<1>4. res \in {"err", "hole", "data"}
    <2>1. s.it.fd \in Inodes \cup {NoFile}
        BY <1>2 DEF States, ItemType
    <2>2. disk.data \in [Inodes -> [Blocks -> {"hole", "data"}]]
        BY DEF CountInv, Typed, DiskType, DataType
    <2> QED BY <1>1, <2>1, <2>2
<1> HIDE DEF res
<1>5. Idle.b \in Blocks
    BY CacheItemAssumption DEF Idle
<1>6. HandlerOK(r) /\ r.pc = "reading" /\ r.i = NoItem /\ r.opened = handler[h].opened
    BY <1>1, <1>4, <1>5 DEF Over, HandlerOK, HandlerType, Opening, Reading, Outside
<1> HIDE DEF r
<1> QED BY <1>1, <1>2, <1>3, <1>6, ReadEndsStep DEF Reading

\* open fails, and gives up or starts again.
LEMMA OpenFailsStep ==
    ASSUME CountInv, NEW h \in Handlers, OpenFails(h)
    PROVE  CountInv'
<1> DEFINE i == handler[h].i
           c == Removed(At(i))
           s == [c EXCEPT !.it.fd = NoFile, !.it.opens = @ - 1, !.it.pending = @ - 1]
<1>1. handler[h].pc = "failed" /\ HandlerOK(handler[h]) /\ i \in Items
    BY HandlerAt DEF OpenFails, HandlerOK
<1>2. PICK r \in {Idle, [handler[h] EXCEPT !.pc = "open", !.res = "none"]} : On(h, s, r)
    BY DEF OpenFails
<1>3. c \in States /\ Counters(c.it) = Counters(item[i])
    BY <1>1, HandlerAt, RemovedType
<1> HIDE DEF c
<1>4. /\ s \in States /\ s.it.pending = item[i].pending - 1
      /\ s.it.opens = item[i].opens - 1 /\ s.it.reset = item[i].reset
    <2>1. PICK x \in ItemType : x = c.it
        BY <1>3 DEF States
    <2>2. PICK n \in Int : n = x.pending - 1
        BY DEF ItemType
    <2>3. PICK o \in Int : o = x.opens - 1
        BY DEF ItemType
    <2> DEFINE it == [x EXCEPT !.fd = NoFile, !.opens = o, !.pending = n]
    <2>4. it \in ItemType /\ it.opens = o /\ it.pending = n /\ it.reset = x.reset
        BY DEF ItemType
    <2>5. x.opens = item[i].opens /\ x.pending = item[i].pending /\ x.reset = item[i].reset
        BY <1>3, <2>1 DEF Counters
    <2>6. s = With(c, it)
        BY <1>3, <2>1, <2>2, <2>3 DEF With, States
    <2> HIDE DEF it, s
    <2> QED BY <1>3, <2>2, <2>3, <2>4, <2>5, <2>6, WithType
<1> HIDE DEF s
<1>5. Idle.b \in Blocks
    BY CacheItemAssumption DEF Idle
<1>6. /\ HandlerOK(r) /\ r.pc \in {"idle", "open"} /\ r.i \in {handler[h].i, NoItem}
      /\ r.opened = NoItem
    <2>1. CASE r = Idle
        BY <1>5, <2>1 DEF Idle, HandlerOK, HandlerType, Opening, Reading, Outside, Sizes
    <2>2. CASE r = [handler[h] EXCEPT !.pc = "open", !.res = "none"]
        BY <1>1, <2>2 DEF HandlerOK, HandlerType, Opening, Reading, Outside
    <2> QED BY <1>2, <2>1, <2>2
<1>7. /\ InsideOf(handler[h], i) /\ ~InsideOf(r, i) /\ Opens(handler[h], i) /\ ~Opens(r, i)
    BY <1>1, <1>6, NoItemIsNone DEF InsideOf, Opens, Opening, Reading
<1>8. item[i] \in ItemType /\ item[i].opens <= MaxOpens
    BY <1>1, HandlerAt
<1>9. /\ s.it.pending = item[i].pending + Bit(InsideOf(r, i)) - Bit(InsideOf(handler[h], i))
      /\ s.it.opens <= MaxOpens
      /\ s.it.opens >= item[i].opens + Bit(Opens(r, i)) - Bit(Opens(handler[h], i))
    BY <1>4, <1>7, <1>8, CacheItemAssumption DEF Bit, ItemType
<1> QED BY <1>1, <1>2, <1>4, <1>6, <1>7, <1>9, OnStep

\* open makes the downloaders and returns.
LEMMA FinishStep ==
    ASSUME CountInv, NEW h \in Handlers, Finish(h)
    PROVE  CountInv'
<1> DEFINE i == handler[h].i
           w == WithDownloaders(item[i])
           s == [At(i) EXCEPT !.it = [w EXCEPT !.pending = @ - 1]]
           r == IF handler[h].res = "err" THEN Idle ELSE Opened(h)
<1>1. handler[h].pc = "finish" /\ HandlerOK(handler[h]) /\ i \in Items /\ On(h, s, r)
    BY HandlerAt DEF Finish, HandlerOK
<1>2. item[i] \in ItemType /\ item[i].opens <= MaxOpens /\ At(i) \in States /\ At(i).it = item[i]
    BY <1>1, HandlerAt
<1>3. /\ s \in States /\ s.it.pending = item[i].pending - 1
      /\ s.it.opens = item[i].opens /\ s.it.reset = item[i].reset
    <2>1. PICK x \in ItemType : x = WithDownloaders(item[i])
        BY <1>2, WithDownloadersType
    <2>2. PICK n \in Int : n = x.pending - 1
        BY DEF ItemType
    <2> DEFINE it == [x EXCEPT !.pending = n]
    <2>3. it \in ItemType /\ it.opens = x.opens /\ it.pending = n /\ it.reset = x.reset
        BY DEF ItemType
    <2>4. x.opens = item[i].opens /\ x.pending = item[i].pending /\ x.reset = item[i].reset
        BY <1>2, <2>1, WithDownloadersType DEF Counters
    <2>5. s = With(At(i), it)
        BY <2>1, <2>2 DEF With
    <2> HIDE DEF it, s
    <2> QED BY <1>2, <2>2, <2>3, <2>4, <2>5, WithType
<1> HIDE DEF s
<1>4. Idle.b \in Blocks
    BY CacheItemAssumption DEF Idle
<1>5. HandlerOK(r) /\ r.pc \in {"idle", "opened"} /\ r.i = NoItem /\ r.opened \in {i, NoItem}
    <2>1. HandlerOK(Idle) /\ Idle.pc = "idle" /\ Idle.i = NoItem /\ Idle.opened = NoItem
        BY <1>4 DEF Idle, HandlerOK, HandlerType, Opening, Reading, Outside, Sizes
    <2>2. /\ HandlerOK(Opened(h)) /\ Opened(h).pc = "opened" /\ Opened(h).i = NoItem
          /\ Opened(h).opened \in {i, NoItem}
        BY <1>1 DEF Opened, HandlerOK, HandlerType, Opening, Reading, Outside
    <2> QED BY <2>1, <2>2
<1> HIDE DEF r
<1>6. /\ InsideOf(handler[h], i) /\ ~InsideOf(r, i) /\ Opens(handler[h], i)
    BY <1>1, <1>5, NoItemIsNone DEF InsideOf, Opens, Opening, Reading
<1>7. /\ s.it.pending = item[i].pending + Bit(InsideOf(r, i)) - Bit(InsideOf(handler[h], i))
      /\ s.it.opens <= MaxOpens
      /\ s.it.opens >= item[i].opens + Bit(Opens(r, i)) - Bit(Opens(handler[h], i))
    BY <1>2, <1>3, <1>6, CacheItemAssumption DEF Bit, ItemType
<1> QED BY <1>1, <1>3, <1>5, <1>6, <1>7, OnStep

\* The step of a handler that counts nothing in or out.
LEMMA SameStep ==
    ASSUME CountInv, NEW h \in Handlers, NEW r, NEW s \in States,
           handler[h].i \in Items, On(h, s, r), HandlerOK(r), r.i \in {handler[h].i, NoItem},
           r.opened = handler[h].opened,
           InsideOf(r, handler[h].i) <=> InsideOf(handler[h], handler[h].i),
           Opens(r, handler[h].i) <=> Opens(handler[h], handler[h].i),
           Counters(s.it) = Counters(item[handler[h].i])
    PROVE  CountInv'
<1> DEFINE i == handler[h].i
<1>1. item[i] \in ItemType /\ item[i].opens <= MaxOpens
    BY HandlerAt
<1>2. s.it.opens = item[i].opens /\ s.it.pending = item[i].pending /\ s.it.reset = item[i].reset
    BY DEF Counters
<1>3. /\ s.it.pending = item[i].pending + Bit(InsideOf(r, i)) - Bit(InsideOf(handler[h], i))
      /\ s.it.opens <= MaxOpens
      /\ s.it.opens >= item[i].opens + Bit(Opens(r, i)) - Bit(Opens(handler[h], i))
    BY <1>1, <1>2, CacheItemAssumption DEF Bit, ItemType
<1> QED BY <1>2, <1>3, OnStep

\* The size of the file is asked for.
LEMMA GetSizeStep ==
    ASSUME CountInv, NEW h \in Handlers, GetSize(h)
    PROVE  CountInv'
<1> DEFINE i == handler[h].i
           exists == item[i].fd # NoFile \/ disk.path # NoFile
           r == Over(h, "none")
<1>1. handler[h].pc = "size" /\ HandlerOK(handler[h]) /\ i \in Items
    BY HandlerAt DEF GetSize, HandlerOK
<1>2. item[i] \in ItemType /\ At(i) \in States /\ At(i).it = item[i]
    BY <1>1, HandlerAt
<1>3. PICK b \in BOOLEAN : On(h, [At(i) EXCEPT !.it.sized = b], r)
    <2> DEFINE b == IF exists THEN TRUE ELSE IF item[i].o = "nil" THEN At(i).it.sized
                    ELSE item[i].o = "ok"
    <2>1. b \in BOOLEAN
        BY <1>2 DEF ItemType
    <2> QED BY <2>1 DEF GetSize
<1> DEFINE s == [At(i) EXCEPT !.it.sized = b]
<1>4. s \in States /\ Counters(s.it) = Counters(item[i])
    <2> DEFINE it == [item[i] EXCEPT !.sized = b]
    <2>1. it \in ItemType /\ Counters(it) = Counters(item[i])
        BY <1>2 DEF ItemType, Counters
    <2>2. s = With(At(i), it)
        BY <1>2 DEF With
    <2> HIDE DEF it, s
    <2> QED BY <1>2, <2>1, <2>2, WithType
<1>5. On(h, s, r)
    BY <1>3
<1> HIDE DEF s
<1>6. Idle.b \in Blocks
    BY CacheItemAssumption DEF Idle
<1>7. HandlerOK(r) /\ r.pc = "reading" /\ r.i = NoItem /\ r.opened = handler[h].opened
    BY <1>1, <1>6 DEF Over, HandlerOK, HandlerType, Opening, Reading, Outside
<1> HIDE DEF r
<1>8. /\ InsideOf(r, i) <=> InsideOf(handler[h], i)
      /\ Opens(r, i) <=> Opens(handler[h], i)
    BY <1>1, <1>7, NoItemIsNone DEF InsideOf, Opens, Opening, Reading
<1> QED BY <1>1, <1>4, <1>5, <1>7, <1>8, SameStep

\* A read begins: it counts itself in, unless there is nothing to read from.
LEMMA ReadBeginStep ==
    ASSUME CountInv, NEW h \in Handlers, ReadBegin(h)
    PROVE  CountInv'
<1> DEFINE i == handler[h].i
<1>1. /\ handler[h].pc = "read" /\ HandlerOK(handler[h]) /\ i \in Items
      /\ ~item[i].reset
    BY HandlerAt DEF ReadBegin, HandlerOK
<1>2. /\ item[i] \in ItemType /\ At(i) \in States /\ At(i).it = item[i]
      /\ item[i].opens <= MaxOpens
    BY <1>1, HandlerAt
<1>3. CASE On(h, At(i), Over(h, "err"))
    <2> DEFINE r == Over(h, "err")
    <2>1. Idle.b \in Blocks
        BY CacheItemAssumption DEF Idle
    <2>2. HandlerOK(r) /\ r.pc = "reading" /\ r.i = NoItem /\ r.opened = handler[h].opened
        BY <1>1, <2>1 DEF Over, HandlerOK, HandlerType, Opening, Reading, Outside
    <2>3. On(h, At(i), r)
        BY <1>3
    <2> HIDE DEF r
    <2>4. /\ InsideOf(r, i) <=> InsideOf(handler[h], i)
          /\ Opens(r, i) <=> Opens(handler[h], i)
        BY <1>1, <2>2, NoItemIsNone DEF InsideOf, Opens, Opening, Reading
    <2>5. Counters(At(i).it) = Counters(item[i])
        BY <1>2
    <2> QED BY <1>1, <1>2, <2>2, <2>3, <2>4, <2>5, SameStep
<1>4. ASSUME NEW pc \in {"copy", "ensure"},
             On(h, [At(i) EXCEPT !.it.pending = @ + 1], [handler[h] EXCEPT !.pc = pc])
      PROVE  CountInv'
    <2> DEFINE r == [handler[h] EXCEPT !.pc = pc]
               s == [At(i) EXCEPT !.it.pending = @ + 1]
    <2>1. On(h, s, r)
        BY <1>4
    <2>2. HandlerOK(r) /\ r.pc = pc /\ r.i = i /\ r.opened = handler[h].opened
        BY <1>1 DEF HandlerOK, HandlerType, Opening, Reading, Outside
    <2> HIDE DEF r
    <2>3. /\ s \in States /\ s.it.pending = item[i].pending + 1
          /\ s.it.opens = item[i].opens /\ s.it.reset = item[i].reset
        <3>1. PICK n \in Int : n = item[i].pending + 1
            BY <1>2 DEF ItemType
        <3> DEFINE it == [item[i] EXCEPT !.pending = n]
        <3>2. /\ it \in ItemType /\ it.opens = item[i].opens /\ it.pending = n
              /\ it.reset = item[i].reset
            BY <1>2 DEF ItemType
        <3>3. s = With(At(i), it)
            BY <1>2, <3>1 DEF With
        <3> HIDE DEF it, s
        <3> QED BY <1>2, <3>1, <3>2, <3>3, WithType
    <2> HIDE DEF s
    <2>4. InsideOf(r, i) /\ ~InsideOf(handler[h], i) /\ (Opens(r, i) <=> Opens(handler[h], i))
        BY <1>1, <2>2, NoItemIsNone DEF InsideOf, Opens, Opening, Reading
    <2>5. /\ s.it.pending = item[i].pending + Bit(InsideOf(r, i)) - Bit(InsideOf(handler[h], i))
          /\ s.it.opens <= MaxOpens
          /\ s.it.opens >= item[i].opens + Bit(Opens(r, i)) - Bit(Opens(handler[h], i))
        BY <1>2, <2>3, <2>4, CacheItemAssumption DEF Bit, ItemType
    <2> QED BY <1>1, <2>1, <2>2, <2>3, <2>4, <2>5, OnStep
<1> QED BY <1>3, <1>4 DEF ReadBegin

\* The handler makes the downloaders it found missing.
LEMMA NewDownloadersStep ==
    ASSUME CountInv, NEW h \in Handlers, NewDownloaders(h)
    PROVE  CountInv'
<1> DEFINE i == handler[h].i
           s == [At(i) EXCEPT !.it = WithDownloaders(@)]
           r == [handler[h] EXCEPT !.pc = "wait"]
<1>1. handler[h].pc = "new" /\ HandlerOK(handler[h]) /\ i \in Items /\ On(h, s, r)
    BY HandlerAt DEF NewDownloaders, HandlerOK
<1>2. item[i] \in ItemType /\ At(i) \in States /\ At(i).it = item[i]
    BY <1>1, HandlerAt
<1>3. s \in States /\ Counters(s.it) = Counters(item[i])
    <2>1. PICK x \in ItemType : x = WithDownloaders(item[i])
        BY <1>2, WithDownloadersType
    <2>2. s = With(At(i), x)
        BY <1>2, <2>1 DEF With
    <2> HIDE DEF s
    <2> QED BY <1>2, <2>1, <2>2, WithType, WithDownloadersType
<1> HIDE DEF s
<1>4. /\ HandlerOK(r) /\ r.i = i /\ r.opened = handler[h].opened
      /\ InsideOf(r, i) <=> InsideOf(handler[h], i)
      /\ Opens(r, i) <=> Opens(handler[h], i)
    BY <1>1, NoItemIsNone DEF HandlerOK, HandlerType, Opening, Reading, Outside, InsideOf, Opens
<1> HIDE DEF r
<1> QED BY <1>1, <1>2, <1>3, <1>4, SameStep

-------------------------------------------------------------------------------
(* Steps of a handler that count nothing and may leave its item *)

\* A handler goes on; a new item may take the place of one that nobody has.
LEMMA MovesStep ==
    ASSUME CountInv, NEW h \in Handlers, NEW r, handler' = [handler EXCEPT ![h] = r],
           HandlerOK(r), item' \in [Items -> ItemType], map' \in Items \cup {NoItem},
           disk' \in DiskType, UNCHANGED <<cmu, purger, purges, cleaner, errItem, restarts>>,
           \A j \in Items :
              /\ InsideOf(r, j) <=> InsideOf(handler[h], j)
              /\ Opens(r, j) => Opens(handler[h], j)
              /\ \/ Counters(item'[j]) = Counters(item[j])
                 \/ /\ Openers(j) = {} /\ Inside(j) = {} /\ cleaner.i # j
                    /\ item'[j].opens = 0 /\ item'[j].pending = 0 /\ ~item'[j].reset
    PROVE  CountInv'
<1>1. \A x \in Handlers : handler'[x] = IF x = h THEN r ELSE handler[x]
    BY DEF CountInv, Typed
<1>2. Typed'
    BY DEF CountInv, Typed, RestTyped, HandlerOK
<1>3. ASSUME NEW j \in Items
      PROVE  /\ item'[j].pending = Cardinality(Inside(j)')
             /\ Cardinality(Openers(j)') <= item'[j].opens /\ item'[j].opens <= MaxOpens
             /\ item'[j].reset => Inside(j)' = {}
    <2>1. Inside(j)' = Inside(j)
        <3>1. Inside(j)' = {x \in Handlers : InsideOf(handler'[x], j)}
            BY DEF Inside, InsideOf, Opening, Reading
        <3> QED BY <1>1, <3>1, InsideIs
    <2>2. Openers(j)' \subseteq Openers(j)
        BY <1>1 DEF Openers
    <2>3. /\ Cardinality(Openers(j)') \in Nat /\ Cardinality(Openers(j)) \in Nat
          /\ Cardinality(Openers(j)') <= Cardinality(Openers(j))
        BY <2>2, Finite, FS_Subset, FS_CardinalityType
    <2>4. CASE Counters(item'[j]) = Counters(item[j])
        <3>1. /\ item'[j].opens = item[j].opens /\ item'[j].pending = item[j].pending
              /\ item'[j].reset = item[j].reset /\ item[j].opens \in Int
            BY <2>4 DEF Counters, CountInv, Typed, ItemType
        <3>2. Cardinality(Openers(j)) <= item[j].opens /\ item[j].opens <= MaxOpens
            BY DEF CountInv, Counted
        <3>3. Cardinality(Openers(j)') <= item'[j].opens
            BY <2>3, <3>1, <3>2
        <3> QED BY <2>1, <3>1, <3>2, <3>3 DEF CountInv, Counted
    <2>5. CASE /\ Openers(j) = {} /\ Inside(j) = {}
               /\ item'[j].opens = 0 /\ item'[j].pending = 0 /\ ~item'[j].reset
        <3>1. Cardinality(Inside(j)') = 0 /\ Cardinality(Openers(j)') = 0
            BY <2>1, <2>2, <2>5, FS_EmptySet
        <3> QED BY <2>5, <3>1, CacheItemAssumption
    <2> QED BY <2>4, <2>5
<1>4. cleaner'.pc = "resetting" => item'[cleaner'.i].reset
    <2> SUFFICES ASSUME cleaner.pc = "resetting"
                 PROVE  item'[cleaner.i].reset
        OBVIOUS
    <2>1. cleaner.i \in Items /\ item[cleaner.i].reset
        BY DEF CountInv, Typed, RestTyped, Counted
    <2>2. Counters(item'[cleaner.i]) = Counters(item[cleaner.i])
        BY <2>1
    <2> QED BY <2>1, <2>2 DEF Counters
<1> QED BY <1>2, <1>3, <1>4 DEF CountInv, Counted

\* Cache.get: the item of the map, or a new one in place of one that nobody has.
LEMMA GetType ==
    ASSUME CountInv, NEW i \in Items, Get(i)
    PROVE  /\ item' \in [Items -> ItemType] /\ map' \in Items \cup {NoItem} /\ disk' \in DiskType
           /\ \A j \in Items :
                 \/ item'[j] = item[j]
                 \/ /\ Openers(j) = {} /\ Inside(j) = {} /\ cleaner.i # j
                    /\ item'[j].opens = 0 /\ item'[j].pending = 0 /\ ~item'[j].reset
<1>1. CASE map # NoItem
    <2>1. UNCHANGED <<item, map, disk>>
        BY <1>1 DEF Get
    <2> QED BY <2>1 DEF CountInv, Typed, RestTyped
<1>2. CASE map = NoItem
    <2>1. Garbage # {} /\ Becomes(i, NewItem(disk)) /\ map' = i
          /\ i = CHOOSE g \in Garbage : \A j \in Garbage : g <= j
        BY <1>2 DEF Get
    <2>2. i \in Garbage
        <3>1. Garbage \in SUBSET Nat
            <4>1. PICK n \in Nat : Items = 1 .. n
                BY CacheItemAssumption, FS_CardinalityType
            <4> QED BY <4>1 DEF Garbage
        <3>2. \E g \in Garbage : \A j \in Garbage : g <= j
            BY <2>1, <3>1, LeastNumber
        <3> QED BY <2>1, <3>2
    <2>3. /\ NewItem(disk) \in States /\ NewItem(disk).it.opens = 0
          /\ NewItem(disk).it.pending = 0 /\ ~NewItem(disk).it.reset
        BY NewItemType DEF CountInv, Typed
    <2>4. /\ item' = [item EXCEPT ![i] = NewItem(disk).it]
          /\ item' \in [Items -> ItemType] /\ disk' \in DiskType
        BY <2>1, <2>3, BecomesType DEF CountInv
    <2>5. Openers(i) = {} /\ Inside(i) = {} /\ cleaner.i # i
        BY <2>2 DEF Garbage, Openers, Opens, Inside
    <2>6. ASSUME NEW j \in Items
          PROVE  item'[j] = IF j = i THEN NewItem(disk).it ELSE item[j]
        BY <2>4 DEF CountInv, Typed
    <2> QED BY <2>1, <2>3, <2>4, <2>5, <2>6
<1> QED BY <1>1, <1>2

\* A handler looks the name up, for whatever it wants next.
LEMMA LookupStep ==
    ASSUME CountInv, NEW h \in Handlers, NEW i \in Items, NEW r, Get(i), Handler(h, r),
           HandlerOK(r), handler[h].pc \in {"idle", "opened", "reading"},
           r.pc \in {"open", "size", "read"}, r.opened \in {NoItem, handler[h].opened}
    PROVE  CountInv'
<1>1. /\ handler' = [handler EXCEPT ![h] = r]
      /\ UNCHANGED <<cmu, purger, purges, cleaner, errItem, restarts>>
    BY DEF Handler
<1>2. /\ item' \in [Items -> ItemType] /\ map' \in Items \cup {NoItem} /\ disk' \in DiskType
      /\ \A j \in Items :
            \/ Counters(item'[j]) = Counters(item[j])
            \/ /\ Openers(j) = {} /\ Inside(j) = {} /\ cleaner.i # j
               /\ item'[j].opens = 0 /\ item'[j].pending = 0 /\ ~item'[j].reset
    BY GetType
<1>3. ASSUME NEW j \in Items
      PROVE  /\ InsideOf(r, j) <=> InsideOf(handler[h], j)
             /\ Opens(r, j) => Opens(handler[h], j)
    BY NoItemIsNone DEF InsideOf, Opens, Opening, Reading
<1> QED BY <1>1, <1>2, <1>3, MovesStep

\* The three lookups of a handler.
LEMMA LookupsStep ==
    ASSUME CountInv, NEW h \in Handlers, LookupToOpen(h) \/ LookupToSize(h) \/ LookupToRead(h)
    PROVE  CountInv'
<1>1. HandlerOK(handler[h])
    BY HandlerAt
<1>2. CASE LookupToOpen(h)
    <2>1. PICK i \in Items, head \in Heads :
              Get(i) /\ Handler(h, [Idle EXCEPT !.pc = "open", !.i = i, !.head = head])
        BY <1>2 DEF LookupToOpen
    <2>2. Idle.b \in Blocks /\ head \in Sizes
        BY CacheItemAssumption DEF Idle, Sizes
    <2> DEFINE r == [Idle EXCEPT !.pc = "open", !.i = i, !.head = head]
    <2>3. HandlerOK(r) /\ r.pc = "open" /\ r.opened = NoItem
        BY <2>2 DEF Idle, HandlerOK, HandlerType, Opening, Reading, Outside
    <2>4. handler[h].pc = "idle"
        BY <1>2 DEF LookupToOpen
    <2>5. Handler(h, r)
        BY <2>1
    <2> HIDE DEF r
    <2> QED BY <2>1, <2>3, <2>4, <2>5, LookupStep
<1>3. CASE LookupToSize(h)
    <2>1. PICK i \in Items : Get(i) /\ Handler(h, [handler[h] EXCEPT !.pc = "size", !.i = i])
        BY <1>3 DEF LookupToSize
    <2> DEFINE r == [handler[h] EXCEPT !.pc = "size", !.i = i]
    <2>2. handler[h].pc = "opened"
        BY <1>3 DEF LookupToSize
    <2>3. HandlerOK(r) /\ r.pc = "size" /\ r.opened = handler[h].opened
        BY <1>1, <2>2 DEF HandlerOK, HandlerType, Opening, Reading, Outside
    <2>4. Handler(h, r)
        BY <2>1
    <2> HIDE DEF r
    <2> QED BY <2>1, <2>2, <2>3, <2>4, LookupStep
<1>4. CASE LookupToRead(h)
    <2>1. PICK i \in Items, b \in Blocks :
              Get(i) /\ Handler(h, [handler[h] EXCEPT !.pc = "read", !.i = i, !.b = b, !.res = "none"])
        BY <1>4 DEF LookupToRead
    <2> DEFINE r == [handler[h] EXCEPT !.pc = "read", !.i = i, !.b = b, !.res = "none"]
    <2>2. handler[h].pc = "reading"
        BY <1>4 DEF LookupToRead
    <2>3. HandlerOK(r) /\ r.pc = "read" /\ r.opened = handler[h].opened
        BY <1>1, <2>2 DEF HandlerOK, HandlerType, Opening, Reading, Outside
    <2>4. Handler(h, r)
        BY <2>1
    <2> HIDE DEF r
    <2> QED BY <2>1, <2>2, <2>3, <2>4, LookupStep
<1> QED BY <1>2, <1>3, <1>4

\* A handler goes on and leaves item and disk alone.
LEMMA StaysStep ==
    ASSUME CountInv, NEW h \in Handlers, NEW r, Handler(h, r), HandlerOK(r),
           map' \in Items \cup {NoItem}, UNCHANGED disk,
           item' \in [Items -> ItemType], \A j \in Items : Counters(item'[j]) = Counters(item[j]),
           \A j \in Items : /\ InsideOf(r, j) <=> InsideOf(handler[h], j)
                            /\ Opens(r, j) => Opens(handler[h], j)
    PROVE  CountInv'
<1>1. /\ handler' = [handler EXCEPT ![h] = r]
      /\ UNCHANGED <<cmu, purger, purges, cleaner, errItem, restarts>>
    BY DEF Handler
<1>2. disk' \in DiskType
    BY DEF CountInv, Typed
<1> QED BY <1>1, <1>2, MovesStep

\* The rest of a read up to the copy, and the end of a response.
LEMMA WaitStep ==
    ASSUME CountInv, NEW h \in Handlers, Ensure(h) \/ Downloaded(h) \/ Leave(h)
    PROVE  CountInv'
<1>1. HandlerOK(handler[h])
    BY HandlerAt
<1>2. UNCHANGED <<item, map, disk>>
    BY DEF Ensure, Downloaded, Leave
<1>3. /\ map' \in Items \cup {NoItem} /\ item' \in [Items -> ItemType]
      /\ \A j \in Items : Counters(item'[j]) = Counters(item[j])
    BY <1>2 DEF CountInv, Typed, RestTyped
<1>4. ASSUME NEW pc \in Reading, handler[h].pc \in Reading, Handler(h, [handler[h] EXCEPT !.pc = pc])
      PROVE  CountInv'
    <2> DEFINE r == [handler[h] EXCEPT !.pc = pc]
    <2>1. HandlerOK(r) /\ r.i = handler[h].i /\ r.opened = handler[h].opened /\ r.pc = pc
        BY <1>1, <1>4 DEF HandlerOK, HandlerType, Opening, Reading, Outside
    <2>2. Handler(h, r)
        BY <1>4
    <2> HIDE DEF r
    <2>3. \A j \in Items : /\ InsideOf(r, j) <=> InsideOf(handler[h], j)
                           /\ Opens(r, j) => Opens(handler[h], j)
        BY <1>4, <2>1 DEF InsideOf, Opens, Reading, Opening
    <2> QED BY <1>2, <1>3, <2>1, <2>2, <2>3, StaysStep
<1>5. CASE Ensure(h)
    <2>1. PICK pc \in {"new", "wait"} : Handler(h, [handler[h] EXCEPT !.pc = pc])
        BY <1>5 DEF Ensure
    <2> QED BY <1>4, <1>5, <2>1 DEF Reading, Ensure
<1>6. CASE Downloaded(h)
    BY <1>4, <1>6 DEF Reading, Downloaded
<1>7. CASE Leave(h)
    <2>1. Idle.b \in Blocks
        BY CacheItemAssumption DEF Idle
    <2>2. HandlerOK(Idle) /\ Idle.opened = NoItem /\ Idle.pc = "idle"
        BY <2>1 DEF Idle, HandlerOK, HandlerType, Opening, Reading, Outside, Sizes
    <2>3. Handler(h, Idle) /\ handler[h].pc = "reading"
        BY <1>7 DEF Leave
    <2>4. \A j \in Items : /\ InsideOf(Idle, j) <=> InsideOf(handler[h], j)
                           /\ Opens(Idle, j) => Opens(handler[h], j)
        BY <2>2, <2>3, NoItemIsNone DEF InsideOf, Opens, Reading, Opening
    <2> QED BY <1>2, <1>3, <2>2, <2>3, <2>4, StaysStep
<1> QED BY <1>5, <1>6, <1>7

\* Cache.put puts the item into the map, or finds another one there that goes back.
LEMMA PutStep ==
    ASSUME CountInv, NEW h \in Handlers, Put(h) \/ CheckOld(h) \/ PutBack(h)
    PROVE  CountInv'
<1>1. HandlerOK(handler[h])
    BY HandlerAt
<1>2. handler[h].pc \in {"put", "check", "putBack"} /\ UNCHANGED disk
    BY DEF Put, CheckOld, PutBack
<1>3. PICK pc \in {"finish", "check", "putBack"}, old \in Items \cup {NoItem}, res \in {"err", handler[h].res} :
         /\ Handler(h, [handler[h] EXCEPT !.pc = pc, !.old = old, !.res = res])
         /\ pc # "finish" => old # NoItem
    <2>1. handler[h] \in HandlerType /\ map \in Items \cup {NoItem}
        BY <1>1 DEF HandlerOK, CountInv, Typed, RestTyped
    <2>2. \A pc, old : /\ [handler[h] EXCEPT !.pc = pc]
                            = [handler[h] EXCEPT !.pc = pc, !.old = handler[h].old, !.res = handler[h].res]
                      /\ [handler[h] EXCEPT !.pc = pc, !.old = old]
                            = [handler[h] EXCEPT !.pc = pc, !.old = old, !.res = handler[h].res]
                      /\ [handler[h] EXCEPT !.pc = pc, !.res = "err"]
                            = [handler[h] EXCEPT !.pc = pc, !.old = handler[h].old, !.res = "err"]
        BY <2>1 DEF HandlerType
    <2>3. CASE Put(h)
        BY <2>1, <2>2, <2>3 DEF Put, HandlerType
    <2>4. CASE CheckOld(h)
        <3>1. handler[h].old \in Items /\ handler[h].old # NoItem
            BY <1>1, <2>4, NoItemIsNone DEF CheckOld, HandlerOK
        <3>2. CASE Handler(h, [handler[h] EXCEPT !.pc = "finish", !.old = NoItem])
            <4>1. [handler[h] EXCEPT !.pc = "finish", !.old = NoItem]
                     = [handler[h] EXCEPT !.pc = "finish", !.old = NoItem, !.res = handler[h].res]
                BY <2>2
            <4>2. Handler(h, [handler[h] EXCEPT !.pc = "finish", !.old = NoItem, !.res = handler[h].res])
                BY <3>2, <4>1
            <4> QED BY <4>2
        <3>3. CASE Handler(h, [handler[h] EXCEPT !.pc = "putBack"])
            BY <2>2, <3>1, <3>3
        <3> QED BY <2>4, <3>2, <3>3 DEF CheckOld
    <2>5. CASE PutBack(h)
        BY <2>1, <2>2, <2>5 DEF PutBack, HandlerType
    <2> QED BY <2>3, <2>4, <2>5
<1> DEFINE r == [handler[h] EXCEPT !.pc = pc, !.old = old, !.res = res]
<1>4. HandlerOK(r) /\ r.i = handler[h].i /\ r.opened = handler[h].opened /\ r.pc = pc
    BY <1>1, <1>2, <1>3 DEF HandlerOK, HandlerType, Opening, Reading, Outside
<1>5. Handler(h, r)
    BY <1>3
<1> HIDE DEF r
<1>6. \A j \in Items : /\ InsideOf(r, j) <=> InsideOf(handler[h], j)
                       /\ Opens(r, j) => Opens(handler[h], j)
    BY <1>2, <1>4 DEF InsideOf, Opens, Reading, Opening
<1>7. map' \in Items \cup {NoItem}
    BY <1>1 DEF Put, CheckOld, PutBack, HandlerOK, CountInv, Typed, RestTyped
<1>8. item' \in [Items -> ItemType] /\ \A j \in Items : Counters(item'[j]) = Counters(item[j])
    <2>1. item \in [Items -> ItemType]
        BY DEF CountInv, Typed
    <2>2. CASE UNCHANGED item
        BY <2>1, <2>2
    <2>3. ASSUME NEW i, NEW b \in BOOLEAN, item' = [item EXCEPT ![i].mu = b]
          PROVE  item' \in [Items -> ItemType] /\ \A j \in Items : Counters(item'[j]) = Counters(item[j])
        <3>1. ASSUME NEW j \in Items
              PROVE  item'[j] \in ItemType /\ Counters(item'[j]) = Counters(item[j])
            <4>1. CASE j = i
                <5>1. item'[j] = [item[j] EXCEPT !.mu = b] /\ item[j] \in ItemType
                    BY <2>1, <2>3, <4>1
                <5> QED BY <5>1 DEF ItemType, Counters
            <4>2. CASE j # i
                BY <2>1, <2>3, <4>2
            <4> QED BY <4>1, <4>2
        <3>2. item' = [j \in Items |-> item'[j]]
            BY <2>1, <2>3
        <3> QED BY <3>1, <3>2
    <2> QED BY <2>2, <2>3 DEF Put, CheckOld, PutBack
<1> QED BY <1>2, <1>4, <1>5, <1>6, <1>7, <1>8, StaysStep

\* Item.Close.
LEMMA CloseStep ==
    ASSUME CountInv, NEW h \in Handlers, Close(h)
    PROVE  CountInv'
<1> DEFINE i == handler[h].opened
           s == [At(i) EXCEPT !.it.opens = @ - 1, !.it.grace = item[i].opens = 1]
<1>1. HandlerOK(handler[h]) /\ handler[h].pc = "reading" /\ i \in Items
    BY HandlerAt DEF Close, HandlerOK, Reading
<1>2. /\ Becomes(i, s) /\ handler' = [handler EXCEPT ![h] = Idle]
      /\ UNCHANGED <<map, cmu, purger, purges, cleaner, errItem, restarts>>
    BY DEF Close, Handler
<1>3. /\ item[i] \in ItemType /\ At(i) \in States /\ At(i).it = item[i]
      /\ item[i].opens <= MaxOpens
    BY <1>1, AtType DEF CountInv, Counted, Typed
<1>4. /\ s \in States /\ s.it.opens = item[i].opens - 1
      /\ s.it.pending = item[i].pending /\ s.it.reset = item[i].reset
    <2>1. PICK n \in Int : n = item[i].opens - 1
        BY <1>3 DEF ItemType
    <2> DEFINE it == [item[i] EXCEPT !.opens = n, !.grace = item[i].opens = 1]
    <2>2. it \in ItemType /\ it.opens = n /\ it.pending = item[i].pending /\ it.reset = item[i].reset
        BY <1>3 DEF ItemType
    <2>3. s = With(At(i), it)
        BY <1>3, <2>1 DEF With
    <2> HIDE DEF it, s
    <2> QED BY <1>3, <2>1, <2>2, <2>3, WithType
<1> HIDE DEF s
<1>5. Idle.b \in Blocks
    BY CacheItemAssumption DEF Idle
<1>6. HandlerOK(Idle) /\ Idle.opened = NoItem /\ Idle.pc = "idle"
    BY <1>5 DEF Idle, HandlerOK, HandlerType, Opening, Reading, Outside, Sizes
<1>7. item' = [item EXCEPT ![i] = s.it] /\ item' \in [Items -> ItemType] /\ disk' \in DiskType
    BY <1>1, <1>2, <1>4, BecomesType DEF CountInv
<1>8. /\ handler' \in [Handlers -> HandlerType] /\ handler'[h] = Idle
      /\ \A x \in Handlers \ {h} : handler'[x] = handler[x]
    BY <1>2, <1>6 DEF CountInv, Typed, HandlerOK
<1>9. Typed'
    BY <1>2, <1>6, <1>7, <1>8 DEF CountInv, Typed, RestTyped, HandlerOK
<1>10. ASSUME NEW j \in Items
       PROVE  /\ item'[j].pending = item[j].pending + Bit(InsideOf(Idle, j)) - Bit(InsideOf(handler[h], j))
              /\ item'[j].opens \in Int /\ item'[j].opens <= MaxOpens
              /\ item'[j].opens >= item[j].opens + Bit(Opens(Idle, j)) - Bit(Opens(handler[h], j))
              /\ item'[j].reset = item[j].reset
              /\ item[j].reset /\ InsideOf(Idle, j) => InsideOf(handler[h], j)
    <2>1. j # NoItem
        BY NoItemIsNone
    <2>2. ~InsideOf(Idle, j) /\ ~InsideOf(handler[h], j)
        BY <1>1, <1>6, <2>1 DEF InsideOf, Opening, Reading
    <2>3. ~Opens(Idle, j) /\ (Opens(handler[h], j) <=> j = i)
        BY <1>1, <1>6, <2>1 DEF Opens, Opening
    <2>4. item[j].opens \in Int /\ item[j].pending \in Int /\ item[j].opens <= MaxOpens
        BY DEF CountInv, Typed, ItemType, Counted
    <2>5. /\ item'[j].pending = item[j].pending /\ item'[j].reset = item[j].reset
          /\ item'[j].opens = IF j = i THEN item[j].opens - 1 ELSE item[j].opens
        BY <1>4, <1>7 DEF CountInv, Typed
    <2> QED BY <2>2, <2>3, <2>4, <2>5, CacheItemAssumption DEF Bit
<1>11. Counted'
    BY <1>2, <1>8, <1>10, OneHandler
<1> QED BY <1>9, <1>11 DEF CountInv

\* Closing the downloaders of i changes no handler's account.
LEMMA ClosedUnderType ==
    ASSUME CountInv, NEW i \in Items
    PROVE  /\ ClosedUnder(i) \in [Handlers -> HandlerType]
           /\ \A h \in Handlers : HandlerOK(ClosedUnder(i)[h])
           /\ \A h \in Handlers, j \in Items :
                 /\ InsideOf(ClosedUnder(i)[h], j) <=> InsideOf(handler[h], j)
                 /\ Opens(ClosedUnder(i)[h], j) <=> Opens(handler[h], j)
           /\ \A h \in Handlers : handler[h].pc # "wait" => ClosedUnder(i)[h] = handler[h]
<1>1. ASSUME NEW h \in Handlers
      PROVE  LET r == ClosedUnder(i)[h] IN
             /\ r \in HandlerType /\ HandlerOK(r)
             /\ r.i = handler[h].i /\ r.opened = handler[h].opened
             /\ r.pc \in Opening <=> handler[h].pc \in Opening
             /\ r.pc \in Reading <=> handler[h].pc \in Reading
             /\ handler[h].pc # "wait" => r = handler[h]
    <2>1. HandlerOK(handler[h]) /\ handler[h] \in HandlerType
        BY HandlerAt DEF HandlerOK
    <2>2. CASE handler[h].pc = "wait" /\ handler[h].i = i
        <3> DEFINE r == [handler[h] EXCEPT !.pc = "closed"]
        <3>1. ClosedUnder(i)[h] = r
            BY <2>2 DEF ClosedUnder
        <3>2. /\ r \in HandlerType /\ HandlerOK(r) /\ r.pc = "closed" /\ r.i = handler[h].i
              /\ r.opened = handler[h].opened
            BY <2>1, <2>2 DEF HandlerOK, HandlerType, Opening, Reading, Outside
        <3> HIDE DEF r
        <3> QED BY <2>2, <3>1, <3>2 DEF Opening, Reading
    <2>3. CASE ~(handler[h].pc = "wait" /\ handler[h].i = i)
        <3>1. ClosedUnder(i)[h] = handler[h]
            BY <2>3 DEF ClosedUnder
        <3> QED BY <2>1, <3>1
    <2> QED BY <2>2, <2>3
<1>2. ClosedUnder(i) = [h \in Handlers |-> ClosedUnder(i)[h]]
    BY DEF ClosedUnder
<1>3. ClosedUnder(i) \in [Handlers -> HandlerType]
    BY <1>1, <1>2
<1>4. \A h \in Handlers, j \in Items :
          /\ InsideOf(ClosedUnder(i)[h], j) <=> InsideOf(handler[h], j)
          /\ Opens(ClosedUnder(i)[h], j) <=> Opens(handler[h], j)
    BY <1>1 DEF InsideOf, Opens
<1>5. \A h \in Handlers : /\ HandlerOK(ClosedUnder(i)[h])
                          /\ handler[h].pc # "wait" => ClosedUnder(i)[h] = handler[h]
    BY <1>1
<1> QED BY <1>3, <1>4, <1>5

\* open on an item whose file has vanished in the grace period.
LEMMA OpenVanishedStep ==
    ASSUME CountInv, NEW h \in Handlers, OpenVanished(h)
    PROVE  CountInv'
<1> DEFINE i == handler[h].i
           c == CheckObject(At(i), handler[h].head)
           s == [c EXCEPT !.it.opens = 1, !.it.pending = @ + 1, !.it.grace = FALSE,
                          !.it.fd = NoFile, !.it.dls = "nil"]
           r == [handler[h] EXCEPT !.pc = "recreate"]
<1>1. /\ handler[h].pc = "open" /\ ~item[i].reset /\ item[i].opens = 0 /\ Becomes(i, s)
      /\ handler' = [ClosedUnder(i) EXCEPT ![h].pc = "recreate"]
      /\ UNCHANGED <<map, cmu, purger, purges, cleaner, errItem, restarts>>
    BY DEF OpenVanished
<1>2. HandlerOK(handler[h]) /\ i \in Items /\ handler[h].head \in Sizes
    BY <1>1, HandlerAt DEF HandlerOK, HandlerType
<1>3. c \in States /\ Counters(c.it) = Counters(item[i])
    BY <1>2, HandlerAt, CheckObjectType DEF CountInv
<1> HIDE DEF c
<1>4. /\ s \in States /\ s.it.opens = 1
      /\ s.it.pending = item[i].pending + 1 /\ s.it.reset = item[i].reset
    <2>1. PICK x \in ItemType : x = c.it
        BY <1>3 DEF States
    <2>2. PICK n \in Int : n = x.pending + 1
        BY DEF ItemType
    <2>7. PICK o \in Int : o = 1
        OBVIOUS
    <2> DEFINE y == [x EXCEPT !.opens = o, !.pending = n]
    <2>6. y \in ItemType /\ y.opens = o /\ y.pending = n /\ y.reset = x.reset
        BY DEF ItemType
    <2> DEFINE it == [y EXCEPT !.grace = FALSE, !.fd = NoFile, !.dls = "nil"]
    <2> HIDE DEF y
    <2>3. it \in ItemType /\ it.opens = 1 /\ it.pending = n /\ it.reset = x.reset
        BY <2>6, <2>7 DEF ItemType, Sizes
    <2>4. x.pending = item[i].pending /\ x.reset = item[i].reset
        BY <1>3, <2>1 DEF Counters
    <2>5. s = With(c, it)
        BY <1>3, <2>1, <2>2, <2>7 DEF With, States, y
    <2> HIDE DEF it, s
    <2> QED BY <1>3, <2>2, <2>3, <2>4, <2>5, WithType
<1> HIDE DEF s
<1>5. item' = [item EXCEPT ![i] = s.it] /\ item' \in [Items -> ItemType] /\ disk' \in DiskType
    BY <1>1, <1>2, <1>4, BecomesType DEF CountInv
<1>6. /\ HandlerOK(r) /\ r.pc = "recreate" /\ r.i = i /\ r.opened = NoItem /\ handler[h].opened = NoItem
    BY <1>1, <1>2 DEF HandlerOK, HandlerType, Opening, Reading, Outside
<1>7. /\ handler' \in [Handlers -> HandlerType] /\ handler'[h] = r
      /\ \A x \in Handlers \ {h} : handler'[x] = ClosedUnder(i)[x]
    <2>1. ClosedUnder(i)[h] = handler[h]
        BY <1>1, <1>2, ClosedUnderType
    <2>2. ClosedUnder(i) \in [Handlers -> HandlerType] /\ r \in HandlerType
        BY <1>2, <1>6, ClosedUnderType DEF HandlerOK
    <2>3. handler' = [ClosedUnder(i) EXCEPT ![h] = r]
        BY <1>1, <2>1
    <2> QED BY <2>2, <2>3
<1> HIDE DEF r
<1>8. Typed'
    <2>1. \A x \in Handlers : HandlerOK(handler'[x])
        BY <1>2, <1>6, <1>7, ClosedUnderType
    <2> QED BY <1>1, <1>5, <1>7, <2>1 DEF CountInv, Typed, RestTyped, HandlerOK
<1>9. ASSUME NEW j \in Items
      PROVE  /\ item'[j].pending = item[j].pending + Bit(InsideOf(r, j)) - Bit(InsideOf(handler[h], j))
             /\ item'[j].opens \in Int /\ item'[j].opens <= MaxOpens
             /\ item'[j].opens >= item[j].opens + Bit(Opens(r, j)) - Bit(Opens(handler[h], j))
             /\ item'[j].reset = item[j].reset
             /\ item[j].reset /\ InsideOf(r, j) => InsideOf(handler[h], j)
    <2>1. j # NoItem
        BY NoItemIsNone
    <2>2. (InsideOf(r, j) <=> j = i) /\ ~InsideOf(handler[h], j)
        BY <1>1, <1>6 DEF InsideOf, Opening, Reading
    <2>3. (Opens(r, j) <=> j = i) /\ ~Opens(handler[h], j)
        BY <1>1, <1>6, <2>1 DEF Opens, Opening
    <2>4. item[j].opens \in Int /\ item[j].pending \in Int /\ item[j].opens <= MaxOpens
        BY DEF CountInv, Typed, ItemType, Counted
    <2>5. IF j = i THEN item'[j] = s.it ELSE item'[j] = item[j]
        BY <1>5 DEF CountInv, Typed
    <2> QED BY SMTT(30), <1>1, <1>4, <2>2, <2>3, <2>4, <2>5, CacheItemAssumption DEF Bit
<1>10. \A x \in Handlers \ {h}, j \in Items :
          /\ InsideOf(handler'[x], j) <=> InsideOf(handler[x], j)
          /\ Opens(handler'[x], j) <=> Opens(handler[x], j)
    <2> SUFFICES ASSUME NEW x \in Handlers \ {h}, NEW j \in Items
                 PROVE  /\ InsideOf(handler'[x], j) <=> InsideOf(handler[x], j)
                        /\ Opens(handler'[x], j) <=> Opens(handler[x], j)
        OBVIOUS
    <2>1. /\ InsideOf(ClosedUnder(i)[x], j) <=> InsideOf(handler[x], j)
          /\ Opens(ClosedUnder(i)[x], j) <=> Opens(handler[x], j)
        BY <1>2, ClosedUnderType
    <2> QED BY <1>7, <2>1
<1>11. Counted'
    BY <1>1, <1>7, <1>9, <1>10, OneHandler
<1> QED BY <1>8, <1>11 DEF CountInv

-------------------------------------------------------------------------------
(* Steps of the item's goroutines, of the purger and of the cleaner *)

\* A step on one item in which nobody counts in or out.
LEMMA ItemStep ==
    ASSUME CountInv, NEW i \in Items, NEW s \in States, Becomes(i, s), RestTyped',
           handler' = handler \/ handler' = ClosedUnder(i),
           s.it.opens = item[i].opens, s.it.pending = item[i].pending,
           s.it.reset => item[i].reset,
           cleaner'.pc = "resetting" => cleaner' = cleaner /\ s.it.reset = item[i].reset
    PROVE  CountInv'
<1>1. item' = [item EXCEPT ![i] = s.it] /\ item' \in [Items -> ItemType] /\ disk' \in DiskType
    BY BecomesType DEF CountInv
<1>2. /\ handler' \in [Handlers -> HandlerType]
      /\ \A h \in Handlers : HandlerOK(handler'[h])
      /\ \A h \in Handlers, j \in Items :
            /\ InsideOf(handler'[h], j) <=> InsideOf(handler[h], j)
            /\ Opens(handler'[h], j) <=> Opens(handler[h], j)
    <2>1. CASE handler' = handler
        BY <2>1 DEF CountInv, Typed
    <2>2. CASE handler' = ClosedUnder(i)
        BY <2>2, ClosedUnderType
    <2> QED BY <2>1, <2>2
<1>3. Typed'
    BY <1>1, <1>2 DEF Typed, HandlerOK
<1>4. \A j \in Items : /\ item'[j].pending = item[j].pending /\ item'[j].opens = item[j].opens
                       /\ item'[j].reset => item[j].reset \/ item[j].pending = 0
    BY <1>1 DEF CountInv, Typed
<1>5. cleaner'.pc = "resetting" => item'[cleaner'.i].reset
    <2> SUFFICES ASSUME cleaner'.pc = "resetting"
                 PROVE  item'[cleaner'.i].reset
        OBVIOUS
    <2>1. cleaner' = cleaner /\ s.it.reset = item[i].reset
        OBVIOUS
    <2>2. cleaner.i \in Items /\ item[cleaner.i].reset
        BY <2>1 DEF CountInv, Typed, RestTyped, Counted
    <2> QED BY <1>1, <2>1, <2>2 DEF CountInv, Typed
<1>6. Counted'
    BY <1>2, <1>4, <1>5, NoHandler
<1> QED BY <1>3, <1>6 DEF CountInv

\* A step that leaves the items and the handlers alone.
LEMMA RestStep ==
    ASSUME CountInv, RestTyped', UNCHANGED <<item, disk, handler>>,
           cleaner'.pc = "resetting" => cleaner' = cleaner
    PROVE  CountInv'
<1>1. Typed'
    BY DEF CountInv, Typed, HandlerOK
<1>2. cleaner'.pc = "resetting" => item'[cleaner'.i].reset
    BY DEF CountInv, Counted
<1>3. Counted'
    BY <1>2, NoHandler
<1> QED BY <1>1, <1>3 DEF CountInv

\* The downloads.
LEMMA FetchStep ==
    ASSUME CountInv, NEW i \in Items, NEW b \in Blocks, Fetch(i, b)
    PROVE  CountInv'
<1>1. /\ item[i].fd # NoFile /\ disk' = [disk EXCEPT !.data[item[i].fd][b] = "data"]
      /\ item' = [item EXCEPT ![i].rs = @ \cup {b}]
      /\ UNCHANGED <<map, handler, cmu, purger, purges, cleaner, errItem, restarts>>
    BY DEF Fetch, Others
<1>2. item[i] \in ItemType /\ item \in [Items -> ItemType]
    BY DEF CountInv, Typed
<1>3. disk' \in DiskType
    <2>1. item[i].fd \in Inodes
        BY <1>1, <1>2 DEF ItemType
    <2>2. disk.data[item[i].fd] \in [Blocks -> {"hole", "data"}] /\ disk.data \in DataType
        BY <2>1 DEF CountInv, Typed, DiskType, DataType
    <2> DEFINE f == [disk.data[item[i].fd] EXCEPT ![b] = "data"]
               d == [disk.data EXCEPT ![item[i].fd] = f]
    <2>3. f \in [Blocks -> {"hole", "data"}]
        BY <2>2
    <2>4. d \in DataType
        BY <2>1, <2>2, <2>3 DEF DataType
    <2>5. disk' = [disk EXCEPT !.data = d]
        BY <1>1
    <2> HIDE DEF d
    <2> QED BY <2>4, <2>5 DEF CountInv, Typed, DiskType
<1> DEFINE it == [item[i] EXCEPT !.rs = @ \cup {b}]
<1>4. it \in ItemType /\ Counters(it) = Counters(item[i])
    BY <1>2 DEF ItemType, Counters
<1>5. item' = [item EXCEPT ![i] = it]
    BY <1>1
<1> HIDE DEF it
<1>6. item' \in [Items -> ItemType] /\ \A j \in Items : Counters(item'[j]) = Counters(item[j])
    BY <1>2, <1>4, <1>5
<1>7. Typed'
    BY <1>1, <1>3, <1>6 DEF CountInv, Typed, RestTyped, HandlerOK
<1>8. \A j \in Items : /\ item'[j].pending = item[j].pending /\ item'[j].opens = item[j].opens
                       /\ item'[j].reset = item[j].reset
    BY <1>6 DEF Counters
<1>9. cleaner'.pc = "resetting" => item'[cleaner'.i].reset
    BY <1>1, <1>8 DEF CountInv, Typed, RestTyped, Counted
<1>10. Counted'
    BY <1>1, <1>8, <1>9, NoHandler
<1> QED BY <1>7, <1>10 DEF CountInv

\* The grace timer, and the end of _actualClose.
LEMMA GraceStep ==
    ASSUME CountInv, NEW i \in Items, GraceFires(i) \/ ActualClose(i)
    PROVE  CountInv'
<1>1. item[i] \in ItemType /\ At(i) \in States /\ At(i).it = item[i] /\ At(i).dk = disk /\ RestTyped
    BY AtType DEF CountInv, Typed
<1>2. CASE GraceFires(i)
    <2> DEFINE z == item[i].fd # NoFile
               s == [At(i) EXCEPT !.it.grace = FALSE, !.it.closing = TRUE, !.it.dls = "nil",
                                  !.it.sized = @ \/ z]
    <2>1. /\ Becomes(i, s) /\ handler' = ClosedUnder(i)
          /\ UNCHANGED <<map, cmu, purger, purges, cleaner, errItem, restarts>>
        BY <1>2 DEF GraceFires, Others
    <2>2. PICK d \in BOOLEAN : d = (item[i].sized \/ z)
        OBVIOUS
    <2> DEFINE it == [item[i] EXCEPT !.grace = FALSE, !.closing = TRUE, !.dls = "nil", !.sized = d]
    <2>3. it \in ItemType /\ Counters(it) = Counters(item[i])
        BY <1>1 DEF ItemType, Counters, Sizes
    <2>4. s = With(At(i), it)
        BY <1>1, <2>2 DEF With
    <2> HIDE DEF it, s
    <2>5. s \in States /\ Counters(s.it) = Counters(item[i])
        BY <1>1, <2>3, <2>4, WithType
    <2>6. RestTyped'
        BY <1>1, <2>1 DEF RestTyped
    <2> QED BY <2>1, <2>5, <2>6, ItemStep DEF Counters
<1>3. CASE ActualClose(i)
    <2> DEFINE s == [At(i) EXCEPT !.it.closing = FALSE, !.it.fd = NoFile, !.dk.meta = Meta(item[i].rs)]
               it == [item[i] EXCEPT !.closing = FALSE, !.fd = NoFile]
               dk == [disk EXCEPT !.meta = Meta(item[i].rs)]
    <2>1. /\ Becomes(i, s)
          /\ UNCHANGED <<handler, map, cmu, purger, purges, cleaner, errItem, restarts>>
        BY <1>3 DEF ActualClose, Others
    <2>2. it \in ItemType /\ Counters(it) = Counters(item[i])
        BY <1>1 DEF ItemType, Counters
    <2>3. dk \in DiskType
        BY <1>1 DEF CountInv, Typed, DiskType, MetaType, Meta, ItemType
    <2>4. s = [it |-> it, dk |-> dk]
        <3>1. PICK x \in ItemType : x = item[i]
            BY <1>1
        <3>2. PICK d \in DiskType : d = disk
            BY DEF CountInv, Typed
        <3>3. PICK m : m = Meta(item[i].rs)
            OBVIOUS
        <3>4. At(i) = [it |-> x, dk |-> d]
            BY <3>1, <3>2 DEF At
        <3>5. s = [[it |-> x, dk |-> d] EXCEPT !.it.closing = FALSE, !.it.fd = NoFile, !.dk.meta = m]
            BY <3>3, <3>4
        <3>6. it = [x EXCEPT !.closing = FALSE, !.fd = NoFile] /\ dk = [d EXCEPT !.meta = m]
            BY <3>1, <3>2, <3>3
        <3> HIDE DEF it, dk, s
        <3> QED BY <3>5, <3>6
    <2> HIDE DEF it, dk, s
    <2>5. s \in States /\ Counters(s.it) = Counters(item[i])
        BY <2>2, <2>3, <2>4 DEF States
    <2>6. RestTyped'
        BY <1>1, <2>1 DEF RestTyped
    <2> QED BY <2>1, <2>5, <2>6, ItemStep DEF Counters
<1> QED BY <1>2, <1>3

\* Cache.Remove, in its three parts.
LEMMA PurgeStep ==
    ASSUME CountInv, PurgeMap \/ PurgeItem \/ PurgeMeta
    PROVE  CountInv'
<1>1. RestTyped
    BY DEF CountInv, Typed
<1>2. CASE PurgeMap
    <2>1. purges' \in 0 .. MaxPurges
        <3>1. purges \in 0 .. MaxPurges /\ purges < MaxPurges /\ MaxPurges \in Nat /\ purges' = purges + 1
            BY <1>1, <1>2, CacheItemAssumption DEF PurgeMap, RestTyped
        <3> QED BY <3>1
    <2>2. map \in Items /\ purger' = [purger EXCEPT !.pc = "item", !.i = map] /\ map' = NoItem
          /\ UNCHANGED <<cmu, errItem, restarts, cleaner>>
        BY <1>1, <1>2 DEF PurgeMap, RestTyped
    <2>3. RestTyped'
        BY <1>1, <2>1, <2>2 DEF RestTyped
    <2> QED BY <1>2, <2>3, RestStep DEF PurgeMap
<1> DEFINE i == purger.i
<1>3. PurgeItem \/ PurgeMeta => i \in Items
    BY <1>1 DEF PurgeItem, PurgeMeta, RestTyped
<1>4. CASE PurgeItem
    <2> DEFINE s == [At(i) EXCEPT !.it.rs = {}, !.it.sized = FALSE, !.it.mu = TRUE, !.dk.path = NoFile]
    <2>1. /\ Becomes(i, s) /\ purger' = [purger EXCEPT !.pc = "meta"] /\ purger.pc = "item"
          /\ UNCHANGED <<map, cmu, handler, purges, cleaner, errItem, restarts>>
        BY <1>4 DEF PurgeItem
    <2>2. RestTyped'
        BY <1>1, <2>1 DEF RestTyped
    <2>3. item[i] \in ItemType /\ disk \in DiskType
        BY <1>3, <1>4 DEF CountInv, Typed
    <2>4. PICK x \in ItemType, d \in DiskType : x = item[i] /\ d = disk
        BY <2>3
    <2> DEFINE it == [x EXCEPT !.rs = {}, !.sized = FALSE, !.mu = TRUE]
               dk == [d EXCEPT !.path = NoFile]
    <2>5. it \in ItemType /\ Counters(it) = Counters(item[i])
        BY <2>4 DEF ItemType, Counters
    <2>6. dk \in DiskType
        BY DEF DiskType
    <2>7. At(i) = [it |-> x, dk |-> d]
        BY <2>4 DEF At
    <2>8. s = [it |-> it, dk |-> dk]
        <3>1. s = [[it |-> x, dk |-> d] EXCEPT !.it.rs = {}, !.it.sized = FALSE, !.it.mu = TRUE,
                                               !.dk.path = NoFile]
            BY <2>7
        <3> HIDE DEF s
        <3> QED BY <3>1
    <2> HIDE DEF it, dk, s
    <2>9. s \in States /\ Counters(s.it) = Counters(item[i])
        BY <2>5, <2>6, <2>8 DEF States
    <2> QED BY <1>3, <1>4, <2>1, <2>2, <2>9, ItemStep DEF Counters
<1>5. CASE PurgeMeta
    <2> DEFINE s == [At(i) EXCEPT !.it.mu = FALSE, !.dk.meta = NoMeta]
    <2>1. /\ Becomes(i, s) /\ purger' = [pc |-> "idle", i |-> NoItem]
          /\ UNCHANGED <<map, cmu, handler, purges, cleaner, errItem, restarts>>
        BY <1>5 DEF PurgeMeta
    <2>2. RestTyped'
        BY <1>1, <2>1 DEF RestTyped
    <2>3. item[i] \in ItemType /\ disk \in DiskType
        BY <1>3, <1>5 DEF CountInv, Typed
    <2>4. PICK x \in ItemType, d \in DiskType : x = item[i] /\ d = disk
        BY <2>3
    <2> DEFINE it == [x EXCEPT !.mu = FALSE]
               dk == [d EXCEPT !.meta = NoMeta]
    <2>5. it \in ItemType /\ Counters(it) = Counters(item[i])
        BY <2>4 DEF ItemType, Counters
    <2>6. dk \in DiskType
        BY DEF DiskType, MetaType, NoMeta
    <2>7. At(i) = [it |-> x, dk |-> d]
        BY <2>4 DEF At
    <2>8. s = [it |-> it, dk |-> dk]
        <3>1. s = [[it |-> x, dk |-> d] EXCEPT !.it.mu = FALSE, !.dk.meta = NoMeta]
            BY <2>7
        <3> HIDE DEF s
        <3> QED BY <3>1
    <2> HIDE DEF it, dk, s
    <2>9. s \in States /\ Counters(s.it) = Counters(item[i])
        BY <2>5, <2>6, <2>8 DEF States
    <2> QED BY <1>3, <1>5, <2>1, <2>2, <2>9, ItemStep DEF Counters
<1> QED BY <1>2, <1>4, <1>5

\* The cleaner comes to the item, or leaves it alone.
LEMMA RoundStep ==
    ASSUME CountInv, CleanerTakes \/ CleanerRetries \/ RemoveNotInUse \/ CleanerSkips
    PROVE  CountInv'
<1>1. RestTyped
    BY DEF CountInv, Typed
<1>2. UNCHANGED <<item, map, disk, handler, purger, purges, restarts>>
    BY DEF CleanerTakes, CleanerRetries, RemoveNotInUse, CleanerSkips, CleanerOnly
<1>3. /\ cleaner' \in [pc : {"idle", "round", "removing"}, i : Items \cup {NoItem}]
      /\ cleaner'.pc # "idle" => cleaner'.i \in Items
    BY <1>1 DEF CleanerTakes, CleanerRetries, RemoveNotInUse, CleanerSkips, RoundEnds, RestTyped
<1>4. cmu' \in BOOLEAN /\ errItem' \in BOOLEAN
    BY <1>1 DEF CleanerTakes, CleanerRetries, RemoveNotInUse, CleanerSkips, RoundEnds, RestTyped
<1>5. RestTyped'
    BY <1>1, <1>2, <1>3, <1>4 DEF RestTyped
<1>6. cleaner'.pc # "resetting"
    BY <1>3
<1> QED BY <1>2, <1>5, <1>6, RestStep

\* A reset begins: nobody is inside.
LEMMA ResetBeginStep ==
    ASSUME CountInv, ResetBegin
    PROVE  CountInv'
<1> DEFINE i == cleaner.i
<1>1. RestTyped /\ i \in Items /\ item[i] \in ItemType /\ item \in [Items -> ItemType]
    BY DEF CountInv, Typed, RestTyped, ResetBegin
<1>2. /\ item[i].pending = 0 /\ item' = [item EXCEPT ![i].reset = TRUE, ![i].dls = "nil"]
      /\ cleaner' = [cleaner EXCEPT !.pc = "resetting"]
      /\ UNCHANGED <<map, disk, cmu, errItem, handler, purger, purges, restarts>>
    BY DEF ResetBegin, CanReset, CleanerOnly
<1> DEFINE it == [item[i] EXCEPT !.reset = TRUE, !.dls = "nil"]
<1>3. /\ it \in ItemType /\ it.opens = item[i].opens /\ it.pending = item[i].pending /\ it.reset
    BY <1>1 DEF ItemType, Sizes
<1>4. item' = [item EXCEPT ![i] = it]
    BY <1>1, <1>2
<1> HIDE DEF it
<1>5. /\ item' \in [Items -> ItemType] /\ item'[i].reset
      /\ \A j \in Items : /\ item'[j].pending = item[j].pending /\ item'[j].opens = item[j].opens
                          /\ item'[j].reset => item[j].reset \/ item[j].pending = 0
    BY <1>1, <1>2, <1>3, <1>4
<1>6. cleaner'.i = i
    BY <1>1, <1>2 DEF RestTyped
<1>7. RestTyped'
    BY <1>1, <1>2 DEF RestTyped
<1>8. Typed'
    BY <1>2, <1>5, <1>7 DEF CountInv, Typed, HandlerOK
<1>9. Counted'
    BY <1>2, <1>5, <1>6, NoHandler
<1> QED BY <1>8, <1>9 DEF CountInv

\* What Reset does before it opens the new file keeps types and counters.
LEMMA EmptiedType ==
    ASSUME CountInv, NEW i \in Items
    PROVE  Emptied(i) \in States /\ Counters(Emptied(i).it) = Counters(item[i])
<1>1. At(i) \in States /\ At(i).it = item[i] /\ item[i] \in ItemType
    BY AtType DEF CountInv, Typed
<1> DEFINE s == [At(i) EXCEPT !.it.fd = NoFile]
           it == [item[i] EXCEPT !.fd = NoFile]
<1>2. it \in ItemType /\ Counters(it) = Counters(item[i])
    BY <1>1 DEF ItemType, Counters
<1>3. s = With(At(i), it)
    BY <1>1 DEF With
<1> HIDE DEF it, s
<1>4. s \in States /\ Counters(s.it) = Counters(item[i])
    BY <1>1, <1>2, <1>3, WithType
<1>5. Removed(s) \in States /\ Counters(Removed(s).it) = Counters(item[i])
    BY <1>4, RemovedType
<1>6. item[i].o \in Sizes
    BY <1>1 DEF ItemType
<1>7. Emptied(i) = CheckObject(Removed(s), item[i].o)
    BY DEF Emptied, s
<1> QED BY <1>5, <1>6, <1>7, CheckObjectType DEF CountInv

\* The cleaner's round ends.
LEMMA RoundEndsType ==
    ASSUME CountInv, NEW b \in BOOLEAN, RoundEnds(b), CleanerOnly, map' \in Items \cup {NoItem}
    PROVE  RestTyped' /\ cleaner'.pc = "idle"
<1>1. RestTyped
    BY DEF CountInv, Typed
<1>2. errItem' \in BOOLEAN /\ cmu' \in BOOLEAN
    BY <1>1 DEF RoundEnds, RestTyped
<1>3. cleaner' = [pc |-> "idle", i |-> NoItem] /\ UNCHANGED <<purger, purges, restarts>>
    BY DEF RoundEnds, CleanerOnly
<1> QED BY <1>1, <1>2, <1>3 DEF RestTyped

\* The item is removed, or has been reset, or the reset has failed.
LEMMA RoundEndsStep ==
    ASSUME CountInv, RemoveEnds \/ ResetCompletes \/ ResetFails
    PROVE  CountInv'
<1> DEFINE i == cleaner.i
<1>1. RestTyped /\ i \in Items /\ item[i] \in ItemType /\ handler' = handler
    BY DEF CountInv, Typed, RestTyped, RemoveEnds, ResetCompletes, ResetFails, CleanerOnly
<1>2. ASSUME NEW s \in States, Becomes(i, s), NEW b \in BOOLEAN, RoundEnds(b), CleanerOnly,
             map' \in Items \cup {NoItem}, s.it.opens = item[i].opens,
             s.it.pending = item[i].pending, s.it.reset => item[i].reset
      PROVE  CountInv'
    BY <1>1, <1>2, RoundEndsType, ItemStep
<1>3. CASE RemoveEnds
    <2>1. Becomes(i, Removed(At(i))) /\ RoundEnds(FALSE) /\ CleanerOnly /\ map' \in Items \cup {NoItem}
        BY <1>1, <1>3 DEF RemoveEnds, RestTyped
    <2>2. At(i) \in States /\ At(i).it = item[i]
        BY <1>1, AtType DEF CountInv
    <2>3. Removed(At(i)) \in States /\ Counters(Removed(At(i)).it) = Counters(item[i])
        BY <2>2, RemovedType
    <2> QED BY <1>2, <2>1, <2>3 DEF Counters
<1> DEFINE e == Emptied(i)
           c == Created(e)
<1>4. /\ e \in States /\ Counters(e.it) = Counters(item[i])
      /\ c \in States /\ Counters(c.it) = Counters(item[i])
      /\ Removed(e) \in States /\ Counters(Removed(e).it) = Counters(item[i])
    BY <1>1, EmptiedType, CreatedType, RemovedType
<1>5. CASE ResetCompletes
    <2> DEFINE s == [c EXCEPT !.it = [WithDownloaders(c.it) EXCEPT !.reset = FALSE]]
    <2>1. Becomes(i, s) /\ RoundEnds(FALSE) /\ CleanerOnly /\ map' = map
        BY <1>5 DEF ResetCompletes
    <2> HIDE DEF c
    <2>2. PICK x \in ItemType : x = WithDownloaders(c.it) /\ Counters(x) = Counters(item[i])
        BY <1>4, WithDownloadersType DEF States
    <2> DEFINE it == [x EXCEPT !.reset = FALSE]
    <2>3. it \in ItemType /\ it.opens = x.opens /\ it.pending = x.pending /\ ~it.reset
        BY DEF ItemType
    <2>4. s = With(c, it)
        BY <2>2 DEF With
    <2> HIDE DEF it, s
    <2>5. /\ s \in States /\ s.it.opens = item[i].opens /\ s.it.pending = item[i].pending
          /\ ~s.it.reset
        BY <1>4, <2>2, <2>3, <2>4, WithType DEF Counters
    <2>6. map' \in Items \cup {NoItem}
        BY <1>1, <2>1 DEF RestTyped
    <2> QED BY <1>2, <2>1, <2>5, <2>6
<1>6. CASE ResetFails
    <2> DEFINE b == CanCreate(e)
               s == [Removed(e) EXCEPT !.it.reset = b]
    <2>1. Becomes(i, s) /\ RoundEnds(b \/ cmu) /\ CleanerOnly /\ map' = map /\ cleaner.pc = "resetting"
        BY <1>6 DEF ResetFails
    <2>2. PICK x \in ItemType : x = Removed(e).it /\ Counters(x) = Counters(item[i])
        BY <1>4 DEF States
    <2>3. b \in BOOLEAN
        BY DEF CanCreate
    <2>4. PICK r \in States : r = Removed(e)
        BY <1>4
    <2> HIDE DEF b, e
    <2> DEFINE it == [x EXCEPT !.reset = b]
    <2>5. it \in ItemType /\ it.opens = x.opens /\ it.pending = x.pending
        BY <2>3 DEF ItemType
    <2>6. s = With(r, it)
        BY <2>2, <2>4 DEF With
    <2> HIDE DEF it, s
    <2>7. s \in States /\ s.it.opens = item[i].opens /\ s.it.pending = item[i].pending
        BY <2>2, <2>5, <2>6, WithType DEF Counters
    <2>8. item[i].reset
        BY <2>1 DEF CountInv, Counted
    <2>9. map' \in Items \cup {NoItem}
        BY <1>1, <2>1 DEF RestTyped
    <2>10. (b \/ cmu) \in BOOLEAN
        BY <1>1, <2>3 DEF RestTyped
    <2> QED BY <1>2, <2>1, <2>7, <2>8, <2>9, <2>10
<1> QED BY <1>3, <1>5, <1>6

\* As the process starts
FreshState == /\ item = [i \in Items |-> Fresh] /\ handler = [h \in Handlers |-> Idle]
              /\ cleaner.pc # "resetting"

\* It counts from nothing.
LEMMA FreshCounted == FreshState => Counted
<1> SUFFICES ASSUME FreshState, NEW i \in Items
             PROVE  /\ item[i].pending = Cardinality(Inside(i))
                    /\ Cardinality(Openers(i)) <= item[i].opens /\ item[i].opens <= MaxOpens
                    /\ item[i].reset => Inside(i) = {}
    BY DEF Counted, FreshState
<1>1. item[i].pending = 0 /\ item[i].opens = 0 /\ item[i].reset = FALSE
    BY DEF Fresh, FreshState
<1>2. i # NoItem
    BY NoItemIsNone
<1>3. Inside(i) = {} /\ Openers(i) = {}
    BY <1>2 DEF Inside, Openers, Opens, Idle, Opening, FreshState
<1> QED BY <1>1, <1>3, FS_EmptySet, CacheItemAssumption

\* A new item and an idle handler have their types.
LEMMA FreshType ==
    /\ Fresh \in ItemType /\ Idle \in HandlerType /\ HandlerOK(Idle) /\ Holes \in [Blocks -> {"hole", "data"}]
<1>1. Idle.b \in Blocks
    BY CacheItemAssumption DEF Idle
<1>2. Idle \in HandlerType /\ HandlerOK(Idle)
    BY <1>1 DEF Idle, HandlerOK, HandlerType, Opening, Reading, Outside, Sizes
<1>3. Fresh \in ItemType
    BY DEF Fresh, ItemType, Sizes
<1> QED BY <1>2, <1>3 DEF Holes

\* The process is started again.
LEMMA RestartStep ==
    ASSUME CountInv, Restart
    PROVE  CountInv'
<1>1. RestTyped'
    <2>1. restarts' \in 0 .. MaxRestarts
        <3>1. /\ restarts \in 0 .. MaxRestarts /\ restarts < MaxRestarts /\ MaxRestarts \in Nat
              /\ restarts' = restarts + 1
            BY CacheItemAssumption DEF CountInv, Typed, RestTyped, Restart
        <3> QED BY <3>1
    <2>2. RestTyped
        BY DEF CountInv, Typed
    <2>3. /\ map' = NoItem /\ cmu' = FALSE /\ errItem' = FALSE /\ UNCHANGED purges
          /\ purger' = [purger EXCEPT !.pc = "idle", !.i = NoItem]
          /\ cleaner' = [pc |-> "idle", i |-> NoItem]
        BY DEF Restart
    <2> QED BY <2>1, <2>2, <2>3 DEF RestTyped
<1>2. item' \in [Items -> ItemType] /\ handler' \in [Handlers -> HandlerType]
      /\ \A h \in Handlers : HandlerOK(handler'[h])
    BY FreshType DEF Restart
<1>3. disk' \in DiskType
    <2> DEFINE d == [n \in Inodes |-> IF n = disk.path THEN disk.data[n] ELSE Holes]
    <2>1. d \in DataType
        BY FreshType DEF CountInv, Typed, DiskType, DataType
    <2>2. disk' = [disk EXCEPT !.data = d]
        BY DEF Restart
    <2> HIDE DEF d
    <2> QED BY <2>1, <2>2 DEF CountInv, Typed, DiskType
<1>4. Typed'
    BY <1>1, <1>2, <1>3 DEF Typed, HandlerOK
<1>5. FreshState'
    BY DEF Restart, FreshState
<1>6. Counted'
    BY <1>5, FreshCounted, PTL
<1> QED BY <1>4, <1>6 DEF CountInv

-------------------------------------------------------------------------------
(* The theorems on counting *)

\* Nothing is counted yet.
LEMMA CountInit == Init => CountInv
<1> SUFFICES ASSUME Init PROVE CountInv
    OBVIOUS
<1>1. RestTyped
    <2>1. purges \in 0 .. MaxPurges /\ restarts \in 0 .. MaxRestarts
        BY CacheItemAssumption DEF Init
    <2> QED BY <2>1 DEF Init, RestTyped
<1>2. disk \in DiskType
    BY FreshType DEF Init, DiskType, DataType, MetaType, NoMeta
<1>3. Typed
    BY <1>1, <1>2, FreshType DEF Init, Typed
<1>4. Counted
    BY FreshCounted DEF Init, FreshState
<1> QED BY <1>3, <1>4 DEF CountInv

\* Every step counts right.
LEMMA CountNext == CountInv /\ [Next]_vars => CountInv'
<1> SUFFICES ASSUME CountInv, [Next]_vars PROVE CountInv'
    OBVIOUS
<1>1. ASSUME NEW h \in Handlers, HandlerStep(h)
      PROVE  CountInv'
    <2>1. CASE OpenAgain(h) BY <2>1, OpenAgainStep
    <2>2. CASE OpenFirst(h) BY <2>2, OpenFirstStep
    <2>3. CASE OpenVanished(h) BY <2>3, OpenVanishedStep
    <2>4. CASE Recreate(h) BY <2>4, RecreateStep
    <2>5. CASE OpenFails(h) BY <2>5, OpenFailsStep
    <2>6. CASE Put(h) \/ CheckOld(h) \/ PutBack(h) BY <2>6, PutStep
    <2>7. CASE Finish(h) BY <2>7, FinishStep
    <2>8. CASE LookupToSize(h) BY <2>8, LookupsStep
    <2>9. CASE GetSize(h) BY <2>9, GetSizeStep
    <2>10. CASE ReadBegin(h) BY <2>10, ReadBeginStep
    <2>11. CASE Ensure(h) \/ Downloaded(h) BY <2>11, WaitStep
    <2>12. CASE NewDownloaders(h) BY <2>12, NewDownloadersStep
    <2>13. CASE ReadFails(h) BY <2>13, ReadFailsStep
    <2>14. CASE ReadEnd(h) BY <2>14, ReadEndStep
    <2> QED BY <1>1, <2>1, <2>2, <2>3, <2>4, <2>5, <2>6, <2>7, <2>8, <2>9, <2>10, <2>11,
               <2>12, <2>13, <2>14 DEF HandlerStep
<1>2. ASSUME NEW h \in Handlers, LookupToOpen(h) \/ LookupToRead(h) \/ Leave(h) \/ Close(h)
      PROVE  CountInv'
    BY <1>2, LookupsStep, WaitStep, CloseStep
<1>3. ASSUME NEW i \in Items,
             GraceFires(i) \/ ActualClose(i) \/ \E b \in Blocks : Fetch(i, b)
      PROVE  CountInv'
    BY <1>3, GraceStep, FetchStep
<1>4. CASE CleanerStep
    BY <1>4, RoundStep, ResetBeginStep, RoundEndsStep DEF CleanerStep
<1>5. CASE UNCHANGED vars
    <2>1. UNCHANGED <<item, disk, handler>> /\ RestTyped'
        BY <1>5 DEF vars, CountInv, Typed, RestTyped
    <2>2. cleaner' = cleaner
        BY <1>5 DEF vars
    <2> QED BY <2>1, <2>2, RestStep
<1> QED BY <1>1, <1>2, <1>3, <1>4, <1>5, PurgeStep, RestartStep DEF Next

\* The counts of a cache item are right in every state.
LEMMA CountInvariant == Spec => []CountInv
<1> QED BY CountInit, CountNext, PTL DEF Spec

\* Every variable has its type; opens and pending have their bounds, which take counting.
THEOREM TypeCorrect == Spec => []TypeOK
<1>1. CountInv => TypeOK
    <2> SUFFICES ASSUME CountInv PROVE TypeOK
        OBVIOUS
    <2>1. ASSUME NEW i \in Items
          PROVE  item[i].opens \in 0 .. MaxOpens /\ item[i].pending \in 0 .. Cardinality(Handlers)
        <3>1. /\ item[i].pending = Cardinality(Inside(i)) /\ item[i].opens \in Int
              /\ Cardinality(Openers(i)) <= item[i].opens /\ item[i].opens <= MaxOpens
            BY DEF CountInv, Counted, Typed, ItemType
        <3>2. Cardinality(Inside(i)) <= Cardinality(Handlers) /\ Cardinality(Handlers) \in Nat
            BY CacheItemAssumption, FS_Subset, FS_CardinalityType DEF Inside
        <3>3. Cardinality(Inside(i)) \in Nat /\ Cardinality(Openers(i)) \in Nat
            BY Finite
        <3> QED BY <3>1, <3>2, <3>3, CacheItemAssumption
    <2>2. item \in [Items -> ItemType]
        BY DEF CountInv, Typed
    <2> DEFINE Bounded == [opens : 0 .. MaxOpens, rs : SUBSET Blocks, sized : BOOLEAN,
                           fd : Inodes \cup {NoFile}, o : {"nil", "ok", "bad"},
                           dls : {"nil", "ok", "bad"}, lost : BOOLEAN,
                           pending : 0 .. Cardinality(Handlers), reset : BOOLEAN,
                           grace : BOOLEAN, closing : BOOLEAN, mu : BOOLEAN]
    <2>3. \A i \in Items : item[i] \in Bounded
        BY <2>1, <2>2 DEF ItemType, Sizes
    <2>4. item \in [Items -> Bounded]
        BY <2>2, <2>3
    <2> QED BY <2>4 DEF CountInv, Typed, RestTyped, TypeOK, DiskType, MetaType, DataType
<1> QED BY <1>1, CountInvariant, PTL

\* pendingAccesses is the number of threads inside an access, in every state.
THEOREM PendingCorrect == Spec => []PendingIsExact
<1>1. CountInv => PendingIsExact
    BY DEF CountInv, Counted, PendingIsExact
<1> QED BY <1>1, CountInvariant, PTL

\* The cleaner resets an item only while nobody is inside an access to it.
THEOREM ResetCorrect == Spec => []ResetIsExclusive
<1>1. CountInv => ResetIsExclusive
    BY DEF CountInv, Counted, ResetIsExclusive
<1> QED BY <1>1, CountInvariant, PTL

-------------------------------------------------------------------------------
(* What is stored, as long as handles close nothing *)

\* An item as the program's handles leave it: never in a grace period, never closing,
\* and with nothing recorded unless its file is open
Unclosed(it) == ~it.grace /\ ~it.closing /\ (it.fd = NoFile => it.rs = {})

\* So no metadata with ranges is ever saved, and what is recorded is in the file.
StoredInv ==
    /\ Typed /\ disk.meta.rs = {}
    /\ \A i \in Items : Unclosed(item[i])
    /\ RsIsStored

\* i and the disk can become s: the files the other items have open stay as they are
Stored(i, s) ==
    /\ s.dk \in DiskType /\ s.it.fd \in Inodes \cup {NoFile}
    /\ s.dk.meta.rs = {} /\ Unclosed(s.it)
    /\ s.it.fd # NoFile => \A b \in s.it.rs : s.dk.data[s.it.fd][b] # "hole"
    /\ \A j \in Items \ {i} : item[j].fd # NoFile => s.dk.data[item[j].fd] = disk.data[item[j].fd]

\* Then the ranges stay backed.
LEMMA StoredStep ==
    ASSUME StoredInv, Typed', NEW i \in Items, NEW s, Stored(i, s), Becomes(i, s)
    PROVE  StoredInv'
<1>1. s.dk \in DiskType /\ s.it.fd \in Inodes \cup {NoFile}
    BY DEF Stored
<1>2. item' = [item EXCEPT ![i] = s.it] /\ item \in [Items -> ItemType] /\ item' \in [Items -> ItemType]
    BY DEF Becomes, StoredInv, Typed
<1>3. /\ disk'.meta = s.dk.meta
      /\ \A n \in Inodes : n = s.it.fd \/ (\E j \in Items \ {i} : item[j].fd = n)
                             => disk'.data[n] = s.dk.data[n]
    <2> DEFINE d == [n \in Inodes |->
                        IF n = s.dk.path \/ n = s.it.fd \/ \E j \in Items \ {i} : item[j].fd = n
                        THEN s.dk.data[n] ELSE Holes]
    <2>1. disk' = [s.dk EXCEPT !.data = d]
        BY DEF Becomes
    <2>2. \A n \in Inodes : n = s.it.fd \/ (\E j \in Items \ {i} : item[j].fd = n)
                             => d[n] = s.dk.data[n]
        OBVIOUS
    <2> HIDE DEF d
    <2>3. disk'.meta = s.dk.meta /\ disk'.data = d
        BY <1>1, <2>1 DEF DiskType
    <2> QED BY <2>2, <2>3
<1>4. disk'.meta.rs = {}
    BY <1>3 DEF Stored
<1>5. ASSUME NEW j \in Items
      PROVE  /\ Unclosed(item'[j])
             /\ item'[j].fd # NoFile => \A b \in item'[j].rs : disk'.data[item'[j].fd][b] # "hole"
    <2>1. CASE j = i
        <3>1. item'[j] = s.it
            BY <1>2, <2>1
        <3>2. s.it.fd # NoFile => s.it.fd \in Inodes
            BY <1>1
        <3> QED BY <1>3, <3>1, <3>2 DEF Stored
    <2>2. CASE j # i
        <3>1. item'[j] = item[j]
            BY <1>2, <2>2
        <3>2. item[j].fd # NoFile => item[j].fd \in Inodes
            BY <1>2 DEF ItemType
        <3>3. item[j].fd # NoFile => disk'.data[item[j].fd] = disk.data[item[j].fd]
            BY <1>3, <2>2, <3>2 DEF Stored
        <3>4. Unclosed(item[j]) /\ (item[j].fd # NoFile => \A b \in item[j].rs : disk.data[item[j].fd][b] # "hole")
            BY DEF StoredInv, RsIsStored
        <3> QED BY <3>1, <3>3, <3>4
    <2> QED BY <2>1, <2>2
<1> QED BY <1>4, <1>5 DEF StoredInv, RsIsStored

\* What is stored stays so.
LEMMA StoredAt == ASSUME StoredInv, NEW i \in Items
                  PROVE  Stored(i, At(i))
<1>1. At(i) \in States /\ At(i).it = item[i] /\ At(i).dk = disk
    BY AtType DEF StoredInv
<1> QED BY <1>1 DEF StoredInv, Stored, RsIsStored, States, ItemType

\* What has the same file, ranges and disk is as well stored.
LEMMA StoredSame ==
    ASSUME NEW i, NEW c, Stored(i, c), NEW s, s.dk = c.dk, ~s.it.grace, ~s.it.closing,
           s.it.fd = c.it.fd, s.it.rs = c.it.rs
    PROVE  Stored(i, s)
BY DEF Stored, Unclosed

\* _checkObject
LEMMA StoredCheckObject ==
    ASSUME StoredInv, NEW i \in Items, NEW s \in States, Stored(i, s), NEW o \in Sizes
    PROVE  Stored(i, CheckObject(s, o)) /\ CheckObject(s, o).it.rs \subseteq s.it.rs
<1> DEFINE t == CheckObject(s, o)
           new == CHOOSE n \in Inodes : \A j \in Items : item[j].fd # n
           file == IF s.it.fd # NoFile THEN s.it.fd ELSE s.dk.path
<1>1. new \in Inodes /\ \A j \in Items : item[j].fd # new
    BY FreeInode DEF StoredInv
<1> HIDE DEF new
<1>2. s \in States /\ s.it \in ItemType /\ s.dk \in DiskType
    BY DEF States
<1>3. t \in States /\ t.it.fd = s.it.fd
    BY <1>2, CheckObjectType DEF StoredInv
<1>4. CASE file # NoFile
    <2> DEFINE it == [s.it EXCEPT !.o = o, !.sized = TRUE]
    <2>1. t = [it |-> it, dk |-> s.dk]
        BY <1>2, <1>4 DEF CheckObject, States
    <2>2. it.grace = s.it.grace /\ it.closing = s.it.closing /\ it.rs = s.it.rs /\ it.fd = s.it.fd
        BY <1>2 DEF ItemType
    <2> HIDE DEF it
    <2> QED BY <1>3, <2>1, <2>2 DEF Stored, Unclosed, States
<1>5. CASE file = NoFile /\ o = "bad"
    <2> DEFINE it == [s.it EXCEPT !.o = o, !.sized = FALSE]
    <2>1. t = [it |-> it, dk |-> s.dk]
        BY <1>2, <1>5 DEF CheckObject, States
    <2>2. it.grace = s.it.grace /\ it.closing = s.it.closing /\ it.rs = s.it.rs /\ it.fd = s.it.fd
        BY <1>2 DEF ItemType
    <2> HIDE DEF it
    <2> QED BY <1>3, <2>1, <2>2 DEF Stored, Unclosed, States
<1>6. CASE file = NoFile /\ o # "bad"
    <2> DEFINE it == [s.it EXCEPT !.o = o, !.sized = TRUE, !.rs = {}]
               dk == [s.dk EXCEPT !.path = new, !.data[new] = Holes,
                                  !.meta = IF s.it.rs # {} THEN NoMeta ELSE @]
    <2>1. t = [it |-> it, dk |-> dk]
        BY <1>6 DEF CheckObject, new
    <2>2. it.grace = s.it.grace /\ it.closing = s.it.closing /\ it.rs = {} /\ it.fd = s.it.fd
        BY <1>2 DEF ItemType
    <2>3. dk.meta.rs = {} /\ \A n \in Inodes \ {new} : dk.data[n] = s.dk.data[n]
        BY <1>1, <1>2 DEF DiskType, DataType, NoMeta, Stored
    <2> HIDE DEF it, dk
    <2>4. s.it.fd = NoFile
        BY <1>6
    <2>5. \A j \in Items : item[j].fd # NoFile => item[j].fd \in Inodes \ {new}
        BY <1>1 DEF StoredInv, Typed, ItemType
    <2> QED BY <1>3, <2>1, <2>2, <2>3, <2>4, <2>5 DEF Stored, Unclosed, States
<1> QED BY <1>4, <1>5, <1>6

\* _remove
LEMMA StoredRemoved ==
    ASSUME StoredInv, NEW i \in Items, NEW s \in States, Stored(i, s)
    PROVE  Stored(i, Removed(s))
<1>1. s \in States /\ s.it \in ItemType /\ s.dk \in DiskType
    BY DEF States
<1>2. Removed(s) \in States /\ Removed(s).it.fd = s.it.fd /\ Removed(s).it.rs = {}
    BY <1>1, RemovedType
<1>3. /\ Removed(s).it.grace = s.it.grace /\ Removed(s).it.closing = s.it.closing
      /\ Removed(s).dk.data = s.dk.data /\ Removed(s).dk.meta.rs = {}
    BY <1>1 DEF Removed, ItemType, DiskType, NoMeta
<1> QED BY <1>2, <1>3 DEF Stored, Unclosed, States

\* _createFile opens a file about which nothing is recorded.
LEMMA StoredCreated ==
    ASSUME StoredInv, NEW i \in Items, NEW s \in States, Stored(i, s), CanCreate(s)
    PROVE  Stored(i, Created(s))
<1>1. s \in States /\ s.it \in ItemType /\ s.dk \in DiskType
    BY DEF States
<1>2. s.it.fd = NoFile /\ s.it.rs = {}
    BY DEF CanCreate, Stored, Unclosed
<1>3. /\ Created(s).it.grace = s.it.grace /\ Created(s).it.closing = s.it.closing
      /\ Created(s).it.rs = {} /\ Created(s).dk.data = s.dk.data /\ Created(s).dk.meta.rs = {}
    BY <1>1, <1>2 DEF Created, ItemType, DiskType, Meta
<1> QED BY <1>1, <1>3, CreatedType DEF Stored, Unclosed, Created, States, ItemType

\* A step that leaves files, ranges and disk alone.
LEMMA StoredStays ==
    ASSUME StoredInv, Typed', UNCHANGED disk,
           \A j \in Items : /\ item'[j].fd = item[j].fd /\ item'[j].rs = item[j].rs
                            /\ item'[j].grace = item[j].grace /\ item'[j].closing = item[j].closing
    PROVE  StoredInv'
BY DEF StoredInv, Unclosed, RsIsStored

\* The step of a handler on its item.
LEMMA StoredOn ==
    ASSUME StoredInv, Typed', NEW h \in Handlers, handler[h].i \in Items, NEW s, NEW r,
           Stored(handler[h].i, s), On(h, s, r)
    PROVE  StoredInv'
BY StoredStep DEF On

\* Where a handler's step begins.
LEMMA StoredHandler ==
    ASSUME StoredInv, NEW h \in Handlers, handler[h].i \in Items
    PROVE  /\ handler[h].head \in Sizes
           /\ Stored(handler[h].i, At(handler[h].i)) /\ At(handler[h].i) \in States
           /\ At(handler[h].i).it = item[handler[h].i] /\ item[handler[h].i] \in ItemType
           /\ \A o \in Sizes : /\ Stored(handler[h].i, CheckObject(At(handler[h].i), o))
                               /\ CheckObject(At(handler[h].i), o) \in States
<1>1. Typed /\ handler[h].head \in Sizes /\ item[handler[h].i] \in ItemType
    BY DEF StoredInv, Typed, HandlerOK, HandlerType
<1>2. At(handler[h].i) \in States /\ At(handler[h].i).it = item[handler[h].i]
    BY <1>1, AtType
<1>3. Stored(handler[h].i, At(handler[h].i))
    BY StoredAt
<1> QED BY <1>1, <1>2, <1>3, StoredCheckObject, CheckObjectType

\* Which handlers are at work on an item.
LEMMA AtWork ==
    ASSUME StoredInv, NEW h \in Handlers, handler[h].pc \notin {"idle", "opened", "reading"}
    PROVE  handler[h].i \in Items
BY DEF StoredInv, Typed, HandlerOK

\* The end of open's part under the lock.
LEMMA StoredCreateFile ==
    ASSUME StoredInv, Typed', NEW h \in Handlers, handler[h].i \in Items, NEW s \in States,
           Stored(handler[h].i, s), CreateFile(h, s)
    PROVE  StoredInv'
<1>1. CanCreate(s) => Stored(handler[h].i, Created(s))
    BY StoredCreated
<1> QED BY <1>1, StoredOn DEF CreateFile

\* The steps of open.
LEMMA StoredOpen ==
    ASSUME ~CanClose, StoredInv, Typed', NEW h \in Handlers,
           OpenAgain(h) \/ OpenFirst(h) \/ OpenVanished(h) \/ Recreate(h) \/ OpenFails(h) \/ Finish(h)
    PROVE  StoredInv'
<1> DEFINE i == handler[h].i
           c == CheckObject(At(i), handler[h].head)
<1>1. i \in Items
    BY AtWork DEF OpenAgain, OpenFirst, OpenVanished, Recreate, OpenFails, Finish
<1>2. /\ Stored(i, At(i)) /\ At(i) \in States /\ At(i).it = item[i] /\ item[i] \in ItemType
      /\ Stored(i, c) /\ c \in States
    BY <1>1, StoredHandler
<1>3. ~item[i].grace /\ ~item[i].closing
    BY <1>1 DEF StoredInv, Unclosed
<1>4. c.it.grace = FALSE /\ c.it.closing = FALSE
    BY <1>2 DEF Stored, Unclosed, States, ItemType
<1> HIDE DEF c
<1>5. CASE OpenAgain(h)
    <2> DEFINE s == [c EXCEPT !.it.opens = @ + 1, !.it.grace = FALSE]
    <2>1. On(h, s, Opened(h))
        BY <1>5 DEF OpenAgain, c
    <2>2. s.dk = c.dk /\ ~s.it.grace /\ ~s.it.closing /\ s.it.fd = c.it.fd /\ s.it.rs = c.it.rs
        BY <1>2, <1>4 DEF States, ItemType
    <2> HIDE DEF s
    <2> QED BY <1>1, <1>2, <2>1, <2>2, StoredSame, StoredOn
<1>6. CASE OpenFirst(h)
    <2> DEFINE s == [c EXCEPT !.it.opens = 1, !.it.pending = @ + 1]
    <2>1. CreateFile(h, s)
        BY <1>6 DEF OpenFirst, c
    <2>2. s.dk = c.dk /\ ~s.it.grace /\ ~s.it.closing /\ s.it.fd = c.it.fd /\ s.it.rs = c.it.rs
        BY <1>2, <1>4 DEF States, ItemType
    <2>3. s \in States
        <3>1. PICK x \in ItemType : x = c.it
            BY <1>2 DEF States
        <3>2. PICK n \in Int : n = x.pending + 1
            BY DEF ItemType
        <3>3. PICK o \in Int : o = 1
            OBVIOUS
        <3>4. s = Counting(c, o, n)
            BY <3>1, <3>2, <3>3 DEF Counting
        <3> HIDE DEF s
        <3> QED BY <1>2, <3>4, CountingType
    <2> HIDE DEF s
    <2> QED BY <1>1, <1>2, <2>1, <2>2, <2>3, StoredSame, StoredCreateFile
<1>7. CASE OpenVanished(h)
    BY <1>3, <1>7 DEF OpenVanished
<1>8. CASE Recreate(h)
    BY <1>1, <1>2, <1>8, StoredCreateFile DEF Recreate
<1>9. CASE OpenFails(h)
    <2> DEFINE d == Removed(At(i))
               s == [d EXCEPT !.it.fd = NoFile, !.it.opens = @ - 1, !.it.pending = @ - 1]
    <2>1. PICK r : On(h, s, r)
        BY <1>9 DEF OpenFails
    <2>2. /\ Stored(i, d) /\ d \in States /\ d.it.rs = {}
        BY <1>1, <1>2, StoredRemoved, RemovedType
    <2> HIDE DEF d
    <2>3. /\ s.dk = d.dk /\ s.it.grace = d.it.grace /\ s.it.closing = d.it.closing
          /\ s.it.fd = NoFile /\ s.it.rs = d.it.rs
        BY <2>2 DEF States, ItemType
    <2> HIDE DEF s
    <2>4. Stored(i, s)
        BY <2>2, <2>3 DEF Stored, Unclosed
    <2> QED BY <1>1, <2>1, <2>4, StoredOn
<1>10. CASE Finish(h)
    <2> DEFINE w == WithDownloaders(item[i])
               s == [At(i) EXCEPT !.it = [w EXCEPT !.pending = @ - 1]]
    <2>1. PICK r : On(h, s, r)
        BY <1>10 DEF Finish
    <2>2. w.fd = item[i].fd /\ w.rs = item[i].rs /\ w.grace = FALSE /\ w.closing = FALSE /\ w \in ItemType
        BY <1>2, <1>3, WithDownloadersType DEF WithDownloaders, ItemType
    <2> HIDE DEF w
    <2>3. s.dk = At(i).dk /\ ~s.it.grace /\ ~s.it.closing /\ s.it.fd = item[i].fd /\ s.it.rs = item[i].rs
        BY <1>2, <2>2 DEF States, ItemType
    <2> HIDE DEF s
    <2> QED BY <1>1, <1>2, <2>1, <2>3, StoredSame, StoredOn
<1> QED BY <1>5, <1>6, <1>7, <1>8, <1>9, <1>10

\* The steps of a read.
LEMMA StoredRead ==
    ASSUME ~CanClose, StoredInv, Typed', NEW h \in Handlers,
           GetSize(h) \/ ReadBegin(h) \/ NewDownloaders(h) \/ ReadFails(h) \/ ReadEnd(h)
    PROVE  StoredInv'
<1> DEFINE i == handler[h].i
<1>1. i \in Items
    BY AtWork DEF GetSize, ReadBegin, NewDownloaders, ReadFails, ReadEnd
<1>2. /\ Stored(i, At(i)) /\ At(i) \in States /\ At(i).it = item[i] /\ item[i] \in ItemType
      /\ Stored(i, CheckObject(At(i), "ok")) /\ CheckObject(At(i), "ok") \in States
    BY <1>1, StoredHandler DEF Sizes
<1>3. ~item[i].grace /\ ~item[i].closing
    BY <1>1 DEF StoredInv, Unclosed
<1>4. ASSUME NEW c \in States, Stored(i, c), NEW r, On(h, [c EXCEPT !.it.pending = @ - 1], r)
      PROVE  StoredInv'
    <2> DEFINE s == [c EXCEPT !.it.pending = @ - 1]
    <2>1. /\ s.dk = c.dk /\ s.it.grace = c.it.grace /\ s.it.closing = c.it.closing
          /\ s.it.fd = c.it.fd /\ s.it.rs = c.it.rs
        BY DEF States, ItemType
    <2>2. On(h, s, r)
        BY <1>4
    <2> HIDE DEF s
    <2>3. ~s.it.grace /\ ~s.it.closing
        BY <1>4, <2>1 DEF Stored, Unclosed
    <2> QED BY <1>1, <1>4, <2>1, <2>2, <2>3, StoredSame, StoredOn
<1>5. CASE GetSize(h)
    <2>1. PICK b, r : On(h, [At(i) EXCEPT !.it.sized = b], r)
        BY <1>5 DEF GetSize
    <2> DEFINE s == [At(i) EXCEPT !.it.sized = b]
    <2>2. s.dk = At(i).dk /\ ~s.it.grace /\ ~s.it.closing /\ s.it.fd = item[i].fd /\ s.it.rs = item[i].rs
        BY <1>2, <1>3 DEF States, ItemType
    <2>3. On(h, s, r)
        BY <2>1
    <2> HIDE DEF s
    <2> QED BY <1>1, <1>2, <2>2, <2>3, StoredSame, StoredOn
<1>6. CASE ReadBegin(h)
    <2>1. CASE On(h, At(i), Over(h, "err"))
        BY <1>1, <1>2, <2>1, StoredOn
    <2>2. ASSUME NEW r, On(h, [At(i) EXCEPT !.it.pending = @ + 1], r)
          PROVE  StoredInv'
        <3> DEFINE s == [At(i) EXCEPT !.it.pending = @ + 1]
        <3>1. s.dk = At(i).dk /\ ~s.it.grace /\ ~s.it.closing /\ s.it.fd = item[i].fd /\ s.it.rs = item[i].rs
            BY <1>2, <1>3 DEF States, ItemType
        <3>2. On(h, s, r)
            BY <2>2
        <3> HIDE DEF s
        <3> QED BY <1>1, <1>2, <3>1, <3>2, StoredSame, StoredOn
    <2> QED BY <1>6, <2>1, <2>2 DEF ReadBegin
<1>7. CASE NewDownloaders(h)
    <2> DEFINE s == [At(i) EXCEPT !.it = WithDownloaders(@)]
    <2>1. PICK r : On(h, s, r)
        BY <1>7 DEF NewDownloaders
    <2>2. s.dk = At(i).dk /\ s.it = WithDownloaders(item[i])
        BY <1>2 DEF States
    <2> HIDE DEF s
    <2> DEFINE w == WithDownloaders(item[i])
    <2>3. w.grace = FALSE /\ w.closing = FALSE /\ w.fd = item[i].fd /\ w.rs = item[i].rs
        BY <1>2, <1>3 DEF WithDownloaders, ItemType
    <2> HIDE DEF w
    <2>4. ~s.it.grace /\ ~s.it.closing /\ s.it.fd = item[i].fd /\ s.it.rs = item[i].rs
        BY <2>2, <2>3 DEF w
    <2> QED BY <1>1, <1>2, <2>1, <2>2, <2>4, StoredSame, StoredOn
<1>8. CASE ReadFails(h)
    BY <1>2, <1>4, <1>8 DEF ReadFails
<1>9. CASE ReadEnd(h)
    BY <1>2, <1>4, <1>9 DEF ReadEnd
<1> QED BY <1>5, <1>6, <1>7, <1>8, <1>9

\* The steps in which a handler looks the name up, waits, or puts an item into the map.
LEMMA StoredElse ==
    ASSUME ~CanClose, StoredInv, Typed', NEW h \in Handlers,
           \/ LookupToOpen(h) \/ LookupToSize(h) \/ LookupToRead(h) \/ Ensure(h) \/ Downloaded(h)
           \/ Leave(h) \/ Close(h) \/ Put(h) \/ CheckOld(h) \/ PutBack(h)
    PROVE  StoredInv'
<1>1. ASSUME NEW i \in Items, Get(i)
      PROVE  StoredInv'
    <2>1. CASE map # NoItem
        BY <1>1, <2>1, StoredStays DEF Get
    <2>2. CASE map = NoItem
        <3>1. Becomes(i, NewItem(disk))
            BY <1>1, <2>2 DEF Get
        <3>2. disk \in DiskType /\ disk.meta.rs = {} /\ NewItem(disk) \in States
            BY NewItemType DEF StoredInv, Typed
        <3>3. /\ NewItem(disk).it.rs = {} /\ NewItem(disk).it.fd = NoFile
              /\ ~NewItem(disk).it.grace /\ ~NewItem(disk).it.closing
            <4> DEFINE both == disk.path # NoFile /\ disk.meta.exists
                       it == [Fresh EXCEPT !.rs = IF both THEN disk.meta.rs ELSE {}, !.sized = disk.path # NoFile]
            <4>1. NewItem(disk).it = it
                BY DEF NewItem
            <4>2. it = [Fresh EXCEPT !.rs = {}, !.sized = disk.path # NoFile]
                BY <3>2
            <4> HIDE DEF it
            <4> QED BY <4>1, <4>2 DEF Fresh
        <3>4. NewItem(disk).dk.data = disk.data /\ NewItem(disk).dk.meta.rs = {}
            <4> DEFINE both == disk.path # NoFile /\ disk.meta.exists
            <4>1. NewItem(disk).dk = IF both THEN disk ELSE [disk EXCEPT !.path = NoFile, !.meta = NoMeta]
                BY DEF NewItem
            <4> HIDE DEF both
            <4> QED BY <3>2, <4>1 DEF DiskType, NoMeta
        <3>5. Stored(i, NewItem(disk))
            BY <3>2, <3>3, <3>4 DEF Stored, Unclosed, States
        <3> QED BY <3>1, <3>5, StoredStep
    <2> QED BY <2>1, <2>2
<1>2. CASE LookupToOpen(h) \/ LookupToSize(h) \/ LookupToRead(h)
    BY <1>1, <1>2 DEF LookupToOpen, LookupToSize, LookupToRead
<1>3. CASE Ensure(h) \/ Downloaded(h) \/ Leave(h) \/ Put(h)
    BY <1>3, StoredStays DEF Ensure, Downloaded, Leave, Put
<1>4. CASE Close(h)
    BY <1>4 DEF Close
<1>5. CASE CheckOld(h) \/ PutBack(h)
    <2>1. UNCHANGED disk
        BY <1>5 DEF CheckOld, PutBack
    <2>2. UNCHANGED item \/ \E i, b : item' = [item EXCEPT ![i].mu = b]
        BY <1>5 DEF CheckOld, PutBack
    <2>3. \A j \in Items : /\ item'[j].fd = item[j].fd /\ item'[j].rs = item[j].rs
                           /\ item'[j].grace = item[j].grace /\ item'[j].closing = item[j].closing
        <3>1. item \in [Items -> ItemType]
            BY DEF StoredInv, Typed
        <3> QED BY <2>2, <3>1 DEF ItemType
    <2> QED BY <2>1, <2>3, StoredStays
<1> QED BY <1>2, <1>3, <1>4, <1>5

\* A block is recorded as it is stored, and nothing else is touched.
LEMMA StoredFetch ==
    ASSUME StoredInv, Typed', NEW i \in Items, NEW b \in Blocks, Fetch(i, b)
    PROVE  StoredInv'
<1>1. /\ item[i].fd # NoFile /\ item' = [item EXCEPT ![i].rs = @ \cup {b}]
      /\ disk' = [disk EXCEPT !.data[item[i].fd][b] = "data"]
    BY DEF Fetch
<1>2. item \in [Items -> ItemType] /\ disk \in DiskType
    BY DEF StoredInv, Typed
<1>3. disk'.meta = disk.meta
    BY <1>1, <1>2 DEF DiskType
<1>4. \A n \in Inodes, a \in Blocks :
          disk'.data[n][a] = IF n = item[i].fd /\ a = b THEN "data" ELSE disk.data[n][a]
    BY <1>1, <1>2 DEF DiskType, DataType
<1>5. ASSUME NEW j \in Items
      PROVE  /\ item'[j].fd = item[j].fd /\ item'[j].grace = item[j].grace
             /\ item'[j].closing = item[j].closing
             /\ item'[j].rs = item[j].rs \/ (j = i /\ item'[j].rs = item[j].rs \cup {b})
             /\ item[j].rs \subseteq Blocks /\ item[j].fd \in Inodes \cup {NoFile}
    BY <1>1, <1>2 DEF ItemType
<1>6. \A j \in Items : Unclosed(item'[j])
    BY <1>1, <1>5 DEF StoredInv, Unclosed
<1>7. RsIsStored'
    <2> SUFFICES ASSUME NEW j \in Items, item'[j].fd # NoFile, NEW a \in item'[j].rs
                 PROVE  disk'.data[item'[j].fd][a] # "hole"
        BY DEF RsIsStored
    <2>1. item'[j].fd = item[j].fd /\ item[j].fd \in Inodes /\ a \in Blocks
        BY <1>5
    <2>2. CASE j = i /\ a = b
        BY <1>4, <2>1, <2>2
    <2>3. CASE a \in item[j].rs
        <3>1. disk.data[item[j].fd][a] # "hole"
            BY <2>1, <2>3 DEF StoredInv, RsIsStored
        <3> QED BY <1>4, <2>1, <3>1
    <2> QED BY <1>5, <2>2, <2>3
<1> QED BY <1>3, <1>6, <1>7 DEF StoredInv

\* The purger and the cleaner remove what is recorded before anything else.
LEMMA StoredRemoval ==
    ASSUME StoredInv, Typed',
           PurgeMap \/ PurgeItem \/ PurgeMeta \/ CleanerStep
    PROVE  StoredInv'
<1>1. ASSUME NEW i \in Items
      PROVE  /\ Stored(i, At(i)) /\ At(i) \in States /\ At(i).it = item[i] /\ At(i).dk = disk
             /\ item[i] \in ItemType /\ disk \in DiskType /\ ~item[i].grace /\ ~item[i].closing
    BY StoredAt, AtType DEF StoredInv, Typed, Unclosed
<1>2. CASE PurgeMap \/ CleanerTakes \/ CleanerRetries \/ RemoveNotInUse \/ CleanerSkips
    BY <1>2, StoredStays DEF PurgeMap, CleanerTakes, CleanerRetries, RemoveNotInUse, CleanerSkips
<1>3. CASE PurgeItem
    <2> DEFINE i == purger.i
               s == [At(i) EXCEPT !.it.rs = {}, !.it.sized = FALSE, !.it.mu = TRUE, !.dk.path = NoFile]
    <2>1. i \in Items /\ Becomes(i, s)
        BY <1>3 DEF PurgeItem, StoredInv, Typed, RestTyped
    <2>2. /\ s.it.rs = {} /\ s.it.fd = item[i].fd /\ s.it.grace = item[i].grace
          /\ s.it.closing = item[i].closing /\ s.dk.data = disk.data /\ s.dk.meta = disk.meta
        <3>1. PICK x \in ItemType, d \in DiskType : At(i) = [it |-> x, dk |-> d] /\ x = item[i] /\ d = disk
            BY <1>1, <2>1 DEF At
        <3>2. /\ s.it = [x EXCEPT !.rs = {}, !.sized = FALSE, !.mu = TRUE]
              /\ s.dk = [d EXCEPT !.path = NoFile]
            BY <3>1
        <3> HIDE DEF s
        <3> QED BY <3>1, <3>2 DEF ItemType, DiskType
    <2>3. s.dk \in DiskType
        <3>1. s.dk = [disk EXCEPT !.path = NoFile]
            BY <1>1, <2>1 DEF States
        <3> HIDE DEF s
        <3> QED BY <1>1, <2>1, <3>1 DEF DiskType
    <2> HIDE DEF s
    <2>4. Stored(i, s)
        BY <1>1, <2>1, <2>2, <2>3 DEF Stored, Unclosed, StoredInv, ItemType
    <2> QED BY <2>1, <2>4, StoredStep
<1>4. CASE PurgeMeta
    <2> DEFINE i == purger.i
               s == [At(i) EXCEPT !.it.mu = FALSE, !.dk.meta = NoMeta]
    <2>1. i \in Items /\ Becomes(i, s)
        BY <1>4 DEF PurgeMeta, StoredInv, Typed, RestTyped
    <2>2. /\ s.it.rs = item[i].rs /\ s.it.fd = item[i].fd /\ s.it.grace = item[i].grace
          /\ s.it.closing = item[i].closing /\ s.dk.data = disk.data /\ s.dk.meta.rs = {}
        BY <1>1, <2>1 DEF States, ItemType, DiskType, NoMeta
    <2>3. s.dk \in DiskType
        <3>1. s.dk = [disk EXCEPT !.meta = NoMeta]
            BY <1>1, <2>1 DEF States
        <3>2. NoMeta \in MetaType
            BY DEF MetaType, NoMeta
        <3>3. PICK d \in DiskType : d = disk
            BY <1>1, <2>1
        <3> HIDE DEF s
        <3> QED BY <3>1, <3>2, <3>3 DEF DiskType
    <2> HIDE DEF s
    <2>4. Stored(i, s)
        BY <1>1, <2>1, <2>2, <2>3 DEF Stored, Unclosed, StoredInv, ItemType, RsIsStored
    <2> QED BY <2>1, <2>4, StoredStep
<1> DEFINE k == cleaner.i
<1>5. RemoveEnds \/ ResetBegin \/ ResetCompletes \/ ResetFails => k \in Items
    BY DEF RemoveEnds, ResetBegin, ResetCompletes, ResetFails, StoredInv, Typed, RestTyped
<1>6. CASE RemoveEnds
    BY <1>1, <1>5, <1>6, StoredRemoved, StoredStep DEF RemoveEnds
<1>7. CASE ResetBegin
    <2>1. item' = [item EXCEPT ![k].reset = TRUE, ![k].dls = "nil"] /\ UNCHANGED disk
        BY <1>7 DEF ResetBegin
    <2>2. \A j \in Items : /\ item'[j].fd = item[j].fd /\ item'[j].rs = item[j].rs
                           /\ item'[j].grace = item[j].grace /\ item'[j].closing = item[j].closing
        <3>1. item \in [Items -> ItemType]
            BY DEF StoredInv, Typed
        <3> QED BY <2>1, <3>1 DEF ItemType
    <2> QED BY <2>1, <2>2, StoredStays
<1>8. ASSUME ResetCompletes \/ ResetFails
      PROVE  Stored(k, Emptied(k)) /\ Emptied(k) \in States
    <2> DEFINE x == item[k]
               s == [At(k) EXCEPT !.it.fd = NoFile]
               it == [x EXCEPT !.fd = NoFile]
               r == Removed(s)
    <2>1. k \in Items
        BY <1>5, <1>8
    <2>2. it \in ItemType /\ it.grace = x.grace /\ it.closing = x.closing /\ it.fd = NoFile
        BY <1>1, <2>1 DEF ItemType
    <2>3. s = With(At(k), it)
        BY <1>1, <2>1 DEF With
    <2> HIDE DEF it, s
    <2>4. s \in States /\ s.it = it /\ s.dk = disk
        BY <1>1, <2>1, <2>2, <2>3, WithType
    <2>5. /\ r \in States /\ r.it.rs = {} /\ r.it.fd = NoFile
          /\ r.it.grace = it.grace /\ r.it.closing = it.closing
          /\ r.dk.data = disk.data /\ r.dk.meta.rs = {}
        <3>1. r \in States /\ r.it.rs = {} /\ r.it.fd = NoFile
            BY <2>2, <2>4, RemovedType
        <3>2. r.it.grace = s.it.grace /\ r.it.closing = s.it.closing
            BY <2>2, <2>4 DEF Removed, ItemType
        <3>3. r.dk.data = s.dk.data /\ r.dk.meta.rs = {}
            BY <1>1, <2>1, <2>4 DEF Removed, DiskType, NoMeta
        <3> QED BY <2>4, <3>1, <3>2, <3>3
    <2>6. Emptied(k) = CheckObject(r, item[k].o)
        BY DEF Emptied, s
    <2> HIDE DEF r
    <2>7. Stored(k, r)
        BY <1>1, <2>1, <2>2, <2>5 DEF Stored, Unclosed, States
    <2>8. item[k].o \in Sizes
        BY <1>1, <2>1 DEF ItemType
    <2> QED BY <2>1, <2>5, <2>6, <2>7, <2>8, StoredCheckObject, CheckObjectType DEF StoredInv
<1> DEFINE e == Emptied(k)
<1>9. CASE ResetCompletes
    <2> DEFINE c == Created(e)
               s == [c EXCEPT !.it = [WithDownloaders(c.it) EXCEPT !.reset = FALSE]]
    <2>1. k \in Items /\ Becomes(k, s)
        BY <1>5, <1>9 DEF ResetCompletes
    <2>2. Stored(k, c) /\ c \in States
        BY <1>8, <1>9, <2>1, StoredCreated, CreatedType DEF ResetCompletes
    <2> HIDE DEF c
    <2> DEFINE w == WithDownloaders(c.it)
    <2>3. /\ w \in ItemType /\ w.fd = c.it.fd /\ w.rs = c.it.rs
          /\ w.grace = c.it.grace /\ w.closing = c.it.closing
        <3>1. PICK x \in ItemType : x = c.it
            BY <2>2 DEF States
        <3> QED BY ZenonT(60), <3>1, WithDownloadersType DEF WithDownloaders, ItemType
    <2> HIDE DEF w
    <2>4. /\ s.dk = c.dk /\ s.it.fd = w.fd /\ s.it.rs = w.rs /\ s.it.grace = w.grace
          /\ s.it.closing = w.closing
        <3>1. s = [c EXCEPT !.it = [w EXCEPT !.reset = FALSE]]
            BY DEF w
        <3> HIDE DEF s
        <3> QED BY <2>2, <2>3, <3>1 DEF States, ItemType
    <2> HIDE DEF s
    <2>5. ~s.it.grace /\ ~s.it.closing
        BY <2>2, <2>3, <2>4 DEF Stored, Unclosed
    <2> QED BY <2>1, <2>2, <2>3, <2>4, <2>5, StoredSame, StoredStep
<1>10. CASE ResetFails
    <2> DEFINE c == Removed(e)
    <2>1. PICK b : k \in Items /\ Becomes(k, [c EXCEPT !.it.reset = b])
        BY <1>5, <1>10 DEF ResetFails
    <2>2. Stored(k, c) /\ c \in States
        BY <1>8, <1>10, <2>1, StoredRemoved, RemovedType
    <2> HIDE DEF c
    <2> DEFINE s == [c EXCEPT !.it.reset = b]
    <2>3. /\ s.dk = c.dk /\ s.it.fd = c.it.fd /\ s.it.rs = c.it.rs /\ s.it.grace = c.it.grace
          /\ s.it.closing = c.it.closing
        BY <2>2 DEF States, ItemType
    <2>4. Becomes(k, s)
        BY <2>1
    <2> HIDE DEF s
    <2>5. ~s.it.grace /\ ~s.it.closing
        BY <2>2, <2>3 DEF Stored, Unclosed
    <2> QED BY <2>1, <2>2, <2>3, <2>4, <2>5, StoredSame, StoredStep
<1> QED BY <1>2, <1>3, <1>4, <1>6, <1>7, <1>9, <1>10 DEF CleanerStep

\* While no handle closes the item, this is so in every state.
LEMMA StoredInvariant ==
    ASSUME ~CanClose
    PROVE  Spec => []StoredInv
<1>1. Init => StoredInv
    <2> SUFFICES ASSUME Init PROVE StoredInv
        OBVIOUS
    <2>1. Typed
        BY CountInit DEF CountInv
    <2>2. \A i \in Items : item[i].fd = NoFile /\ Unclosed(item[i])
        BY DEF Init, Fresh, Unclosed
    <2>3. disk.meta.rs = {}
        BY DEF Init, NoMeta
    <2> QED BY <2>1, <2>2, <2>3 DEF StoredInv, RsIsStored
<1>2. CountInv /\ StoredInv /\ [Next]_vars => StoredInv'
    <2> SUFFICES ASSUME CountInv, StoredInv, [Next]_vars PROVE StoredInv'
        OBVIOUS
    <2>1. Typed'
        BY CountNext DEF CountInv
    <2>2. ASSUME NEW h \in Handlers, \/ HandlerStep(h) \/ LookupToOpen(h) \/ LookupToRead(h)
                                    \/ Leave(h) \/ Close(h)
          PROVE  StoredInv'
        BY <2>1, <2>2, StoredOpen, StoredRead, StoredElse DEF HandlerStep
    <2>3. ASSUME NEW i \in Items, GraceFires(i) \/ ActualClose(i) \/ \E b \in Blocks : Fetch(i, b)
          PROVE  StoredInv'
        <3>1. ~item[i].grace /\ ~item[i].closing
            BY DEF StoredInv, Unclosed
        <3> QED BY <2>1, <2>3, <3>1, StoredFetch DEF GraceFires, ActualClose
    <2>4. CASE PurgeMap \/ PurgeItem \/ PurgeMeta \/ CleanerStep
        BY <2>1, <2>4, StoredRemoval
    <2>5. CASE Restart
        <3>1. \A i \in Items : item'[i].fd = NoFile /\ Unclosed(item'[i])
            BY <2>5 DEF Restart, Fresh, Unclosed
        <3>2. disk'.meta = disk.meta
            <4>1. PICK d : disk' = [disk EXCEPT !.data = d]
                BY <2>5 DEF Restart
            <4> QED BY <4>1 DEF StoredInv, Typed, DiskType
        <3> QED BY <2>1, <3>1, <3>2 DEF StoredInv, RsIsStored
    <2>6. CASE UNCHANGED vars
        BY <2>1, <2>6, StoredStays DEF vars
    <2> QED BY <2>2, <2>3, <2>4, <2>5, <2>6 DEF Next
<1> QED BY <1>1, <1>2, CountInvariant, PTL DEF Spec

-------------------------------------------------------------------------------
(* What is on disk, without purges and evictions *)

\* Blocks that are in the cache file on disk
Backed(dk) == {b \in Blocks : dk.path # NoFile /\ dk.data[dk.path][b] # "hole"}

\* An item and the disk fit: Rs and the metadata claim only what is there, a closed item is
\* as the metadata says, and an open one, which somebody uses or will close, has the file on
\* disk open.
Fits(s) ==
    /\ s.it.rs \subseteq Backed(s.dk) /\ s.dk.meta.rs \subseteq Backed(s.dk)
    /\ s.dk.path # NoFile => s.it.sized
    /\ s.it.fd = NoFile => s.it.rs = s.dk.meta.rs
    /\ s.it.fd # NoFile => s.it.fd = s.dk.path /\ (s.it.grace \/ s.it.closing \/ s.it.opens # 0)

\* Where a handler can be on such an item: nobody closes the downloaders under it, it finds
\* no second item of its name, and what it is about to copy is there.
Placed(r, s) ==
    /\ r.pc \notin {"check", "putBack", "closed"}
    /\ r.i \in {NoItem, map} /\ r.opened \in {NoItem, map}
    /\ r.res # "hole" /\ (r.pc \in {"open", "recreate", "put", "finish"} => r.res = "none")
    /\ r.pc = "copy" /\ s.it.fd # NoFile => r.b \in Backed(s.dk)
    /\ r.pc = "recreate" => s.it.fd = NoFile

\* Nobody but h reads, or makes the file anew.
Calm(h) == \A g \in Handlers \ {h} : handler[g].pc \notin Reading \cup {"recreate"}

\* Handlers that have the item open or are getting it open
Using(r) == r.pc \notin {"idle", "open"}
Users == {h \in Handlers : Using(handler[h])}

Kept ==
    /\ purger.pc = "idle" /\ cleaner.pc = "idle"
    /\ \A i \in Items : i # map => item[i] = Fresh
    /\ \A h \in Handlers : /\ Placed(handler[h], At(map))
                           /\ handler[h].pc # "idle" => map # NoItem
                           /\ handler[h].pc = "recreate" => Calm(h)
    /\ disk.meta.rs \subseteq Backed(disk)
    /\ map # NoItem => /\ Fits(At(map))
                       /\ Cardinality(Users) <= item[map].opens
                       /\ CanClose => Cardinality(Users) = item[map].opens

\* The item in the map and the disk become s, as far as anybody can see.
Turns(s) ==
    /\ map \in Items /\ map' = map /\ item' = [item EXCEPT ![map] = s.it]
    /\ disk'.path = s.dk.path /\ disk'.meta = s.dk.meta /\ Backed(disk') = Backed(s.dk)
    /\ UNCHANGED <<purger, cleaner>>

\* Files that are freed are not the one on disk.
LEMMA BecomesTurns ==
    ASSUME Typed, map \in Items, NEW s \in States, Becomes(map, s),
           UNCHANGED <<map, purger, cleaner>>
    PROVE  Turns(s)
<1> DEFINE d == [n \in Inodes |->
                    IF n = s.dk.path \/ n = s.it.fd \/ \E j \in Items \ {map} : item[j].fd = n
                    THEN s.dk.data[n] ELSE Holes]
<1>1. item' = [item EXCEPT ![map] = s.it] /\ disk' = [s.dk EXCEPT !.data = d]
    BY DEF Becomes
<1>2. s.dk \in DiskType
    BY DEF States
<1>3. s.dk.path # NoFile => d[s.dk.path] = s.dk.data[s.dk.path]
    BY <1>2 DEF DiskType
<1> HIDE DEF d
<1>4. disk'.path = s.dk.path /\ disk'.meta = s.dk.meta /\ disk'.data = d
    BY <1>1, <1>2 DEF DiskType
<1>5. Backed(disk') = Backed(s.dk)
    BY <1>3, <1>4 DEF Backed
<1> QED BY <1>1, <1>4, <1>5 DEF Turns

\* The number of users is in opens.
Uses(n) == Cardinality(Users) <= n /\ (CanClose => Cardinality(Users) = n)

\* A step on the item in the map keeps what it must.
LEMMA KeptStep ==
    ASSUME Kept, NEW s, Turns(s), Fits(s), item \in [Items -> ItemType], s.it \in ItemType,
           \A h \in Handlers : Placed(handler'[h], s) /\ (handler'[h].pc = "recreate" => Calm(h)'),
           Uses(s.it.opens)'
    PROVE  Kept'
<1>1. item'[map] = s.it /\ \A i \in Items : i # map => item'[i] = item[i]
    BY DEF Turns
<1>0. At(map)'.it = s.it /\ At(map)'.dk = disk'
    BY <1>1 DEF Turns, At
<1>2. \A h \in Handlers : Placed(handler[h], At(map))'
    BY <1>0 DEF Turns, Placed
<1>3. Fits(At(map))'
    BY <1>0 DEF Turns, Fits
<1>4. disk'.meta.rs \subseteq Backed(disk')
    BY DEF Turns, Fits
<1>5. map' # NoItem
    BY NoItemIsNone DEF Turns
<1>6. (Cardinality(Users) <= item[map].opens /\ (CanClose => Cardinality(Users) = item[map].opens))'
    BY <1>1 DEF Turns, Uses
<1>7. /\ purger'.pc = "idle" /\ cleaner'.pc = "idle"
      /\ \A i \in Items : i # map' => item'[i] = Fresh
    BY <1>1 DEF Turns, Kept
<1> HIDE DEF Placed, Fits, Users, Calm
<1> QED BY <1>2, <1>3, <1>4, <1>5, <1>6, <1>7 DEF Kept

\* The users are finitely many.
LEMMA UsersFinite == IsFiniteSet(Users) /\ Cardinality(Users) \in Nat
BY CacheItemAssumption, FS_Subset, FS_CardinalityType DEF Users

\* The other handlers have nothing to do with a change of the file.
Undisturbed(h, s) ==
    \/ Calm(h)
    \/ s.it.fd # NoFile => item[map].fd # NoFile /\ Backed(disk) \subseteq Backed(s.dk)

\* The step of a handler on its item, to s and r.
LEMMA KeptHandler ==
    ASSUME CountInv, Kept, Typed', NEW h \in Handlers, NEW r, NEW s \in States, Turns(s), Fits(s),
           handler' = [handler EXCEPT ![h] = r], Placed(r, s), Undisturbed(h, s),
           r.pc = "recreate" => Calm(h),
           r.pc \in Reading => Calm(h) \/ handler[h].pc \in Reading \/ item[map].fd # NoFile,
           s.it.opens >= item[map].opens + Bit(Using(r)) - Bit(Using(handler[h])),
           CanClose => s.it.opens = item[map].opens + Bit(Using(r)) - Bit(Using(handler[h]))
    PROVE  Kept'
<1>1. /\ handler'[h] = r /\ \A g \in Handlers \ {h} : handler'[g] = handler[g]
      /\ item \in [Items -> ItemType] /\ s.it \in ItemType
    BY DEF CountInv, Typed, States
<1>2. ASSUME NEW g \in Handlers
      PROVE  Placed(handler'[g], s)
    <2>1. CASE g = h
        BY <1>1, <2>1
    <2>2. CASE g # h
        <3>1. handler'[g] = handler[g] /\ Placed(handler[g], At(map))
            BY <1>1, <2>2 DEF Kept
        <3>2. At(map).it = item[map] /\ At(map).dk = disk
            BY DEF At
        <3>3. CASE Calm(h)
            BY <2>2, <3>1, <3>3 DEF Placed, Calm, Reading
        <3>4. CASE ~Calm(h)
            BY <3>1, <3>2, <3>4 DEF Placed, Undisturbed
        <3> QED BY <3>3, <3>4
    <2> QED BY <2>1, <2>2
<1>3. ASSUME NEW g \in Handlers, handler'[g].pc = "recreate"
      PROVE  Calm(g)'
    <2>1. CASE g = h
        BY <1>1, <1>3, <2>1 DEF Calm
    <2>2. CASE g # h
        <3>1. handler[g].pc = "recreate" /\ Calm(g) /\ ~Calm(h) /\ Placed(handler[g], At(map))
            BY <1>1, <1>3, <2>2 DEF Kept, Calm
        <3>2. item[map].fd = NoFile
            BY <3>1 DEF Placed, At
        <3>3. r.pc \notin Reading \cup {"recreate"}
            BY <2>2, <3>1, <3>2 DEF Calm
        <3> QED BY <1>1, <3>1, <3>3 DEF Calm
    <2> QED BY <2>1, <2>2
<1>4. Uses(s.it.opens)'
    <2>1. Users' = {g \in Handlers : Using(handler'[g])}
        BY DEF Users, Using
    <2>2. /\ \A x : x # h => (x \in Users <=> x \in Users')
          /\ (h \in Users <=> Using(handler[h])) /\ (h \in Users' <=> Using(r))
        BY <1>1, <2>1 DEF Users
    <2> HIDE DEF Users, Using
    <2>3. Cardinality(Users') = Cardinality(Users) + Bit(h \in Users') - Bit(h \in Users)
        BY <2>2, UsersFinite, OneElement
    <2>4. /\ Cardinality(Users) <= item[map].opens /\ (CanClose => Cardinality(Users) = item[map].opens)
          /\ item[map].opens \in Int /\ s.it.opens \in Int
        BY <1>1, NoItemIsNone DEF Kept, Turns, ItemType
    <2>5. Cardinality(Users') = Cardinality(Users) + Bit(Using(r)) - Bit(Using(handler[h]))
        BY <2>2, <2>3 DEF Bit
    <2>6. Cardinality(Users') <= s.it.opens /\ (CanClose => Cardinality(Users') = s.it.opens)
        BY <2>4, <2>5, UsersFinite DEF Bit
    <2>7. s' = s
        OBVIOUS
    <2> QED BY <2>6 DEF Uses
<1> QED BY <1>1, <1>2, <1>3, <1>4, KeptStep

\* A step on the item that no handler takes.
LEMMA KeptItem ==
    ASSUME CountInv, Kept, Typed', NEW s \in States, Turns(s), Fits(s), handler' = handler,
           s.it.fd # NoFile => item[map].fd # NoFile /\ Backed(disk) \subseteq Backed(s.dk),
           s.it.opens = item[map].opens
    PROVE  Kept'
<1>1. item \in [Items -> ItemType] /\ s.it \in ItemType
    BY DEF CountInv, Typed, States
<1>2. ASSUME NEW g \in Handlers
      PROVE  Placed(handler'[g], s) /\ (handler'[g].pc = "recreate" => Calm(g)')
    <2>1. Placed(handler[g], At(map)) /\ (handler[g].pc = "recreate" => Calm(g))
        BY DEF Kept
    <2>2. At(map).it = item[map] /\ At(map).dk = disk
        BY DEF At
    <2>3. Placed(handler'[g], s)
        BY <2>1, <2>2 DEF Placed
    <2>4. Calm(g)' <=> Calm(g)
        BY DEF Calm
    <2> QED BY <2>1, <2>3, <2>4
<1>3. Uses(s.it.opens)'
    BY NoItemIsNone DEF Uses, Users, Kept, Turns
<1> QED BY <1>1, <1>2, <1>3, KeptStep

-------------------------------------------------------------------------------
(* The functions of item.go keep what fits *)

\* What differs only in what does not matter fits as well.
LEMMA FitsSame ==
    ASSUME NEW c, Fits(c), NEW s, s.dk = c.dk, s.it.fd = c.it.fd, s.it.rs = c.it.rs,
           s.dk.path # NoFile => s.it.sized,
           s.it.fd # NoFile => s.it.grace \/ s.it.closing \/ s.it.opens # 0
    PROVE  Fits(s)
BY DEF Fits

\* The fields of an item that _checkObject leaves alone
Held(it) == <<it.fd, it.opens, it.pending, it.reset, it.grace, it.closing>>

\* _checkObject makes a file only where there is none.
LEMMA FitsCheckObject ==
    ASSUME Typed, NEW s \in States, Fits(s), NEW o \in Sizes
    PROVE  LET c == CheckObject(s, o) IN
              /\ c \in States /\ Fits(c) /\ Held(c.it) = Held(s.it)
              /\ Backed(s.dk) \subseteq Backed(c.dk)
<1> DEFINE t == CheckObject(s, o)
           new == CHOOSE n \in Inodes : \A j \in Items : item[j].fd # n
           file == IF s.it.fd # NoFile THEN s.it.fd ELSE s.dk.path
<1>1. new \in Inodes
    BY FreeInode
<1> HIDE DEF new
<1>2. PICK x \in ItemType, d \in DiskType : s = [it |-> x, dk |-> d] /\ x = s.it /\ d = s.dk
    BY DEF States
<1>3. t \in States
    BY CheckObjectType
<1>4. CASE file # NoFile
    <2> DEFINE it == [x EXCEPT !.o = o, !.sized = TRUE]
    <2>1. t = [it |-> it, dk |-> d]
        BY <1>2, <1>4 DEF CheckObject
    <2>2. Held(it) = Held(x) /\ it.sized /\ it.rs = x.rs
        BY DEF ItemType, Held
    <2> HIDE DEF it
    <2>3. Fits(t)
        BY <1>2, <2>1, <2>2 DEF Fits, Held
    <2> QED BY <1>2, <1>3, <2>1, <2>2, <2>3
<1>5. CASE file = NoFile /\ o = "bad"
    <2> DEFINE it == [x EXCEPT !.o = o, !.sized = FALSE]
    <2>1. t = [it |-> it, dk |-> d]
        BY <1>2, <1>5 DEF CheckObject
    <2>2. Held(it) = Held(x) /\ it.rs = x.rs
        BY DEF ItemType, Held
    <2> HIDE DEF it
    <2>3. Fits(t)
        BY <1>2, <1>5, <2>1, <2>2 DEF Fits, Held
    <2> QED BY <1>2, <1>3, <2>1, <2>2, <2>3
<1>6. CASE file = NoFile /\ o # "bad"
    <2>0. d.path = NoFile /\ x.fd = NoFile /\ x.rs = {} /\ d.meta.rs = {} /\ Backed(d) = {}
        BY <1>2, <1>6 DEF Fits, Backed
    <2> DEFINE it == [x EXCEPT !.o = o, !.sized = TRUE, !.rs = {}]
               dk == [d EXCEPT !.path = new, !.data[new] = Holes]
    <2>1. t = [it |-> it, dk |-> dk]
        <3>1. [d EXCEPT !.path = new, !.data[new] = Holes, !.meta = @] = dk
            BY DEF DiskType
        <3> QED BY <1>2, <1>6, <2>0, <3>1 DEF CheckObject, new
    <2>2. Held(it) = Held(x) /\ it.sized /\ it.rs = {}
        BY DEF ItemType, Held
    <2>3. dk.meta = d.meta
        BY DEF DiskType
    <2> HIDE DEF it, dk
    <2>4. Fits(t)
        BY <1>2, <2>0, <2>1, <2>2, <2>3 DEF Fits, Held
    <2> QED BY <1>2, <1>3, <2>0, <2>1, <2>2, <2>4
<1> QED BY <1>4, <1>5, <1>6

\* _createFile opens the file on disk and records what is in it.
LEMMA FitsCreated ==
    ASSUME NEW s \in States, Fits(s), CanCreate(s), s.it.opens # 0
    PROVE  /\ Created(s) \in States /\ Fits(Created(s))
           /\ Created(s).it.opens = s.it.opens
<1>1. PICK x \in ItemType, d \in DiskType : s = [it |-> x, dk |-> d] /\ x = s.it /\ d = s.dk
    BY DEF States
<1> DEFINE it == [x EXCEPT !.fd = d.path]
           dk == [d EXCEPT !.meta = Meta(x.rs)]
<1>2. Created(s) = [it |-> it, dk |-> dk]
    BY <1>1 DEF Created
<1>3. it.fd = d.path /\ it.rs = x.rs /\ it.sized = x.sized /\ it.opens = x.opens
    BY DEF ItemType
<1>4. dk.path = d.path /\ dk.data = d.data /\ dk.meta.rs = x.rs
    BY DEF DiskType, Meta
<1> HIDE DEF it, dk
<1>5. Backed(dk) = Backed(d)
    BY <1>4 DEF Backed
<1>6. Fits(Created(s))
    BY <1>1, <1>2, <1>3, <1>4, <1>5 DEF Fits, CanCreate
<1> QED BY <1>1, <1>2, <1>3, <1>6, CreatedType

\* Where a handler's step begins.
LEMMA KeptAt ==
    ASSUME CountInv, Kept, NEW h \in Handlers, handler[h].pc # "idle"
    PROVE  /\ map \in Items /\ Fits(At(map)) /\ At(map) \in States
           /\ At(map).it = item[map] /\ At(map).dk = disk /\ item[map] \in ItemType
           /\ HandlerOK(handler[h]) /\ Placed(handler[h], At(map))
           /\ handler[h].pc \notin {"opened", "reading"} => handler[h].i = map
<1>1. map \in Items /\ HandlerOK(handler[h])
    BY DEF CountInv, Typed, RestTyped, Kept
<1>2. At(map) \in States /\ At(map).it = item[map] /\ At(map).dk = disk /\ item[map] \in ItemType
    BY <1>1, AtType DEF CountInv, Typed
<1>3. Fits(At(map)) /\ Placed(handler[h], At(map))
    BY <1>1, NoItemIsNone DEF Kept
<1>4. handler[h].pc \notin {"opened", "reading"} => handler[h].i = map
    BY <1>1, <1>3, NoItemIsNone DEF HandlerOK, Placed
<1> QED BY <1>1, <1>2, <1>3, <1>4

-------------------------------------------------------------------------------
(* The steps of a handler *)

\* A handler that uses the item is counted; when nobody is, no handler reads.
LEMMA UsersCounted ==
    ASSUME CountInv, Kept, map \in Items, NEW h \in Handlers
    PROVE  /\ Using(handler[h]) => item[map].opens # 0
           /\ item[map].opens = 0 => Calm(h) /\ ~Using(handler[h])
           /\ item[map].opens \in Int /\ item[map].opens >= 0
<1>1. Cardinality(Users) <= item[map].opens /\ item[map].opens \in Int
    BY NoItemIsNone DEF Kept, CountInv, Typed, ItemType
<1>2. /\ Cardinality(Users) \in Nat /\ (Cardinality(Users) = 0 => Users = {})
      /\ \A g \in Handlers : Using(handler[g]) => g \in Users
    BY UsersFinite, FS_EmptySet DEF Users
<1>3. item[map].opens = 0 => Users = {}
    BY <1>1, <1>2
<1>4. item[map].opens = 0 => \A g \in Handlers : ~Using(handler[g])
    BY <1>2, <1>3
<1>5. item[map].opens >= 0
    BY <1>1, <1>2
<1> QED BY <1>1, <1>4, <1>5 DEF Calm, Using, Reading

\* The same for a step that ends in On.
LEMMA KeptOn ==
    ASSUME CountInv, Kept, Typed', NEW h \in Handlers, handler[h].i = map, map \in Items,
           NEW r, NEW s \in States, On(h, s, r), Fits(s), Placed(r, s), Undisturbed(h, s),
           r.pc # "recreate",
           r.pc \in Reading => handler[h].pc \in Reading \/ item[map].fd # NoFile,
           s.it.opens = item[map].opens + Bit(Using(r)) - Bit(Using(handler[h]))
    PROVE  Kept'
<1>1. Turns(s) /\ handler' = [handler EXCEPT ![h] = r]
    BY BecomesTurns DEF On, Handler, CountInv
<1>2. s.it.opens \in Int /\ s.it.opens >= s.it.opens
    BY DEF States, ItemType
<1>3. s.it.opens >= item[map].opens + Bit(Using(r)) - Bit(Using(handler[h]))
    BY <1>2
<1> QED BY <1>1, <1>3, KeptHandler

\* The end of open's part under the lock, when nobody else can read.
LEMMA KeptCreateFile ==
    ASSUME CountInv, Kept, Typed', NEW h \in Handlers, handler[h].pc \in {"open", "recreate"},
           NEW s \in States, Fits(s), Calm(h), s.it.opens # 0, CreateFile(h, s),
           s.it.opens = item[map].opens + 1 - Bit(Using(handler[h]))
    PROVE  Kept'
<1>1. /\ map \in Items /\ handler[h].i = map /\ handler[h] \in HandlerType
      /\ handler[h].opened \in {NoItem, map} /\ handler[h].res = "none"
    BY KeptAt DEF Placed, HandlerOK
<1>2. CASE CanCreate(s) /\ On(h, Created(s), [handler[h] EXCEPT !.pc = "put"])
    <2> DEFINE r == [handler[h] EXCEPT !.pc = "put"]
               t == Created(s)
    <2>1. t \in States /\ Fits(t) /\ t.it.opens = s.it.opens
        BY <1>2, FitsCreated
    <2>2. On(h, t, r)
        BY <1>2
    <2> HIDE DEF t
    <2>3. r.pc = "put" /\ Placed(r, t) /\ Bit(Using(r)) = 1
        BY <1>1 DEF HandlerType, Placed, Using, Bit
    <2> HIDE DEF r
    <2> QED BY <1>1, <2>1, <2>2, <2>3, KeptOn DEF Undisturbed, Reading
<1>3. CASE On(h, s, [handler[h] EXCEPT !.pc = "failed",
                                       !.res = IF CanCreate(s) THEN "nospace" ELSE "err"])
    <2> DEFINE r == [handler[h] EXCEPT !.pc = "failed",
                                       !.res = IF CanCreate(s) THEN "nospace" ELSE "err"]
    <2>1. r.pc = "failed" /\ Placed(r, s) /\ Bit(Using(r)) = 1
        BY <1>1 DEF HandlerType, Placed, Using, Bit
    <2> HIDE DEF r
    <2> QED BY <1>1, <1>3, <2>1, KeptOn DEF Undisturbed, Reading, r
<1> QED BY <1>2, <1>3 DEF CreateFile

\* open on an item that is not open.
LEMMA KeptOpenFirst ==
    ASSUME CountInv, Kept, Typed', NEW h \in Handlers, OpenFirst(h)
    PROVE  Kept'
<1> DEFINE c == CheckObject(At(map), handler[h].head)
           s == [c EXCEPT !.it.opens = 1, !.it.pending = @ + 1]
<1>1. /\ handler[h].pc = "open" /\ map \in Items /\ handler[h].i = map
      /\ Fits(At(map)) /\ At(map) \in States /\ At(map).it = item[map] /\ handler[h].head \in Sizes
    BY KeptAt DEF OpenFirst, HandlerOK, HandlerType
<1>2. item[map].opens = 0 /\ CreateFile(h, s)
    BY <1>1 DEF OpenFirst
<1>3. Calm(h) /\ ~Using(handler[h])
    BY <1>1, <1>2, UsersCounted
<1>4. c \in States /\ Fits(c)
    BY <1>1, FitsCheckObject DEF CountInv
<1> HIDE DEF c
<1>5. s \in States /\ s.it.opens = 1 /\ Fits(s)
    <2>1. PICK x \in ItemType : x = c.it
        BY <1>4 DEF States
    <2>2. PICK n \in Int : n = x.pending + 1
        BY DEF ItemType
    <2>3. PICK k \in Int : k = 1
        OBVIOUS
    <2> DEFINE it == [x EXCEPT !.opens = k, !.pending = n]
    <2>4. it \in ItemType /\ it.opens = k /\ it.fd = x.fd /\ it.rs = x.rs /\ it.sized = x.sized
        BY DEF ItemType
    <2>5. s = With(c, it)
        BY <1>4, <2>1, <2>2, <2>3 DEF With
    <2> HIDE DEF it, s
    <2>6. s \in States /\ s.it = it /\ s.dk = c.dk
        BY <1>4, <2>4, <2>5, WithType
    <2>7. Fits(s)
        <3>1. s.dk.path # NoFile => s.it.sized
            BY <1>4, <2>1, <2>4, <2>6 DEF Fits
        <3> QED BY <1>4, <2>1, <2>3, <2>4, <2>6, <3>1, FitsSame
    <2> QED BY <2>3, <2>4, <2>6, <2>7
<1> HIDE DEF s
<1>6. s.it.opens = item[map].opens + 1 - Bit(Using(handler[h])) /\ s.it.opens # 0
    BY <1>2, <1>3, <1>5 DEF Bit
<1> QED BY <1>1, <1>2, <1>3, <1>5, <1>6, KeptCreateFile

\* open goes on after the file has vanished.
LEMMA KeptRecreate ==
    ASSUME CountInv, Kept, Typed', NEW h \in Handlers, Recreate(h)
    PROVE  Kept'
<1>1. /\ handler[h].pc = "recreate" /\ map \in Items /\ handler[h].i = map
      /\ Fits(At(map)) /\ At(map) \in States /\ At(map).it = item[map]
    BY KeptAt DEF Recreate
<1>2. Calm(h) /\ CreateFile(h, At(map))
    BY <1>1 DEF Kept, Recreate
<1>3. Using(handler[h]) /\ item[map].opens # 0 /\ item[map].opens \in Int
    BY <1>1, UsersCounted DEF Using
<1>4. item[map].opens = item[map].opens + 1 - Bit(Using(handler[h]))
    BY <1>3 DEF Bit
<1> QED BY <1>1, <1>2, <1>3, <1>4, KeptCreateFile

\* open on an item that is open, or in its grace period.
LEMMA KeptOpenAgain ==
    ASSUME CountInv, Kept, Typed', NEW h \in Handlers, OpenAgain(h)
    PROVE  Kept'
<1> DEFINE c == CheckObject(At(map), handler[h].head)
           s == [c EXCEPT !.it.opens = @ + 1, !.it.grace = FALSE]
           r == Opened(h)
<1>1. /\ handler[h].pc = "open" /\ map \in Items /\ handler[h].i = map /\ handler[h] \in HandlerType
      /\ Fits(At(map)) /\ At(map) \in States /\ At(map).it = item[map] /\ At(map).dk = disk
      /\ handler[h].res = "none"
    BY KeptAt DEF OpenAgain, HandlerOK, Placed
<1>2. On(h, s, r)
    BY <1>1 DEF OpenAgain
<1>3. c \in States /\ Fits(c) /\ Held(c.it) = Held(item[map]) /\ Backed(disk) \subseteq Backed(c.dk)
    BY <1>1, FitsCheckObject DEF CountInv, HandlerType
<1>4. item[map].opens \in Int /\ item[map].opens >= 0
    BY <1>1, UsersCounted
<1> HIDE DEF c
<1>5. s \in States /\ s.dk = c.dk /\ s.it.opens = item[map].opens + 1 /\ Fits(s) /\ s.it.fd = item[map].fd
    <2>1. PICK x \in ItemType : x = c.it
        BY <1>3 DEF States
    <2>2. PICK n \in Int : n = x.opens + 1
        BY DEF ItemType
    <2> DEFINE it == [x EXCEPT !.opens = n, !.grace = FALSE]
    <2>3. it \in ItemType /\ it.opens = n /\ it.fd = x.fd /\ it.rs = x.rs /\ it.sized = x.sized
        BY DEF ItemType
    <2>4. s = With(c, it)
        BY <1>3, <2>1, <2>2 DEF With
    <2> HIDE DEF it, s
    <2>5. s \in States /\ s.it = it /\ s.dk = c.dk
        BY <1>3, <2>3, <2>4, WithType
    <2>6. n = item[map].opens + 1 /\ x.fd = item[map].fd
        BY <1>3, <2>1, <2>2 DEF Held
    <2>7. n # 0
        BY <1>4, <2>6
    <2>8. s.dk.path # NoFile => s.it.sized
        BY <1>3, <2>1, <2>3, <2>5 DEF Fits
    <2> QED BY <1>3, <2>1, <2>3, <2>5, <2>6, <2>7, <2>8, FitsSame
<1> HIDE DEF s
<1>6. r.pc = "opened" /\ Placed(r, s) /\ Bit(Using(r)) = 1 /\ Bit(Using(handler[h])) = 0
    BY <1>1 DEF HandlerType, Placed, Using, Bit, Opened
<1> HIDE DEF r
<1>7. s.it.opens = item[map].opens + Bit(Using(r)) - Bit(Using(handler[h]))
    BY <1>4, <1>5, <1>6
<1>8. Undisturbed(h, s)
    BY <1>3, <1>5 DEF Undisturbed
<1> QED BY <1>1, <1>2, <1>5, <1>6, <1>7, <1>8, KeptOn DEF Reading

\* The file has vanished in the grace period: then nobody uses the item.
LEMMA KeptOpenVanished ==
    ASSUME CountInv, Kept, Typed', NEW h \in Handlers, OpenVanished(h)
    PROVE  Kept'
<1> DEFINE c == CheckObject(At(map), handler[h].head)
           s == [c EXCEPT !.it.opens = 1, !.it.pending = @ + 1, !.it.grace = FALSE,
                          !.it.fd = NoFile, !.it.dls = "nil"]
           r == [handler[h] EXCEPT !.pc = "recreate"]
<1>1. /\ handler[h].pc = "open" /\ map \in Items /\ handler[h].i = map /\ handler[h] \in HandlerType
      /\ Fits(At(map)) /\ At(map) \in States /\ At(map).it = item[map] /\ At(map).dk = disk
      /\ handler[h].res = "none" /\ handler[h].opened \in {NoItem, map}
    BY KeptAt DEF OpenVanished, HandlerOK, Placed
<1>2. /\ item[map].opens = 0 /\ c.dk.path = NoFile /\ Becomes(map, s)
      /\ handler' = [ClosedUnder(map) EXCEPT ![h].pc = "recreate"]
      /\ UNCHANGED <<map, purger, cleaner>>
    BY <1>1 DEF OpenVanished
<1>3. Calm(h) /\ ~Using(handler[h])
    BY <1>1, <1>2, UsersCounted
<1>4. c \in States /\ Fits(c)
    BY <1>1, FitsCheckObject DEF CountInv, HandlerType
<1> HIDE DEF c
<1>5. s \in States /\ s.it.opens = 1 /\ Fits(s) /\ s.it.fd = NoFile
    <2>1. PICK x \in ItemType : x = c.it
        BY <1>4 DEF States
    <2>2. PICK n \in Int : n = x.pending + 1
        BY DEF ItemType
    <2>3. PICK k \in Int : k = 1
        OBVIOUS
    <2> DEFINE it == [x EXCEPT !.opens = k, !.pending = n, !.grace = FALSE, !.fd = NoFile, !.dls = "nil"]
    <2>4. it \in ItemType /\ it.opens = k /\ it.fd = NoFile /\ it.rs = x.rs
        BY DEF ItemType, Sizes
    <2>5. s = With(c, it)
        BY <1>4, <2>1, <2>2, <2>3 DEF With
    <2> HIDE DEF it, s
    <2>6. s \in States /\ s.it = it /\ s.dk = c.dk
        BY <1>4, <2>4, <2>5, WithType
    <2>7. x.rs = {} /\ c.dk.meta.rs = {}
        BY <1>2, <1>4, <2>1 DEF Fits, Backed
    <2>8. Fits(s)
        BY <1>2, <2>4, <2>6, <2>7 DEF Fits, c
    <2> QED BY <2>3, <2>4, <2>6, <2>8
<1> HIDE DEF s
<1>6. handler' = [handler EXCEPT ![h] = r]
    <2>1. \A g \in Handlers : handler[g].pc # "wait"
        BY <1>1, <1>3 DEF Calm, Reading
    <2>2. ClosedUnder(map) = handler
        BY <2>1 DEF ClosedUnder, CountInv, Typed
    <2> QED BY <1>2, <2>2
<1>7. r.pc = "recreate" /\ Placed(r, s) /\ Bit(Using(r)) = 1 /\ Bit(Using(handler[h])) = 0
    BY <1>1, <1>5 DEF HandlerType, Placed, Using, Bit
<1> HIDE DEF r
<1>8. s.it.opens = item[map].opens + Bit(Using(r)) - Bit(Using(handler[h]))
    BY <1>2, <1>5, <1>7
<1>9. s.it.opens >= item[map].opens + Bit(Using(r)) - Bit(Using(handler[h]))
    BY <1>2, <1>5, <1>7
<1>10. Turns(s)
    BY <1>1, <1>2, <1>5, BecomesTurns DEF CountInv, s
<1> QED BY <1>3, <1>5, <1>6, <1>7, <1>8, <1>9, <1>10, KeptHandler DEF Undisturbed, Reading

\* open fails: it removes the file and closes it.
LEMMA KeptOpenFails ==
    ASSUME CountInv, Kept, Typed', NEW h \in Handlers, OpenFails(h)
    PROVE  Kept'
<1> DEFINE d == Removed(At(map))
           s == [d EXCEPT !.it.fd = NoFile, !.it.opens = @ - 1, !.it.pending = @ - 1]
<1>1. /\ handler[h].pc = "failed" /\ map \in Items /\ handler[h].i = map /\ handler[h] \in HandlerType
      /\ At(map) \in States /\ At(map).it = item[map] /\ At(map).dk = disk
      /\ handler[h].opened \in {NoItem, map}
    BY KeptAt DEF OpenFails, HandlerOK, Placed
<1>2. PICK r : On(h, s, r) /\ r \in {Idle, [handler[h] EXCEPT !.pc = "open", !.res = "none"]}
    BY <1>1 DEF OpenFails
<1>3. d \in States /\ d.it.rs = {} /\ Counters(d.it) = Counters(item[map])
    BY <1>1, RemovedType
<1>4. d.dk.path = NoFile /\ d.dk.meta.rs = {}
    BY <1>1 DEF Removed, States, DiskType, NoMeta
<1> HIDE DEF d
<1>5. s \in States /\ s.it.opens = item[map].opens - 1 /\ s.it.fd = NoFile /\ Fits(s)
    <2>1. PICK x \in ItemType : x = d.it
        BY <1>3 DEF States
    <2>2. PICK n \in Int, k \in Int : n = x.pending - 1 /\ k = x.opens - 1
        BY DEF ItemType
    <2> DEFINE it == [x EXCEPT !.fd = NoFile, !.opens = k, !.pending = n]
    <2>3. it \in ItemType /\ it.opens = k /\ it.fd = NoFile /\ it.rs = x.rs
        BY DEF ItemType
    <2>4. s = With(d, it)
        BY <1>3, <2>1, <2>2 DEF With
    <2> HIDE DEF it, s
    <2>5. s \in States /\ s.it = it /\ s.dk = d.dk
        BY <1>3, <2>3, <2>4, WithType
    <2>6. Fits(s)
        BY <1>3, <1>4, <2>1, <2>3, <2>5 DEF Fits
    <2> QED BY <1>3, <2>1, <2>2, <2>3, <2>5, <2>6 DEF Counters
<1> HIDE DEF s
<1>6. r.pc \in {"idle", "open"} /\ Placed(r, s) /\ Bit(Using(r)) = 0 /\ Bit(Using(handler[h])) = 1
    <2>1. CASE r = Idle
        BY <1>1, <2>1 DEF Placed, Using, Bit, Idle
    <2>2. CASE r = [handler[h] EXCEPT !.pc = "open", !.res = "none"]
        BY <1>1, <2>2 DEF HandlerType, Placed, Using, Bit
    <2> QED BY <1>2, <2>1, <2>2
<1>7. item[map].opens \in Int
    BY <1>1, UsersCounted
<1>8. s.it.opens = item[map].opens + Bit(Using(r)) - Bit(Using(handler[h]))
    BY <1>5, <1>6, <1>7
<1> QED BY <1>1, <1>2, <1>5, <1>6, <1>8, KeptOn DEF Undisturbed, Reading

\* open is over.
LEMMA KeptFinish ==
    ASSUME CountInv, Kept, Typed', NEW h \in Handlers, Finish(h)
    PROVE  Kept'
<1> DEFINE w == WithDownloaders(item[map])
           s == [At(map) EXCEPT !.it = [w EXCEPT !.pending = @ - 1]]
           r == Opened(h)
<1>1. /\ handler[h].pc = "finish" /\ map \in Items /\ handler[h].i = map /\ handler[h] \in HandlerType
      /\ Fits(At(map)) /\ At(map) \in States /\ At(map).it = item[map] /\ At(map).dk = disk
      /\ handler[h].res = "none" /\ item[map] \in ItemType
    BY KeptAt DEF Finish, HandlerOK, Placed
<1>2. On(h, s, r)
    BY <1>1 DEF Finish
<1>3. w \in ItemType /\ Held(w) = Held(item[map]) /\ w.rs = item[map].rs /\ w.sized = item[map].sized
    BY ZenonT(60), <1>1, WithDownloadersType DEF WithDownloaders, ItemType, Held
<1> HIDE DEF w
<1>4. /\ s \in States /\ s.dk = disk /\ s.it.opens = item[map].opens /\ s.it.fd = item[map].fd
      /\ Fits(s)
    <2>1. PICK x \in ItemType : x = w
        BY <1>3
    <2>2. PICK n \in Int : n = x.pending - 1
        BY DEF ItemType
    <2> DEFINE it == [x EXCEPT !.pending = n]
    <2>3. /\ it \in ItemType /\ it.opens = x.opens /\ it.fd = x.fd /\ it.rs = x.rs
          /\ it.sized = x.sized /\ it.grace = x.grace /\ it.closing = x.closing
        BY DEF ItemType
    <2>4. s = With(At(map), it)
        BY <1>1, <2>1, <2>2 DEF With
    <2> HIDE DEF it, s
    <2>5. s \in States /\ s.it = it /\ s.dk = disk
        BY <1>1, <2>3, <2>4, WithType
    <2>6. Fits(s)
        BY <1>1, <1>3, <2>1, <2>3, <2>5 DEF Fits, Held
    <2> QED BY <1>3, <2>1, <2>3, <2>5, <2>6 DEF Held
<1> HIDE DEF s
<1>5. r.pc = "opened" /\ Placed(r, s) /\ Bit(Using(r)) = 1 /\ Bit(Using(handler[h])) = 1
    BY <1>1 DEF HandlerType, Placed, Using, Bit, Opened
<1> HIDE DEF r
<1>6. s.it.opens = item[map].opens + Bit(Using(r)) - Bit(Using(handler[h]))
    BY <1>1, <1>4, <1>5, UsersCounted
<1>7. Undisturbed(h, s)
    BY <1>4 DEF Undisturbed
<1> QED BY <1>1, <1>2, <1>4, <1>5, <1>6, <1>7, KeptOn DEF Reading

\* A step in which a handler that uses the item goes on using it, with the same file open.
LEMMA KeptUses ==
    ASSUME CountInv, Kept, Typed', NEW h \in Handlers, map \in Items, Using(handler[h]),
           NEW r, Using(r), NEW s \in States, Turns(s), handler' = [handler EXCEPT ![h] = r],
           Fits(s), Placed(r, s), r.pc # "recreate",
           s.it.opens = item[map].opens, s.it.fd = item[map].fd, Backed(disk) \subseteq Backed(s.dk),
           r.pc \in Reading => handler[h].pc \in Reading \/ item[map].fd # NoFile
    PROVE  Kept'
<1>1. item[map].opens \in Int /\ item[map].opens >= item[map].opens
    BY UsersCounted
<1>2. /\ s.it.opens = item[map].opens + Bit(Using(r)) - Bit(Using(handler[h]))
      /\ s.it.opens >= item[map].opens + Bit(Using(r)) - Bit(Using(handler[h]))
    BY <1>1 DEF Bit
<1>3. Undisturbed(h, s)
    BY DEF Undisturbed
<1> QED BY <1>2, <1>3, KeptHandler

\* The counter of the accesses does not matter for the file.
LEMMA FitsPending ==
    ASSUME NEW c \in States, NEW n \in Int
    PROVE  LET s == [c EXCEPT !.it.pending = n] IN
              /\ s \in States /\ (Fits(c) => Fits(s)) /\ s.dk = c.dk
              /\ s.it.opens = c.it.opens /\ s.it.fd = c.it.fd
<1> DEFINE s == [c EXCEPT !.it.pending = n]
<1>1. PICK x \in ItemType : x = c.it
    BY DEF States
<1> DEFINE it == [x EXCEPT !.pending = n]
<1>2. /\ it \in ItemType /\ it.opens = x.opens /\ it.fd = x.fd /\ it.rs = x.rs
      /\ it.sized = x.sized /\ it.grace = x.grace /\ it.closing = x.closing
    BY DEF ItemType
<1>3. s = With(c, it)
    BY <1>1 DEF With
<1> HIDE DEF it, s
<1>4. s \in States /\ s.it = it /\ s.dk = c.dk
    BY <1>2, <1>3, WithType
<1>5. Fits(c) => Fits(s)
    BY <1>1, <1>2, <1>4 DEF Fits
<1> QED BY <1>1, <1>2, <1>4, <1>5 DEF s

\* newReadFileHandle asks for the size.
LEMMA KeptGetSize ==
    ASSUME CountInv, Kept, Typed', NEW h \in Handlers, GetSize(h)
    PROVE  Kept'
<1>1. /\ handler[h].pc = "size" /\ map \in Items /\ handler[h].i = map /\ handler[h] \in HandlerType
      /\ Fits(At(map)) /\ At(map) \in States /\ At(map).it = item[map] /\ At(map).dk = disk
      /\ item[map] \in ItemType /\ handler[h].opened \in {NoItem, map}
    BY KeptAt DEF GetSize, HandlerOK, Placed
<1> DEFINE exists == item[map].fd # NoFile \/ disk.path # NoFile
           b == IF exists THEN TRUE ELSE IF item[map].o = "nil" THEN item[map].sized ELSE item[map].o = "ok"
           s == [At(map) EXCEPT !.it.sized = b]
           r == Over(h, "none")
<1>2. On(h, s, r)
    <2>1. s = [At(map) EXCEPT !.it.sized = IF exists THEN TRUE ELSE IF item[map].o = "nil" THEN @
                                           ELSE item[map].o = "ok"]
        BY <1>1
    <2> QED BY <1>1, <2>1 DEF GetSize
<1>3. s \in States /\ s.dk = disk /\ s.it.opens = item[map].opens /\ s.it.fd = item[map].fd /\ Fits(s)
    <2>1. PICK k \in BOOLEAN : k = b /\ (disk.path # NoFile => k)
        BY <1>1 DEF ItemType
    <2> DEFINE it == [item[map] EXCEPT !.sized = k]
    <2>2. /\ it \in ItemType /\ it.opens = item[map].opens /\ it.fd = item[map].fd
          /\ it.rs = item[map].rs /\ it.sized = k /\ it.grace = item[map].grace
          /\ it.closing = item[map].closing
        BY <1>1 DEF ItemType
    <2>3. s = With(At(map), it)
        BY <1>1, <2>1 DEF With
    <2> HIDE DEF it, s, b, exists, r
    <2>4. s \in States /\ s.it = it /\ s.dk = disk
        BY <1>1, <2>2, <2>3, WithType
    <2>5. Fits(s)
        <3>1. disk.path # NoFile => s.it.sized
            BY <2>1, <2>2, <2>4
        <3>2. s.it.fd # NoFile => s.it.grace \/ s.it.closing \/ s.it.opens # 0
            BY <1>1, <2>2, <2>4 DEF Fits
        <3> QED BY <1>1, <2>2, <2>4, <3>1, <3>2, FitsSame
    <2> QED BY <2>2, <2>4, <2>5
<1> HIDE DEF s
<1>4. r.pc = "reading" /\ Placed(r, s) /\ Using(r) /\ Using(handler[h])
    BY <1>1 DEF HandlerType, Placed, Using, Over
<1> HIDE DEF r
<1>5. Turns(s) /\ handler' = [handler EXCEPT ![h] = r]
    BY <1>1, <1>2, <1>3, BecomesTurns DEF On, Handler, CountInv
<1> QED BY <1>1, <1>3, <1>4, <1>5, KeptUses DEF Reading

\* A read begins: what it finds in Rs is in the file.
LEMMA KeptReadBegin ==
    ASSUME CountInv, Kept, Typed', NEW h \in Handlers, ReadBegin(h)
    PROVE  Kept'
<1>1. /\ handler[h].pc = "read" /\ map \in Items /\ handler[h].i = map /\ handler[h] \in HandlerType
      /\ Fits(At(map)) /\ At(map) \in States /\ At(map).it = item[map] /\ At(map).dk = disk
      /\ item[map] \in ItemType /\ handler[h].opened \in {NoItem, map} /\ handler[h].res # "hole"
    BY KeptAt DEF ReadBegin, HandlerOK, Placed
<1>2. CASE item[map].fd = NoFile /\ On(h, At(map), Over(h, "err"))
    <2> DEFINE r == Over(h, "err")
    <2>1. r.pc = "reading" /\ Placed(r, At(map)) /\ Using(r) /\ Using(handler[h])
        BY <1>1 DEF HandlerType, Placed, Using, Over
    <2>2. Turns(At(map)) /\ handler' = [handler EXCEPT ![h] = r]
        BY <1>1, <1>2, BecomesTurns DEF On, Handler, CountInv
    <2> HIDE DEF r
    <2> QED BY <1>1, <2>1, <2>2, KeptUses DEF Reading
<1>3. CASE item[map].fd # NoFile
    <2> DEFINE s == [At(map) EXCEPT !.it.pending = item[map].pending + 1]
               pc == IF handler[h].b \in item[map].rs \/ ~item[map].sized THEN "copy" ELSE "ensure"
               r == [handler[h] EXCEPT !.pc = pc]
    <2>1. On(h, s, r)
        <3>1. s = [At(map) EXCEPT !.it.pending = @ + 1]
            BY <1>1
        <3> QED BY <1>1, <1>3, <3>1 DEF ReadBegin
    <2>2. s \in States /\ Fits(s) /\ s.dk = disk /\ s.it.opens = item[map].opens /\ s.it.fd = item[map].fd
        <3>1. item[map].pending + 1 \in Int
            BY <1>1 DEF ItemType
        <3> QED BY <1>1, <3>1, FitsPending
    <2> HIDE DEF s
    <2>3. pc = "copy" => handler[h].b \in Backed(disk)
        BY <1>1, <1>3 DEF Fits
    <2>4. pc \in {"copy", "ensure"}
        OBVIOUS
    <2> HIDE DEF pc
    <2>5. Placed(r, s) /\ r.pc = pc /\ Using(r) /\ Using(handler[h])
        BY <1>1, <2>2, <2>3, <2>4 DEF HandlerType, Placed, Using
    <2>6. Turns(s) /\ handler' = [handler EXCEPT ![h] = r]
        BY <1>1, <2>1, <2>2, BecomesTurns DEF On, Handler, CountInv
    <2> HIDE DEF r
    <2> QED BY <1>1, <1>3, <2>2, <2>4, <2>5, <2>6, KeptUses
<1> QED BY <1>1, <1>2, <1>3 DEF ReadBegin

\* _ensure makes downloaders.
LEMMA KeptNewDownloaders ==
    ASSUME CountInv, Kept, Typed', NEW h \in Handlers, NewDownloaders(h)
    PROVE  Kept'
<1> DEFINE w == WithDownloaders(item[map])
           s == With(At(map), w)
           r == [handler[h] EXCEPT !.pc = "wait"]
<1>1. /\ handler[h].pc = "new" /\ map \in Items /\ handler[h].i = map /\ handler[h] \in HandlerType
      /\ Fits(At(map)) /\ At(map) \in States /\ At(map).it = item[map] /\ At(map).dk = disk
      /\ item[map] \in ItemType /\ handler[h].opened \in {NoItem, map} /\ handler[h].res # "hole"
    BY KeptAt DEF NewDownloaders, HandlerOK, Placed
<1>2. On(h, s, r)
    <2>1. s = [At(map) EXCEPT !.it = WithDownloaders(@)]
        BY <1>1 DEF With
    <2> QED BY <1>1, <2>1 DEF NewDownloaders
<1>3. w \in ItemType /\ Held(w) = Held(item[map]) /\ w.rs = item[map].rs /\ w.sized = item[map].sized
    BY ZenonT(60), <1>1, WithDownloadersType DEF WithDownloaders, ItemType, Held
<1> HIDE DEF w
<1>4. s \in States /\ s.it = w /\ s.dk = disk
    BY <1>1, <1>3, WithType
<1> HIDE DEF s
<1>5. Fits(s) /\ s.it.opens = item[map].opens /\ s.it.fd = item[map].fd
    BY <1>1, <1>3, <1>4 DEF Fits, Held
<1>6. r.pc = "wait" /\ Placed(r, s) /\ Using(r) /\ Using(handler[h])
    BY <1>1 DEF HandlerType, Placed, Using
<1> HIDE DEF r
<1>7. Turns(s) /\ handler' = [handler EXCEPT ![h] = r]
    BY <1>1, <1>2, <1>4, BecomesTurns DEF On, Handler, CountInv
<1> QED BY <1>1, <1>4, <1>5, <1>6, <1>7, KeptUses DEF Reading

\* Download fails.
LEMMA KeptReadFails ==
    ASSUME CountInv, Kept, Typed', NEW h \in Handlers, ReadFails(h)
    PROVE  Kept'
<1> DEFINE s == [At(map) EXCEPT !.it.pending = item[map].pending - 1]
<1>1. /\ handler[h].pc \in {"wait", "ensure"} /\ map \in Items /\ handler[h].i = map
      /\ handler[h] \in HandlerType
      /\ Fits(At(map)) /\ At(map) \in States /\ At(map).it = item[map] /\ At(map).dk = disk
      /\ item[map] \in ItemType /\ handler[h].opened \in {NoItem, map} /\ handler[h].res # "hole"
    BY KeptAt DEF ReadFails, HandlerOK, Placed
<1>2. PICK r : On(h, s, r) /\ r \in {Over(h, "err"), [handler[h] EXCEPT !.pc = "read"]}
    <2>1. s = [At(map) EXCEPT !.it.pending = @ - 1]
        BY <1>1
    <2> QED BY <1>1, <2>1 DEF ReadFails
<1>3. s \in States /\ Fits(s) /\ s.dk = disk /\ s.it.opens = item[map].opens /\ s.it.fd = item[map].fd
    <2>1. item[map].pending - 1 \in Int
        BY <1>1 DEF ItemType
    <2> QED BY <1>1, <2>1, FitsPending
<1> HIDE DEF s
<1>4. r.pc \in {"reading", "read"} /\ Placed(r, s) /\ Using(r) /\ Using(handler[h])
    <2>1. CASE r = Over(h, "err")
        BY <1>1, <2>1 DEF HandlerType, Placed, Using, Over
    <2>2. CASE r = [handler[h] EXCEPT !.pc = "read"]
        BY <1>1, <2>2 DEF HandlerType, Placed, Using
    <2> QED BY <1>2, <2>1, <2>2
<1>5. Turns(s) /\ handler' = [handler EXCEPT ![h] = r]
    BY <1>1, <1>2, <1>3, BecomesTurns DEF On, Handler, CountInv
<1> QED BY <1>1, <1>3, <1>4, <1>5, KeptUses DEF Reading

\* A read copies a block that is in the file, if the item still has one.
LEMMA KeptReadEnd ==
    ASSUME CountInv, Kept, Typed', NEW h \in Handlers, ReadEnd(h)
    PROVE  Kept'
<1> DEFINE c == IF item[map].o = "ok" /\ ~item[map].sized THEN CheckObject(At(map), "ok") ELSE At(map)
           s == [c EXCEPT !.it.pending = c.it.pending - 1]
           got == IF s.it.fd = NoFile THEN "err" ELSE disk.data[s.it.fd][handler[h].b]
           r == Over(h, got)
<1>1. /\ handler[h].pc = "copy" /\ map \in Items /\ handler[h].i = map /\ handler[h] \in HandlerType
      /\ Fits(At(map)) /\ At(map) \in States /\ At(map).it = item[map] /\ At(map).dk = disk
      /\ item[map] \in ItemType /\ handler[h].opened \in {NoItem, map}
      /\ item[map].fd # NoFile => handler[h].b \in Backed(disk)
    BY KeptAt DEF ReadEnd, HandlerOK, Placed
<1>2. c \in States /\ Fits(c) /\ Held(c.it) = Held(item[map]) /\ Backed(disk) \subseteq Backed(c.dk)
    BY <1>1, FitsCheckObject DEF CountInv, Sizes
<1>3. s \in States /\ Fits(s) /\ s.dk = c.dk /\ s.it.opens = item[map].opens /\ s.it.fd = item[map].fd
    <2>1. c.it.pending - 1 \in Int
        BY <1>2 DEF States, ItemType
    <2> HIDE DEF c
    <2> QED BY <1>2, <2>1, FitsPending DEF Held
<1>4. On(h, s, r)
    <2>1. s.it.fd = c.it.fd
        BY <1>2, <1>3 DEF Held
    <2>2. r = Over(h, IF c.it.fd = NoFile THEN "err" ELSE disk.data[c.it.fd][handler[h].b])
        BY <2>1
    <2> HIDE DEF r
    <2>3. On(h, [c EXCEPT !.it.pending = @ - 1], r)
        BY <1>1, <2>2 DEF ReadEnd
    <2> QED BY <1>2, <2>3
<1>5. got # "hole"
    <2>1. item[map].fd # NoFile => item[map].fd = disk.path
        BY <1>1 DEF Fits
    <2> HIDE DEF s
    <2> QED BY <1>1, <1>3, <2>1 DEF Backed
<1> HIDE DEF s, c, got
<1>6. r.pc = "reading" /\ Placed(r, s) /\ Using(r) /\ Using(handler[h])
    BY <1>1, <1>5 DEF HandlerType, Placed, Using, Over
<1> HIDE DEF r
<1>7. Turns(s) /\ handler' = [handler EXCEPT ![h] = r]
    BY <1>1, <1>3, <1>4, BecomesTurns DEF On, Handler, CountInv
<1> QED BY <1>1, <1>2, <1>3, <1>6, <1>7, KeptUses DEF Reading

\* Steps that touch neither the item nor the disk.
LEMMA TurnsSame ==
    ASSUME CountInv, map \in Items, UNCHANGED <<item, map, disk, purger, cleaner>>
    PROVE  Turns(At(map))
<1>1. At(map).it = item[map] /\ At(map).dk = disk
    BY DEF At
<1>2. item' = [item EXCEPT ![map] = item[map]]
    BY DEF CountInv, Typed
<1>3. Backed(disk') = Backed(disk)
    BY DEF Backed
<1> QED BY <1>1, <1>2, <1>3 DEF Turns

\* The steps in which a handler that uses the item waits or looks the name up again.
LEMMA KeptWaits ==
    ASSUME CountInv, Kept, Typed', NEW h \in Handlers,
           \/ Ensure(h) \/ Downloaded(h) \/ Put(h) \/ CheckOld(h) \/ PutBack(h)
           \/ LookupToSize(h) \/ LookupToRead(h)
    PROVE  Kept'
<1>1. /\ handler[h].pc \in {"ensure", "wait", "closed", "put", "check", "putBack", "opened", "reading"}
      /\ handler[h].pc # "idle"
    BY DEF Ensure, Downloaded, Put, CheckOld, PutBack, LookupToSize, LookupToRead
<1>2. /\ map \in Items /\ Fits(At(map)) /\ At(map) \in States
      /\ At(map).it = item[map] /\ At(map).dk = disk /\ item[map] \in ItemType
      /\ handler[h] \in HandlerType /\ Placed(handler[h], At(map))
      /\ handler[h].pc \notin {"opened", "reading"} => handler[h].i = map
    BY <1>1, KeptAt DEF HandlerOK
<1>3. handler[h].pc \notin {"check", "putBack", "closed"} /\ handler[h].opened \in {NoItem, map}
    BY <1>2 DEF Placed
<1>4. map # NoItem
    BY <1>2, NoItemIsNone
<1>5. ASSUME NEW r, Using(r), Placed(r, At(map)), r.pc # "recreate",
             r.pc \in Reading => handler[h].pc \in Reading, Handler(h, r),
             UNCHANGED <<item, map, disk>>
      PROVE  Kept'
    <2>1. Turns(At(map)) /\ handler' = [handler EXCEPT ![h] = r]
        BY <1>2, <1>5, TurnsSame DEF Handler
    <2>2. Using(handler[h])
        BY <1>1 DEF Using
    <2> QED BY <1>2, <1>5, <2>1, <2>2, KeptUses
<1>6. CASE Ensure(h)
    <2>1. PICK pc \in {"new", "wait"} : Handler(h, [handler[h] EXCEPT !.pc = pc])
        BY <1>6 DEF Ensure
    <2> DEFINE r == [handler[h] EXCEPT !.pc = pc]
    <2>2. Placed(r, At(map)) /\ Using(r) /\ r.pc = pc
        BY <1>2 DEF HandlerType, Placed, Using
    <2>3. UNCHANGED <<item, map, disk>> /\ handler[h].pc \in Reading /\ Handler(h, r)
        BY <1>6, <2>1 DEF Ensure, Reading
    <2> HIDE DEF r
    <2> QED BY <1>5, <2>2, <2>3
<1>7. CASE Downloaded(h)
    <2> DEFINE r == [handler[h] EXCEPT !.pc = "copy"]
    <2>1. /\ handler[h].b \in item[map].rs \/ ~item[map].sized
          /\ UNCHANGED <<item, map, disk>> /\ handler[h].pc \in Reading /\ Handler(h, r)
        BY <1>2, <1>3, <1>7 DEF Downloaded, Reading
    <2>2. item[map].fd # NoFile => handler[h].b \in Backed(disk)
        BY <1>2, <2>1 DEF Fits
    <2>3. Placed(r, At(map)) /\ Using(r) /\ r.pc = "copy"
        BY <1>2, <2>2 DEF HandlerType, Placed, Using
    <2> HIDE DEF r
    <2> QED BY <1>5, <2>1, <2>3
<1>8. CASE Put(h)
    <2> DEFINE r == [handler[h] EXCEPT !.pc = "finish"]
    <2>1. Handler(h, r) /\ UNCHANGED <<item, map, disk>> /\ handler[h].pc = "put"
        BY <1>2, <1>8 DEF Put
    <2>2. Placed(r, At(map)) /\ Using(r) /\ r.pc = "finish"
        BY <1>2, <2>1 DEF HandlerType, Placed, Using
    <2> HIDE DEF r
    <2> QED BY <1>5, <2>1, <2>2 DEF Reading
<1>9. CASE CheckOld(h) \/ PutBack(h)
    BY <1>3, <1>9 DEF CheckOld, PutBack
<1>10. CASE LookupToSize(h)
    <2> DEFINE r == [handler[h] EXCEPT !.pc = "size", !.i = map]
    <2>1. Handler(h, r) /\ UNCHANGED <<item, map, disk>>
        BY <1>4, <1>10 DEF LookupToSize, Get
    <2>2. Placed(r, At(map)) /\ Using(r) /\ r.pc = "size"
        BY <1>2 DEF HandlerType, Placed, Using
    <2> HIDE DEF r
    <2> QED BY <1>5, <2>1, <2>2 DEF Reading
<1>11. CASE LookupToRead(h)
    <2>1. PICK b \in Blocks :
              /\ Handler(h, [handler[h] EXCEPT !.pc = "read", !.i = map, !.b = b, !.res = "none"])
              /\ UNCHANGED <<item, map, disk>>
        BY <1>4, <1>11 DEF LookupToRead, Get
    <2> DEFINE r == [handler[h] EXCEPT !.pc = "read", !.i = map, !.b = b, !.res = "none"]
    <2>2. Placed(r, At(map)) /\ Using(r) /\ r.pc = "read"
        BY <1>2 DEF HandlerType, Placed, Using
    <2>3. Handler(h, r)
        BY <2>1
    <2> HIDE DEF r
    <2> QED BY <1>5, <2>1, <2>2, <2>3 DEF Reading
<1> QED BY <1>6, <1>7, <1>8, <1>9, <1>10, <1>11

\* A response is over: the item is closed, or it is not.
LEMMA KeptLeaves ==
    ASSUME CountInv, Kept, Typed', NEW h \in Handlers, Leave(h) \/ Close(h)
    PROVE  Kept'
<1>1. handler[h].pc = "reading"
    BY DEF Leave, Close
<1>2. /\ map \in Items /\ Fits(At(map)) /\ At(map) \in States
      /\ At(map).it = item[map] /\ At(map).dk = disk /\ item[map] \in ItemType
      /\ HandlerOK(handler[h]) /\ handler[h].opened \in {NoItem, map}
    BY <1>1, KeptAt DEF Placed
<1>3. /\ Idle.pc = "idle" /\ Bit(Using(Idle)) = 0 /\ Bit(Using(handler[h])) = 1
      /\ \A s : Placed(Idle, s)
    BY <1>1 DEF Idle, Placed, Using, Bit
<1>4. item[map].opens \in Int /\ item[map].opens >= 0 /\ item[map].opens # 0
    BY <1>1, <1>2, UsersCounted DEF Using
<1>5. CASE Leave(h)
    <2>1. Turns(At(map)) /\ handler' = [handler EXCEPT ![h] = Idle] /\ ~CanClose
        BY <1>2, <1>5, TurnsSame DEF Leave, Handler
    <2>2. item[map].opens >= item[map].opens + Bit(Using(Idle)) - Bit(Using(handler[h]))
        BY <1>3, <1>4
    <2>3. Undisturbed(h, At(map))
        BY <1>2 DEF Undisturbed
    <2> QED BY <1>2, <1>3, <2>1, <2>2, <2>3, KeptHandler DEF Reading
<1>6. CASE Close(h)
    <2> DEFINE s == [At(map) EXCEPT !.it.opens = @ - 1, !.it.grace = item[map].opens = 1]
    <2>1. handler[h].opened = map
        <3>1. handler[h].opened \in Items
            BY <1>1, <1>2, <1>6 DEF Close, HandlerOK
        <3> QED BY <1>2, <3>1, NoItemIsNone
    <2>2. /\ Becomes(map, s) /\ handler' = [handler EXCEPT ![h] = Idle]
          /\ UNCHANGED <<map, purger, cleaner>>
        BY <1>6, <2>1 DEF Close, Handler
    <2>3. s \in States /\ s.dk = disk /\ s.it.opens = item[map].opens - 1 /\ Fits(s) /\ s.it.fd = item[map].fd
        <3>1. PICK n \in Int : n = item[map].opens - 1
            BY <1>4
        <3> DEFINE it == [item[map] EXCEPT !.opens = n, !.grace = item[map].opens = 1]
        <3>2. /\ it \in ItemType /\ it.opens = n /\ it.grace = (item[map].opens = 1)
              /\ it.fd = item[map].fd
              /\ it.rs = item[map].rs /\ it.sized = item[map].sized
            BY <1>2 DEF ItemType
        <3>3. s = With(At(map), it)
            BY <1>2, <3>1 DEF With
        <3> HIDE DEF it, s
        <3>4. s \in States /\ s.it = it /\ s.dk = disk
            BY <1>2, <3>2, <3>3, WithType
        <3>5. item[map].opens # 1 => n # 0
            BY <1>4, <3>1
        <3>6. Fits(s)
            BY <1>2, <3>2, <3>4, <3>5 DEF Fits
        <3> QED BY <3>1, <3>2, <3>4, <3>6
    <2> HIDE DEF s
    <2>4. Turns(s)
        BY <1>2, <2>2, <2>3, BecomesTurns DEF CountInv
    <2>5. /\ s.it.opens = item[map].opens + Bit(Using(Idle)) - Bit(Using(handler[h]))
          /\ s.it.opens >= item[map].opens + Bit(Using(Idle)) - Bit(Using(handler[h]))
        BY <1>3, <1>4, <2>3
    <2>6. Undisturbed(h, s)
        BY <2>3 DEF Undisturbed
    <2> QED BY <1>3, <2>2, <2>3, <2>4, <2>5, <2>6, KeptHandler DEF Reading
<1> QED BY <1>5, <1>6

\* A new request looks the name up; a new item is what is on disk.
LEMMA KeptLookupToOpen ==
    ASSUME CountInv, Kept, Typed', NEW h \in Handlers, LookupToOpen(h)
    PROVE  Kept'
<1>1. PICK i \in Items, head \in Heads :
          Get(i) /\ Handler(h, [Idle EXCEPT !.pc = "open", !.i = i, !.head = head])
    BY DEF LookupToOpen
<1> DEFINE r == [Idle EXCEPT !.pc = "open", !.i = i, !.head = head]
<1>2. r.pc = "open" /\ r.i = i /\ r.opened = NoItem /\ r.res = "none" /\ Bit(Using(r)) = 0
    BY DEF Idle, Using, Bit
<1>3. /\ handler[h].pc = "idle" /\ handler' = [handler EXCEPT ![h] = r] /\ UNCHANGED <<purger, cleaner>>
    BY <1>1 DEF LookupToOpen, Handler
<1> HIDE DEF r
<1>4. CASE map # NoItem
    <2>1. i = map /\ UNCHANGED <<item, map, disk>>
        BY <1>1, <1>4 DEF Get
    <2>2. Turns(At(map)) /\ At(map) \in States /\ At(map).it = item[map] /\ At(map).dk = disk
        BY <1>3, <2>1, TurnsSame, AtType DEF CountInv
    <2>3. Fits(At(map)) /\ Placed(r, At(map)) /\ Undisturbed(h, At(map))
        BY <1>2, <1>4, <2>1, <2>2 DEF Kept, Placed, Undisturbed
    <2>4. item[map].opens \in Int /\ item[map].opens >= 0
        BY <2>1, UsersCounted
    <2>5. Bit(Using(handler[h])) = 0
        BY <1>3 DEF Using, Bit
    <2>6. /\ item[map].opens = item[map].opens + Bit(Using(r)) - Bit(Using(handler[h]))
          /\ item[map].opens >= item[map].opens + Bit(Using(r)) - Bit(Using(handler[h]))
        BY <1>2, <2>4, <2>5
    <2> QED BY <1>2, <1>3, <2>2, <2>3, <2>6, KeptHandler DEF Reading
<1>5. CASE map = NoItem
    <2> DEFINE s == NewItem(disk)
    <2>1. map' = i /\ Becomes(i, s) /\ i # NoItem
        BY <1>1, <1>5, NoItemIsNone DEF Get
    <2>2. s \in States /\ s.it.opens = 0 /\ disk \in DiskType
        BY NewItemType DEF CountInv, Typed
    <2>3. Fits(s) /\ s.it.fd = NoFile
        <3> DEFINE both == disk.path # NoFile /\ disk.meta.exists
                   rs == IF both THEN disk.meta.rs ELSE {}
                   it == [Fresh EXCEPT !.rs = rs, !.sized = disk.path # NoFile]
        <3>1. s.it = it /\ s.dk = IF both THEN disk ELSE [disk EXCEPT !.path = NoFile, !.meta = NoMeta]
            BY DEF NewItem
        <3>2. it.fd = NoFile /\ it.rs = rs /\ it.sized = (disk.path # NoFile)
            BY DEF Fresh
        <3> HIDE DEF it, s
        <3>3. CASE both
            BY <3>1, <3>2, <3>3 DEF Fits, Kept
        <3>4. CASE ~both
            <4>1. s.dk.path = NoFile /\ s.dk.meta.rs = {}
                BY <2>2, <3>1, <3>4 DEF DiskType, NoMeta
            <4> QED BY <3>1, <3>2, <3>4, <4>1 DEF Fits
        <3> QED BY <3>1, <3>2, <3>3, <3>4
    <2> HIDE DEF s
    <2> DEFINE d == [n \in Inodes |->
                        IF n = s.dk.path \/ n = s.it.fd \/ \E j \in Items \ {i} : item[j].fd = n
                        THEN s.dk.data[n] ELSE Holes]
    <2>4. item' = [item EXCEPT ![i] = s.it] /\ disk' = [s.dk EXCEPT !.data = d]
        BY <2>1 DEF Becomes
    <2>5. s.dk \in DiskType
        BY <2>2 DEF States
    <2>6. s.dk.path # NoFile => d[s.dk.path] = s.dk.data[s.dk.path]
        BY <2>5 DEF DiskType
    <2> HIDE DEF d
    <2>7. disk'.path = s.dk.path /\ disk'.meta = s.dk.meta /\ disk'.data = d
        BY <2>4, <2>5 DEF DiskType
    <2>8. Backed(disk') = Backed(s.dk)
        BY <2>6, <2>7 DEF Backed
    <2>9. item'[i] = s.it /\ \A j \in Items : j # i => item'[j] = Fresh
        <3>1. \A j \in Items : item[j] = Fresh
            BY <1>5, NoItemIsNone DEF Kept
        <3>2. item \in [Items -> ItemType]
            BY DEF CountInv, Typed
        <3> QED BY <2>4, <3>1, <3>2
    <2>10. At(map)'.it = s.it /\ At(map)'.dk = disk'
        BY <2>1, <2>9 DEF At
    <2>11. Fits(At(map))' /\ disk'.meta.rs \subseteq Backed(disk')
        BY <2>3, <2>7, <2>8, <2>10 DEF Fits
    <2>12. ASSUME NEW g \in Handlers
           PROVE  /\ handler'[g].pc \in {"idle", "open"} /\ handler'[g].i \in {NoItem, i}
                  /\ handler'[g].opened = NoItem /\ handler'[g].res # "hole"
                  /\ handler'[g].pc = "open" => handler'[g].res = "none"
        <3>1. CASE g = h
            BY <1>2, <1>3, <3>1 DEF CountInv, Typed
        <3>2. CASE g # h
            <4>1. handler'[g] = handler[g]
                BY <1>3, <3>2 DEF CountInv, Typed
            <4>2. handler[g].pc = "idle" /\ Placed(handler[g], At(map))
                BY <1>5 DEF Kept
            <4> QED BY <1>5, <4>1, <4>2 DEF Placed
        <3> QED BY <3>1, <3>2
    <2>13. Users' = {}
        BY <2>12 DEF Users, Using
    <2>14. (Cardinality(Users) <= item[map].opens /\ (CanClose => Cardinality(Users) = item[map].opens))'
        <3>1. Cardinality(Users') = 0
            BY <2>13, FS_EmptySet
        <3> QED BY <2>1, <2>2, <2>9, <3>1
    <2>15. \A g \in Handlers : Placed(handler[g], At(map))'
        BY <2>1, <2>12 DEF Placed
    <2>16. purger'.pc = "idle" /\ cleaner'.pc = "idle"
        BY <1>3 DEF Kept
    <2>17. \A g \in Handlers : /\ handler'[g].pc # "recreate"
                               /\ handler'[g].pc # "idle" => map' # NoItem
        BY <2>1, <2>12
    <2>18. \A j \in Items : j # map' => item'[j] = Fresh
        BY <2>1, <2>9
    <2> HIDE DEF Placed, Fits, Users, Calm
    <2> QED BY <2>11, <2>14, <2>15, <2>16, <2>17, <2>18 DEF Kept
<1> QED BY <1>4, <1>5

-------------------------------------------------------------------------------
(* The other steps *)

\* The grace period ends: nobody uses the item, so nobody waits for its downloaders.
LEMMA KeptGraceFires ==
    ASSUME CountInv, Kept, Typed', NEW i \in Items, GraceFires(i)
    PROVE  Kept'
<1> DEFINE x == item[map]
           s == [At(map) EXCEPT !.it.grace = FALSE, !.it.closing = TRUE, !.it.dls = "nil",
                                !.it.sized = @ \/ x.fd # NoFile]
<1>1. i = map /\ x \in ItemType
    <2>1. i # map => item[i] = Fresh
        BY DEF Kept
    <2> QED BY <2>1 DEF GraceFires, Fresh, CountInv, Typed
<1>2. /\ Fits(At(map)) /\ At(map) \in States /\ At(map).it = x /\ At(map).dk = disk
    BY <1>1, AtType, NoItemIsNone DEF Kept, CountInv
<1>3. /\ x.opens = 0 /\ Becomes(map, s) /\ handler' = ClosedUnder(map)
      /\ UNCHANGED <<map, purger, cleaner>>
    BY <1>1 DEF GraceFires, Others
<1>4. handler' = handler
    <2>1. \A h \in Handlers : ~Using(handler[h])
        BY <1>1, <1>3, UsersCounted
    <2>2. \A h \in Handlers : handler[h].pc # "wait"
        BY <2>1 DEF Using
    <2>3. ClosedUnder(map) = handler
        BY <2>2 DEF ClosedUnder, CountInv, Typed
    <2> QED BY <1>3, <2>3
<1>5. s \in States /\ s.dk = disk /\ s.it.opens = x.opens /\ s.it.fd = x.fd /\ Fits(s)
    <2>1. PICK b \in BOOLEAN : b = (x.sized \/ x.fd # NoFile)
        OBVIOUS
    <2> DEFINE it == [x EXCEPT !.grace = FALSE, !.closing = TRUE, !.dls = "nil", !.sized = b]
    <2>2. /\ it \in ItemType /\ it.opens = x.opens /\ it.fd = x.fd /\ it.rs = x.rs
          /\ it.sized = b /\ it.closing = TRUE
        BY <1>1 DEF ItemType, Sizes
    <2>3. s = With(At(map), it)
        BY <1>2, <2>1 DEF With
    <2> HIDE DEF it, s
    <2>4. s \in States /\ s.it = it /\ s.dk = disk
        BY <1>2, <2>2, <2>3, WithType
    <2>5. disk.path # NoFile => b
        BY <1>2, <2>1 DEF Fits
    <2>6. Fits(s)
        BY <1>2, <2>2, <2>4, <2>5 DEF Fits
    <2> QED BY <2>2, <2>4, <2>6
<1> HIDE DEF s
<1>6. Turns(s)
    BY <1>1, <1>3, <1>5, BecomesTurns DEF CountInv
<1> QED BY <1>4, <1>5, <1>6, KeptItem

\* The file is closed, and the metadata saved.
LEMMA KeptActualClose ==
    ASSUME CountInv, Kept, Typed', NEW i \in Items, ActualClose(i)
    PROVE  Kept'
<1> DEFINE x == item[map]
           s == [At(map) EXCEPT !.it.closing = FALSE, !.it.fd = NoFile, !.dk.meta = Meta(x.rs)]
<1>1. i = map /\ x \in ItemType
    <2>1. i # map => item[i] = Fresh
        BY DEF Kept
    <2> QED BY <2>1 DEF ActualClose, Fresh, CountInv, Typed
<1>2. /\ Fits(At(map)) /\ At(map) \in States /\ At(map).it = x /\ At(map).dk = disk
      /\ disk \in DiskType
    BY <1>1, AtType, NoItemIsNone DEF Kept, CountInv, Typed
<1>3. Becomes(map, s) /\ handler' = handler /\ UNCHANGED <<map, purger, cleaner>>
    BY <1>1 DEF ActualClose, Others
<1> DEFINE it == [x EXCEPT !.closing = FALSE, !.fd = NoFile]
           dk == [disk EXCEPT !.meta = Meta(x.rs)]
<1>4. /\ it \in ItemType /\ it.opens = x.opens /\ it.fd = NoFile /\ it.rs = x.rs /\ it.sized = x.sized
    BY <1>1 DEF ItemType
<1>5. dk \in DiskType /\ dk.path = disk.path /\ dk.data = disk.data /\ dk.meta.rs = x.rs
    <2>1. x.rs \subseteq Blocks
        BY <1>1 DEF ItemType
    <2>2. Meta(x.rs) \in MetaType /\ Meta(x.rs).rs = x.rs
        BY <2>1 DEF Meta, MetaType
    <2> QED BY <1>2, <2>2 DEF DiskType
<1>6. s = [it |-> it, dk |-> dk]
    <2>1. PICK y \in ItemType, d \in DiskType : At(map) = [it |-> y, dk |-> d] /\ y = x /\ d = disk
        BY <1>1, <1>2 DEF At
    <2>2. PICK m \in [exists : BOOLEAN, rs : SUBSET Blocks] : m = Meta(x.rs)
        BY <1>1 DEF Meta, ItemType
    <2>3. s = [[it |-> y, dk |-> d] EXCEPT !.it.closing = FALSE, !.it.fd = NoFile, !.dk.meta = m]
        BY <2>1, <2>2
    <2>4. it = [y EXCEPT !.closing = FALSE, !.fd = NoFile] /\ dk = [d EXCEPT !.meta = m]
        BY <2>1, <2>2
    <2> HIDE DEF it, dk, s
    <2> QED BY <2>3, <2>4
<1> HIDE DEF it, dk, s
<1>7. Backed(dk) = Backed(disk)
    BY <1>5 DEF Backed
<1>8. s \in States /\ Fits(s)
    BY <1>2, <1>4, <1>5, <1>6, <1>7 DEF States, Fits
<1>9. Turns(s)
    BY <1>1, <1>3, <1>8, BecomesTurns DEF CountInv
<1> QED BY <1>3, <1>4, <1>6, <1>8, <1>9, KeptItem

\* A block is stored and recorded.
LEMMA KeptFetch ==
    ASSUME CountInv, Kept, Typed', NEW i \in Items, NEW b \in Blocks, Fetch(i, b)
    PROVE  Kept'
<1> DEFINE x == item[map]
<1>1. i = map /\ x \in ItemType /\ x.fd # NoFile
    <2>1. i # map => item[i] = Fresh
        BY DEF Kept
    <2> QED BY <2>1 DEF Fetch, Fresh, CountInv, Typed
<1>2. /\ Fits(At(map)) /\ At(map).it = x /\ At(map).dk = disk /\ disk \in DiskType
    BY <1>1, AtType, NoItemIsNone DEF Kept, CountInv, Typed
<1> DEFINE it == [x EXCEPT !.rs = @ \cup {b}]
           dk == [disk EXCEPT !.data[x.fd][b] = "data"]
<1>3. /\ disk' = dk /\ item' = [item EXCEPT ![map] = it] /\ handler' = handler
      /\ UNCHANGED <<map, purger, cleaner>>
    BY <1>1 DEF Fetch, Others
<1>4. /\ it \in ItemType /\ it.rs = x.rs \cup {b} /\ it.opens = x.opens /\ it.fd = x.fd
      /\ it.sized = x.sized /\ it.grace = x.grace /\ it.closing = x.closing
    <2>1. PICK rs \in SUBSET Blocks : rs = x.rs \cup {b}
        BY <1>1 DEF ItemType
    <2>2. it = [x EXCEPT !.rs = rs]
        BY <2>1
    <2> HIDE DEF it
    <2> QED BY <1>1, <2>1, <2>2 DEF ItemType
<1>5. /\ dk.path = disk.path /\ dk.meta = disk.meta
      /\ \A a \in Blocks : dk.data[x.fd][a] = IF a = b THEN "data" ELSE disk.data[x.fd][a]
    BY <1>1, <1>2 DEF DiskType, DataType, ItemType
<1>6. dk \in DiskType
    BY <1>3 DEF Typed
<1> HIDE DEF it, dk
<1> DEFINE s == [it |-> it, dk |-> dk]
<1>7. disk.path = x.fd
    BY <1>1, <1>2 DEF Fits
<1>8. Backed(disk) \subseteq Backed(dk) /\ b \in Backed(dk)
    BY <1>1, <1>5, <1>7 DEF Backed
<1>9. Fits(s) /\ s \in States
    BY <1>1, <1>2, <1>4, <1>5, <1>6, <1>8 DEF Fits, States
<1>10. Turns(s)
    BY <1>1, <1>3 DEF Turns
<1> QED BY <1>1, <1>3, <1>4, <1>8, <1>9, <1>10, KeptItem

\* Without purges and evictions the purger and the cleaner do nothing.
LEMMA KeptIdle ==
    ASSUME MaxPurges = 0, ~CanClean, CountInv, Kept
    PROVE  ~(PurgeMap \/ PurgeItem \/ PurgeMeta \/ CleanerStep)
<1>1. ~PurgeMap
    <2>1. purges \in 0 .. 0
        BY DEF CountInv, Typed, RestTyped
    <2> QED BY <2>1 DEF PurgeMap
<1>2. ~PurgeItem /\ ~PurgeMeta
    BY DEF PurgeItem, PurgeMeta, Kept
<1>3. ~CleanerStep
    BY DEF CleanerStep, CleanerTakes, CleanerRetries, RemoveNotInUse, RemoveEnds, CleanerSkips,
           ResetBegin, ResetCompletes, ResetFails, Kept
<1> QED BY <1>1, <1>2, <1>3

\* No item in the map and nobody there: only the disk counts
Empty ==
    /\ map = NoItem /\ purger.pc = "idle" /\ cleaner.pc = "idle"
    /\ \A i \in Items : item[i] = Fresh
    /\ \A h \in Handlers : handler[h] = Idle
    /\ disk.meta.rs \subseteq Backed(disk)

\* So it is when the program starts.
LEMMA KeptEmpty == Empty => Kept
<1> SUFFICES ASSUME Empty PROVE Kept
    OBVIOUS
<1>1. ASSUME NEW h \in Handlers
      PROVE  Placed(handler[h], At(map)) /\ handler[h].pc = "idle"
    <2>1. handler[h] = Idle
        BY DEF Empty
    <2>2. /\ handler[h].pc = "idle" /\ handler[h].i = NoItem /\ handler[h].opened = NoItem
          /\ handler[h].res = "none"
        BY <2>1 DEF Idle
    <2> QED BY <2>2 DEF Placed
<1> HIDE DEF Placed, Fits, Users, Calm
<1> QED BY <1>1 DEF Empty, Kept

\* A restart finds what is on disk.
LEMMA KeptRestart ==
    ASSUME CountInv, Kept, Restart
    PROVE  Kept'
<1> DEFINE d == [n \in Inodes |-> IF n = disk.path THEN disk.data[n] ELSE Holes]
<1>1. disk \in DiskType /\ disk' = [disk EXCEPT !.data = d]
    BY DEF Restart, CountInv, Typed
<1>2. disk.path # NoFile => d[disk.path] = disk.data[disk.path]
    BY <1>1 DEF DiskType
<1> HIDE DEF d
<1>3. disk'.path = disk.path /\ disk'.meta = disk.meta /\ disk'.data = d
    BY <1>1 DEF DiskType
<1>4. disk'.meta.rs \subseteq Backed(disk')
    BY <1>2, <1>3 DEF Backed, Kept
<1>5. map' = NoItem /\ cleaner'.pc = "idle" /\ \A i \in Items : item'[i] = Fresh
    BY DEF Restart
<1>6. \A h \in Handlers : handler'[h] = Idle
    BY DEF Restart
<1>7. purger'.pc = "idle"
    BY DEF Restart, CountInv, Typed, RestTyped
<1>8. Empty'
    BY <1>4, <1>5, <1>6, <1>7 DEF Empty
<1> QED BY <1>8, KeptEmpty, PTL

\* So Rs and the metadata stay backed, in every state.
LEMMA KeptInvariant ==
    ASSUME MaxPurges = 0, ~CanClean
    PROVE  Spec => [](CountInv /\ Kept)
<1>1. Init => Kept
    <2> SUFFICES ASSUME Init PROVE Kept
        OBVIOUS
    <2>1. disk.meta.rs = {}
        BY DEF Init, NoMeta
    <2> QED BY <2>1, KeptEmpty DEF Init, Empty
<1>2. CountInv /\ Kept /\ [Next]_vars => Kept'
    <2> SUFFICES ASSUME CountInv, Kept, [Next]_vars PROVE Kept'
        OBVIOUS
    <2>1. Typed'
        BY CountNext DEF CountInv
    <2>2. ASSUME NEW h \in Handlers, \/ HandlerStep(h) \/ LookupToOpen(h) \/ LookupToRead(h)
                                    \/ Leave(h) \/ Close(h)
          PROVE  Kept'
        BY <2>1, <2>2, KeptOpenAgain, KeptOpenFirst, KeptOpenVanished, KeptRecreate, KeptOpenFails,
           KeptFinish, KeptGetSize, KeptReadBegin, KeptNewDownloaders, KeptReadFails, KeptReadEnd,
           KeptWaits, KeptLeaves, KeptLookupToOpen DEF HandlerStep
    <2>3. ASSUME NEW i \in Items, GraceFires(i) \/ ActualClose(i) \/ \E b \in Blocks : Fetch(i, b)
          PROVE  Kept'
        BY <2>1, <2>3, KeptGraceFires, KeptActualClose, KeptFetch
    <2>4. CASE UNCHANGED vars
        BY <2>4 DEF vars, Kept, Placed, Fits, Calm, Users, At, Backed
    <2> QED BY <2>2, <2>3, <2>4, KeptIdle, KeptRestart DEF Next
<1> QED BY <1>1, <1>2, CountInit, CountNext, PTL DEF Spec

-------------------------------------------------------------------------------
(* The theorems on the disk *)

\* Rs claims only what is in the file the item has open: for handles that do not close the
\* item, as those of the program, whatever the purger and the cleaner do; and for those that
\* do, without purges and evictions.  With both, a file that vanishes in the grace period is
\* made anew with the old ranges.
THEOREM RsCorrect ==
    ASSUME ~CanClose \/ (MaxPurges = 0 /\ ~CanClean)
    PROVE  Spec => []RsIsStored
<1>1. CASE ~CanClose
    <2>1. StoredInv => RsIsStored
        BY DEF StoredInv
    <2> QED BY <1>1, <2>1, StoredInvariant, PTL
<1>2. CASE MaxPurges = 0 /\ ~CanClean
    <2>1. CountInv /\ Kept => RsIsStored
        <3> SUFFICES ASSUME CountInv, Kept, NEW i \in Items, item[i].fd # NoFile, NEW b \in item[i].rs
                     PROVE  disk.data[item[i].fd][b] # "hole"
            BY DEF RsIsStored
        <3>1. i = map /\ Fits(At(map)) /\ At(map).it = item[i] /\ At(map).dk = disk
            BY NoItemIsNone DEF Kept, Fresh, At
        <3> QED BY <3>1 DEF Fits, Backed
    <2> QED BY <1>2, <2>1, KeptInvariant, PTL
<1> QED BY <1>1, <1>2

\* Whenever the process stops, the metadata on disk claims only what is in the cache file.
THEOREM MetaCorrect ==
    ASSUME ~CanClose \/ (MaxPurges = 0 /\ ~CanClean)
    PROVE  Spec => []MetaIsBacked
<1>1. CASE ~CanClose
    <2>1. StoredInv => MetaIsBacked
        BY DEF StoredInv, MetaIsBacked
    <2> QED BY <1>1, <2>1, StoredInvariant, PTL
<1>2. CASE MaxPurges = 0 /\ ~CanClean
    <2>1. Kept => MetaIsBacked
        BY DEF Kept, MetaIsBacked, Backed
    <2> QED BY <1>2, <2>1, KeptInvariant, PTL
<1> QED BY <1>1, <1>2

\* A read never returns a hole of the sparse file, unless files are removed under it.
THEOREM ReadsCorrect ==
    ASSUME MaxPurges = 0, ~CanClean
    PROVE  Spec => []ReadsAreFetched
<1>1. Kept => ReadsAreFetched
    BY DEF Kept, Placed, ReadsAreFetched
<1> QED BY <1>1, KeptInvariant, PTL

\* Once everything is closed, the metadata knows what has been fetched: for handles that
\* close the item, and those only.
THEOREM CurrentCorrect ==
    ASSUME MaxPurges = 0, ~CanClean, CanClose
    PROVE  Spec => []MetaIsCurrent
<1>1. CountInv /\ Kept => MetaIsCurrent
    <2> SUFFICES ASSUME CountInv, Kept, map # NoItem, ~item[map].grace, ~item[map].closing,
                        \A h \in Handlers : handler[h].pc = "idle"
                 PROVE  disk.meta.rs = item[map].rs
        BY DEF MetaIsCurrent
    <2>1. Users = {}
        BY DEF Users, Using
    <2>2. item[map].opens = 0
        BY <2>1, FS_EmptySet DEF Kept
    <2>3. Fits(At(map)) /\ At(map).it = item[map] /\ At(map).dk = disk
        BY DEF Kept, At
    <2> QED BY <2>2, <2>3 DEF Fits
<1> QED BY <1>1, KeptInvariant, PTL
==============================================================================
