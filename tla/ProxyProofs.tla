----------------------------- MODULE ProxyProofs -----------------------------
(***************************************************************************)
(* What the proxy keeps true for any number of requests, any versions of   *)
(* the content, any outages, PURGE requests and restarts: types, that      *)
(* nothing fetched before a PURGE is sent after it, and, for content that  *)
(* keeps its size, that no hole is sent and that lengths are right.        *)
(***************************************************************************)
EXTENDS Proxy, Lemmas

(* Types *)

Sizes == 0 .. MaxSize
Objects == Blocks \cup {Unknown, Nil}
Contents == Versions \cup {Hole}

ItemType == [in : BOOLEAN, open : BOOLEAN, o : Objects, dls : Objects,
             rs : SUBSET Blocks, size : Sizes]
FileType == [exists : BOOLEAN, size : Sizes, data : [Blocks -> Contents], meta : SUBSET Blocks]

Places == {"idle", "get", "head", "open", "stale", "openStale", "node", "handle", "body", "wait"}
Statuses == {"none", "200", "304", "416", "500", "stale", "cut"}

RequestType == [pc : Places, at : Nat \ {0}, to : Int, head : Objects, stale : BOOLEAN,
                size : Int, got : SUBSET Contents, status : Statuses, calm : BOOLEAN,
                cached : BOOLEAN, since : Versions \cup {0}, dls : Objects, gone : BOOLEAN]

\* A request that opens has asked for the size, one that looks for the node has one
RequestOK(r) ==
    /\ r.pc = "open" => r.head # Nil
    /\ r.pc = "node" => r.size \in Sizes

\* Places where there is a node
AfterNode == {"handle", "body", "wait"}

Typed ==
    /\ upstream \in [up : BOOLEAN, version : Versions]
    /\ entry \in BOOLEAN /\ node \in Sizes \cup {Nil}
    /\ item \in ItemType /\ file \in FileType
    /\ request \in [Requests -> RequestType]
    /\ \A h \in Requests :
          /\ RequestOK(request[h])
          /\ request[h].pc \in AfterNode => node # Nil
    /\ purger \in [pc : {"idle", "cache"}, version : Versions \cup {0}]

-------------------------------------------------------------------------------
(* Facts about the constants and the functions of the cache *)

\* MaxSize is the greatest of the sizes.
LEMMA MaxSizeType ==
    /\ MaxSize \in Nat \ {0} /\ Blocks = 1 .. MaxSize
    /\ Len(SizeOf) \in Nat \ {0} /\ \A v \in Versions : SizeOf[v] \in Blocks
<1>1. SizeOf \in Seq(Nat \ {0}) /\ SizeOf # <<>> /\ SizeOf \in Seq(Nat)
    BY ProxyAssumption
<1>2. \E n \in {SizeOf[v] : v \in Versions} : \A v \in Versions : SizeOf[v] <= n
    BY <1>1, SequenceMaximum DEF Versions
<1>3. MaxSize \in {SizeOf[v] : v \in Versions} /\ \A v \in Versions : SizeOf[v] <= MaxSize
    BY <1>2 DEF MaxSize
<1>4. Len(SizeOf) \in Nat \ {0} /\ \A v \in Versions : SizeOf[v] \in Nat \ {0}
    BY <1>1 DEF Versions
<1> QED BY <1>3, <1>4 DEF Blocks

\* Nil and Unknown are not blocks, a hole is not a version.
LEMMA Distinct == /\ Nil \notin Blocks /\ Unknown \notin Blocks /\ Nil # Unknown
                  /\ Nil \notin Sizes /\ Unknown \notin Sizes /\ 0 \notin Blocks
                  /\ Hole \notin Versions /\ Blocks \subseteq Sizes
<1>1. MaxSize \in Nat /\ Blocks = 1 .. MaxSize /\ Len(SizeOf) \in Nat
    BY MaxSizeType
<1> QED BY <1>1 DEF Nil, Unknown, Hole, Sizes, Versions

\* What a name is before anything is known of it has its type.
LEMMA EmptyTypes == NoFile \in FileType /\ NotInMap \in ItemType
<1>1. 0 \in Sizes
    BY MaxSizeType DEF Sizes
<1>2. Hole \in Contents /\ Nil \in Objects
    BY DEF Contents, Objects
<1> QED BY <1>1, <1>2 DEF NoFile, NotInMap, FileType, ItemType

\* newItem takes ranges and size from the disk, Cache.Item so if there is no item.
LEMMA ItemTypes ==
    ASSUME item \in ItemType
    PROVE  /\ \A f \in FileType : /\ NewItem(f) \in ItemType /\ NewItem(f).in /\ ~NewItem(f).open
                                  /\ NewItem(f).rs = f.meta /\ NewItem(f).size = f.size
                                  /\ NewItem(f).o = Nil /\ NewItem(f).dls = Nil
           /\ file \in FileType => Item \in ItemType /\ Item.in
<1>1. ASSUME NEW f \in FileType
      PROVE  /\ NewItem(f) \in ItemType /\ NewItem(f).in /\ ~NewItem(f).open
             /\ NewItem(f).rs = f.meta /\ NewItem(f).size = f.size
             /\ NewItem(f).o = Nil /\ NewItem(f).dls = Nil
    <2>1. PICK m \in SUBSET Blocks, z \in Sizes : m = f.meta /\ z = f.size
        BY DEF FileType
    <2>2. PICK x \in ItemType : x = NotInMap
        BY EmptyTypes
    <2>3. ~x.open /\ x.o = Nil /\ x.dls = Nil
        BY <2>2 DEF NotInMap
    <2>4. NewItem(f) = [x EXCEPT !.in = TRUE, !.rs = m, !.size = z]
        BY <2>1, <2>2 DEF NewItem
    <2> QED BY <2>1, <2>3, <2>4 DEF ItemType
<1> QED BY <1>1 DEF Item

\* Item.Open makes the file or finds it.
LEMMA OpenedTypes ==
    ASSUME Typed, NEW size \in Blocks \cup {Unknown}, file.exists \/ size # Unknown
    PROVE  /\ OpenedFile(size) \in FileType /\ OpenedFile(size).exists
           /\ OpenedFile(size).size = IF file.exists THEN file.size ELSE size
           /\ OpenedFile(size).meta = IF file.exists THEN Item.rs ELSE {}
           /\ OpenedFile(size).data = IF file.exists THEN file.data ELSE NoFile.data
           /\ OpenedItem(size) \in ItemType /\ OpenedItem(size).in /\ OpenedItem(size).open
           /\ OpenedItem(size).o = size /\ OpenedItem(size).dls = size
           /\ OpenedItem(size).rs = OpenedFile(size).meta
           /\ OpenedItem(size).size = OpenedFile(size).size
<1>1. Item \in ItemType /\ Item.in /\ file \in FileType /\ item \in ItemType
    BY ItemTypes DEF Typed
<1> DEFINE f == OpenedFile(size)
<1>2. /\ f \in FileType /\ f.exists
      /\ f.size = IF file.exists THEN file.size ELSE size
      /\ f.meta = IF file.exists THEN Item.rs ELSE {}
      /\ f.data = IF file.exists THEN file.data ELSE NoFile.data
    <2>1. CASE file.exists
        <3>1. Item.rs \in SUBSET Blocks
            BY <1>1 DEF ItemType
        <3>2. f = [file EXCEPT !.meta = Item.rs]
            BY <2>1 DEF OpenedFile
        <3> HIDE DEF f
        <3> QED BY <1>1, <2>1, <3>1, <3>2 DEF FileType
    <2>2. CASE ~file.exists
        <3>1. size \in Sizes
            BY <2>2, Distinct
        <3>2. f = [NoFile EXCEPT !.exists = TRUE, !.size = size]
            BY <2>2 DEF OpenedFile
        <3>3. NoFile \in FileType /\ NoFile.meta = {}
            BY EmptyTypes DEF NoFile
        <3> HIDE DEF f
        <3> QED BY <2>2, <3>1, <3>2, <3>3 DEF FileType
    <2> QED BY <2>1, <2>2
<1>3. PICK m \in SUBSET Blocks, z \in Sizes : m = f.meta /\ z = f.size
    BY <1>2 DEF FileType
<1>4. size \in Objects
    BY DEF Objects
<1>5. PICK x \in ItemType : x = Item /\ x.in
    BY <1>1
<1>6. OpenedItem(size) = [x EXCEPT !.open = TRUE, !.o = size, !.dls = size, !.rs = m, !.size = z]
    BY <1>3, <1>5 DEF OpenedItem
<1>7. /\ OpenedItem(size) \in ItemType /\ OpenedItem(size).in /\ OpenedItem(size).open
      /\ OpenedItem(size).o = size /\ OpenedItem(size).dls = size
      /\ OpenedItem(size).rs = m /\ OpenedItem(size).size = z
    BY <1>4, <1>5, <1>6 DEF ItemType
<1> QED BY <1>2, <1>3, <1>7

\* readAt corrects the size to that of the object.
LEMMA ResizedType ==
    ASSUME Typed, CorrectsSize
    PROVE  /\ Resized(item.o) \in FileType /\ Resized(item.o).exists = file.exists
           /\ Resized(item.o).size = item.o /\ Resized(item.o).meta = file.meta
           /\ \A b \in Blocks : Resized(item.o).data[b] \in {file.data[b], Hole}
<1>1. item.o \in Sizes /\ file \in FileType
    BY Distinct DEF Typed, ItemType, Objects, CorrectsSize
<1> DEFINE d == [b \in Blocks |-> IF b <= item.o THEN file.data[b] ELSE Hole]
<1>2. d \in [Blocks -> Contents] /\ \A b \in Blocks : d[b] \in {file.data[b], Hole}
    BY <1>1 DEF FileType, Contents
<1>3. Resized(item.o) = [file EXCEPT !.size = item.o, !.data = d]
    BY DEF Resized
<1>4. PICK n \in Sizes : n = item.o
    BY <1>1
<1> HIDE DEF d
<1> QED BY <1>1, <1>2, <1>3, <1>4 DEF FileType

-------------------------------------------------------------------------------
(* Every step keeps the types *)

\* The step of a request that changes its own record, and nothing of the purger.
LEMMA GoesType ==
    ASSUME Typed, NEW h \in Requests, NEW r \in RequestType, Goes(h, r), RequestOK(r),
           r.pc \in AfterNode => node' # Nil,
           entry' \in BOOLEAN, node' \in Sizes \cup {Nil}, node # Nil => node' # Nil,
           item' \in ItemType, file' \in FileType
    PROVE  Typed'
<1>1. /\ request' = [request EXCEPT ![h] = r] /\ UNCHANGED <<upstream, purger>>
    BY DEF Goes
<1>2. /\ request' \in [Requests -> RequestType]
      /\ \A x \in Requests :
            /\ RequestOK(request'[x])
            /\ request'[x].pc \in AfterNode => node' # Nil
    BY <1>1 DEF Typed
<1> QED BY <1>1, <1>2 DEF Typed, RequestOK

\* An answered request is as it was before it came, but for the status.
LEMMA AnsweredType ==
    /\ Idle \in RequestType /\ Idle.pc = "idle" /\ Idle.got = {} /\ Idle.since = 0
    /\ \A s \in Statuses : /\ Answered(s) \in RequestType /\ Answered(s).pc = "idle"
                           /\ Answered(s).got = {} /\ Answered(s).since = 0
<1>1. Nil \in Objects
    BY DEF Objects
<1>2. Idle \in RequestType /\ Idle.pc = "idle" /\ Idle.got = {} /\ Idle.since = 0
    BY <1>1 DEF Idle, RequestType, Places, Statuses
<1>3. ASSUME NEW s \in Statuses
      PROVE  /\ Answered(s) \in RequestType /\ Answered(s).pc = "idle"
             /\ Answered(s).got = {} /\ Answered(s).since = 0
    <2>1. PICK x \in RequestType : x = Idle
        BY <1>2
    <2>2. Answered(s) = [x EXCEPT !.status = s]
        BY <2>1 DEF Answered
    <2>3. x.pc = "idle" /\ x.got = {} /\ x.since = 0
        BY <1>2, <2>1
    <2> QED BY <2>2, <2>3 DEF RequestType
<1> QED BY <1>2, <1>3

\* The locals of a request that has come in.
LEMMA RequestAt ==
    ASSUME Typed, NEW h \in Requests
    PROVE  /\ request[h] \in RequestType /\ RequestOK(request[h])
           /\ item \in ItemType /\ file \in FileType /\ Item \in ItemType /\ Item.in
           /\ entry \in BOOLEAN /\ node \in Sizes \cup {Nil}
           /\ request[h].pc \in AfterNode => node # Nil
<1>1. request[h] \in RequestType
    BY DEF Typed
<1>2. RequestOK(request[h]) /\ (request[h].pc \in AfterNode => node # Nil)
    BY DEF Typed
<1>3. item \in ItemType /\ file \in FileType /\ entry \in BOOLEAN /\ node \in Sizes \cup {Nil}
    BY DEF Typed
<1> QED BY <1>1, <1>2, <1>3, ItemTypes

\* A request comes in, looks for its entry and for the size.
LEMMA ArriveTyped ==
    ASSUME Typed, NEW h \in Requests, Arrive(h) \/ LookUpEntry(h) \/ HeadRequest(h)
    PROVE  Typed'
<1>1. UNCHANGED <<item, file, node>> /\ entry' \in BOOLEAN
    BY RequestAt DEF Arrive, LookUpEntry, HeadRequest, Only
<1>2. \E r \in RequestType : Goes(h, r) /\ r.pc \in {"get", "head", "open"} /\ (r.pc = "open" => r.head # Nil)
    <2>1. CASE Arrive(h)
        <3>1. PICK x \in RequestType : x = Idle
            BY AnsweredType
        <3>2. PICK v \in Versions \cup {0}, a \in BOOLEAN, b \in BOOLEAN :
                 /\ v = purger.version /\ a = (upstream.up /\ purger.pc = "idle")
                 /\ b = (item.open /\ 1 .. item.size \subseteq item.rs)
            BY DEF Typed
        <3>3. Goes(h, [x EXCEPT !.pc = "get", !.since = v, !.calm = a, !.cached = b])
            BY <2>1, <3>1, <3>2 DEF Arrive
        <3>4. [x EXCEPT !.pc = "get", !.since = v, !.calm = a, !.cached = b] \in RequestType
            BY DEF RequestType, Places
        <3>5. [x EXCEPT !.pc = "get", !.since = v, !.calm = a, !.cached = b].pc = "get"
            BY DEF RequestType
        <3> QED BY <3>3, <3>4, <3>5
    <2>2. PICK x \in RequestType : x = request[h]
        BY RequestAt
    <2>3. CASE LookUpEntry(h)
        <3>1. \/ Goes(h, [x EXCEPT !.pc = "head"])
              \/ Goes(h, [x EXCEPT !.pc = "open", !.head = Unknown])
            BY <2>2, <2>3 DEF LookUpEntry, Only
        <3>2. /\ [x EXCEPT !.pc = "head"] \in RequestType /\ [x EXCEPT !.pc = "head"].pc = "head"
            BY DEF RequestType, Places
        <3>3. /\ [x EXCEPT !.pc = "open", !.head = Unknown] \in RequestType
              /\ [x EXCEPT !.pc = "open", !.head = Unknown].pc = "open"
              /\ [x EXCEPT !.pc = "open", !.head = Unknown].head = Unknown
            BY DEF RequestType, Places, Objects
        <3> QED BY <3>1, <3>2, <3>3, Distinct
    <2>4. CASE HeadRequest(h)
        <3>1. PICK size \in {Now, Unknown} :
                 Goes(h, [x EXCEPT !.pc = "open", !.head = size, !.calm = @ /\ size # Unknown])
            BY <2>2, <2>4 DEF HeadRequest, Only
        <3>2. Now \in Blocks
            BY MaxSizeType DEF Now, Typed
        <3>3. size \in Objects /\ size # Nil
            BY <3>2, Distinct DEF Objects
        <3>4. PICK c \in BOOLEAN : c = (x.calm /\ size # Unknown)
            OBVIOUS
        <3> DEFINE r == [x EXCEPT !.pc = "open", !.head = size, !.calm = c]
        <3>5. Goes(h, r)
            BY <3>1, <3>4
        <3>6. r \in RequestType /\ r.pc = "open" /\ r.head = size
            BY <3>3 DEF RequestType, Places
        <3> QED BY <3>3, <3>5, <3>6
    <2> QED BY <2>1, <2>3, <2>4
<1>3. PICK r \in RequestType : Goes(h, r) /\ r.pc \in {"get", "head", "open"} /\ (r.pc = "open" => r.head # Nil)
    BY <1>2
<1>4. RequestOK(r) /\ r.pc \notin AfterNode
    BY <1>3 DEF RequestOK, AfterNode
<1>5. /\ node' \in Sizes \cup {Nil} /\ (node # Nil => node' # Nil) /\ item' \in ItemType /\ file' \in FileType
    BY <1>1 DEF Typed
<1> QED BY <1>1, <1>3, <1>4, <1>5, GoesType

\* Item.Open succeeds, or fails and empties the item.
LEMMA OpenTyped ==
    ASSUME Typed, NEW h \in Requests, OpenAgain(h) \/ OpenFirst(h) \/ OpenFails(h)
    PROVE  Typed'
<1>1. /\ request[h].pc = "open" /\ request[h].head \in Blocks \cup {Unknown}
      /\ UNCHANGED <<entry, node>>
    BY RequestAt DEF OpenAgain, OpenFirst, OpenFails, RequestOK, RequestType, Objects
<1>2. PICK x \in RequestType : x = request[h]
    BY RequestAt
<1>3. item' \in ItemType /\ file' \in FileType
    <2>1. CASE OpenAgain(h)
        <3>1. PICK y \in ItemType : y = item
            BY RequestAt
        <3>2. PICK z \in Sizes, o \in Objects : z = file.size /\ o = request[h].head
            BY <1>1, RequestAt DEF FileType, Objects
        <3>3. item' = [y EXCEPT !.o = o, !.size = z]
            BY <2>1, <3>1, <3>2 DEF OpenAgain
        <3>4. item' \in ItemType
            BY <3>3 DEF ItemType
        <3> QED BY <2>1, <3>4, RequestAt DEF OpenAgain
    <2>2. CASE OpenFirst(h)
        BY <1>1, <2>2, OpenedTypes DEF OpenFirst
    <2>3. CASE OpenFails(h)
        <3>1. PICK y \in ItemType : y = Item
            BY RequestAt
        <3>2. PICK o \in Objects : o = request[h].head
            BY <1>1 DEF Objects
        <3>3. item' = [y EXCEPT !.o = o, !.rs = {}, !.size = 0]
            BY <2>3, <3>1, <3>2 DEF OpenFails
        <3>4. 0 \in Sizes
            BY MaxSizeType DEF Sizes
        <3>5. item' \in ItemType
            BY <3>3, <3>4 DEF ItemType
        <3> QED BY <2>3, <3>5, EmptyTypes DEF OpenFails
    <2> QED BY <2>1, <2>2, <2>3
<1>4. \E r \in RequestType : Goes(h, r) /\ RequestOK(r) /\ r.pc \in {"node", "stale"}
    <2>1. CASE OpenAgain(h) \/ OpenFirst(h)
        <3>1. PICK z \in Sizes :
                 /\ z \in {file.size, file'.size}
                 /\ Goes(h, [x EXCEPT !.pc = "node", !.head = Nil, !.size = z])
            BY <1>2, <1>3, <2>1, RequestAt DEF OpenAgain, OpenFirst, FileType
        <3> DEFINE r == [x EXCEPT !.pc = "node", !.head = Nil, !.size = z]
        <3>2. z \in Int
            BY MaxSizeType DEF Sizes
        <3>3. r \in RequestType /\ r.pc = "node" /\ r.size = z
            BY <3>2 DEF RequestType, Places, Objects
        <3> QED BY <3>1, <3>3 DEF RequestOK
    <2>2. CASE OpenFails(h)
        <3>1. PICK c \in BOOLEAN : c = (x.calm /\ ~NoSpace)
            OBVIOUS
        <3> DEFINE r == [x EXCEPT !.pc = "stale", !.head = Nil, !.calm = c]
        <3>2. Goes(h, r)
            BY <1>2, <2>2, <3>1 DEF OpenFails
        <3>3. r \in RequestType /\ r.pc = "stale"
            BY DEF RequestType, Places, Objects
        <3> QED BY <3>2, <3>3 DEF RequestOK
    <2> QED BY <2>1, <2>2
<1>5. PICK r \in RequestType : Goes(h, r) /\ RequestOK(r) /\ r.pc \in {"node", "stale"}
    BY <1>4
<1>6. r.pc \notin AfterNode
    BY <1>5 DEF AfterNode
<1>7. node' \in Sizes \cup {Nil} /\ (node # Nil => node' # Nil) /\ entry' \in BOOLEAN
    BY <1>1, RequestAt
<1> QED BY <1>3, <1>5, <1>6, <1>7, GoesType

\* The stale answer is tried.
LEMMA StaleTyped ==
    ASSUME Typed, NEW h \in Requests, TryStaleServe(h) \/ OpenStale(h)
    PROVE  Typed'
<1>1. item' \in ItemType /\ UNCHANGED <<entry, file, node>>
    BY RequestAt DEF TryStaleServe, OpenStale
<1>2. PICK x \in RequestType : x = request[h]
    BY RequestAt
<1>3. \E r \in RequestType : Goes(h, r) /\ RequestOK(r) /\ r.pc \in {"openStale", "idle", "node"}
    <2>1. CASE TryStaleServe(h)
        <3> DEFINE r == [x EXCEPT !.pc = "openStale", !.stale = TRUE]
        <3>1. Goes(h, r) \/ Goes(h, Answered("500"))
            BY <1>2, <2>1 DEF TryStaleServe
        <3>2. r \in RequestType /\ r.pc = "openStale"
            BY DEF RequestType, Places
        <3>3. Answered("500") \in RequestType /\ Answered("500").pc = "idle"
            BY AnsweredType DEF Statuses
        <3> HIDE DEF r
        <3> QED BY <3>1, <3>2, <3>3 DEF RequestOK
    <2>2. CASE OpenStale(h)
        <3>1. PICK z \in Sizes : z = IF item.open THEN item.size ELSE 0
            BY RequestAt, MaxSizeType DEF ItemType, Sizes
        <3> DEFINE r == [x EXCEPT !.pc = "node", !.size = z]
        <3>2. Goes(h, r)
            BY <1>2, <2>2, <3>1 DEF OpenStale
        <3>3. z \in Int
            BY MaxSizeType DEF Sizes
        <3>4. r \in RequestType /\ r.pc = "node" /\ r.size = z
            BY <3>3 DEF RequestType, Places
        <3> QED BY <3>2, <3>4 DEF RequestOK
    <2> QED BY <2>1, <2>2
<1>4. PICK r \in RequestType : Goes(h, r) /\ RequestOK(r) /\ r.pc \in {"openStale", "idle", "node"}
    BY <1>3
<1>5. r.pc \notin AfterNode
    BY <1>4 DEF AfterNode
<1>6. /\ node' \in Sizes \cup {Nil} /\ (node # Nil => node' # Nil) /\ entry' \in BOOLEAN
      /\ file' \in FileType
    BY <1>1, RequestAt
<1> QED BY <1>1, <1>4, <1>5, <1>6, GoesType

\* The node is found or made, and a handle to it.
LEMMA HandleTyped ==
    ASSUME Typed, NEW h \in Requests, EnsureNode(h) \/ OpenHandle(h)
    PROVE  Typed'
<1>1. item' \in ItemType /\ UNCHANGED <<entry, file>>
    BY RequestAt DEF EnsureNode, OpenHandle
<1>2. PICK x \in RequestType : x = request[h]
    BY RequestAt
<1>3. CASE EnsureNode(h)
    <2> DEFINE r == [x EXCEPT !.pc = "handle"]
    <2>1. Goes(h, r)
        BY <1>2, <1>3 DEF EnsureNode
    <2>2. r \in RequestType /\ r.pc = "handle"
        BY DEF RequestType, Places
    <2> HIDE DEF r
    <2>3. RequestOK(r)
        BY <2>2 DEF RequestOK
    <2>4. node' \in Sizes /\ node' # Nil
        <3>1. file.size \in Sizes /\ request[h].size \in Sizes
            BY <1>3, RequestAt DEF EnsureNode, RequestOK, FileType
        <3>2. node # Nil => node \in Sizes
            BY RequestAt
        <3> QED BY <1>3, <3>1, <3>2, Distinct DEF EnsureNode
    <2>5. entry' \in BOOLEAN /\ file' \in FileType
        BY <1>1, RequestAt
    <2> QED BY <1>1, <2>1, <2>2, <2>3, <2>4, <2>5, GoesType
<1>4. CASE OpenHandle(h)
    <2>1. request[h].pc = "handle" /\ node # Nil /\ UNCHANGED node /\ node \in Sizes
        BY <1>4, RequestAt DEF OpenHandle, AfterNode
    <2>2. PICK z \in Sizes : z = HandleSize
        BY <2>1, RequestAt DEF HandleSize, FileType
    <2>3. PICK range \in Ranges :
             \/ Goes(h, Answered("304")) \/ Goes(h, Answered("416"))
             \/ Goes(h, [x EXCEPT !.pc = "body", !.size = z, !.at = range[1],
                               !.to = IF range[2] < z THEN range[2] ELSE z])
        BY <1>2, <1>4, <2>2 DEF OpenHandle
    <2>4. z \in Int /\ range[1] \in Nat \ {0} /\ range[2] \in Int
        BY MaxSizeType, ProxyAssumption DEF Sizes
    <2>5. PICK a \in Nat \ {0}, b \in Int : a = range[1] /\ b = IF range[2] < z THEN range[2] ELSE z
        BY <2>4
    <2> DEFINE r == [x EXCEPT !.pc = "body", !.size = z, !.at = a, !.to = b]
    <2>6. r \in RequestType /\ r.pc = "body"
        BY <2>4 DEF RequestType, Places
    <2>7. Goes(h, r) \/ Goes(h, Answered("304")) \/ Goes(h, Answered("416"))
        BY <2>3, <2>5
    <2> HIDE DEF r
    <2>8. /\ Answered("304") \in RequestType /\ Answered("304").pc = "idle"
          /\ Answered("416") \in RequestType /\ Answered("416").pc = "idle"
        BY AnsweredType DEF Statuses
    <2>9. entry' \in BOOLEAN /\ file' \in FileType /\ node' \in Sizes \cup {Nil} /\ node' # Nil
        BY <1>1, <2>1, RequestAt
    <2>10. PICK q \in RequestType : Goes(h, q) /\ q.pc \in {"body", "idle"}
        BY <2>6, <2>7, <2>8
    <2>11. RequestOK(q)
        BY <2>10 DEF RequestOK
    <2> QED BY <1>1, <2>9, <2>10, <2>11, GoesType
<1> QED BY <1>3, <1>4

\* A read ends.
LEMMA DeliverTyped ==
    ASSUME Typed, NEW h \in Requests, request[h].pc \in {"body", "wait"}, Deliver(h)
    PROVE  Typed'
<1> DEFINE f == IF CorrectsSize THEN Resized(item.o) ELSE file
           b == request[h].at
<1>1. /\ file' = f /\ item' = [item EXCEPT !.size = f.size] /\ UNCHANGED <<entry, node>>
    BY DEF Deliver
<1>2. PICK x \in RequestType : x = request[h]
    BY RequestAt
<1>3. f \in FileType
    BY RequestAt, ResizedType
<1>4. item' \in ItemType
    <2>1. PICK y \in ItemType, z \in Sizes : y = item /\ z = f.size
        BY <1>3, RequestAt DEF FileType
    <2>2. item' = [y EXCEPT !.size = z]
        BY <1>1, <2>1
    <2> QED BY <2>2 DEF ItemType
<1>5. \E r \in RequestType : Goes(h, r) /\ r.pc \in {"idle", "body"}
    <2>1. CASE b > f.size
        <3>1. Goes(h, Answered("cut"))
            BY <2>1 DEF Deliver
        <3> QED BY <3>1, AnsweredType DEF Statuses
    <2>2. CASE ~(b > f.size)
        <3>1. b \in Nat \ {0} /\ f.size \in 0 .. MaxSize /\ MaxSize \in Nat
            BY <1>2, <1>3, MaxSizeType DEF RequestType, FileType, Sizes
        <3>2. b \in Blocks
            BY <2>2, <3>1, MaxSizeType
        <3>3. PICK c \in Contents : c = f.data[b]
            BY <1>3, <3>2 DEF FileType
        <3>4. PICK n \in Nat \ {0} : n = b + 1
            BY <3>1
        <3>5. PICK g \in SUBSET Contents : g = x.got \cup {c}
            BY DEF RequestType
        <3> DEFINE r == [x EXCEPT !.pc = "body", !.at = n, !.dls = Nil, !.got = g]
        <3>6. Goes(h, r)
            BY <1>2, <2>2, <3>3, <3>4, <3>5 DEF Deliver
        <3>7. r \in RequestType /\ r.pc = "body"
            BY DEF RequestType, Places, Objects
        <3> QED BY <3>6, <3>7
    <2> QED BY <2>1, <2>2
<1>6. PICK r \in RequestType : Goes(h, r) /\ r.pc \in {"idle", "body"}
    BY <1>5
<1>7. RequestOK(r)
    BY <1>6 DEF RequestOK
<1>8. entry' \in BOOLEAN /\ node' \in Sizes \cup {Nil} /\ node' # Nil
    BY <1>1, RequestAt DEF AfterNode
<1> QED BY <1>1, <1>3, <1>4, <1>6, <1>7, <1>8, GoesType

\* The body is sent, block by block.
LEMMA BodyTyped ==
    ASSUME Typed, NEW h \in Requests,
           \/ Served(h) \/ ReadUnopened(h) \/ ReadPresent(h) \/ ReadMissing(h) \/ Downloaded(h)
           \/ DownloadedGone(h) \/ DownloadFails(h)
    PROVE  Typed'
<1>1. request[h].pc \in {"body", "wait"} /\ node # Nil
    BY RequestAt DEF Served, ReadUnopened, ReadPresent, ReadMissing, Downloaded, DownloadedGone,
          DownloadFails, AfterNode
<1>2. CASE Deliver(h)
    BY <1>1, <1>2, DeliverTyped
<1>3. ASSUME NEW r \in RequestType, Goes(h, r), r.pc \in {"body", "wait", "idle"},
             item' \in ItemType, UNCHANGED <<entry, file, node>>
      PROVE  Typed'
    <2>1. RequestOK(r)
        BY <1>3 DEF RequestOK
    <2>2. /\ entry' \in BOOLEAN /\ node' \in Sizes \cup {Nil} /\ node' # Nil /\ file' \in FileType
        BY <1>1, <1>3, RequestAt
    <2> QED BY <1>3, <2>1, <2>2, GoesType
<1>4. \A s \in {"200", "stale", "cut"} : Answered(s) \in RequestType /\ Answered(s).pc = "idle"
    BY AnsweredType DEF Statuses
<1>5. PICK x \in RequestType : x = request[h]
    BY RequestAt
<1>6. CASE Served(h)
    <2>1. PICK s \in {"200", "stale"} : Goes(h, Answered(s)) /\ UNCHANGED <<item, entry, file, node>>
        BY <1>6 DEF Served, Only
    <2> QED BY <1>3, <1>4, <2>1, RequestAt
<1>7. CASE ReadUnopened(h)
    BY <1>3, <1>4, <1>7, RequestAt DEF ReadUnopened
<1>8. CASE ReadPresent(h)
    BY <1>2, <1>3, <1>4, <1>8, RequestAt DEF ReadPresent, Only
<1>9. CASE ReadMissing(h)
    <2>1. PICK d \in Objects : d = item.dls
        BY RequestAt DEF ItemType
    <2> DEFINE r == [x EXCEPT !.pc = "wait", !.dls = d]
    <2>2. Goes(h, r) /\ UNCHANGED <<item, entry, file, node>>
        BY <1>5, <1>9, <2>1 DEF ReadMissing, Only
    <2>3. r \in RequestType /\ r.pc = "wait"
        BY DEF RequestType, Places
    <2> QED BY <1>3, <2>2, <2>3, RequestAt
<1>10. CASE Downloaded(h)
    BY <1>2, <1>10 DEF Downloaded
<1>11. CASE DownloadedGone(h)
    <2>1. PICK n \in Nat \ {0} : n = request[h].at + 1
        BY <1>5 DEF RequestType
    <2>2. PICK g \in SUBSET Contents :
              g = x.got \cup {IF request[h].at > request[h].dls THEN Hole ELSE upstream.version}
        BY DEF RequestType, Contents, Typed
    <2> DEFINE r == [x EXCEPT !.pc = "body", !.at = n, !.dls = Nil, !.gone = FALSE, !.got = g]
    <2>3. Goes(h, r) /\ UNCHANGED <<item, entry, file, node>>
        BY <1>5, <1>11, <2>1, <2>2 DEF DownloadedGone, Only
    <2>4. r \in RequestType /\ r.pc = "body"
        BY DEF RequestType, Places, Objects
    <2> QED BY <1>3, <2>3, <2>4, RequestAt
<1>12. CASE DownloadFails(h)
    BY <1>3, <1>4, <1>12, RequestAt DEF DownloadFails, Only
<1> QED BY <1>6, <1>7, <1>8, <1>9, <1>10, <1>11, <1>12

\* A download brings a block.
LEMMA FetchTyped ==
    ASSUME Typed, NEW b \in Blocks, Fetch(b)
    PROVE  Typed'
<1>1. PICK y \in ItemType, f \in FileType, v \in Versions : y = item /\ f = file /\ v = upstream.version
    BY DEF Typed
<1>2. PICK s \in SUBSET Blocks : s = y.rs \cup {b}
    BY DEF ItemType
<1>3. item' = [y EXCEPT !.rs = s]
    BY <1>1, <1>2 DEF Fetch
<1>4. PICK d \in [Blocks -> Contents] : d = [f.data EXCEPT ![b] = v]
    BY DEF FileType, Contents
<1>5. file' = [f EXCEPT !.data = d]
    BY <1>1, <1>4 DEF Fetch
<1>6. item' \in ItemType /\ file' \in FileType
    BY <1>3, <1>5 DEF ItemType, FileType
<1>7. UNCHANGED <<upstream, entry, node, request, purger>>
    BY DEF Fetch
<1> QED BY <1>6, <1>7 DEF Typed, RequestOK

\* What happens to a request that is disturbed, or whose item is purged, keeps its types.
LEMMA DisturbedType ==
    ASSUME NEW r \in RequestType
    PROVE  /\ Disturbed(r) \in RequestType /\ Orphaned(r) \in RequestType
           /\ \A q \in {Disturbed(r), Orphaned(r)} :
                 /\ q.pc = r.pc /\ q.head = r.head /\ q.size = r.size /\ q.got = r.got
                 /\ q.since = r.since /\ q.at = r.at /\ q.to = r.to /\ q.dls = r.dls
           /\ Disturbed(r).gone = r.gone
           /\ Orphaned(r).pc = "wait" => Orphaned(r).gone
<1>1. PICK g \in BOOLEAN : g = (r.gone \/ r.pc = "wait")
    OBVIOUS
<1>2. Orphaned(r) = [r EXCEPT !.calm = FALSE, !.cached = FALSE, !.gone = g]
    BY <1>1 DEF Orphaned
<1>3. Disturbed(r) = [r EXCEPT !.calm = FALSE]
    BY DEF Disturbed
<1>4. /\ Disturbed(r) \in RequestType /\ Disturbed(r).gone = r.gone
      /\ Disturbed(r).pc = r.pc /\ Disturbed(r).head = r.head /\ Disturbed(r).size = r.size
      /\ Disturbed(r).got = r.got /\ Disturbed(r).since = r.since /\ Disturbed(r).at = r.at
      /\ Disturbed(r).to = r.to /\ Disturbed(r).dls = r.dls
    BY <1>3 DEF RequestType
<1>5. /\ Orphaned(r) \in RequestType /\ Orphaned(r).gone = g
      /\ Orphaned(r).pc = r.pc /\ Orphaned(r).head = r.head /\ Orphaned(r).size = r.size
      /\ Orphaned(r).got = r.got /\ Orphaned(r).since = r.since /\ Orphaned(r).at = r.at
      /\ Orphaned(r).to = r.to /\ Orphaned(r).dls = r.dls
    BY <1>2 DEF RequestType
<1> QED BY <1>1, <1>4, <1>5

\* A step in which all the requests are disturbed, or their item is purged.
LEMMA DisturbedTyped ==
    ASSUME Typed, UNCHANGED node,
           \/ request' = [h \in Requests |-> Disturbed(request[h])]
           \/ request' = [h \in Requests |-> Orphaned(request[h])],
           upstream' \in [up : BOOLEAN, version : Versions], entry' \in BOOLEAN,
           item' \in ItemType, file' \in FileType,
           purger' \in [pc : {"idle", "cache"}, version : Versions \cup {0}]
    PROVE  Typed'
<1>1. ASSUME NEW h \in Requests
      PROVE  /\ request'[h] \in RequestType /\ RequestOK(request'[h])
             /\ request'[h].pc \in AfterNode => node # Nil
    <2>1. PICK x \in RequestType : x = request[h] /\ RequestOK(x) /\ (x.pc \in AfterNode => node # Nil)
        BY RequestAt
    <2>2. request'[h] \in {Disturbed(x), Orphaned(x)}
        BY <2>1
    <2>3. \A q \in {Disturbed(x), Orphaned(x)} :
             q \in RequestType /\ q.pc = x.pc /\ q.head = x.head /\ q.size = x.size
        BY DisturbedType
    <2>4. PICK q \in RequestType : q = request'[h] /\ q.pc = x.pc /\ q.head = x.head /\ q.size = x.size
        BY <2>2, <2>3
    <2> QED BY <2>1, <2>4 DEF RequestOK
<1>2. request' \in [Requests -> RequestType]
    <2>1. DOMAIN request' = Requests /\ request' = [h \in Requests |-> request'[h]]
        OBVIOUS
    <2> QED BY <1>1, <2>1
<1>3. node' \in Sizes \cup {Nil}
    BY DEF Typed
<1> QED BY <1>1, <1>2, <1>3 DEF Typed, RequestOK

\* PURGE takes the entry away, then item, file and metadata.
LEMMA PurgeTyped ==
    ASSUME Typed, PurgeMapping \/ PurgeCache
    PROVE  Typed'
<1>1. PICK u \in [pc : {"idle", "cache"}, version : Versions \cup {0}], v \in Versions :
         u = purger /\ v = upstream.version
    BY DEF Typed
<1>2. purger' = [u EXCEPT !.pc = "cache"] \/ purger' = [u EXCEPT !.pc = "idle", !.version = v]
    BY <1>1 DEF PurgeMapping, PurgeCache
<1>3. purger' \in [pc : {"idle", "cache"}, version : Versions \cup {0}]
    BY <1>2
<1>4. /\ entry' \in BOOLEAN /\ upstream' \in [up : BOOLEAN, version : Versions]
      /\ item' \in ItemType /\ file' \in FileType
    BY EmptyTypes DEF PurgeMapping, PurgeCache, Typed
<1>5. /\ UNCHANGED node
      /\ \/ request' = [h \in Requests |-> Disturbed(request[h])]
         \/ request' = [h \in Requests |-> Orphaned(request[h])]
    BY DEF PurgeMapping, PurgeCache
<1> QED BY <1>3, <1>4, <1>5, DisturbedTyped

\* The process starts again, with what is on disk or with nothing.
LEMMA RestartTyped ==
    ASSUME Typed, NEW Keep \in BOOLEAN, Restart(Keep)
    PROVE  Typed'
<1>1. file' \in FileType
    BY EmptyTypes DEF Restart, Typed
<1>2. item' \in ItemType
    <2>1. item' = NewItem(file') \/ item' = NotInMap
        BY DEF Restart
    <2>2. item \in ItemType
        BY DEF Typed
    <2>3. PICK f \in FileType : f = file'
        BY <1>1
    <2> QED BY <2>1, <2>2, <2>3, ItemTypes, EmptyTypes
<1>3. purger' \in [pc : {"idle", "cache"}, version : Versions \cup {0}]
    <2>1. PICK u \in [pc : {"idle", "cache"}, version : Versions \cup {0}] : u = purger
        BY DEF Typed
    <2>2. purger' = [u EXCEPT !.pc = "idle"]
        BY <2>1 DEF Restart
    <2> QED BY <2>2
<1>4. /\ entry' \in BOOLEAN /\ node' = Nil /\ UNCHANGED upstream
      /\ request' = [h \in Requests |-> Idle]
    BY DEF Restart
<1>5. Idle \in RequestType /\ RequestOK(Idle) /\ Idle.pc \notin AfterNode
    BY AnsweredType DEF RequestOK, AfterNode
<1>6. request' \in [Requests -> RequestType]
    BY <1>4, <1>5
<1> QED BY <1>1, <1>2, <1>3, <1>4, <1>5, <1>6 DEF Typed, RequestOK

\* The upstream fails, recovers and changes.
LEMMA UpstreamTyped ==
    ASSUME Typed, Outage \/ Recovers \/ Changes
    PROVE  Typed'
<1>1. PICK u \in [up : BOOLEAN, version : Versions] : u = upstream
    BY DEF Typed
<1>2. UNCHANGED <<entry, item, file, node, purger>>
    BY DEF Outage, Recovers, Changes, Env
<1>3. upstream' \in [up : BOOLEAN, version : Versions]
    <2>1. CASE Outage
        <3>1. upstream' = [u EXCEPT !.up = FALSE]
            BY <1>1, <2>1 DEF Outage
        <3> QED BY <3>1
    <2>2. CASE Recovers
        <3>1. upstream' = [u EXCEPT !.up = TRUE]
            BY <1>1, <2>2 DEF Recovers
        <3> QED BY <3>1
    <2>3. CASE Changes
        <3>1. PICK v \in Versions : v = u.version + 1
            BY <1>1, <2>3 DEF Changes
        <3>2. upstream' = [u EXCEPT !.version = v]
            BY <1>1, <2>3, <3>1 DEF Changes
        <3> QED BY <3>2
    <2> QED BY <2>1, <2>2, <2>3
<1>4. CASE Outage
    <2>1. request' = [h \in Requests |-> Disturbed(request[h])]
        BY <1>4 DEF Outage
    <2> QED BY <1>2, <1>3, <2>1, DisturbedTyped DEF Typed
<1>5. CASE Recovers \/ Changes
    BY <1>2, <1>3, <1>5 DEF Recovers, Changes, Typed
<1> QED BY <1>4, <1>5

\* The types hold at the start.
LEMMA InitTyped == Init => Typed
<1> SUFFICES ASSUME Init PROVE Typed
    OBVIOUS
<1>1. 1 \in Versions
    BY MaxSizeType DEF Versions
<1>2. upstream \in [up : BOOLEAN, version : Versions]
    BY <1>1 DEF Init
<1>3. item \in ItemType /\ file \in FileType
    BY EmptyTypes DEF Init
<1>4. Idle \in RequestType /\ RequestOK(Idle) /\ Idle.pc \notin AfterNode
    BY AnsweredType DEF RequestOK, AfterNode
<1>5. request \in [Requests -> RequestType]
    BY <1>4 DEF Init
<1> QED BY <1>2, <1>3, <1>4, <1>5 DEF Init, Typed

\* Every step keeps the types.
LEMMA NextTyped == Typed /\ [Next]_vars => Typed'
<1> SUFFICES ASSUME Typed, [Next]_vars PROVE Typed'
    OBVIOUS
<1>1. ASSUME NEW h \in Requests, Arrive(h) \/ Serve(h)
      PROVE  Typed'
    BY <1>1, ArriveTyped, OpenTyped, StaleTyped, HandleTyped, BodyTyped DEF Serve
<1>2. ASSUME NEW b \in Blocks, Fetch(b)
      PROVE  Typed'
    BY <1>2, FetchTyped
<1>3. CASE UNCHANGED vars
    BY <1>3 DEF Typed, RequestOK, vars
<1> QED BY <1>1, <1>2, <1>3, PurgeTyped, RestartTyped, UpstreamTyped DEF Next

\* In every reachable state the variables have their types, for any number of requests,
\* any versions of the content and any ranges.
THEOREM TypeCorrect == Spec => []TypeOK
<1>1. Typed => TypeOK
    <2> SUFFICES ASSUME Typed PROVE TypeOK
        OBVIOUS
    <2>1. Sizes = Blocks \cup {0}
        BY MaxSizeType DEF Sizes
    <2>2. \A h \in Requests : request[h].status \in Statuses
        BY DEF Typed, RequestType
    <2> QED BY <2>1, <2>2 DEF Typed, TypeOK, ItemType, FileType, Objects, Contents, Sizes, Statuses
<1> QED BY <1>1, InitTyped, NextTyped, PTL DEF Spec

-------------------------------------------------------------------------------
(* Nothing fetched before a PURGE is sent after it *)

Fresh(v, version) == v = Hole \/ v >= version

\* Everything sent to r has been fetched since the last PURGE before r came
Recent(r, version) == r.since <= version /\ \A v \in r.got : Fresh(v, r.since)

\* An open item is in the map and has a file; a file has an item, or PURGE would leave it
Held(i, f) ==
    /\ i.open => i.in /\ f.exists
    /\ f.exists => i.in
    /\ \A b \in Blocks : ~f.exists => f.data[b] = Hole

FreshInv ==
    /\ purger.version <= upstream.version
    /\ \A h \in Requests : Recent(request[h], purger.version)
    /\ Held(item, file)
    /\ \A b \in Blocks : Fresh(file.data[b], purger.version)

\* What is sent to a request was fetched after the last PURGE before it came, or is a hole:
\* whatever the sizes of the versions, other requests, outages and restarts meanwhile.
NothingStaleIsSent ==
    \A h \in Requests : \A v \in request[h].got : v = Hole \/ v >= request[h].since

\* The numbers of versions can be compared.
LEMMA VersionNumbers ==
    /\ Versions \subseteq Int /\ Contents \subseteq Int /\ Hole = 0
    /\ \A r \in RequestType : r.since \in Int /\ r.got \subseteq Int
    /\ \A f \in FileType, b \in Blocks : f.data[b] \in Int
    /\ Typed => purger.version \in Int /\ upstream.version \in Versions
<1>1. Versions \subseteq Int /\ Contents \subseteq Int
    BY MaxSizeType DEF Versions, Contents, Hole
<1>2. \A r \in RequestType : r.since \in Int /\ r.got \subseteq Int
    BY <1>1 DEF RequestType, Contents
<1>3. \A f \in FileType, b \in Blocks : f.data[b] \in Int
    BY <1>1 DEF FileType
<1>4. 0 \in Int /\ \A v \in Versions \cup {0} : v \in Int
    BY <1>1
<1>5. Typed => purger.version \in Int /\ upstream.version \in Versions
    BY <1>4 DEF Typed
<1> QED BY <1>1, <1>2, <1>3, <1>5 DEF Hole

\* A step of a request that is sent only what is fresh.
LEMMA FreshStep ==
    ASSUME Typed, FreshInv, NEW h \in Requests, NEW r, Goes(h, r), Recent(r, purger.version),
           Held(item', file'),
           \A b \in Blocks : file'.data[b] \in {file.data[b], Hole}
    PROVE  FreshInv'
<1>1. /\ request' = [request EXCEPT ![h] = r] /\ UNCHANGED <<upstream, purger>>
      /\ DOMAIN request = Requests
    BY DEF Goes, Typed
<1>2. \A x \in Requests : Recent(request'[x], purger.version)
    BY <1>1 DEF FreshInv
<1>3. \A b \in Blocks : Fresh(file'.data[b], purger.version)
    BY DEF FreshInv, Fresh
<1> QED BY <1>1, <1>2, <1>3 DEF FreshInv, Recent, Fresh, Held

\* A request that has been answered, or has been sent no more than before, is no less recent.
LEMMA RecentStays ==
    ASSUME Typed, FreshInv, NEW h \in Requests, NEW r \in RequestType,
           \/ r.got = {} /\ r.since = 0
           \/ r.got = request[h].got /\ r.since = request[h].since
    PROVE  Recent(r, purger.version)
<1>1. purger.version >= 0
    BY MaxSizeType DEF Typed, Versions
<1>2. Recent(request[h], purger.version)
    BY DEF FreshInv
<1> QED BY <1>1, <1>2 DEF Recent

\* What Item.Open, newItem and Cache.Item leave is held.
LEMMA ItemHeld ==
    ASSUME Typed, FreshInv
    PROVE  /\ Held(Item, file) /\ Item.in /\ (file.exists => Item.open = item.open)
           /\ ~item.open => ~Item.open
           /\ \A f \in FileType : (\A b \in Blocks : ~f.exists => f.data[b] = Hole) => Held(NewItem(f), f)
           /\ Held(NotInMap, NoFile)
<1>1. item \in ItemType /\ file \in FileType
    BY DEF Typed
<1>2. ASSUME NEW f \in FileType, \A b \in Blocks : ~f.exists => f.data[b] = Hole
      PROVE  Held(NewItem(f), f)
    BY <1>1, <1>2, ItemTypes DEF Held
<1>3. Held(item, file)
    BY DEF FreshInv
<1>4. Held(NotInMap, NoFile)
    BY DEF Held, NotInMap, NoFile
<1>5. CASE item.in
    BY <1>1, <1>2, <1>3, <1>4, <1>5 DEF Item
<1>6. CASE ~item.in
    <2>1. Item = NewItem(file)
        BY <1>6 DEF Item
    <2>2. ~item.open /\ ~file.exists
        BY <1>3, <1>6 DEF Held
    <2> QED BY <1>1, <1>2, <1>3, <1>4, <2>1, <2>2, ItemTypes DEF Held
<1> QED BY <1>5, <1>6

\* The steps of Serve before the body.
LEMMA OpeningFresh ==
    ASSUME Typed, FreshInv, NEW h \in Requests,
           \/ LookUpEntry(h) \/ HeadRequest(h) \/ OpenAgain(h) \/ OpenFirst(h) \/ OpenFails(h)
           \/ TryStaleServe(h) \/ OpenStale(h) \/ EnsureNode(h) \/ OpenHandle(h)
    PROVE  FreshInv'
<1>1. PICK x \in RequestType : x = request[h] /\ RequestOK(x)
    BY RequestAt
<1>2. \A s \in Statuses : Answered(s).got = {} /\ Answered(s).since = 0 /\ Answered(s) \in RequestType
    BY AnsweredType
<1>3. \A r : Goes(h, r) => request'[h] = r /\ Goes(h, request'[h])
    BY DEF Goes, Typed
<1>4. /\ \E r : Goes(h, r)
      /\ \/ request'[h].got = {} /\ request'[h].since = 0
         \/ request'[h].got = x.got /\ request'[h].since = x.since
    <2>1. CASE LookUpEntry(h)
        <3>1. Goes(h, [x EXCEPT !.pc = "head"]) \/ Goes(h, [x EXCEPT !.pc = "open", !.head = Unknown])
            BY <1>1, <2>1 DEF LookUpEntry, Only
        <3>2. \/ request'[h] = [x EXCEPT !.pc = "head"]
              \/ request'[h] = [x EXCEPT !.pc = "open", !.head = Unknown]
            BY <1>3, <3>1
        <3>3. request'[h].got = x.got /\ request'[h].since = x.since
            BY <3>2 DEF RequestType
        <3> QED BY <3>1, <3>3
    <2>2. CASE HeadRequest(h)
        <3>1. PICK size \in {Now, Unknown} :
                 Goes(h, [x EXCEPT !.pc = "open", !.head = size, !.calm = @ /\ size # Unknown])
            BY <1>1, <2>2 DEF HeadRequest, Only
        <3>2. PICK c \in BOOLEAN : c = (x.calm /\ size # Unknown)
            OBVIOUS
        <3>3. Goes(h, [x EXCEPT !.pc = "open", !.head = size, !.calm = c])
            BY <3>1, <3>2
        <3>4. request'[h] = [x EXCEPT !.pc = "open", !.head = size, !.calm = c]
            BY <1>3, <3>3
        <3>5. request'[h].got = x.got /\ request'[h].since = x.since
            BY <3>4 DEF RequestType
        <3> QED BY <3>3, <3>5
    <2>3. CASE OpenAgain(h) \/ OpenFirst(h)
        <3>1. PICK z : Goes(h, [x EXCEPT !.pc = "node", !.head = Nil, !.size = z])
            BY <1>1, <2>3 DEF OpenAgain, OpenFirst
        <3>2. request'[h] = [x EXCEPT !.pc = "node", !.head = Nil, !.size = z]
            BY <1>3, <3>1
        <3>3. request'[h].got = x.got /\ request'[h].since = x.since
            BY <3>2 DEF RequestType
        <3> QED BY <3>1, <3>3
    <2>4. CASE OpenFails(h)
        <3>1. PICK c \in BOOLEAN : c = (x.calm /\ ~NoSpace)
            OBVIOUS
        <3>2. Goes(h, [x EXCEPT !.pc = "stale", !.head = Nil, !.calm = c])
            BY <1>1, <2>4, <3>1 DEF OpenFails
        <3>3. request'[h] = [x EXCEPT !.pc = "stale", !.head = Nil, !.calm = c]
            BY <1>3, <3>2
        <3>4. request'[h].got = x.got /\ request'[h].since = x.since
            BY <3>3 DEF RequestType
        <3> QED BY <3>2, <3>4
    <2>5. CASE TryStaleServe(h)
        <3>1. Goes(h, [x EXCEPT !.pc = "openStale", !.stale = TRUE]) \/ Goes(h, Answered("500"))
            BY <1>1, <2>5 DEF TryStaleServe
        <3>2. CASE Goes(h, Answered("500"))
            BY <1>2, <1>3, <3>2 DEF Statuses
        <3>3. CASE Goes(h, [x EXCEPT !.pc = "openStale", !.stale = TRUE])
            <4>1. request'[h] = [x EXCEPT !.pc = "openStale", !.stale = TRUE]
                BY <1>3, <3>3
            <4>2. request'[h].got = x.got /\ request'[h].since = x.since
                BY <4>1 DEF RequestType
            <4> QED BY <3>3, <4>2
        <3> QED BY <3>1, <3>2, <3>3
    <2>6. CASE OpenStale(h)
        <3>1. PICK z : Goes(h, [x EXCEPT !.pc = "node", !.size = z])
            BY <1>1, <2>6 DEF OpenStale
        <3>2. request'[h] = [x EXCEPT !.pc = "node", !.size = z]
            BY <1>3, <3>1
        <3>3. request'[h].got = x.got /\ request'[h].since = x.since
            BY <3>2 DEF RequestType
        <3> QED BY <3>1, <3>3
    <2>7. CASE EnsureNode(h)
        <3>1. Goes(h, [x EXCEPT !.pc = "handle"])
            BY <1>1, <2>7 DEF EnsureNode
        <3>2. request'[h] = [x EXCEPT !.pc = "handle"]
            BY <1>3, <3>1
        <3>3. request'[h].got = x.got /\ request'[h].since = x.since
            BY <3>2 DEF RequestType
        <3> QED BY <3>1, <3>3
    <2>8. CASE OpenHandle(h)
        <3>1. \/ Goes(h, Answered("304")) \/ Goes(h, Answered("416"))
              \/ \E z, a, b : Goes(h, [x EXCEPT !.pc = "body", !.size = z, !.at = a, !.to = b])
            BY <1>1, <2>8 DEF OpenHandle
        <3>2. CASE Goes(h, Answered("304")) \/ Goes(h, Answered("416"))
            BY <1>2, <1>3, <3>2 DEF Statuses
        <3>3. CASE \E z, a, b : Goes(h, [x EXCEPT !.pc = "body", !.size = z, !.at = a, !.to = b])
            <4>1. PICK z, a, b : Goes(h, [x EXCEPT !.pc = "body", !.size = z, !.at = a, !.to = b])
                BY <3>3
            <4>2. request'[h] = [x EXCEPT !.pc = "body", !.size = z, !.at = a, !.to = b]
                BY <1>3, <4>1
            <4>3. request'[h].got = x.got /\ request'[h].since = x.since
                BY <4>2 DEF RequestType
            <4> QED BY <4>1, <4>3
        <3> QED BY <3>1, <3>2, <3>3
    <2> QED BY <2>1, <2>2, <2>3, <2>4, <2>5, <2>6, <2>7, <2>8
<1>5. PICK r \in RequestType : r = request'[h] /\ Goes(h, r) /\ Recent(r, purger.version)
    <2>1. Typed'
        BY ArriveTyped, OpenTyped, StaleTyped, HandleTyped
    <2>2. PICK r \in RequestType : r = request'[h]
        BY <2>1 DEF Typed
    <2>3. Recent(r, purger.version)
        BY <1>1, <1>4, <2>2, RecentStays
    <2> QED BY <1>3, <1>4, <2>2, <2>3
<1>6. Held(item, file) /\ Held(Item, file)
    BY ItemHeld DEF FreshInv
<1>7. /\ Held(item', file')
      /\ \A b \in Blocks : file'.data[b] \in {file.data[b], Hole}
    <2>1. CASE LookUpEntry(h) \/ HeadRequest(h)
        BY <1>6, <2>1 DEF LookUpEntry, HeadRequest, Only
    <2>2. CASE OpenAgain(h)
        <3>1. PICK y \in ItemType : y = item
            BY RequestAt
        <3>2. item'.open = item.open /\ item'.in = item.in
            BY <2>2, <3>1 DEF OpenAgain, ItemType
        <3> QED BY <1>6, <2>2, <3>2 DEF OpenAgain, Held
    <2>3. CASE OpenFirst(h)
        <3>1. request[h].head \in Blocks \cup {Unknown}
            BY <1>1, <2>3 DEF OpenFirst, RequestOK, RequestType, Objects
        <3>2. /\ item'.in /\ item'.open /\ file'.exists
              /\ file'.data = IF file.exists THEN file.data ELSE NoFile.data
            BY <2>3, <3>1, OpenedTypes DEF OpenFirst
        <3> QED BY <3>2 DEF Held, NoFile
    <2>4. CASE OpenFails(h)
        <3>1. PICK y \in ItemType : y = Item
            BY RequestAt
        <3>2. item'.open = Item.open /\ ~item.open
            BY <2>4, <3>1 DEF OpenFails, ItemType
        <3>3. file' = NoFile
            BY <2>4 DEF OpenFails
        <3> QED BY <3>2, <3>3, ItemHeld DEF Held, NoFile
    <2>5. CASE TryStaleServe(h) \/ OpenStale(h) \/ EnsureNode(h) \/ OpenHandle(h)
        BY <1>6, <2>5 DEF TryStaleServe, OpenStale, EnsureNode, OpenHandle
    <2> QED BY <2>1, <2>2, <2>3, <2>4, <2>5
<1> QED BY <1>5, <1>7, FreshStep

\* A request comes in after the last PURGE.
LEMMA ArriveFresh ==
    ASSUME Typed, FreshInv, NEW h \in Requests, Arrive(h)
    PROVE  FreshInv'
<1>1. PICK x \in RequestType : x = Idle /\ x.got = {}
    BY AnsweredType
<1>2. PICK a \in BOOLEAN, b \in BOOLEAN :
         /\ a = (upstream.up /\ purger.pc = "idle")
         /\ b = (item.open /\ 1 .. item.size \subseteq item.rs)
    BY DEF Typed
<1> DEFINE r == [x EXCEPT !.pc = "get", !.since = purger.version, !.calm = a, !.cached = b]
<1>3. Goes(h, r) /\ UNCHANGED <<item, file>>
    BY <1>1, <1>2 DEF Arrive
<1>4. r.since = purger.version /\ r.got = {}
    BY <1>1 DEF RequestType
<1> HIDE DEF r
<1>5. purger.version \in Int
    BY VersionNumbers
<1>6. Recent(r, purger.version)
    BY <1>4, <1>5 DEF Recent
<1>7. Held(item', file')
    BY <1>3 DEF FreshInv
<1> QED BY <1>3, <1>6, <1>7, FreshStep

\* A read ends: what it takes from the file has been there since the last PURGE.
LEMMA DeliverFresh ==
    ASSUME Typed, FreshInv, NEW h \in Requests, request[h].pc \in {"body", "wait"}, Deliver(h)
    PROVE  FreshInv'
<1> DEFINE f == IF CorrectsSize THEN Resized(item.o) ELSE file
           b == request[h].at
<1>1. PICK x \in RequestType : x = request[h]
    BY RequestAt
<1>2. /\ file' = f /\ item' = [item EXCEPT !.size = f.size]
    BY DEF Deliver
<1>3. /\ f \in FileType /\ f.exists = file.exists
      /\ \A c \in Blocks : f.data[c] \in {file.data[c], Hole}
    BY RequestAt, ResizedType
<1> HIDE DEF f
<1>4. PICK y \in ItemType : y = item
    BY RequestAt
<1>5. item'.open = item.open /\ item'.in = item.in
    BY <1>2, <1>4 DEF ItemType
<1>6. Held(item', file')
    <2>1. Held(item, file)
        BY DEF FreshInv
    <2> QED BY <1>2, <1>3, <1>5, <2>1 DEF Held
<1>7. CASE b > f.size
    <2>1. Goes(h, Answered("cut"))
        BY <1>7 DEF Deliver, f
    <2>2. PICK r \in RequestType : r = Answered("cut") /\ r.got = {} /\ r.since = 0
        BY AnsweredType DEF Statuses
    <2>3. Recent(r, purger.version)
        BY <2>2, RecentStays
    <2> QED BY <1>2, <1>3, <1>6, <2>1, <2>2, <2>3, FreshStep
<1>8. CASE ~(b > f.size)
    <2>1. b \in Blocks
        <3>1. b \in Nat \ {0} /\ f.size \in 0 .. MaxSize /\ MaxSize \in Nat
            BY <1>1, <1>3, MaxSizeType DEF RequestType, FileType, Sizes
        <3> QED BY <1>8, <3>1, MaxSizeType
    <2>2. Goes(h, [x EXCEPT !.pc = "body", !.at = b + 1, !.dls = Nil, !.got = @ \cup {f.data[b]}])
        BY <1>1, <1>8 DEF Deliver, f
    <2> DEFINE r == [x EXCEPT !.pc = "body", !.at = b + 1, !.dls = Nil, !.got = @ \cup {f.data[b]}]
    <2>3. r.got = x.got \cup {f.data[b]} /\ r.since = x.since
        BY DEF RequestType
    <2> HIDE DEF r
    <2>4. Recent(x, purger.version) /\ Fresh(file.data[b], purger.version)
        BY <1>1, <2>1 DEF FreshInv
    <2>5. f.data[b] \in {file.data[b], Hole}
        BY <1>3, <2>1
    <2>6. x.since \in Int /\ purger.version \in Int /\ f.data[b] \in Int
        BY <1>3, <2>1, VersionNumbers
    <2>7. Fresh(f.data[b], x.since)
        BY <2>4, <2>5, <2>6, VersionNumbers DEF Recent, Fresh
    <2>8. Recent(r, purger.version)
        BY <2>3, <2>4, <2>7 DEF Recent
    <2>9. Goes(h, r)
        BY <2>2 DEF r
    <2> QED BY <1>2, <1>3, <1>6, <2>8, <2>9, FreshStep
<1> QED BY <1>7, <1>8

\* The body is sent: what a PURGE has left of downloads is of the present version.
LEMMA BodyFresh ==
    ASSUME Typed, FreshInv, NEW h \in Requests,
           \/ Served(h) \/ ReadUnopened(h) \/ ReadPresent(h) \/ ReadMissing(h) \/ Downloaded(h)
           \/ DownloadedGone(h) \/ DownloadFails(h)
    PROVE  FreshInv'
<1>1. request[h].pc \in {"body", "wait"}
    BY DEF Served, ReadUnopened, ReadPresent, ReadMissing, Downloaded, DownloadedGone, DownloadFails
<1>2. CASE Deliver(h)
    BY <1>1, <1>2, DeliverFresh
<1>3. Held(item, file) /\ Held(Item, file)
    BY ItemHeld DEF FreshInv
<1>4. ASSUME NEW s \in Statuses, Goes(h, Answered(s)), item' \in {item, Item}, UNCHANGED file
      PROVE  FreshInv'
    <2>1. PICK r \in RequestType : r = Answered(s) /\ r.got = {} /\ r.since = 0
        BY AnsweredType
    <2>2. Recent(r, purger.version)
        BY <2>1, RecentStays
    <2>3. Held(item', file')
        BY <1>3, <1>4
    <2> QED BY <1>4, <2>1, <2>2, <2>3, FreshStep
<1>5. PICK x \in RequestType : x = request[h]
    BY RequestAt
<1>6. "200" \in Statuses /\ "stale" \in Statuses /\ "cut" \in Statuses
    BY DEF Statuses
<1>7. CASE Served(h)
    <2>1. PICK s \in {"200", "stale"} : Goes(h, Answered(s)) /\ UNCHANGED <<item, file>>
        BY <1>7 DEF Served, Only
    <2> QED BY <1>4, <1>6, <2>1
<1>8. CASE ReadUnopened(h)
    BY <1>4, <1>6, <1>8 DEF ReadUnopened
<1>9. CASE ReadPresent(h)
    BY <1>2, <1>4, <1>6, <1>9 DEF ReadPresent, Only
<1>10. CASE ReadMissing(h)
    <2>1. Goes(h, [x EXCEPT !.pc = "wait", !.dls = item.dls]) /\ UNCHANGED <<item, file>>
        BY <1>5, <1>10 DEF ReadMissing, Only
    <2>2. Typed'
        BY <1>10, BodyTyped
    <2>3. PICK r \in RequestType : r = [x EXCEPT !.pc = "wait", !.dls = item.dls]
        BY <2>1, <2>2 DEF Goes, Typed
    <2>4. r.got = x.got /\ r.since = x.since
        BY <2>3 DEF RequestType
    <2>5. Recent(r, purger.version)
        BY <1>5, <2>4, RecentStays
    <2> QED BY <1>3, <2>1, <2>3, <2>5, FreshStep
<1>11. CASE Downloaded(h)
    BY <1>2, <1>11 DEF Downloaded
<1>12. CASE DownloadedGone(h)
    <2> DEFINE v == IF request[h].at > request[h].dls THEN Hole ELSE upstream.version
               r == [x EXCEPT !.pc = "body", !.at = request[h].at + 1, !.dls = Nil, !.gone = FALSE,
                              !.got = @ \cup {v}]
    <2>1. Goes(h, r) /\ UNCHANGED <<item, file>>
        BY <1>5, <1>12 DEF DownloadedGone, Only
    <2>2. r.got = x.got \cup {v} /\ r.since = x.since
        BY DEF RequestType
    <2>3. Recent(x, purger.version) /\ purger.version <= upstream.version
        BY <1>5 DEF FreshInv
    <2>4. x.since \in Int /\ purger.version \in Int /\ upstream.version \in Int
        BY VersionNumbers
    <2>5. Fresh(v, x.since)
        BY <2>3, <2>4 DEF Recent, Fresh
    <2> HIDE DEF r, v
    <2>6. Recent(r, purger.version)
        BY <2>2, <2>3, <2>5 DEF Recent
    <2> QED BY <1>3, <2>1, <2>6, FreshStep
<1>13. CASE DownloadFails(h)
    BY <1>4, <1>6, <1>13 DEF DownloadFails, Only
<1> QED BY <1>7, <1>8, <1>9, <1>10, <1>11, <1>12, <1>13

\* The cache, the purger and the upstream: a download brings the present version, a PURGE
\* notes it when everything older is gone.
LEMMA WorldFresh ==
    ASSUME Typed, FreshInv,
           \/ \E b \in Blocks : Fetch(b)
           \/ PurgeMapping \/ PurgeCache \/ Restart(TRUE) \/ Restart(FALSE)
           \/ Outage \/ Recovers \/ Changes
    PROVE  FreshInv'
<1>1. /\ purger.version \in Int /\ upstream.version \in Int /\ purger.version <= upstream.version
      /\ purger.version >= 0
    BY VersionNumbers, MaxSizeType DEF FreshInv, Typed, Versions
<1>2. PICK u \in [pc : {"idle", "cache"}, version : Versions \cup {0}],
           w \in [up : BOOLEAN, version : Versions], y \in ItemType, f \in FileType :
         u = purger /\ w = upstream /\ y = item /\ f = file
    BY DEF Typed
<1>3. /\ Held(item, file) /\ DOMAIN request = Requests
      /\ \A b \in Blocks : Fresh(file.data[b], purger.version)
    BY DEF FreshInv, Typed
<1>4. \A h \in Requests : request[h] \in RequestType /\ Recent(request[h], purger.version)
    BY RequestAt DEF FreshInv
<1>5. ASSUME \/ request' = request
             \/ request' = [h \in Requests |-> Disturbed(request[h])]
             \/ request' = [h \in Requests |-> Orphaned(request[h])],
             NEW v \in Int, purger.version <= v
      PROVE  \A h \in Requests : Recent(request'[h], v)
    <2>1. ASSUME NEW h \in Requests
          PROVE  Recent(request'[h], v)
        <3>1. request'[h] \in {request[h], Disturbed(request[h]), Orphaned(request[h])}
            BY <1>5
        <3>2. request[h] \in RequestType /\ Recent(request[h], purger.version)
            BY <1>4
        <3>3. request'[h].got = request[h].got /\ request'[h].since = request[h].since
            BY <3>1, <3>2, DisturbedType
        <3>4. request[h].since \in Int
            BY <3>2, VersionNumbers
        <3> QED BY <1>1, <1>5, <3>2, <3>3, <3>4 DEF Recent
    <2> QED BY <2>1
<1>6. CASE \E b \in Blocks : Fetch(b)
    <2>1. PICK b \in Blocks : Fetch(b)
        BY <1>6
    <2>2. PICK s : item' = [y EXCEPT !.rs = s]
        BY <1>2, <2>1 DEF Fetch
    <2>3. item'.open = item.open /\ item'.in = item.in
        BY <1>2, <2>2 DEF ItemType
    <2>4. PICK d \in [Blocks -> Contents] : d = [f.data EXCEPT ![b] = upstream.version]
        BY <1>2 DEF FileType, Contents
    <2>5. file' = [f EXCEPT !.data = d]
        BY <1>2, <2>1, <2>4 DEF Fetch
    <2>6. file'.exists = file.exists /\ file'.data = d
        BY <1>2, <2>5 DEF FileType
    <2>7. \A c \in Blocks : d[c] = IF c = b THEN upstream.version ELSE file.data[c]
        BY <1>2, <2>4 DEF FileType
    <2>8. item.open /\ file.exists
        BY <1>3, <2>1 DEF Fetch, Held
    <2>9. Held(item', file')
        BY <1>3, <2>3, <2>6, <2>8 DEF Held
    <2>10. \A c \in Blocks : Fresh(file'.data[c], purger.version)
        BY <1>1, <1>3, <2>6, <2>7 DEF Fresh
    <2>11. UNCHANGED <<request, purger, upstream>>
        BY <2>1 DEF Fetch
    <2> QED BY <1>1, <1>4, <2>9, <2>10, <2>11 DEF FreshInv
<1>7. CASE PurgeMapping
    <2>1. purger' = [u EXCEPT !.pc = "cache"] /\ UNCHANGED <<item, file, upstream>>
        BY <1>2, <1>7 DEF PurgeMapping
    <2>2. purger'.version = purger.version
        BY <1>2, <2>1
    <2>3. \A h \in Requests : Recent(request'[h], purger.version)
        BY <1>1, <1>5, <1>7 DEF PurgeMapping
    <2> QED BY <1>1, <1>3, <2>1, <2>2, <2>3 DEF FreshInv
<1>8. CASE PurgeCache
    <2>1. purger' = [u EXCEPT !.pc = "idle", !.version = upstream.version]
        BY <1>2, <1>8 DEF PurgeCache
    <2>2. purger'.version = upstream.version /\ UNCHANGED upstream
        BY <1>8, <2>1 DEF PurgeCache
    <2>3. \A h \in Requests : Recent(request'[h], upstream.version)
        BY <1>1, <1>5, <1>8 DEF PurgeCache
    <2>4. /\ item' = NotInMap /\ file' \in {NoFile, file} /\ (file' = file => ~item.in \/ file = NoFile)
        BY <1>8 DEF PurgeCache
    <2>5. ~file'.exists /\ \A b \in Blocks : file'.data[b] = Hole
        BY <1>3, <2>4 DEF Held, NoFile
    <2>6. Held(item', file')
        BY <2>4, <2>5 DEF Held, NotInMap
    <2>7. \A b \in Blocks : Fresh(file'.data[b], upstream.version)
        BY <2>5 DEF Fresh
    <2> QED BY <1>1, <2>2, <2>3, <2>6, <2>7 DEF FreshInv
<1>9. ASSUME NEW Keep \in BOOLEAN, Restart(Keep)
      PROVE  FreshInv'
    <2>1. purger' = [u EXCEPT !.pc = "idle"] /\ UNCHANGED upstream
        BY <1>2, <1>9 DEF Restart
    <2>2. purger'.version = purger.version
        BY <1>2, <2>1
    <2>3. file' \in {file, NoFile} /\ item' = IF file'.exists THEN NewItem(file') ELSE NotInMap
        BY <1>9 DEF Restart
    <2>4. /\ file' \in FileType /\ \A b \in Blocks : ~file'.exists => file'.data[b] = Hole
        <3>1. file \in FileType /\ NoFile \in FileType
            BY <1>2, EmptyTypes
        <3>2. \A b \in Blocks : NoFile.data[b] = Hole
            BY DEF NoFile
        <3> QED BY <1>3, <2>3, <3>1, <3>2 DEF Held
    <2>5. Held(item', file')
        <3>1. CASE file'.exists
            BY <2>3, <2>4, <3>1, ItemHeld
        <3>2. CASE ~file'.exists
            BY <2>3, <2>4, <3>2 DEF Held, NotInMap
        <3> QED BY <3>1, <3>2
    <2>6. \A b \in Blocks : Fresh(file'.data[b], purger.version)
        BY <1>3, <2>3 DEF Fresh, NoFile
    <2>7. \A h \in Requests : Recent(request'[h], purger.version)
        <3>1. \A h \in Requests : request'[h] = Idle
            BY <1>9 DEF Restart
        <3> QED BY <1>1, <3>1, AnsweredType DEF Recent
    <2> QED BY <1>1, <2>1, <2>2, <2>5, <2>6, <2>7 DEF FreshInv
<1>10. CASE Outage \/ Recovers \/ Changes
    <2>1. UNCHANGED <<item, file, purger>>
        BY <1>10 DEF Outage, Recovers, Changes, Env
    <2>2. \A h \in Requests : Recent(request'[h], purger.version)
        BY <1>1, <1>5, <1>10 DEF Outage, Recovers, Changes
    <2>3. purger.version <= upstream'.version
        <3>1. CASE Outage
            <4>1. upstream' = [w EXCEPT !.up = FALSE]
                BY <1>2, <3>1 DEF Outage
            <4> QED BY <1>1, <1>2, <4>1
        <3>2. CASE Recovers
            <4>1. upstream' = [w EXCEPT !.up = TRUE]
                BY <1>2, <3>2 DEF Recovers
            <4> QED BY <1>1, <1>2, <4>1
        <3>3. CASE Changes
            <4>1. upstream' = [w EXCEPT !.version = upstream.version + 1]
                BY <1>2, <3>3 DEF Changes
            <4> QED BY <1>1, <1>2, <4>1
        <3> QED BY <1>10, <3>1, <3>2, <3>3
    <2> QED BY <1>3, <2>1, <2>2, <2>3 DEF FreshInv
<1> QED BY <1>6, <1>7, <1>8, <1>9, <1>10

\* FreshInv is an invariant, beside the types.
LEMMA FreshAlways ==
    /\ Init => FreshInv
    /\ Typed /\ FreshInv /\ [Next]_vars => FreshInv'
<1>1. ASSUME Init
      PROVE  FreshInv
    <2>1. Held(item, file) /\ \A b \in Blocks : Fresh(file.data[b], purger.version)
        BY <1>1 DEF Init, Held, NotInMap, NoFile, Fresh
    <2>2. \A h \in Requests : Recent(request[h], purger.version)
        BY <1>1, AnsweredType DEF Init, Recent
    <2> QED BY <1>1, <2>1, <2>2 DEF Init, FreshInv
<1>2. ASSUME Typed, FreshInv, [Next]_vars
      PROVE  FreshInv'
    <2>1. ASSUME NEW h \in Requests, Arrive(h) \/ Serve(h)
          PROVE  FreshInv'
        <3>1. CASE Arrive(h)
            BY <1>2, <3>1, ArriveFresh
        <3>2. CASE Serve(h)
            BY <1>2, <3>2, OpeningFresh, BodyFresh DEF Serve
        <3> QED BY <2>1, <3>1, <3>2
    <2>2. CASE UNCHANGED vars
        BY <1>2, <2>2 DEF FreshInv, Recent, Fresh, Held, vars
    <2> QED BY <1>2, <2>1, <2>2, WorldFresh DEF Next
<1> QED BY <1>1, <1>2

\* What was fetched before a PURGE was answered is sent to nobody who asks after it, for
\* any sizes of the versions; a hole may be, when the size of the content changes.
THEOREM NothingStale == Spec => []NothingStaleIsSent
<1>1. FreshInv => NothingStaleIsSent
    BY DEF FreshInv, Recent, Fresh, NothingStaleIsSent
<1> QED BY <1>1, InitTyped, NextTyped, FreshAlways, PTL DEF Spec

-------------------------------------------------------------------------------
(* Content that keeps its size: no hole is sent, lengths are right *)

OneSize == \A v, w \in Versions : SizeOf[v] = SizeOf[w]

\* What the ranges list is in the file, which has the size of the content; so has an open item
Whole(i, f) ==
    /\ \A b \in Blocks : b \in i.rs \cup f.meta => f.data[b] # Hole
    /\ f.exists => f.size = MaxSize
    /\ i.open => i.size = MaxSize /\ i.dls \in {Unknown, MaxSize}
    /\ i.o \in {Unknown, Nil, MaxSize}

\* The sizes a request has been told are that of the content; it waits for a block of the
\* content, of an item that is open as long as no PURGE has made it gone
Sound(r, n, open) ==
    /\ r.pc = "open" => r.head \in {Unknown, MaxSize}
    /\ r.pc = "node" => r.size \in {0, MaxSize}
    /\ r.pc \in {"body", "wait"} => r.to <= MaxSize /\ (n # 0 => r.size = MaxSize)
    /\ r.pc = "wait" => r.at <= MaxSize /\ r.dls \in {Unknown, MaxSize} /\ (r.gone \/ open)
    /\ Hole \notin r.got

SameInv ==
    /\ Whole(item, file)
    /\ node \in {Nil, 0, MaxSize}
    /\ \A h \in Requests : Sound(request[h], node, item.open)

\* Content that keeps its size has the size of the largest version.
LEMMA SizeIsMaxSize ==
    ASSUME OneSize
    PROVE  /\ \A v \in Versions : SizeOf[v] = MaxSize
           /\ Typed => Now = MaxSize
<1>1. \E n \in {SizeOf[v] : v \in Versions} : \A v \in Versions : SizeOf[v] <= n
    <2>1. SizeOf \in Seq(Nat) /\ SizeOf # <<>>
        BY ProxyAssumption
    <2> QED BY <2>1, SequenceMaximum DEF Versions
<1>2. MaxSize \in {SizeOf[v] : v \in Versions}
    BY <1>1 DEF MaxSize
<1>3. \A v \in Versions : SizeOf[v] = MaxSize
    BY <1>2 DEF OneSize
<1>4. Typed => upstream.version \in Versions
    BY DEF Typed
<1> QED BY <1>3, <1>4 DEF Now

\* The step of a request that leaves cache and node in order, and its own record.
LEMMA SameStep ==
    ASSUME Typed, SameInv, NEW h \in Requests, NEW r, Goes(h, r),
           Whole(item', file'), node' \in {Nil, 0, MaxSize}, node # Nil => node' = node,
           item.open => item'.open, Sound(r, node', item'.open)
    PROVE  SameInv'
<1>1. request' = [request EXCEPT ![h] = r] /\ DOMAIN request = Requests
    BY DEF Goes, Typed
<1>2. ASSUME NEW x \in Requests
      PROVE  Sound(request'[x], node', item'.open)
    <2>1. CASE x = h
        BY <1>1, <2>1
    <2>2. CASE x # h
        <3>1. request'[x] = request[x]
            BY <1>1, <2>2
        <3>2. request[x].pc \in {"body", "wait"} => node # Nil
            BY RequestAt DEF AfterNode
        <3>3. Sound(request[x], node, item.open)
            BY DEF SameInv
        <3> QED BY <3>1, <3>2, <3>3 DEF Sound
    <2> QED BY <2>1, <2>2
<1>3. (\A x \in Requests : Sound(request[x], node, item.open))'
    BY <1>2
<1> QED BY <1>3 DEF SameInv, Whole

\* A request that is not under way has nothing that could be wrong.
LEMMA IdleSound ==
    \A n, o : /\ Sound(Idle, n, o)
              /\ \A s \in Statuses : Sound(Answered(s), n, o)
<1>1. Hole \notin {}
    OBVIOUS
<1> QED BY <1>1, AnsweredType DEF Sound

\* What Cache.Item and newItem make of what is in order is in order.
LEMMA ItemWhole ==
    ASSUME Typed, FreshInv, SameInv
    PROVE  /\ Whole(Item, file) /\ Whole(NotInMap, NoFile)
           /\ \A f \in {file, NoFile} : Whole(NewItem(f), f) /\ Whole(NotInMap, f)
<1>1. item \in ItemType /\ file \in FileType /\ NoFile \in FileType
    BY EmptyTypes DEF Typed
<1>2. Whole(item, file)
    BY DEF SameInv
<1>3. \A f \in {file, NoFile} : /\ \A b \in Blocks : b \in f.meta => f.data[b] # Hole
                                /\ f.exists => f.size = MaxSize
    BY <1>2 DEF Whole, NoFile
<1>4. \A f \in {file, NoFile} : Whole(NewItem(f), f)
    BY <1>1, <1>3, ItemTypes DEF Whole
<1>5. ASSUME NEW f \in {file, NoFile}
      PROVE  Whole(NotInMap, f)
    BY <1>3 DEF Whole, NotInMap
<1>6. Whole(Item, file)
    BY <1>2, <1>4 DEF Item
<1> QED BY <1>4, <1>5, <1>6

\* The entry and the size are looked up.
LEMMA LookUpSame ==
    ASSUME OneSize, Typed, SameInv, NEW h \in Requests,
           Arrive(h) \/ LookUpEntry(h) \/ HeadRequest(h)
    PROVE  SameInv'
<1>1. PICK x \in RequestType : x = request[h]
    BY RequestAt
<1>2. Hole \notin x.got /\ Hole \notin {}
    BY <1>1 DEF SameInv, Sound
<1>3. UNCHANGED <<item, file, node>>
    BY DEF Arrive, LookUpEntry, HeadRequest, Only
<1>4. ASSUME NEW r, Goes(h, r), r.pc \in {"get", "head", "open"}, Hole \notin r.got,
             r.pc = "open" => r.head \in {Unknown, MaxSize}
      PROVE  SameInv'
    <2>1. Sound(r, node', item'.open)
        BY <1>4 DEF Sound
    <2> QED BY <1>3, <1>4, <2>1, SameStep DEF SameInv
<1>5. CASE Arrive(h)
    <2>1. PICK y \in RequestType : y = Idle /\ y.got = {}
        BY AnsweredType
    <2>2. PICK a, b, c : Goes(h, [y EXCEPT !.pc = "get", !.since = a, !.calm = b, !.cached = c])
        BY <1>5, <2>1 DEF Arrive
    <2> DEFINE r == [y EXCEPT !.pc = "get", !.since = a, !.calm = b, !.cached = c]
    <2>3. r.pc = "get" /\ r.got = {}
        BY <2>1 DEF RequestType
    <2> QED BY <1>2, <1>4, <2>2, <2>3
<1>6. CASE LookUpEntry(h)
    <2>1. \/ Goes(h, [x EXCEPT !.pc = "head"])
          \/ Goes(h, [x EXCEPT !.pc = "open", !.head = Unknown])
        BY <1>1, <1>6 DEF LookUpEntry, Only
    <2>2. [x EXCEPT !.pc = "head"].pc = "head" /\ [x EXCEPT !.pc = "head"].got = x.got
        BY DEF RequestType
    <2>3. /\ [x EXCEPT !.pc = "open", !.head = Unknown].pc = "open"
          /\ [x EXCEPT !.pc = "open", !.head = Unknown].head = Unknown
          /\ [x EXCEPT !.pc = "open", !.head = Unknown].got = x.got
        BY DEF RequestType
    <2> QED BY <1>2, <1>4, <2>1, <2>2, <2>3
<1>7. CASE HeadRequest(h)
    <2>1. PICK size \in {Now, Unknown} :
             Goes(h, [x EXCEPT !.pc = "open", !.head = size, !.calm = @ /\ size # Unknown])
        BY <1>1, <1>7 DEF HeadRequest, Only
    <2>2. PICK c \in BOOLEAN : c = (x.calm /\ size # Unknown)
        OBVIOUS
    <2> DEFINE r == [x EXCEPT !.pc = "open", !.head = size, !.calm = c]
    <2>3. Goes(h, r)
        BY <2>1, <2>2
    <2>4. r.pc = "open" /\ r.head = size /\ r.got = x.got
        BY DEF RequestType
    <2>5. size \in {Unknown, MaxSize}
        BY <2>1, SizeIsMaxSize
    <2> QED BY <1>2, <1>4, <2>3, <2>4, <2>5
<1> QED BY <1>5, <1>6, <1>7

\* Item.Open, of content that keeps its size.
LEMMA OpenSame ==
    ASSUME OneSize, Typed, FreshInv, SameInv, NEW h \in Requests,
           OpenAgain(h) \/ OpenFirst(h) \/ OpenFails(h)
    PROVE  SameInv'
<1>1. PICK x \in RequestType : x = request[h]
    BY RequestAt
<1>2. Hole \notin x.got /\ x.head \in {Unknown, MaxSize} /\ x.pc = "open"
    BY <1>1 DEF SameInv, Sound, OpenAgain, OpenFirst, OpenFails
<1>3. UNCHANGED node /\ Held(item, file) /\ Whole(item, file) /\ Whole(Item, file)
    BY ItemWhole DEF OpenAgain, OpenFirst, OpenFails, FreshInv, SameInv
<1>4. ASSUME NEW r, Goes(h, r), r.pc \in {"node", "stale"}, Hole \notin r.got,
             r.pc = "node" => r.size = MaxSize, Whole(item', file'), item.open => item'.open
      PROVE  SameInv'
    <2>1. Sound(r, node', item'.open)
        BY <1>4 DEF Sound
    <2> QED BY <1>3, <1>4, <2>1, SameStep DEF SameInv
<1>5. CASE OpenAgain(h)
    <2>1. PICK y \in ItemType : y = item
        BY RequestAt
    <2>2. item' = [y EXCEPT !.o = x.head, !.size = file.size] /\ UNCHANGED file
        BY <1>1, <1>5, <2>1 DEF OpenAgain
    <2>3. /\ item'.open = item.open /\ item'.o = x.head /\ item'.size = file.size
          /\ item'.rs = item.rs /\ item'.dls = item.dls
        BY <2>1, <2>2 DEF ItemType
    <2>4. file.size = MaxSize
        BY <1>3, <1>5 DEF OpenAgain, Held, Whole
    <2>5. Whole(item', file')
        BY <1>2, <1>3, <2>2, <2>3, <2>4 DEF Whole
    <2>6. Goes(h, [x EXCEPT !.pc = "node", !.head = Nil, !.size = file.size])
        BY <1>1, <1>5 DEF OpenAgain
    <2> DEFINE r == [x EXCEPT !.pc = "node", !.head = Nil, !.size = file.size]
    <2>7. r.pc = "node" /\ r.size = MaxSize /\ r.got = x.got
        BY <2>4 DEF RequestType
    <2> QED BY <1>2, <1>4, <2>3, <2>5, <2>6, <2>7
<1>6. CASE OpenFirst(h)
    <2>1. x.head \in Blocks \cup {Unknown} /\ (file.exists \/ x.head # Unknown)
        BY <1>1, <1>2, <1>6, MaxSizeType DEF OpenFirst
    <2>2. /\ file' = OpenedFile(x.head) /\ item' = OpenedItem(x.head)
        BY <1>1, <1>6 DEF OpenFirst
    <2>3. /\ file'.exists /\ file'.size = MaxSize
          /\ file'.meta = IF file.exists THEN Item.rs ELSE {}
          /\ file'.data = IF file.exists THEN file.data ELSE NoFile.data
          /\ item'.open /\ item'.o = x.head /\ item'.dls = x.head
          /\ item'.rs = file'.meta /\ item'.size = file'.size
        BY <1>2, <1>3, <2>1, <2>2, OpenedTypes DEF Whole
    <2>4. Whole(item', file')
        <3>1. \A b \in Blocks : b \in file'.meta => file'.data[b] # Hole
            BY <1>3, <2>3 DEF Whole
        <3> QED BY <1>2, <2>3, <3>1 DEF Whole
    <2>5. Goes(h, [x EXCEPT !.pc = "node", !.head = Nil, !.size = file'.size])
        BY <1>1, <1>6 DEF OpenFirst
    <2> DEFINE r == [x EXCEPT !.pc = "node", !.head = Nil, !.size = file'.size]
    <2>6. r.pc = "node" /\ r.size = MaxSize /\ r.got = x.got
        BY <2>3 DEF RequestType
    <2> HIDE DEF r
    <2>7. Goes(h, r)
        BY <2>5 DEF r
    <2> QED BY <1>2, <1>4, <2>3, <2>4, <2>6, <2>7
<1>7. CASE OpenFails(h)
    <2>1. PICK y \in ItemType : y = Item
        BY RequestAt
    <2>2. item' = [y EXCEPT !.o = x.head, !.rs = {}, !.size = 0] /\ file' = NoFile
        BY <1>1, <1>7, <2>1 DEF OpenFails
    <2>3. ~item.open /\ ~Item.open
        BY <1>7, ItemHeld DEF OpenFails
    <2>4. item'.open = Item.open /\ item'.o = x.head /\ item'.rs = {}
        BY <2>1, <2>2 DEF ItemType
    <2>5. Whole(item', file')
        BY <1>2, <2>2, <2>3, <2>4 DEF Whole, NoFile
    <2>6. PICK c \in BOOLEAN : c = (x.calm /\ ~NoSpace)
        OBVIOUS
    <2> DEFINE r == [x EXCEPT !.pc = "stale", !.head = Nil, !.calm = c]
    <2>7. Goes(h, r)
        BY <1>1, <1>7, <2>6 DEF OpenFails
    <2>8. r.pc = "stale" /\ r.got = x.got
        BY DEF RequestType
    <2> QED BY <1>2, <1>4, <2>3, <2>5, <2>7, <2>8
<1> QED BY <1>5, <1>6, <1>7

\* The stale answer, the node and the handle: a node has the size of the content, or 0
\* when it is made for an item that is not open.
LEMMA HandleSame ==
    ASSUME Typed, FreshInv, SameInv, NEW h \in Requests,
           TryStaleServe(h) \/ OpenStale(h) \/ EnsureNode(h) \/ OpenHandle(h)
    PROVE  SameInv'
<1>1. PICK x \in RequestType : x = request[h]
    BY RequestAt
<1>2. /\ Hole \notin x.got /\ Hole \notin {}
      /\ x.pc = "node" => x.size \in {0, MaxSize}
    BY <1>1 DEF SameInv, Sound
<1>3. /\ item' = Item /\ UNCHANGED file /\ Whole(Item, file)
      /\ Whole(item, file) /\ Held(item, file)
    BY ItemWhole DEF TryStaleServe, OpenStale, EnsureNode, OpenHandle, SameInv, FreshInv
<1>4. item.open => item'.open
    BY <1>3 DEF Held, Item
<1>5. ASSUME NEW s \in Statuses, Goes(h, Answered(s)), UNCHANGED node
      PROVE  SameInv'
    BY <1>3, <1>4, <1>5, IdleSound, SameStep DEF SameInv
<1>6. "500" \in Statuses /\ "304" \in Statuses /\ "416" \in Statuses
    BY DEF Statuses
<1>7. MaxSize \in Nat \ {0}
    BY MaxSizeType
<1>8. CASE TryStaleServe(h)
    <2> DEFINE r == [x EXCEPT !.pc = "openStale", !.stale = TRUE]
    <2>1. (Goes(h, r) \/ Goes(h, Answered("500"))) /\ UNCHANGED node
        BY <1>1, <1>8 DEF TryStaleServe
    <2>2. r.pc = "openStale" /\ r.got = x.got
        BY DEF RequestType
    <2> HIDE DEF r
    <2>3. Sound(r, node', item'.open)
        BY <1>2, <2>2 DEF Sound
    <2> QED BY <1>3, <1>4, <1>5, <1>6, <2>1, <2>3, SameStep DEF SameInv
<1>9. CASE OpenStale(h)
    <2> DEFINE z == IF item.open THEN item.size ELSE 0
               r == [x EXCEPT !.pc = "node", !.size = z]
    <2>1. Goes(h, r) /\ UNCHANGED node
        BY <1>1, <1>9 DEF OpenStale
    <2>2. r.pc = "node" /\ r.got = x.got /\ r.size = z
        BY DEF RequestType
    <2>3. z \in {0, MaxSize}
        BY <1>3 DEF Whole
    <2> HIDE DEF r, z
    <2>4. Sound(r, node', item'.open)
        BY <1>2, <2>2, <2>3 DEF Sound
    <2> QED BY <1>3, <1>4, <2>1, <2>4, SameStep DEF SameInv
<1>10. CASE EnsureNode(h)
    <2> DEFINE r == [x EXCEPT !.pc = "handle"]
    <2>1. Goes(h, r)
        BY <1>1, <1>10 DEF EnsureNode
    <2>2. r.pc = "handle" /\ r.got = x.got
        BY DEF RequestType
    <2> HIDE DEF r
    <2>3. Sound(r, node', item'.open)
        BY <1>2, <2>2 DEF Sound
    <2>4. node' \in {Nil, 0, MaxSize} /\ (node # Nil => node' = node)
        BY <1>1, <1>2, <1>3, <1>10 DEF EnsureNode, Whole, SameInv
    <2> QED BY <1>3, <1>4, <2>1, <2>3, <2>4, SameStep
<1>11. CASE OpenHandle(h)
    <2>1. node \in {0, MaxSize} /\ UNCHANGED node
        BY <1>11, RequestAt DEF OpenHandle, AfterNode, SameInv
    <2>2. HandleSize <= MaxSize /\ HandleSize \in Int /\ (node # 0 => HandleSize = MaxSize)
        BY <1>3, <1>7, <2>1 DEF HandleSize, Whole
    <2>3. PICK range \in Ranges :
             \/ Goes(h, Answered("304")) \/ Goes(h, Answered("416"))
             \/ Goes(h, [x EXCEPT !.pc = "body", !.size = HandleSize, !.at = range[1],
                               !.to = IF range[2] < HandleSize THEN range[2] ELSE HandleSize])
        BY <1>1, <1>11 DEF OpenHandle
    <2> DEFINE t == IF range[2] < HandleSize THEN range[2] ELSE HandleSize
               r == [x EXCEPT !.pc = "body", !.size = HandleSize, !.at = range[1], !.to = t]
    <2>4. r.pc = "body" /\ r.size = HandleSize /\ r.to = t /\ r.got = x.got
        BY DEF RequestType
    <2>5. range[2] \in Int
        BY ProxyAssumption, MaxSizeType
    <2>6. t <= MaxSize
        BY <1>7, <2>2, <2>5
    <2>7. Goes(h, r) \/ Goes(h, Answered("304")) \/ Goes(h, Answered("416"))
        BY <2>3
    <2> HIDE DEF r, t
    <2>8. Sound(r, node', item'.open)
        BY <1>2, <2>1, <2>2, <2>4, <2>6 DEF Sound
    <2> QED BY <1>3, <1>4, <1>5, <1>6, <2>1, <2>7, <2>8, SameStep DEF SameInv
<1> QED BY <1>8, <1>9, <1>10, <1>11

\* A read of an open item ends: it takes a block that the ranges list.
LEMMA DeliverSame ==
    ASSUME Typed, FreshInv, SameInv, NEW h \in Requests, request[h].pc \in {"body", "wait"},
           item.open, request[h].at \in item.rs, Deliver(h)
    PROVE  SameInv'
<1>1. PICK x \in RequestType : x = request[h]
    BY RequestAt
<1>2. Whole(item, file) /\ Held(item, file) /\ Sound(x, node, item.open)
    BY <1>1 DEF SameInv, FreshInv
<1>3. item.size = MaxSize /\ file.size = MaxSize /\ ~CorrectsSize
    BY <1>2 DEF Whole, Held, CorrectsSize
<1> DEFINE b == request[h].at
<1>4. /\ file' = file /\ item' = [item EXCEPT !.size = file.size] /\ UNCHANGED node
      /\ Goes(h, IF b > file.size THEN Answered("cut")
                 ELSE [request[h] EXCEPT !.pc = "body", !.at = b + 1, !.dls = Nil,
                                         !.got = @ \cup {file.data[b]}])
    BY <1>3 DEF Deliver
<1>5. PICK y \in ItemType : y = item
    BY RequestAt
<1>6. b \in Blocks /\ file.data[b] # Hole
    BY <1>2, <1>5 DEF ItemType, Whole
<1>7. item' = item
    <2>1. item' = [y EXCEPT !.size = y.size]
        BY <1>3, <1>4, <1>5
    <2> QED BY <1>5, <2>1 DEF ItemType
<1> DEFINE r == [x EXCEPT !.pc = "body", !.at = b + 1, !.dls = Nil, !.got = @ \cup {file.data[b]}]
<1>8. r.pc = "body" /\ r.to = x.to /\ r.size = x.size /\ r.got = x.got \cup {file.data[b]}
    BY DEF RequestType
<1>9. Goes(h, r)
    <2>1. ~(b > file.size)
        BY <1>3, <1>6, MaxSizeType
    <2> QED BY <1>1, <1>4, <2>1
<1> HIDE DEF r
<1>10. Sound(r, node', item'.open)
    BY <1>1, <1>2, <1>4, <1>6, <1>7, <1>8 DEF Sound
<1> QED BY <1>2, <1>4, <1>7, <1>9, <1>10, SameStep DEF SameInv

\* The body is sent: nothing beyond the end is asked for, so there is no hole to take.
LEMMA BodySame ==
    ASSUME Typed, FreshInv, SameInv, NEW h \in Requests,
           \/ Served(h) \/ ReadUnopened(h) \/ ReadPresent(h) \/ ReadMissing(h) \/ Downloaded(h)
           \/ DownloadedGone(h) \/ DownloadFails(h)
    PROVE  SameInv'
<1>1. PICK x \in RequestType : x = request[h] /\ x.pc \in {"body", "wait"}
    BY RequestAt DEF Served, ReadUnopened, ReadPresent, ReadMissing, Downloaded, DownloadedGone,
          DownloadFails
<1>2. Whole(item, file) /\ Held(item, file) /\ Sound(x, node, item.open) /\ Whole(Item, file)
    BY <1>1, ItemWhole DEF SameInv, FreshInv
<1>3. x.at \in Nat \ {0} /\ x.to \in Int /\ MaxSize \in Nat \ {0} /\ Blocks = 1 .. MaxSize
    BY MaxSizeType DEF RequestType
<1>4. item.open => Item.open
    BY <1>2 DEF Item, Held
<1>5. ASSUME NEW s \in Statuses, Goes(h, Answered(s)), item' \in {item, Item}, UNCHANGED <<file, node>>
      PROVE  SameInv'
    BY <1>2, <1>4, <1>5, IdleSound, SameStep DEF SameInv
<1>6. "200" \in Statuses /\ "stale" \in Statuses /\ "cut" \in Statuses
    BY DEF Statuses
<1>7. CASE Served(h)
    <2>1. PICK s \in {"200", "stale"} : Goes(h, Answered(s)) /\ UNCHANGED <<item, file, node>>
        BY <1>7 DEF Served, Only
    <2> QED BY <1>5, <1>6, <2>1
<1>8. CASE ReadUnopened(h)
    BY <1>5, <1>6, <1>8 DEF ReadUnopened
<1>9. CASE ReadPresent(h)
    <2>1. item.open /\ (x.at \in item.rs \/ x.at > item.size) /\ x.at <= x.to /\ x.pc = "body"
        BY <1>1, <1>9 DEF ReadPresent
    <2>2. x.at \in item.rs
        BY <1>2, <1>3, <2>1 DEF Whole, Sound
    <2>3. Deliver(h) \/ (Goes(h, Answered("cut")) /\ UNCHANGED <<item, file, node>>)
        BY <1>9 DEF ReadPresent, Only
    <2> QED BY <1>1, <1>5, <1>6, <2>1, <2>2, <2>3, DeliverSame
<1>10. CASE ReadMissing(h)
    <2> DEFINE r == [x EXCEPT !.pc = "wait", !.dls = item.dls]
    <2>1. Goes(h, r) /\ UNCHANGED <<item, file, node>> /\ item.open /\ x.at <= x.to /\ x.pc = "body"
        BY <1>1, <1>10 DEF ReadMissing, Only
    <2>2. /\ r.pc = "wait" /\ r.dls = item.dls /\ r.at = x.at /\ r.to = x.to /\ r.size = x.size
          /\ r.got = x.got /\ r.gone = x.gone
        BY DEF RequestType
    <2> HIDE DEF r
    <2>3. x.at <= MaxSize
        BY <1>2, <1>3, <2>1 DEF Sound
    <2>4. Sound(r, node', item'.open)
        BY <1>2, <2>1, <2>2, <2>3 DEF Sound, Whole
    <2> QED BY <1>2, <2>1, <2>4, SameStep DEF SameInv
<1>11. CASE Downloaded(h)
    <2>1. /\ x.pc = "wait" /\ ~x.gone /\ Deliver(h)
          /\ x.at \in item.rs \/ (item.dls # Unknown /\ x.at > item.dls)
        BY <1>1, <1>11 DEF Downloaded
    <2>2. item.open /\ x.at \in item.rs
        BY <1>2, <1>3, <2>1 DEF Whole, Sound
    <2> QED BY <1>1, <2>1, <2>2, DeliverSame
<1>12. CASE DownloadedGone(h)
    <2> DEFINE v == IF request[h].at > request[h].dls THEN Hole ELSE upstream.version
               r == [x EXCEPT !.pc = "body", !.at = request[h].at + 1, !.dls = Nil, !.gone = FALSE,
                              !.got = @ \cup {v}]
    <2>1. Goes(h, r) /\ UNCHANGED <<item, file, node>> /\ x.pc = "wait" /\ x.dls # Unknown
        BY <1>1, <1>12 DEF DownloadedGone, Only
    <2>2. r.pc = "body" /\ r.to = x.to /\ r.size = x.size /\ r.got = x.got \cup {v}
        BY DEF RequestType
    <2>3. v # Hole
        BY <1>1, <1>2, <1>3, <2>1, Distinct DEF Sound, Typed
    <2> HIDE DEF r, v
    <2>4. Sound(r, node', item'.open)
        BY <1>1, <1>2, <2>1, <2>2, <2>3 DEF Sound
    <2> QED BY <1>2, <2>1, <2>4, SameStep DEF SameInv
<1>13. CASE DownloadFails(h)
    BY <1>5, <1>6, <1>13 DEF DownloadFails, Only
<1> QED BY <1>7, <1>8, <1>9, <1>10, <1>11, <1>12, <1>13

\* The cache, the purger and the upstream.
LEMMA WorldSame ==
    ASSUME Typed, FreshInv, SameInv,
           \/ \E b \in Blocks : Fetch(b)
           \/ PurgeMapping \/ PurgeCache \/ Restart(TRUE) \/ Restart(FALSE)
           \/ Outage \/ Recovers \/ Changes
    PROVE  SameInv'
<1>1. \A h \in Requests : request[h] \in RequestType /\ Sound(request[h], node, item.open)
    BY RequestAt DEF SameInv
<1>2. Whole(item, file) /\ node \in {Nil, 0, MaxSize}
    BY DEF SameInv
<1>3. ASSUME \/ request' = request /\ item'.open = item.open
             \/ request' = [h \in Requests |-> Disturbed(request[h])] /\ item'.open = item.open
             \/ request' = [h \in Requests |-> Orphaned(request[h])],
             UNCHANGED node
      PROVE  \A h \in Requests : Sound(request'[h], node', item'.open)
    <2>1. ASSUME NEW h \in Requests
          PROVE  Sound(request'[h], node', item'.open)
        <3>1. PICK x \in RequestType : x = request[h] /\ Sound(x, node, item.open)
            BY <1>1
        <3>2. CASE request' = request /\ item'.open = item.open
            BY <1>3, <3>1, <3>2
        <3>3. CASE request' = [g \in Requests |-> Disturbed(request[g])] /\ item'.open = item.open
            <4>1. request'[h] = Disturbed(x)
                BY <3>1, <3>3
            <4> QED BY <1>3, <3>1, <3>3, <4>1, DisturbedType DEF Sound
        <3>4. CASE request' = [g \in Requests |-> Orphaned(request[g])]
            <4>1. request'[h] = Orphaned(x)
                BY <3>1, <3>4
            <4> QED BY <1>3, <3>1, <4>1, DisturbedType DEF Sound
        <3> QED BY <1>3, <3>2, <3>3, <3>4
    <2> QED BY <2>1
<1>4. ASSUME Whole(item', file'), node' \in {Nil, 0, MaxSize},
             \A h \in Requests : Sound(request'[h], node', item'.open)
      PROVE  SameInv'
    <2>1. (\A h \in Requests : Sound(request[h], node, item.open))'
        BY <1>4
    <2> QED BY <1>4, <2>1 DEF SameInv, Whole
<1>5. CASE \E b \in Blocks : Fetch(b)
    <2>1. PICK b \in Blocks : Fetch(b)
        BY <1>5
    <2>2. PICK y \in ItemType, f \in FileType : y = item /\ f = file
        BY RequestAt DEF Typed
    <2>3. item' = [y EXCEPT !.rs = @ \cup {b}] /\ UNCHANGED <<node, request>>
        BY <2>1, <2>2 DEF Fetch
    <2>4. /\ item'.open = item.open /\ item'.size = item.size /\ item'.dls = item.dls
          /\ item'.o = item.o /\ item'.rs = item.rs \cup {b}
        BY <2>2, <2>3 DEF ItemType
    <2>5. PICK d \in [Blocks -> Contents] : d = [f.data EXCEPT ![b] = upstream.version]
        BY <2>2 DEF FileType, Contents, Typed
    <2>6. file' = [f EXCEPT !.data = d]
        BY <2>1, <2>2, <2>5 DEF Fetch
    <2>7. /\ file'.data = d /\ file'.exists = file.exists /\ file'.size = file.size
          /\ file'.meta = file.meta
        BY <2>2, <2>6 DEF FileType
    <2>8. \A c \in Blocks : d[c] = IF c = b THEN upstream.version ELSE file.data[c]
        BY <2>2, <2>5 DEF FileType
    <2>9. upstream.version # Hole
        BY Distinct DEF Typed
    <2>10. Whole(item', file')
        BY <1>2, <2>4, <2>7, <2>8, <2>9 DEF Whole
    <2> QED BY <1>2, <1>3, <1>4, <2>3, <2>4, <2>10
<1>6. CASE PurgeMapping \/ Outage \/ Recovers \/ Changes
    <2>1. UNCHANGED <<item, file, node>>
        BY <1>6 DEF PurgeMapping, Outage, Recovers, Changes, Env
    <2>2. request' = request \/ request' = [h \in Requests |-> Disturbed(request[h])]
        BY <1>6 DEF PurgeMapping, Outage, Recovers, Changes
    <2> QED BY <1>2, <1>3, <1>4, <2>1, <2>2
<1>7. CASE PurgeCache
    <2>1. item' = NotInMap /\ file' \in {file, NoFile} /\ UNCHANGED node
        BY <1>7 DEF PurgeCache
    <2>2. request' = [h \in Requests |-> Orphaned(request[h])]
        BY <1>7 DEF PurgeCache
    <2>3. Whole(item', file')
        BY <2>1, ItemWhole
    <2> QED BY <1>2, <1>3, <1>4, <2>1, <2>2, <2>3
<1>8. ASSUME NEW Keep \in BOOLEAN, Restart(Keep)
      PROVE  SameInv'
    <2>1. file' \in {file, NoFile} /\ item' \in {NewItem(file'), NotInMap} /\ node' = Nil
        BY <1>8 DEF Restart
    <2>2. Whole(item', file')
        BY <2>1, ItemWhole
    <2>3. \A h \in Requests : request'[h] = Idle
        BY <1>8 DEF Restart
    <2>4. \A h \in Requests : Sound(request'[h], node', item'.open)
        BY <2>3, IdleSound
    <2> QED BY <1>4, <2>1, <2>2, <2>4
<1> QED BY <1>5, <1>6, <1>7, <1>8

\* SameInv is an invariant, for content that keeps its size.
LEMMA SameAlways ==
    ASSUME OneSize
    PROVE  /\ Init => SameInv
           /\ Typed /\ FreshInv /\ SameInv /\ [Next]_vars => SameInv'
<1>1. ASSUME Init
      PROVE  SameInv
    <2>1. Whole(item, file)
        BY <1>1 DEF Init, Whole, NotInMap, NoFile
    <2>2. \A h \in Requests : Sound(request[h], node, item.open)
        BY <1>1, IdleSound DEF Init
    <2> QED BY <1>1, <2>1, <2>2 DEF Init, SameInv
<1>2. ASSUME Typed, FreshInv, SameInv, [Next]_vars
      PROVE  SameInv'
    <2>1. ASSUME NEW h \in Requests, Arrive(h) \/ Serve(h)
          PROVE  SameInv'
        <3>1. CASE Arrive(h) \/ LookUpEntry(h) \/ HeadRequest(h)
            BY <1>2, <3>1, LookUpSame
        <3>2. CASE OpenAgain(h) \/ OpenFirst(h) \/ OpenFails(h)
            BY <1>2, <3>2, OpenSame
        <3>3. CASE TryStaleServe(h) \/ OpenStale(h) \/ EnsureNode(h) \/ OpenHandle(h)
            BY <1>2, <3>3, HandleSame
        <3>4. CASE \/ Served(h) \/ ReadUnopened(h) \/ ReadPresent(h) \/ ReadMissing(h)
                   \/ Downloaded(h) \/ DownloadedGone(h) \/ DownloadFails(h)
            BY <1>2, <3>4, BodySame
        <3> QED BY <2>1, <3>1, <3>2, <3>3, <3>4 DEF Serve
    <2>2. CASE UNCHANGED vars
        BY <1>2, <2>2 DEF SameInv, Whole, Sound, vars
    <2> QED BY <1>2, <2>1, <2>2, WorldSame DEF Next
<1> QED BY <1>1, <1>2

\* No block a client is sent is a hole of the file, if all versions have one size: what the
\* ranges of item or metadata list is in the file, through PURGE, restart and failed opens.
THEOREM NoHole == ASSUME OneSize PROVE Spec => []NoHoleIsSent
<1>1. SameInv => NoHoleIsSent
    BY DEF SameInv, Sound, NoHoleIsSent
<1>2. Init => SameInv
    BY SameAlways
<1>3. Typed /\ FreshInv /\ SameInv /\ [Next]_vars => SameInv'
    BY SameAlways
<1> QED BY <1>1, <1>2, <1>3, InitTyped, NextTyped, FreshAlways, PTL DEF Spec

\* A PURGE is final, if all versions have one size.
THEOREM PurgeFinal == ASSUME OneSize PROVE Spec => []PurgeIsFinal
<1>1. NoHoleIsSent /\ NothingStaleIsSent => PurgeIsFinal
    BY DEF NoHoleIsSent, NothingStaleIsSent, PurgeIsFinal
<1> QED BY <1>1, NoHole, NothingStale, PTL

\* The length a client is promised is that of the object, if all versions have one size.
THEOREM LengthRight == ASSUME OneSize PROVE Spec => []LengthIsObjects
<1>1. Typed /\ SameInv => LengthIsObjects
    BY SizeIsMaxSize DEF SameInv, Sound, LengthIsObjects
<1>2. Init => SameInv
    BY SameAlways
<1>3. Typed /\ FreshInv /\ SameInv /\ [Next]_vars => SameInv'
    BY SameAlways
<1> QED BY <1>1, <1>2, <1>3, InitTyped, NextTyped, FreshAlways, PTL DEF Spec
==============================================================================
