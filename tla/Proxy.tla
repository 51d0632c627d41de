-------------------------------- MODULE Proxy --------------------------------
(***************************************************************************)
(* pkg/proxy/proxy.go: Handler.Serve, over the engine, for one URL.        *)
(* Requests run side by side; each is several steps, with the cache free   *)
(* between two of them, so that other requests, a PURGE, a change of the   *)
(* content or an outage of the upstream may come in between.  The cache is *)
(* what module CacheItem promises of it: the item of the name (Item.Open,  *)
(* ReadAt and Cache.Remove are one step each) and its file.  Sizes and     *)
(* offsets are in blocks.  The proxy never closes an item.  Passthrough    *)
(* and the metrics touch neither cache nor mapping and are left out.       *)
(***************************************************************************)
EXTENDS Integers, Sequences, FiniteSets

CONSTANTS
    Requests,           \* requests served at the same time
    SizeOf,             \* size of each version of the content, 1 .. n
    Ranges,             \* the ranges asked for: <<first, last>>
    Clients,            \* the versions clients have seen, 0 for none
    MaxEvents,          \* bound: outages, PURGE requests and restarts together
    Lengthless,         \* whether a HEAD may be answered without Content-Length
    NoSpace             \* whether _save may find the disk full

Versions == 1 .. Len(SizeOf)
MaxSize == CHOOSE n \in {SizeOf[v] : v \in Versions} : \A v \in Versions : SizeOf[v] <= n
Blocks == 1 .. MaxSize

ASSUME ProxyAssumption ==
    /\ SizeOf \in Seq(Nat \ {0}) /\ SizeOf # <<>> /\ IsFiniteSet(Requests)
    /\ Ranges \subseteq {r \in Blocks \X Blocks : r[1] <= r[2]}
    /\ Clients \subseteq Versions \cup {0}
    /\ MaxEvents \in Nat /\ Lengthless \in BOOLEAN /\ NoSpace \in BOOLEAN

Unknown == -1           \* the size of an object whose HEAD told none
Nil == -2               \* no object, no downloaders, no file node
Hole == 0               \* contents of a block nobody has fetched

VARIABLES
    upstream,           \* up, the version it serves
    entry,              \* h.mapping has an entry for the cache path
    item,               \* c.item[name]: in the map, open, o, downloaders, Rs, Size
    file,               \* the cache file and the Rs of its metadata
    node,               \* size of the File node in the root Dir, set once
    request,            \* per request: its place, its locals, what the client saw
    purger,             \* of PURGE: its place, the version at the last one
    events              \* outages, PURGE requests and restarts so far

vars == <<upstream, entry, item, file, node, request, purger, events>>

NoFile == [exists |-> FALSE, size |-> 0, data |-> [b \in Blocks |-> Hole], meta |-> {}]
NotInMap == [in |-> FALSE, open |-> FALSE, o |-> Nil, dls |-> Nil, rs |-> {}, size |-> 0]

\* at, to: the next block to send and the last; head: the size HEAD told; size: of the
\* item, then of the handle; got: the versions of the blocks sent; calm: the upstream was up
\* and nobody purged since it arrived; cached: everything was there when it arrived;
\* since: the version that was served when the last PURGE before it was answered;
\* dls: of the item it waits for, which a PURGE has made gone from the map
Idle == [pc |-> "idle", at |-> 1, to |-> 1, head |-> Nil, stale |-> FALSE,
         size |-> 0, got |-> {}, status |-> "none", calm |-> FALSE, cached |-> FALSE,
         since |-> 0, dls |-> Nil, gone |-> FALSE]

Init ==
    /\ upstream = [up |-> TRUE, version |-> 1]
    /\ entry = FALSE
    /\ item = NotInMap /\ file = NoFile /\ node = Nil
    /\ request = [h \in Requests |-> Idle]
    /\ purger = [pc |-> "idle", version |-> 0]
    /\ events = 0

Now == SizeOf[upstream.version]

-------------------------------------------------------------------------------
(* The cache *)

\* newItem: from what is on disk
NewItem(f) == [NotInMap EXCEPT !.in = TRUE, !.rs = f.meta, !.size = f.size]

\* Cache.Item
Item == IF item.in THEN item ELSE NewItem(file)

\* Item.Open on an item that is not open: the file of an object whose size is known
\* is made; the metadata is saved
OpenedFile(size) ==
    IF file.exists THEN [file EXCEPT !.meta = Item.rs]
                   ELSE [NoFile EXCEPT !.exists = TRUE, !.size = size]
OpenedItem(size) == [Item EXCEPT !.open = TRUE, !.o = size, !.dls = size,
                                 !.rs = OpenedFile(size).meta, !.size = OpenedFile(size).size]

\* Of all that Download may find missing, nothing is: the window after b
NothingAhead(b) == \A c \in Blocks : b < c /\ c <= item.size => c \in item.rs

\* readAt corrects the size before it reads
CorrectsSize == item.o \notin {Unknown, Nil} /\ item.o # item.size
Resized(n) == [file EXCEPT !.size = n, !.data = [b \in Blocks |-> IF b <= n THEN @[b] ELSE Hole]]

-------------------------------------------------------------------------------
(* Handler.Serve *)

\* A step of h that leaves everything but its own record, cache and node alone
Goes(h, rec) ==
    /\ request' = [request EXCEPT ![h] = rec]
    /\ UNCHANGED <<upstream, purger, events>>
Only(h, rec) == Goes(h, rec) /\ UNCHANGED <<entry, item, file, node>>

Answered(status) == [Idle EXCEPT !.status = status]

\* A request comes in; mapping.put
Arrive(h) ==
    /\ request[h].pc = "idle"
    /\ Goes(h, [Idle EXCEPT !.pc = "get", !.since = purger.version,
                    !.calm = upstream.up /\ purger.pc = "idle",
                    !.cached = item.open /\ 1 .. item.size \subseteq item.rs])
    /\ entry' = TRUE
    /\ UNCHANGED <<item, file, node>>

\* newHTTPFile: mapping.get.  A PURGE may have taken the entry away: no HEAD request
LookUpEntry(h) ==
    /\ request[h].pc = "get"
    /\ Only(h, IF entry THEN [request[h] EXCEPT !.pc = "head"]
                      ELSE [request[h] EXCEPT !.pc = "open", !.head = Unknown])

\* ... and HEAD
HeadRequest(h) ==
    /\ request[h].pc = "head"
    /\ \E size \in (IF upstream.up THEN {Now} ELSE {Unknown})
                       \cup {Unknown : l \in {TRUE} \cap {Lengthless}} :
          Only(h, [request[h] EXCEPT !.pc = "open", !.head = size,
                                     !.calm = @ /\ size # Unknown])

\* Engine.OpenCached: Cache.Item and Item.Open, of an item that is open ...
OpenAgain(h) ==
    /\ request[h].pc = "open" /\ item.open
    /\ item' = [item EXCEPT !.o = request[h].head, !.size = file.size]
    /\ Goes(h, [request[h] EXCEPT !.pc = "node", !.head = Nil, !.size = file.size])
    /\ UNCHANGED <<entry, file, node>>

\* Variant: the size of the object is not looked at
OpenFirstOfAnySize(h) ==
    LET size == request[h].head IN
    /\ request[h].pc = "open" /\ ~item.open
    /\ file' = OpenedFile(size) /\ item' = OpenedItem(size)
    /\ Goes(h, [request[h] EXCEPT !.pc = "node", !.head = Nil, !.size = file'.size])
    /\ UNCHANGED <<entry, node>>

\* ... or is not
OpenFirst(h) ==
    LET size == request[h].head IN
    /\ request[h].pc = "open" /\ ~item.open
    /\ file.exists \/ size # Unknown
    /\ file' = OpenedFile(size) /\ item' = OpenedItem(size)
    /\ Goes(h, [request[h] EXCEPT !.pc = "node", !.head = Nil, !.size = file'.size])
    /\ UNCHANGED <<entry, node>>

\* Open fails when there is no file and no size to make one of, or no space; it
\* removes what was there
OpenFails(h) ==
    /\ request[h].pc = "open" /\ ~item.open
    /\ NoSpace \/ (~file.exists /\ request[h].head = Unknown)
    /\ file' = NoFile
    /\ item' = [Item EXCEPT !.o = request[h].head, !.rs = {}, !.size = 0]
    /\ Goes(h, [request[h] EXCEPT !.pc = "stale",
                                  !.head = Nil, !.calm = @ /\ ~NoSpace])
    /\ UNCHANGED <<entry, node>>

\* tryStaleServe: Exists, or else status 500
TryStaleServe(h) ==
    /\ request[h].pc = "stale"
    /\ item' = Item
    /\ Goes(h, IF file.exists THEN [request[h] EXCEPT !.pc = "openStale", !.stale = TRUE]
                              ELSE Answered("500"))
    /\ UNCHANGED <<entry, file, node>>

\* ... and OpenCached without an object, which does not open the item
OpenStale(h) ==
    /\ request[h].pc = "openStale"
    /\ item' = Item
    /\ Goes(h, [request[h] EXCEPT !.pc = "node", !.size = IF item.open THEN item.size ELSE 0])
    /\ UNCHANGED <<entry, file, node>>

\* OpenCached looks for the node, and adds one with the size of the item
EnsureNode(h) ==
    /\ request[h].pc = "node"
    /\ item' = Item
    /\ node' = IF node # Nil THEN node ELSE IF file.exists THEN file.size ELSE request[h].size
    /\ Goes(h, [request[h] EXCEPT !.pc = "handle"])
    /\ UNCHANGED <<entry, file>>

\* Variant: the size last noted in the metadata
HandleSizeNoted == Item.size

\* newReadFileHandle: the size of the file if there is one, else of the node
HandleSize == IF file.exists THEN file.size ELSE node

\* OpenFile, then what Serve makes of node and handle, and of the version of which the
\* client sent the ETag, which is path and size of the node: 304; 416 beyond the end
\* of what is not empty;
\* or a body of the size of the handle
OpenHandle(h) ==
    /\ request[h].pc = "handle"
    /\ \E range \in Ranges, client \in Clients :
          /\ client <= upstream.version
          /\ Goes(h, IF ~request[h].stale /\ client # 0 /\ SizeOf[client] = node THEN Answered("304")
                     ELSE IF range[1] > HandleSize /\ HandleSize > 0 THEN Answered("416")
                     ELSE [request[h] EXCEPT !.pc = "body", !.size = HandleSize, !.at = range[1],
                               !.to = IF range[2] < HandleSize THEN range[2] ELSE HandleSize])
    /\ item' = Item
    /\ UNCHANGED <<entry, file, node>>

\* http.ServeContent has sent the whole range
Served(h) ==
    /\ request[h].pc = "body" /\ request[h].at > request[h].to
    /\ Only(h, Answered(IF request[h].stale THEN "stale" ELSE "200"))

\* ReadFileHandle.Read: Cache.Item, then ReadAt: it is not the item that was opened
ReadUnopened(h) ==
    /\ request[h].pc = "body" /\ request[h].at <= request[h].to /\ ~item.open
    /\ item' = Item
    /\ Goes(h, Answered("cut"))
    /\ UNCHANGED <<entry, file, node>>

\* The end of readAt
Deliver(h) ==
    LET f == IF CorrectsSize THEN Resized(item.o) ELSE file
        b == request[h].at
    IN  /\ file' = f /\ item' = [item EXCEPT !.size = f.size]
        /\ Goes(h, IF b > f.size THEN Answered("cut")
                   ELSE [request[h] EXCEPT !.pc = "body", !.at = b + 1, !.dls = Nil,
                                           !.got = @ \cup {f.data[b]}])
        /\ UNCHANGED <<entry, node>>

\* Variant: the downloader of an item opened without a size fails whatever is there
ReadPresentAlways(h) ==
    LET b == request[h].at IN
    /\ request[h].pc = "body" /\ b <= request[h].to /\ item.open
    /\ b \in item.rs \/ b > item.size
    /\ IF item.o = Unknown THEN Only(h, Answered("cut")) ELSE Deliver(h)

\* The block is there (or beyond the end): a downloader is started for the window
\* after it, which an object of unknown size does not allow
ReadPresent(h) ==
    LET b == request[h].at IN
    /\ request[h].pc = "body" /\ b <= request[h].to /\ item.open
    /\ b \in item.rs \/ b > item.size
    /\ IF item.dls = Unknown /\ ~NothingAhead(b) THEN Only(h, Answered("cut")) ELSE Deliver(h)

\* Download has to bring it
ReadMissing(h) ==
    LET b == request[h].at IN
    /\ request[h].pc = "body" /\ b <= request[h].to /\ item.open
    /\ b \notin item.rs /\ b <= item.size
    /\ Only(h, [request[h] EXCEPT !.pc = "wait", !.dls = item.dls])

\* Variant: Download is answered by the first block that comes
DownloadedAny(h) ==
    /\ request[h].pc = "wait" /\ ~request[h].gone /\ item.rs # {}
    /\ Deliver(h)

\* Download returns: the block is there, or beyond the end of the downloaders' object
Downloaded(h) ==
    LET b == request[h].at IN
    /\ request[h].pc = "wait" /\ ~request[h].gone
    /\ b \in item.rs \/ (item.dls # Unknown /\ b > item.dls)
    /\ Deliver(h)

\* A PURGE has taken the item away, but its downloaders work on
DownloadedGone(h) ==
    LET b == request[h].at IN
    /\ request[h].pc = "wait" /\ request[h].gone /\ request[h].dls # Unknown
    /\ b > request[h].dls \/ (upstream.up /\ b <= Now)
    /\ Only(h, [request[h] EXCEPT !.pc = "body", !.at = b + 1, !.dls = Nil, !.gone = FALSE,
                    !.got = @ \cup {IF b > request[h].dls THEN Hole ELSE upstream.version}])

\* Variant: Download takes its turn on the object of the last request
DownloadFailsOfObject(h) ==
    /\ request[h].pc = "wait"
    /\ ~upstream.up \/ item.o = Unknown
    /\ Only(h, Answered("cut"))

\* Download gives up: the upstream fails, or the object has no size, or not that size
DownloadFails(h) ==
    /\ request[h].pc = "wait"
    /\ ~upstream.up \/ request[h].dls = Unknown \/ request[h].at > Now
    /\ Only(h, Answered("cut"))

Serve(h) ==
    \/ LookUpEntry(h) \/ HeadRequest(h) \/ OpenAgain(h) \/ OpenFirst(h) \/ OpenFails(h)
    \/ TryStaleServe(h) \/ OpenStale(h) \/ EnsureNode(h) \/ OpenHandle(h) \/ Served(h)
    \/ ReadUnopened(h) \/ ReadPresent(h) \/ ReadMissing(h) \/ Downloaded(h)
    \/ DownloadedGone(h) \/ DownloadFails(h)

-------------------------------------------------------------------------------
\* A downloader of the item stores a block
Fetch(b) ==
    /\ item.open /\ upstream.up
    /\ b <= item.dls /\ b <= item.size /\ b <= Now /\ b \notin item.rs
    /\ item' = [item EXCEPT !.rs = @ \cup {b}]
    /\ file' = [file EXCEPT !.data[b] = upstream.version]
    /\ UNCHANGED <<upstream, entry, node, request, purger, events>>

Event == events < MaxEvents /\ events' = events + 1

\* What happens to the requests under way when upstream or cache fail them
Disturbed(r) == [r EXCEPT !.calm = FALSE]
Orphaned(r) == [r EXCEPT !.calm = FALSE, !.cached = FALSE, !.gone = @ \/ r.pc = "wait"]

\* handlePurge: the entry of the mapping ...
PurgeMapping ==
    /\ purger.pc = "idle" /\ Event
    /\ entry' = FALSE
    /\ purger' = [purger EXCEPT !.pc = "cache"]
    /\ request' = [h \in Requests |-> Disturbed(request[h])]
    /\ UNCHANGED <<upstream, item, file, node>>

\* Variant: an item in use is not removed
PurgeCacheNotInUse ==
    /\ purger.pc = "cache"
    /\ IF item.open THEN UNCHANGED <<item, file>> ELSE item' = NotInMap /\ file' = NoFile
    /\ purger' = [purger EXCEPT !.pc = "idle", !.version = upstream.version]
    /\ request' = [h \in Requests |-> Disturbed(request[h])]
    /\ UNCHANGED <<upstream, entry, node, events>>

\* ... then Cache.Remove: the item, its file and its metadata
PurgeCache ==
    /\ purger.pc = "cache"
    /\ item' = NotInMap
    /\ file' = IF item.in THEN NoFile ELSE file
    /\ purger' = [purger EXCEPT !.pc = "idle", !.version = upstream.version]
    /\ request' = [h \in Requests |-> Orphaned(request[h])]
    /\ UNCHANGED <<upstream, entry, node, events>>

\* The process is killed (Keep), or shut down: Engine.Close empties the cache.
\* The new process loads an item for every file it finds
Restart(Keep) ==
    /\ Event
    /\ file' = IF Keep THEN file ELSE NoFile
    /\ item' = IF file'.exists THEN NewItem(file') ELSE NotInMap
    /\ entry' = FALSE /\ node' = Nil
    /\ request' = [h \in Requests |-> Idle]
    /\ purger' = [purger EXCEPT !.pc = "idle"]
    /\ UNCHANGED upstream

Env == UNCHANGED <<entry, item, file, node, purger>>
Outage ==
    /\ upstream.up /\ Event
    /\ upstream' = [upstream EXCEPT !.up = FALSE]
    /\ request' = [h \in Requests |-> Disturbed(request[h])]
    /\ Env
Recovers ==
    /\ ~upstream.up
    /\ upstream' = [upstream EXCEPT !.up = TRUE]
    /\ UNCHANGED <<request, events>> /\ Env
Changes ==
    /\ upstream.version + 1 \in Versions
    /\ upstream' = [upstream EXCEPT !.version = @ + 1]
    /\ UNCHANGED <<request, events>> /\ Env

Next ==
    \/ \E h \in Requests : Arrive(h) \/ Serve(h)
    \/ \E b \in Blocks : Fetch(b)
    \/ PurgeMapping \/ PurgeCache
    \/ Restart(TRUE) \/ Restart(FALSE)
    \/ Outage \/ Recovers \/ Changes

Spec == Init /\ [][Next]_vars

-------------------------------------------------------------------------------
TypeOK ==
    /\ upstream \in [up : BOOLEAN, version : Versions]
    /\ entry \in BOOLEAN /\ node \in Blocks \cup {Nil, 0}
    /\ item \in [in : BOOLEAN, open : BOOLEAN, o : Blocks \cup {Unknown, Nil},
                 dls : Blocks \cup {Unknown, Nil}, rs : SUBSET Blocks, size : 0 .. MaxSize]
    /\ file \in [exists : BOOLEAN, size : 0 .. MaxSize, data : [Blocks -> Versions \cup {Hole}],
                 meta : SUBSET Blocks]
    /\ \A h \in Requests : request[h].status \in {"none", "200", "304", "416", "500", "stale", "cut"}

\* Everything a client is sent has been fetched: no block is a hole of the file.
NoHoleIsSent == \A h \in Requests : Hole \notin request[h].got

\* "The next request for the same URL will be a full cache miss" (README.md): whoever
\* asks after a PURGE was answered gets nothing that was fetched before it, whatever
\* requests and downloads were under way meanwhile.
PurgeIsFinal ==
    \A h \in Requests : \A v \in request[h].got : v >= request[h].since

\* The length a client is promised is the length of the object, although it comes from
\* a handle made after node, item and object were looked up at different times; except
\* after a stale answer overtaken by a PURGE has made a node of size 0 (README.md,
\* section 4).
LengthIsObjects ==
    \A h \in Requests : request[h].pc = "body" /\ node # 0 => request[h].size = Now

\* The request of h is answered in this step
Ends(h) == request[h].pc # "idle" /\ request'[h].pc = "idle" /\ events' = events

\* "returns 304 when content hasn't changed" (README.md).  The ETag is path and size, of a
\* node made once.  Does not hold: README.md, section 4.
NotModifiedIsTrue ==
    [][\A h \in Requests : Ends(h) /\ request'[h].status = "304" =>
            upstream.version \in Clients]_vars

\* A body is of one version of the object.  Does not hold: README.md, section 4.
BodyIsOneVersion == \A h \in Requests : Cardinality(request[h].got) <= 1

\* A request is served if the upstream was up while it ran and nobody purged, unless an
\* earlier request opened the item without knowing the size: "file is downloaded from
\* upstream [...] and streamed to the client" (README.md).
CalmIsServed ==
    [][\A h \in Requests : Ends(h) /\ request[h].calm =>
            request'[h].status \in {"200", "304"} \/ item.dls = Unknown]_vars

\* What was in the cache entirely when a request came is served, though the upstream may
\* be down: "varc serves stale cached content instead of returning 5xx" (README.md).
CachedIsServed ==
    [][\A h \in Requests : Ends(h) /\ request[h].cached =>
            request'[h].status \in {"200", "304", "stale"}]_vars
===============================================================================
