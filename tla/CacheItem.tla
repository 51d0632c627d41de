------------------------------- MODULE CacheItem -------------------------------
(***************************************************************************)
(* internal/cache/item.go and internal/cache/cache.go, as internal/engine  *)
(* and internal/read.go use them: everything that happens to one name of   *)
(* the cache.  Handlers open the name and read blocks of it, a Purger      *)
(* removes it, the Cleaner evicts or resets it, the grace timer closes it, *)
(* and the process can be restarted.                                       *)
(*                                                                         *)
(* One step is one critical section of Item.mu; where the code unlocks in  *)
(* the middle of a function (downloaders.Close, Cache.put, Download) the   *)
(* function is several steps.  Cache.mu is a variable because the cleaner  *)
(* keeps it over several of these.  Downloaders (module Downloaders) are   *)
(* seen from outside: they store blocks and let Download return.  The      *)
(* program never writes to a file: Dirty and the write back are left out.  *)
(***************************************************************************)
EXTENDS Naturals, FiniteSets

CONSTANTS
    Handlers,           \* requests being served
    Items,              \* bound: Item structures alive at a time, 1 .. n
    Inodes,             \* bound: cache files alive at a time, 1 .. n + 1
    Blocks,             \* blocks of the file
    MaxOpens,           \* bound on item.opens
    MaxPurges,          \* bound: how many PURGE requests there are
    MaxRestarts,        \* bound: how many restarts there are
    Heads,              \* outcomes of the HEAD request: "ok" and "bad" (size -1)
    Failures,           \* what can fail: "read" (upstream), "nospace" (_save)
    CanClean,           \* whether the cleaner runs
    CanClose            \* whether handles close their item (Item.Close)

NoItem == 0
NoFile == 0

ASSUME CacheItemAssumption ==
    /\ IsFiniteSet(Handlers) /\ IsFiniteSet(Items) /\ Blocks # {}
    /\ Items = 1 .. Cardinality(Items) /\ Inodes = 1 .. Cardinality(Items) + 1
    /\ MaxOpens \in Nat \ {0} /\ MaxPurges \in Nat /\ MaxRestarts \in Nat
    /\ Heads \subseteq {"ok", "bad"} /\ Failures \subseteq {"read", "nospace"}
    /\ CanClean \in BOOLEAN /\ CanClose \in BOOLEAN

VARIABLES
    item,               \* the Item structures
    map,                \* c.item[name]
    disk,               \* the cache file, the metadata, the contents of files
    cmu,                \* Cache.mu is held by the cleaner
    handler,            \* per handler: its place and its locals
    purger, purges,     \* Cache.Remove; how many have begun
    cleaner,            \* Cache.clean and Item.Reset
    errItem,            \* name is in c.errItems
    restarts

vars == <<item, map, disk, cmu, handler, purger, purges, cleaner, errItem, restarts>>

NoMeta == [exists |-> FALSE, rs |-> {}]
Meta(rs) == [exists |-> TRUE, rs |-> rs]
Holes == [b \in Blocks |-> "hole"]

\* An Item just made.  o is its object, by what HEAD said of the size; dls its
\* downloaders, by the object they read; lost: other downloaders it no longer
\* refers to; closing: _actualClose waits for the downloaders; mu: item.mu is
\* held by an open that puts this item back into the map.
Fresh == [opens |-> 0, rs |-> {}, sized |-> FALSE, fd |-> NoFile, o |-> "nil",
          dls |-> "nil", lost |-> FALSE, pending |-> 0, reset |-> FALSE,
          grace |-> FALSE, closing |-> FALSE, mu |-> FALSE]

Idle == [pc |-> "idle", i |-> NoItem, old |-> NoItem, opened |-> NoItem,
         head |-> "ok", b |-> CHOOSE b \in Blocks : TRUE, res |-> "none"]

Init ==
    /\ item = [i \in Items |-> Fresh]
    /\ map = NoItem
    /\ disk = [path |-> NoFile, meta |-> NoMeta, data |-> [n \in Inodes |-> Holes]]
    /\ cmu = FALSE
    /\ handler = [h \in Handlers |-> Idle]
    /\ purger = [pc |-> "idle", i |-> NoItem] /\ purges = 0
    /\ cleaner = [pc |-> "idle", i |-> NoItem]
    /\ errItem = FALSE /\ restarts = 0

-------------------------------------------------------------------------------
(* Functions of item.go, on an item and the disk *)

At(i) == [it |-> item[i], dk |-> disk]

\* The state after i and the disk have become s; files nobody can reach are gone
Becomes(i, s) ==
    /\ item' = [item EXCEPT ![i] = s.it]
    /\ disk' = [s.dk EXCEPT !.data = [n \in Inodes |->
                    IF n = s.dk.path \/ n = s.it.fd \/ \E j \in Items \ {i} : item[j].fd = n
                    THEN s.dk.data[n] ELSE Holes]]

\* newItem: what is on disk counts only if cache file and metadata are both there
NewItem(dk) ==
    LET both == dk.path # NoFile /\ dk.meta.exists
    IN  [it |-> [Fresh EXCEPT !.rs = IF both THEN dk.meta.rs ELSE {}, !.sized = dk.path # NoFile],
         dk |-> IF both THEN dk ELSE [dk EXCEPT !.path = NoFile, !.meta = NoMeta]]

\* _checkObject and _truncateToCurrentSize: the file is created if its size is
\* known and it is not there; blocks in Rs are then forgotten, they were removed
\* behind our back
CheckObject(s, o) ==
    LET file == IF s.it.fd # NoFile THEN s.it.fd ELSE s.dk.path
        new  == CHOOSE n \in Inodes : \A j \in Items : item[j].fd # n
    IN  IF file # NoFile THEN [s EXCEPT !.it.o = o, !.it.sized = TRUE]
        ELSE IF o = "bad" THEN [s EXCEPT !.it.o = o, !.it.sized = FALSE]
        ELSE [it |-> [s.it EXCEPT !.o = o, !.sized = TRUE, !.rs = {}],
              dk |-> [s.dk EXCEPT !.path = new, !.data[new] = Holes,
                                  !.meta = IF s.it.rs # {} THEN NoMeta ELSE @]]

\* _remove, from where it locks again after writeback.Remove: empty the item, remove
\* the file and the metadata
Removed(s) == [it |-> [s.it EXCEPT !.rs = {}, !.sized = FALSE],
               dk |-> [s.dk EXCEPT !.path = NoFile, !.meta = NoMeta]]

\* _createFile: it opens a file that must exist and must not be open already
CanCreate(s) == s.it.fd = NoFile /\ s.dk.path # NoFile

\* Variant: the file is truncated as it is opened
CreatedTruncates(s) == [it |-> [s.it EXCEPT !.fd = s.dk.path],
                        dk |-> [s.dk EXCEPT !.meta = Meta(s.it.rs), !.data[s.dk.path] = Holes]]

\* _createFile when it succeeds: it saves the metadata too
Created(s) == [it |-> [s.it EXCEPT !.fd = s.dk.path],
               dk |-> [s.dk EXCEPT !.meta = Meta(s.it.rs)]]

\* Item structures nobody refers to and whose file nobody will find
Garbage ==
    {i \in Items :
        /\ map # i /\ purger.i # i /\ cleaner.i # i
        /\ \A h \in Handlers : i \notin {handler[h].i, handler[h].old, handler[h].opened}
        /\ ~item[i].closing /\ ~item[i].grace
        /\ item[i].fd = NoFile \/ item[i].fd # disk.path}

\* Cache.get: the item in the map, or a new one made from what is on disk
Get(i) ==
    /\ ~cmu
    /\ IF map # NoItem
       THEN i = map /\ UNCHANGED <<item, map, disk>>
       ELSE /\ Garbage # {}
            /\ i = CHOOSE g \in Garbage : \A j \in Garbage : g <= j
            /\ Becomes(i, NewItem(disk))
            /\ map' = i

\* Steps of a handler leave the other threads alone
Handler(h, rec) ==
    /\ handler' = [handler EXCEPT ![h] = rec]
    /\ UNCHANGED <<cmu, purger, purges, cleaner, errItem, restarts>>

\* ... and often the map
On(h, s, rec) == Becomes(handler[h].i, s) /\ Handler(h, rec) /\ UNCHANGED map

-------------------------------------------------------------------------------
(* Engine.OpenCached: Cache.Item, then Item.Open *)

LookupToOpen(h) ==
    /\ handler[h].pc = "idle"
    /\ \E i \in Items, head \in Heads :
          /\ Get(i)
          /\ Handler(h, [Idle EXCEPT !.pc = "open", !.i = i, !.head = head])

\* Open has succeeded on i
Opened(h) == [handler[h] EXCEPT !.pc = "opened", !.i = NoItem, !.old = NoItem,
                                !.opened = IF CanClose THEN handler[h].i ELSE NoItem]

\* An access is over: the handle can be read from (again)
Over(h, res) == [handler[h] EXCEPT !.pc = "reading", !.i = NoItem, !.res = res,
                                   !.b = Idle.b]

\* The rest of open from _createFile to the unlock: before Cache.put, or in _remove
CreateFile(h, s) ==
    \/ CanCreate(s) /\ On(h, Created(s), [handler[h] EXCEPT !.pc = "put"])
    \/ /\ ~CanCreate(s) \/ "nospace" \in Failures
       /\ On(h, s, [handler[h] EXCEPT !.pc = "failed",
                                      !.res = IF CanCreate(s) THEN "nospace" ELSE "err"])

\* ... and with the lock again; Open tries again when it was out of space
OpenFails(h) ==
    /\ handler[h].pc = "failed" /\ ~item[handler[h].i].mu
    /\ LET r == Removed(At(handler[h].i)) IN
       \E rec \in {Idle} \cup {[handler[h] EXCEPT !.pc = "open", !.res = "none"] :
                             n \in {"nospace"} \cap {handler[h].res}} :
          On(h, [r EXCEPT !.it.fd = NoFile, !.it.opens = @ - 1, !.it.pending = @ - 1], rec)

\* open on an item that is open, or in its grace period with its file in place
OpenAgain(h) ==
    LET i == handler[h].i
        s == CheckObject(At(i), handler[h].head)
    IN  /\ handler[h].pc = "open" /\ ~item[i].reset /\ ~item[i].mu /\ item[i].opens < MaxOpens
        /\ item[i].opens # 0 \/ (item[i].grace /\ s.dk.path # NoFile)
        /\ On(h, [s EXCEPT !.it.opens = @ + 1, !.it.grace = FALSE], Opened(h))

\* open on an item that is not
OpenFirst(h) ==
    LET i == handler[h].i
        s == CheckObject(At(i), handler[h].head)
    IN  /\ handler[h].pc = "open" /\ ~item[i].reset /\ ~item[i].mu
        /\ item[i].opens = 0 /\ ~item[i].grace
        /\ CreateFile(h, [s EXCEPT !.it.opens = 1, !.it.pending = @ + 1])

\* Downloaders.Close answers those who wait, with no error: they are "closed"
ClosedUnder(i) == [h \in Handlers |-> IF handler[h].pc = "wait" /\ handler[h].i = i
                                      THEN [handler[h] EXCEPT !.pc = "closed"] ELSE handler[h]]
Answered(i) == \A h \in Handlers : handler[h].pc = "closed" => handler[h].i # i

\* Variant: open gives up the lock without having called preAccess
OpenVanishedUncounted(h) ==
    LET i == handler[h].i
        s == CheckObject(At(i), handler[h].head)
    IN  /\ handler[h].pc = "open" /\ ~item[i].reset /\ ~item[i].mu
        /\ item[i].opens = 0 /\ item[i].grace /\ s.dk.path = NoFile
        /\ Becomes(i, [s EXCEPT !.it.opens = 1, !.it.grace = FALSE,
                                !.it.fd = NoFile, !.it.dls = "nil"])
        /\ handler' = [ClosedUnder(i) EXCEPT ![h].pc = "recreate"]
        /\ UNCHANGED <<map, cmu, purger, purges, cleaner, errItem, restarts>>

\* The file has vanished in the grace period: close it and the downloaders, unlocked
OpenVanished(h) ==
    LET i == handler[h].i
        s == CheckObject(At(i), handler[h].head)
    IN  /\ handler[h].pc = "open" /\ ~item[i].reset /\ ~item[i].mu
        /\ item[i].opens = 0 /\ item[i].grace /\ s.dk.path = NoFile
        /\ Becomes(i, [s EXCEPT !.it.opens = 1, !.it.pending = @ + 1, !.it.grace = FALSE,
                                !.it.fd = NoFile, !.it.dls = "nil"])
        /\ handler' = [ClosedUnder(i) EXCEPT ![h].pc = "recreate"]
        /\ UNCHANGED <<map, cmu, purger, purges, cleaner, errItem, restarts>>

Recreate(h) ==
    /\ handler[h].pc = "recreate" /\ ~item[handler[h].i].mu /\ Answered(handler[h].i)
    /\ CreateFile(h, At(handler[h].i))

\* Cache.put, with item.mu released
Put(h) ==
    /\ handler[h].pc = "put" /\ ~cmu
    /\ map' = handler[h].i
    /\ Handler(h, IF map \in {NoItem, handler[h].i} THEN [handler[h] EXCEPT !.pc = "finish"]
                  ELSE [handler[h] EXCEPT !.pc = "check", !.old = map])
    /\ UNCHANGED <<item, disk>>

\* Another item was there: if it is open it goes back ...
CheckOld(h) ==
    LET old == handler[h].old IN
    /\ handler[h].pc = "check" /\ ~item[old].mu
    /\ IF item[old].opens = 0
       THEN Handler(h, [handler[h] EXCEPT !.pc = "finish", !.old = NoItem]) /\ UNCHANGED item
       ELSE /\ Handler(h, [handler[h] EXCEPT !.pc = "putBack"])
            /\ item' = [item EXCEPT ![old].mu = TRUE]
    /\ UNCHANGED <<map, disk>>

\* ... with its lock held
PutBack(h) ==
    LET old == handler[h].old IN
    /\ handler[h].pc = "putBack" /\ ~cmu
    /\ map' = old
    /\ item' = [item EXCEPT ![old].mu = FALSE]
    /\ Handler(h, [handler[h] EXCEPT !.pc = "finish", !.res = "err"])
    /\ UNCHANGED disk

\* downloaders.New into item.downloaders, whatever is there
WithDownloaders(it) == [it EXCEPT !.dls = it.o, !.lost = @ \/ it.dls # "nil"]

\* open takes its lock again, makes the downloaders and returns
Finish(h) ==
    LET i == handler[h].i  it == WithDownloaders(item[i]) IN
    /\ handler[h].pc = "finish" /\ ~item[i].mu
    /\ On(h, [At(i) EXCEPT !.it = [it EXCEPT !.pending = @ - 1]],
          IF handler[h].res = "err" THEN Idle ELSE Opened(h))

\* newReadFileHandle: Cache.Item, then GetSize
LookupToSize(h) ==
    /\ handler[h].pc = "opened"
    /\ \E i \in Items : Get(i) /\ Handler(h, [handler[h] EXCEPT !.pc = "size", !.i = i])

GetSize(h) ==
    LET i == handler[h].i
        exists == item[i].fd # NoFile \/ disk.path # NoFile
    IN  /\ handler[h].pc = "size" /\ ~item[i].mu
        /\ On(h, [At(i) EXCEPT !.it.sized = IF exists THEN TRUE ELSE IF item[i].o = "nil" THEN @
                                           ELSE item[i].o = "ok"], Over(h, "none"))

-------------------------------------------------------------------------------
(* ReadFileHandle.readAt: Cache.Item, then Item.ReadAt *)

LookupToRead(h) ==
    /\ handler[h].pc = "reading"
    /\ \E i \in Items, b \in Blocks :
          Get(i) /\ Handler(h, [handler[h] EXCEPT !.pc = "read", !.i = i, !.b = b, !.res = "none"])

\* preAccess and readAt up to the unlock in _ensure, which clips the range to the size
ReadBegin(h) ==
    LET i == handler[h].i IN
    /\ handler[h].pc = "read" /\ ~item[i].reset /\ ~item[i].mu
    /\ IF item[i].fd = NoFile THEN On(h, At(i), Over(h, "err"))
       ELSE On(h, [At(i) EXCEPT !.it.pending = @ + 1],
               [handler[h] EXCEPT !.pc = IF handler[h].b \in item[i].rs \/ ~item[i].sized
                                         THEN "copy" ELSE "ensure"])

\* The rest of _ensure, unlocked: are there downloaders? ...
Ensure(h) ==
    LET i == handler[h].i IN
    /\ handler[h].pc = "ensure"
    /\ item[i].dls # "nil" \/ item[i].o # "nil"
    /\ Handler(h, [handler[h] EXCEPT !.pc = IF item[i].dls = "nil" THEN "new" ELSE "wait"])
    /\ UNCHANGED <<item, map, disk>>

\* ... make them ...
NewDownloaders(h) ==
    /\ handler[h].pc = "new"
    /\ On(h, [At(handler[h].i) EXCEPT !.it = WithDownloaders(@)], [handler[h] EXCEPT !.pc = "wait"])

\* ... and Download: it returns when the block is there, when the downloaders are
\* closed, and if neither item nor object have a size when nothing is found missing
Downloaded(h) ==
    LET i == handler[h].i IN
    /\ \/ handler[h].pc = "closed"
       \/ /\ handler[h].pc = "wait"
          /\ handler[h].b \in item[i].rs \/ (item[i].dls = "bad" /\ ~item[i].sized)
    /\ Handler(h, [handler[h] EXCEPT !.pc = "copy"])
    /\ UNCHANGED <<item, map, disk>>

\* Variant: a read that fails skips postAccess
ReadFailsInside(h) ==
    /\ handler[h].pc = "wait" /\ "read" \in Failures
    /\ On(h, At(handler[h].i), Over(h, "err"))

\* Download gives up: downloaders do not open an object without a size; or there
\* is no object to download from.  ReadAt tries again when out of space
ReadFails(h) ==
    LET i == handler[h].i IN
    /\ \/ handler[h].pc = "wait" /\ ("read" \in Failures \/ item[i].dls = "bad")
       \/ handler[h].pc = "ensure" /\ item[i].dls = "nil" /\ item[i].o = "nil"
    /\ ~item[i].mu
    /\ \E rec \in {Over(h, "err")} \cup {[handler[h] EXCEPT !.pc = "read"] :
                                         n \in {"nospace"} \cap Failures} :
          On(h, [At(i) EXCEPT !.it.pending = @ - 1], rec)

\* The end of readAt: lock, correct the size, read the file
ReadEnd(h) ==
    LET i == handler[h].i
        s == IF item[i].o = "ok" /\ ~item[i].sized THEN CheckObject(At(i), "ok") ELSE At(i)
    IN  /\ handler[h].pc = "copy" /\ ~item[i].mu
        /\ On(h, [s EXCEPT !.it.pending = @ - 1],
              Over(h, IF s.it.fd = NoFile THEN "err" ELSE disk.data[s.it.fd][handler[h].b]))

\* The response is finished: the handle does not close the item
Leave(h) ==
    /\ handler[h].pc = "reading" /\ ~CanClose
    /\ Handler(h, Idle) /\ UNCHANGED <<item, map, disk>>

\* Item.Close, by a user of the cache that closes: the grace period begins
Close(h) ==
    LET i == handler[h].opened IN
    /\ handler[h].pc = "reading" /\ CanClose /\ ~item[i].reset /\ ~item[i].mu
    /\ Becomes(i, [At(i) EXCEPT !.it.opens = @ - 1, !.it.grace = item[i].opens = 1])
    /\ Handler(h, Idle) /\ UNCHANGED map

-------------------------------------------------------------------------------
(* Goroutines of the item *)

Others == UNCHANGED <<cmu, purger, purges, cleaner, errItem, restarts>>

\* Downloaders run until Close has waited for them
Running(i) == \/ item[i].dls = "ok" \/ item[i].lost \/ item[i].closing
              \/ cleaner.pc = "resetting" /\ cleaner.i = i

\* Variant: what was to be written is recorded, not what was written
FetchIgnoresShortWrite(i, b) ==
    /\ Running(i) /\ ~item[i].mu /\ item[i].fd # NoFile /\ b \notin item[i].rs
    /\ item' = [item EXCEPT ![i].rs = @ \cup {b}]
    /\ UNCHANGED <<map, disk, handler>> /\ Others

\* downloader.Write: WriteAtNoOverwrite stores a block that is missing.
Fetch(i, b) ==
    /\ Running(i) /\ ~item[i].mu /\ item[i].fd # NoFile /\ b \notin item[i].rs
    /\ disk' = [disk EXCEPT !.data[item[i].fd][b] = "data"]
    /\ item' = [item EXCEPT ![i].rs = @ \cup {b}]
    /\ UNCHANGED <<map, handler>> /\ Others

\* Variant: the timer does not look whether the item was opened again
GraceFiresUnchecked(i) ==
    /\ item[i].fd # NoFile /\ ~item[i].closing /\ ~item[i].mu
    /\ Becomes(i, [At(i) EXCEPT !.it.grace = FALSE, !.it.closing = TRUE, !.it.dls = "nil"])
    /\ handler' = ClosedUnder(i) /\ UNCHANGED map /\ Others

\* closeAfterGrace and _actualClose up to the close of the downloaders, unlocked
GraceFires(i) ==
    /\ item[i].grace /\ item[i].opens = 0 /\ ~item[i].mu
    /\ Becomes(i, [At(i) EXCEPT !.it.grace = FALSE, !.it.closing = TRUE, !.it.dls = "nil",
                                !.it.sized = @ \/ item[i].fd # NoFile])
    /\ handler' = ClosedUnder(i) /\ UNCHANGED map /\ Others

\* Variant: the metadata is left as open saved it
ActualCloseUnsaved(i) ==
    /\ item[i].closing /\ ~item[i].mu /\ Answered(i)
    /\ Becomes(i, [At(i) EXCEPT !.it.closing = FALSE, !.it.fd = NoFile])
    /\ UNCHANGED <<map, handler>> /\ Others

\* _actualClose closes the file and saves the metadata
ActualClose(i) ==
    /\ item[i].closing /\ ~item[i].mu /\ Answered(i)
    /\ Becomes(i, [At(i) EXCEPT !.it.closing = FALSE, !.it.fd = NoFile,
                                !.dk.meta = Meta(item[i].rs)])
    /\ UNCHANGED <<map, handler>> /\ Others

-------------------------------------------------------------------------------
(* Cache.Remove, for a PURGE request *)

PurgeMap ==
    /\ purger.pc = "idle" /\ purges < MaxPurges /\ ~cmu /\ map # NoItem
    /\ map' = NoItem
    /\ purger' = [purger EXCEPT !.pc = "item", !.i = map] /\ purges' = purges + 1
    /\ UNCHANGED <<item, disk, cmu, handler, cleaner, errItem, restarts>>

\* Item.remove empties the item and removes the cache file ...
PurgeItem ==
    LET i == purger.i IN
    /\ purger.pc = "item" /\ ~item[i].mu
    /\ Becomes(i, [At(i) EXCEPT !.it.rs = {}, !.it.sized = FALSE, !.it.mu = TRUE,
                                !.dk.path = NoFile])
    /\ purger' = [purger EXCEPT !.pc = "meta"]
    /\ UNCHANGED <<map, cmu, handler, purges, cleaner, errItem, restarts>>

\* ... then the metadata
PurgeMeta ==
    /\ purger.pc = "meta"
    /\ Becomes(purger.i, [At(purger.i) EXCEPT !.it.mu = FALSE, !.dk.meta = NoMeta])
    /\ purger' = [pc |-> "idle", i |-> NoItem]
    /\ UNCHANGED <<map, cmu, handler, purges, cleaner, errItem, restarts>>

-------------------------------------------------------------------------------
(* Cache.clean *)

CleanerOnly == UNCHANGED <<handler, purger, purges, restarts>>

\* purgeOld, purgeOverQuota or purgeClean takes Cache.mu and comes to the item
CleanerTakes ==
    /\ CanClean /\ cleaner.pc = "idle" /\ ~cmu /\ map # NoItem
    /\ cmu' = TRUE /\ cleaner' = [pc |-> "round", i |-> map]
    /\ UNCHANGED <<item, map, disk, errItem>> /\ CleanerOnly

\* retryFailedResets does so without Cache.mu
CleanerRetries ==
    /\ CanClean /\ cleaner.pc = "idle" /\ errItem
    /\ IF map = NoItem THEN errItem' = FALSE /\ UNCHANGED cleaner
       ELSE cleaner' = [pc |-> "round", i |-> map] /\ UNCHANGED errItem
    /\ UNCHANGED <<item, map, disk, cmu>> /\ CleanerOnly

\* The round is over.  purgeClean remembers an item whose Reset failed,
\* retryFailedResets forgets it unless it was out of space again
RoundEnds(remember) ==
    /\ cleaner' = [pc |-> "idle", i |-> NoItem] /\ cmu' = FALSE
    /\ errItem' = (remember \/ (cmu /\ errItem))

InUse(it) == it.opens # 0 \/ it.grace

\* Variant: the accesses under way are not looked at
CanResetUnderReaders(it) == ~it.grace /\ (it.rs # {} \/ it.reset)

\* What Reset asks of an item in use
CanReset(it) == ~it.grace /\ it.pending = 0 /\ (it.rs # {} \/ it.reset)

\* RemoveNotInUse, and Reset of an item that is not in use, up to the unlock in _remove
RemoveNotInUse ==
    /\ cleaner.pc = "round" /\ ~item[cleaner.i].mu /\ ~InUse(item[cleaner.i])
    /\ cleaner' = [cleaner EXCEPT !.pc = "removing"]
    /\ UNCHANGED <<item, map, disk, cmu, errItem>> /\ CleanerOnly

\* ... and with the lock again; the caller that holds Cache.mu takes the item out of
\* the map as well
RemoveEnds ==
    /\ cleaner.pc = "removing" /\ ~item[cleaner.i].mu
    /\ Becomes(cleaner.i, Removed(At(cleaner.i)))
    /\ map' = IF cmu THEN NoItem ELSE map
    /\ RoundEnds(FALSE) /\ CleanerOnly

\* Neither old nor over quota, or skipped by Reset
CleanerSkips ==
    /\ cleaner.pc = "round" /\ ~item[cleaner.i].mu
    /\ cmu \/ (InUse(item[cleaner.i]) /\ ~CanReset(item[cleaner.i]))
    /\ RoundEnds(FALSE)
    /\ UNCHANGED <<item, map, disk>> /\ CleanerOnly

\* Reset up to the close of the downloaders, unlocked
ResetBegin ==
    LET i == cleaner.i IN
    /\ cleaner.pc = "round" /\ ~item[i].mu
    /\ InUse(item[i]) /\ CanReset(item[i])
    /\ item' = [item EXCEPT ![i].reset = TRUE, ![i].dls = "nil"]
    /\ cleaner' = [cleaner EXCEPT !.pc = "resetting"]
    /\ UNCHANGED <<map, disk, cmu, errItem>> /\ CleanerOnly

\* The rest of Reset: close the file, remove it, make and open a new one
Emptied(i) == CheckObject(Removed([At(i) EXCEPT !.it.fd = NoFile]), item[i].o)

\* Variant: the item is still marked as being reset
ResetCompletesInReset ==
    LET i == cleaner.i  c == Created(Emptied(i)) IN
    /\ cleaner.pc = "resetting" /\ ~item[i].mu /\ CanCreate(Emptied(i))
    /\ Becomes(i, [c EXCEPT !.it = WithDownloaders(@)])
    /\ UNCHANGED map /\ RoundEnds(FALSE) /\ CleanerOnly

ResetCompletes ==
    LET i == cleaner.i  c == Created(Emptied(i)) IN
    /\ cleaner.pc = "resetting" /\ ~item[i].mu /\ CanCreate(Emptied(i))
    /\ Becomes(i, [c EXCEPT !.it = [WithDownloaders(c.it) EXCEPT !.reset = FALSE]])
    /\ UNCHANGED map /\ RoundEnds(FALSE) /\ CleanerOnly

\* Out of space again the item stays beingReset, until a retry; after another
\* failure it does not
ResetFails ==
    LET i == cleaner.i  nospace == CanCreate(Emptied(i)) IN
    /\ cleaner.pc = "resetting" /\ ~item[i].mu
    /\ nospace => "nospace" \in Failures
    /\ Becomes(i, [Removed(Emptied(i)) EXCEPT !.it.reset = nospace])
    /\ UNCHANGED map /\ RoundEnds(nospace \/ cmu) /\ CleanerOnly

-------------------------------------------------------------------------------
\* The process ends, in whatever state, and is started again: only the disk stays
Restart ==
    /\ restarts < MaxRestarts
    /\ restarts' = restarts + 1
    /\ item' = [i \in Items |-> Fresh] /\ map' = NoItem
    /\ disk' = [disk EXCEPT !.data = [n \in Inodes |-> IF n = disk.path THEN @[n] ELSE Holes]]
    /\ cmu' = FALSE /\ handler' = [h \in Handlers |-> Idle]
    /\ purger' = [purger EXCEPT !.pc = "idle", !.i = NoItem]
    /\ cleaner' = [pc |-> "idle", i |-> NoItem] /\ errItem' = FALSE
    /\ UNCHANGED purges

HandlerStep(h) ==
    \/ OpenAgain(h) \/ OpenFirst(h) \/ OpenVanished(h) \/ Recreate(h) \/ OpenFails(h)
    \/ Put(h) \/ CheckOld(h) \/ PutBack(h) \/ Finish(h) \/ LookupToSize(h) \/ GetSize(h)
    \/ ReadBegin(h) \/ Ensure(h) \/ NewDownloaders(h) \/ Downloaded(h) \/ ReadFails(h) \/ ReadEnd(h)

CleanerStep == \/ CleanerTakes \/ CleanerRetries \/ RemoveNotInUse \/ RemoveEnds \/ CleanerSkips
               \/ ResetBegin \/ ResetCompletes \/ ResetFails

Next ==
    \/ \E h \in Handlers : \/ LookupToOpen(h) \/ LookupToRead(h) \/ Leave(h) \/ Close(h)
                           \/ HandlerStep(h)
    \/ \E i \in Items : GraceFires(i) \/ ActualClose(i) \/ \E b \in Blocks : Fetch(i, b)
    \/ PurgeMap \/ PurgeItem \/ PurgeMeta
    \/ CleanerStep
    \/ Restart

Spec == Init /\ [][Next]_vars

\* An access goes on when it can, a thread that queues for a mutex gets it, a
\* download brings its blocks (Downloaders, DownloadReturns), the cleaner ends its
\* round and retries failed resets, and some day there is space for it.
Fairness ==
    /\ \A h \in Handlers : SF_vars(HandlerStep(h))
    /\ \A i \in Items, b \in Blocks : WF_vars(Fetch(i, b))
    /\ SF_vars(CleanerRetries) /\ SF_vars(CleanerStep /\ cleaner.pc # "idle")
    /\ SF_vars(ResetCompletes)

FairSpec == Spec /\ Fairness

-------------------------------------------------------------------------------
TypeOK ==
    /\ item \in [Items -> [opens : 0 .. MaxOpens, rs : SUBSET Blocks, sized : BOOLEAN,
                           fd : Inodes \cup {NoFile}, o : {"nil", "ok", "bad"},
                           dls : {"nil", "ok", "bad"}, lost : BOOLEAN,
                           pending : 0 .. Cardinality(Handlers), reset : BOOLEAN,
                           grace : BOOLEAN, closing : BOOLEAN, mu : BOOLEAN]]
    /\ map \in Items \cup {NoItem}
    /\ disk \in [path : Inodes \cup {NoFile}, meta : [exists : BOOLEAN, rs : SUBSET Blocks],
                 data : [Inodes -> [Blocks -> {"hole", "data"}]]]
    /\ cmu \in BOOLEAN /\ errItem \in BOOLEAN
    /\ purges \in 0 .. MaxPurges /\ restarts \in 0 .. MaxRestarts

\* What a read returns has been fetched: it is never a hole of the sparse file.
ReadsAreFetched == \A h \in Handlers : handler[h].res # "hole"

\* Rs claims only what is in the file the item has open.
RsIsStored == \A i \in Items : item[i].fd # NoFile =>
                  \A b \in item[i].rs : disk.data[item[i].fd][b] # "hole"

\* Whenever the process stops, the metadata on disk claims only what is in the
\* cache file on disk: this is all newItem goes by after a restart.
MetaIsBacked == disk.path # NoFile => \A b \in disk.meta.rs : disk.data[disk.path][b] # "hole"

\* When every request is over and every file is closed, the metadata on disk
\* knows what has been fetched: "Metadata is persisted as JSON alongside cached
\* data" (README.md).  What it does not know is fetched again after a restart.
MetaIsCurrent ==
    map # NoItem /\ disk.path # NoFile /\ ~item[map].grace /\ ~item[map].closing
        /\ (\A h \in Handlers : handler[h].pc = "idle")
    => disk.meta.rs = item[map].rs

\* Once nobody is opening or resetting it any more, an item that is open has its
\* file open: readAt calls the contrary an internal error, "didn't Open file".
\* Does not hold: README.md, section 4.
OpenHasFile ==
    \A i \in Items :
        item[i].opens # 0 /\ ~item[i].reset
            /\ (\A h \in Handlers : handler[h].i = i => handler[h].pc \notin {"recreate", "failed"})
        => item[i].fd # NoFile

\* Threads that are inside an access to i, between preAccess and postAccess
Inside(i) == {h \in Handlers : handler[h].i = i /\ handler[h].pc \in
                  {"recreate", "failed", "put", "check", "putBack", "finish", "ensure", "new", "wait", "closed", "copy"}}

\* pendingAccesses counts the threads inside: one too many and the item is never
\* reset again, one too few and it is reset under a reader.
PendingIsExact == \A i \in Items : item[i].pending = Cardinality(Inside(i))

\* Nobody is inside an access to an item that is being reset.
ResetIsExclusive == \A i \in Items : item[i].reset => Inside(i) = {}

\* An item has one set of downloaders, the one it knows of.
\* Does not hold: README.md, section 4.
OneDownloaders == \A i \in Items : ~item[i].lost

\* A read returns, although the cleaner may be resetting its item, out of space.
ReadReturns ==
    \A h \in Handlers :
        (handler[h].pc \in {"read", "ensure", "new", "wait", "closed", "copy"}) ~> (handler[h].pc = "reading")

\* A request fails only if its own HEAD request did: on a cache miss the "file is
\* downloaded from upstream [...] and streamed to the client" (README.md).
\* Does not hold: README.md, section 4.
MissIsServed == \A h \in Handlers : handler[h].res = "err" => handler[h].head = "bad"

\* open never finds another item of its name in use: "This shouldn't happen"
\* (item.go:592).  Does not hold: README.md, section 4.
NeverOpenTwice == \A h \in Handlers : handler[h].pc # "putBack"
===============================================================================
