------------------------------ MODULE WriteBack ------------------------------
(***************************************************************************)
(* internal/cache/writeback/writeback.go: the queue of files to upload.    *)
(* Callers (Item.Close, Item.remove and _dirty, Item.rename, the queue's   *)
(* users), the timer's goroutine and the uploads take WriteBack.mu; a step *)
(* is one critical section.  _cancelUpload gives the lock up to wait for   *)
(* the upload to end.                                                      *)
(*                                                                         *)
(* The heap is a sequence in the order of expiry, of which the first few   *)
(* have expired.  A new expiry lies somewhere behind those; heap.Fix of an *)
(* item that is not on the heap (index -1) does nothing.                   *)
(***************************************************************************)
EXTENDS Naturals, Sequences, SequencesExt, FiniteSets, Lists

CONSTANTS
    Ids,                \* handles, each of a file with a name of its own at first
    Items,              \* bound: writeBackItems alive at a time
    Callers,            \* goroutines that call the WriteBack
    MaxCalls,           \* bound: how many calls there are
    MaxUploads,         \* uploads at a time (4 in the code)
    Calls,              \* what is called: "Add", "Remove", "Rename", "SetExpiry"
    Prompt              \* whether who waited for an upload gets the lock before the item's next upload

ASSUME WriteBackAssumption ==
    /\ IsFiniteSet(Ids) /\ Ids # {}
    /\ IsFiniteSet(Items) /\ Items = 1 .. Cardinality(Items)
    /\ MaxCalls \in Nat /\ MaxUploads \in Nat \ {0}
    /\ Calls \subseteq {"Add", "Remove", "Rename", "SetExpiry"} /\ Prompt \in BOOLEAN

NoItem == 0

VARIABLES
    queue,              \* the heap, and how many of it have expired
    lookup,             \* the item of a handle
    wbItem,             \* the writeBackItems: handle, name, uploading, done is closed
    uploads,            \* wb.uploads
    upload,             \* per item: of its upload goroutines, do they save what the file is now
    timer,              \* of which item wb.expiry is, and whether wb.timer is to fire
    fired,              \* a processItems waits for the lock
    caller, calls,      \* the callers; calls so far
    file                \* per handle: is its file to be uploaded, has it been

vars == <<queue, lookup, wbItem, uploads, upload, timer, fired, caller, calls, file>>

NoTimer == [for |-> NoItem, armed |-> FALSE]
AnId == CHOOSE id \in Ids : TRUE
Returned == [pc |-> "idle", item |-> NoItem, renamed |-> NoItem, to |-> AnId, todo |-> {}]
Unused == [id |-> AnId, name |-> AnId, uploading |-> FALSE, closed |-> FALSE]

Init ==
    /\ queue = [heap |-> <<>>, due |-> 0]
    /\ lookup = [id \in Ids |-> NoItem]
    /\ wbItem = [i \in Items |-> Unused]
    /\ uploads = 0 /\ upload = [i \in Items |-> <<>>]
    /\ timer = NoTimer /\ fired = FALSE
    /\ caller = [c \in Callers |-> Returned] /\ calls = 0
    /\ file = [id \in Ids |-> [wanted |-> FALSE, saved |-> TRUE]]

-------------------------------------------------------------------------------
(* The heap and the timer *)

Held(q, i) == i \in Range(q.heap)
HasExpired(q, i) == i \in Range(SubSeq(q.heap, 1, q.due))
OnHeap(i) == Held(queue, i)

\* _removeItem
Without(q, i) == [heap |-> Filter(q.heap, Items \ {i}),
                  due |-> IF HasExpired(q, i) THEN q.due - 1 ELSE q.due]

\* i with an expiry in the future, or with one that has come already
Later(q, i) == LET p == Without(q, i) IN
               {[p EXCEPT !.heap = InsertAt(@, n, i)] : n \in p.due + 1 .. Len(p.heap) + 1}
Sooner(q, i) == LET p == Without(q, i) IN
                {[heap |-> InsertAt(p.heap, n, i), due |-> p.due + 1] : n \in 1 .. p.due + 1}

\* _update of i to an expiry in the future
Updated(q, i) == IF Held(q, i) THEN Later(q, i) ELSE {q}

\* _resetTimer, after the expiries of the items in moved have changed
ResetTimer(q, moved) ==
    IF q.heap = <<>> THEN NoTimer
    ELSE IF timer.for = Head(q.heap) /\ timer.for \notin moved THEN timer
    ELSE [for |-> Head(q.heap), armed |-> TRUE]

Requeue(q, moved) == queue' = q /\ timer' = ResetTimer(q, moved)

\* An expiry comes
TimePasses ==
    /\ queue.due < Len(queue.heap)
    /\ queue' = [queue EXCEPT !.due = @ + 1]
    /\ UNCHANGED <<lookup, wbItem, uploads, upload, timer, fired, caller, calls, file>>

TimerFires ==
    /\ timer.armed /\ (OnHeap(timer.for) => HasExpired(queue, timer.for))
    /\ timer' = [timer EXCEPT !.armed = FALSE] /\ fired' = TRUE
    /\ UNCHANGED <<queue, lookup, wbItem, uploads, upload, caller, calls, file>>

-------------------------------------------------------------------------------
(* Uploads *)

\* Variant: nothing limits the uploads
StartableUnlimited == SubSeq(queue.heap, 1, queue.due)

\* As many of the expired as may be uploaded
Startable == LET free == MaxUploads - uploads
                 n == IF queue.due <= free THEN queue.due ELSE free
             IN  SubSeq(queue.heap, 1, n)

\* Where a call that waits goes on
Then == [addWaits |-> "addAgain", removeWaits |-> "removeAgain",
         renameWaits |-> "renameAgain", namesakeWaits |-> "namesakeAgain"]
WaitsFor(c, i) == caller[c].item = i /\ caller[c].pc \in DOMAIN Then

\* Who waited for the upload of an item has taken the lock before it is uploaded again
InTime == Prompt => \A c \in Callers : caller[c].item \in Range(Startable) => caller[c].pc \in DOMAIN Then

\* processItems: at the limit the timer is stopped
ProcessItems ==
    LET n == Len(Startable)
        q == [heap |-> SubSeq(queue.heap, n + 1, Len(queue.heap)), due |-> queue.due - n]
    IN  /\ fired /\ InTime
        /\ fired' = FALSE
        /\ queue' = q /\ timer' = IF q.due > 0 THEN NoTimer ELSE ResetTimer(q, {})
        /\ uploads' = uploads + n
        /\ upload' = [i \in Items |->
              IF i \in Range(Startable) THEN Append(upload[i], TRUE)
              ELSE upload[i]]
        /\ wbItem' = [i \in Items |->
              IF i \in Range(Startable) THEN [wbItem[i] EXCEPT !.uploading = TRUE, !.closed = FALSE]
              ELSE wbItem[i]]
        /\ UNCHANGED <<lookup, caller, calls, file>>

\* Variant: done is sent to, which wakes one of them
WokenOne(i) ==
    LET one == CHOOSE c \in Callers : \A d \in Callers : WaitsFor(d, i) => WaitsFor(c, i)
    IN  [c \in Callers |->
            IF c = one /\ WaitsFor(c, i) THEN [caller[c] EXCEPT !.pc = Then[@]] ELSE caller[c]]

\* Whom close(wbItem.done) wakes, those who wait for an earlier done of i excepted
Woken(i) ==
    [c \in Callers |->
        IF WaitsFor(c, i) THEN [caller[c] EXCEPT !.pc = Then[@]] ELSE caller[c]]

\* The upload goroutine n of i after putFn: it closes done, which must be open
UploadEnds(i, n) ==
    /\ ~wbItem[i].closed
    /\ upload' = [upload EXCEPT ![i] = RemoveAt(@, n)]
    /\ uploads' = uploads - 1
    /\ wbItem' = [wbItem EXCEPT ![i].uploading = FALSE, ![i].closed = TRUE]
    /\ caller' = Woken(i)
    /\ UNCHANGED <<fired, calls>>

\* It failed or was cancelled: the item goes back on the queue
UploadFails(i) ==
    \E n \in DOMAIN upload[i], q \in Later(queue, i) :
        /\ UploadEnds(i, n)
        /\ Requeue(q, {i})
        /\ UNCHANGED <<lookup, file>>

\* It succeeded, even if it was cancelled: the item is done with
UploadSucceeds(i) ==
    \E n \in DOMAIN upload[i] :
        /\ UploadEnds(i, n)
        /\ file' = [file EXCEPT ![wbItem[i].id].saved = @ \/ upload[i][n]]
        /\ lookup' = [lookup EXCEPT ![wbItem[i].id] = NoItem]
        /\ Requeue(queue, {})

-------------------------------------------------------------------------------
(* Calls *)

Background == UNCHANGED <<uploads, fired>>

\* c makes a call
Call(c, what) == /\ what \in Calls /\ calls < MaxCalls /\ caller[c].pc = "idle"
                 /\ calls' = calls + 1 /\ Background

\* _cancelUpload up to the unlock: cancel an upload, which may or may not be effective,
\* and wait for its end
CancelUpload(c, rec) ==
    /\ caller' = [caller EXCEPT ![c] = rec]
    /\ UNCHANGED <<queue, lookup, wbItem, timer>>
Waits(pc, i) == [Returned EXCEPT !.pc = pc, !.item = i]

\* c returns, or comes to rec
Goes(c, rec) == caller' = [caller EXCEPT ![c] = rec]

\* The file of a handle has been changed: uploads under way save what it was before
Modified(id) ==
    /\ file' = [file EXCEPT ![id] = [wanted |-> TRUE, saved |-> FALSE]]
    /\ upload' = [i \in Items |-> [n \in DOMAIN upload[i] |->
                      upload[i][n] /\ wbItem[i].id # id]]

Referenced(i) == OnHeap(i) \/ i \in Range(lookup) \/ upload[i] # <<>>
                 \/ \E c \in Callers : i \in {caller[c].item, caller[c].renamed}

\* Add of a handle that is not known: a new item
AddNew(c) ==
    /\ Call(c, "Add") /\ Goes(c, Returned)
    /\ \E id \in Ids : \E i \in {j \in Items : ~Referenced(j)} :
          /\ lookup[id] = NoItem /\ \A j \in Items : ~Referenced(j) => i <= j
          /\ lookup' = [lookup EXCEPT ![id] = i]
          /\ wbItem' = [wbItem EXCEPT ![i] = [Unused EXCEPT !.id = id, !.name = id]]
          /\ \E q \in Later(queue, i) : Requeue(q, {i})
          /\ Modified(id)

\* Add of one that is: its expiry starts anew; an upload of what has not been
\* modified goes on
AddKnown(c) ==
    /\ Call(c, "Add") /\ Goes(c, Returned)
    /\ \E id \in Ids, modified \in BOOLEAN :
          LET i == lookup[id] IN
          /\ i # NoItem /\ ~(wbItem[i].uploading /\ modified)
          /\ \E q \in Updated(queue, i) : Requeue(q, {i})
          /\ IF modified THEN Modified(id) ELSE UNCHANGED <<upload, file>>
    /\ UNCHANGED <<lookup, wbItem>>

\* Variant: nobody waits for the upload that is cancelled
AddCancelsAtOnce(c) ==
    /\ Call(c, "Add") /\ Goes(c, Returned)
    /\ \E id \in Ids :
          LET i == lookup[id] IN
          /\ i # NoItem /\ wbItem[i].uploading
          /\ \E q \in Later(queue, i) : Requeue(q, {i})
          /\ Modified(id)
    /\ UNCHANGED <<lookup, wbItem>>

\* ... of what has, is cancelled
AddCancels(c) ==
    /\ Call(c, "Add")
    /\ \E id \in Ids :
          LET i == lookup[id] IN
          /\ i # NoItem /\ wbItem[i].uploading
          /\ Modified(id)
          /\ CancelUpload(c, Waits("addWaits", i))

\* Variant: the item is not put back on the heap
AddResumesUnqueued(c) ==
    LET i == caller[c].item IN
    /\ caller[c].pc = "addAgain"
    /\ \E q \in Updated(queue, i) : Requeue(q, {i})
    /\ Goes(c, Returned)
    /\ UNCHANGED <<lookup, wbItem, upload, calls, file>> /\ Background

\* The rest of Add: the item is on the heap, whatever has become of its upload
AddResumes(c) ==
    LET i == caller[c].item IN
    /\ caller[c].pc = "addAgain"
    /\ \E q \in Later(queue, i) : Requeue(q, {i})
    /\ Goes(c, Returned)
    /\ UNCHANGED <<lookup, wbItem, upload, calls, file>> /\ Background

\* The files of handles that are removed are not wanted
Unwanted(ids) == file' = [id \in Ids |-> [file[id] EXCEPT !.wanted = @ /\ id \notin ids]]

\* _remove of i from its _removeItem on
Removed(i) ==
    /\ Requeue(Without(queue, i), {})
    /\ lookup' = [lookup EXCEPT ![wbItem[i].id] = NoItem]

\* Remove, of a handle that is known or not
RemoveNow(c) ==
    /\ Call(c, "Remove") /\ Goes(c, Returned)
    /\ \E id \in Ids :
          LET i == lookup[id] IN
          /\ IF i = NoItem THEN Requeue(queue, {}) /\ UNCHANGED lookup
             ELSE ~wbItem[i].uploading /\ Removed(i)
          /\ Unwanted({id})
    /\ UNCHANGED <<wbItem, upload>>

RemoveCancels(c) ==
    /\ Call(c, "Remove")
    /\ \E id \in Ids :
          /\ lookup[id] # NoItem /\ wbItem[lookup[id]].uploading
          /\ CancelUpload(c, Waits("removeWaits", lookup[id]))
    /\ UNCHANGED <<upload, file>>

RemoveResumes(c) ==
    /\ caller[c].pc = "removeAgain"
    /\ Removed(caller[c].item) /\ Unwanted({wbItem[caller[c].item].id})
    /\ Goes(c, Returned)
    /\ UNCHANGED <<wbItem, upload, calls>> /\ Background

-------------------------------------------------------------------------------
(* Rename *)

\* Items other than i that have the name it is to have
Namesakes(i, name) == {j \in Range(lookup) \ {NoItem, i} : wbItem[j].name = name}

\* Rename of a handle that is not known does nothing
RenameUnknown(c) ==
    /\ Call(c, "Rename") /\ Goes(c, Returned)
    /\ \E id \in Ids : lookup[id] = NoItem
    /\ UNCHANGED <<queue, lookup, wbItem, upload, timer, file>>

\* The loop of Rename over the items in todo, when queue and lookup have become q and l:
\* it waits for the upload of one ...
WaitForNamesake(c, i, to, todo, q, l) ==
    \E j \in todo :
        /\ wbItem[j].uploading
        /\ Requeue(q, {}) /\ lookup' = l
        /\ Goes(c, [pc |-> "namesakeWaits", item |-> j, renamed |-> i, to |-> to, todo |-> todo \ {j}])
        /\ UNCHANGED <<wbItem, upload>>

\* ... or is through, and the item has its new name and a new expiry
RenameEnds(c, i, to, q, l) ==
    /\ \E p \in Updated(q, i) : Requeue(p, {i})
    /\ lookup' = l
    /\ wbItem' = [wbItem EXCEPT ![i].name = to]
    /\ Goes(c, Returned)
    /\ UNCHANGED upload

\* Items not uploading are removed at once, as the one in removed has been, before it waits for another or the end
RenameOn(c, i, to, todo, q, l, removed) ==
    \E gone \in SUBSET {j \in todo : ~wbItem[j].uploading} :
        LET p == [heap |-> Filter(q.heap, Items \ gone),
                  due |-> Len(Filter(SubSeq(q.heap, 1, q.due), Items \ gone))]
            m == [id \in Ids |-> IF l[id] \in gone THEN NoItem ELSE l[id]]
        IN  /\ Unwanted({wbItem[j].id : j \in gone \cup removed})
            /\ IF gone = todo THEN RenameEnds(c, i, to, p, m)
               ELSE WaitForNamesake(c, i, to, todo \ gone, p, m)

Rename(c) ==
    /\ Call(c, "Rename")
    /\ \E id, to \in Ids :
          LET i == lookup[id] IN
          /\ i # NoItem
          /\ IF wbItem[i].uploading
             THEN /\ CancelUpload(c, [Waits("renameWaits", i) EXCEPT !.to = to])
                  /\ UNCHANGED <<upload, file>>
             ELSE RenameOn(c, i, to, Namesakes(i, to), queue, lookup, {})

\* The item that was uploading is put back with the expiry it had, and the loop begins
RenameResumes(c) ==
    LET i == caller[c].item
        todo == Namesakes(i, caller[c].to)
    IN  /\ caller[c].pc = "renameAgain"
        /\ RenameOn(c, i, caller[c].to, todo,
                IF OnHeap(i) THEN queue
                ELSE [heap |-> <<i>> \o queue.heap, due |-> queue.due + 1], lookup, {})
        /\ UNCHANGED calls /\ Background

\* A namesake is removed, and the loop goes on
NamesakeResumes(c) ==
    LET r == caller[c] IN
    /\ r.pc = "namesakeAgain"
    /\ RenameOn(c, r.renamed, r.to, r.todo \cap Namesakes(r.renamed, r.to), Without(queue, r.item),
                [lookup EXCEPT ![wbItem[r.item].id] = NoItem], {r.item})
    /\ UNCHANGED calls /\ Background

\* SetExpiry, with any expiry
SetExpiry(c) ==
    /\ Call(c, "SetExpiry") /\ Goes(c, Returned)
    /\ \E id \in Ids :
          LET i == lookup[id] IN
          /\ i # NoItem
          /\ \E q \in Updated(queue, i) \cup (IF OnHeap(i) THEN Sooner(queue, i) ELSE {}) : Requeue(q, {i})
    /\ UNCHANGED <<lookup, wbItem, upload, file>>

-------------------------------------------------------------------------------
Resume(c) == AddResumes(c) \/ RemoveResumes(c) \/ RenameResumes(c) \/ NamesakeResumes(c)

Next ==
    \/ TimePasses \/ TimerFires \/ ProcessItems
    \/ \E i \in Items : UploadFails(i) \/ UploadSucceeds(i)
    \/ \E c \in Callers :
          \/ AddNew(c) \/ AddKnown(c) \/ AddCancels(c) \/ RemoveNow(c) \/ RemoveCancels(c)
          \/ RenameUnknown(c) \/ Rename(c) \/ SetExpiry(c) \/ Resume(c)

Spec == Init /\ [][Next]_vars

\* Time passes, timers fire, putFn returns, in the end with success, and the lock goes to
\* whoever waits for it.
Fairness ==
    /\ WF_vars(TimePasses) /\ WF_vars(TimerFires) /\ SF_vars(ProcessItems)
    /\ \A i \in Items : SF_vars(UploadSucceeds(i))
    /\ \A c \in Callers : SF_vars(Resume(c))

FairSpec == Spec /\ Fairness

-------------------------------------------------------------------------------
TypeOK ==
    /\ queue.heap \in Seq(Items) /\ queue.due \in 0 .. Len(queue.heap)
    /\ lookup \in [Ids -> Items \cup {NoItem}]
    /\ wbItem \in [Items -> [id : Ids, name : Ids, uploading : BOOLEAN, closed : BOOLEAN]]
    /\ uploads \in 0 .. MaxUploads
    /\ \A i \in Items : upload[i] \in Seq(BOOLEAN)
    /\ timer \in [for : Items \cup {NoItem}, armed : BOOLEAN] /\ fired \in BOOLEAN
    /\ calls \in 0 .. MaxCalls
    /\ file \in [Ids -> [wanted : BOOLEAN, saved : BOOLEAN]]

\* "These are stored on the items heap when awaiting transfer but removed from the items
\* heap when transferring" (writeback.go:58): an item is never uploaded twice at once,
\* nor queued while it is uploaded.
OneUpload == \A i \in Items :
    /\ Len(upload[i]) = (IF wbItem[i].uploading THEN 1 ELSE 0)
    /\ ~(OnHeap(i) /\ wbItem[i].uploading)
    /\ Cardinality({n \in DOMAIN queue.heap : queue.heap[n] = i}) <= 1

\* done is closed once: closing it again would end the process.
ClosedOnce == \A i \in Items : upload[i] # <<>> => ~wbItem[i].closed

\* What is queued is going to be looked at: a timer runs for the first of the queue or has
\* fired, or uploads are at their limit and the end of one will set the timer.
TimerIsSet ==
    queue.heap # <<>> => fired \/ uploads = MaxUploads \/ timer = [for |-> Head(queue.heap), armed |-> TRUE]

\* Queue, uploads, done and timer belong together, whoever gave the lock up in between.
QueueIsSound == OneUpload /\ ClosedOnce /\ TimerIsSet

\* A file that was added and not removed is not forgotten before an upload of what it is now
\* has succeeded: it is queued, being uploaded as it is, or somebody is about to queue it.
\* (That an earlier upload does not succeed after that one is not said: README.md, section 4.)
NothingIsForgotten ==
    \A id \in Ids : file[id].wanted /\ ~file[id].saved =>
        \E i \in Items : /\ wbItem[i].id = id
                         /\ \/ OnHeap(i) \/ \E n \in DOMAIN upload[i] : upload[i][n]
                            \/ \E c \in Callers : caller[c].item = i

\* "They remain in the lookup map until cancelled" (writeback.go:59).
\* Does not hold: README.md, section 4.
QueuedIsKnown == \A i \in Items : OnHeap(i) \/ upload[i] # <<>> => lookup[wbItem[i].id] = i

\* There are finitely many calls.  Each returns, as the upload it waits for ends and wakes it,
\* and in the end everything that was added and not removed is uploaded.
Settles ==
    <>[](/\ \A c \in Callers : caller[c].pc = "idle"
         /\ queue.heap = <<>> /\ \A id \in Ids : file[id].wanted => file[id].saved)
===============================================================================
