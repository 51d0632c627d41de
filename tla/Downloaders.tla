------------------------------ MODULE Downloaders ------------------------------
(***************************************************************************)
(* internal/cache/downloaders/downloaders.go: the downloaders of one item  *)
(* and the readers that wait for them.                                     *)
(*                                                                         *)
(* Threads: the Callers (item._ensure on behalf of a read), one goroutine  *)
(* per downloader, the background kicker started by New, and one Closer    *)
(* (Downloaders.Close).  mu is Downloaders.mu; while a thread holds it,    *)
(* todo and need are the locals of the kickWaiters or _ensureDownloader it *)
(* is in.  A step of a downloader under downloader.mu, or of the item      *)
(* under Item.mu, is atomic.                                               *)
(*                                                                         *)
(* The file is counted in blocks: a block is what one downloader.Write     *)
(* stores.  rs, the blocks present, stands for item.info.Rs; RangeSet      *)
(* shows that Rs behaves as this set.                                      *)
(***************************************************************************)
EXTENDS Ranges, Lists

CONSTANTS
    Callers,        \* readers of the item
    Dl,             \* downloader structures that can exist at the same time
    Kicker, Closer, Nobody, NoDl,
    SrcSize,        \* dls.src.Size(): the object downloaded from
    ItemSize,       \* item.info.Size: what the item believes
    Window,         \* minWindow
    ReadAhead,      \* opt.ReadAhead
    MaxSkip,        \* maxSkipBytes
    MaxErrors,      \* maxErrorCount
    Requests,       \* the ranges readers ask for, clipped to ItemSize by _ensure
    Errors,         \* kinds of failure that can happen: "err", "nospace"
    CloseErr,       \* the argument of Close: "ok" is a nil error
    CanClose,       \* whether Close is called at all
    MaxEnding       \* bound: closed downloaders whose goroutine still runs

ASSUME DownloadersAssumption ==
    /\ SrcSize \in Nat /\ ItemSize \in Nat /\ Window \in Nat \ {0}
    /\ ReadAhead \in Nat /\ MaxSkip \in Nat /\ MaxErrors \in Nat
    /\ Requests \subseteq {r \in [Pos : Nat, Size : Nat] : End(r) <= ItemSize}
    /\ Errors \subseteq {"err", "nospace"}
    /\ CloseErr \in {"ok", "err"} /\ CanClose \in BOOLEAN
    /\ MaxEnding \in Nat \ {0}
    /\ Kicker \notin Callers \cup Dl /\ Closer \notin Callers \cup Dl
    /\ Nobody \notin Callers \cup Dl \cup {Kicker, Closer}
    /\ Callers \cap Dl = {} /\ NoDl \notin Dl /\ Kicker # Closer

VARIABLES
    rs,             \* blocks present in the cache file
    caller,         \* per caller: where it is, what it asked, what it got
    dl,             \* per downloader structure
    dls,            \* dls.dls: the downloaders listed
    waiters,        \* dls.waiters: the callers queued (each for its range r)
    mu,             \* who holds Downloaders.mu
    todo, need,     \* locals of the holder of mu
    errorCount, lastErr,
    kicker,         \* "run", "kick" or "exited"
    closer          \* Close: its program counter and its range loop

vars == <<rs, caller, dl, dls, waiters, mu, todo, need, errorCount, lastErr,
          kicker, closer>>

Results == {"none", "ok", "err", "nospace"}

NoNeed == [r |-> EmptyRange, new |-> FALSE, busy |-> FALSE]

\* A downloader structure not in use: its goroutine is over and nobody refers to it.
Idle == [pc |-> "done", start |-> 0, offset |-> 0, maxOffset |-> 0, skipped |-> 0,
         got |-> FALSE, err |-> "ok", closed |-> TRUE, stop |-> TRUE]

\* A downloader just started for r
Started(r) == [pc |-> "read", start |-> r.Pos, offset |-> r.Pos, maxOffset |-> End(r),
               skipped |-> 0, got |-> FALSE, err |-> "ok", closed |-> FALSE, stop |-> FALSE]

\* Close outside its loop over the downloaders.  began is not in the code: the
\* downloaders that were listed when Close was called.
NotClosing(pc, began) ==
    [pc |-> pc, i |-> 0, cur |-> NoDl, view |-> <<>>, shared |-> FALSE, began |-> began]

\* New; every downloader and every caller is idle
Init ==
    /\ rs \in SUBSET (0 .. SrcSize - 1)
    /\ caller = [c \in Callers |-> [pc |-> "idle", r |-> EmptyRange, wait |-> FALSE, res |-> "none"]]
    /\ dl = [d \in Dl |-> Idle]
    /\ dls = <<>>
    /\ waiters = {} /\ mu = Nobody /\ todo = {} /\ need = NoNeed
    /\ errorCount = 0 /\ lastErr = "ok"
    /\ kicker = "run"
    /\ closer = NotClosing("idle", {})

-------------------------------------------------------------------------------
\* dls.ctx is done
Cancelled == closer.pc \in {"kicker", "closed"}

\* item.HasRange
HasRange(r) == Bytes(r) \subseteq rs

\* item.FindMissing: drop what is present at the front, clip to the item's size
ItemFindMissing(r) ==
    LET gap == {p \in r.Pos .. End(r) : p \notin rs \/ p = End(r)}
        pos == CHOOSE p \in gap : \A q \in gap : p <= q
    IN  Clip(IF IsEmpty(r) THEN r ELSE [Pos |-> pos, Size |-> End(r) - pos], ItemSize)

\* The first half of _ensureDownloader: what to download, and whether a new
\* downloader may be started for it.
Wanted(r0) ==
    LET r      == ItemFindMissing([r0 EXCEPT !.Size = @ + ReadAhead])
        window == [r EXCEPT !.Size = @ + Window]
        ahead  == ItemFindMissing(window)
    IN  IF ~IsEmpty(r) THEN [r |-> r, new |-> TRUE, busy |-> TRUE]
        ELSE IF IsEmpty(ahead)
             THEN [r |-> [Pos |-> End(window), Size |-> 0], new |-> FALSE, busy |-> TRUE]
             ELSE [r |-> [Pos |-> ahead.Pos, Size |-> 0], new |-> TRUE, busy |-> TRUE]

\* Variant: a downloader told to stop is dropped before it is closed.
OpenNotStopped == Filter(dls, {d \in Dl : ~dl[d].closed /\ ~dl[d].stop})

\* The downloaders _removeClosed keeps
Open == Filter(dls, {d \in Dl : ~dl[d].closed})

\* Close ranges over the slice as it was when the loop began: closer.view, of
\* that length.  As long as both share one array (closer.shared) what happens to
\* dls shows in view.  _removeClosed compacts in place and leaves what lies
\* beyond the new end ...
Compacted ==
    IF closer.shared
    THEN [closer EXCEPT !.view = Open \o SubSeq(@, Len(Open) + 1, Len(@))]
    ELSE closer

\* ... and append writes into the array, or moves dls to another one when the
\* capacity is used up, which can happen only past the end of view.
Appended(d) ==
    LET k   == Len(Open) + 1
        new == [Compacted EXCEPT !.began = @ \ {d}]
    IN  IF ~closer.shared THEN {new}
        ELSE IF k <= Len(closer.view) THEN {[new EXCEPT !.view[k] = d]}
        ELSE {new, [new EXCEPT !.shared = FALSE]}

\* Structures that may be allocated again
Free == {d \in Dl : /\ dl[d].pc = "done"
                    /\ \A i \in DOMAIN dls : dls[i] # d \/ dl[d].closed
                    /\ closer.cur # d
                    /\ \A i \in DOMAIN Compacted.view : Compacted.view[i] # d}

\* Variant: failures are not counted.
CountErrorsNever(got, err) ==
    errorCount' = 0 /\ lastErr' = IF err = "ok" /\ got THEN "ok" ELSE lastErr

\* Variant: an error that follows a delivery resets the count below zero.
CountErrorsBelowZero(got, err) ==
    errorCount' = (IF err = "ok" THEN errorCount ELSE IF got THEN errorCount - 1
                   ELSE Min2(errorCount + 1, MaxErrors + 1)) /\ lastErr' = err

\* _countErrors(n, err), with got for n # 0.  The count stops at the first value
\* beyond MaxErrors: the code only compares it with maxErrorCount.
CountErrors(got, err) ==
    IF err = "ok"
    THEN /\ errorCount' = IF got THEN 0 ELSE errorCount
         /\ lastErr' = IF got /\ errorCount # 0 THEN "ok" ELSE lastErr
    ELSE /\ errorCount' = Min2(errorCount + 1, MaxErrors + 1)
         /\ lastErr' = err

\* Send v to the waiters in ws: their Download returns it
Answer(ws, v) ==
    caller' = [c \in Callers |-> IF c \in ws THEN [caller[c] EXCEPT !.pc = "idle", !.res = v]
                                             ELSE caller[c]]

\* Variant: only the first block of the range is looked for.
ServedByFirstBlock ==
    {c \in waiters : HasRange(Clip([caller[c].r EXCEPT !.Size = 1], SrcSize))}

\* _dispatchWaiters: the waiters whose range is there
Served == {c \in waiters : HasRange(Clip(caller[c].r, SrcSize))}

-------------------------------------------------------------------------------
(* item._ensure and Downloaders.Download / EnsureDownloader *)

\* _ensure looks at Rs, lets go of the item and has the downloaders in its hand:
\* a Close can begin at any moment from here on.
Begin(c) ==
    /\ caller[c].pc = "idle" /\ closer.pc = "idle"
    /\ \E r \in Requests :
          caller' = [caller EXCEPT ![c] = [pc |-> "locking", r |-> r, wait |-> ~HasRange(r),
                                           res |-> "none"]]
    /\ UNCHANGED <<rs, dl, dls, waiters, mu, todo, need, errorCount, lastErr, kicker, closer>>

\* Download (or EnsureDownloader when the range was present) takes the lock
Lock(c) ==
    /\ caller[c].pc = "locking" /\ mu = Nobody
    /\ mu' = c /\ todo' = {c}
    /\ caller' = [caller EXCEPT ![c].pc = "ensure"]
    /\ UNCHANGED <<rs, dl, dls, waiters, need, errorCount, lastErr, kicker, closer>>

\* How a caller leaves _ensureDownloader: queued on its channel, or done
CallerLeaves(c, err) ==
    LET waits == caller[c].wait /\ err = "ok"
    IN  /\ caller' = [caller EXCEPT ![c].pc = IF waits THEN "blocked" ELSE "idle",
                                    ![c].res = IF caller[c].wait /\ ~waits THEN err ELSE "none"]
        /\ waiters' = IF waits THEN waiters \cup {c} ELSE waiters
        /\ mu' = Nobody

-------------------------------------------------------------------------------
(* _ensureDownloader, run by whoever holds mu for the callers in todo *)

EnsureFind ==
    /\ mu # Nobody /\ ~need.busy
    /\ \E c \in todo :
          /\ need' = Wanted(caller[c].r)
          /\ todo' = todo \ {c}
    /\ UNCHANGED <<rs, caller, dl, dls, waiters, mu, errorCount, lastErr, kicker, closer>>

\* The holder of mu comes back from _ensureDownloader with err
EnsureReturns(err) ==
    /\ need' = NoNeed
    /\ IF mu \in Callers THEN CallerLeaves(mu, err)
       ELSE UNCHANGED <<caller, waiters, mu>>

\* Variant: a downloader that started beyond the position is taken as well.
InReachFromAnywhere == {i \in DOMAIN Open : need.r.Pos < dl[Open[i]].offset + Window}

\* The open downloaders that will soon have need.r
InReach == {i \in DOMAIN Open : /\ need.r.Pos >= dl[Open[i]].start
                                /\ need.r.Pos < dl[Open[i]].offset + Window}

\* Reuse the first downloader in reach: setRange.  Its kick only wakes a Write
\* that waits, and Write below looks at maxOffset at any time.
Reuse ==
    /\ need.busy /\ InReach # {}
    /\ LET i == CHOOSE k \in InReach : \A j \in InReach : k <= j
       IN  dl' = [dl EXCEPT ![Open[i]].maxOffset = Max2(@, End(need.r))]
    /\ dls' = Open /\ closer' = Compacted
    /\ EnsureReturns("ok")
    /\ UNCHANGED <<rs, todo, errorCount, lastErr, kicker>>

\* No downloader in reach and nothing to start one for
NothingToStart ==
    /\ need.busy /\ InReach = {}
    /\ ~need.new \/ need.r.Size = 0
    /\ dls' = Open /\ closer' = Compacted
    /\ EnsureReturns("ok")
    /\ UNCHANGED <<rs, dl, todo, errorCount, lastErr, kicker>>

\* A structure of Dl that is not in use: any, since they are alike
Fresh == IF Free = {} THEN {} ELSE {CHOOSE d \in Free : TRUE}

\* _newDownloader: open succeeds if the source has the offset
NewDownloader ==
    /\ need.busy /\ InReach = {} /\ need.new /\ need.r.Size # 0
    /\ need.r.Pos < SrcSize
    /\ \E d \in Fresh :
          /\ dl' = [dl EXCEPT ![d] = Started(need.r)]
          /\ dls' = Append(Open, d)
          /\ closer' \in Appended(d)
    /\ EnsureReturns("ok")
    /\ UNCHANGED <<rs, todo, errorCount, lastErr, kicker>>

\* _newDownloader fails: the item is larger than the source
NewFails ==
    /\ need.busy /\ InReach = {} /\ need.new /\ need.r.Size # 0
    /\ need.r.Pos >= SrcSize
    /\ dls' = Open /\ closer' = Compacted
    /\ CountErrors(FALSE, "err")
    /\ EnsureReturns("err")
    /\ UNCHANGED <<rs, dl, todo, kicker>>

-------------------------------------------------------------------------------
(* kickWaiters, called by the kicker and by the downloader goroutines *)

\* t comes back from kickWaiters with err
KickReturns(t, err) ==
    /\ mu' = Nobody
    /\ kicker' = IF t = Kicker THEN "run" ELSE kicker
    /\ dl' = IF t = Kicker THEN dl
             ELSE IF dl[t].pc = "last" THEN [dl EXCEPT ![t] = Idle]
             ELSE IF dl[t].pc = "kickEOF" THEN [dl EXCEPT ![t].pc = "close"]
             ELSE IF err # "ok" THEN [dl EXCEPT ![t].pc = "close", ![t].err = err]
             ELSE [dl EXCEPT ![t].pc = "read"]

\* Who may call kickWaiters: the kicker at any tick, a downloader after a Write
\* that stored something and once more when it is finished
Kicks(t) == \/ t = Kicker /\ kicker = "run"
            \/ t \in Dl /\ dl[t].pc \in {"kick", "kickEOF", "last"}

\* Take the lock and dispatch; return at once if no waiter is left
KickBegin(t) ==
    /\ Kicks(t) /\ mu = Nobody
    /\ Answer(Served, "ok")
    /\ waiters' = waiters \ Served
    /\ IF waiters' = {} THEN KickReturns(t, "ok") /\ UNCHANGED todo
       ELSE /\ mu' = t /\ todo' = waiters'
            /\ kicker' = IF t = Kicker THEN "kick" ELSE kicker
            /\ UNCHANGED dl
    /\ UNCHANGED <<rs, dls, need, errorCount, lastErr, closer>>

\* Every waiter has been seen to: give up on all of them after ENOSPC or too
\* many errors
KickEnd ==
    /\ mu \in Dl \cup {Kicker} /\ todo = {} /\ ~need.busy
    /\ IF lastErr = "nospace" \/ errorCount > MaxErrors
       THEN Answer(waiters, lastErr) /\ waiters' = {} /\ KickReturns(mu, lastErr)
       ELSE UNCHANGED <<caller, waiters>> /\ KickReturns(mu, "ok")
    /\ UNCHANGED <<rs, dls, todo, need, errorCount, lastErr, closer>>

\* The background kicker leaves when the context is cancelled
KickerExits ==
    /\ kicker = "run" /\ Cancelled
    /\ kicker' = "exited"
    /\ UNCHANGED <<rs, caller, dl, dls, waiters, mu, todo, need, errorCount, lastErr, closer>>

-------------------------------------------------------------------------------
(* The goroutine of a downloader: io.Copy(dl, dl.in), then close *)

DlOnly(d, rec) ==
    /\ dl' = [dl EXCEPT ![d] = rec]
    /\ UNCHANGED <<rs, caller, dls, waiters, mu, todo, need, errorCount, lastErr, kicker, closer>>

\* The reader delivers the block at offset
ReadBlock(d) == /\ dl[d].pc = "read" /\ dl[d].offset < SrcSize
                /\ DlOnly(d, [dl[d] EXCEPT !.pc = "write"])

\* End of the source
ReadEOF(d) == /\ dl[d].pc = "read" /\ dl[d].offset >= SrcSize
              /\ DlOnly(d, [dl[d] EXCEPT !.pc = "close"])

\* The upstream fails, the context was cancelled, or _stop closed the reader
ReadFails(d) == /\ dl[d].pc = "read"
                /\ "err" \in Errors \/ dl[d].stop \/ Cancelled
                /\ DlOnly(d, [dl[d] EXCEPT !.pc = "close", !.err = "err"])

\* Variant: the block in hand when the downloader is told to stop is not stored.
WriteDropsLast(d) ==
    LET stop == dl[d].stop \/ dl[d].offset >= dl[d].maxOffset IN
    /\ dl[d].pc = "write"
    /\ rs' = IF stop THEN rs ELSE rs \cup {dl[d].offset}
    /\ dl' = [dl EXCEPT ![d].pc = IF stop THEN "kickEOF" ELSE "kick", ![d].got = TRUE,
                        ![d].offset = @ + 1, ![d].stop = stop]
    /\ UNCHANGED <<caller, dls, waiters, mu, todo, need, errorCount, lastErr, kicker, closer>>

\* Variant: Write waits at maxOffset without an idle timer.
WriteWithoutTimer(d) ==
    /\ dl[d].pc = "write" /\ (dl[d].offset < dl[d].maxOffset \/ dl[d].stop)
    /\ rs' = rs \cup {dl[d].offset}
    /\ dl' = [dl EXCEPT ![d].pc = IF dl[d].stop THEN "kickEOF" ELSE "kick", ![d].got = TRUE,
                        ![d].offset = @ + 1]
    /\ UNCHANGED <<caller, dls, waiters, mu, todo, need, errorCount, lastErr, kicker, closer>>

\* Write stores the block unless it is present: below maxOffset, or past it
\* because quit was closed, or because the idle timer fired and stopped it
Write(d) ==
    LET skip    == dl[d].offset \in rs
        skipped == IF skip THEN Min2(dl[d].skipped + 1, MaxSkip + 1) ELSE 0
        stop    == dl[d].stop \/ dl[d].offset >= dl[d].maxOffset \/ skipped > MaxSkip
    IN
    /\ dl[d].pc = "write"
    /\ rs' = rs \cup {dl[d].offset}
    /\ dl' = [dl EXCEPT ![d].pc = IF stop THEN "kickEOF" ELSE "kick", ![d].got = TRUE,
                        ![d].skipped = skipped, ![d].offset = @ + 1, ![d].stop = stop]
    /\ UNCHANGED <<caller, dls, waiters, mu, todo, need, errorCount, lastErr, kicker, closer>>

\* Write fails on the disk with nothing stored: no kick, io.Copy ends
WriteFails(d) ==
    \E e \in Errors :
        /\ dl[d].pc = "write" /\ dl[d].offset \notin rs
        /\ DlOnly(d, [dl[d] EXCEPT !.pc = "close", !.err = e,
                                   !.stop = @ \/ dl[d].offset >= dl[d].maxOffset])

\* downloader.close
CloseDl(d) == /\ dl[d].pc = "close"
              /\ Cardinality({e \in Dl : dl[e].pc \in {"count", "last"}}) < MaxEnding
              /\ DlOnly(d, [dl[d] EXCEPT !.pc = "count", !.closed = TRUE])

\* countErrors, in a critical section of its own
Count(d) ==
    /\ dl[d].pc = "count" /\ mu = Nobody
    /\ CountErrors(dl[d].got, dl[d].err)
    /\ dl' = [dl EXCEPT ![d].pc = "last"]
    /\ UNCHANGED <<rs, caller, dls, waiters, mu, todo, need, kicker, closer>>

-------------------------------------------------------------------------------
(* Downloaders.Close *)

\* The next element of the range loop, or dls.cancel() after the last
CloseIterate(i, view, began) ==
    closer' = IF i \in DOMAIN view
              THEN [pc |-> "stop", i |-> i, cur |-> view[i], view |-> view,
                    shared |-> IF i = 1 THEN TRUE ELSE closer.shared, began |-> began]
              ELSE NotClosing("kicker", began)

CloseBegin ==
    /\ CanClose /\ closer.pc = "idle" /\ mu = Nobody
    /\ dls' = Open
    /\ CloseIterate(1, Open, {Open[i] : i \in DOMAIN Open})
    /\ UNCHANGED <<rs, caller, dl, waiters, mu, todo, need, errorCount, lastErr, kicker>>

\* stopAndClose, with mu released: _stop ...
CloseStop ==
    /\ closer.pc = "stop"
    /\ dl' = [dl EXCEPT ![closer.cur].stop = TRUE]
    /\ closer' = [closer EXCEPT !.pc = "wait"]
    /\ UNCHANGED <<rs, caller, dls, waiters, mu, todo, need, errorCount, lastErr, kicker>>

\* ... then wait for the goroutine, take mu again, go round
CloseNext ==
    /\ closer.pc = "wait" /\ dl[closer.cur].pc = "done" /\ mu = Nobody
    /\ CloseIterate(closer.i + 1, closer.view, closer.began)
    /\ UNCHANGED <<rs, caller, dl, dls, waiters, mu, todo, need, errorCount, lastErr, kicker>>

\* Variant: those left when the kicker is gone are not dispatched for the last time.
CloseEndFailsAll ==
    /\ closer.pc = "kicker" /\ kicker = "exited" /\ mu = Nobody
    /\ dls' = <<>>
    /\ Answer(waiters, CloseErr)
    /\ waiters' = {}
    /\ closer' = NotClosing("closed", {})
    /\ UNCHANGED <<rs, dl, mu, todo, need, errorCount, lastErr, kicker>>

\* The kicker is gone: dispatch for the last time and fail everybody else
CloseEnd ==
    /\ closer.pc = "kicker" /\ kicker = "exited" /\ mu = Nobody
    /\ dls' = <<>>
    /\ caller' = [c \in Callers |->
                    IF c \in waiters
                    THEN [caller[c] EXCEPT !.pc = "idle",
                                           !.res = IF c \in Served THEN "ok" ELSE CloseErr]
                    ELSE caller[c]]
    /\ waiters' = {}
    /\ closer' = NotClosing("closed", {})
    /\ UNCHANGED <<rs, dl, mu, todo, need, errorCount, lastErr, kicker>>

-------------------------------------------------------------------------------
\* Steps of the thread that holds mu
Holder == EnsureFind \/ Reuse \/ NothingToStart \/ NewDownloader \/ NewFails \/ KickEnd

\* Steps of the goroutine of d, waiting for mu included
Goroutine(d) == \/ ReadBlock(d) \/ ReadEOF(d) \/ ReadFails(d) \/ Write(d)
                \/ WriteFails(d) \/ CloseDl(d) \/ Count(d) \/ KickBegin(d)

Close == CloseBegin \/ CloseStop \/ CloseNext \/ CloseEnd

Next ==
    \/ \E c \in Callers : Begin(c) \/ Lock(c)
    \/ Holder
    \/ \E d \in Dl : Goroutine(d)
    \/ KickBegin(Kicker) \/ KickerExits
    \/ Close

Spec == Init /\ [][Next]_vars

\* Every goroutine that can move does; a thread that queues for mu gets it in the
\* end (Go's sync.Mutex hands over to a waiter that starves); the ticker ticks;
\* a Read returns, with data or with an error.  Readers need not read, and nobody
\* need call Close.
Fairness ==
    /\ \A c \in Callers : SF_vars(Lock(c))
    /\ WF_vars(Holder)
    /\ \A d \in Dl : SF_vars(Goroutine(d))
    /\ SF_vars(KickBegin(Kicker)) /\ SF_vars(KickerExits)
    /\ SF_vars(Close /\ closer.pc # "idle")

FairSpec == Spec /\ Fairness

-------------------------------------------------------------------------------
DlStates == [pc : {"read", "write", "kick", "kickEOF", "close", "count", "last", "done"},
             start : Nat, offset : Nat, maxOffset : Nat, skipped : 0 .. MaxSkip + 1,
             got : BOOLEAN, err : {"ok", "err", "nospace"},
             closed : BOOLEAN, stop : BOOLEAN]

CallerStates == [pc : {"idle", "locking", "ensure", "blocked"},
                 r : [Pos : Nat, Size : Nat], wait : BOOLEAN, res : Results]

TypeOK ==
    /\ rs \subseteq Nat
    /\ caller \in [Callers -> CallerStates]
    /\ dl \in [Dl -> DlStates]
    /\ waiters \subseteq Callers /\ todo \subseteq Callers
    /\ mu \in Callers \cup Dl \cup {Kicker, Nobody}
    /\ need \in [r : [Pos : Nat, Size : Nat], new : BOOLEAN, busy : BOOLEAN]
    /\ errorCount \in 0 .. MaxErrors + 1
    /\ lastErr \in {"ok", "err", "nospace"}
    /\ kicker \in {"run", "kick", "exited"}

\* Who holds mu is inside a critical section: a caller in _ensureDownloader, a
\* goroutine in kickWaiters (for the proofs).
HolderIsInside ==
    /\ \A c \in Callers : caller[c].pc = "ensure" <=> mu = c
    /\ \A d \in Dl : mu = d => dl[d].pc \in {"kick", "kickEOF", "last"}

\* While errors are being counted the last one is known (for the proofs): what
\* kickWaiters hands to the waiters it gives up on is never nil.
ErrorIsKnown == errorCount # 0 => lastErr # "ok"

\* A caller is told nothing before it leaves, and only who waits queues (for the proofs).
CallerIsUntold ==
    \A c \in Callers : /\ caller[c].pc # "idle" => caller[c].res = "none"
                       /\ caller[c].pc = "blocked" => caller[c].wait

\* A block to be stored is one of the object (for the proofs).
WrittenIsOfSource == \A d \in Dl : dl[d].pc = "write" => dl[d].offset < SrcSize

\* A downloader leaves no hole behind it.  _ensureDownloader reuses a downloader
\* for any position after its start "as it will soon have our data": were a block
\* between start and offset absent, its waiter would be waited on in vain.
PassedIsPresent ==
    \A d \in Dl : dl[d].pc # "done" => dl[d].start .. dl[d].offset - 1 \subseteq rs

\* A Download that returns nil has its range in the file: "Download the range
\* passed in returning when it has been downloaded" (downloaders.go:244).
SuccessMeansPresent ==
    \A c \in Callers : caller[c].res = "ok" => HasRange(Clip(caller[c].r, SrcSize))

\* A reader blocked on its channel is queued exactly while nobody has answered it:
\* an answer lost or sent twice would hang the reader, or the sender holding mu (for the
\* proofs: FetchesRanges and DownloadReturns say what comes of it).
BlockedIsQueued == waiters = {c \in Callers : caller[c].pc = "blocked"}

\* Before Close and between critical sections, a queued reader whose data is missing is looked
\* after without the help of the background kicker: some downloader is on its way
\* to the first missing block, or is about to end, and will then kick the waiters.
MissingIsBeingFetched ==
    mu = Nobody /\ closer.pc = "idle" =>
        \A c \in waiters \ Served :
            LET r == ItemFindMissing(Clip(caller[c].r, SrcSize)) IN
            r.Pos < SrcSize =>
            \E d \in Dl : \/ dl[d].pc \in {"kick", "kickEOF", "close", "count", "last"}
                          \/ dl[d].pc \in {"read", "write"} /\ dl[d].stop
                          \/ /\ dl[d].pc \in {"read", "write"}
                             /\ dl[d].offset <= r.Pos /\ r.Pos < dl[d].maxOffset

\* The callers and Close as the item sees them
Calls == [c \in Callers |-> [asked |-> caller[c].pc # "idle", r |-> caller[c].r,
                             waits |-> caller[c].wait, res |-> caller[c].res]]

Stage == CASE closer.pc = "idle" -> "open" [] closer.pc = "closed" -> "closed" [] OTHER -> "closing"

Promise == INSTANCE RangeFetch WITH have <- rs, call <- Calls, stage <- Stage

\* What the item sees of the downloaders is a RangeFetch: nobody is told twice, told of
\* success without its range in the file, failed with a nil error before Close, or failed
\* by Close with its range in the file (downloaders.go:218-276, 379-438).
FetchesRanges == Promise!Spec

\* Until Close drops the list, every downloader that is not closed is in it, once:
\* what _removeClosed and append do to the shared array loses none.
LiveIsListed ==
    closer.pc # "closed" =>
        \A d \in Dl : ~dl[d].closed =>
            \E i \in DOMAIN dls : dls[i] = d /\ \A j \in DOMAIN dls \ {i} : dls[j] # d

\* When Close is through with its loop, every downloader that was running when it
\* was called is closed: "Close all running downloaders" (downloaders.go:218).
\* Does not hold: README.md, section 4.
CloseStopsAll == closer.pc = "kicker" => \A d \in closer.began : dl[d].closed

\* A Download that waits when there is no Close, or before Close is through, returns,
\* whatever the upstream and the disk do.  One that gets the lock later may not.
DownloadReturns ==
    \A c \in Callers : (caller[c].pc = "blocked" /\ closer.pc # "closed") ~> (caller[c].pc # "blocked")

\* Close returns: it waits for goroutines that need the lock it gives up.
CloseReturns == (closer.pc # "idle") ~> (closer.pc = "closed")

\* When nobody reads any more, every downloader comes to an end (its idle timer)
\* and its connection with it.
IdleDownloadersEnd ==
    (<>[](\A c \in Callers : caller[c].pc = "idle")) => (<>[](\A d \in Dl : dl[d].pc = "done"))

\* No goroutine is left behind, neither the one that closes nor those nobody needs.
GoroutinesEnd == CloseReturns /\ IdleDownloadersEnd
===============================================================================
