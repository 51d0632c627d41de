--------------------------- MODULE DownloadersProofs ---------------------------
(***************************************************************************)
(* Proofs about Downloaders, for any number of readers and downloaders,    *)
(* any file size, window, read-ahead and error limit.                      *)
(***************************************************************************)
EXTENDS Downloaders, Lemmas, SequenceTheorems

Rng == [Pos : Nat, Size : Nat]

\* item.FindMissing returns a range.
LEMMA FindMissingType ==
    ASSUME NEW r \in Rng
    PROVE  ItemFindMissing(r) \in Rng
<1> DEFINE gap == {p \in r.Pos .. End(r) : p \notin rs \/ p = End(r)}
           pos == CHOOSE p \in gap : \A q \in gap : p <= q
           m   == IF IsEmpty(r) THEN r ELSE [Pos |-> pos, Size |-> End(r) - pos]
<1>1. gap \subseteq Nat /\ End(r) \in gap
    BY DEF Rng, End
<1>2. pos \in gap
    <2>1. \E p \in gap : \A q \in gap : p <= q
        BY <1>1, LeastNumber
    <2> HIDE DEF gap
    <2> QED BY <2>1
<1>3. pos \in Nat /\ End(r) - pos \in Nat
    BY <1>1, <1>2 DEF Rng, End
<1>4. m \in Rng
    BY <1>3 DEF Rng
<1>5. ItemFindMissing(r) = Clip(m, ItemSize)
    BY DEF ItemFindMissing
<1> HIDE DEF m
<1>6. Clip(m, ItemSize) \in Rng
    BY <1>4, DownloadersAssumption DEF Rng, Clip, End, EmptyRange
<1> QED BY <1>5, <1>6

\* _ensureDownloader's first half computes a range and two flags.
LEMMA WantedType ==
    ASSUME NEW r0 \in Rng
    PROVE  Wanted(r0) \in [r : Rng, new : BOOLEAN, busy : BOOLEAN]
<1> DEFINE r      == ItemFindMissing([r0 EXCEPT !.Size = @ + ReadAhead])
           window == [r EXCEPT !.Size = @ + Window]
           ahead  == ItemFindMissing(window)
<1>1. [r0 EXCEPT !.Size = @ + ReadAhead] \in Rng
    BY DownloadersAssumption DEF Rng
<1>2. r \in Rng
    BY <1>1, FindMissingType
<1> HIDE DEF r
<1>3. window \in Rng /\ End(window) \in Nat
    BY <1>2, DownloadersAssumption DEF Rng, End
<1>4. ahead \in Rng
    BY <1>3, FindMissingType
<1> HIDE DEF window, ahead
<1>5. Wanted(r0) = IF ~IsEmpty(r) THEN [r |-> r, new |-> TRUE, busy |-> TRUE]
        ELSE IF IsEmpty(ahead)
             THEN [r |-> [Pos |-> End(window), Size |-> 0], new |-> FALSE, busy |-> TRUE]
             ELSE [r |-> [Pos |-> ahead.Pos, Size |-> 0], new |-> TRUE, busy |-> TRUE]
    BY DEF Wanted, r, window, ahead
<1> QED BY <1>2, <1>3, <1>4, <1>5 DEF Rng

-------------------------------------------------------------------------------
USE DEF Results

\* Changing fields of a downloader keeps its type.
LEMMA DlRecord ==
    ASSUME NEW x \in DlStates
    PROVE  /\ [x EXCEPT !.stop = TRUE] \in DlStates
           /\ [x EXCEPT !.pc = "last"] \in DlStates
           /\ [x EXCEPT !.pc = "write"] \in DlStates
           /\ [x EXCEPT !.pc = "close"] \in DlStates
           /\ [x EXCEPT !.pc = "count", !.closed = TRUE] \in DlStates
           /\ \A m \in Nat : [x EXCEPT !.maxOffset = m] \in DlStates
           /\ \A e \in {"ok", "err", "nospace"} : [x EXCEPT !.pc = "close", !.err = e] \in DlStates
           /\ \A e \in {"ok", "err", "nospace"}, b \in BOOLEAN :
                 [x EXCEPT !.pc = "close", !.err = e, !.stop = b] \in DlStates
<1>1. [x EXCEPT !.stop = TRUE] \in DlStates  BY DEF DlStates
<1>2. [x EXCEPT !.pc = "last"] \in DlStates  BY DEF DlStates
<1>3. [x EXCEPT !.pc = "write"] \in DlStates  BY DEF DlStates
<1>4. [x EXCEPT !.pc = "close"] \in DlStates  BY DEF DlStates
<1>5. [x EXCEPT !.pc = "count", !.closed = TRUE] \in DlStates  BY DEF DlStates
<1>6. \A m \in Nat : [x EXCEPT !.maxOffset = m] \in DlStates  BY DEF DlStates
<1>7. \A e \in {"ok", "err", "nospace"} : [x EXCEPT !.pc = "close", !.err = e] \in DlStates
    BY DEF DlStates
<1>8. \A e \in {"ok", "err", "nospace"}, b \in BOOLEAN :
         [x EXCEPT !.pc = "close", !.err = e, !.stop = b] \in DlStates
    BY DEF DlStates
<1> QED BY <1>1, <1>2, <1>3, <1>4, <1>5, <1>6, <1>7, <1>8

\* Initially the variables have their types.
LEMMA InitType == Init => TypeOK
BY DownloadersAssumption DEF Init, TypeOK, CallerStates, DlStates, Idle, NoNeed, EmptyRange

\* Leaving kickWaiters keeps the types.
LEMMA KickReturnsType ==
    ASSUME TypeOK, NEW t \in Dl \cup {Kicker}, NEW err \in {"ok", "err", "nospace"},
           KickReturns(t, err)
    PROVE  dl' \in [Dl -> DlStates] /\ mu' = Nobody /\ kicker' \in {"run", "kick", "exited"}
<1>1. dl \in [Dl -> DlStates] /\ kicker \in {"run", "kick", "exited"}
    BY DEF TypeOK
<1>2. Idle \in DlStates
    BY DownloadersAssumption DEF Idle, DlStates
<1> QED BY <1>1, <1>2 DEF KickReturns, DlStates

\* Giving a caller its result keeps its type.
LEMMA CallerRecord ==
    ASSUME NEW x \in CallerStates, NEW v \in Results
    PROVE  [x EXCEPT !.pc = "idle", !.res = v] \in CallerStates
BY DEF CallerStates

\* An answer to some waiters keeps the types.
LEMMA AnswerType ==
    ASSUME TypeOK, NEW ws, NEW v \in Results, Answer(ws, v)
    PROVE  caller' \in [Callers -> CallerStates]
<1>1. ASSUME NEW c \in Callers
      PROVE  caller[c] \in CallerStates /\ [caller[c] EXCEPT !.pc = "idle", !.res = v] \in CallerStates
    BY CallerRecord DEF TypeOK
<1>2. caller' = [c \in Callers |-> IF c \in ws THEN [caller[c] EXCEPT !.pc = "idle", !.res = v]
                                               ELSE caller[c]]
    BY DEF Answer
<1> QED BY <1>1, <1>2

\* Coming back from _ensureDownloader keeps the types.
LEMMA EnsureReturnsType ==
    ASSUME TypeOK, NEW err \in {"ok", "err"}, EnsureReturns(err)
    PROVE  /\ caller' \in [Callers -> CallerStates] /\ waiters' \subseteq Callers
           /\ mu' \in Callers \cup Dl \cup {Kicker, Nobody}
           /\ need' \in [r : Rng, new : BOOLEAN, busy : BOOLEAN]
BY DEF TypeOK, EnsureReturns, CallerLeaves, CallerStates, NoNeed, EmptyRange, Rng

\* A new downloader gets a structure that is not in use.
LEMMA FreshIsFree == Fresh \subseteq Free
BY DEF Fresh

\* The error counter stays within its bound.
LEMMA CountErrorsType ==
    ASSUME TypeOK, NEW got \in BOOLEAN, NEW err \in {"ok", "err", "nospace"},
           CountErrors(got, err)
    PROVE  errorCount' \in 0 .. MaxErrors + 1 /\ lastErr' \in {"ok", "err", "nospace"}
BY DownloadersAssumption DEF TypeOK, CountErrors, Min2

\* Every step keeps the types.
LEMMA TypeStep == TypeOK /\ [Next]_vars => TypeOK'
<1> SUFFICES ASSUME TypeOK, [Next]_vars PROVE TypeOK'
    OBVIOUS
<1> USE DownloadersAssumption
<1>1. ASSUME NEW c \in Callers, Begin(c) PROVE TypeOK'
    BY <1>1 DEF TypeOK, Begin, CallerStates
<1>2. ASSUME NEW c \in Callers, Lock(c) PROVE TypeOK'
    BY <1>2 DEF TypeOK, Lock, CallerStates
<1>3. CASE EnsureFind
    <2>1. PICK c \in todo : need' = Wanted(caller[c].r) /\ todo' = todo \ {c}
        BY <1>3 DEF EnsureFind
    <2>2. caller[c].r \in Rng
        BY <2>1 DEF TypeOK, CallerStates, Rng
    <2>3. need' \in [r : [Pos : Nat, Size : Nat], new : BOOLEAN, busy : BOOLEAN]
        BY <2>1, <2>2, WantedType DEF Rng
    <2> QED BY <1>3, <2>1, <2>3 DEF TypeOK, EnsureFind
<1>4. CASE Reuse
    <2>1. EnsureReturns("ok") /\ UNCHANGED <<rs, todo, errorCount, lastErr, kicker>>
        BY <1>4 DEF Reuse
    <2>2. dl' \in [Dl -> DlStates]
        <3>1. PICK x : dl' = [dl EXCEPT ![x].maxOffset = Max2(@, End(need.r))]
            BY <1>4 DEF Reuse
        <3>2. End(need.r) \in Nat /\ dl \in [Dl -> DlStates]
            BY DEF TypeOK, End
        <3>3. \A d \in Dl : Max2(dl[d].maxOffset, End(need.r)) \in Nat
            BY <3>2 DEF Max2, DlStates
        <3>4. ASSUME NEW d \in Dl
              PROVE  [dl[d] EXCEPT !.maxOffset = Max2(dl[d].maxOffset, End(need.r))] \in DlStates
            BY <3>2, <3>3 DEF DlStates
        <3>5. dl' = [d \in Dl |-> IF d = x
                        THEN [dl[d] EXCEPT !.maxOffset = Max2(dl[d].maxOffset, End(need.r))]
                        ELSE dl[d]]
            BY <3>1, <3>2
        <3> QED BY <3>2, <3>4, <3>5
    <2> QED BY <2>1, <2>2, EnsureReturnsType DEF TypeOK, Rng
<1>5. CASE NothingToStart
    <2>1. EnsureReturns("ok") /\ UNCHANGED <<rs, dl, todo, errorCount, lastErr, kicker>>
        BY <1>5 DEF NothingToStart
    <2> QED BY <2>1, EnsureReturnsType DEF TypeOK, Rng
<1>6. CASE NewDownloader
    <2>1. EnsureReturns("ok") /\ UNCHANGED <<rs, todo, errorCount, lastErr, kicker>>
        BY <1>6 DEF NewDownloader
    <2>2. dl' \in [Dl -> DlStates]
        <3>1. need.r.Pos \in Nat /\ End(need.r) \in Nat /\ dl \in [Dl -> DlStates]
            BY DEF TypeOK, End
        <3>2. Started(need.r) \in DlStates
            BY <3>1 DEF DlStates, Started
        <3>3. PICK d \in Free : dl' = [dl EXCEPT ![d] = Started(need.r)]
            BY <1>6, FreshIsFree DEF NewDownloader
        <3> QED BY <3>1, <3>2, <3>3
    <2> QED BY <2>1, <2>2, EnsureReturnsType DEF TypeOK, Rng
<1>7. CASE NewFails
    <2>1. /\ EnsureReturns("err") /\ CountErrors(FALSE, "err")
          /\ UNCHANGED <<rs, dl, todo, kicker>>
        BY <1>7 DEF NewFails
    <2> QED BY <2>1, EnsureReturnsType, CountErrorsType DEF TypeOK, Rng
<1>8. CASE KickEnd
    <2>1. lastErr \in {"ok", "err", "nospace"} /\ mu \in Dl \cup {Kicker}
        BY <1>8 DEF TypeOK, KickEnd
    <2>2. KickReturns(mu, lastErr) \/ KickReturns(mu, "ok")
        BY <1>8 DEF KickEnd
    <2>3. caller' \in [Callers -> CallerStates] /\ waiters' \subseteq Callers
        BY <1>8, <2>1, AnswerType DEF KickEnd, TypeOK
    <2>4. dl' \in [Dl -> DlStates] /\ mu' = Nobody /\ kicker' \in {"run", "kick", "exited"}
        BY <2>1, <2>2, KickReturnsType
    <2> QED BY <1>8, <2>3, <2>4 DEF TypeOK, KickEnd
<1>9. ASSUME NEW t \in Dl \cup {Kicker}, KickBegin(t) PROVE TypeOK'
    <2>1. caller' \in [Callers -> CallerStates]
        BY <1>9, AnswerType DEF KickBegin
    <2>2. CASE waiters' = {}
        <3>1. KickReturns(t, "ok")
            BY <1>9, <2>2 DEF KickBegin
        <3>2. dl' \in [Dl -> DlStates] /\ mu' = Nobody /\ kicker' \in {"run", "kick", "exited"}
            BY <3>1, KickReturnsType
        <3> QED BY <1>9, <2>1, <2>2, <3>2 DEF TypeOK, KickBegin
    <2>3. CASE waiters' # {}
        BY <1>9, <2>1, <2>3 DEF TypeOK, KickBegin
    <2> QED BY <2>2, <2>3
<1>10. ASSUME NEW d \in Dl, ReadBlock(d) \/ ReadEOF(d) \/ ReadFails(d) \/ CloseDl(d)
       PROVE  TypeOK'
    <2>1. dl \in [Dl -> DlStates] /\ dl[d] \in DlStates
        BY DEF TypeOK
    <2>2. PICK rec \in DlStates : DlOnly(d, rec)
        BY <1>10, <2>1, DlRecord DEF ReadBlock, ReadEOF, ReadFails, CloseDl
    <2>3. dl' \in [Dl -> DlStates]
        BY <2>1, <2>2 DEF DlOnly
    <2> QED BY <2>2, <2>3 DEF TypeOK, DlOnly
<1>11. ASSUME NEW d \in Dl, Write(d) PROVE TypeOK'
    <2>1. dl \in [Dl -> DlStates] /\ rs \subseteq Nat
        BY DEF TypeOK
    <2>2. dl[d].offset \in Nat /\ dl[d].skipped \in 0 .. MaxSkip + 1
        BY <2>1 DEF DlStates
    <2>3. rs' \subseteq Nat
        BY <1>11, <2>1, <2>2 DEF Write
    <2>4. PICK skipped \in 0 .. MaxSkip + 1, stop \in BOOLEAN :
              dl' = [dl EXCEPT ![d].pc = IF stop THEN "kickEOF" ELSE "kick", ![d].got = TRUE,
                        ![d].skipped = skipped, ![d].offset = @ + 1, ![d].stop = stop]
        <3> DEFINE skip    == dl[d].offset \in rs
                   skipped == IF skip THEN Min2(dl[d].skipped + 1, MaxSkip + 1) ELSE 0
                   stop    == dl[d].stop \/ dl[d].offset >= dl[d].maxOffset \/ skipped > MaxSkip
        <3>1. skipped \in 0 .. MaxSkip + 1 /\ stop \in BOOLEAN
            BY <2>2 DEF Min2
        <3> QED BY <1>11, <3>1 DEF Write
    <2>5. dl' \in [Dl -> DlStates]
        BY <2>1, <2>2, <2>4 DEF DlStates
    <2> QED BY <1>11, <2>3, <2>5 DEF TypeOK, Write
<1>12. ASSUME NEW d \in Dl, WriteFails(d) PROVE TypeOK'
    <2>1. dl \in [Dl -> DlStates]
        BY DEF TypeOK
    <2>2. PICK e \in Errors, b \in BOOLEAN :
              dl' = [dl EXCEPT ![d] = [dl[d] EXCEPT !.pc = "close", !.err = e, !.stop = b]]
        <3>1. (dl[d].stop \/ dl[d].offset >= dl[d].maxOffset) \in BOOLEAN
            OBVIOUS
        <3> QED BY <1>12, <3>1 DEF WriteFails, DlOnly
    <2>3. dl' \in [Dl -> DlStates]
        <3>1. dl[d] \in DlStates /\ e \in {"ok", "err", "nospace"}
            BY <2>1
        <3> QED BY <2>1, <2>2, <3>1, DlRecord
    <2> QED BY <1>12, <2>3 DEF TypeOK, WriteFails, DlOnly
<1>13. ASSUME NEW d \in Dl, Count(d) PROVE TypeOK'
    <2>1. dl[d] \in DlStates
        BY DEF TypeOK
    <2>2. dl[d].got \in BOOLEAN /\ dl[d].err \in {"ok", "err", "nospace"}
        BY <2>1 DEF DlStates
    <2>3. errorCount' \in 0 .. MaxErrors + 1 /\ lastErr' \in {"ok", "err", "nospace"}
        BY <1>13, <2>2, CountErrorsType DEF Count
    <2>4. dl' \in [Dl -> DlStates]
        <3>1. [dl[d] EXCEPT !.pc = "last"] \in DlStates
            BY <2>1, DlRecord
        <3>2. dl' = [dl EXCEPT ![d] = [dl[d] EXCEPT !.pc = "last"]]
            BY <1>13 DEF Count
        <3> QED BY <3>1, <3>2 DEF TypeOK
    <2> QED BY <1>13, <2>3, <2>4 DEF TypeOK, Count
<1>14. CASE KickerExits
    BY <1>14 DEF TypeOK, KickerExits
<1>15. CASE CloseBegin
    BY <1>15 DEF TypeOK, CloseBegin
<1>16. CASE CloseStop
    <2>1. dl' \in [Dl -> DlStates]
        <3>1. dl \in [Dl -> DlStates] /\ dl' = [dl EXCEPT ![closer.cur].stop = TRUE]
            BY <1>16 DEF TypeOK, CloseStop
        <3>2. \A d \in Dl : [dl[d] EXCEPT !.stop = TRUE] \in DlStates
            BY <3>1, DlRecord
        <3> QED BY <3>1, <3>2
    <2> QED BY <1>16, <2>1 DEF TypeOK, CloseStop
<1>17. CASE CloseNext
    BY <1>17 DEF TypeOK, CloseNext
<1>18. CASE CloseEnd
    <2>1. caller' \in [Callers -> CallerStates]
        <3>1. caller \in [Callers -> CallerStates]
            BY DEF TypeOK
        <3>2. ASSUME NEW c \in Callers, NEW v \in Results
              PROVE  [caller[c] EXCEPT !.pc = "idle", !.res = v] \in CallerStates
            BY <3>1, CallerRecord
        <3>3. CloseErr \in Results
            OBVIOUS
        <3> QED BY <1>18, <3>1, <3>2, <3>3 DEF CloseEnd
    <2> QED BY <1>18, <2>1 DEF TypeOK, CloseEnd
<1>19. CASE UNCHANGED vars
    BY <1>19 DEF TypeOK, vars
<1> QED
    BY <1>1, <1>2, <1>3, <1>4, <1>5, <1>6, <1>7, <1>8, <1>9, <1>10, <1>11, <1>12, <1>13,
       <1>14, <1>15, <1>16, <1>17, <1>18, <1>19
    DEF Next, Holder, Goroutine, Close

\* The state variables keep their types (internal/cache/downloaders/downloaders.go:67-99).
THEOREM TypeCorrect == Spec => []TypeOK
<1> QED BY InitType, TypeStep, PTL DEF Spec

-------------------------------------------------------------------------------
(* The lock, the readers in its queue, and who may answer them *)

LockInv == TypeOK /\ HolderIsInside /\ BlockedIsQueued

\* A step of a goroutine on its own, outside the critical sections.
LEMMA DlOnlyKeepsLock ==
    ASSUME LockInv, NEW d \in Dl, NEW rec, DlOnly(d, rec),
           dl[d].pc \notin {"kick", "kickEOF", "last"}
    PROVE  HolderIsInside' /\ BlockedIsQueued'
BY DEF LockInv, TypeOK, HolderIsInside, BlockedIsQueued, DlOnly

\* Answering queued readers and dropping them from the queue.
LEMMA AnswerKeepsQueue ==
    ASSUME LockInv, NEW ws, ws \subseteq waiters, NEW v, Answer(ws, v), waiters' = waiters \ ws
    PROVE  /\ BlockedIsQueued'
           /\ \A c \in Callers : caller'[c].pc = "ensure" <=> caller[c].pc = "ensure"
<1>1. \A c \in Callers : c \in ws => caller'[c].pc = "idle"
    <2> SUFFICES ASSUME NEW c \in Callers, c \in ws PROVE caller'[c].pc = "idle"
        OBVIOUS
    <2>1. caller[c] \in CallerStates
        BY DEF LockInv, TypeOK
    <2>2. caller'[c] = [caller[c] EXCEPT !.pc = "idle", !.res = v]
        BY DEF Answer
    <2> QED BY <2>1, <2>2 DEF CallerStates
<1>2. \A c \in Callers : c \notin ws => caller'[c] = caller[c]
    BY DEF Answer
<1>3. \A c \in waiters : caller[c].pc = "blocked"
    BY DEF LockInv, BlockedIsQueued
<1> QED BY <1>1, <1>2, <1>3 DEF LockInv, BlockedIsQueued

\* The holder of mu comes back from _ensureDownloader; the goroutine that holds mu
\* stays in kickWaiters.
LEMMA EnsureReturnsKeepsLock ==
    ASSUME LockInv, NEW err \in {"ok", "err"}, EnsureReturns(err),
           \A d \in Dl : mu = d => dl'[d].pc = dl[d].pc
    PROVE  HolderIsInside' /\ BlockedIsQueued'
<1> USE DownloadersAssumption
<1>1. CASE mu \in Callers
    <2>1. CallerLeaves(mu, err) /\ mu' = Nobody
        BY <1>1 DEF EnsureReturns, CallerLeaves
    <2>2. \A c \in Callers : c # mu => caller'[c] = caller[c] /\ caller[c].pc # "ensure"
        BY <2>1 DEF CallerLeaves, LockInv, TypeOK, HolderIsInside
    <2>3. caller[mu].pc = "ensure" /\ mu \notin waiters
        BY <1>1 DEF LockInv, HolderIsInside, BlockedIsQueued
    <2>4. caller'[mu].pc = IF caller[mu].wait /\ err = "ok" THEN "blocked" ELSE "idle"
        BY <1>1, <2>1 DEF CallerLeaves, LockInv, TypeOK, CallerStates
    <2>5. waiters' = IF caller[mu].wait /\ err = "ok" THEN waiters \cup {mu} ELSE waiters
        BY <2>1 DEF CallerLeaves
    <2>6. HolderIsInside'
        BY <2>1, <2>2, <2>4 DEF HolderIsInside
    <2>7. BlockedIsQueued'
        BY <1>1, <2>2, <2>3, <2>4, <2>5 DEF LockInv, BlockedIsQueued
    <2> QED BY <2>6, <2>7
<1>2. CASE mu \notin Callers
    BY <1>2 DEF EnsureReturns, LockInv, HolderIsInside, BlockedIsQueued
<1> QED BY <1>1, <1>2

\* Every step keeps the lock and the queue.
LEMMA LockStep == LockInv /\ [Next]_vars => HolderIsInside' /\ BlockedIsQueued'
<1> SUFFICES ASSUME LockInv, [Next]_vars PROVE HolderIsInside' /\ BlockedIsQueued'
    OBVIOUS
<1> USE DownloadersAssumption
<1>1. ASSUME NEW c \in Callers, Begin(c) PROVE HolderIsInside' /\ BlockedIsQueued'
    BY <1>1 DEF LockInv, TypeOK, HolderIsInside, BlockedIsQueued, Begin
<1>2. ASSUME NEW c \in Callers, Lock(c) PROVE HolderIsInside' /\ BlockedIsQueued'
    BY <1>2 DEF LockInv, TypeOK, HolderIsInside, BlockedIsQueued, Lock, CallerStates
<1>3. CASE EnsureFind
    BY <1>3 DEF LockInv, HolderIsInside, BlockedIsQueued, EnsureFind
<1>4. CASE Reuse
    <2>1. EnsureReturns("ok")
        BY <1>4 DEF Reuse
    <2>2. PICK x, m : dl' = [dl EXCEPT ![x].maxOffset = m]
        BY <1>4 DEF Reuse
    <2>3. \A d \in Dl : dl'[d].pc = dl[d].pc
        BY <2>2 DEF LockInv, TypeOK, DlStates
    <2> QED BY <2>1, <2>3, EnsureReturnsKeepsLock
<1>5. CASE NothingToStart
    BY <1>5, EnsureReturnsKeepsLock DEF NothingToStart
<1>6. CASE NewDownloader
    <2>1. PICK x \in Free : dl' = [dl EXCEPT ![x] = Started(need.r)]
        BY <1>6, FreshIsFree DEF NewDownloader
    <2>2. \A d \in Dl : mu = d => dl'[d].pc = dl[d].pc
        BY <2>1 DEF Free, LockInv, TypeOK, HolderIsInside
    <2> QED BY <1>6, <2>2, EnsureReturnsKeepsLock DEF NewDownloader
<1>7. CASE NewFails
    BY <1>7, EnsureReturnsKeepsLock DEF NewFails
<1>8. CASE KickEnd
    <2>1. mu' = Nobody
        BY <1>8 DEF KickEnd, KickReturns
    <2>2. CASE lastErr = "nospace" \/ errorCount > MaxErrors
        BY <1>8, <2>1, <2>2, AnswerKeepsQueue DEF KickEnd, LockInv, HolderIsInside
    <2>3. CASE ~(lastErr = "nospace" \/ errorCount > MaxErrors)
        BY <1>8, <2>1, <2>3 DEF KickEnd, LockInv, HolderIsInside, BlockedIsQueued
    <2> QED BY <2>2, <2>3
<1>9. ASSUME NEW t \in Dl \cup {Kicker}, KickBegin(t)
      PROVE  HolderIsInside' /\ BlockedIsQueued'
    <2>1. /\ BlockedIsQueued'
          /\ \A c \in Callers : caller'[c].pc = "ensure" <=> caller[c].pc = "ensure"
        BY <1>9, AnswerKeepsQueue DEF KickBegin, Served
    <2>2. \A c \in Callers : caller[c].pc # "ensure"
        BY <1>9 DEF KickBegin, LockInv, HolderIsInside
    <2>3. \/ mu' = Nobody
          \/ mu' = t /\ dl' = dl
        BY <1>9 DEF KickBegin, KickReturns
    <2>4. t \in Dl => dl[t].pc \in {"kick", "kickEOF", "last"}
        BY <1>9 DEF KickBegin, Kicks
    <2> QED BY <2>1, <2>2, <2>3, <2>4 DEF HolderIsInside
<1>10. ASSUME NEW d \in Dl,
              ReadBlock(d) \/ ReadEOF(d) \/ ReadFails(d) \/ WriteFails(d) \/ CloseDl(d)
       PROVE  HolderIsInside' /\ BlockedIsQueued'
    <2>1. PICK rec : DlOnly(d, rec)
        BY <1>10 DEF ReadBlock, ReadEOF, ReadFails, WriteFails, CloseDl
    <2>2. dl[d].pc \notin {"kick", "kickEOF", "last"}
        BY <1>10 DEF ReadBlock, ReadEOF, ReadFails, WriteFails, CloseDl
    <2> QED BY <2>1, <2>2, DlOnlyKeepsLock
<1>11. ASSUME NEW d \in Dl, Write(d) \/ Count(d) PROVE HolderIsInside' /\ BlockedIsQueued'
    <2>1. \A e \in Dl : e # d => dl'[e] = dl[e]
        BY <1>11 DEF Write, Count, LockInv, TypeOK
    <2>2. dl[d].pc \notin {"kick", "kickEOF", "last"}
        BY <1>11 DEF Write, Count
    <2>3. UNCHANGED <<caller, waiters, mu>>
        BY <1>11 DEF Write, Count
    <2> QED BY <2>1, <2>2, <2>3 DEF LockInv, HolderIsInside, BlockedIsQueued
<1>12. CASE KickerExits
    BY <1>12 DEF LockInv, HolderIsInside, BlockedIsQueued, KickerExits
<1>13. CASE CloseBegin \/ CloseNext
    BY <1>13 DEF LockInv, HolderIsInside, BlockedIsQueued, CloseBegin, CloseNext
<1>14. CASE CloseStop
    <2>1. dl' = [dl EXCEPT ![closer.cur].stop = TRUE] /\ UNCHANGED <<caller, waiters, mu>>
        BY <1>14 DEF CloseStop
    <2>2. \A d \in Dl : dl'[d].pc = dl[d].pc
        BY <2>1 DEF LockInv, TypeOK, DlStates
    <2> QED BY <2>1, <2>2 DEF LockInv, HolderIsInside, BlockedIsQueued
<1>15. CASE CloseEnd
    <2>1. mu = Nobody /\ mu' = Nobody /\ waiters' = {} /\ dl' = dl
        BY <1>15 DEF CloseEnd
    <2>2. \A c \in Callers : IF c \in waiters THEN caller'[c].pc = "idle"
                                              ELSE caller'[c] = caller[c]
        <3> SUFFICES ASSUME NEW c \in Callers
                     PROVE  IF c \in waiters THEN caller'[c].pc = "idle" ELSE caller'[c] = caller[c]
            OBVIOUS
        <3>1. PICK v : caller'[c] = IF c \in waiters THEN [caller[c] EXCEPT !.pc = "idle", !.res = v]
                                                     ELSE caller[c]
            BY <1>15 DEF CloseEnd
        <3>2. caller[c] \in CallerStates
            BY DEF LockInv, TypeOK
        <3> QED BY <3>1, <3>2 DEF CallerStates
    <2> QED BY <2>1, <2>2 DEF LockInv, HolderIsInside, BlockedIsQueued
<1>16. CASE UNCHANGED vars
    BY <1>16 DEF vars, LockInv, HolderIsInside, BlockedIsQueued
<1> QED
    BY <1>1, <1>2, <1>3, <1>4, <1>5, <1>6, <1>7, <1>8, <1>9, <1>10, <1>11, <1>12, <1>13,
       <1>14, <1>15, <1>16
    DEF Next, Holder, Goroutine, Close

\* A reader is blocked on its channel exactly while it is queued: no answer is lost
\* and none is sent twice (downloaders.go:246-276 and 383-438).
THEOREM QueueCorrect == Spec => []BlockedIsQueued
<1>1. Init => LockInv
    BY InitType, DownloadersAssumption DEF Init, LockInv, HolderIsInside, BlockedIsQueued
<1>2. LockInv /\ [Next]_vars => LockInv'
    BY TypeStep, LockStep DEF LockInv
<1>3. LockInv => BlockedIsQueued
    BY DEF LockInv
<1> QED BY <1>1, <1>2, <1>3, PTL DEF Spec

-------------------------------------------------------------------------------
(* A downloader leaves no hole behind it *)

\* What every step but Write does to the positions: a goroutine that lives on keeps
\* its positions, a fresh one has passed nothing, and no block disappears.
PositionsKept ==
    /\ rs \subseteq rs'
    /\ \A d \in Dl : dl'[d].pc # "done" =>
          \/ /\ dl[d].pc # "done"
             /\ dl'[d].start = dl[d].start /\ dl'[d].offset = dl[d].offset
          \/ dl'[d].start = dl'[d].offset

\* Keeping the positions keeps PassedIsPresent.
LEMMA PassedKept ==
    ASSUME TypeOK, TypeOK', PassedIsPresent, PositionsKept
    PROVE  PassedIsPresent'
<1> SUFFICES ASSUME NEW d \in Dl, dl'[d].pc # "done"
             PROVE  dl'[d].start .. dl'[d].offset - 1 \subseteq rs'
    BY DEF PassedIsPresent
<1>1. dl'[d] \in DlStates
    BY DEF TypeOK
<1>2. CASE dl'[d].start = dl'[d].offset
    BY <1>1, <1>2 DEF DlStates
<1>3. CASE /\ dl[d].pc # "done"
           /\ dl'[d].start = dl[d].start /\ dl'[d].offset = dl[d].offset
    BY <1>3 DEF PassedIsPresent, PositionsKept
<1> QED BY <1>2, <1>3 DEF PositionsKept

\* Coming back from kickWaiters keeps the positions.
LEMMA KickReturnsKeeps ==
    ASSUME TypeOK, NEW t \in Dl \cup {Kicker}, NEW err, KickReturns(t, err),
           t \in Dl => dl[t].pc # "done", rs' = rs
    PROVE  PositionsKept
<1>1. dl \in [Dl -> DlStates]
    BY DEF TypeOK
<1> QED BY <1>1, DownloadersAssumption DEF KickReturns, PositionsKept, Idle, DlStates

\* Every step leaves no hole behind a downloader.
LEMMA PassedStep ==
    LockInv /\ TypeOK' /\ PassedIsPresent /\ [Next]_vars => PassedIsPresent'
<1> SUFFICES ASSUME LockInv, TypeOK', PassedIsPresent, [Next]_vars
             PROVE  PositionsKept \/ PassedIsPresent'
    BY PassedKept DEF LockInv
<1> USE DownloadersAssumption
<1>1. TypeOK /\ dl \in [Dl -> DlStates]
    BY DEF LockInv, TypeOK
<1>2. ASSUME UNCHANGED <<rs, dl>> PROVE PositionsKept
    BY <1>2 DEF PositionsKept
<1>3. ASSUME NEW c \in Callers, Begin(c) \/ Lock(c) PROVE UNCHANGED <<rs, dl>>
    BY <1>3 DEF Begin, Lock
<1>4. CASE EnsureFind \/ NothingToStart \/ NewFails \/ KickerExits \/ CloseBegin \/ CloseNext
           \/ CloseEnd \/ UNCHANGED vars
    BY <1>2, <1>4 DEF EnsureFind, NothingToStart, NewFails, KickerExits, CloseBegin, CloseNext,
                      CloseEnd, vars
<1>5. CASE Reuse
    <2>1. PICK x, m : dl' = [dl EXCEPT ![x].maxOffset = m] /\ rs' = rs
        BY <1>5 DEF Reuse
    <2> QED BY <1>1, <2>1 DEF PositionsKept, DlStates
<1>6. CASE NewDownloader
    <2>1. PICK x \in Free : dl' = [dl EXCEPT ![x] = Started(need.r)] /\ rs' = rs
        BY <1>6, FreshIsFree DEF NewDownloader
    <2> QED BY <1>1, <2>1 DEF PositionsKept, Started
<1>7. CASE KickEnd
    <2>1. mu \in Dl \cup {Kicker} /\ rs' = rs /\ \E err : KickReturns(mu, err)
        BY <1>7 DEF KickEnd
    <2>2. mu \in Dl => dl[mu].pc # "done"
        BY DEF LockInv, HolderIsInside
    <2> QED BY <1>1, <2>1, <2>2, KickReturnsKeeps
<1>8. ASSUME NEW t \in Dl \cup {Kicker}, KickBegin(t) PROVE PositionsKept
    <2>1. rs' = rs /\ (t \in Dl => dl[t].pc # "done")
        BY <1>8 DEF KickBegin, Kicks
    <2>2. dl' = dl \/ KickReturns(t, "ok")
        BY <1>8 DEF KickBegin
    <2> QED BY <1>1, <1>2, <2>1, <2>2, KickReturnsKeeps
<1>9. ASSUME NEW d \in Dl, ReadBlock(d) \/ ReadEOF(d) \/ ReadFails(d) \/ WriteFails(d) \/ CloseDl(d)
      PROVE  PositionsKept
    <2>1. dl[d].pc # "done" /\ rs' = rs
        BY <1>9 DEF ReadBlock, ReadEOF, ReadFails, WriteFails, CloseDl, DlOnly
    <2>2. PICK rec : dl' = [dl EXCEPT ![d] = rec] /\ rec.start = dl[d].start
                                                  /\ rec.offset = dl[d].offset
        <3>1. dl[d] \in DlStates
            BY <1>1
        <3>2. CASE ReadBlock(d) \/ ReadEOF(d) \/ CloseDl(d)
            BY <3>1, <3>2 DEF ReadBlock, ReadEOF, CloseDl, DlOnly, DlStates
        <3>3. CASE ReadFails(d)
            <4>1. dl' = [dl EXCEPT ![d] = [dl[d] EXCEPT !.pc = "close", !.err = "err"]]
                BY <3>3 DEF ReadFails, DlOnly
            <4> DEFINE rec == [dl[d] EXCEPT !.pc = "close", !.err = "err"]
            <4>2. rec.start = dl[d].start /\ rec.offset = dl[d].offset
                BY <3>1 DEF DlStates
            <4> QED BY <4>1, <4>2
        <3>4. CASE WriteFails(d)
            <4>1. PICK e, b : dl' = [dl EXCEPT ![d] = [dl[d] EXCEPT !.pc = "close", !.err = e,
                                                                    !.stop = b]]
                BY <3>4 DEF WriteFails, DlOnly
            <4> DEFINE rec == [dl[d] EXCEPT !.pc = "close", !.err = e, !.stop = b]
            <4>2. rec.start = dl[d].start /\ rec.offset = dl[d].offset
                BY <3>1 DEF DlStates
            <4> QED BY <4>1, <4>2
        <3> QED BY <1>9, <3>2, <3>3, <3>4
    <2> QED BY <1>1, <2>1, <2>2 DEF PositionsKept
<1>10. ASSUME NEW d \in Dl, Count(d) PROVE PositionsKept
    <2>1. dl[d] \in DlStates /\ dl[d].pc # "done" /\ rs' = rs
        BY <1>1, <1>10 DEF Count
    <2>2. dl' = [dl EXCEPT ![d] = [dl[d] EXCEPT !.pc = "last"]]
        BY <1>10 DEF Count
    <2>3. dl'[d].start = dl[d].start /\ dl'[d].offset = dl[d].offset
        BY <1>1, <2>1, <2>2 DEF DlStates
    <2> QED BY <1>1, <2>1, <2>2, <2>3 DEF PositionsKept
<1>11. CASE CloseStop
    BY <1>1, <1>11 DEF CloseStop, PositionsKept, DlStates
<1>12. ASSUME NEW d \in Dl, Write(d) PROVE PassedIsPresent'
    <2>1. dl[d] \in DlStates /\ dl'[d] \in DlStates
        BY <1>1 DEF TypeOK
    <2>2. rs' = rs \cup {dl[d].offset} /\ dl[d].pc # "done"
        BY <1>12 DEF Write
    <2>3. dl'[d].start = dl[d].start /\ dl'[d].offset = dl[d].offset + 1
        BY <1>1, <1>12, <2>1 DEF Write, DlStates
    <2>4. \A e \in Dl : e # d => dl'[e] = dl[e]
        BY <1>1, <1>12 DEF Write
    <2>5. dl'[d].start .. dl'[d].offset - 1 \subseteq rs'
        BY <2>1, <2>2, <2>3 DEF PassedIsPresent, DlStates
    <2> QED BY <2>2, <2>4, <2>5 DEF PassedIsPresent
<1> QED
    BY <1>2, <1>3, <1>4, <1>5, <1>6, <1>7, <1>8, <1>9, <1>10, <1>11, <1>12
    DEF Next, Holder, Goroutine, Close

\* Behind a downloader every block from where it started is in the file, which is
\* what reusing it for an earlier position relies on (downloaders.go:333-344).
THEOREM PassedCorrect == Spec => []PassedIsPresent
<1>1. Init => LockInv /\ PassedIsPresent
    BY InitType, DownloadersAssumption
    DEF Init, LockInv, HolderIsInside, BlockedIsQueued, PassedIsPresent, Idle
<1>2. LockInv /\ PassedIsPresent /\ [Next]_vars => (LockInv /\ PassedIsPresent)'
    BY TypeStep, LockStep, PassedStep DEF LockInv
<1> QED BY <1>1, <1>2, PTL DEF Spec
-------------------------------------------------------------------------------
(* A Download that returns nil has its range *)

\* What a step may do to the results: no block disappears, and a caller has the
\* result "ok" only if it had it, or if its range is in the file now.
ResultsKept ==
    /\ rs \subseteq rs'
    /\ \A c \in Callers : caller'[c].res = "ok" =>
          /\ caller'[c].r = caller[c].r
          /\ caller[c].res = "ok" \/ HasRange(Clip(caller[c].r, SrcSize))

\* Such a step keeps SuccessMeansPresent.
LEMMA SuccessKept ==
    ASSUME SuccessMeansPresent, ResultsKept
    PROVE  SuccessMeansPresent'
BY DEF SuccessMeansPresent, ResultsKept, HasRange

\* A step that changes no result and loses no block.
LEMMA SameResults ==
    ASSUME rs \subseteq rs',
           \A c \in Callers : caller'[c].res = caller[c].res /\ caller'[c].r = caller[c].r
    PROVE  ResultsKept
BY DEF ResultsKept

\* Answering readers: with "ok" only those whose range is there.
LEMMA AnswerResults ==
    ASSUME TypeOK, rs' = rs, NEW ws, NEW v, Answer(ws, v), v = "ok" => ws \subseteq Served
    PROVE  ResultsKept
<1> SUFFICES ASSUME NEW c \in Callers, caller'[c].res = "ok"
             PROVE  /\ caller'[c].r = caller[c].r
                    /\ caller[c].res = "ok" \/ HasRange(Clip(caller[c].r, SrcSize))
    BY DEF ResultsKept
<1>1. CASE c \notin ws
    BY <1>1 DEF Answer
<1>2. CASE c \in ws
    <2>1. caller[c] \in CallerStates
        BY DEF TypeOK
    <2>2. caller'[c] = [caller[c] EXCEPT !.pc = "idle", !.res = v]
        BY <1>2 DEF Answer
    <2>3. caller'[c].res = v /\ caller'[c].r = caller[c].r
        BY <2>1, <2>2 DEF CallerStates
    <2> QED BY <1>2, <2>3 DEF Served
<1> QED BY <1>1, <1>2

\* Coming back from _ensureDownloader reports an error, or nothing yet.
LEMMA EnsureResults ==
    ASSUME TypeOK, rs' = rs, NEW err \in {"ok", "err"}, EnsureReturns(err)
    PROVE  ResultsKept
<1>1. caller \in [Callers -> CallerStates]
    BY DEF TypeOK
<1>2. CASE mu \in Callers
    <2>1. CallerLeaves(mu, err)
        BY <1>2 DEF EnsureReturns
    <2>2. \A c \in Callers : c # mu => caller'[c] = caller[c]
        BY <1>1, <2>1 DEF CallerLeaves
    <2>3. caller'[mu].res # "ok"
        <3>1. caller[mu].wait \in BOOLEAN
            BY <1>1, <1>2 DEF CallerStates
        <3> QED BY <1>1, <1>2, <2>1, <3>1 DEF CallerLeaves, CallerStates
    <2> QED BY <2>2, <2>3 DEF ResultsKept
<1>3. CASE mu \notin Callers
    BY <1>3 DEF EnsureReturns, ResultsKept
<1> QED BY <1>2, <1>3

\* Counting an error remembers it.
LEMMA CountKnown ==
    ASSUME TypeOK, ErrorIsKnown, NEW got \in BOOLEAN, NEW err \in {"ok", "err", "nospace"},
           CountErrors(got, err)
    PROVE  ErrorIsKnown'
BY DEF ErrorIsKnown, CountErrors

\* Every step keeps ErrorIsKnown.
LEMMA KnownStep == TypeOK /\ ErrorIsKnown /\ [Next]_vars => ErrorIsKnown'
<1> SUFFICES ASSUME TypeOK, ErrorIsKnown, [Next]_vars PROVE ErrorIsKnown'
    OBVIOUS
<1>1. CASE UNCHANGED <<errorCount, lastErr>>
    BY <1>1 DEF ErrorIsKnown
<1>2. CASE NewFails
    BY <1>2, CountKnown DEF NewFails
<1>3. ASSUME NEW d \in Dl, Count(d) PROVE ErrorIsKnown'
    <2>1. dl[d] \in DlStates
        BY DEF TypeOK
    <2>2. dl[d].got \in BOOLEAN /\ dl[d].err \in {"ok", "err", "nospace"}
        BY <2>1 DEF DlStates
    <2> QED BY <1>3, <2>2, CountKnown DEF Count
<1>4. CASE /\ ~NewFails
           /\ \A d \in Dl : ~Count(d)
    <2>1. UNCHANGED <<errorCount, lastErr>>
        BY <1>4 DEF Next, Holder, Goroutine, Close, Begin, Lock, EnsureFind, Reuse,
            NothingToStart, NewDownloader, KickBegin, KickEnd, KickerExits, ReadBlock, ReadEOF,
            ReadFails, Write, WriteFails, CloseDl, DlOnly, CloseBegin, CloseStop, CloseNext,
            CloseEnd, vars
    <2> QED BY <1>1, <2>1
<1> QED BY <1>2, <1>3, <1>4

\* Every step keeps the promise of Download, if Close is called with an error.
LEMMA SuccessStep ==
    ASSUME CloseErr # "ok", TypeOK, ErrorIsKnown, SuccessMeansPresent, [Next]_vars
    PROVE  SuccessMeansPresent'
<1> SUFFICES ResultsKept
    BY SuccessKept
<1> USE DownloadersAssumption
<1>1. caller \in [Callers -> CallerStates]
    BY DEF TypeOK
<1>2. ASSUME NEW c \in Callers, Begin(c) PROVE ResultsKept
    BY <1>1, <1>2 DEF Begin, ResultsKept
<1>3. ASSUME NEW c \in Callers, Lock(c) PROVE ResultsKept
    <2>1. caller' = [caller EXCEPT ![c].pc = "ensure"] /\ rs' = rs
        BY <1>3 DEF Lock
    <2>2. \A x \in Callers : caller'[x].res = caller[x].res /\ caller'[x].r = caller[x].r
        BY <1>1, <2>1 DEF CallerStates
    <2> QED BY <2>1, <2>2, SameResults
<1>4. CASE Reuse \/ NothingToStart \/ NewDownloader
    <2>1. Reuse => EnsureReturns("ok") /\ rs' = rs
        BY DEF Reuse
    <2>2. NothingToStart => EnsureReturns("ok") /\ rs' = rs
        BY DEF NothingToStart
    <2>3. NewDownloader => EnsureReturns("ok") /\ rs' = rs
        BY DEF NewDownloader
    <2> QED BY <1>4, <2>1, <2>2, <2>3, EnsureResults
<1>5. CASE NewFails
    BY <1>5, EnsureResults DEF NewFails
<1>6. CASE KickEnd
    <2>1. CASE lastErr = "nospace" \/ errorCount > MaxErrors
        <3>1. lastErr # "ok"
            BY <2>1 DEF ErrorIsKnown, TypeOK
        <3> QED BY <1>6, <2>1, <3>1, AnswerResults DEF KickEnd
    <2>2. CASE ~(lastErr = "nospace" \/ errorCount > MaxErrors)
        BY <1>6, <2>2 DEF KickEnd, ResultsKept
    <2> QED BY <2>1, <2>2
<1>7. ASSUME NEW t, KickBegin(t) PROVE ResultsKept
    BY <1>7, AnswerResults DEF KickBegin
<1>8. ASSUME rs \subseteq rs', caller' = caller PROVE ResultsKept
    BY <1>8 DEF ResultsKept
<1>9. ASSUME NEW d \in Dl,
             \/ ReadBlock(d) \/ ReadEOF(d) \/ ReadFails(d) \/ Write(d) \/ WriteFails(d)
             \/ CloseDl(d) \/ Count(d)
      PROVE  ResultsKept
    <2>1. rs \subseteq rs' /\ caller' = caller
        BY <1>9 DEF ReadBlock, ReadEOF, ReadFails, Write, WriteFails, CloseDl, Count, DlOnly
    <2> QED BY <1>8, <2>1
<1>10. CASE EnsureFind \/ KickerExits \/ CloseBegin \/ CloseStop \/ CloseNext \/ UNCHANGED vars
    <2>1. rs \subseteq rs' /\ caller' = caller
        BY <1>10 DEF EnsureFind, KickerExits, CloseBegin, CloseStop, CloseNext, vars
    <2> QED BY <1>8, <2>1
<1>11. CASE CloseEnd
    <2>1. rs' = rs
        BY <1>11 DEF CloseEnd
    <2>2. ASSUME NEW c \in Callers, caller'[c].res = "ok"
          PROVE  /\ caller'[c].r = caller[c].r
                 /\ caller[c].res = "ok" \/ HasRange(Clip(caller[c].r, SrcSize))
        <3>1. CASE c \notin waiters
            BY <1>11, <2>2, <3>1 DEF CloseEnd
        <3>2. CASE c \in waiters
            <4> DEFINE v == IF c \in Served THEN "ok" ELSE CloseErr
            <4>1. caller[c] \in CallerStates
                BY <1>1
            <4>2. caller'[c] = [caller[c] EXCEPT !.pc = "idle", !.res = v]
                BY <1>11, <3>2 DEF CloseEnd
            <4>3. caller'[c].res = v /\ caller'[c].r = caller[c].r
                BY <4>1, <4>2 DEF CallerStates
            <4> QED BY <2>2, <4>3 DEF Served
        <3> QED BY <3>1, <3>2
    <2> QED BY <2>1, <2>2 DEF ResultsKept
<1> QED
    BY <1>2, <1>3, <1>4, <1>5, <1>6, <1>7, <1>9, <1>10, <1>11
    DEF Next, Holder, Goroutine, Close

\* "Download the range passed in returning when it has been downloaded"
\* (downloaders.go:244): it returns nil only with its range in the file, unless
\* Close was called with a nil error.
THEOREM SuccessCorrect ==
    ASSUME CloseErr # "ok"
    PROVE  Spec => []SuccessMeansPresent
<1>1. Init => TypeOK /\ ErrorIsKnown /\ SuccessMeansPresent
    BY InitType DEF Init, ErrorIsKnown, SuccessMeansPresent
<1>2. /\ TypeOK /\ ErrorIsKnown /\ SuccessMeansPresent /\ [Next]_vars
      => (TypeOK /\ ErrorIsKnown /\ SuccessMeansPresent)'
    BY TypeStep, KnownStep, SuccessStep
<1> QED BY <1>1, <1>2, PTL DEF Spec

-------------------------------------------------------------------------------
(* The list loses no downloader *)

CloserStates == [pc : {"idle", "stop", "wait", "kicker", "closed"}, i : Nat, cur : Dl \cup {NoDl},
                 view : Seq(Dl), shared : BOOLEAN, began : SUBSET Dl]

\* dls lists nothing twice and, until Close drops it, every downloader that is not closed
ListInv ==
    /\ closer \in CloserStates
    /\ dls \in Seq(Dl)
    /\ closer.pc # "closed" =>
          /\ \A i, j \in 1 .. Len(dls) : dls[i] = dls[j] => i = j
          /\ \A d \in Dl : ~dl[d].closed => \E i \in 1 .. Len(dls) : dls[i] = d

\* What _removeClosed leaves: the downloaders listed that are not closed.
LEMMA OpenIs ==
    ASSUME ListInv
    PROVE  /\ Open \in Seq(Dl) /\ Len(Open) \in Nat
           /\ \A i \in 1 .. Len(Open) : Open[i] \in Dl /\ ~dl[Open[i]].closed
           /\ \A i \in 1 .. Len(Open) : \E j \in 1 .. Len(dls) : Open[i] = dls[j]
           /\ closer.pc # "closed" =>
                 /\ \A i, j \in 1 .. Len(Open) : Open[i] = Open[j] => i = j
                 /\ \A d \in Dl : ~dl[d].closed => \E i \in 1 .. Len(Open) : Open[i] = d
<1> DEFINE K == {d \in Dl : ~dl[d].closed}
<1>1. dls \in Seq(Dl)
    BY DEF ListInv
<1>2. Open = Filter(dls, K)
    BY DEF Open
<1> HIDE DEF K
<1>3. PICK t \in Seq(Dl) :
         /\ t = Open
         /\ \A i \in 1 .. Len(t) : t[i] \in K /\ \E j \in 1 .. Len(dls) : t[i] = dls[j]
         /\ \A j \in 1 .. Len(dls) : dls[j] \in K => \E i \in 1 .. Len(t) : t[i] = dls[j]
         /\ (\A i, j \in 1 .. Len(dls) : dls[i] = dls[j] => i = j)
            => \A i, j \in 1 .. Len(t) : t[i] = t[j] => i = j
    <2>1. /\ Filter(dls, K) \in Seq(Dl)
          /\ \A i \in 1 .. Len(Filter(dls, K)) :
                Filter(dls, K)[i] \in K /\ \E j \in 1 .. Len(dls) : Filter(dls, K)[i] = dls[j]
          /\ \A j \in 1 .. Len(dls) :
                dls[j] \in K => \E i \in 1 .. Len(Filter(dls, K)) : Filter(dls, K)[i] = dls[j]
          /\ (\A i, j \in 1 .. Len(dls) : dls[i] = dls[j] => i = j)
             => \A i, j \in 1 .. Len(Filter(dls, K)) :
                   Filter(dls, K)[i] = Filter(dls, K)[j] => i = j
        BY <1>1, FilterFacts
    <2> QED BY <1>2, <2>1
<1>4. Len(t) \in Nat
    OBVIOUS
<1>5. ASSUME closer.pc # "closed", NEW d \in Dl, ~dl[d].closed
      PROVE  \E i \in 1 .. Len(t) : t[i] = d
    <2>1. PICK j \in 1 .. Len(dls) : dls[j] = d
        BY <1>5 DEF ListInv
    <2>2. dls[j] \in K
        BY <1>5, <2>1 DEF K
    <2> QED BY <1>3, <2>1, <2>2
<1>6. \A i \in 1 .. Len(t) : t[i] \in Dl /\ ~dl[t[i]].closed
    BY <1>3 DEF K
<1>7. ASSUME closer.pc # "closed"
      PROVE  \A i, j \in 1 .. Len(t) : t[i] = t[j] => i = j
    <2>1. \A i, j \in 1 .. Len(dls) : dls[i] = dls[j] => i = j
        BY <1>7 DEF ListInv
    <2> QED BY <1>3, <2>1
<1>8. \A i \in 1 .. Len(t) : \E j \in 1 .. Len(dls) : t[i] = dls[j]
    BY <1>3
<1>9. t = Open
    BY <1>3
<1> HIDE DEF ListInv, Open
<1> QED BY <1>4, <1>5, <1>6, <1>7, <1>8, <1>9

\* What _removeClosed does to the array Close ranges over keeps its type and Close where it is.
LEMMA CompactedType ==
    ASSUME ListInv
    PROVE  /\ Compacted \in CloserStates /\ Compacted.pc = closer.pc
           /\ \A d \in Dl : \A c \in Appended(d) : c \in CloserStates /\ c.pc = closer.pc
<1>1. PICK c \in CloserStates : c = closer
    BY DEF ListInv
<1>2. PICK t \in Seq(Dl) : t = Open
    BY OpenIs
<1>3. PICK v \in Seq(Dl) : v = t \o SubSeq(c.view, Len(t) + 1, Len(c.view))
    <2>1. PICK w \in Seq(Dl) : w = c.view
        BY DEF CloserStates
    <2>2. SubSeq(w, Len(t) + 1, Len(w)) \in Seq(Dl)
        <3>1. Len(t) \in Nat /\ Len(w) \in Nat
            OBVIOUS
        <3> QED BY <3>1, SubSeqProperties
    <2> QED BY <2>1, <2>2, ConcatProperties
<1>4. Compacted = [c EXCEPT !.view = v] \/ Compacted = c
    BY <1>1, <1>2, <1>3 DEF Compacted
<1>5. Compacted \in CloserStates /\ Compacted.pc = closer.pc
    BY <1>1, <1>4 DEF CloserStates
<1>6. ASSUME NEW d \in Dl, NEW q \in Appended(d)
      PROVE  q \in CloserStates /\ q.pc = closer.pc
    <2>1. PICK e \in CloserStates : e = Compacted /\ e.pc = closer.pc
        BY <1>5
    <2>2. PICK b \in SUBSET Dl : b = e.began \ {d}
        <3>1. e.began \in SUBSET Dl
            BY DEF CloserStates
        <3> QED BY <3>1
    <2>3. PICK n \in CloserStates : n = [e EXCEPT !.began = b] /\ n.pc = closer.pc
        <3>1. [e EXCEPT !.began = b] \in CloserStates /\ [e EXCEPT !.began = b].pc = e.pc
            BY DEF CloserStates
        <3> QED BY <2>1, <3>1
    <2>4. PICK w : w = [n.view EXCEPT ![Len(t) + 1] = d]
        OBVIOUS
    <2>5. q = n \/ (q = [n EXCEPT !.view = w]) \/ q = [n EXCEPT !.shared = FALSE]
        BY <1>2, <2>1, <2>2, <2>3, <2>4 DEF Appended
    <2>6. w \in Seq(Dl)
        <3>1. PICK v2 \in Seq(Dl) : v2 = n.view
            BY DEF CloserStates
        <3>2. w = [j \in 1 .. Len(v2) |-> IF j = Len(t) + 1 THEN d ELSE v2[j]]
            BY <2>4, <3>1
        <3>3. w \in [1 .. Len(v2) -> Dl]
            BY <3>2
        <3> QED BY <3>3
    <2>7. /\ [n EXCEPT !.view = w] \in CloserStates /\ [n EXCEPT !.view = w].pc = n.pc
          /\ [n EXCEPT !.shared = FALSE] \in CloserStates /\ [n EXCEPT !.shared = FALSE].pc = n.pc
        BY <2>6 DEF CloserStates
    <2> QED BY <2>3, <2>5, <2>7
<1> QED BY <1>5, <1>6

\* A step that opens no downloader, and leaves the list or takes out what is closed.
LEMMA ListKept ==
    ASSUME ListInv, dls' \in {dls, Open}, closer' \in CloserStates,
           closer'.pc # "closed" => closer.pc # "closed",
           \A d \in Dl : ~dl'[d].closed => ~dl[d].closed
    PROVE  ListInv'
<1>1. dls' \in Seq(Dl)
    BY OpenIs DEF ListInv
<1>2. ASSUME closer.pc # "closed"
      PROVE  /\ \A i, j \in 1 .. Len(dls') : dls'[i] = dls'[j] => i = j
             /\ \A d \in Dl : ~dl'[d].closed => \E i \in 1 .. Len(dls') : dls'[i] = d
    <2>1. CASE dls' = dls
        BY <1>2, <2>1 DEF ListInv
    <2>2. CASE dls' = Open
        BY <1>2, <2>2, OpenIs
    <2> QED BY <2>1, <2>2
<1> QED BY <1>1, <1>2 DEF ListInv

\* Leaving kickWaiters opens no downloader.
LEMMA KickReturnsCloses ==
    ASSUME TypeOK, NEW t \in Dl \cup {Kicker}, NEW err, KickReturns(t, err)
    PROVE  \A d \in Dl : ~dl'[d].closed => ~dl[d].closed
<1> SUFFICES ASSUME NEW d \in Dl, ~dl'[d].closed
             PROVE  ~dl[d].closed
    OBVIOUS
<1>1. dl \in [Dl -> DlStates]
    BY DEF TypeOK
<1>2. PICK x \in DlStates : x = dl[d]
    BY <1>1
<1>3. \/ dl'[d] = x \/ dl'[d] = Idle \/ dl'[d] = [x EXCEPT !.pc = "close"]
      \/ dl'[d] = [x EXCEPT !.pc = "read"] \/ dl'[d] = [x EXCEPT !.pc = "close", !.err = err]
    BY <1>1, <1>2 DEF KickReturns
<1>4. /\ [x EXCEPT !.pc = "close"].closed = x.closed /\ [x EXCEPT !.pc = "read"].closed = x.closed
      /\ [x EXCEPT !.pc = "close", !.err = err].closed = x.closed /\ Idle.closed
    BY DEF Idle, DlStates
<1> QED BY <1>2, <1>3, <1>4

\* The list loses no downloader in any step.
LEMMA ListStep == TypeOK /\ ListInv /\ [Next]_vars => ListInv'
<1> SUFFICES ASSUME TypeOK, ListInv, [Next]_vars
             PROVE  ListInv'
    OBVIOUS
<1>1. dl \in [Dl -> DlStates] /\ closer \in CloserStates
    BY DEF TypeOK, ListInv
<1>2. ASSUME UNCHANGED <<dl, dls, closer>>
      PROVE  ListInv'
    BY <1>2 DEF ListInv
<1>3. ASSUME NEW d \in Dl, NEW x, dl' = [dl EXCEPT ![d] = x], x.closed = dl[d].closed \/ x.closed,
             UNCHANGED <<dls, closer>>
      PROVE  ListInv'
    BY <1>1, <1>3, ListKept
<1>4. ASSUME NEW c \in Callers, Begin(c) \/ Lock(c)
      PROVE  ListInv'
    BY <1>2, <1>4 DEF Begin, Lock
<1>5. CASE EnsureFind
    BY <1>2, <1>5 DEF EnsureFind
<1>6. CASE Reuse
    <2>1. \A i \in InReach : i \in 1 .. Len(Open)
        BY OpenIs DEF InReach
    <2>2. PICK i \in 1 .. Len(Open) : \E m :
             dl' = [dl EXCEPT ![Open[i]].maxOffset = m]
        <3>1. PICK i \in InReach : i = CHOOSE k \in InReach : \A j \in InReach : k <= j
            <4>1. InReach \in SUBSET Nat /\ InReach # {}
                BY <1>6, <2>1, OpenIs DEF Reuse
            <4>2. \E k \in InReach : \A j \in InReach : k <= j
                BY <4>1, LeastNumber
            <4> QED BY <4>2
        <3> QED BY <1>6, <2>1, <3>1 DEF Reuse
    <2>3. \A d \in Dl : dl'[d].closed = dl[d].closed
        <3> SUFFICES ASSUME NEW d \in Dl
                     PROVE  dl'[d].closed = dl[d].closed
            OBVIOUS
        <3>1. PICK x \in DlStates : x = dl[d]
            BY <1>1
        <3>2. PICK m : dl'[d] = x \/ dl'[d] = [x EXCEPT !.maxOffset = m]
            BY <1>1, <2>2, <3>1
        <3>3. [x EXCEPT !.maxOffset = m].closed = x.closed
            BY DEF DlStates
        <3> QED BY <3>1, <3>2, <3>3
    <2> QED BY <1>6, <2>3, CompactedType, ListKept DEF Reuse
<1>7. CASE NothingToStart \/ NewFails
    BY <1>7, CompactedType, ListKept DEF NothingToStart, NewFails
<1>8. CASE NewDownloader
    <2>1. PICK d \in Free : /\ dl' = [dl EXCEPT ![d] = Started(need.r)]
                           /\ dls' = Append(Open, d)
                           /\ closer' \in Appended(d)
        BY <1>8, FreshIsFree DEF NewDownloader
    <2>2. d \in Dl /\ \A i \in 1 .. Len(dls) : dls[i] # d \/ dl[d].closed
        BY <2>1 DEF Free, ListInv
    <2>3. PICK t \in Seq(Dl) : t = Open /\ Len(t) \in Nat
        BY OpenIs
    <2>4. \A i \in 1 .. Len(t) : t[i] # d
        BY <2>2, <2>3, OpenIs
    <2>5. /\ dls' \in Seq(Dl) /\ Len(dls') = Len(t) + 1 /\ dls'[Len(t) + 1] = d
          /\ \A i \in 1 .. Len(t) : dls'[i] = t[i]
        BY <2>1, <2>2, <2>3
    <2>6. closer' \in CloserStates /\ closer'.pc = closer.pc
        BY <2>1, <2>2, CompactedType
    <2>7. \A i \in 1 .. Len(t) + 1 : i = Len(t) + 1 \/ i \in 1 .. Len(t)
        BY <2>3
    <2>8. ASSUME closer.pc # "closed"
          PROVE  /\ \A i, j \in 1 .. Len(dls') : dls'[i] = dls'[j] => i = j
                 /\ \A e \in Dl : ~dl'[e].closed => \E i \in 1 .. Len(dls') : dls'[i] = e
        <3>1. \A i, j \in 1 .. Len(t) : t[i] = t[j] => i = j
            BY <2>3, <2>8, OpenIs
        <3>2. \A i, j \in 1 .. Len(dls') : dls'[i] = dls'[j] => i = j
            BY <2>4, <2>5, <2>7, <3>1
        <3>3. ASSUME NEW e \in Dl, ~dl'[e].closed
              PROVE  \E i \in 1 .. Len(dls') : dls'[i] = e
            <4>1. CASE e = d
                <5>1. Len(t) + 1 \in 1 .. Len(dls')
                    BY <2>3, <2>5
                <5> QED BY <2>5, <4>1, <5>1
            <4>2. CASE e # d
                <5>1. ~dl[e].closed
                    BY <1>1, <2>1, <2>2, <3>3, <4>2
                <5>2. PICK i \in 1 .. Len(t) : t[i] = e
                    BY <2>3, <2>8, <5>1, OpenIs
                <5>3. i \in 1 .. Len(dls')
                    BY <2>3, <2>5
                <5> QED BY <2>5, <5>2, <5>3
            <4> QED BY <4>1, <4>2
        <3> QED BY <3>2, <3>3
    <2> QED BY <2>5, <2>6, <2>8 DEF ListInv
<1>9. ASSUME NEW t \in Dl \cup {Kicker}, KickBegin(t)
      PROVE  ListInv'
    <2>1. UNCHANGED <<dls, closer>>
        BY <1>9 DEF KickBegin
    <2>2. \A d \in Dl : ~dl'[d].closed => ~dl[d].closed
        BY <1>9, KickReturnsCloses DEF KickBegin
    <2> QED BY <1>1, <2>1, <2>2, ListKept
<1>10. CASE KickEnd
    <2>1. UNCHANGED <<dls, closer>> /\ mu \in Dl \cup {Kicker}
        BY <1>10 DEF KickEnd
    <2>2. \A d \in Dl : ~dl'[d].closed => ~dl[d].closed
        BY <1>10, <2>1, KickReturnsCloses DEF KickEnd
    <2> QED BY <1>1, <2>1, <2>2, ListKept
<1>11. CASE KickerExits
    BY <1>2, <1>11 DEF KickerExits
<1>12. ASSUME NEW d \in Dl, \/ ReadBlock(d) \/ ReadEOF(d) \/ ReadFails(d) \/ Write(d)
                            \/ WriteFails(d) \/ CloseDl(d) \/ Count(d)
       PROVE  ListInv'
    <2>1. PICK x \in DlStates : x = dl[d]
        BY <1>1
    <2>2. UNCHANGED <<dls, closer>>
        BY <1>12 DEF ReadBlock, ReadEOF, ReadFails, Write, WriteFails, CloseDl, Count, DlOnly
    <2>3. PICK y : dl' = [dl EXCEPT ![d] = y] /\ (y.closed = x.closed \/ y.closed)
        <3>1. CASE ReadBlock(d)
            <4>1. dl' = [dl EXCEPT ![d] = [x EXCEPT !.pc = "write"]]
                BY <2>1, <3>1 DEF ReadBlock, DlOnly
            <4>2. [x EXCEPT !.pc = "write"].closed = x.closed
                BY DEF DlStates
            <4> QED BY <4>1, <4>2
        <3>2. CASE ReadEOF(d)
            <4>1. dl' = [dl EXCEPT ![d] = [x EXCEPT !.pc = "close"]]
                BY <2>1, <3>2 DEF ReadEOF, DlOnly
            <4>2. [x EXCEPT !.pc = "close"].closed = x.closed
                BY DEF DlStates
            <4> QED BY <4>1, <4>2
        <3>3. CASE ReadFails(d)
            <4>1. dl' = [dl EXCEPT ![d] = [x EXCEPT !.pc = "close", !.err = "err"]]
                BY <2>1, <3>3 DEF ReadFails, DlOnly
            <4>2. [x EXCEPT !.pc = "close", !.err = "err"].closed = x.closed
                BY DEF DlStates
            <4> QED BY <4>1, <4>2
        <3>4. CASE Write(d)
            <4>1. PICK p, s, o, b :
                     dl' = [dl EXCEPT ![d].pc = p, ![d].got = TRUE, ![d].skipped = s,
                                      ![d].offset = o, ![d].stop = b]
                BY <2>1, <3>4 DEF Write
            <4>2. dl' = [dl EXCEPT ![d] = [x EXCEPT !.pc = p, !.got = TRUE, !.skipped = s,
                                                    !.offset = o, !.stop = b]]
                BY <1>1, <2>1, <4>1 DEF DlStates
            <4>3. [x EXCEPT !.pc = p, !.got = TRUE, !.skipped = s, !.offset = o, !.stop = b].closed = x.closed
                BY DEF DlStates
            <4> QED BY <4>2, <4>3
        <3>5. CASE WriteFails(d)
            <4>1. PICK e, b :
                     dl' = [dl EXCEPT ![d] = [x EXCEPT !.pc = "close", !.err = e, !.stop = b]]
                BY <2>1, <3>5 DEF WriteFails, DlOnly
            <4>2. [x EXCEPT !.pc = "close", !.err = e, !.stop = b].closed = x.closed
                BY DEF DlStates
            <4> QED BY <4>1, <4>2
        <3>6. CASE CloseDl(d)
            <4>1. dl' = [dl EXCEPT ![d] = [x EXCEPT !.pc = "count", !.closed = TRUE]]
                BY <2>1, <3>6 DEF CloseDl, DlOnly
            <4>2. [x EXCEPT !.pc = "count", !.closed = TRUE].closed
                BY DEF DlStates
            <4> QED BY <4>1, <4>2
        <3>7. CASE Count(d)
            <4>1. dl' = [dl EXCEPT ![d] = [x EXCEPT !.pc = "last"]]
                BY <1>1, <2>1, <3>7 DEF Count, DlStates
            <4>2. [x EXCEPT !.pc = "last"].closed = x.closed
                BY DEF DlStates
            <4> QED BY <4>1, <4>2
        <3> QED BY <1>12, <3>1, <3>2, <3>3, <3>4, <3>5, <3>6, <3>7
    <2> QED BY <1>3, <2>1, <2>2, <2>3
<1>13. CASE CloseBegin \/ CloseNext
    <2>1. /\ dl' = dl /\ dls' \in {dls, Open} /\ closer.pc \in {"idle", "wait"}
          /\ \E i \in Nat, v \in Seq(Dl), b \in SUBSET Dl : CloseIterate(i, v, b)
        <3>1. CASE CloseBegin
            BY <3>1, OpenIs DEF CloseBegin
        <3>2. CASE CloseNext
            BY <1>1, <3>2 DEF CloseNext, CloserStates
        <3> QED BY <1>13, <3>1, <3>2
    <2>2. PICK i \in Nat, v \in Seq(Dl), b \in SUBSET Dl : CloseIterate(i, v, b)
        BY <2>1
    <2>3. i \in DOMAIN v => v[i] \in Dl
        OBVIOUS
    <2>4. PICK a \in BOOLEAN : a = IF i = 1 THEN TRUE ELSE closer.shared
        <3>1. closer.shared \in BOOLEAN
            BY <1>1 DEF CloserStates
        <3> QED BY <3>1
    <2>5. closer' \in CloserStates
        <3>1. CASE i \in DOMAIN v
            <4>1. PICK c \in Dl : c = v[i]
                BY <2>3, <3>1
            <4>2. closer' = [pc |-> "stop", i |-> i, cur |-> c, view |-> v, shared |-> a, began |-> b]
                BY <2>2, <2>4, <3>1, <4>1 DEF CloseIterate
            <4> QED BY <4>2 DEF CloserStates
        <3>2. CASE i \notin DOMAIN v
            <4>1. <<>> \in Seq(Dl)
                OBVIOUS
            <4> QED BY <2>2, <3>2, <4>1 DEF CloseIterate, NotClosing, CloserStates
        <3> QED BY <3>1, <3>2
    <2> QED BY <2>1, <2>5, ListKept
<1>14. CASE CloseStop
    <2>1. PICK c \in CloserStates : c = closer
        BY <1>1
    <2>2. closer' = [c EXCEPT !.pc = "wait"] /\ dls' = dls /\ closer.pc = "stop"
        BY <1>14, <2>1 DEF CloseStop
    <2>3. closer' \in CloserStates
        BY <2>2 DEF CloserStates
    <2>4. \A d \in Dl : dl'[d].closed = dl[d].closed
        BY <1>1, <1>14 DEF CloseStop, DlStates
    <2> QED BY <2>2, <2>3, <2>4, ListKept
<1>15. CASE CloseEnd
    <2>1. dls' = <<>> /\ closer' = NotClosing("closed", {})
        BY <1>15 DEF CloseEnd
    <2>3. <<>> \in Seq(Dl)
        OBVIOUS
    <2>2. NotClosing("closed", {}) \in CloserStates /\ NotClosing("closed", {}).pc = "closed"
        BY <2>3 DEF NotClosing, CloserStates
    <2> QED BY <2>1, <2>2, <2>3 DEF ListInv
<1>16. CASE UNCHANGED vars
    BY <1>2, <1>16 DEF vars
<1> QED
    BY <1>4, <1>5, <1>6, <1>7, <1>8, <1>9, <1>10, <1>11, <1>12, <1>13, <1>14, <1>15, <1>16
    DEF Next, Holder, Goroutine, Close

\* The list loses no downloader, once Close has not dropped it: whatever _removeClosed and
\* append do to the array Close is ranging over, for any number of callers and downloaders.
THEOREM ListCorrect == Spec => []LiveIsListed
<1>1. Init => ListInv
    <2>1. <<>> \in Seq(Dl) /\ Len(<<>>) = 0
        OBVIOUS
    <2> QED BY <2>1 DEF Init, ListInv, NotClosing, CloserStates, Idle
<1>2. ListInv => LiveIsListed
    <2> SUFFICES ASSUME ListInv, closer.pc # "closed", NEW d \in Dl, ~dl[d].closed
                 PROVE  \E i \in DOMAIN dls : dls[i] = d /\ \A j \in DOMAIN dls \ {i} : dls[j] # d
        BY DEF LiveIsListed
    <2>1. DOMAIN dls = 1 .. Len(dls)
        BY DEF ListInv
    <2> QED BY <2>1 DEF ListInv
<1> QED BY <1>1, <1>2, InitType, TypeStep, ListStep, PTL DEF Spec

-------------------------------------------------------------------------------
(* A queued reader whose data is missing is being looked after *)

\* The blocks c is waiting for
Rest(c) == Bytes(Clip(caller[c].r, SrcSize)) \ rs

\* d is about to stop, or will come past all that c is waiting for.
Towards(d, c) ==
    dl[d].stop \/ \A b \in Rest(c) : dl[d].offset <= b /\ b < dl[d].maxOffset

\* d will fetch what c is waiting for, or call kickWaiters first
Fetching(d, c) ==
    \/ dl[d].pc \in {"kickEOF", "close", "count"}
    \/ dl[d].pc \in {"kick", "last"} /\ mu # d
    \/ dl[d].pc \in {"read", "write", "kick"} /\ Towards(d, c)

\* Who holds mu is about to find or start a downloader for all that c is waiting for.
Meets(c) ==
    /\ need.busy /\ need.new /\ need.r.Size # 0
    /\ \A b \in Rest(c) : need.r.Pos <= b /\ b < End(need.r)

\* c is still to be dealt with in a kickWaiters, or being dealt with, or a downloader is on it
LookedAfter(c) ==
    \/ mu \in Dl \cup {Kicker} /\ c \in todo
    \/ Meets(c)
    \/ \E d \in Dl : Fetching(d, c)

\* Before Close every queued reader is looked after, and so is the one in Download.
AllLookedAfter ==
    /\ mu \in Callers /\ Rest(mu) # {} => mu \in todo \/ Meets(mu)
    /\ \A c \in waiters : Rest(c) # {} => LookedAfter(c)

ClosedIsOver == \A d \in Dl : dl[d].closed <=> dl[d].pc \in {"count", "last", "done"}

FetchInv ==
    /\ ClosedIsOver
    /\ \A c \in Callers : End(caller[c].r) <= ItemSize
    /\ mu = Nobody => ~need.busy
    /\ mu \in Callers => todo \subseteq {mu} /\ (need.busy => todo = {})
    /\ closer.pc = "idle" => AllLookedAfter

\* What Clip leaves of a range: the blocks before the offset.
LEMMA ClipBytes ==
    ASSUME NEW r \in Rng, NEW n \in Nat
    PROVE  Clip(r, n) \in Rng /\ Bytes(Clip(r, n)) = {b \in Bytes(r) : b < n}
<1>1. CASE End(r) <= n
    BY <1>1 DEF Clip, Rng, End, Bytes
<1>2. CASE ~(End(r) <= n)
    <2>1. CASE n < r.Pos
        <3>1. Clip(r, n) = EmptyRange
            BY <1>2, <2>1 DEF Clip, Rng, End
        <3>2. Bytes(EmptyRange) = {} /\ EmptyRange \in Rng
            BY DEF EmptyRange, Bytes, End, Rng
        <3> QED BY <2>1, <3>1, <3>2 DEF Bytes, Rng, End
    <2>2. CASE ~(n < r.Pos)
        <3>1. Clip(r, n) = [r EXCEPT !.Size = r.Size - (End(r) - n)]
            BY <1>2, <2>2 DEF Clip, Rng, End
        <3>2. Clip(r, n) = [Pos |-> r.Pos, Size |-> n - r.Pos]
            BY <3>1 DEF Rng, End
        <3> QED BY <1>2, <2>2, <3>2 DEF Bytes, Rng, End
    <2> QED BY <2>1, <2>2
<1> QED BY <1>1, <1>2

\* item.FindMissing drops blocks that are present only, and ends where the range or the item does.
LEMMA FindMissingCovers ==
    ASSUME NEW r \in Rng, NEW b \in Bytes(r), b \notin rs, b < ItemSize
    PROVE  LET m == ItemFindMissing(r)
           IN  /\ m \in Rng /\ m.Pos \notin rs /\ r.Pos <= m.Pos
               /\ End(m) = Min2(End(r), ItemSize)
               /\ m.Pos <= b
<1> DEFINE gap == {p \in r.Pos .. End(r) : p \notin rs \/ p = End(r)}
           pos == CHOOSE p \in gap : \A q \in gap : p <= q
           m   == [Pos |-> pos, Size |-> End(r) - pos]
<1>1. gap \subseteq Nat /\ b \in gap /\ b < End(r) /\ r.Size \in Nat \ {0} /\ b \in Nat
    BY DEF Rng, End, Bytes
<1>2. pos \in gap /\ \A q \in gap : pos <= q
    <2>1. \E p \in gap : \A q \in gap : p <= q
        BY <1>1, LeastNumber
    <2> HIDE DEF gap
    <2> QED BY <2>1
<1>3. pos <= b /\ pos \in Nat /\ pos \notin rs /\ r.Pos <= pos
    BY <1>1, <1>2 DEF Rng, End
<1>4. ItemFindMissing(r) = Clip(m, ItemSize)
    BY <1>1 DEF ItemFindMissing, IsEmpty
<1> HIDE DEF pos, gap
<1>5. End(m) = End(r) /\ m \in Rng
    BY <1>1, <1>3 DEF End, Rng
<1>6. CASE End(r) <= ItemSize
    <2>1. Clip(m, ItemSize) = m
        BY <1>5, <1>6 DEF Clip
    <2> QED BY <1>3, <1>4, <1>5, <1>6, <2>1 DEF Min2
<1>7. CASE ~(End(r) <= ItemSize)
    <2>1. /\ End(r) - pos \in Nat /\ ItemSize \in Nat /\ End(r) \in Nat
          /\ (End(r) - pos) - (End(r) - ItemSize) = ItemSize - pos /\ ItemSize - pos > 0
        BY <1>1, <1>3, <1>7, DownloadersAssumption DEF Rng, End
    <2>2. Clip(m, ItemSize) = [m EXCEPT !.Size = m.Size - (End(m) - ItemSize)]
        BY <1>5, <1>7, <2>1 DEF Clip
    <2>3. Clip(m, ItemSize) = [Pos |-> pos, Size |-> ItemSize - pos]
        BY <1>5, <2>1, <2>2
    <2>4. End(Clip(m, ItemSize)) = ItemSize /\ Clip(m, ItemSize) \in Rng
        BY <1>3, <2>1, <2>3 DEF End, Rng
    <2> QED BY <1>3, <1>4, <1>7, <2>3, <2>4 DEF Min2
<1> QED BY <1>6, <1>7

\* For a range that is not all there, _ensureDownloader asks for all that is missing of it.
LEMMA WantedMeets ==
    ASSUME NEW r0 \in Rng, End(r0) <= ItemSize, \E b \in Bytes(r0) : b \notin rs
    PROVE  /\ Wanted(r0).busy /\ Wanted(r0).new /\ Wanted(r0).r.Size # 0
           /\ \A b \in Bytes(r0) \ rs : Wanted(r0).r.Pos <= b /\ b < End(Wanted(r0).r)
<1> DEFINE r1 == [r0 EXCEPT !.Size = @ + ReadAhead]
           m  == ItemFindMissing(r1)
<1>1. /\ r1 \in Rng /\ End(r0) <= End(r1) /\ Bytes(r0) \subseteq Bytes(r1)
      /\ End(r0) \in Nat /\ End(r1) \in Nat
    BY DownloadersAssumption DEF Rng, End, Bytes
<1>2. \A b \in Bytes(r0) : b \in Nat /\ b < End(r0)
    BY DEF Rng, Bytes, End
<1>3. \A b \in Bytes(r0) \ rs : b \in Bytes(r1) /\ b < ItemSize
    BY <1>1, <1>2, DownloadersAssumption
<1> HIDE DEF r1
<1>4. \A b \in Bytes(r0) \ rs :
         m \in Rng /\ End(m) = Min2(End(r1), ItemSize) /\ m.Pos <= b
    BY <1>1, <1>3, FindMissingCovers
<1>5. \A b \in Bytes(r0) \ rs : m \in Rng /\ m.Pos <= b /\ b < End(m)
    BY <1>1, <1>2, <1>3, <1>4, DownloadersAssumption DEF Min2
<1>6. m.Size # 0 /\ m \in Rng
    BY <1>2, <1>5 DEF End, Rng
<1> HIDE DEF m
<1>7. Wanted(r0) = [r |-> m, new |-> TRUE, busy |-> TRUE]
    BY <1>6 DEF Wanted, m, r1, IsEmpty, Rng
<1> QED BY <1>5, <1>6, <1>7

\* The blocks a reader waits for only become fewer.
LEMMA RestShrinks ==
    ASSUME NEW c \in Callers, caller'[c].r = caller[c].r, rs \subseteq rs'
    PROVE  Rest(c)' \subseteq Rest(c) /\ (rs' = rs => Rest(c)' = Rest(c))
BY DEF Rest

\* What a queued reader waits for is part of what it asked for.
LEMMA RestIsAsked ==
    ASSUME TypeOK, NEW c \in Callers
    PROVE  /\ caller[c].r \in Rng
           /\ Rest(c) \subseteq Bytes(caller[c].r) \ rs
           /\ \A b \in Rest(c) : b \in Nat /\ b < SrcSize
<1>1. caller[c].r \in Rng
    <2>1. caller[c] \in CallerStates
        BY DEF TypeOK
    <2> QED BY <2>1 DEF CallerStates, Rng
<1>2. Rest(c) = {b \in Bytes(caller[c].r) : b < SrcSize} \ rs
    BY <1>1, ClipBytes, DownloadersAssumption DEF Rest
<1>3. Bytes(caller[c].r) \subseteq Nat
    BY <1>1 DEF Bytes, Rng, End
<1> QED BY <1>1, <1>2, <1>3

\* A downloader that does not move stays on what it is fetching.
LEMMA StillFetching ==
    ASSUME NEW c \in Callers, NEW d \in Dl, Fetching(d, c), Rest(c)' \subseteq Rest(c),
           dl'[d] = dl[d], mu' = d => mu = d
    PROVE  Fetching(d, c)'
BY DEF Fetching, Towards

\* The steps that leave the lock, the queue and the holder's locals alone.
LEMMA FetchKept ==
    ASSUME FetchInv, UNCHANGED <<rs, waiters, mu, todo, need>>, waiters \subseteq Callers,
           ClosedIsOver', \A c \in Callers : End(caller'[c].r) <= ItemSize,
           closer'.pc = "idle" =>
              /\ closer.pc = "idle"
              /\ \A c \in waiters \cup (Callers \cap {mu}) :
                    /\ caller'[c].r = caller[c].r
                    /\ \A d \in Dl : Fetching(d, c) => Fetching(d, c)'
    PROVE  FetchInv'
<1>1. ASSUME closer'.pc = "idle"
      PROVE  AllLookedAfter'
    <2>1. AllLookedAfter
        BY <1>1 DEF FetchInv
    <2>2. \A c \in waiters \cup (Callers \cap {mu}) :
             Rest(c)' = Rest(c) /\ (Meets(c) => Meets(c)')
        BY <1>1, RestShrinks DEF Meets
    <2>3. ASSUME mu' \in Callers, Rest(mu)' # {}
          PROVE  mu' \in todo' \/ Meets(mu)'
        <3>1. mu' = mu /\ caller'[mu].r = caller[mu].r
            BY <1>1, <2>3
        <3>2. Rest(mu)' = Rest(mu) /\ (Meets(mu) => Meets(mu)')
            BY <3>1 DEF Rest, Meets
        <3> QED BY <2>1, <2>3, <3>1, <3>2 DEF AllLookedAfter
    <2>4. ASSUME NEW c \in waiters', Rest(c)' # {}
          PROVE  LookedAfter(c)'
        <3>1. c \in waiters /\ Rest(c) # {}
            BY <2>2, <2>4
        <3>2. LookedAfter(c)
            BY <2>1, <3>1 DEF AllLookedAfter
        <3>3. (Meets(c) => Meets(c)') /\ \A d \in Dl : Fetching(d, c) => Fetching(d, c)'
            BY <1>1, <2>2, <3>1
        <3> QED BY <3>2, <3>3 DEF LookedAfter
    <2> QED BY <2>3, <2>4 DEF AllLookedAfter
<1> QED BY <1>1 DEF FetchInv

\* The holder of mu comes back from _ensureDownloader: if there was something to
\* find a downloader for, one is on it.
LEMMA EnsureReturnsFetch ==
    ASSUME LockInv, FetchInv, need.busy, NEW err \in {"ok", "err"}, EnsureReturns(err),
           rs' = rs, todo' = todo, ClosedIsOver', closer'.pc = closer.pc,
           \A c \in Callers, d \in Dl : Fetching(d, c) =>
              \/ dl'[d].pc \in {"kickEOF", "close", "count"}
              \/ dl'[d].pc \in {"kick", "last"} /\ mu # d
              \/ /\ dl'[d].pc \in {"read", "write", "kick"}
                 /\ \/ dl'[d].stop
                    \/ \A b \in Rest(c) : dl'[d].offset <= b /\ b < dl'[d].maxOffset,
           \A c \in Callers : Rest(c) # {} /\ Meets(c) =>
              \E d \in Dl :
                 \/ dl'[d].pc \in {"kickEOF", "close"}
                 \/ /\ dl'[d].pc \in {"read", "write", "kick"}
                    /\ \A b \in Rest(c) : dl'[d].offset <= b /\ b < dl'[d].maxOffset
    PROVE  FetchInv'
<1> USE DownloadersAssumption
<1>1. mu' \in {mu, Nobody} /\ need' = NoNeed
    BY DEF EnsureReturns, CallerLeaves
<1>2. \A c \in Callers : caller'[c].r = caller[c].r
    <2>1. CASE mu \in Callers
        <3>1. PICK p, v : caller' = [caller EXCEPT ![mu].pc = p, ![mu].res = v]
            BY <2>1 DEF EnsureReturns, CallerLeaves
        <3> QED BY <3>1 DEF LockInv, TypeOK, CallerStates
    <2>2. CASE mu \notin Callers
        BY <2>2 DEF EnsureReturns
    <2> QED BY <2>1, <2>2
<1>3. \A c \in Callers : Rest(c)' = Rest(c)
    BY <1>2, RestShrinks
<1>4. \A c \in Callers, d \in Dl : Fetching(d, c) => Fetching(d, c)'
    BY <1>1, <1>3 DEF Fetching, Towards
<1>5. \A c \in Callers : Rest(c) # {} /\ Meets(c) => \E d \in Dl : Fetching(d, c)'
    BY <1>1, <1>3 DEF Fetching, Towards
<1>6. mu # Nobody
    BY DEF FetchInv
<1>7. waiters \subseteq Callers
    BY DEF LockInv, TypeOK
<1>8. ASSUME closer'.pc = "idle", NEW c \in waiters, Rest(c) # {}, mu \in Callers => c # mu
      PROVE  LookedAfter(c)'
    <2>1. LookedAfter(c) /\ c \in Callers
        BY <1>7, <1>8 DEF FetchInv, AllLookedAfter
    <2>2. CASE mu \in Dl \cup {Kicker} /\ c \in todo
        <3>1. mu' = mu
            BY <2>2 DEF EnsureReturns
        <3> QED BY <2>2, <3>1 DEF LookedAfter
    <2>3. CASE Meets(c)
        BY <1>5, <1>8, <2>1, <2>3 DEF LookedAfter
    <2>4. CASE \E d \in Dl : Fetching(d, c)
        BY <1>4, <2>1, <2>4 DEF LookedAfter
    <2> QED BY <2>1, <2>2, <2>3, <2>4 DEF LookedAfter
<1>9. ASSUME closer'.pc = "idle"
      PROVE  AllLookedAfter'
    <2>1. CASE mu \in Callers
        <3>1. mu' = Nobody /\ waiters' \subseteq waiters \cup {mu}
            BY <2>1 DEF EnsureReturns, CallerLeaves
        <3>2. mu \notin waiters
            BY <2>1 DEF LockInv, HolderIsInside, BlockedIsQueued
        <3> PICK h \in Callers : h = mu
            BY <2>1
        <3>3. Rest(h) # {} => LookedAfter(h)'
            <4>1. todo = {} /\ (Rest(h) # {} => h \in todo \/ Meets(h))
                BY <1>9, <2>1 DEF FetchInv, AllLookedAfter
            <4> QED BY <1>5, <4>1 DEF LookedAfter
        <3>4. ASSUME NEW c \in waiters', Rest(c)' # {}
              PROVE  LookedAfter(c)'
            <4>1. CASE c = h
                BY <1>3, <3>3, <3>4, <4>1
            <4>2. CASE c # h
                <5>1. c \in waiters /\ Rest(c) # {}
                    BY <1>3, <1>7, <3>1, <3>4, <4>2
                <5> QED BY <1>8, <1>9, <4>2, <5>1
            <4> QED BY <4>1, <4>2
        <3> QED BY <3>1, <3>4 DEF AllLookedAfter
    <2>2. CASE mu \notin Callers
        <3>1. waiters' = waiters /\ mu' = mu
            BY <2>2 DEF EnsureReturns
        <3>2. ASSUME NEW c \in waiters', Rest(c)' # {}
              PROVE  LookedAfter(c)'
            BY <1>3, <1>7, <1>8, <1>9, <2>2, <3>1, <3>2
        <3> QED BY <2>2, <3>1, <3>2 DEF AllLookedAfter
    <2> QED BY <2>1, <2>2
<1>10. \A c \in Callers : End(caller'[c].r) <= ItemSize
    BY <1>2 DEF FetchInv
<1>11. /\ mu' = Nobody => ~need'.busy
       /\ mu' \in Callers => todo' \subseteq {mu'} /\ (need'.busy => todo' = {})
    <2>1. ~need'.busy
        BY <1>1 DEF NoNeed
    <2>2. mu' \in Callers => mu' = mu
        BY <1>1
    <2> QED BY <2>1, <2>2 DEF FetchInv
<1> QED BY <1>9, <1>10, <1>11 DEF FetchInv

\* A goroutine on its own, outside the critical sections.
LEMMA GoroutineFetch ==
    ASSUME LockInv, FetchInv, NEW d \in Dl,
           ReadBlock(d) \/ ReadEOF(d) \/ ReadFails(d) \/ WriteFails(d) \/ CloseDl(d) \/ Count(d)
    PROVE  FetchInv'
<1> USE DownloadersAssumption
<1>1. PICK x \in DlStates : x = dl[d] /\ dl \in [Dl -> DlStates]
    BY DEF LockInv, TypeOK
<1>2. UNCHANGED <<rs, waiters, mu, todo, need, caller, closer>>
    BY DEF ReadBlock, ReadEOF, ReadFails, WriteFails, CloseDl, Count, DlOnly
<1>3. PICK y : dl' = [dl EXCEPT ![d] = y]
    BY DEF ReadBlock, ReadEOF, ReadFails, WriteFails, CloseDl, Count, DlOnly
<1>4. \/ /\ x.pc \in {"read", "write"} /\ y.pc = "close" /\ ~y.closed = ~x.closed
      \/ /\ x.pc = "read" /\ y.pc = "write" /\ y.closed = x.closed
         /\ y.stop = x.stop /\ y.offset = x.offset /\ y.maxOffset = x.maxOffset
      \/ x.pc = "close" /\ y.pc = "count" /\ y.closed
      \/ x.pc = "count" /\ y.pc = "last" /\ mu = Nobody /\ y.closed = x.closed
    <2>1. CASE ReadBlock(d)
        <3>1. y = [x EXCEPT !.pc = "write"] /\ x.pc = "read"
            BY <1>1, <1>3, <2>1 DEF ReadBlock, DlOnly
        <3> QED BY <3>1 DEF DlStates
    <2>2. CASE ReadEOF(d)
        <3>1. y = [x EXCEPT !.pc = "close"] /\ x.pc = "read"
            BY <1>1, <1>3, <2>2 DEF ReadEOF, DlOnly
        <3> QED BY <3>1 DEF DlStates
    <2>3. CASE ReadFails(d)
        <3>1. y = [x EXCEPT !.pc = "close", !.err = "err"] /\ x.pc = "read"
            BY <1>1, <1>3, <2>3 DEF ReadFails, DlOnly
        <3> QED BY <3>1 DEF DlStates
    <2>4. CASE WriteFails(d)
        <3>1. PICK e, b : dl' = [dl EXCEPT ![d] = [dl[d] EXCEPT !.pc = "close", !.err = e,
                                                                !.stop = b]]
            BY <2>4 DEF WriteFails, DlOnly
        <3>2. y = [x EXCEPT !.pc = "close", !.err = e, !.stop = b] /\ x.pc = "write"
            BY <1>1, <1>3, <2>4, <3>1 DEF WriteFails
        <3> QED BY <3>2 DEF DlStates
    <2>5. CASE CloseDl(d)
        <3>1. y = [x EXCEPT !.pc = "count", !.closed = TRUE] /\ x.pc = "close"
            BY <1>1, <1>3, <2>5 DEF CloseDl, DlOnly
        <3> QED BY <3>1 DEF DlStates
    <2>6. CASE Count(d)
        <3>1. y = [x EXCEPT !.pc = "last"] /\ x.pc = "count" /\ mu = Nobody
            BY <1>1, <1>3, <2>6 DEF Count
        <3> QED BY <3>1 DEF DlStates
    <2> QED BY <2>1, <2>2, <2>3, <2>4, <2>5, <2>6
<1>5. \A e \in Dl : dl'[e] = IF e = d THEN y ELSE dl[e]
    BY <1>1, <1>3
<1>6. ClosedIsOver'
    <2>1. x.closed <=> x.pc \in {"count", "last", "done"}
        BY <1>1 DEF FetchInv, ClosedIsOver
    <2>2. y.closed <=> y.pc \in {"count", "last", "done"}
        BY <1>4, <2>1
    <2> QED BY <1>5, <2>2 DEF FetchInv, ClosedIsOver
<1>7. waiters \subseteq Callers
    BY DEF LockInv, TypeOK
<1>8. ASSUME NEW c \in Callers, NEW e \in Dl, Fetching(e, c)
      PROVE  Fetching(e, c)'
    <2>1. Rest(c)' = Rest(c)
        BY <1>2 DEF Rest
    <2>2. CASE e # d
        BY <1>2, <1>5, <1>8, <2>1, <2>2, StillFetching
    <2>3. CASE e = d
        <3>1. dl'[d] = y /\ mu' = mu
            BY <1>2, <1>5
        <3> QED BY <1>1, <1>4, <1>8, <2>1, <2>3, <3>1 DEF Fetching, Towards
    <2> QED BY <2>2, <2>3
<1>9. \A c \in Callers : End(caller'[c].r) <= ItemSize
    BY <1>2 DEF FetchInv
<1> QED BY <1>2, <1>6, <1>7, <1>8, <1>9, FetchKept

\* A Write that stores a block: its kick comes.
LEMMA WriteFetch ==
    ASSUME LockInv, FetchInv, NEW d \in Dl, Write(d)
    PROVE  FetchInv'
<1> USE DownloadersAssumption
<1>1. PICK x \in DlStates : x = dl[d] /\ dl \in [Dl -> DlStates]
    BY DEF LockInv, TypeOK
<1>2. UNCHANGED <<waiters, mu, todo, need, caller, closer>> /\ rs \subseteq rs'
    BY DEF Write
<1>3. x.pc = "write" /\ ~x.closed
    BY <1>1 DEF Write, FetchInv, ClosedIsOver
<1>4. dl'[d].pc \in {"kick", "kickEOF"} /\ dl'[d].closed = x.closed
    BY <1>1 DEF Write, DlStates
<1>5. \A e \in Dl : e # d => dl'[e] = dl[e]
    BY <1>1 DEF Write
<1>6. mu' # d
    BY <1>1, <1>2, <1>3 DEF LockInv, HolderIsInside
<1>7. ClosedIsOver'
    BY <1>3, <1>4, <1>5 DEF FetchInv, ClosedIsOver
<1>8. \A c \in Callers : Rest(c)' \subseteq Rest(c)
    BY <1>2, RestShrinks
<1>9. \A c \in Callers : Fetching(d, c)'
    BY <1>4, <1>6 DEF Fetching
<1>10. waiters' \subseteq Callers
    BY <1>2 DEF LockInv, TypeOK
<1>11. ASSUME closer'.pc = "idle"
       PROVE  AllLookedAfter'
    <2>1. ASSUME mu \in Callers, Rest(mu)' # {}
          PROVE  mu \in todo' \/ Meets(mu)'
        <3> PICK h \in Callers : h = mu /\ mu' = h
            BY <1>2, <2>1
        <3>1. Rest(h) # {}
            BY <1>8, <2>1
        <3>2. h \in todo \/ Meets(h)
            BY <1>2, <1>11, <3>1 DEF FetchInv, AllLookedAfter
        <3>3. Meets(h) => Meets(h)'
            BY <1>2, <1>8 DEF Meets
        <3>4. h \in todo' \/ Meets(h)'
            BY <1>2, <3>2, <3>3
        <3> QED BY <3>4 DEF Meets, Rest
    <2> QED BY <1>2, <1>9, <1>10, <2>1 DEF AllLookedAfter, LookedAfter
<1> QED BY <1>2, <1>7, <1>11 DEF FetchInv

\* t comes back from kickWaiters: a downloader that goes on still goes where it was going.
LEMMA KickReturnsFetch ==
    ASSUME LockInv, ClosedIsOver, NEW t \in Dl \cup {Kicker}, NEW err, KickReturns(t, err),
           t \in Dl => dl[t].pc \in {"kick", "kickEOF", "last"}
    PROVE  /\ ClosedIsOver' /\ mu' = Nobody
           /\ \A e \in Dl : e # t => dl'[e] = dl[e]
           /\ t \in Dl /\ err = "ok" =>
                 \/ dl[t].pc = "last"
                 \/ dl[t].pc = "kickEOF" /\ dl'[t].pc = "close"
                 \/ /\ dl[t].pc = "kick" /\ dl'[t].pc = "read" /\ dl'[t].stop = dl[t].stop
                    /\ dl'[t].offset = dl[t].offset /\ dl'[t].maxOffset = dl[t].maxOffset
<1> USE DownloadersAssumption
<1>1. mu' = Nobody /\ dl \in [Dl -> DlStates]
    BY DEF KickReturns, LockInv, TypeOK
<1>2. CASE t = Kicker
    BY <1>1, <1>2 DEF KickReturns, ClosedIsOver
<1>3. CASE t \in Dl
    <2>1. PICK x \in DlStates : x = dl[t]
        BY <1>1, <1>3
    <2>2. t # Kicker
        BY <1>3
    <2>3. \/ x.pc = "last" /\ dl'[t] = Idle
          \/ x.pc = "kickEOF" /\ dl'[t] = [x EXCEPT !.pc = "close"]
          \/ x.pc = "kick" /\ err = "ok" /\ dl'[t] = [x EXCEPT !.pc = "read"]
          \/ x.pc = "kick" /\ err # "ok" /\ dl'[t] = [x EXCEPT !.pc = "close", !.err = err]
        BY <1>1, <1>3, <2>1, <2>2 DEF KickReturns
    <2>4. /\ [x EXCEPT !.pc = "close"].closed = x.closed /\ [x EXCEPT !.pc = "close"].pc = "close"
          /\ [x EXCEPT !.pc = "read"].closed = x.closed /\ [x EXCEPT !.pc = "read"].pc = "read"
          /\ [x EXCEPT !.pc = "read"].stop = x.stop /\ [x EXCEPT !.pc = "read"].offset = x.offset
          /\ [x EXCEPT !.pc = "read"].maxOffset = x.maxOffset
          /\ [x EXCEPT !.pc = "close", !.err = err].closed = x.closed
          /\ [x EXCEPT !.pc = "close", !.err = err].pc = "close"
          /\ Idle.closed /\ Idle.pc = "done"
        BY DEF DlStates, Idle
    <2>5. \A e \in Dl : e # t => dl'[e] = dl[e]
        BY <1>1, <1>3, <2>2 DEF KickReturns
    <2>6. x.closed <=> x.pc \in {"count", "last", "done"}
        BY <1>3, <2>1 DEF ClosedIsOver
    <2>7. dl'[t].closed <=> dl'[t].pc \in {"count", "last", "done"}
        BY <2>3, <2>4, <2>6
    <2> QED BY <1>1, <2>1, <2>3, <2>4, <2>5, <2>7 DEF ClosedIsOver
<1> QED BY <1>2, <1>3

\* Answering readers leaves what they asked for.
LEMMA AnswerKeepsRanges ==
    ASSUME TypeOK, NEW ws, NEW v, Answer(ws, v)
    PROVE  \A c \in Callers : caller'[c].r = caller[c].r
<1> SUFFICES ASSUME NEW c \in Callers PROVE caller'[c].r = caller[c].r
    OBVIOUS
<1>1. PICK x \in CallerStates : x = caller[c]
    BY DEF TypeOK
<1>2. caller'[c] = x \/ caller'[c] = [x EXCEPT !.pc = "idle", !.res = v]
    BY <1>1 DEF Answer
<1> QED BY <1>1, <1>2 DEF CallerStates

\* kickWaiters begins: every reader that is left is to be dealt with.
LEMMA KickBeginFetch ==
    ASSUME LockInv, FetchInv, NEW t \in Dl \cup {Kicker}, KickBegin(t)
    PROVE  FetchInv'
<1> USE DownloadersAssumption
<1>1. \A c \in Callers : caller'[c].r = caller[c].r
    BY AnswerKeepsRanges DEF KickBegin, LockInv
<1>2. \A c \in Callers : End(caller'[c].r) <= ItemSize
    BY <1>1 DEF FetchInv
<1>3. mu = Nobody /\ ~need.busy /\ need' = need
    BY DEF KickBegin, FetchInv
<1>4. t \in Dl => dl[t].pc \in {"kick", "kickEOF", "last"}
    BY DEF KickBegin, Kicks
<1>5. CASE waiters' = {}
    <2>1. KickReturns(t, "ok")
        BY <1>5 DEF KickBegin
    <2>2. ClosedIsOver' /\ mu' = Nobody
        BY <1>4, <2>1, KickReturnsFetch DEF FetchInv
    <2> QED BY <1>2, <1>3, <1>5, <2>2 DEF FetchInv, AllLookedAfter
<1>6. CASE waiters' # {}
    <2>1. mu' = t /\ todo' = waiters' /\ dl' = dl
        BY <1>6 DEF KickBegin
    <2>2. ClosedIsOver'
        BY <2>1 DEF FetchInv, ClosedIsOver
    <2>3. mu' \notin Callers /\ mu' # Nobody
        BY <2>1
    <2> QED BY <1>2, <2>1, <2>2, <2>3 DEF FetchInv, AllLookedAfter, LookedAfter
<1> QED BY <1>5, <1>6

\* kickWaiters ends: a downloader is on whatever is left.
LEMMA KickEndFetch ==
    ASSUME LockInv, FetchInv, KickEnd
    PROVE  FetchInv'
<1> USE DownloadersAssumption
<1>1. PICK t \in Dl \cup {Kicker} : t = mu
    BY DEF KickEnd
<1>2. \A c \in Callers : caller'[c].r = caller[c].r
    BY AnswerKeepsRanges DEF KickEnd, LockInv
<1>3. /\ \A c \in Callers : End(caller'[c].r) <= ItemSize
      /\ \A c \in Callers : Rest(c)' = Rest(c)
    BY <1>2, RestShrinks DEF FetchInv, KickEnd
<1>4. ~need'.busy /\ todo = {} /\ todo' = {} /\ closer' = closer /\ ~need.busy
    BY DEF KickEnd
<1>5. t \in Dl => dl[t].pc \in {"kick", "kickEOF", "last"}
    BY <1>1 DEF LockInv, HolderIsInside
<1>6. waiters \subseteq Callers
    BY DEF LockInv, TypeOK
<1>7. CASE waiters' = {}
    <2>1. PICK e : KickReturns(t, e)
        BY <1>1 DEF KickEnd
    <2>2. ClosedIsOver' /\ mu' = Nobody
        BY <1>5, <2>1, KickReturnsFetch DEF FetchInv
    <2> QED BY <1>3, <1>4, <1>7, <2>2 DEF FetchInv, AllLookedAfter
<1>8. CASE waiters' # {}
    <2>1. KickReturns(t, "ok") /\ waiters' = waiters
        BY <1>1, <1>8 DEF KickEnd
    <2>2. /\ ClosedIsOver' /\ mu' = Nobody
          /\ \A e \in Dl : e # t => dl'[e] = dl[e]
          /\ t \in Dl =>
                 \/ dl[t].pc = "last"
                 \/ dl[t].pc = "kickEOF" /\ dl'[t].pc = "close"
                 \/ /\ dl[t].pc = "kick" /\ dl'[t].pc = "read" /\ dl'[t].stop = dl[t].stop
                    /\ dl'[t].offset = dl[t].offset /\ dl'[t].maxOffset = dl[t].maxOffset
        BY <1>5, <2>1, KickReturnsFetch DEF FetchInv
    <2>3. ASSUME NEW c \in Callers, NEW d \in Dl, Fetching(d, c)
          PROVE  Fetching(d, c)'
        <3>1. CASE d # t
            BY <1>3, <2>2, <2>3, <3>1, StillFetching
        <3>2. CASE d = t
            <4>1. dl[d].pc = "kickEOF" \/ (dl[d].pc = "kick" /\ Towards(d, c))
                <5>1. mu = d /\ dl[d].pc \in {"kick", "kickEOF", "last"}
                    BY <1>1, <1>5, <3>2
                <5> QED BY <2>3, <5>1 DEF Fetching
            <4>2. CASE dl[d].pc = "kickEOF"
                BY <2>2, <3>2, <4>2 DEF Fetching
            <4>3. CASE dl[d].pc = "kick" /\ Towards(d, c)
                BY <1>3, <2>2, <3>2, <4>3 DEF Fetching, Towards
            <4> QED BY <4>1, <4>2, <4>3
        <3> QED BY <3>1, <3>2
    <2>4. ASSUME closer.pc = "idle", NEW c \in waiters, Rest(c) # {}
          PROVE  LookedAfter(c)'
        BY <1>4, <1>6, <2>3, <2>4 DEF FetchInv, AllLookedAfter, LookedAfter, Meets
    <2> QED BY <1>3, <1>4, <1>6, <2>1, <2>2, <2>4 DEF FetchInv, AllLookedAfter
<1> QED BY <1>7, <1>8

\* The holder of mu turns to the next reader: it is going to ask for all that this one waits for.
LEMMA EnsureFindFetch ==
    ASSUME LockInv, FetchInv, EnsureFind
    PROVE  FetchInv'
<1> USE DownloadersAssumption
<1>1. PICK c \in todo : need' = Wanted(caller[c].r) /\ todo' = todo \ {c}
    BY DEF EnsureFind
<1>2. /\ c \in Callers /\ waiters \subseteq Callers /\ todo \subseteq Callers
      /\ UNCHANGED <<rs, caller, dl, waiters, mu, closer>>
      /\ mu # Nobody /\ ~need.busy
    BY <1>1 DEF LockInv, TypeOK, EnsureFind
<1>3. Rest(c) # {} => Meets(c)'
    <2> SUFFICES ASSUME Rest(c) # {} PROVE Meets(c)'
        OBVIOUS
    <2>1. /\ caller[c].r \in Rng /\ End(caller[c].r) <= ItemSize
          /\ Rest(c) \subseteq Bytes(caller[c].r) \ rs
        BY <1>2, RestIsAsked DEF FetchInv, LockInv
    <2>2. /\ need'.busy /\ need'.new /\ need'.r.Size # 0
          /\ \A b \in Bytes(caller[c].r) \ rs : need'.r.Pos <= b /\ b < End(need'.r)
        BY <1>1, <2>1, WantedMeets
    <2>3. Rest(c)' = Rest(c)
        BY <1>2 DEF Rest
    <2> QED BY <2>1, <2>2, <2>3 DEF Meets
<1>4. ClosedIsOver' /\ \A x \in Callers : End(caller'[x].r) <= ItemSize
    BY <1>2 DEF FetchInv, ClosedIsOver
<1>5. mu \in Callers => mu = c /\ todo' = {}
    BY <1>1 DEF FetchInv
<1>6. ASSUME closer'.pc = "idle"
      PROVE  AllLookedAfter'
    <2>1. ASSUME mu' \in Callers, Rest(mu)' # {}
          PROVE  Meets(mu)'
        <3>1. mu' = c
            BY <1>2, <1>5, <2>1
        <3>2. Rest(c) # {}
            BY <1>2, <2>1, <3>1 DEF Rest
        <3>3. Meets(c)'
            BY <1>3, <3>2
        <3> QED BY <3>1, <3>3 DEF Meets, Rest
    <2>2. ASSUME NEW x \in waiters', Rest(x)' # {}
          PROVE  LookedAfter(x)'
        <3>1. x \in Callers /\ x \in waiters /\ Rest(x) # {} /\ Rest(x)' = Rest(x)
            BY <1>2, <2>2 DEF Rest
        <3>2. LookedAfter(x)
            BY <1>2, <1>6, <3>1 DEF FetchInv, AllLookedAfter
        <3>3. CASE x = c
            BY <1>3, <3>1, <3>3 DEF LookedAfter
        <3>4. CASE x # c /\ mu \in Dl \cup {Kicker} /\ x \in todo
            BY <1>1, <1>2, <3>4 DEF LookedAfter
        <3>5. CASE \E d \in Dl : Fetching(d, x)
            BY <1>2, <3>1, <3>5, StillFetching DEF LookedAfter
        <3> QED BY <1>2, <3>2, <3>3, <3>4, <3>5 DEF LookedAfter, Meets
    <2> QED BY <2>1, <2>2 DEF AllLookedAfter
<1> QED BY <1>2, <1>4, <1>5, <1>6 DEF FetchInv

\* A downloader in reach is sent on to the end of what is missing: it has not
\* passed the first missing block, because it leaves no hole behind it.
LEMMA ReuseFetch ==
    ASSUME LockInv, ListInv, PassedIsPresent, FetchInv, Reuse
    PROVE  FetchInv'
<1> USE DownloadersAssumption
<1>1. PICK i \in InReach : dl' = [dl EXCEPT ![Open[i]].maxOffset = Max2(@, End(need.r))]
    <2>1. InReach \in SUBSET Nat
        BY OpenIs DEF InReach
    <2>2. \E k \in InReach : \A j \in InReach : k <= j
        BY <2>1, LeastNumber DEF Reuse
    <2> DEFINE i == CHOOSE k \in InReach : \A j \in InReach : k <= j
    <2>3. dl' = [dl EXCEPT ![Open[i]].maxOffset = Max2(@, End(need.r))]
        BY DEF Reuse
    <2>4. i \in InReach
        BY <2>2
    <2> QED BY <2>3, <2>4
<1>2. PICK e \in Dl : e = Open[i] /\ ~dl[e].closed /\ need.r.Pos >= dl[e].start
    BY OpenIs DEF InReach
<1>3. PICK x \in DlStates : x = dl[e] /\ dl \in [Dl -> DlStates]
    BY DEF LockInv, TypeOK
<1>4. PICK n \in Nat : n = End(need.r) /\ need.r.Pos \in Nat
    BY DEF LockInv, TypeOK, End
<1>5. PICK m \in Nat : m = Max2(x.maxOffset, n) /\ x.maxOffset <= m /\ n <= m
    BY DEF Max2, DlStates
<1>6. dl' = [dl EXCEPT ![e] = [x EXCEPT !.maxOffset = m]]
    BY <1>1, <1>2, <1>3, <1>4, <1>5
<1>7. /\ dl'[e].pc = x.pc /\ dl'[e].closed = x.closed /\ dl'[e].stop = x.stop
      /\ dl'[e].offset = x.offset /\ dl'[e].maxOffset = m
      /\ \A d \in Dl : d # e => dl'[d] = dl[d]
    BY <1>3, <1>6 DEF DlStates
<1>8. ClosedIsOver'
    BY <1>3, <1>7 DEF FetchInv, ClosedIsOver
<1>9. \A c \in Callers : \A b \in Rest(c) : b \in Nat /\ b \notin rs
    BY RestIsAsked DEF LockInv
<1>10. x.pc \in {"read", "write", "kick", "kickEOF", "close"}
    BY <1>2, <1>3 DEF FetchInv, ClosedIsOver, DlStates
<1>11. ASSUME NEW c \in Callers, NEW d \in Dl, Fetching(d, c)
       PROVE  \/ dl'[d].pc \in {"kickEOF", "close", "count"}
              \/ dl'[d].pc \in {"kick", "last"} /\ mu # d
              \/ /\ dl'[d].pc \in {"read", "write", "kick"}
                 /\ \/ dl'[d].stop
                    \/ \A b \in Rest(c) : dl'[d].offset <= b /\ b < dl'[d].maxOffset
    <2>1. CASE d # e
        BY <1>7, <1>11, <2>1 DEF Fetching, Towards
    <2>2. CASE d = e
        <3>1. ASSUME Towards(e, c)
              PROVE  x.stop \/ \A b \in Rest(c) : x.offset <= b /\ b < m
            BY <1>3, <1>5, <1>9, <3>1 DEF Towards, DlStates
        <3> QED BY <1>3, <1>7, <1>11, <2>2, <3>1 DEF Fetching
    <2> QED BY <2>1, <2>2
<1>12. ASSUME NEW c \in Callers, Meets(c)
       PROVE  \E d \in Dl :
                 \/ dl'[d].pc \in {"kickEOF", "close"}
                 \/ /\ dl'[d].pc \in {"read", "write", "kick"}
                    /\ \A b \in Rest(c) : dl'[d].offset <= b /\ b < dl'[d].maxOffset
    <2>1. x.start .. x.offset - 1 \subseteq rs
        BY <1>3, <1>10 DEF PassedIsPresent
    <2>2. ASSUME NEW b \in Rest(c)
          PROVE  x.offset <= b /\ b < m
        <3>1. need.r.Pos <= b /\ b < n /\ b \in Nat /\ b \notin rs
            BY <1>4, <1>9, <1>12 DEF Meets
        <3>2. x.start <= b /\ x.start \in Nat /\ x.offset \in Nat
            BY <1>2, <1>3, <1>4, <3>1 DEF DlStates
        <3>3. ~(b \in x.start .. x.offset - 1)
            BY <2>1, <3>1
        <3> QED BY <1>5, <3>1, <3>2, <3>3
    <2> QED BY <1>7, <1>10, <2>2
<1>13. closer'.pc = closer.pc
    BY CompactedType DEF Reuse
<1>14. need.busy /\ rs' = rs /\ todo' = todo /\ EnsureReturns("ok")
    BY DEF Reuse
<1> QED BY <1>8, <1>11, <1>12, <1>13, <1>14, EnsureReturnsFetch

\* A fresh downloader is started for all that is missing.
LEMMA NewDownloaderFetch ==
    ASSUME LockInv, ListInv, FetchInv, NewDownloader
    PROVE  FetchInv'
<1> USE DownloadersAssumption
<1>1. PICK e \in Free : dl' = [dl EXCEPT ![e] = Started(need.r)] /\ closer' \in Appended(e)
    BY FreshIsFree DEF NewDownloader
<1>2. e \in Dl /\ dl[e].pc = "done" /\ dl \in [Dl -> DlStates]
    BY <1>1 DEF Free, LockInv, TypeOK
<1>3. /\ dl'[e] = Started(need.r)
      /\ \A d \in Dl : d # e => dl'[d] = dl[d]
    BY <1>1, <1>2
<1>4. /\ dl'[e].pc = "read" /\ ~dl'[e].closed
      /\ dl'[e].offset = need.r.Pos /\ dl'[e].maxOffset = End(need.r)
    BY <1>3 DEF Started
<1>5. ClosedIsOver'
    BY <1>3, <1>4 DEF FetchInv, ClosedIsOver
<1>6. ASSUME NEW c \in Callers, NEW d \in Dl, Fetching(d, c)
      PROVE  \/ dl'[d].pc \in {"kickEOF", "close", "count"}
             \/ dl'[d].pc \in {"kick", "last"} /\ mu # d
             \/ /\ dl'[d].pc \in {"read", "write", "kick"}
                /\ \/ dl'[d].stop
                   \/ \A b \in Rest(c) : dl'[d].offset <= b /\ b < dl'[d].maxOffset
    <2>1. d # e
        BY <1>2, <1>6 DEF Fetching
    <2> QED BY <1>3, <1>6, <2>1 DEF Fetching, Towards
<1>7. \A c \in Callers : Meets(c) =>
         \A b \in Rest(c) : dl'[e].offset <= b /\ b < dl'[e].maxOffset
    BY <1>4 DEF Meets
<1>8. closer'.pc = closer.pc
    BY <1>1, <1>2, CompactedType
<1>9. need.busy /\ rs' = rs /\ todo' = todo /\ EnsureReturns("ok")
    BY DEF NewDownloader
<1> QED BY <1>2, <1>4, <1>5, <1>6, <1>7, <1>8, <1>9, EnsureReturnsFetch

\* No downloader is started only when nothing is missing of what a reader waits for.
LEMMA NoneStartedFetch ==
    ASSUME LockInv, ListInv, FetchInv, NothingToStart \/ NewFails
    PROVE  FetchInv'
<1> USE DownloadersAssumption
<1>1. \A c \in Callers : Rest(c) # {} => ~Meets(c)
    <2> SUFFICES ASSUME NEW c \in Callers, NEW b \in Rest(c), Meets(c)
                 PROVE  FALSE
        OBVIOUS
    <2>1. b \in Nat /\ b < SrcSize /\ need.r.Pos \in Nat
        BY RestIsAsked DEF LockInv, TypeOK
    <2>2. need.new /\ need.r.Size # 0 /\ need.r.Pos <= b
        BY DEF Meets
    <2>3. SrcSize <= need.r.Pos
        BY <2>2 DEF NothingToStart, NewFails
    <2> QED BY <2>1, <2>2, <2>3
<1>2. PICK err \in {"ok", "err"} : EnsureReturns(err)
    BY DEF NothingToStart, NewFails
<1>3. need.busy /\ rs' = rs /\ todo' = todo /\ dl' = dl
    BY DEF NothingToStart, NewFails
<1>4. closer'.pc = closer.pc
    BY CompactedType DEF NothingToStart, NewFails
<1>5. ClosedIsOver'
    BY <1>3 DEF FetchInv, ClosedIsOver
<1>6. \A c \in Callers, d \in Dl : Fetching(d, c) =>
         \/ dl'[d].pc \in {"kickEOF", "close", "count"}
         \/ dl'[d].pc \in {"kick", "last"} /\ mu # d
         \/ /\ dl'[d].pc \in {"read", "write", "kick"}
            /\ \/ dl'[d].stop
               \/ \A b \in Rest(c) : dl'[d].offset <= b /\ b < dl'[d].maxOffset
    BY <1>3 DEF Fetching, Towards
<1> QED BY <1>1, <1>2, <1>3, <1>4, <1>5, <1>6, EnsureReturnsFetch

\* Every step keeps every queued reader looked after, until Close begins.
LEMMA FetchStep ==
    LockInv /\ ListInv /\ PassedIsPresent /\ FetchInv /\ [Next]_vars => FetchInv'
<1> SUFFICES ASSUME LockInv, ListInv, PassedIsPresent, FetchInv, [Next]_vars
             PROVE  FetchInv'
    OBVIOUS
<1> USE DownloadersAssumption
<1>1. waiters \subseteq Callers
    BY DEF LockInv, TypeOK
<1>2. ASSUME UNCHANGED <<rs, dl, mu>>, NEW c \in Callers, caller'[c].r = caller[c].r, NEW d \in Dl
      PROVE  Fetching(d, c) => Fetching(d, c)'
    BY <1>2, StillFetching, RestShrinks
<1>3. ASSUME dl' = dl PROVE ClosedIsOver'
    BY <1>3 DEF FetchInv, ClosedIsOver
<1>4. ASSUME NEW c \in Callers, Begin(c) PROVE FetchInv'
    <2>1. /\ UNCHANGED <<rs, dl, waiters, mu, todo, need, closer>>
          /\ caller[c].pc = "idle" /\ caller \in [Callers -> CallerStates]
        BY <1>4 DEF Begin, LockInv, TypeOK
    <2>2. PICK r \in Requests :
             caller' = [caller EXCEPT ![c] = [pc |-> "locking", r |-> r, wait |-> ~HasRange(r),
                                              res |-> "none"]]
        BY <1>4 DEF Begin
    <2>3. End(r) <= ItemSize
        OBVIOUS
    <2>4. \A x \in Callers : IF x = c THEN caller'[x].r = r ELSE caller'[x] = caller[x]
        BY <2>1, <2>2
    <2>5. \A x \in Callers : End(caller'[x].r) <= ItemSize
        BY <2>3, <2>4 DEF FetchInv
    <2>6. c \notin waiters /\ mu # c
        BY <2>1 DEF LockInv, HolderIsInside, BlockedIsQueued
    <2>7. \A x \in waiters \cup (Callers \cap {mu}) : x \in Callers /\ caller'[x].r = caller[x].r
        BY <1>1, <2>4, <2>6
    <2>8. \A x \in waiters \cup (Callers \cap {mu}) : \A d \in Dl : Fetching(d, x) => Fetching(d, x)'
        BY <1>2, <2>1, <2>7
    <2> QED BY <1>1, <1>3, <2>1, <2>5, <2>7, <2>8, FetchKept
<1>5. ASSUME NEW c \in Callers, Lock(c) PROVE FetchInv'
    <2>1. /\ UNCHANGED <<rs, dl, waiters, need, closer>> /\ mu = Nobody /\ mu' = c /\ todo' = {c}
          /\ ~need.busy
        BY <1>5 DEF Lock, FetchInv
    <2>2. \A x \in Callers : caller'[x].r = caller[x].r
        BY <1>5 DEF Lock, LockInv, TypeOK, CallerStates
    <2>3. \A x \in Callers : Rest(x)' = Rest(x)
        BY <2>1, <2>2, RestShrinks
    <2>4. \A x \in Callers, d \in Dl : Fetching(d, x) => Fetching(d, x)'
        BY <2>1, <2>3, StillFetching
    <2>5. ASSUME closer'.pc = "idle", NEW x \in waiters', Rest(x)' # {}
          PROVE  LookedAfter(x)'
        <3>1. x \in Callers /\ LookedAfter(x)
            BY <1>1, <2>1, <2>3, <2>5 DEF FetchInv, AllLookedAfter
        <3>2. \E d \in Dl : Fetching(d, x)
            BY <2>1, <3>1 DEF LookedAfter, Meets
        <3> QED BY <2>4, <3>1, <3>2 DEF LookedAfter
    <2>6. \A x \in Callers : End(caller'[x].r) <= ItemSize
        BY <2>2 DEF FetchInv
    <2> QED BY <1>3, <2>1, <2>5, <2>6 DEF FetchInv, AllLookedAfter
<1>6. CASE KickerExits \/ UNCHANGED vars
    <2>1. UNCHANGED <<rs, caller, dl, waiters, mu, todo, need, closer>>
        BY <1>6 DEF KickerExits, vars
    <2>2. \A x \in Callers : caller'[x].r = caller[x].r /\ End(caller'[x].r) <= ItemSize
        BY <2>1 DEF FetchInv
    <2>3. \A x \in Callers, d \in Dl : Fetching(d, x) => Fetching(d, x)'
        BY <1>2, <2>1, <2>2
    <2> QED BY <1>1, <1>3, <2>1, <2>2, <2>3, FetchKept
<1>7. CASE CloseBegin \/ CloseStop \/ CloseNext
    <2>1. UNCHANGED <<rs, caller, waiters, mu, todo, need>>
        BY <1>7 DEF CloseBegin, CloseStop, CloseNext
    <2>2. closer'.pc # "idle"
        <3>1. CASE CloseBegin \/ CloseNext
            <4>1. PICK i, view, began : CloseIterate(i, view, began)
                BY <3>1 DEF CloseBegin, CloseNext
            <4>2. closer'.pc = "stop" \/ closer' = NotClosing("kicker", began)
                BY <4>1 DEF CloseIterate
            <4> QED BY <4>2 DEF NotClosing
        <3>2. CASE CloseStop
            <4>1. closer' = [closer EXCEPT !.pc = "wait"] /\ closer \in CloserStates
                BY <3>2 DEF CloseStop, ListInv
            <4> QED BY <4>1 DEF CloserStates
        <3> QED BY <1>7, <3>1, <3>2
    <2>3. ClosedIsOver'
        <3>1. dl' = dl \/ dl' = [dl EXCEPT ![closer.cur].stop = TRUE]
            BY <1>7 DEF CloseBegin, CloseStop, CloseNext
        <3>2. \A d \in Dl : dl'[d].pc = dl[d].pc /\ dl'[d].closed = dl[d].closed
            BY <3>1 DEF LockInv, TypeOK, DlStates
        <3> QED BY <3>2 DEF FetchInv, ClosedIsOver
    <2>4. \A x \in Callers : End(caller'[x].r) <= ItemSize
        BY <2>1 DEF FetchInv
    <2> QED BY <1>1, <2>1, <2>2, <2>3, <2>4, FetchKept
<1>8. CASE CloseEnd
    <2>1. /\ UNCHANGED <<rs, dl, mu, todo, need>> /\ mu = Nobody /\ ~need.busy
          /\ closer' = NotClosing("closed", {})
        BY <1>8 DEF CloseEnd, FetchInv
    <2>2. \A x \in Callers : caller'[x].r = caller[x].r
        <3> SUFFICES ASSUME NEW x \in Callers PROVE caller'[x].r = caller[x].r
            OBVIOUS
        <3>1. PICK y \in CallerStates : y = caller[x]
            BY DEF LockInv, TypeOK
        <3>2. PICK v : caller'[x] = y \/ caller'[x] = [y EXCEPT !.pc = "idle", !.res = v]
            BY <1>8, <3>1 DEF CloseEnd
        <3> QED BY <3>1, <3>2 DEF CallerStates
    <2>3. closer'.pc # "idle"
        BY <2>1 DEF NotClosing
    <2>4. \A x \in Callers : End(caller'[x].r) <= ItemSize
        BY <2>2 DEF FetchInv
    <2> QED BY <1>3, <2>1, <2>3, <2>4 DEF FetchInv
<1> QED
    BY <1>4, <1>5, <1>6, <1>7, <1>8, EnsureFindFetch, ReuseFetch, NewDownloaderFetch,
       NoneStartedFetch, KickBeginFetch, KickEndFetch, WriteFetch, GoroutineFetch
    DEF Next, Holder, Goroutine, Close

\* Until Close begins a reader that is queued for a block that is missing has a
\* downloader on its way to that block or about to call kickWaiters: it does not
\* depend on the background kicker (downloaders.go:244-276 and 293-378).
THEOREM FetchCorrect == Spec => []MissingIsBeingFetched
<1>1. Init => LockInv /\ ListInv /\ PassedIsPresent /\ FetchInv
    <2> SUFFICES ASSUME Init PROVE LockInv /\ ListInv /\ PassedIsPresent /\ FetchInv
        OBVIOUS
    <2>1. LockInv /\ PassedIsPresent
        BY InitType, DownloadersAssumption
        DEF Init, LockInv, HolderIsInside, BlockedIsQueued, PassedIsPresent, Idle
    <2>2. ListInv
        BY DEF Init, ListInv, CloserStates, NotClosing, Idle
    <2>3. FetchInv
        BY DownloadersAssumption
        DEF Init, FetchInv, AllLookedAfter, ClosedIsOver, NoNeed, Idle, EmptyRange, End
    <2> QED BY <2>1, <2>2, <2>3
<1>2. LockInv /\ ListInv /\ PassedIsPresent /\ FetchInv /\ [Next]_vars
      => LockInv' /\ ListInv' /\ PassedIsPresent' /\ FetchInv'
    <2>1. LockInv /\ [Next]_vars => LockInv' /\ TypeOK'
        BY TypeStep, LockStep DEF LockInv
    <2> QED BY <2>1, PassedStep, ListStep, FetchStep DEF LockInv
<1>3. LockInv /\ FetchInv => MissingIsBeingFetched
    <2> SUFFICES ASSUME LockInv, FetchInv, mu = Nobody, closer.pc = "idle",
                        NEW c \in waiters \ Served
                 PROVE  LET r == ItemFindMissing(Clip(caller[c].r, SrcSize))
                        IN  \E d \in Dl :
                               \/ dl[d].pc \in {"kick", "kickEOF", "close", "count", "last"}
                               \/ dl[d].pc \in {"read", "write"} /\ dl[d].stop
                               \/ /\ dl[d].pc \in {"read", "write"}
                                  /\ dl[d].offset <= r.Pos /\ r.Pos < dl[d].maxOffset
        BY DEF MissingIsBeingFetched
    <2> DEFINE q == Clip(caller[c].r, SrcSize)
               r == ItemFindMissing(q)
    <2>1. c \in Callers /\ caller[c].r \in Rng /\ End(caller[c].r) <= ItemSize
        BY RestIsAsked DEF LockInv, TypeOK, FetchInv
    <2>2. PICK b \in Bytes(q) : b \notin rs
        BY DEF Served, HasRange
    <2>3. q \in Rng /\ Bytes(q) = {x \in Bytes(caller[c].r) : x < SrcSize}
        BY <2>1, ClipBytes, DownloadersAssumption
    <2>4. Rest(c) = Bytes(q) \ rs
        BY DEF Rest
    <2> HIDE DEF q
    <2>5. /\ r \in Rng /\ r.Pos \notin rs /\ q.Pos <= r.Pos /\ r.Pos <= b
        <3>1. b < ItemSize
            BY <2>1, <2>2, <2>3, DownloadersAssumption DEF Bytes, End, Rng
        <3> QED BY <2>2, <2>3, <3>1, FindMissingCovers
    <2> HIDE DEF r
    <2>6. r.Pos \in Rest(c)
        BY <2>2, <2>3, <2>4, <2>5 DEF Bytes, End, Rng
    <2>7. \E d \in Dl : Fetching(d, c)
        <3>1. LookedAfter(c)
            BY <2>6 DEF FetchInv, AllLookedAfter
        <3>2. ~need.busy /\ mu \notin Dl \cup {Kicker}
            BY DownloadersAssumption DEF FetchInv
        <3> QED BY <3>1, <3>2 DEF LookedAfter, Meets
    <2> QED BY <2>6, <2>7 DEF Fetching, Towards, r, q
<1> QED BY <1>1, <1>2, <1>3, PTL DEF Spec

-------------------------------------------------------------------------------
(* The downloaders implement RangeFetch *)

\* Coming back from _ensureDownloader, a caller is told something only if it leaves.
LEMMA EnsureReturnsUntold ==
    ASSUME LockInv, CallerIsUntold, NEW err, EnsureReturns(err)
    PROVE  CallerIsUntold'
<1>1. caller \in [Callers -> CallerStates]
    BY DEF LockInv, TypeOK
<1>2. CASE mu \in Callers
    <2>1. CallerLeaves(mu, err)
        BY <1>2 DEF EnsureReturns
    <2>2. \A c \in Callers : c # mu => caller'[c] = caller[c]
        BY <1>1, <2>1 DEF CallerLeaves
    <2>3. /\ caller'[mu].wait = caller[mu].wait
          /\ caller'[mu].pc # "idle" => caller'[mu].res = "none" /\ caller[mu].wait
        <3>1. caller[mu].wait \in BOOLEAN
            BY <1>1, <1>2 DEF CallerStates
        <3> QED BY <1>1, <1>2, <2>1, <3>1 DEF CallerLeaves, CallerStates
    <2> QED BY <1>2, <2>2, <2>3 DEF CallerIsUntold
<1>3. CASE mu \notin Callers
    BY <1>3 DEF EnsureReturns, CallerIsUntold
<1> QED BY <1>2, <1>3

\* The callers in ws are told v[c] and leave.
Told(ws, v) ==
    caller' = [c \in Callers |-> IF c \in ws THEN [caller[c] EXCEPT !.pc = "idle", !.res = v[c]]
                                 ELSE caller[c]]

\* An answer tells them all the same.
LEMMA AnswerTells ==
    ASSUME NEW ws, NEW v, Answer(ws, v), ws \subseteq Callers
    PROVE  Told(ws, [c \in ws |-> v])
BY DEF Answer, Told

\* The last of Close: whoever has its range is told so, the others what Close was given.
LEMMA CloseEndTells ==
    ASSUME CloseEnd, waiters \subseteq Callers
    PROVE  Told(waiters, [c \in waiters |-> IF c \in Served THEN "ok" ELSE CloseErr])
BY DEF CloseEnd, Told

\* Those who are answered leave.
LEMMA TellKeepsUntold ==
    ASSUME TypeOK, CallerIsUntold, NEW ws, NEW v, Told(ws, v)
    PROVE  CallerIsUntold'
<1> SUFFICES ASSUME NEW c \in Callers
             PROVE  /\ caller'[c].pc # "idle" => caller'[c].res = "none"
                    /\ caller'[c].pc = "blocked" => caller'[c].wait
    BY DEF CallerIsUntold
<1>1. CASE c \in ws
    <2>1. caller[c] \in CallerStates
        BY DEF TypeOK
    <2>2. caller'[c] = [caller[c] EXCEPT !.pc = "idle", !.res = v[c]]
        BY <1>1 DEF Told
    <2> QED BY <2>1, <2>2 DEF CallerStates
<1>2. CASE c \notin ws
    BY <1>2 DEF Told, CallerIsUntold
<1> QED BY <1>1, <1>2

\* Every step keeps CallerIsUntold.
LEMMA UntoldStep == LockInv /\ CallerIsUntold /\ [Next]_vars => CallerIsUntold'
<1> SUFFICES ASSUME LockInv, CallerIsUntold, [Next]_vars PROVE CallerIsUntold'
    OBVIOUS
<1>1. /\ caller \in [Callers -> CallerStates] /\ TypeOK
      /\ waiters \subseteq Callers /\ Served \subseteq Callers
    BY DEF LockInv, TypeOK, Served
<1>2. ASSUME caller' = caller PROVE CallerIsUntold'
    BY <1>2 DEF CallerIsUntold
<1>3. ASSUME NEW c \in Callers, Begin(c) PROVE CallerIsUntold'
    BY <1>1, <1>3 DEF Begin, CallerIsUntold
<1>4. ASSUME NEW c \in Callers, Lock(c) PROVE CallerIsUntold'
    <2>1. caller' = [caller EXCEPT ![c].pc = "ensure"] /\ caller[c].pc # "idle"
        BY <1>4 DEF Lock
    <2>2. caller'[c].res = caller[c].res /\ caller'[c].pc = "ensure"
        BY <1>1, <2>1 DEF CallerStates
    <2>3. \A x \in Callers : x # c => caller'[x] = caller[x]
        BY <1>1, <2>1
    <2> QED BY <2>1, <2>2, <2>3 DEF CallerIsUntold
<1>5. CASE Reuse \/ NothingToStart \/ NewDownloader \/ NewFails
    <2>1. EnsureReturns("ok") \/ EnsureReturns("err")
        BY <1>5 DEF Reuse, NothingToStart, NewDownloader, NewFails
    <2> QED BY <2>1, EnsureReturnsUntold
<1>6. ASSUME NEW ws, ws \subseteq Callers, NEW v, Answer(ws, v) PROVE CallerIsUntold'
    <2> DEFINE f == [c \in ws |-> v]
    <2>1. Told(ws, f)
        BY <1>6, AnswerTells
    <2> HIDE DEF f
    <2> QED BY <1>1, <2>1, TellKeepsUntold
<1>7. CASE KickEnd
    BY <1>1, <1>2, <1>6, <1>7 DEF KickEnd
<1>8. ASSUME NEW t, KickBegin(t) PROVE CallerIsUntold'
    BY <1>1, <1>6, <1>8 DEF KickBegin
<1>9. CASE CloseEnd
    <2> DEFINE f == [c \in waiters |-> IF c \in Served THEN "ok" ELSE CloseErr]
    <2>1. Told(waiters, f)
        BY <1>1, <1>9, CloseEndTells
    <2> HIDE DEF f
    <2> QED BY <1>1, <2>1, TellKeepsUntold
<1>10. ASSUME NEW d \in Dl,
              \/ ReadBlock(d) \/ ReadEOF(d) \/ ReadFails(d) \/ Write(d) \/ WriteFails(d)
              \/ CloseDl(d) \/ Count(d)
       PROVE  CallerIsUntold'
    <2>1. caller' = caller
        BY <1>10 DEF ReadBlock, ReadEOF, ReadFails, Write, WriteFails, CloseDl, Count, DlOnly
    <2> QED BY <1>2, <2>1
<1>11. CASE EnsureFind \/ KickerExits \/ CloseBegin \/ CloseStop \/ CloseNext \/ UNCHANGED vars
    <2>1. caller' = caller
        BY <1>11 DEF EnsureFind, KickerExits, CloseBegin, CloseStop, CloseNext, vars
    <2> QED BY <1>2, <2>1
<1> QED
    BY <1>3, <1>4, <1>5, <1>7, <1>8, <1>9, <1>10, <1>11 DEF Next, Holder, Goroutine, Close

\* Coming back from kickWaiters puts nobody before a Write.
LEMMA KickReturnsOfSource ==
    ASSUME TypeOK, WrittenIsOfSource, NEW t \in Dl \cup {Kicker}, NEW err, KickReturns(t, err)
    PROVE  WrittenIsOfSource'
<1>1. dl \in [Dl -> DlStates]
    BY DEF TypeOK
<1> QED BY <1>1, DownloadersAssumption DEF KickReturns, WrittenIsOfSource, Idle, DlStates

\* Every step keeps WrittenIsOfSource.
LEMMA OfSourceStep == LockInv /\ WrittenIsOfSource /\ [Next]_vars => WrittenIsOfSource'
<1> SUFFICES ASSUME LockInv, WrittenIsOfSource, [Next]_vars PROVE WrittenIsOfSource'
    OBVIOUS
<1> USE DownloadersAssumption
<1>1. TypeOK /\ dl \in [Dl -> DlStates]
    BY DEF LockInv, TypeOK
<1>2. ASSUME dl' = dl PROVE WrittenIsOfSource'
    BY <1>2 DEF WrittenIsOfSource
<1>3. ASSUME NEW c \in Callers, Begin(c) \/ Lock(c) PROVE dl' = dl
    BY <1>3 DEF Begin, Lock
<1>4. CASE EnsureFind \/ NothingToStart \/ NewFails \/ KickerExits \/ CloseBegin \/ CloseNext
           \/ CloseEnd \/ UNCHANGED vars
    BY <1>2, <1>4 DEF EnsureFind, NothingToStart, NewFails, KickerExits, CloseBegin, CloseNext,
                      CloseEnd, vars
<1>5. CASE Reuse
    <2>1. PICK x, m : dl' = [dl EXCEPT ![x].maxOffset = m]
        BY <1>5 DEF Reuse
    <2> QED BY <1>1, <2>1 DEF WrittenIsOfSource, DlStates
<1>6. CASE NewDownloader
    <2>1. PICK x \in Free : dl' = [dl EXCEPT ![x] = Started(need.r)]
        BY <1>6, FreshIsFree DEF NewDownloader
    <2> QED BY <1>1, <2>1 DEF WrittenIsOfSource, Started
<1>7. CASE KickEnd
    <2>1. mu \in Dl \cup {Kicker} /\ \E err : KickReturns(mu, err)
        BY <1>7 DEF KickEnd
    <2> QED BY <1>1, <2>1, KickReturnsOfSource
<1>8. ASSUME NEW t \in Dl \cup {Kicker}, KickBegin(t) PROVE WrittenIsOfSource'
    <2>1. dl' = dl \/ KickReturns(t, "ok")
        BY <1>8 DEF KickBegin
    <2> QED BY <1>1, <1>2, <1>8, <2>1, KickReturnsOfSource
<1>9. ASSUME NEW d \in Dl,
             \/ ReadBlock(d) \/ ReadEOF(d) \/ ReadFails(d) \/ Write(d) \/ WriteFails(d)
             \/ CloseDl(d) \/ Count(d)
      PROVE  WrittenIsOfSource'
    <2>1. dl[d] \in DlStates
        BY <1>1
    <2>2. \A e \in Dl : e # d => dl'[e] = dl[e]
        BY <1>1, <1>9 DEF ReadBlock, ReadEOF, ReadFails, Write, WriteFails, CloseDl, Count, DlOnly
    <2>3. CASE ReadBlock(d)
        BY <1>1, <2>1, <2>2, <2>3 DEF ReadBlock, DlOnly, DlStates, WrittenIsOfSource
    <2>4. CASE ~ReadBlock(d)
        <3>1. dl'[d].pc # "write"
            <4>1. CASE ReadEOF(d)
                BY <1>1, <2>1, <4>1 DEF ReadEOF, DlOnly, DlStates
            <4>6. CASE CloseDl(d)
                BY <1>1, <2>1, <4>6 DEF CloseDl, DlOnly, DlStates
            <4>2. CASE ReadFails(d)
                BY <1>1, <2>1, <4>2 DEF ReadFails, DlOnly, DlStates
            <4>3. CASE Write(d)
                BY <1>1, <2>1, <4>3 DEF Write, DlStates
            <4>4. CASE WriteFails(d)
                BY <1>1, <2>1, <4>4 DEF WriteFails, DlOnly, DlStates
            <4>5. CASE Count(d)
                BY <1>1, <2>1, <4>5 DEF Count, DlStates
            <4> QED BY <1>9, <2>4, <4>1, <4>2, <4>3, <4>4, <4>5, <4>6
        <3> QED BY <2>2, <3>1 DEF WrittenIsOfSource
    <2> QED BY <2>3, <2>4
<1>10. CASE CloseStop
    BY <1>1, <1>10 DEF CloseStop, WrittenIsOfSource, DlStates
<1> QED
    BY <1>2, <1>3, <1>4, <1>5, <1>6, <1>7, <1>8, <1>9, <1>10 DEF Next, Holder, Goroutine, Close

\* The item's words mean what the downloaders' do.
LEMMA ThereIsHasRange ==
    /\ \A r : Promise!There(r) <=> HasRange(Clip(r, SrcSize))
    /\ \A r : Promise!Bytes(r) = Bytes(r)
    /\ Promise!EmptyRange = EmptyRange
<1>1. Promise!EmptyRange = EmptyRange
    BY DEF Promise!EmptyRange, EmptyRange
<1>2. ASSUME NEW r PROVE Promise!Bytes(r) = Bytes(r)
    BY DEF Promise!Bytes, Bytes, Promise!End, End
<1>3. ASSUME NEW r PROVE Promise!Clip(r, SrcSize) = Clip(r, SrcSize)
    BY <1>1 DEF Promise!Clip, Clip, Promise!End, End
<1>4. ASSUME NEW r PROVE Promise!There(r) <=> HasRange(Clip(r, SrcSize))
    BY <1>2, <1>3 DEF Promise!There, HasRange
<1> QED BY <1>1, <1>2, <1>4

\* Who is told here is told there.
LEMMA ToldIsTell ==
    ASSUME TypeOK, NEW ws, NEW v, Told(ws, v)
    PROVE  Promise!Tell(ws, v)
<1>1. SUFFICES ASSUME NEW c \in Callers
               PROVE  Calls'[c] = IF c \in ws THEN [Calls[c] EXCEPT !.asked = FALSE, !.res = v[c]]
                                  ELSE Calls[c]
    BY DEF Promise!Tell, Calls
<1>2. caller[c] \in CallerStates
    BY DEF TypeOK
<1>3. CASE c \in ws
    <2>1. caller'[c] = [caller[c] EXCEPT !.pc = "idle", !.res = v[c]]
        BY <1>3 DEF Told
    <2>2. /\ caller'[c].pc = "idle" /\ caller'[c].r = caller[c].r
          /\ caller'[c].wait = caller[c].wait /\ caller'[c].res = v[c]
        BY <1>2, <2>1 DEF CallerStates
    <2> QED BY <1>3, <2>2 DEF Calls
<1>4. CASE c \notin ws
    BY <1>4 DEF Told, Calls
<1> QED BY <1>3, <1>4

\* Who is queued waits.
LEMMA QueuedWaits ==
    ASSUME LockInv, CallerIsUntold
    PROVE  waiters \subseteq Promise!Waiting
BY DEF LockInv, TypeOK, BlockedIsQueued, CallerIsUntold, Promise!Waiting, Calls

\* A step that changes nothing an item sees.
Unseen == UNCHANGED <<rs, Calls, Stage>>

\* What the return from _ensureDownloader is to the item
LEMMA EnsureReturnsSeen ==
    ASSUME LockInv, CallerIsUntold, UNCHANGED <<rs, Stage>>,
           NEW err \in {"ok", "err"}, EnsureReturns(err)
    PROVE  Unseen \/ Promise!Next
<1>1. caller \in [Callers -> CallerStates] /\ TypeOK
    BY DEF LockInv, TypeOK
<1>2. CASE mu \notin Callers
    BY <1>2 DEF EnsureReturns, Unseen, Calls
<1>3. CASE mu \in Callers
    <2>1. CallerLeaves(mu, err)
        BY <1>3 DEF EnsureReturns
    <2>2. caller[mu].pc = "ensure" /\ caller[mu].res = "none" /\ caller[mu].wait \in BOOLEAN
        BY <1>1, <1>3 DEF LockInv, HolderIsInside, CallerIsUntold, CallerStates
    <2>3. /\ Calls[mu].asked /\ Calls[mu].waits = caller[mu].wait
          /\ Calls \in [Callers -> [asked : BOOLEAN, r : Rng, waits : BOOLEAN, res : Results]]
        BY <1>1, <1>3, <2>2 DEF Calls, CallerStates, Rng
    <2>4. CASE caller[mu].wait /\ err = "ok"
        <3>1. caller' = [caller EXCEPT ![mu].pc = "blocked", ![mu].res = "none"]
            BY <2>1, <2>4 DEF CallerLeaves
        <3>2. /\ caller'[mu].pc # "idle" /\ caller'[mu].r = caller[mu].r
              /\ caller'[mu].wait = caller[mu].wait /\ caller'[mu].res = caller[mu].res
            BY <1>1, <1>3, <2>2, <3>1 DEF CallerStates
        <3>3. \A c \in Callers : c # mu => caller'[c] = caller[c]
            BY <1>1, <3>1
        <3> QED BY <2>2, <3>2, <3>3 DEF Unseen, Calls
    <2>5. CASE ~(caller[mu].wait /\ err = "ok")
        <3> DEFINE v == IF caller[mu].wait THEN err ELSE "none"
                   f == [c \in {mu} |-> v]
        <3>1. caller' = [caller EXCEPT ![mu].pc = "idle", ![mu].res = v]
            BY <2>1, <2>2, <2>5 DEF CallerLeaves
        <3>2. Told({mu}, f)
            BY <1>1, <1>3, <3>1 DEF Told
        <3> HIDE DEF v
        <3>3. Promise!Tell({mu}, f)
            <4> HIDE DEF f
            <4> QED BY <1>1, <3>2, ToldIsTell
        <3>4. CASE caller[mu].wait
            <4>1. err = "err" /\ v = err
                BY <2>5, <3>4 DEF v
            <4>2. {mu} \in SUBSET Promise!Waiting
                BY <1>3, <2>3, <3>4 DEF Promise!Waiting
            <4>3. Promise!GiveUp({mu}, "err")
                BY <3>3, <4>1 DEF Promise!GiveUp
            <4> QED BY <4>2, <4>3 DEF Promise!Next
        <3>5. CASE ~caller[mu].wait
            <4>1. v = "none"
                BY <3>5 DEF v
            <4>2. Promise!PassBy(mu)
                BY <2>3, <3>3, <3>5, <4>1 DEF Promise!PassBy
            <4> QED BY <1>3, <4>2 DEF Promise!Next
        <3> QED BY <2>2, <3>4, <3>5
    <2> QED BY <2>4, <2>5
<1> QED BY <1>2, <1>3

\* What an answer to queued readers is to the item: success for those whose range is
\* there, or a failure.
LEMMA AnswerSeen ==
    ASSUME LockInv, CallerIsUntold, UNCHANGED <<rs, Stage>>,
           NEW ws, ws \subseteq waiters, NEW v, Answer(ws, v),
           \/ v = "ok" /\ ws \subseteq Served
           \/ v \in {"err", "nospace"}
    PROVE  Promise!Next
<1> DEFINE f == [c \in ws |-> v]
<1>1. TypeOK /\ ws \subseteq Callers
    BY DEF LockInv, TypeOK
<1>2. Told(ws, f)
    BY <1>1, AnswerTells
<1>3. Promise!Tell(ws, f)
    <2> HIDE DEF f
    <2> QED BY <1>1, <1>2, ToldIsTell
<1>4. ws \in SUBSET Promise!Waiting
    BY QueuedWaits
<1>5. CASE v = "ok" /\ ws \subseteq Served
    <2>1. \A c \in ws : Promise!There(Calls[c].r)
        BY <1>1, <1>5, ThereIsHasRange DEF Served, Calls
    <2>2. Promise!Serve(ws)
        BY <1>3, <1>5, <2>1 DEF Promise!Serve
    <2> QED BY <1>4, <2>2 DEF Promise!Next
<1>6. CASE v \in {"err", "nospace"}
    <2>1. Promise!GiveUp(ws, v)
        BY <1>3 DEF Promise!GiveUp
    <2> QED BY <1>4, <1>6, <2>1 DEF Promise!Next
<1> QED BY <1>5, <1>6

\* Every step is a step of RangeFetch or none that the item sees.
LEMMA FetchSeen ==
    ASSUME LockInv, ListInv, ErrorIsKnown, CallerIsUntold, WrittenIsOfSource, [Next]_vars
    PROVE  Unseen \/ Promise!Next
<1> USE DownloadersAssumption
<1>1. /\ TypeOK /\ caller \in [Callers -> CallerStates] /\ dl \in [Dl -> DlStates]
      /\ closer \in CloserStates /\ waiters \subseteq Callers
    BY DEF LockInv, TypeOK, ListInv
<1>2. ASSUME UNCHANGED <<rs, caller, closer>> PROVE Unseen
    BY <1>2 DEF Unseen, Calls, Stage
<1>3. ASSUME NEW c \in Callers, Begin(c) PROVE Promise!Next
    <2>1. PICK r \in Requests :
              caller' = [caller EXCEPT ![c] = [pc |-> "locking", r |-> r, wait |-> ~HasRange(r),
                                               res |-> "none"]]
        BY <1>3 DEF Begin
    <2>2. Calls' = [Calls EXCEPT ![c] = [asked |-> TRUE, r |-> r, waits |-> ~HasRange(r),
                                         res |-> "none"]]
        BY <1>1, <2>1 DEF Calls
    <2>3. HasRange(r) <=> Promise!Bytes(r) \subseteq rs
        BY ThereIsHasRange DEF HasRange
    <2>4. ~Calls[c].asked /\ Stage = "open" /\ UNCHANGED <<rs, Stage>>
        BY <1>3 DEF Begin, Calls, Stage
    <2>5. Promise!Ask(c)
        BY <2>2, <2>3, <2>4 DEF Promise!Ask
    <2> QED BY <2>5 DEF Promise!Next
<1>4. ASSUME NEW c \in Callers, Lock(c) PROVE Unseen
    <2>1. /\ caller' = [caller EXCEPT ![c].pc = "ensure"] /\ caller[c].pc # "idle"
          /\ UNCHANGED <<rs, closer>>
        BY <1>4 DEF Lock
    <2>2. /\ caller'[c].pc # "idle" /\ caller'[c].r = caller[c].r
          /\ caller'[c].wait = caller[c].wait /\ caller'[c].res = caller[c].res
        BY <1>1, <2>1 DEF CallerStates
    <2>3. \A x \in Callers : x # c => caller'[x] = caller[x]
        BY <1>1, <2>1
    <2>4. Calls' = Calls
        BY <2>1, <2>2, <2>3 DEF Calls
    <2> QED BY <2>1, <2>4 DEF Unseen, Stage
<1>5. CASE Reuse \/ NothingToStart \/ NewDownloader \/ NewFails
    <2>1. rs' = rs /\ \E err \in {"ok", "err"} : EnsureReturns(err)
        BY <1>5 DEF Reuse, NothingToStart, NewDownloader, NewFails
    <2>2. closer'.pc = closer.pc
        <3>1. closer' = Compacted \/ \E d \in Dl : closer' \in Appended(d)
            BY <1>5, FreshIsFree DEF Reuse, NothingToStart, NewDownloader, NewFails, Free
        <3> QED BY <3>1, CompactedType
    <2>3. Stage' = Stage
        BY <2>2 DEF Stage
    <2> QED BY <2>1, <2>3, EnsureReturnsSeen
<1>6. CASE KickEnd
    <2>1. UNCHANGED <<rs, Stage>> /\ closer' = closer
        BY <1>6 DEF KickEnd, Stage
    <2>2. CASE lastErr = "nospace" \/ errorCount > MaxErrors
        <3>1. lastErr \in {"err", "nospace"}
            BY <2>2 DEF LockInv, TypeOK, ErrorIsKnown
        <3>2. Answer(waiters, lastErr)
            BY <1>6, <2>2 DEF KickEnd
        <3> QED BY <2>1, <3>1, <3>2, AnswerSeen
    <2>3. CASE ~(lastErr = "nospace" \/ errorCount > MaxErrors)
        BY <1>2, <1>6, <2>1, <2>3 DEF KickEnd
    <2> QED BY <2>2, <2>3
<1>7. ASSUME NEW t, KickBegin(t) PROVE Promise!Next
    <2>1. UNCHANGED <<rs, Stage>> /\ Answer(Served, "ok") /\ Served \subseteq waiters
        BY <1>7 DEF KickBegin, Stage, Served
    <2> QED BY <2>1, AnswerSeen
<1>8. ASSUME NEW d \in Dl,
             \/ ReadBlock(d) \/ ReadEOF(d) \/ ReadFails(d) \/ WriteFails(d) \/ CloseDl(d) \/ Count(d)
      PROVE  Unseen
    <2>1. UNCHANGED <<rs, caller, closer>>
        BY <1>8 DEF ReadBlock, ReadEOF, ReadFails, WriteFails, CloseDl, Count, DlOnly
    <2> QED BY <1>2, <2>1
<1>9. ASSUME NEW d \in Dl, Write(d) PROVE Promise!Next
    <2>1. dl[d].offset \in 0 .. SrcSize - 1
        <3>1. dl[d].pc = "write" /\ dl[d].offset \in Nat
            BY <1>1, <1>9 DEF Write, DlStates
        <3>2. dl[d].offset < SrcSize
            BY <3>1 DEF WrittenIsOfSource
        <3> QED BY <3>1, <3>2
    <2>2. rs' = rs \cup {dl[d].offset} /\ UNCHANGED <<Calls, Stage>>
        BY <1>9 DEF Write, Calls, Stage
    <2>3. Promise!Store(dl[d].offset)
        BY <2>2 DEF Promise!Store
    <2> QED BY <2>1, <2>3 DEF Promise!Next
<1>10. CASE EnsureFind \/ KickerExits \/ UNCHANGED vars
    <2>1. UNCHANGED <<rs, caller, closer>>
        BY <1>10 DEF EnsureFind, KickerExits, vars
    <2> QED BY <1>2, <2>1
<1>11. CASE CloseBegin
    <2>1. closer.pc = "idle" /\ closer'.pc \in {"stop", "kicker"} /\ UNCHANGED <<rs, caller>>
        BY <1>11 DEF CloseBegin, CloseIterate, NotClosing
    <2>2. Promise!CloseBegins
        BY <2>1 DEF Promise!CloseBegins, Stage, Calls
    <2> QED BY <2>2 DEF Promise!Next
<1>12. CASE CloseStop \/ CloseNext
    <2>1. UNCHANGED <<rs, caller>> /\ closer.pc \in {"stop", "wait"}
        BY <1>12 DEF CloseStop, CloseNext
    <2>2. closer'.pc \in {"stop", "wait", "kicker"}
        <3>1. CASE CloseStop
            BY <1>1, <3>1 DEF CloseStop, CloserStates
        <3>2. CASE CloseNext
            BY <3>2 DEF CloseNext, CloseIterate, NotClosing
        <3> QED BY <1>12, <3>1, <3>2
    <2> QED BY <2>1, <2>2 DEF Unseen, Calls, Stage
<1>13. CASE CloseEnd
    <2> DEFINE f == [c \in waiters |-> IF c \in Served THEN "ok" ELSE CloseErr]
    <2>1. Told(waiters, f)
        BY <1>1, <1>13, CloseEndTells
    <2>2. Promise!Tell(waiters, f)
        <3> HIDE DEF f
        <3> QED BY <1>1, <2>1, ToldIsTell
    <2>3. f = [c \in waiters |-> IF Promise!There(Calls[c].r) THEN "ok" ELSE CloseErr]
        <3>1. \A c \in waiters : c \in Served <=> Promise!There(Calls[c].r)
            BY <1>1, ThereIsHasRange DEF Served, Calls
        <3> QED BY <3>1
    <2>4. Stage = "closing" /\ Stage' = "closed" /\ rs' = rs
        BY <1>13 DEF CloseEnd, NotClosing, Stage
    <2>5. Promise!CloseEnds(waiters)
        <3> HIDE DEF f
        <3> QED BY <2>2, <2>3, <2>4 DEF Promise!CloseEnds
    <2>6. waiters \in SUBSET Promise!Waiting
        BY QueuedWaits
    <2> QED BY <2>5, <2>6 DEF Promise!Next
<1> QED
    BY <1>3, <1>4, <1>5, <1>6, <1>7, <1>8, <1>9, <1>10, <1>11, <1>12, <1>13
    DEF Next, Holder, Goroutine, Close

\* Whatever the downloaders do is what RangeFetch allows: a reader is answered once, with
\* success only if its range is in the file, before Close never with a nil error for
\* a range that is not, and by Close with success if it is (downloaders.go:218-276,
\* 379-438).
THEOREM FetchRefined == Spec => FetchesRanges
<1> DEFINE Inv == /\ LockInv /\ ListInv /\ ErrorIsKnown
                  /\ CallerIsUntold /\ WrittenIsOfSource
<1>1. Init => Inv
    <2> SUFFICES ASSUME Init PROVE Inv
        OBVIOUS
    <2>1. LockInv
        BY InitType, DownloadersAssumption DEF Init, LockInv, HolderIsInside, BlockedIsQueued
    <2>2. ListInv
        BY DEF Init, ListInv, CloserStates, NotClosing, Idle
    <2>3. ErrorIsKnown /\ CallerIsUntold /\ WrittenIsOfSource
        BY DEF Init, ErrorIsKnown, CallerIsUntold, WrittenIsOfSource, Idle
    <2> QED BY <2>1, <2>2, <2>3
<1>2. Inv /\ [Next]_vars => Inv'
    <2>1. LockInv /\ [Next]_vars => LockInv' /\ TypeOK
        BY TypeStep, LockStep DEF LockInv
    <2> QED BY <2>1, ListStep, KnownStep, UntoldStep, OfSourceStep
<1>3. Init => Promise!Init
    <2> SUFFICES ASSUME Init PROVE Promise!Init
        OBVIOUS
    <2>1. Calls = [c \in Callers |-> [asked |-> FALSE, r |-> EmptyRange, waits |-> FALSE,
                                      res |-> "none"]]
        BY DEF Init, Calls
    <2>2. Stage = "open"
        BY DEF Init, Stage, NotClosing
    <2> QED BY <2>1, <2>2, ThereIsHasRange DEF Init, Promise!Init
<1>4. Inv /\ [Next]_vars => [Promise!Next]_<<rs, Calls, Stage>>
    BY FetchSeen DEF Unseen
<1> HIDE DEF Inv
<1> QED BY <1>1, <1>2, <1>3, <1>4, PTL DEF Spec, FetchesRanges, Promise!Spec
===============================================================================
