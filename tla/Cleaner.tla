-------------------------------- MODULE Cleaner --------------------------------
(***************************************************************************)
(* internal/cache/cache.go: the goroutine that keeps the cache within its  *)
(* quotas, and the threads that wait for it in KickCleaner when the disk   *)
(* is full.                                                                *)
(*                                                                         *)
(* An item is here what the cleaner sees of it: in the map or not, in use  *)
(* or not, how much it holds.  What a removal or a reset does inside an    *)
(* item, and to its readers, is module CacheItem.  kickerMu and mu are the *)
(* two mutexes; a method that holds mu over its loop is one step per item, *)
(* because items grow and are released meanwhile.                          *)
(***************************************************************************)
EXTENDS Integers, FiniteSets, Functions

CONSTANTS
    Threads,            \* threads that run out of space
    Names,              \* names of the cache
    Nobody, Clean, Io,  \* holders of mu: none, the cleaner, a user of the map
    CacheMaxSize,       \* opt.CacheMaxSize, 0 if there is none
    CacheMinFreeSpace,  \* whether opt.CacheMinFreeSpace is set
    CachePollInterval,  \* whether opt.CachePollInterval is set
    RootAtStart,        \* whether New leaves the root directory in place
    MaxSize,            \* bound on the size of an item
    MaxKicks,           \* bound: how often threads run out of space
    MaxFlips            \* bound: how often others fill or free the disk

NoName == "none"

ASSUME CleanerAssumption ==
    /\ Nobody \notin Threads \cup {Clean, Io} /\ Clean \notin Threads \cup {Io} /\ Io \notin Threads
    /\ CacheMaxSize \in Nat /\ MaxSize \in Nat /\ MaxKicks \in Nat /\ MaxFlips \in Nat
    /\ NoName \notin Names
    /\ {CacheMinFreeSpace, CachePollInterval, RootAtStart} \subseteq BOOLEAN

VARIABLES
    pc, kicks,          \* per thread: where it is in KickCleaner; how many calls
    kickerMu, mu,       \* Cache.kickerMu, Cache.mu
    cleanerKicked, outOfSpace,
    kick,               \* tokens in the channel, of capacity 1
    cleaner,            \* the goroutine: place, argument of clean, items left to visit
    item, size,         \* per name: what there is in the map, the size of Rs
    used,               \* Cache.used
    errItems,
    opening,            \* name being put into the map under mu
    free, flips,        \* is there as much free space on the disk as there should be
    root                \* the root directory exists

vars == <<pc, kicks, kickerMu, mu, cleanerKicked, outOfSpace, kick, cleaner, item, size,
          used, errItems, opening, free, flips, root>>
io == <<pc, kicks, kickerMu, cleanerKicked, outOfSpace, kick>>
items == <<item, size, errItems, used>>
env == <<opening, free, flips, root>>

Init ==
    /\ pc = [t \in Threads |-> "run"] /\ kicks = 0
    /\ kickerMu = Nobody /\ mu = Nobody
    /\ cleanerKicked = FALSE /\ outOfSpace = FALSE /\ kick = 0
    \* the cleaner begins to clean at once, if it runs at all
    /\ cleaner = [pc |-> IF CachePollInterval THEN "stat" ELSE "idle", kicked |-> FALSE, todo |-> {}]
    /\ item = [n \in Names |-> "absent"] /\ size = [n \in Names |-> 0]
    /\ used = 0 /\ errItems = {} /\ opening = NoName
    /\ free = TRUE /\ flips = 0 /\ root = RootAtStart

InMap == {n \in Names : item[n] # "absent"}
Total == FoldFunctionOnSet(+, 0, size, InMap)

\* Variant: one quota that is met is enough
QuotasEitherOK == (CacheMaxSize > 0 => used <= CacheMaxSize) \/ (CacheMinFreeSpace => free)

QuotasOK == (CacheMaxSize > 0 => used <= CacheMaxSize) /\ (CacheMinFreeSpace => free)
HaveQuotas == CacheMaxSize > 0 \/ CacheMinFreeSpace

-------------------------------------------------------------------------------
(* KickCleaner *)

RunsOut(t) ==
    /\ pc[t] = "run" /\ kicks < MaxKicks
    /\ pc' = [pc EXCEPT ![t] = "out"] /\ kicks' = kicks + 1
    /\ UNCHANGED <<kickerMu, mu, cleanerKicked, outOfSpace, kick, cleaner, items, env>>

\* Under kickerMu: the first one is going to kick, keeping kickerMu
LockKicker(t) ==
    /\ pc[t] = "out" /\ kickerMu = Nobody
    /\ IF cleanerKicked
       THEN pc' = [pc EXCEPT ![t] = "wait"] /\ UNCHANGED <<kickerMu, cleanerKicked>>
       ELSE /\ pc' = [pc EXCEPT ![t] = "kick"]
            /\ kickerMu' = t /\ cleanerKicked' = TRUE
    /\ UNCHANGED <<kicks, mu, outOfSpace, kick, cleaner, items, env>>

LockCache(t) ==
    /\ pc[t] = "kick" /\ mu = Nobody
    /\ mu' = t /\ outOfSpace' = TRUE
    /\ pc' = [pc EXCEPT ![t] = "send"]
    /\ UNCHANGED <<kicks, kickerMu, cleanerKicked, kick, cleaner, items, env>>

Send(t) ==
    /\ pc[t] = "send" /\ kick = 0
    /\ kick' = 1 /\ mu' = Nobody /\ kickerMu' = Nobody
    /\ pc' = [pc EXCEPT ![t] = "wait"]
    /\ UNCHANGED <<kicks, cleanerKicked, outOfSpace, cleaner, items, env>>

\* cond.Wait gives up mu and takes it again after a broadcast
Wait(t) ==
    /\ pc[t] = "wait" /\ mu = Nobody
    /\ pc' = [pc EXCEPT ![t] = IF outOfSpace THEN "asleep" ELSE "run"]
    /\ UNCHANGED <<kicks, kickerMu, mu, cleanerKicked, outOfSpace, kick, cleaner, items, env>>

KickCleaner(t) == LockKicker(t) \/ LockCache(t) \/ Send(t) \/ Wait(t)

-------------------------------------------------------------------------------
(* Users of the cache, and of the disk *)

\* createItemDir makes the directory, the map gets the item
Open(n) ==
    /\ mu = Nobody /\ item[n] \in {"absent", "idle"}
    /\ mu' = Io /\ opening' = n /\ root' = TRUE
    /\ UNCHANGED <<io, cleaner, items, free, flips>>

Opened ==
    /\ mu = Io
    /\ mu' = Nobody /\ opening' = NoName
    /\ item' = [item EXCEPT ![opening] = "open"]
    /\ UNCHANGED <<io, cleaner, size, used, errItems, free, flips, root>>

\* pendingAccesses becomes positive, or zero again; the last user closes the item
Use(n) ==
    /\ \E s \in {<<"open", "busy">>, <<"busy", "open">>, <<"open", "idle">>} :
          item[n] = s[1] /\ item' = [item EXCEPT ![n] = s[2]]
    /\ UNCHANGED <<io, mu, cleaner, size, used, errItems, env>>

\* Downloaders go on between accesses
Grow(n) ==
    /\ item[n] \in {"open", "busy"} /\ size[n] < MaxSize
    /\ size' = [size EXCEPT ![n] = @ + 1]
    /\ UNCHANGED <<io, mu, cleaner, item, used, errItems, env>>

\* Cache.Remove
Remove(n) ==
    /\ mu = Nobody /\ item[n] # "absent"
    /\ item' = [item EXCEPT ![n] = "absent"] /\ size' = [size EXCEPT ![n] = 0]
    /\ UNCHANGED <<io, mu, cleaner, used, errItems, env>>

\* Other programs use the disk
Flip ==
    /\ CacheMinFreeSpace /\ flips < MaxFlips
    /\ free' = ~free /\ flips' = flips + 1
    /\ UNCHANGED <<io, mu, cleaner, items, opening, root>>

-------------------------------------------------------------------------------
(* clean *)

Goto(p, todo) == cleaner' = [cleaner EXCEPT !.pc = p, !.todo = todo]

\* Variant: the flag is cleared, and nobody is told
AnnounceToNobody(yes) ==
    /\ outOfSpace' = (outOfSpace /\ ~yes)
    /\ UNCHANGED <<pc, kicks, kickerMu, cleanerKicked, kick>>

\* Threads that wait are told to look again
Announce(yes) ==
    /\ outOfSpace' = (outOfSpace /\ ~yes)
    /\ pc' = [t \in Threads |-> IF yes /\ pc[t] = "asleep" THEN "wait" ELSE pc[t]]
    /\ UNCHANGED <<kicks, kickerMu, cleanerKicked, kick>>

\* The item holds nothing any more, and becomes what it is now
Emptied(n, what) ==
    /\ item' = [item EXCEPT ![n] = what] /\ size' = [size EXCEPT ![n] = 0]

Kicked ==
    /\ CachePollInterval /\ cleaner.pc = "idle" /\ kick = 1
    /\ kick' = 0 /\ cleaner' = [pc |-> "stat", kicked |-> TRUE, todo |-> {}]
    /\ UNCHANGED <<pc, kicks, kickerMu, mu, cleanerKicked, outOfSpace, items, env>>

Tick ==
    /\ CachePollInterval /\ cleaner.pc = "idle"
    /\ cleaner' = [pc |-> "stat", kicked |-> FALSE, todo |-> {}]
    /\ UNCHANGED <<io, mu, items, env>>

\* "Cache may be empty so end"; updateUsed
Stat ==
    /\ cleaner.pc = "stat"
    /\ IF root THEN mu = Nobody /\ used' = Total /\ Goto("old", {})
       ELSE UNCHANGED used /\ Goto("idle", {})
    /\ UNCHANGED <<io, mu, item, size, errItems, env>>

\* Variant: purgeOld without the lock
OldBeginUnlocked ==
    /\ cleaner.pc = "old"
    /\ mu' = Clean /\ Goto("purgeOld", InMap)
    /\ UNCHANGED <<io, items, env>>

\* purgeOld, for each item
OldBegin ==
    /\ cleaner.pc = "old" /\ mu = Nobody
    /\ mu' = Clean /\ Goto("purgeOld", InMap)
    /\ UNCHANGED <<io, items, env>>

OldItem(n) ==
    /\ cleaner.pc = "purgeOld" /\ n \in cleaner.todo
    /\ Goto("purgeOld", cleaner.todo \ {n})
    /\ \/ UNCHANGED <<item, size, used>>                          \* not so old
       \/ item[n] = "idle" /\ Emptied(n, "absent") /\ used' = used - size[n]
    /\ UNCHANGED <<io, mu, errItems, env>>

OldEnd ==
    /\ cleaner.pc = "purgeOld" /\ cleaner.todo = {}
    /\ mu' = Nobody /\ Announce(QuotasOK)
    /\ Goto(IF HaveQuotas THEN "used" ELSE "done", {})
    /\ UNCHANGED <<items, env>>

\* purgeOverQuota: updateUsed, then the items that are not in use
QuotaUsed ==
    /\ cleaner.pc = "used" /\ mu = Nobody
    /\ used' = Total /\ Goto("over", {})
    /\ UNCHANGED <<io, mu, item, size, errItems, env>>

OverBegin ==
    /\ cleaner.pc = "over" /\ mu = Nobody
    /\ IF QuotasOK THEN Goto("clean", {}) /\ UNCHANGED mu
       ELSE mu' = Clean /\ Goto("purgeOverQuota", {n \in Names : item[n] = "idle"})
    /\ UNCHANGED <<io, items, env>>

\* Once the quotas are met only empty files go
OverItem(n) ==
    /\ cleaner.pc = "purgeOverQuota" /\ n \in cleaner.todo
    /\ Goto("purgeOverQuota", cleaner.todo \ {n})
    /\ IF item[n] = "idle" /\ (QuotasOK => size[n] = 0)
       THEN Emptied(n, "absent") /\ used' = used - size[n]
       ELSE UNCHANGED <<item, size, used>>
    /\ UNCHANGED <<io, mu, errItems, env>>

OverEnd ==
    /\ cleaner.pc = "purgeOverQuota" /\ cleaner.todo = {}
    /\ mu' = Nobody /\ Announce(QuotasOK) /\ Goto("clean", {})
    /\ UNCHANGED <<items, env>>

\* purgeClean: Reset what there is until the quotas are met
CleanBegin ==
    /\ cleaner.pc = "clean" /\ mu = Nobody
    /\ IF QuotasOK THEN Goto("retry", {}) /\ UNCHANGED mu
       ELSE mu' = Clean /\ Goto("purgeClean", InMap)
    /\ UNCHANGED <<io, items, env>>

\* Item.Reset: an item in use is emptied, or stays in reset for want of space
ResetsTo(n) ==
    CASE item[n] = "idle" -> {"absent"}
      [] item[n] = "reset" \/ (item[n] = "open" /\ size[n] > 0) -> {"open", "reset"}
      [] OTHER -> {}

CleanItem(n) ==
    /\ cleaner.pc = "purgeClean" /\ n \in cleaner.todo /\ ~QuotasOK
    /\ Goto("purgeClean", cleaner.todo \ {n})
    /\ \/ ResetsTo(n) = {} /\ UNCHANGED items
       \/ \E s \in ResetsTo(n) :
             /\ Emptied(n, s) /\ used' = used - size[n]
             /\ errItems' = IF s = "reset" THEN errItems \cup {n} ELSE errItems
    /\ UNCHANGED <<io, mu, env>>

\* Variant: the threads are told only once the quotas are met
CleanEndIfOK ==
    /\ cleaner.pc = "purgeClean" /\ (cleaner.todo = {} \/ QuotasOK)
    /\ mu' = Nobody /\ Announce(QuotasOK) /\ Goto("retry", {})
    /\ UNCHANGED <<items, env>>

CleanEnd ==
    /\ cleaner.pc = "purgeClean" /\ (cleaner.todo = {} \/ QuotasOK)
    /\ mu' = Nobody /\ Announce(TRUE) /\ Goto("retry", {})
    /\ UNCHANGED <<items, env>>

\* retryFailedResets, without mu: each name that failed, whatever is there now
RetryBegin ==
    /\ cleaner.pc = "retry" /\ Goto("retryFailedResets", errItems)
    /\ UNCHANGED <<io, mu, items, env>>

\* Variant: one retry is all there is
RetryItemOnce(n) ==
    /\ cleaner.pc = "retryFailedResets" /\ n \in cleaner.todo
    /\ Goto("retryFailedResets", cleaner.todo \ {n})
    /\ errItems' = errItems \ {n}
    /\ \/ ResetsTo(n) = {} /\ UNCHANGED <<item, size>>
       \/ \E s \in ResetsTo(n) : Emptied(n, IF s = "absent" THEN "idle" ELSE s)
    /\ UNCHANGED <<io, mu, used, env>>

\* It leaves the map alone, so that an item it removes stays there, empty
RetryItem(n) ==
    /\ cleaner.pc = "retryFailedResets" /\ n \in cleaner.todo
    /\ Goto("retryFailedResets", cleaner.todo \ {n})
    /\ \/ ResetsTo(n) = {} /\ errItems' = errItems \ {n} /\ UNCHANGED <<item, size>>
       \/ \E s \in ResetsTo(n) :
             /\ Emptied(n, IF s = "absent" THEN "idle" ELSE s)
             /\ errItems' = IF s = "reset" THEN errItems ELSE errItems \ {n}
    /\ UNCHANGED <<io, mu, used, env>>

RetryEnd ==
    /\ cleaner.pc = "retryFailedResets" /\ cleaner.todo = {} /\ Goto("done", {})
    /\ UNCHANGED <<io, mu, items, env>>

\* Variant: every round lets threads kick again, one begun by the timer too
DoneUnasked ==
    /\ cleaner.pc = "done" /\ kickerMu = Nobody
    /\ cleanerKicked' = FALSE /\ Goto("idle", {})
    /\ UNCHANGED <<pc, kicks, kickerMu, mu, outOfSpace, kick, items, env>>

\* "Re-enable io threads to kick me"
Done ==
    /\ cleaner.pc = "done"
    /\ IF cleaner.kicked THEN kickerMu = Nobody /\ cleanerKicked' = FALSE
                         ELSE UNCHANGED cleanerKicked
    /\ Goto("idle", {})
    /\ UNCHANGED <<pc, kicks, kickerMu, mu, outOfSpace, kick, items, env>>

Round ==
    \/ Stat \/ OldBegin \/ OldEnd \/ QuotaUsed \/ OverBegin \/ OverEnd \/ CleanBegin \/ CleanEnd
    \/ RetryBegin \/ RetryEnd \/ Done
    \/ \E n \in Names : OldItem(n) \/ OverItem(n) \/ CleanItem(n) \/ RetryItem(n)

-------------------------------------------------------------------------------
Next ==
    \/ \E t \in Threads : RunsOut(t) \/ KickCleaner(t)
    \/ \E n \in Names : Open(n) \/ Use(n) \/ Grow(n) \/ Remove(n)
    \/ Opened \/ Flip
    \/ Kicked \/ Tick \/ Round

Spec == Init /\ [][Next]_vars

\* Mutexes are handed to those that queue for them; the timer ticks and the cleaner
\* goes on.  Nothing says when items are used, or by whom the disk is filled.
Fairness ==
    /\ \A t \in Threads : SF_vars(KickCleaner(t))
    /\ WF_vars(Opened) /\ SF_vars(Round) /\ WF_vars(Kicked \/ Tick)

FairSpec == Spec /\ Fairness

-------------------------------------------------------------------------------
Loops == {"purgeOld", "purgeOverQuota", "purgeClean"}
Places == Loops \cup {"idle", "stat", "old", "used", "over", "clean", "retry", "retryFailedResets", "done"}

\* Every variable has its type, and whoever holds a mutex is where the code holds it:
\* between Lock and Unlock of KickCleaner, of a loop of the cleaner, of an open.
TypeOK ==
    /\ pc \in [Threads -> {"run", "out", "kick", "send", "wait", "asleep"}] /\ kicks \in 0 .. MaxKicks
    /\ kickerMu \in Threads \cup {Nobody} /\ mu \in Threads \cup {Nobody, Clean, Io}
    /\ cleanerKicked \in BOOLEAN /\ outOfSpace \in BOOLEAN /\ kick \in {0, 1}
    /\ cleaner \in [pc : Places, kicked : BOOLEAN, todo : SUBSET Names]
    /\ \A t \in Threads : (kickerMu = t <=> pc[t] \in {"kick", "send"}) /\ (mu = t <=> pc[t] = "send")
    /\ (mu = Clean <=> cleaner.pc \in Loops) /\ (mu = Io <=> opening # NoName)
    /\ opening \in Names \cup {NoName}
    /\ item \in [Names -> {"absent", "idle", "open", "busy", "reset"}]
    /\ size \in [Names -> 0 .. MaxSize] /\ errItems \subseteq Names

\* The send on c.kick, under both mutexes, finds room: the channel is empty whenever
\* a thread has found cleanerKicked unset (KickCleaner).
KickFindsRoom == \A t \in Threads : pc[t] = "send" => kick = 0

\* A thread sleeps only while it has something to wait for: no wakeup is lost.
SleepersHaveReason == (\E t \in Threads : pc[t] = "asleep") => outOfSpace

\* An item left in reset is remembered, to be reset again (errItems).
ResetIsRemembered == \A n \in Names : item[n] = "reset" => n \in errItems

\* The map is read and written under mu only: "protects the following variables".
\* Does not hold: README.md, section 4.
MapIsLocked == mu = Io => cleaner.pc # "retryFailedResets" \/ cleaner.todo = {}

\* KickCleaner returns, for every thread that runs out of space; unless for ever
\* PURGE requests come between the steps of purgeOld, purgeOverQuota and purgeClean,
\* so that each finds the quotas met where the one before did not.
KickReturns ==
    \/ []<><<\E n \in Names : Remove(n)>>_vars
    \/ \A t \in Threads : (pc[t] # "run") ~> (pc[t] = "run")

\* Again and again the cache is below CacheMaxSize, or something in it is in use.
MeetsQuota == []<>(Total <= CacheMaxSize \/ \E n \in InMap : item[n] # "idle")
===============================================================================
