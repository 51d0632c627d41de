----------------------------- MODULE CleanerProofs -----------------------------
(***************************************************************************)
(* Proofs about Cleaner, for any number of threads and names, any quotas   *)
(* and any bounds, whether or not the cleaner runs and the root is there.  *)
(***************************************************************************)
EXTENDS Cleaner, TLAPS

\* What the threads in KickCleaner and the cleaner do with the channel depends on pc,
\* the mutexes and the fields of the cleaner alone.
LEMMA ItemsUntouched ==
    ASSUME TypeOK,
           \/ \E n \in Names : Open(n) \/ Use(n) \/ Grow(n) \/ Remove(n)
           \/ Opened \/ Flip
    PROVE  UNCHANGED <<io, cleaner>> /\ TypeOK'
<1>1. ASSUME NEW n \in Names, Open(n) PROVE UNCHANGED <<io, cleaner>> /\ TypeOK'
    BY <1>1, CleanerAssumption DEF Open, TypeOK, io, items, env, Places, Loops
<1>2. ASSUME NEW n \in Names, Use(n) PROVE UNCHANGED <<io, cleaner>> /\ TypeOK'
    <2>1. item' \in [Names -> {"absent", "idle", "open", "busy", "reset"}]
        BY <1>2 DEF Use, TypeOK
    <2> QED BY <1>2, <2>1 DEF Use, TypeOK, io, items, env, Places, Loops
<1>3. ASSUME NEW n \in Names, Grow(n) PROVE UNCHANGED <<io, cleaner>> /\ TypeOK'
    <2>1. size[n] + 1 \in 0 .. MaxSize
        BY <1>3, CleanerAssumption DEF Grow, TypeOK
    <2>2. size' \in [Names -> 0 .. MaxSize]
        BY <1>3, <2>1 DEF Grow, TypeOK
    <2> QED BY <1>3, <2>2 DEF Grow, TypeOK, io, items, env, Places, Loops
<1>4. ASSUME NEW n \in Names, Remove(n) PROVE UNCHANGED <<io, cleaner>> /\ TypeOK'
    <2>1. size' \in [Names -> 0 .. MaxSize] /\ item' \in [Names -> {"absent", "idle", "open", "busy", "reset"}]
        BY <1>4, CleanerAssumption DEF Remove, TypeOK
    <2> QED BY <1>4, <2>1 DEF Remove, TypeOK, io, items, env, Places, Loops
<1>5. ASSUME Opened PROVE UNCHANGED <<io, cleaner>> /\ TypeOK'
    <2>1. item' \in [Names -> {"absent", "idle", "open", "busy", "reset"}]
        BY <1>5 DEF Opened, TypeOK
    <2> QED BY <1>5, <2>1, CleanerAssumption DEF Opened, TypeOK, io, items, env, Places, Loops
<1>6. ASSUME Flip PROVE UNCHANGED <<io, cleaner>> /\ TypeOK'
    BY <1>6 DEF Flip, TypeOK, io, items, env, Places, Loops
<1> QED BY <1>1, <1>2, <1>3, <1>4, <1>5, <1>6

-------------------------------------------------------------------------------
(* Types and mutual exclusion *)

\* Emptying an item keeps map and sizes well typed.
LEMMA EmptiedType ==
    ASSUME TypeOK, NEW n \in Names, NEW s \in {"absent", "idle", "open", "busy", "reset"}, Emptied(n, s)
    PROVE  /\ item' \in [Names -> {"absent", "idle", "open", "busy", "reset"}]
           /\ size' \in [Names -> 0 .. MaxSize]
BY CleanerAssumption DEF TypeOK, Emptied

\* A broadcast moves threads from asleep to wait only: nobody gets or loses a mutex.
LEMMA AnnounceType ==
    ASSUME TypeOK, NEW yes \in BOOLEAN, Announce(yes)
    PROVE  /\ pc' \in [Threads -> {"run", "out", "kick", "send", "wait", "asleep"}]
           /\ outOfSpace' \in BOOLEAN /\ UNCHANGED <<kicks, kickerMu, cleanerKicked, kick>>
           /\ \A t \in Threads : /\ pc'[t] = "kick" <=> pc[t] = "kick"
                                 /\ pc'[t] = "send" <=> pc[t] = "send"
<1>1. pc' = [t \in Threads |-> IF yes /\ pc[t] = "asleep" THEN "wait" ELSE pc[t]]
    BY DEF Announce
<1>2. pc' \in [Threads -> {"run", "out", "kick", "send", "wait", "asleep"}]
    BY <1>1 DEF TypeOK
<1>3. \A t \in Threads : /\ pc'[t] = "kick" <=> pc[t] = "kick"
                         /\ pc'[t] = "send" <=> pc[t] = "send"
    BY <1>1
<1> QED BY <1>2, <1>3 DEF Announce, TypeOK

\* QuotasOK is a truth value.
LEMMA QuotasBoolean == QuotasOK \in BOOLEAN
BY DEF QuotasOK

\* What Goto does to the cleaner.
LEMMA GotoType ==
    ASSUME TypeOK, NEW p \in Places, NEW todo \in SUBSET Names, Goto(p, todo)
    PROVE  /\ cleaner' \in [pc : Places, kicked : BOOLEAN, todo : SUBSET Names]
           /\ cleaner'.pc = p /\ cleaner'.kicked = cleaner.kicked /\ cleaner'.todo = todo
BY DEF TypeOK, Goto

\* KickCleaner
LEMMA ThreadType ==
    ASSUME TypeOK, NEW t \in Threads, RunsOut(t) \/ KickCleaner(t)
    PROVE  TypeOK'
<1>1. CASE RunsOut(t)
    <2>1. kicks' \in 0 .. MaxKicks
        BY <1>1, CleanerAssumption DEF RunsOut, TypeOK
    <2>2. pc' \in [Threads -> {"run", "out", "kick", "send", "wait", "asleep"}]
        BY <1>1 DEF RunsOut, TypeOK
    <2> QED BY <1>1, <2>1, <2>2 DEF RunsOut, TypeOK, items, env, Places, Loops
<1>2. CASE LockKicker(t)
    <2>1. CASE cleanerKicked
        BY <1>2, <2>1, CleanerAssumption DEF LockKicker, TypeOK, items, env
    <2>2. CASE ~cleanerKicked
        BY <1>2, <2>2, CleanerAssumption DEF LockKicker, TypeOK, items, env
    <2> QED BY <2>1, <2>2
<1>3. CASE LockCache(t)
    BY <1>3, CleanerAssumption DEF LockCache, TypeOK, items, env, Places, Loops
<1>4. CASE Send(t)
    BY <1>4, CleanerAssumption DEF Send, TypeOK, items, env, Places, Loops
<1>5. CASE Wait(t)
    BY <1>5, CleanerAssumption DEF Wait, TypeOK, items, env, Places, Loops
<1> QED BY <1>1, <1>2, <1>3, <1>4, <1>5 DEF KickCleaner

\* A round of the cleaner
LEMMA RoundType ==
    ASSUME TypeOK, Round
    PROVE  TypeOK'
<1>1. CASE Stat
    <2>1. CASE root
        <3>1. Goto("old", {})
            BY <1>1, <2>1 DEF Stat
        <3> QED BY <1>1, <2>1, <3>1, GotoType DEF Stat, TypeOK, io, env, Places, Loops
    <2>2. CASE ~root
        <3>1. Goto("idle", {})
            BY <1>1, <2>2 DEF Stat
        <3> QED BY <1>1, <2>2, <3>1, GotoType DEF Stat, TypeOK, io, env, Places, Loops
    <2> QED BY <2>1, <2>2
<1>2. CASE OldBegin
    BY <1>2, GotoType, CleanerAssumption DEF OldBegin, TypeOK, io, items, env, Places, Loops, InMap
<1>3. CASE OldEnd
    <2>1. PICK p \in {"used", "done"} : Goto(p, {})
        BY <1>3 DEF OldEnd
    <2>2. cleaner'.pc \notin Loops /\ cleaner' \in [pc : Places, kicked : BOOLEAN, todo : SUBSET Names]
        BY <2>1, GotoType DEF Places, Loops
    <2> QED BY <1>3, <2>2, AnnounceType, QuotasBoolean, CleanerAssumption DEF OldEnd, TypeOK, items, env, Loops
<1>4. CASE QuotaUsed
    BY <1>4, GotoType DEF QuotaUsed, TypeOK, io, env, Places, Loops
<1>5. CASE OverBegin
    <2>1. CASE QuotasOK
        <3>1. Goto("clean", {}) /\ mu' = mu
            BY <1>5, <2>1 DEF OverBegin
        <3> QED BY <1>5, <3>1, GotoType DEF OverBegin, TypeOK, io, items, env, Places, Loops
    <2>2. CASE ~QuotasOK
        <3>1. Goto("purgeOverQuota", {n \in Names : item[n] = "idle"}) /\ mu' = Clean
            BY <1>5, <2>2 DEF OverBegin
        <3> QED BY <1>5, <3>1, GotoType, CleanerAssumption DEF OverBegin, TypeOK, io, items, env, Places, Loops
    <2> QED BY <2>1, <2>2
<1>6. CASE OverEnd
    <2>1. cleaner'.pc \notin Loops /\ cleaner' \in [pc : Places, kicked : BOOLEAN, todo : SUBSET Names]
        BY <1>6, GotoType DEF OverEnd, Places, Loops
    <2> QED BY <1>6, <2>1, AnnounceType, QuotasBoolean, CleanerAssumption DEF OverEnd, TypeOK, items, env, Loops
<1>7. CASE CleanBegin
    <2>1. CASE QuotasOK
        <3>1. Goto("retry", {}) /\ mu' = mu
            BY <1>7, <2>1 DEF CleanBegin
        <3> QED BY <1>7, <3>1, GotoType DEF CleanBegin, TypeOK, io, items, env, Places, Loops
    <2>2. CASE ~QuotasOK
        <3>1. Goto("purgeClean", InMap) /\ mu' = Clean
            BY <1>7, <2>2 DEF CleanBegin
        <3> QED BY <1>7, <3>1, GotoType, CleanerAssumption
                DEF CleanBegin, TypeOK, io, items, env, Places, Loops, InMap
    <2> QED BY <2>1, <2>2
<1>8. CASE CleanEnd
    <2>1. cleaner'.pc \notin Loops /\ cleaner' \in [pc : Places, kicked : BOOLEAN, todo : SUBSET Names]
        BY <1>8, GotoType DEF CleanEnd, Places, Loops
    <2>2. /\ pc' \in [Threads -> {"run", "out", "kick", "send", "wait", "asleep"}]
          /\ outOfSpace' \in BOOLEAN /\ UNCHANGED <<kicks, kickerMu, cleanerKicked, kick>>
          /\ \A t \in Threads : /\ pc'[t] = "kick" <=> pc[t] = "kick"
                                /\ pc'[t] = "send" <=> pc[t] = "send"
        BY <1>8, AnnounceType DEF CleanEnd
    <2>3. mu = Clean /\ mu' = Nobody /\ UNCHANGED <<items, env>>
        BY <1>8 DEF CleanEnd, TypeOK, Loops
    <2> QED BY <2>1, <2>2, <2>3, CleanerAssumption DEF TypeOK, items, env
<1>9. CASE RetryBegin \/ RetryEnd
    <2>1. cleaner.pc \notin Loops /\ cleaner'.pc \notin Loops
            /\ cleaner' \in [pc : Places, kicked : BOOLEAN, todo : SUBSET Names]
        BY <1>9, GotoType DEF RetryBegin, RetryEnd, Places, Loops, TypeOK
    <2> QED BY <1>9, <2>1 DEF RetryBegin, RetryEnd, TypeOK, io, items, env
<1>10. CASE Done
    <2>1. cleaner.pc \notin Loops /\ cleaner'.pc \notin Loops
            /\ cleaner' \in [pc : Places, kicked : BOOLEAN, todo : SUBSET Names]
        BY <1>10, GotoType DEF Done, Places, Loops, TypeOK
    <2>2. cleanerKicked' \in BOOLEAN
        BY <1>10 DEF Done, TypeOK
    <2> QED BY <1>10, <2>1, <2>2 DEF Done, TypeOK, items, env
<1>11. ASSUME NEW n \in Names, OldItem(n) PROVE TypeOK'
    <2>1. /\ item' \in [Names -> {"absent", "idle", "open", "busy", "reset"}]
          /\ size' \in [Names -> 0 .. MaxSize]
        BY <1>11, EmptiedType DEF OldItem, TypeOK
    <2>2. cleaner'.pc = cleaner.pc /\ cleaner' \in [pc : Places, kicked : BOOLEAN, todo : SUBSET Names]
        BY <1>11, GotoType DEF OldItem, Places, Loops, TypeOK
    <2> QED BY <1>11, <2>1, <2>2 DEF OldItem, TypeOK, io, items, env
<1>12. ASSUME NEW n \in Names, OverItem(n) PROVE TypeOK'
    <2>1. /\ item' \in [Names -> {"absent", "idle", "open", "busy", "reset"}]
          /\ size' \in [Names -> 0 .. MaxSize]
        BY <1>12, EmptiedType DEF OverItem, TypeOK
    <2>2. cleaner'.pc = cleaner.pc /\ cleaner' \in [pc : Places, kicked : BOOLEAN, todo : SUBSET Names]
        BY <1>12, GotoType DEF OverItem, Places, Loops, TypeOK
    <2> QED BY <1>12, <2>1, <2>2 DEF OverItem, TypeOK, io, items, env
<1>13. ASSUME NEW n \in Names, CleanItem(n) PROVE TypeOK'
    <2>1. /\ item' \in [Names -> {"absent", "idle", "open", "busy", "reset"}]
          /\ size' \in [Names -> 0 .. MaxSize] /\ errItems' \subseteq Names
        BY <1>13, EmptiedType DEF CleanItem, TypeOK, ResetsTo, items
    <2>2. cleaner'.pc = cleaner.pc /\ cleaner' \in [pc : Places, kicked : BOOLEAN, todo : SUBSET Names]
        BY <1>13, GotoType DEF CleanItem, Places, Loops, TypeOK
    <2> QED BY <1>13, <2>1, <2>2 DEF CleanItem, TypeOK, io, items, env
<1>14. ASSUME NEW n \in Names, RetryItem(n) PROVE TypeOK'
    <2>1. /\ item' \in [Names -> {"absent", "idle", "open", "busy", "reset"}]
          /\ size' \in [Names -> 0 .. MaxSize] /\ errItems' \subseteq Names
        BY <1>14, EmptiedType DEF RetryItem, TypeOK, ResetsTo
    <2>2. cleaner'.pc = cleaner.pc /\ cleaner' \in [pc : Places, kicked : BOOLEAN, todo : SUBSET Names]
        BY <1>14, GotoType DEF RetryItem, Places, Loops, TypeOK
    <2> QED BY <1>14, <2>1, <2>2 DEF RetryItem, TypeOK, io, items, env
<1> QED BY <1>1, <1>2, <1>3, <1>4, <1>5, <1>6, <1>7, <1>8, <1>9, <1>10, <1>11, <1>12, <1>13, <1>14
        DEF Round

\* The initial state is well typed, with both mutexes free.
LEMMA TypeInit == Init => TypeOK
<1> SUFFICES ASSUME Init PROVE TypeOK
    OBVIOUS
<1>1. /\ cleaner \in [pc : Places, kicked : BOOLEAN, todo : SUBSET Names]
      /\ cleaner.pc \notin Loops
    BY DEF Init, Places, Loops
<1>2. /\ pc \in [Threads -> {"run", "out", "kick", "send", "wait", "asleep"}]
      /\ item \in [Names -> {"absent", "idle", "open", "busy", "reset"}]
      /\ size \in [Names -> 0 .. MaxSize] /\ kicks \in 0 .. MaxKicks
    BY CleanerAssumption DEF Init
<1>3. \A t \in Threads : pc[t] = "run"
    BY DEF Init
<1> QED BY <1>1, <1>2, <1>3, CleanerAssumption DEF Init, TypeOK

\* No step breaks a type, or mutual exclusion.
LEMMA TypeStep == TypeOK /\ [Next]_vars => TypeOK'
<1> SUFFICES ASSUME TypeOK, [Next]_vars PROVE TypeOK'
    OBVIOUS
<1>1. ASSUME NEW t \in Threads, RunsOut(t) \/ KickCleaner(t) PROVE TypeOK'
    BY <1>1, ThreadType
<1>2. CASE \/ \E n \in Names : Open(n) \/ Use(n) \/ Grow(n) \/ Remove(n)
           \/ Opened \/ Flip
    BY <1>2, ItemsUntouched
<1>3. CASE Kicked
    BY <1>3 DEF Kicked, TypeOK, items, env, Places, Loops
<1>4. CASE Tick
    BY <1>4 DEF Tick, TypeOK, io, items, env, Places, Loops
<1>5. CASE Round
    BY <1>5, RoundType
<1>6. CASE UNCHANGED vars
    BY <1>6 DEF vars, TypeOK, Places, Loops
<1> QED BY <1>1, <1>2, <1>3, <1>4, <1>5, <1>6 DEF Next

\* Every variable keeps its type, and whoever holds kickerMu or mu is where the code
\* holds it: KickCleaner, the loops of the cleaner and the opens exclude each other.
THEOREM TypeCorrect == Spec => []TypeOK
<1> QED BY TypeInit, TypeStep, PTL DEF Spec

-------------------------------------------------------------------------------
(* The channel *)

\* A round that was begun by a kick has not ended.
InKickedRound == cleaner.pc # "idle" /\ cleaner.kicked

\* One kick at a time: cleanerKicked stays set from before the send until the end of
\* the round, and in that time the kick is with the thread that holds kickerMu, in the
\* channel, or with the cleaner, and with one of them only.
OneKick ==
    /\ kickerMu # Nobody => cleanerKicked /\ kick = 0 /\ ~InKickedRound
    /\ kick = 1 => cleanerKicked /\ ~InKickedRound
    /\ InKickedRound => cleanerKicked

\* Whoever is about to send holds kickerMu, so that the channel is empty.
LEMMA OneKickRoom == TypeOK /\ OneKick => KickFindsRoom
BY CleanerAssumption DEF TypeOK, OneKick, KickFindsRoom

\* No step makes a second kick.
LEMMA OneKickStep == TypeOK /\ OneKick /\ [Next]_vars => OneKick'
<1> SUFFICES ASSUME TypeOK, OneKick, [Next]_vars PROVE OneKick'
    OBVIOUS
<1>1. ASSUME UNCHANGED <<kickerMu, cleanerKicked, kick, cleaner>> PROVE OneKick'
    BY <1>1 DEF OneKick, InKickedRound
<1>2. ASSUME NEW t \in Threads, RunsOut(t) PROVE OneKick'
    BY <1>1, <1>2 DEF RunsOut
<1>3. ASSUME NEW t \in Threads, KickCleaner(t) PROVE OneKick'
    <2>1. CASE LockKicker(t)
        <3>1. CASE cleanerKicked
            BY <1>1, <2>1, <3>1 DEF LockKicker
        <3>2. CASE ~cleanerKicked
            <4>1. kick = 0 /\ ~InKickedRound
                BY <3>2 DEF OneKick, TypeOK
            <4> QED BY <2>1, <3>2, <4>1 DEF LockKicker, OneKick, InKickedRound
        <3> QED BY <3>1, <3>2
    <2>2. CASE LockCache(t)
        BY <1>1, <2>2 DEF LockCache
    <2>3. CASE Send(t)
        <3>1. kickerMu = t /\ kickerMu # Nobody
            BY <2>3, CleanerAssumption DEF Send, TypeOK
        <3> QED BY <2>3, <3>1 DEF Send, OneKick, InKickedRound
    <2>4. CASE Wait(t)
        BY <1>1, <2>4 DEF Wait
    <2> QED BY <1>3, <2>1, <2>2, <2>3, <2>4 DEF KickCleaner
<1>4. CASE \/ \E n \in Names : Open(n) \/ Use(n) \/ Grow(n) \/ Remove(n)
           \/ Opened \/ Flip
    <2>1. UNCHANGED <<io, cleaner>>
        BY <1>4, ItemsUntouched
    <2> QED BY <1>1, <2>1 DEF io
<1>5. CASE Kicked
    BY <1>5 DEF Kicked, OneKick, InKickedRound, TypeOK
<1>6. CASE Tick
    BY <1>6 DEF Tick, OneKick, InKickedRound, io
<1>7. CASE Done
    <2>1. CASE cleaner.kicked
        <3>1. cleaner.pc # "idle" /\ kickerMu = Nobody /\ kick = 0
            BY <1>7, <2>1 DEF Done, OneKick, InKickedRound, TypeOK
        <3>2. cleaner'.pc = "idle"
            BY <1>7, GotoType DEF Done, Places
        <3> QED BY <1>7, <3>1, <3>2 DEF Done, OneKick, InKickedRound
    <2>2. CASE ~cleaner.kicked
        <3>1. ~cleaner'.kicked
            BY <1>7, <2>2, GotoType DEF Done, Places
        <3> QED BY <1>7, <2>2, <3>1 DEF Done, OneKick, InKickedRound
    <2> QED BY <2>1, <2>2
\* every other step of a round leaves the kick where it is
<1>8. CASE Round /\ ~Done
    <2>1. UNCHANGED <<kickerMu, cleanerKicked, kick>>
        BY <1>8, AnnounceType, QuotasBoolean
           DEF Round, Stat, OldBegin, OldEnd, QuotaUsed, OverBegin, OverEnd, CleanBegin, CleanEnd,
               RetryBegin, RetryEnd, OldItem, OverItem, CleanItem, RetryItem, io
    <2>2. PICK p, todo : p \in Places /\ Goto(p, todo)
        BY <1>8 DEF Round, Stat, OldBegin, OldEnd, QuotaUsed, OverBegin, OverEnd, CleanBegin, CleanEnd,
                    RetryBegin, RetryEnd, OldItem, OverItem, CleanItem, RetryItem, Places, Loops
    <2>3. cleaner'.kicked = cleaner.kicked /\ cleaner.pc # "idle"
        BY <1>8, <2>2 DEF Goto, TypeOK, Round, Stat, OldBegin, OldEnd, QuotaUsed, OverBegin, OverEnd,
                    CleanBegin, CleanEnd, RetryBegin, RetryEnd, OldItem, OverItem, CleanItem, RetryItem
    <2> QED BY <2>1, <2>3 DEF OneKick, InKickedRound
<1>9. CASE UNCHANGED vars
    BY <1>1, <1>9 DEF vars
<1> QED BY <1>2, <1>3, <1>4, <1>5, <1>6, <1>7, <1>8, <1>9 DEF Next

\* The send of KickCleaner, under kickerMu and mu, never blocks: whoever finds
\* cleanerKicked unset finds the channel empty.
THEOREM KickNeverBlocks == Spec => []KickFindsRoom
<1>1. Init => OneKick
    BY DEF Init, OneKick, InKickedRound
<1> QED BY <1>1, TypeInit, TypeStep, OneKickStep, OneKickRoom, PTL DEF Spec

-------------------------------------------------------------------------------
(* Sleepers *)

\* A broadcast leaves nobody asleep, and without one outOfSpace stays as it is.
LEMMA AnnounceWakes ==
    ASSUME TypeOK, SleepersHaveReason, NEW yes \in BOOLEAN, Announce(yes)
    PROVE  SleepersHaveReason'
<1>1. pc' = [t \in Threads |-> IF yes /\ pc[t] = "asleep" THEN "wait" ELSE pc[t]]
    BY DEF Announce
<1>2. CASE yes
    <2>1. \A t \in Threads : pc'[t] # "asleep"
        BY <1>1, <1>2
    <2> QED BY <2>1 DEF SleepersHaveReason
<1>3. CASE ~yes
    <2>1. \A t \in Threads : pc'[t] = pc[t]
        BY <1>1, <1>3
    <2>2. outOfSpace' = outOfSpace
        BY <1>3 DEF Announce, TypeOK
    <2> QED BY <2>1, <2>2 DEF SleepersHaveReason
<1> QED BY <1>2, <1>3

\* Only Wait puts a thread to sleep, and it has tested outOfSpace under mu.
LEMMA SleepersStep == TypeOK /\ SleepersHaveReason /\ [Next]_vars => SleepersHaveReason'
<1> SUFFICES ASSUME TypeOK, SleepersHaveReason, [Next]_vars PROVE SleepersHaveReason'
    OBVIOUS
<1>1. ASSUME UNCHANGED <<pc, outOfSpace>> PROVE SleepersHaveReason'
    BY <1>1 DEF SleepersHaveReason
<1>2. ASSUME NEW t \in Threads, RunsOut(t) \/ KickCleaner(t) PROVE SleepersHaveReason'
    <2>1. CASE RunsOut(t)
        BY <1>2, <2>1 DEF RunsOut, SleepersHaveReason, TypeOK
    <2>2. CASE LockKicker(t)
        BY <1>2, <2>2 DEF LockKicker, SleepersHaveReason, TypeOK
    <2>3. CASE LockCache(t)
        BY <1>2, <2>3 DEF LockCache, SleepersHaveReason, TypeOK
    <2>4. CASE Send(t)
        BY <1>2, <2>4 DEF Send, SleepersHaveReason, TypeOK
    <2>5. CASE Wait(t)
        BY <1>2, <2>5 DEF Wait, SleepersHaveReason, TypeOK
    <2> QED BY <1>2, <2>1, <2>2, <2>3, <2>4, <2>5 DEF KickCleaner
<1>3. CASE \/ \E n \in Names : Open(n) \/ Use(n) \/ Grow(n) \/ Remove(n)
           \/ Opened \/ Flip
    BY <1>1, <1>3, ItemsUntouched DEF io
<1>4. CASE Kicked \/ Tick
    BY <1>1, <1>4 DEF Kicked, Tick, io
<1>5. CASE OldEnd \/ OverEnd \/ CleanEnd
    BY <1>5, AnnounceWakes, QuotasBoolean DEF OldEnd, OverEnd, CleanEnd
<1>6. CASE Round /\ ~(OldEnd \/ OverEnd \/ CleanEnd)
    BY <1>1, <1>6 DEF Round, Stat, OldBegin, QuotaUsed, OverBegin, CleanBegin, RetryBegin, RetryEnd, Done,
                      OldItem, OverItem, CleanItem, RetryItem, io
<1>7. CASE UNCHANGED vars
    BY <1>1, <1>7 DEF vars
<1> QED BY <1>2, <1>3, <1>4, <1>5, <1>6, <1>7 DEF Next

\* A thread sleeps in KickCleaner only while outOfSpace is set: the flag is never
\* cleared without a broadcast, nor tested before one that is missed.
THEOREM NoLostWakeup == Spec => []SleepersHaveReason
<1>1. Init => SleepersHaveReason
    BY DEF Init, SleepersHaveReason
<1> QED BY <1>1, TypeInit, TypeStep, SleepersStep, PTL DEF Spec

-------------------------------------------------------------------------------
(* Failed resets *)

\* retryFailedResets has still to visit names of errItems only.
RetryIsListed == cleaner.pc = "retryFailedResets" => cleaner.todo \subseteq errItems

\* A name leaves errItems, in retryFailedResets, only once it has been visited.
LEMMA RetryListStep == TypeOK /\ RetryIsListed /\ [Next]_vars => RetryIsListed'
<1> SUFFICES ASSUME TypeOK, RetryIsListed, [Next]_vars PROVE RetryIsListed'
    OBVIOUS
<1>1. ASSUME UNCHANGED <<cleaner, errItems>> PROVE RetryIsListed'
    BY <1>1 DEF RetryIsListed
<1>2. ASSUME cleaner'.pc # "retryFailedResets" PROVE RetryIsListed'
    BY <1>2 DEF RetryIsListed
<1>3. ASSUME NEW t \in Threads, RunsOut(t) \/ KickCleaner(t) PROVE RetryIsListed'
    BY <1>1, <1>3 DEF RunsOut, KickCleaner, LockKicker, LockCache, Send, Wait, items
<1>4. ASSUME NEW m \in Names, Open(m) \/ Use(m) \/ Grow(m) \/ Remove(m) PROVE RetryIsListed'
    BY <1>1, <1>4 DEF Open, Use, Grow, Remove, items
<1>5. CASE Opened \/ Flip
    BY <1>1, <1>5 DEF Opened, Flip, items
<1>6. CASE Kicked \/ Tick
    BY <1>2, <1>6 DEF Kicked, Tick
<1>7. CASE \/ Stat \/ OldBegin \/ OldEnd \/ QuotaUsed \/ OverBegin \/ OverEnd \/ CleanBegin
           \/ CleanEnd \/ RetryEnd \/ Done
    <2>1. PICK p, todo : p \in Places \ {"retryFailedResets"} /\ Goto(p, todo)
        BY <1>7 DEF Stat, OldBegin, OldEnd, QuotaUsed, OverBegin, OverEnd, CleanBegin, CleanEnd,
                    RetryEnd, Done, Places, Loops
    <2> QED BY <1>2, <2>1 DEF Goto, TypeOK
<1>8. ASSUME NEW m \in Names, OldItem(m) \/ OverItem(m) \/ CleanItem(m) PROVE RetryIsListed'
    <2>1. PICK p, todo : p \in Places \ {"retryFailedResets"} /\ Goto(p, todo)
        BY <1>8 DEF OldItem, OverItem, CleanItem, Places, Loops
    <2> QED BY <1>2, <2>1 DEF Goto, TypeOK
<1>9. CASE RetryBegin
    <2>1. cleaner'.todo = errItems /\ errItems' = errItems
        BY <1>9 DEF RetryBegin, Goto, TypeOK, items
    <2> QED BY <2>1 DEF RetryIsListed
<1>10. ASSUME NEW m \in Names, RetryItem(m) PROVE RetryIsListed'
    <2>1. cleaner.todo \subseteq errItems /\ cleaner'.todo = cleaner.todo \ {m}
        BY <1>10 DEF RetryItem, RetryIsListed, Goto, TypeOK
    <2>2. errItems' = errItems \/ errItems' = errItems \ {m}
        BY <1>10 DEF RetryItem
    <2> QED BY <2>1, <2>2 DEF RetryIsListed
<1>11. CASE UNCHANGED vars
    BY <1>1, <1>11 DEF vars
<1> QED BY <1>3, <1>4, <1>5, <1>6, <1>7, <1>8, <1>9, <1>10, <1>11 DEF Next, Round

\* A reset that fails puts the name into errItems, or leaves it there.
LEMMA ResetStep == TypeOK /\ RetryIsListed /\ ResetIsRemembered /\ [Next]_vars => ResetIsRemembered'
<1> SUFFICES ASSUME TypeOK, RetryIsListed, ResetIsRemembered, [Next]_vars, NEW n \in Names, item'[n] = "reset"
             PROVE  n \in errItems'
    BY DEF ResetIsRemembered
<1>1. ASSUME UNCHANGED <<item, errItems>> PROVE n \in errItems'
    BY <1>1 DEF ResetIsRemembered
\* an item that was in reset before stays on the list, and no step but these puts one there
<1>2. ASSUME item[n] = "reset", errItems' = errItems PROVE n \in errItems'
    BY <1>2 DEF ResetIsRemembered
<1>3. ASSUME NEW m \in Names, NEW s \in {"absent", "idle", "open", "busy"},
             item' = [item EXCEPT ![m] = s], errItems' = errItems
      PROVE  n \in errItems'
    <2>1. item[n] = "reset"
        BY <1>3 DEF TypeOK
    <2> QED BY <1>2, <1>3, <2>1
<1>4. ASSUME NEW t \in Threads, RunsOut(t) \/ KickCleaner(t) PROVE n \in errItems'
    BY <1>1, <1>4 DEF RunsOut, KickCleaner, LockKicker, LockCache, Send, Wait, items
<1>5. ASSUME NEW m \in Names, Open(m) \/ Use(m) \/ Grow(m) \/ Remove(m) PROVE n \in errItems'
    BY <1>1, <1>3, <1>5 DEF Open, Use, Grow, Remove, items
<1>6. CASE Opened
    <2>1. opening \in Names
        BY <1>6, CleanerAssumption DEF Opened, TypeOK
    <2> QED BY <1>3, <1>6, <2>1 DEF Opened
<1>7. CASE Flip \/ Kicked \/ Tick
    BY <1>1, <1>7 DEF Flip, Kicked, Tick, items
<1>8. ASSUME NEW m \in Names, OldItem(m) \/ OverItem(m) PROVE n \in errItems'
    BY <1>1, <1>3, <1>8 DEF OldItem, OverItem, Emptied
<1>9. ASSUME NEW m \in Names, CleanItem(m) PROVE n \in errItems'
    BY <1>9 DEF CleanItem, ResetsTo, Emptied, items, TypeOK, ResetIsRemembered
<1>10. ASSUME NEW m \in Names, RetryItem(m) PROVE n \in errItems'
    <2>1. CASE ResetsTo(m) = {} /\ errItems' = errItems \ {m} /\ UNCHANGED <<item, size>>
        <3>1. item[m] # "reset"
            BY <2>1 DEF ResetsTo
        <3> QED BY <2>1, <3>1 DEF ResetIsRemembered
    <2>2. ASSUME NEW s \in ResetsTo(m), Emptied(m, IF s = "absent" THEN "idle" ELSE s),
                 errItems' = IF s = "reset" THEN errItems ELSE errItems \ {m}
          PROVE  n \in errItems'
        <3>1. CASE n = m
            <4>1. s = "reset"
                BY <2>2, <3>1 DEF Emptied, TypeOK
            <4>2. item[m] = "reset" \/ item[m] = "open"
                BY <2>2, <4>1 DEF ResetsTo
            <4>3. m \in errItems
                BY <1>10 DEF RetryItem, RetryIsListed
            <4> QED BY <2>2, <3>1, <4>1, <4>3
        <3>2. CASE n # m
            BY <2>2, <3>2 DEF Emptied, TypeOK, ResetIsRemembered
        <3> QED BY <3>1, <3>2
    <2> QED BY <1>10, <2>1, <2>2 DEF RetryItem
<1>11. CASE \/ Stat \/ OldBegin \/ OldEnd \/ QuotaUsed \/ OverBegin \/ OverEnd \/ CleanBegin
            \/ CleanEnd \/ RetryBegin \/ RetryEnd \/ Done
    BY <1>1, <1>11 DEF Stat, OldBegin, OldEnd, QuotaUsed, OverBegin, OverEnd, CleanBegin, CleanEnd,
                       RetryBegin, RetryEnd, Done, items
<1>12. CASE UNCHANGED vars
    BY <1>1, <1>12 DEF vars
<1> QED BY <1>4, <1>5, <1>6, <1>7, <1>8, <1>9, <1>10, <1>11, <1>12 DEF Next, Round

\* An item that ran out of space in Reset stays in errItems until it has been reset or
\* is gone, although requests put items into the map while retryFailedResets runs.
THEOREM NoForgottenReset == Spec => []ResetIsRemembered
<1>1. Init => ResetIsRemembered /\ RetryIsListed
    BY DEF Init, ResetIsRemembered, RetryIsListed
<1> QED BY <1>1, TypeInit, TypeStep, RetryListStep, ResetStep, PTL DEF Spec

===============================================================================
