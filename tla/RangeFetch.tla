------------------------------ MODULE RangeFetch ------------------------------
(***************************************************************************)
(* What the downloaders of an item promise to those who read it:           *)
(* internal/cache/downloaders as item._ensure and Item.Close see it.  A    *)
(* Download is for a range; it is answered once, with success only if the  *)
(* range is in the file at that moment.  It says nothing of goroutines,    *)
(* connections, windows or error counts.                                   *)
(***************************************************************************)
EXTENDS Ranges

CONSTANTS
    Callers,        \* readers of the item
    SrcSize,        \* size of the object downloaded from
    Requests,       \* the ranges readers ask for
    CloseErr        \* what Close is given for those it leaves without their range

VARIABLES
    have,           \* the blocks in the cache file
    call,           \* per caller: has it asked, for what, does it wait, what it was told
    stage           \* "open", "closing" or "closed"

\* What r can ever have of the object is in the file
There(r) == Bytes(Clip(r, SrcSize)) \subseteq have

Waiting == {c \in Callers : call[c].asked /\ call[c].waits}

\* The callers in cs are told answer[c] and go on.
Tell(cs, answer) ==
    call' = [c \in Callers |->
                IF c \in cs THEN [call[c] EXCEPT !.asked = FALSE, !.res = answer[c]] ELSE call[c]]

Init ==
    /\ have \in SUBSET (0 .. SrcSize - 1)
    /\ call = [c \in Callers |-> [asked |-> FALSE, r |-> EmptyRange, waits |-> FALSE, res |-> "none"]]
    /\ stage = "open"

\* A reader asks, and will wait if some of its range is missing.
Ask(c) ==
    /\ ~call[c].asked /\ stage = "open"
    /\ \E r \in Requests :
          call' = [call EXCEPT ![c] = [asked |-> TRUE, r |-> r, waits |-> ~(Bytes(r) \subseteq have),
                                       res |-> "none"]]
    /\ UNCHANGED <<have, stage>>

\* Whose range was there when it asked goes on in any case.
PassBy(c) ==
    /\ call[c].asked /\ ~call[c].waits
    /\ Tell({c}, [x \in {c} |-> "none"])
    /\ UNCHANGED <<have, stage>>

\* A block of the object arrives; what has arrived stays.
Store(b) == have' = have \cup {b} /\ UNCHANGED <<call, stage>>

\* Success, for readers that wait and whose range is there
Serve(cs) ==
    /\ \A c \in cs : There(call[c].r)
    /\ Tell(cs, [c \in cs |-> "ok"])
    /\ UNCHANGED <<have, stage>>

\* Some readers that wait are told why they get nothing: never by a nil error
GiveUp(cs, err) == Tell(cs, [c \in cs |-> err]) /\ UNCHANGED <<have, stage>>

CloseBegins == stage = "open" /\ stage' = "closing" /\ UNCHANGED <<have, call>>

\* Close ends: of those that are queued by then, whoever has its range is told so,
\* the others what Close was given.
CloseEnds(cs) ==
    /\ stage = "closing" /\ stage' = "closed"
    /\ Tell(cs, [c \in cs |-> IF There(call[c].r) THEN "ok" ELSE CloseErr])
    /\ UNCHANGED have

Next ==
    \/ \E c \in Callers : Ask(c) \/ PassBy(c)
    \/ \E b \in 0 .. SrcSize - 1 : Store(b)
    \/ \E cs \in SUBSET Waiting :
          Serve(cs) \/ CloseEnds(cs) \/ \E err \in {"err", "nospace"} : GiveUp(cs, err)
    \/ CloseBegins

Spec == Init /\ [][Next]_<<have, call, stage>>
===============================================================================
