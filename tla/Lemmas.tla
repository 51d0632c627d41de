------------------------------- MODULE Lemmas --------------------------------
(***************************************************************************)
(* What the proofs keep needing: every set of natural numbers has a least  *)
(* member, which gives proofs by induction; functions defined by recursion *)
(* exist; and what Filter leaves of a sequence.                            *)
(***************************************************************************)
EXTENDS Lists, FiniteSets, WellFoundedInduction, FunctionTheorems, FiniteSetTheorems, TLAPS

\* Every set of natural numbers that has members has a least one.
LEMMA LeastNumber ==
    ASSUME NEW T \in SUBSET Nat, T # {}
    PROVE  \E x \in T : \A y \in T : x <= y
<1> DEFINE R == OpToRel(<, Nat)
<1>1. IsWellFoundedOn(R, Nat)
    BY NatLessThanWellFounded
<1>2. \A x, y \in Nat : <<y, x>> \in R <=> y < x
    BY DEF OpToRel
<1> HIDE DEF R
<1>3. PICK x \in T : \A y \in T : ~(<<y, x>> \in R)
    BY <1>1, WFMin
<1>4. \A y \in T : ~(y < x)
    BY <1>2, <1>3
<1> QED BY <1>4

\* A recursion from q to next[q], that ends where q is in Done, for size gets smaller; and
\* the function on D that it is to compute.
Recurses(D, V, Done, base, next, step, size) ==
    /\ base \in [D -> V] /\ next \in [D -> D] /\ step \in [D -> [V -> V]] /\ size \in [D -> Nat]
    /\ \A q \in D \ Done : size[next[q]] < size[q]

Computed(f, D, V, Done, base, next, step) ==
    /\ f \in [D -> V]
    /\ \A q \in D : f[q] = IF q \in Done THEN base[q] ELSE step[q][f[next[q]]]

\* A function that is computed by recursion is there, if what it recurs on gets smaller.
LEMMA RecursionDefined ==
    ASSUME NEW D, NEW V, NEW Done, NEW base, NEW next, NEW step, NEW size,
           Recurses(D, V, Done, base, next, step, size)
    PROVE  \E f : Computed(f, D, V, Done, base, next, step)
<1> DEFINE Body(f, q) == IF q \in Done THEN base[q] ELSE step[q][f[next[q]]]
           Computes(n) == {f \in [D -> V] : \A q \in D : size[q] < n => f[q] = Body(f, q)}
<1>1. \A q \in D : base[q] \in V /\ next[q] \in D /\ \A v \in V : step[q][v] \in V
    BY DEF Recurses
<1>2. \A q \in D : size[q] \in Nat
    BY DEF Recurses
<1>3. \A q \in D : q \notin Done => next[q] \in D /\ size[next[q]] \in Nat /\ size[next[q]] < size[q]
    BY <1>1, <1>2 DEF Recurses
<1>4. \A n \in Nat : Computes(n) # {}
    <2> DEFINE T == {n \in Nat : Computes(n) = {}}
    <2> SUFFICES ASSUME T # {}
                 PROVE  FALSE
        OBVIOUS
    <2>1. PICK n \in T : \A m \in T : n <= m
        <3>1. T \in SUBSET Nat
            OBVIOUS
        <3> HIDE DEF T
        <3> QED BY <3>1, LeastNumber
    <2>2. n \in Nat /\ Computes(n) = {}
        OBVIOUS
    <2>3. CASE n = 0
        <3>1. base \in Computes(n)
            BY <1>2, <2>3 DEF Recurses
        <3> QED BY <2>2, <3>1
    <2>4. CASE n # 0
        <3>1. n - 1 \in Nat /\ ~(n <= n - 1)
            BY <2>2, <2>4
        <3>2. n - 1 \notin T
            <4> HIDE DEF T
            <4> QED BY <2>1, <3>1
        <3>3. PICK f : f \in Computes(n - 1)
            BY <3>1, <3>2
        <3>4. f \in [D -> V] /\ \A q \in D : size[q] < n - 1 => f[q] = Body(f, q)
            BY <3>3
        <3> DEFINE g == [q \in D |-> IF size[q] = n - 1 THEN Body(f, q) ELSE f[q]]
        <3>5. \A q \in D : Body(f, q) \in V
            BY <1>1, <3>4
        <3>6. g \in [D -> V]
            BY <3>4, <3>5
        <3>7. \A q \in D : g[q] = IF size[q] = n - 1 THEN Body(f, q) ELSE f[q]
            OBVIOUS
        <3> HIDE DEF g
        <3>8. ASSUME NEW q \in D, size[q] < n
              PROVE  g[q] = Body(g, q)
            <4>1. Body(g, q) = Body(f, q)
                <5>1. q \in Done \/ g[next[q]] = f[next[q]]
                    BY <1>2, <1>3, <3>1, <3>7, <3>8
                <5> QED BY <5>1
            <4>2. g[q] = Body(f, q)
                <5>1. size[q] = n - 1 \/ size[q] < n - 1
                    BY <1>2, <3>1, <3>8
                <5>2. CASE size[q] = n - 1
                    BY <3>7, <5>2
                <5>3. CASE size[q] < n - 1
                    <6>1. g[q] = f[q]
                        BY <1>2, <3>1, <3>7, <5>3
                    <6> QED BY <3>4, <5>3, <6>1
                <5> QED BY <5>1, <5>2, <5>3
            <4> QED BY <4>1, <4>2
        <3>9. g \in Computes(n)
            BY <3>6, <3>8
        <3> QED BY <2>2, <3>9
    <2> QED BY <2>3, <2>4
<1>5. ASSUME NEW m \in Nat, NEW n \in Nat, NEW f \in Computes(m), NEW g \in Computes(n)
      PROVE  \A q \in D : size[q] < m /\ size[q] < n => f[q] = g[q]
    <2> DEFINE Differ == {q \in D : size[q] < m /\ size[q] < n /\ f[q] # g[q]}
               T == {size[q] : q \in Differ}
    <2> SUFFICES ASSUME Differ # {}
                 PROVE  FALSE
        OBVIOUS
    <2>1. PICK k \in T : \A j \in T : k <= j
        <3>1. T \in SUBSET Nat /\ T # {}
            <4>1. Differ \in SUBSET D
                OBVIOUS
            <4> HIDE DEF Differ
            <4> QED BY <1>2, <4>1
        <3> HIDE DEF T
        <3> QED BY <3>1, LeastNumber
    <2>2. PICK q \in Differ : k = size[q]
        OBVIOUS
    <2>3. q \in D /\ size[q] < m /\ size[q] < n /\ f[q] # g[q]
        OBVIOUS
    <2>4. f[q] = Body(f, q) /\ g[q] = Body(g, q)
        BY <2>3
    <2>5. q \notin Done /\ f[next[q]] # g[next[q]]
        BY <2>3, <2>4
    <2>6. next[q] \in D /\ size[next[q]] \in Nat /\ size[q] \in Nat /\ size[next[q]] < size[q]
        BY <1>2, <1>3, <2>3, <2>5
    <2>7. size[next[q]] \in T
        BY <2>3, <2>5, <2>6
    <2> HIDE DEF T
    <2> QED BY <2>1, <2>2, <2>6, <2>7
<1> HIDE DEF Computes
<1> DEFINE F == [n \in Nat |-> CHOOSE f : f \in Computes(n)]
           all == [q \in D |-> F[size[q] + 1][q]]
<1>6. \A n \in Nat : F[n] \in Computes(n)
    BY <1>4
<1>7. \A n \in Nat : F[n] \in [D -> V] /\ \A q \in D : size[q] < n => F[n][q] = Body(F[n], q)
    BY <1>6 DEF Computes
<1> HIDE DEF F
<1>8. \A q \in D : size[q] + 1 \in Nat /\ size[q] < size[q] + 1
    BY <1>2
<1>9. all \in [D -> V] /\ \A q \in D : all[q] = F[size[q] + 1][q]
    BY <1>7, <1>8
<1> HIDE DEF all
<1>10. ASSUME NEW q \in D
      PROVE  all[q] = Body(all, q)
    <2> DEFINE n == size[q] + 1
    <2>1. all[q] = Body(F[n], q)
        BY <1>7, <1>8, <1>9
    <2>2. CASE q \in Done
        BY <2>1, <2>2
    <2>3. CASE q \notin Done
        <3> DEFINE m == size[next[q]] + 1
        <3>1. next[q] \in D /\ m \in Nat /\ n \in Nat /\ size[next[q]] < m /\ size[next[q]] < n
            BY <1>2, <1>3, <2>3
        <3>2. F[m][next[q]] = F[n][next[q]]
            <4> HIDE DEF m, n
            <4> QED BY <1>5, <1>6, <3>1
        <3>3. all[next[q]] = F[n][next[q]]
            BY <1>9, <3>1, <3>2
        <3> QED BY <2>1, <2>3, <3>3
    <2> QED BY <2>2, <2>3
<1> QED BY <1>9, <1>10 DEF Computed

\* Likewise for a loop that takes N steps from b on.
Iterates(f, N, V, b, step) ==
    /\ f \in [0 .. N -> V]
    /\ f = [n \in 0 .. N |-> IF n = 0 THEN b ELSE step[n][f[n-1]]]

LEMMA LoopDefined ==
    ASSUME NEW N \in Nat, NEW V, NEW b \in V, NEW step \in [1 .. N -> [V -> V]]
    PROVE  \E f : Iterates(f, N, V, b, step)
<1> DEFINE D == 0 .. N
           base == [n \in D |-> b]
           next == [n \in D |-> IF n = 0 THEN 0 ELSE n - 1]
           any == [n \in D |-> IF n = 0 THEN [v \in V |-> v] ELSE step[n]]
           size == [n \in D |-> n]
<1>1. Recurses(D, V, {0}, base, next, any, size)
    <2>1. base \in [D -> V] /\ size \in [D -> Nat]
        OBVIOUS
    <2>2. next \in [D -> D]
        OBVIOUS
    <2>3. any \in [D -> [V -> V]]
        <3>1. [v \in V |-> v] \in [V -> V]
            OBVIOUS
        <3>2. \A n \in D : n # 0 => step[n] \in [V -> V]
            OBVIOUS
        <3> QED BY <3>1, <3>2
    <2>4. \A n \in D \ {0} : size[next[n]] < size[n]
        <3> SUFFICES ASSUME NEW n \in D \ {0}
                     PROVE  size[next[n]] < size[n]
            OBVIOUS
        <3>1. next[n] = n - 1 /\ n - 1 \in D /\ n \in D
            OBVIOUS
        <3>2. size[n - 1] = n - 1 /\ size[n] = n
            BY <3>1
        <3> HIDE DEF next, size
        <3> QED BY <3>1, <3>2
    <2> HIDE DEF D, base, next, any, size
    <2> QED BY <2>1, <2>2, <2>3, <2>4 DEF Recurses
<1>2. PICK f : Computed(f, D, V, {0}, base, next, any)
    <2> HIDE DEF D, base, next, any, size
    <2> QED BY <1>1, RecursionDefined
<1>3. /\ f \in [D -> V]
      /\ \A n \in D : f[n] = IF n \in {0} THEN base[n] ELSE any[n][f[next[n]]]
    <2> HIDE DEF D, base, next, any, size
    <2> QED BY <1>2 DEF Computed
<1>4. \A n \in D : f[n] = IF n = 0 THEN b ELSE step[n][f[n-1]]
    <2> SUFFICES ASSUME NEW n \in D
                 PROVE  f[n] = IF n = 0 THEN b ELSE step[n][f[n-1]]
        OBVIOUS
    <2>1. CASE n = 0
        <3>1. base[n] = b
            OBVIOUS
        <3> HIDE DEF base, next, any
        <3> QED BY <1>3, <2>1, <3>1
    <2>2. CASE n # 0
        <3>1. next[n] = n - 1 /\ any[n] = step[n]
            BY <2>2
        <3> HIDE DEF base, next, any
        <3> QED BY <1>3, <2>2, <3>1
    <2> QED BY <2>1, <2>2
<1>5. f = [n \in 0 .. N |-> IF n = 0 THEN b ELSE step[n][f[n-1]]]
    <2>1. f = [n \in D |-> f[n]]
        BY <1>3
    <2> QED BY <1>4, <2>1
<1> QED BY <1>3, <1>5 DEF Iterates

\* The numbers of a sequence are bounded.
LEMMA SequenceBounded ==
    ASSUME NEW s \in Seq(Nat)
    PROVE  \E m \in Nat : \A i \in 1 .. Len(s) : s[i] <= m
<1> DEFINE Bounds(k) == {m \in Nat : \A i \in 1 .. k : s[i] <= m}
           T == {k \in 0 .. Len(s) : Bounds(k) = {}}
<1>1. Len(s) \in Nat /\ \A i \in 1 .. Len(s) : s[i] \in Nat
    OBVIOUS
<1>2. T = {}
    <2> SUFFICES ASSUME T # {}
                 PROVE  FALSE
        OBVIOUS
    <2>1. T \in SUBSET Nat
        BY <1>1
    <2>2. PICK k \in T : \A y \in T : k <= y
        <3> HIDE DEF T
        <3> QED BY <2>1, LeastNumber
    <2>3. k \in 0 .. Len(s) /\ Bounds(k) = {}
        OBVIOUS
    <2>4. k # 0
        <3>1. 0 \in Bounds(0)
            OBVIOUS
        <3> QED BY <2>3, <3>1
    <2>5. k - 1 \in 0 .. Len(s) /\ ~(k <= k - 1)
        BY <1>1, <2>3, <2>4
    <2>6. PICK m \in Nat : \A i \in 1 .. (k - 1) : s[i] <= m
        <3>1. k - 1 \notin T
            <4> HIDE DEF T
            <4> QED BY <2>2, <2>5
        <3> QED BY <2>5, <3>1
    <2>7. s[k] \in Nat
        BY <1>1, <2>3, <2>4
    <2> DEFINE n == IF s[k] <= m THEN m ELSE s[k]
    <2>8. n \in Nat /\ \A i \in 1 .. k : s[i] <= n
        <3>1. n \in Nat /\ m <= n /\ s[k] <= n
            BY <2>7
        <3>2. ASSUME NEW i \in 1 .. k
              PROVE  s[i] <= n
            <4>1. s[i] \in Nat
                BY <1>1, <2>3
            <4>2. i = k \/ i \in 1 .. (k - 1)
                BY <2>3
            <4> HIDE DEF n
            <4> QED BY <2>6, <3>1, <4>1, <4>2
        <3> QED BY <3>1, <3>2
    <2> HIDE DEF n
    <2> QED BY <2>3, <2>8
<1>3. Bounds(Len(s)) # {}
    BY <1>1, <1>2
<1> QED BY <1>3

\* One of the numbers of a sequence is the greatest.
LEMMA SequenceMaximum ==
    ASSUME NEW s \in Seq(Nat), s # <<>>
    PROVE  \E n \in {s[i] : i \in 1 .. Len(s)} : \A i \in 1 .. Len(s) : s[i] <= n
<1> DEFINE U == {m \in Nat : \A i \in 1 .. Len(s) : s[i] <= m}
<1>1. Len(s) \in Nat /\ Len(s) # 0 /\ \A i \in 1 .. Len(s) : s[i] \in Nat
    OBVIOUS
<1>2. U # {}
    BY SequenceBounded
<1>3. PICK m \in U : \A n \in U : m <= n
    <2>1. U \in SUBSET Nat
        OBVIOUS
    <2> HIDE DEF U
    <2> QED BY <1>2, <2>1, LeastNumber
<1>4. m \in Nat /\ \A i \in 1 .. Len(s) : s[i] <= m
    OBVIOUS
<1>5. \E i \in 1 .. Len(s) : s[i] = m
    <2> SUFFICES ASSUME \A i \in 1 .. Len(s) : s[i] # m
                 PROVE  FALSE
        OBVIOUS
    <2>1. \A i \in 1 .. Len(s) : s[i] < m
        BY <1>1, <1>4
    <2>2. m # 0
        <3>1. 1 \in 1 .. Len(s)
            BY <1>1
        <3> QED BY <1>1, <2>1, <3>1
    <2>3. m - 1 \in U
        BY <1>1, <1>4, <2>1, <2>2
    <2> QED BY <1>3, <1>4, <2>3
<1> QED BY <1>4, <1>5

-------------------------------------------------------------------------------
(* Filter: a recursive function, about which everything is proved by induction *)

\* The function by which Filter is computed is there: Filter is not a CHOOSE of nothing.
LEMMA FilterDefined ==
    ASSUME NEW S, NEW s \in Seq(S), NEW K
    PROVE  \E f : /\ f = [n \in 0 .. Len(s) |->
                            IF n = 0 THEN <<>>
                            ELSE IF s[n] \in K THEN Append(f[n - 1], s[n]) ELSE f[n - 1]]
<1> DEFINE Computes(f, k) ==
               f = [n \in 0 .. k |-> IF n = 0 THEN <<>>
                                     ELSE IF s[n] \in K THEN Append(f[n - 1], s[n]) ELSE f[n - 1]]
           T == {k \in Nat : \A f : ~Computes(f, k)}
<1>1. T = {}
    <2> SUFFICES ASSUME T # {}
                 PROVE  FALSE
        OBVIOUS
    <2>1. T \in SUBSET Nat
        OBVIOUS
    <2>2. PICK k \in T : \A y \in T : k <= y
        <3> HIDE DEF T
        <3> QED BY <2>1, LeastNumber
    <2>3. k \in Nat /\ \A f : ~Computes(f, k)
        OBVIOUS
    <2>4. CASE k = 0
        <3> DEFINE g == [n \in 0 .. 0 |-> <<>>]
        <3>1. g = [n \in 0 .. 0 |-> IF n = 0 THEN <<>>
                                    ELSE IF s[n] \in K THEN Append(g[n - 1], s[n]) ELSE g[n - 1]]
            OBVIOUS
        <3>2. Computes(g, k)
            BY <2>4, <3>1
        <3> QED BY <2>3, <3>2
    <2>5. CASE k # 0
        <3>1. k - 1 \in Nat /\ ~(k <= k - 1)
            BY <2>3, <2>5
        <3>2. k - 1 \notin T
            <4> HIDE DEF T
            <4> QED BY <2>2, <3>1
        <3>3. PICK f : Computes(f, k - 1)
            BY <3>1, <3>2
        <3> DEFINE last == IF s[k] \in K THEN Append(f[k - 1], s[k]) ELSE f[k - 1]
                   g == [n \in 0 .. k |-> IF n = k THEN last ELSE f[n]]
        <3>4. \A n \in 0 .. k - 1 : g[n] = f[n]
            BY <2>3, <3>1
        <3>5. \A n \in 0 .. k - 1 : f[n] = IF n = 0 THEN <<>>
                                           ELSE IF s[n] \in K THEN Append(f[n - 1], s[n]) ELSE f[n - 1]
            BY <3>3
        <3>6. g[k] = last
            BY <2>3
        <3>7. DOMAIN g = 0 .. k /\ g = [n \in 0 .. k |-> g[n]]
            OBVIOUS
        <3> HIDE DEF g
        <3>8. ASSUME NEW n \in 0 .. k
              PROVE  g[n] = IF n = 0 THEN <<>>
                            ELSE IF s[n] \in K THEN Append(g[n - 1], s[n]) ELSE g[n - 1]
            <4>1. CASE n = k
                <5>1. n # 0 /\ n - 1 \in 0 .. k - 1
                    BY <2>3, <2>5, <4>1
                <5>2. g[n - 1] = f[n - 1] /\ g[n] = last
                    BY <3>4, <3>6, <4>1, <5>1
                <5> QED BY <4>1, <5>1, <5>2
            <4>2. CASE n # k
                <5>1. n \in 0 .. k - 1 /\ (n # 0 => n - 1 \in 0 .. k - 1)
                    BY <2>3, <4>2
                <5>2. g[n] = f[n] /\ (n # 0 => g[n - 1] = f[n - 1])
                    BY <3>4, <5>1
                <5> QED BY <3>5, <5>1, <5>2
            <4> QED BY <4>1, <4>2
        <3>9. Computes(g, k)
            BY <3>7, <3>8
        <3> QED BY <2>3, <3>9
    <2> QED BY <2>4, <2>5
<1>2. Len(s) \in Nat /\ Len(s) \notin T
    BY <1>1
<1>3. \E f : Computes(f, Len(s))
    BY <1>2
<1> QED BY <1>3

\* How Filter is computed.
LEMMA FilterIs ==
    ASSUME NEW S, NEW s \in Seq(S), NEW K
    PROVE  \E f : /\ f[0] = <<>>
                  /\ \A n \in 1 .. Len(s) :
                        f[n] = IF s[n] \in K THEN Append(f[n - 1], s[n]) ELSE f[n - 1]
                  /\ Filter(s, K) = f[Len(s)]
<1> DEFINE Computes(f) == f = [n \in 0 .. Len(s) |->
                                 IF n = 0 THEN <<>>
                                 ELSE IF s[n] \in K THEN Append(f[n - 1], s[n]) ELSE f[n - 1]]
           kept == CHOOSE f : Computes(f)
<1>1. Filter(s, K) = kept[Len(s)]
    BY DEF Filter
<1>2. kept = [n \in 0 .. Len(s) |->
                 IF n = 0 THEN <<>>
                 ELSE IF s[n] \in K THEN Append(kept[n - 1], s[n]) ELSE kept[n - 1]]
    <2>1. \E f : Computes(f)
        BY FilterDefined, ZenonT(30)
    <2>2. Computes(kept)
        <3> HIDE DEF Computes
        <3> QED BY <2>1
    <2> HIDE DEF kept
    <2> QED BY <2>2
<1>3. Len(s) \in Nat
    OBVIOUS
<1> HIDE DEF kept
<1>4. kept[0] = <<>>
    BY <1>2, <1>3
<1>5. ASSUME NEW n \in 1 .. Len(s)
      PROVE  kept[n] = IF s[n] \in K THEN Append(kept[n - 1], s[n]) ELSE kept[n - 1]
    <2>1. n \in 0 .. Len(s) /\ n # 0
        BY <1>3
    <2> QED BY <1>2, <2>1
<1> QED BY <1>1, <1>4, <1>5

\* g says where in s the elements of t come from: in order, all that are in K.
Picks(g, t, s, n, K) ==
    /\ g \in [1 .. Len(t) -> 1 .. n]
    /\ \A i \in 1 .. Len(t) : t[i] = s[g[i]] /\ s[g[i]] \in K
    /\ \A i, j \in 1 .. Len(t) : i < j => g[i] < g[j]
    /\ \A m \in 1 .. n : s[m] \in K => \E i \in 1 .. Len(t) : g[i] = m

\* Filter leaves the elements that are in K, in their order.
LEMMA FilterPicks ==
    ASSUME NEW S, NEW s \in Seq(S), NEW K
    PROVE  /\ Filter(s, K) \in Seq(S)
           /\ \E g : Picks(g, Filter(s, K), s, Len(s), K)
<1>1. PICK f : /\ f[0] = <<>>
               /\ \A n \in 1 .. Len(s) :
                     f[n] = IF s[n] \in K THEN Append(f[n - 1], s[n]) ELSE f[n - 1]
               /\ Filter(s, K) = f[Len(s)]
    BY FilterIs
<1>2. Len(s) \in Nat /\ \A n \in 1 .. Len(s) : s[n] \in S
    OBVIOUS
<1> DEFINE Right(n) == f[n] \in Seq(S) /\ \E g : Picks(g, f[n], s, n, K)
           T == {n \in 0 .. Len(s) : ~Right(n)}
<1>3. Right(0)
    <2> DEFINE g == [i \in 1 .. 0 |-> 1]
    <2>1. f[0] \in Seq(S) /\ Len(f[0]) = 0
        BY <1>1
    <2>2. Picks(g, f[0], s, 0, K)
        BY <2>1 DEF Picks
    <2> QED BY <2>1, <2>2
<1>4. ASSUME NEW n \in 1 .. Len(s), Right(n - 1)
      PROVE  Right(n)
    <2> DEFINE t == f[n - 1]
    <2>1. t \in Seq(S) /\ Len(t) \in Nat
        BY <1>4
    <2>2. PICK g : Picks(g, t, s, n - 1, K)
        BY <1>4
    <2> HIDE DEF t
    <2>3. n \in Nat \ {0} /\ \A m \in 1 .. n : m = n \/ m \in 1 .. n - 1
        BY <1>2
    <2>4. CASE s[n] \notin K
        <3>1. f[n] = t
            BY <1>1, <2>4 DEF t
        <3>2. g \in [1 .. Len(t) -> 1 .. n]
            BY <2>1, <2>2, <2>3 DEF Picks
        <3>3. \A m \in 1 .. n : s[m] \in K => \E i \in 1 .. Len(t) : g[i] = m
            BY <2>2, <2>3, <2>4 DEF Picks
        <3>4. Picks(g, t, s, n, K)
            BY <2>2, <3>2, <3>3 DEF Picks
        <3> QED BY <2>1, <3>1, <3>4
    <2>5. CASE s[n] \in K
        <3> DEFINE u == Append(t, s[n])
                   g2 == [i \in 1 .. Len(t) + 1 |-> IF i = Len(t) + 1 THEN n ELSE g[i]]
        <3>1. f[n] = u
            BY <1>1, <2>5 DEF t
        <3>2. s[n] \in S
            BY <1>2
        <3>3. /\ u \in Seq(S) /\ Len(u) = Len(t) + 1 /\ u[Len(t) + 1] = s[n]
              /\ \A i \in 1 .. Len(t) : u[i] = t[i]
            BY <2>1, <3>2
        <3>4. \A i \in 1 .. Len(t) : g[i] \in 1 .. n - 1 /\ g2[i] = g[i]
            BY <2>1, <2>2 DEF Picks
        <3>5. g2[Len(t) + 1] = n /\ DOMAIN g2 = 1 .. Len(t) + 1
            BY <2>1
        <3>6. g2 \in [1 .. Len(t) + 1 -> 1 .. n]
            <4>1. ASSUME NEW i \in 1 .. Len(t) + 1
                  PROVE  (IF i = Len(t) + 1 THEN n ELSE g[i]) \in 1 .. n
                <5>1. i = Len(t) + 1 \/ i \in 1 .. Len(t)
                    BY <2>1
                <5>2. n \in 1 .. n /\ 1 .. n - 1 \subseteq 1 .. n
                    BY <2>3
                <5> QED BY <3>4, <5>1, <5>2
            <4> QED BY <4>1
        <3> HIDE DEF u, g2
        <3>7. \A i \in 1 .. Len(u) : i \in 1 .. Len(t) \/ i = Len(t) + 1
            BY <2>1, <3>3
        <3>8. \A i \in 1 .. Len(u) : u[i] = s[g2[i]] /\ s[g2[i]] \in K
            BY <2>2, <2>5, <3>3, <3>4, <3>5, <3>7 DEF Picks
        <3>9. \A i, j \in 1 .. Len(u) : i < j => g2[i] < g2[j]
            <4> SUFFICES ASSUME NEW i \in 1 .. Len(u), NEW j \in 1 .. Len(u), i < j
                         PROVE  g2[i] < g2[j]
                OBVIOUS
            <4>1. i \in 1 .. Len(t)
                BY <2>1, <3>3
            <4>2. CASE j = Len(t) + 1
                BY <2>3, <3>4, <3>5, <4>1, <4>2
            <4>3. CASE j \in 1 .. Len(t)
                BY <2>2, <3>4, <4>1, <4>3 DEF Picks
            <4> QED BY <3>7, <4>2, <4>3
        <3>10. \A m \in 1 .. n : s[m] \in K => \E i \in 1 .. Len(u) : g2[i] = m
            <4> SUFFICES ASSUME NEW m \in 1 .. n, s[m] \in K
                         PROVE  \E i \in 1 .. Len(u) : g2[i] = m
                OBVIOUS
            <4>1. CASE m = n
                <5>1. Len(t) + 1 \in 1 .. Len(u)
                    BY <2>1, <3>3
                <5> QED BY <3>5, <4>1, <5>1
            <4>2. CASE m \in 1 .. n - 1
                <5>1. PICK i \in 1 .. Len(t) : g[i] = m
                    BY <2>2, <4>2 DEF Picks
                <5>2. i \in 1 .. Len(u)
                    BY <2>1, <3>3
                <5> QED BY <3>4, <5>1, <5>2
            <4> QED BY <2>3, <4>1, <4>2
        <3>11. Picks(g2, u, s, n, K)
            BY <3>3, <3>6, <3>8, <3>9, <3>10 DEF Picks
        <3> QED BY <3>1, <3>3, <3>11
    <2> QED BY <2>4, <2>5
<1> HIDE DEF Right
<1>5. T = {}
    <2> SUFFICES ASSUME T # {}
                 PROVE  FALSE
        OBVIOUS
    <2>1. T \in SUBSET Nat
        BY <1>2
    <2>2. PICK n \in T : \A y \in T : n <= y
        <3> HIDE DEF T
        <3> QED BY <2>1, LeastNumber
    <2>3. n \in 0 .. Len(s) /\ ~Right(n)
        OBVIOUS
    <2>4. n # 0 /\ n \in 1 .. Len(s) /\ n - 1 \in 0 .. Len(s) /\ ~(n <= n - 1)
        BY <1>2, <1>3, <2>3
    <2>5. Right(n - 1)
        <3>1. n - 1 \notin T
            <4> HIDE DEF T
            <4> QED BY <2>2, <2>4
        <3> QED BY <2>4, <3>1
    <2> HIDE DEF T
    <2> QED BY <1>4, <2>3, <2>4, <2>5
<1>6. Right(Len(s))
    BY <1>2, <1>5
<1> QED BY <1>1, <1>6 DEF Right

\* What is in Filter(s, K), and that it holds nothing twice that s does not.
LEMMA FilterFacts ==
    ASSUME NEW S, NEW s \in Seq(S), NEW K
    PROVE  /\ Filter(s, K) \in Seq(S)
           /\ \A i \in 1 .. Len(Filter(s, K)) :
                 Filter(s, K)[i] \in K /\ \E j \in 1 .. Len(s) : Filter(s, K)[i] = s[j]
           /\ \A j \in 1 .. Len(s) : s[j] \in K => \E i \in 1 .. Len(Filter(s, K)) : Filter(s, K)[i] = s[j]
           /\ (\A i, j \in 1 .. Len(s) : s[i] = s[j] => i = j)
              => \A i, j \in 1 .. Len(Filter(s, K)) : Filter(s, K)[i] = Filter(s, K)[j] => i = j
<1>1. PICK t \in Seq(S) : t = Filter(s, K) /\ Len(t) \in Nat
    BY FilterPicks
<1>2. PICK g : Picks(g, t, s, Len(s), K)
    BY <1>1, FilterPicks
<1>3. \A i \in 1 .. Len(t) : g[i] \in 1 .. Len(s) /\ t[i] = s[g[i]] /\ t[i] \in K
    BY <1>2 DEF Picks
<1>4. \A j \in 1 .. Len(s) : s[j] \in K => \E i \in 1 .. Len(t) : t[i] = s[j]
    BY <1>2 DEF Picks
<1>5. ASSUME \A i, j \in 1 .. Len(s) : s[i] = s[j] => i = j,
             NEW i \in 1 .. Len(t), NEW j \in 1 .. Len(t), t[i] = t[j]
      PROVE  i = j
    <2>1. g[i] = g[j]
        <3>1. g[i] \in 1 .. Len(s) /\ g[j] \in 1 .. Len(s) /\ s[g[i]] = s[g[j]]
            BY <1>3, <1>5
        <3> QED BY <1>5, <3>1
    <2>2. g[i] \in Int /\ i \in Int /\ j \in Int /\ ~(i < j) /\ ~(j < i)
        BY <1>2, <1>3, <2>1 DEF Picks
    <2> QED BY <2>2
<1> QED BY <1>1, <1>3, <1>4, <1>5

\* How many elements of the first n of a sequence Filter leaves: as many as are in K.
LEMMA FilterCount ==
    ASSUME NEW S, NEW s \in Seq(S), NEW K, NEW n \in 0 .. Len(s)
    PROVE  LET t == Filter(s, K)
               kept == {m \in 1 .. n : s[m] \in K}
           IN  /\ IsFiniteSet(kept) /\ Cardinality(kept) \in 0 .. Len(t)
               /\ \E g : /\ Picks(g, t, s, Len(s), K)
                         /\ \A i \in 1 .. Len(t) : g[i] <= n <=> i <= Cardinality(kept)
<1> DEFINE kept == {m \in 1 .. n : s[m] \in K}
<1>1. PICK t \in Seq(S) : t = Filter(s, K)
    BY FilterPicks
<1>2. PICK g : Picks(g, t, s, Len(s), K)
    BY <1>1, FilterPicks
<1>3. Len(t) \in Nat /\ Len(s) \in Nat /\ n \in Nat /\ n <= Len(s)
    OBVIOUS
<1>4. \A i \in 1 .. Len(t) : g[i] \in 1 .. Len(s) /\ s[g[i]] \in K
    BY <1>2 DEF Picks
<1>5. \A i, j \in 1 .. Len(t) : i < j => g[i] < g[j]
    BY <1>2 DEF Picks
<1> DEFINE T == {i \in 1 .. Len(t) : ~(g[i] <= n)} \cup {Len(t) + 1}
<1>6. PICK a \in T : \A b \in T : a <= b
    <2>1. T \in SUBSET Nat /\ T # {}
        BY <1>3
    <2> HIDE DEF T
    <2> QED BY <2>1, LeastNumber
<1>7. a \in 1 .. Len(t) + 1
    BY <1>3, <1>6
<1>8. ASSUME NEW i \in 1 .. Len(t)
      PROVE  g[i] <= n <=> i < a
    <2>1. ASSUME i < a PROVE g[i] <= n
        <3>1. i \notin T
            <4> HIDE DEF T
            <4> QED BY <1>3, <1>6, <1>7, <2>1
        <3> QED BY <3>1
    <2>2. ASSUME ~(i < a) PROVE ~(g[i] <= n)
        <3>1. a \in 1 .. Len(t) /\ ~(g[a] <= n)
            BY <1>3, <1>6, <1>7, <2>2
        <3>2. g[a] <= g[i] /\ g[a] \in Nat /\ g[i] \in Nat
            <4>1. a = i \/ a < i
                BY <1>7, <2>2
            <4> QED BY <1>4, <1>5, <3>1, <4>1
        <3> QED BY <1>3, <3>1, <3>2
    <2> QED BY <2>1, <2>2
<1> HIDE DEF T
<1> DEFINE h == [i \in 1 .. a - 1 |-> g[i]]
<1>9. ExistsBijection(1 .. a - 1, kept)
    <2>1. \A i \in 1 .. a - 1 : i \in 1 .. Len(t) /\ i < a /\ h[i] = g[i]
        BY <1>3, <1>7
    <2>2. h \in [1 .. a - 1 -> kept]
        <3>1. \A i \in 1 .. a - 1 : g[i] \in kept
            BY <1>3, <1>4, <1>8, <2>1
        <3> QED BY <3>1
    <2>3. \A i, j \in 1 .. a - 1 : h[i] = h[j] => i = j
        <3> SUFFICES ASSUME NEW i \in 1 .. a - 1, NEW j \in 1 .. a - 1, i # j
                     PROVE  h[i] # h[j]
            OBVIOUS
        <3>1. i < j \/ j < i
            BY <1>7
        <3>2. g[i] \in Nat /\ g[j] \in Nat /\ (g[i] < g[j] \/ g[j] < g[i])
            BY <1>4, <1>5, <2>1, <3>1
        <3> QED BY <2>1, <3>2
    <2>4. \A m \in kept : \E i \in 1 .. a - 1 : h[i] = m
        <3> SUFFICES ASSUME NEW m \in kept
                     PROVE  \E i \in 1 .. a - 1 : h[i] = m
            OBVIOUS
        <3>1. m \in 1 .. Len(s) /\ s[m] \in K /\ m <= n
            BY <1>3
        <3>2. PICK i \in 1 .. Len(t) : g[i] = m
            BY <1>2, <3>1 DEF Picks
        <3>3. i \in 1 .. a - 1
            BY <1>3, <1>7, <1>8, <3>1, <3>2
        <3> QED BY <2>1, <3>2, <3>3
    <2> HIDE DEF h
    <2>5. h \in Bijection(1 .. a - 1, kept)
        BY <2>2, <2>3, <2>4, Fun_IsBij
    <2> QED BY <2>5 DEF ExistsBijection
<1>10. a - 1 \in Nat /\ a - 1 \in 0 .. Len(t)
    BY <1>3, <1>7
<1>11. Cardinality(kept) = a - 1 /\ IsFiniteSet(kept)
    BY <1>9, <1>10, FS_CountingElements, FS_NatBijection
<1>12. \A i \in 1 .. Len(t) : g[i] <= n <=> i <= Cardinality(kept)
    BY <1>7, <1>8, <1>11
<1> HIDE DEF kept
<1> QED BY <1>1, <1>2, <1>10, <1>11, <1>12 DEF kept
==============================================================================
