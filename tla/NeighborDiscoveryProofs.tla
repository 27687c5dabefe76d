----------------------- MODULE NeighborDiscoveryProofs -----------------------
(* Proofs about the neighbour discovery of one node, its timers and the    *)
(* entries of its lists, for any number of neighbours and interfaces and   *)
(* any intervals.                                                          *)
EXTENDS NeighborDiscovery, ListLemmas, FiniteSetTheorems

-----------------------------------------------------------------------------
(* Lists.                                                                  *)

(* r has the elements of s at the positions in T up to k, each at that of  *)
(* p, in their order and none later than it was; those before the first    *)
(* that is left out have not moved.                                        *)
Picks(r, s, T, k, p) ==
    /\ Len(r) <= k /\ p \in [1..Len(r) -> T \cap 1..k]
    /\ \A j \in 1..Len(r) : r[j] = s[p[j]] /\ j <= p[j]
    /\ \A i, j \in 1..Len(r) : i < j => p[i] < p[j]
    /\ \A x \in T \cap 1..k : \E j \in 1..Len(r) : p[j] = x
    /\ \A x \in 1..k : 1..x \subseteq T => x <= Len(r) /\ \A j \in 1..x : p[j] = j

LEMMA ElementsAtFacts ==
    ASSUME NEW S, NEW s \in Seq(S), NEW T
    PROVE  /\ ElementsAt(s, T) \in Seq(S)
           /\ \E p : Picks(ElementsAt(s, T), s, T, Len(s), p)
  <1> DEFINE n == Len(s)
             rec(f) == f = [k \in 0..n |->
                              IF k = 0 THEN <<>>
                              ELSE IF k \in T THEN Append(f[k - 1], s[k]) ELSE f[k - 1]]
             chosen(k, r, p) == r \in Seq(S) /\ Picks(r, s, T, k, p)
  <1>1. n \in Nat /\ DOMAIN s = 1..n
    OBVIOUS
  <1>2. \E f : rec(f)
    <2> DEFINE step == [i \in 1..n |-> [q \in Seq(S) |-> IF i \in T THEN Append(q, s[i]) ELSE q]]
    <2>1. step \in [1..n -> [Seq(S) -> Seq(S)]]
      BY <1>1
    <2>2. \A i \in 1..n, q \in Seq(S) : step[i][q] = IF i \in T THEN Append(q, s[i]) ELSE q
      OBVIOUS
    <2> HIDE DEF step, n
    <2>3. PICK g : /\ g \in [0..n -> Seq(S)] /\ g[0] = <<>>
                   /\ \A i \in 1..n : g[i] = step[i][g[i - 1]]
      <3>1. <<>> \in Seq(S)
        OBVIOUS
      <3>2. \E g : Computes(g, n, Seq(S), <<>>, step)
        BY <1>1, <2>1, <3>1, Recursion
      <3> QED
        BY <3>2 DEF Computes
    <2>4. \A k \in 0..n : g[k] = IF k = 0 THEN <<>>
                                 ELSE IF k \in T THEN Append(g[k - 1], s[k]) ELSE g[k - 1]
      <3> TAKE k \in 0..n
      <3>1. CASE k = 0
        BY <2>3, <3>1
      <3>2. CASE k # 0
        <4>1. k \in 1..n /\ k - 1 \in 0..n
          BY <1>1, <3>2
        <4>2. g[k - 1] \in Seq(S) /\ g[k] = step[k][g[k - 1]]
          BY <2>3, <4>1
        <4> QED
          BY <2>2, <3>2, <4>1, <4>2
      <3> QED
        BY <3>1, <3>2
    <2> QED
      BY <2>3, <2>4
  <1> DEFINE f == CHOOSE g : rec(g)
  <1>3. rec(f)
    <2> HIDE DEF rec
    <2> QED
      BY <1>2
  <1>4. ElementsAt(s, T) = f[n]
    BY DEF ElementsAt
  <1> HIDE DEF f, n
  <1>9. \A k \in 0..n : f[k] = IF k = 0 THEN <<>>
                               ELSE IF k \in T THEN Append(f[k - 1], s[k]) ELSE f[k - 1]
    BY <1>3
  <1> HIDE DEF rec
  <1> DEFINE R == {k \in 0..n : \E p : chosen(k, f[k], p)}
  <1>5. 0 \in R
    <2> DEFINE p == [j \in {} |-> 0]
    <2>1. f[0] = <<>>
      BY <1>1, <1>9
    <2>2. chosen(0, f[0], p)
      BY <2>1 DEF Picks
    <2> HIDE DEF chosen, p
    <2> QED
      BY <1>1, <2>2
  <1>6. \A k \in 1..n : k - 1 \in R => k \in R
    <2> SUFFICES ASSUME NEW k \in 1..n, NEW p, chosen(k - 1, f[k - 1], p)
                 PROVE  \E q : chosen(k, f[k], q)
      <3> HIDE DEF chosen
      <3> QED
        BY <1>1
    <2> DEFINE r == f[k - 1]
               m == Len(r)
               q == [j \in 1..m + 1 |-> IF j = m + 1 THEN k ELSE p[j]]
               u == Append(r, s[k])
    <2>1. f[k] = IF k \in T THEN u ELSE r
      BY <1>1, <1>9
    <2>2. r \in Seq(S) /\ m \in Nat /\ m <= k - 1 /\ p \in [1..m -> T \cap 1..k - 1]
      BY DEF Picks
    <2>3. \A j \in 1..m : r[j] = s[p[j]] /\ j <= p[j]
      BY DEF Picks
    <2>4. \A i, j \in 1..m : i < j => p[i] < p[j]
      BY DEF Picks
    <2>5. \A x \in T \cap 1..k - 1 : \E j \in 1..m : p[j] = x
      BY DEF Picks
    <2>6. \A x \in 1..k - 1 : 1..x \subseteq T => x <= m /\ \A j \in 1..x : p[j] = j
      BY DEF Picks
    <2>7. k \in Nat /\ \A x \in 1..k : x = k \/ x \in 1..k - 1
      BY <1>1
    <2>8. s[k] \in S
      BY <1>1
    <2>9. CASE k \notin T
      <3>1. p \in [1..m -> T \cap 1..k]
        BY <2>2, <2>7, <2>9
      <3>2. \A x \in T \cap 1..k : \E j \in 1..m : p[j] = x
        BY <2>5, <2>7, <2>9
      <3>3. \A x \in 1..k : 1..x \subseteq T => x <= m /\ \A j \in 1..x : p[j] = j
        BY <2>6, <2>7, <2>9
      <3>4. chosen(k, r, p)
        BY <2>2, <2>3, <2>4, <2>7, <3>1, <3>2, <3>3 DEF Picks
      <3> HIDE DEF chosen, r
      <3> QED
        BY <2>1, <2>9, <3>4
    <2>10. CASE k \in T
      <3> HIDE DEF chosen, r
      <3>3. u \in Seq(S) /\ Len(u) = m + 1 /\ \A j \in 1..m + 1 : u[j] = IF j = m + 1 THEN s[k] ELSE r[j]
        BY <2>2, <2>8
      <3> HIDE DEF m
      <3>4. q \in [1..m + 1 -> T \cap 1..k]
        BY <2>2, <2>7, <2>10
      <3>5. q[m + 1] = k /\ \A j \in 1..m : q[j] = p[j]
        BY <2>2
      <3>0. \A j \in 1..m + 1 : j = m + 1 \/ j \in 1..m
        BY <2>2
      <3> HIDE DEF q, u
      <3>6. ASSUME NEW j \in 1..m + 1
            PROVE  u[j] = s[q[j]] /\ j <= q[j]
        <4>1. CASE j = m + 1
          BY <2>2, <2>7, <3>3, <3>5, <4>1
        <4>2. CASE j \in 1..m
          BY <2>2, <2>3, <3>3, <3>5, <4>2
        <4> QED
          BY <3>0, <4>1, <4>2
      <3>7. ASSUME NEW i \in 1..m + 1, NEW j \in 1..m + 1, i < j
            PROVE  q[i] < q[j]
        <4>1. i \in 1..m /\ q[i] = p[i] /\ p[i] \in 1..k - 1
          BY <2>2, <3>5, <3>7
        <4>2. CASE j = m + 1
          BY <2>7, <3>5, <4>1, <4>2
        <4>3. CASE j \in 1..m
          BY <2>4, <3>5, <3>7, <4>1, <4>3
        <4> QED
          BY <3>0, <4>2, <4>3
      <3>8. ASSUME NEW x \in T \cap 1..k
            PROVE  \E j \in 1..m + 1 : q[j] = x
        <4>1. CASE x = k
          BY <2>2, <3>5, <4>1
        <4>2. CASE x \in 1..k - 1
          <5>1. PICK j \in 1..m : p[j] = x
            BY <2>5, <4>2
          <5>2. j \in 1..m + 1 /\ q[j] = x
            BY <2>2, <3>5, <5>1
          <5> QED
            BY <5>2
        <4> QED
          BY <2>7, <4>1, <4>2
      <3>9. ASSUME NEW x \in 1..k, 1..x \subseteq T
            PROVE  x <= m + 1 /\ \A j \in 1..x : q[j] = j
        <4>1. CASE x \in 1..k - 1
          <5>1. x <= m /\ \A j \in 1..x : p[j] = j
            BY <2>6, <3>9, <4>1
          <5>2. \A j \in 1..x : j \in 1..m
            BY <2>2, <2>7, <5>1
          <5> QED
            BY <2>2, <2>7, <3>5, <5>1, <5>2
        <4>2. CASE x = k
          <5>1. k - 1 <= m /\ \A j \in 1..k - 1 : p[j] = j
            <6>1. CASE k = 1
              BY <2>2, <6>1
            <6>2. CASE k # 1
              BY <2>6, <2>7, <3>9, <4>2, <6>2
            <6> QED
              BY <6>1, <6>2
          <5>2. m <= k - 1
            <6> SUFFICES ASSUME k <= m
                         PROVE  FALSE
              BY <2>2, <2>7
            <6>1. k \in 1..m /\ p[k] \in 1..k - 1
              BY <2>2, <2>7
            <6>2. p[k] \in 1..m /\ p[k] < k
              BY <2>2, <2>7, <6>1
            <6>3. p[p[k]] = p[k] /\ p[p[k]] < p[k]
              BY <2>4, <5>1, <6>1, <6>2
            <6> QED
              BY <6>1, <6>3
          <5> QED
            BY <2>2, <2>7, <3>0, <3>5, <4>2, <5>1, <5>2
        <4> QED
          BY <2>7, <4>1, <4>2
      <3>10. chosen(k, u, q)
        <4>1. m + 1 <= k
          BY <2>2, <2>7
        <4> QED
          BY <3>3, <3>4, <3>6, <3>7, <3>8, <3>9, <4>1 DEF chosen, Picks
      <3> QED
        BY <2>1, <2>10, <3>10
    <2> QED
      BY <2>9, <2>10
  <1>7. n \in R
    <2> HIDE DEF R
    <2> QED
      BY <1>1, <1>5, <1>6, Upward
  <1>8. PICK p : chosen(n, f[n], p)
    BY <1>7
  <1> QED
    BY <1>1, <1>4, <1>8

-----------------------------------------------------------------------------
(* The list of timers.                                                     *)
TimerRecord ==
    [type : {"HELLO", "ENTRY"}, data : Nodes \cup {NoNode}, contain : Ifs,
     timeout : -Lag..Off - 1]

TimerLists == {q \in Seq(TimerRecord) : Sorted(q)}

LEMMA Intervals ==
    /\ Off = 1000 /\ Lag \in Nat
    /\ LiveTime \in -Lag..Off - 1 /\ LiveTime > 0
    /\ HelloInterval \in -Lag..Off - 1 /\ HelloInterval > 0
  BY DiscoveryAssumption DEF Off

LEMMA NewTimers ==
    ASSUME NEW i \in Ifs
    PROVE  /\ HelloTimer(i) \in TimerRecord
           /\ HelloTimer(i).type = "HELLO" /\ HelloTimer(i).timeout > 0
           /\ \A n \in Nodes : /\ EntryTimer(n, i) \in TimerRecord
                               /\ EntryTimer(n, i).type = "ENTRY"
                               /\ EntryTimer(n, i).data = n /\ EntryTimer(n, i).contain = i
  BY Intervals DEF HelloTimer, EntryTimer, Timer, TimerRecord

(* A new timer goes in at one position and leaves the list in order.       *)
LEMMA TimerAddFacts ==
    ASSUME NEW q \in TimerLists, NEW t \in TimerRecord
    PROVE  /\ TimerAdd(q, t) \in TimerLists
           /\ \E i \in 1..Len(q) + 1 : Inserted(TimerAdd(q, t), q, i, t)
  <1>1. TimerAdd(q, t) = InOrder(q, t)
    BY DEF TimerAdd, InOrder
  <1>2. \A x \in TimerRecord : x.timeout \in Int
    BY Intervals DEF TimerRecord
  <1>3. q \in Seq(TimerRecord) /\ Sorted(q)
    BY DEF TimerLists
  <1> QED
    BY <1>1, <1>2, <1>3, InOrderFacts, StaysSorted DEF TimerLists

(* Timers of the entry of a neighbour: that there is one, and not two; and *)
(* that none of the list is due.                                           *)
IsEntry(t, n, i) == t.type = "ENTRY" /\ t.data = n /\ t.contain = i
Has(q, n, i) == \E k \in DOMAIN q : IsEntry(q[k], n, i)
Once(q, n, i) == \A j, k \in DOMAIN q : IsEntry(q[j], n, i) /\ IsEntry(q[k], n, i) => j = k
Early(q) == \A k \in DOMAIN q : q[k].timeout > 0

LEMMA AddedFacts ==
    ASSUME NEW q \in TimerLists, NEW t \in TimerRecord
    PROVE  /\ TimerAdd(q, t) # <<>>
           /\ TimerAdd(q, t)[1] = t \/ (q # <<>> /\ TimerAdd(q, t)[1] = q[1])
           /\ Early(q) /\ t.timeout > 0 => Early(TimerAdd(q, t))
           /\ \A n, i : IF IsEntry(t, n, i)
                        THEN /\ Has(TimerAdd(q, t), n, i)
                             /\ ~Has(q, n, i) => Once(TimerAdd(q, t), n, i)
                        ELSE /\ Has(TimerAdd(q, t), n, i) = Has(q, n, i)
                             /\ Once(q, n, i) => Once(TimerAdd(q, t), n, i)
  <1> DEFINE r == TimerAdd(q, t)
             m == Len(q)
  <1>1. r \in TimerLists /\ m \in Nat /\ DOMAIN q = 1..m
    BY TimerAddFacts DEF TimerLists
  <1>2. PICK p \in 1..m + 1 : Inserted(r, q, p, t)
    BY TimerAddFacts
  <1>3. /\ Len(r) = m + 1 /\ DOMAIN r = 1..m + 1
        /\ \A j \in 1..m + 1 : r[j] = IF j < p THEN q[j] ELSE IF j = p THEN t ELSE q[j - 1]
    BY <1>1, <1>2 DEF Inserted, TimerLists
  <1> DEFINE at(j) == IF j < p THEN j ELSE j + 1
             back(j) == IF j < p THEN j ELSE j - 1
  <1> HIDE DEF r, m
  <1>4. \A j \in 1..m : at(j) \in 1..m + 1 /\ r[at(j)] = q[j]
    BY <1>1, <1>3
  <1>5. \A j \in 1..m + 1 : j # p => back(j) \in 1..m /\ r[j] = q[back(j)]
    BY <1>1, <1>3
  <1>6. \A j, k \in 1..m + 1 : j # p /\ k # p /\ back(j) = back(k) => j = k
    BY <1>1
  <1>7. r[p] = t
    BY <1>1, <1>3
  <1>8. r # <<>> /\ (r[1] = t \/ (q # <<>> /\ r[1] = q[1]))
    <2>1. 1 \in 1..m + 1 /\ (p = 1 \/ (1 < p /\ 1 \in 1..m))
      BY <1>1
    <2>2. r # <<>>
      BY <1>1, <1>3
    <2> QED
      BY <1>1, <1>3, <2>1, <2>2
  <1>9. Early(q) /\ t.timeout > 0 => Early(r)
    BY <1>1, <1>3, <1>5, <1>7 DEF Early
  <1>10. ASSUME NEW n, NEW i
         PROVE  IF IsEntry(t, n, i)
                THEN Has(r, n, i) /\ (~Has(q, n, i) => Once(r, n, i))
                ELSE Has(r, n, i) = Has(q, n, i) /\ (Once(q, n, i) => Once(r, n, i))
    <2> HIDE DEF at, back
    <2>1. CASE IsEntry(t, n, i)
      <3>1. Has(r, n, i)
        BY <1>1, <1>3, <1>7, <2>1 DEF Has
      <3>2. ASSUME ~Has(q, n, i), NEW j \in 1..m + 1, IsEntry(r[j], n, i)
            PROVE  j = p
        BY <1>1, <1>5, <3>2 DEF Has
      <3> QED
        BY <1>3, <2>1, <3>1, <3>2 DEF Once
    <2>2. CASE ~IsEntry(t, n, i)
      <3>1. \A j \in 1..m + 1 : IsEntry(r[j], n, i) => j # p
        BY <1>7, <2>2
      <3>2. Has(r, n, i) => Has(q, n, i)
        BY <1>1, <1>3, <1>5, <3>1 DEF Has
      <3>3. Has(q, n, i) => Has(r, n, i)
        BY <1>1, <1>3, <1>4 DEF Has
      <3>4. Once(q, n, i) => Once(r, n, i)
        BY <1>1, <1>3, <1>5, <1>6, <3>1 DEF Once
      <3>5. Has(r, n, i) \in BOOLEAN /\ Has(q, n, i) \in BOOLEAN
        BY DEF Has
      <3> QED
        BY <2>2, <3>2, <3>3, <3>4, <3>5
    <2> QED
      BY <2>1, <2>2
  <1> QED
    BY <1>8, <1>9, <1>10 DEF r

(* The timers that are due are the first ones.                             *)
LEMMA DueFacts ==
    ASSUME timerQ \in TimerLists
    PROVE  /\ Cardinality(DueTimers) \in 0..Len(timerQ)
           /\ DueTimers = 1..Cardinality(DueTimers)
  <1> DEFINE m == Len(timerQ)
             R == {k \in 1..m + 1 : k = m + 1 \/ timerQ[k].timeout > 0}
  <1>1. m \in Nat /\ DOMAIN timerQ = 1..m /\ Sorted(timerQ)
    BY DEF TimerLists
  <1>2. \A k \in 1..m : timerQ[k].timeout \in Int
    <2>1. \A x \in TimerRecord : x.timeout \in Int
      BY Intervals DEF TimerRecord
    <2> QED
      BY <2>1 DEF TimerLists
  <1> HIDE DEF m
  <1>3. PICK x \in R : \A y \in R : x <= y
    <2>1. R \in SUBSET Nat /\ m + 1 \in R
      BY <1>1
    <2> HIDE DEF R
    <2> QED
      BY <2>1, Least
  <1>4. x \in 1..m + 1
    OBVIOUS
  <1>5. ASSUME NEW k \in 1..m
        PROVE  timerQ[k].timeout <= 0 <=> k \in 1..x - 1
    <2>1. CASE k < x
      <3>1. k \notin R
        BY <1>1, <1>3, <1>4, <2>1
      <3> QED
        BY <1>1, <1>2, <1>4, <2>1, <3>1
    <2>2. CASE k >= x
      <3>1. x \in 1..m /\ timerQ[x].timeout > 0
        BY <1>1, <1>4, <2>2
      <3>2. timerQ[x].timeout <= timerQ[k].timeout
        BY <1>1, <1>2, <1>4, <2>2, <3>1 DEF Sorted
      <3> QED
        BY <1>1, <1>2, <1>4, <2>2, <3>1, <3>2
    <2> QED
      BY <1>1, <1>4, <2>1, <2>2
  <1>6. DueTimers = 1..x - 1
    BY <1>1, <1>4, <1>5 DEF DueTimers
  <1>7. Cardinality(1..x - 1) = x - 1
    <2>1. 1 \in Int /\ x - 1 \in Int
      BY <1>1, <1>4
    <2>2. Cardinality(1..x - 1) = IF 1 > x - 1 THEN 0 ELSE (x - 1) - 1 + 1
      BY <2>1, FS_Interval
    <2> QED
      BY <1>1, <1>4, <2>2
  <1> QED
    BY <1>1, <1>4, <1>6, <1>7 DEF m

(* A timer of the entry is due.                                            *)
DueFor(n, i) == \E k \in DueTimers : IsEntry(timerQ[k], n, i)

Rest == SubSeq(timerQ, Cardinality(DueTimers) + 1, Len(timerQ))

LEMMA RestElements ==
    ASSUME timerQ \in TimerLists
    PROVE  LET c == Cardinality(DueTimers) IN
           /\ Rest \in Seq(TimerRecord) /\ Len(Rest) = Len(timerQ) - c
           /\ \A j \in 1..Len(timerQ) - c : Rest[j] = timerQ[c + j]
  BY DueFacts, BehindFacts DEF TimerLists, Rest

LEMMA RestFacts ==
    ASSUME timerQ \in TimerLists
    PROVE  /\ Rest \in TimerLists /\ Early(Rest)
           /\ \A n, i : /\ Has(Rest, n, i) => Has(timerQ, n, i)
                        /\ Has(timerQ, n, i) /\ ~DueFor(n, i) => Has(Rest, n, i)
                        /\ Once(timerQ, n, i) => /\ Once(Rest, n, i)
                                                 /\ DueFor(n, i) => ~Has(Rest, n, i)
  <1> DEFINE m == Len(timerQ)
             c == Cardinality(DueTimers)
             r == Rest
  <1>1. timerQ \in Seq(TimerRecord) /\ m \in Nat /\ DOMAIN timerQ = 1..m /\ Sorted(timerQ)
    BY DEF TimerLists
  <1>2. c \in 0..m /\ DueTimers = 1..c
    BY DueFacts
  <1> HIDE DEF c, r
  <1>3. /\ r \in Seq(TimerRecord) /\ Len(r) = m - c
        /\ \A j \in 1..m - c : r[j] = timerQ[c + j]
    BY RestElements DEF r, c
  <1>4. DOMAIN r = 1..m - c
    BY <1>3
  <1> HIDE DEF m
  <1>5. \A j \in 1..m - c : c + j \in 1..m /\ c + j \notin 1..c
    BY <1>1, <1>2
  <1>6. \A k \in 1..m : k \notin 1..c => k - c \in 1..m - c /\ timerQ[k] = r[k - c]
    BY <1>1, <1>2, <1>3
  <1>7. Sorted(r)
    <2> SUFFICES ASSUME NEW j \in 1..m - c, NEW k \in 1..m - c, j < k
                 PROVE  r[j].timeout <= r[k].timeout
      BY <1>4 DEF Sorted
    <2>1. c + j < c + k
      BY <1>1, <1>2
    <2> QED
      BY <1>1, <1>3, <1>5, <2>1 DEF Sorted
  <1>8. Early(r)
    <2> SUFFICES ASSUME NEW j \in 1..m - c
                 PROVE  r[j].timeout > 0
      BY <1>4 DEF Early
    <2>1. ~(timerQ[c + j].timeout <= 0)
      BY <1>1, <1>2, <1>5 DEF DueTimers
    <2>2. r[j].timeout \in Int
      <3>1. \A x \in TimerRecord : x.timeout \in Int
        BY Intervals DEF TimerRecord
      <3> QED
        BY <1>3, <3>1
    <2> QED
      BY <1>3, <2>1, <2>2
  <1>9. ASSUME NEW n, NEW i
        PROVE  /\ Has(r, n, i) => Has(timerQ, n, i)
               /\ Has(timerQ, n, i) /\ ~DueFor(n, i) => Has(r, n, i)
               /\ Once(timerQ, n, i) => Once(r, n, i) /\ (DueFor(n, i) => ~Has(r, n, i))
    <2>1. Has(r, n, i) => Has(timerQ, n, i)
      BY <1>1, <1>3, <1>4, <1>5 DEF Has
    <2>2. Has(timerQ, n, i) /\ ~DueFor(n, i) => Has(r, n, i)
      BY <1>1, <1>2, <1>4, <1>6 DEF Has, DueFor
    <2>3. ASSUME Once(timerQ, n, i), NEW j \in 1..m - c, NEW k \in 1..m - c,
                 IsEntry(r[j], n, i), IsEntry(r[k], n, i)
          PROVE  j = k
      <3>1. c + j = c + k
        BY <1>1, <1>3, <1>5, <2>3 DEF Once
      <3> QED
        BY <1>1, <1>2, <3>1
    <2>4. ASSUME Once(timerQ, n, i), DueFor(n, i), Has(r, n, i)
          PROVE  FALSE
      <3>1. PICK j \in 1..m - c : IsEntry(r[j], n, i)
        BY <1>4, <2>4 DEF Has
      <3>2. PICK k \in 1..c : IsEntry(timerQ[k], n, i)
        BY <1>2, <2>4 DEF DueFor
      <3>3. k \in 1..m /\ k # c + j
        BY <1>1, <1>2
      <3> QED
        BY <1>1, <1>3, <1>5, <2>4, <3>1, <3>2, <3>3 DEF Once
    <2>5. Once(timerQ, n, i) => Once(r, n, i)
      BY <1>4, <2>3 DEF Once
    <2> QED
      BY <2>1, <2>2, <2>4, <2>5
  <1> QED
    BY <1>1, <1>3, <1>7, <1>8, <1>9 DEF r, TimerLists

(* Only timers of hello messages are added, none of them due.              *)
Helloed(q, r) ==
    /\ r \in TimerLists
    /\ Early(q) => Early(r)
    /\ \A n, i : /\ Has(r, n, i) = Has(q, n, i)
                 /\ Once(q, n, i) => Once(r, n, i)

LEMMA HelloedTwice ==
    ASSUME NEW p, NEW q, NEW r, Helloed(p, q), Helloed(q, r)
    PROVE  Helloed(p, r)
  BY DEF Helloed

LEMMA AddHelloFacts ==
    ASSUME hello \in [Ifs -> BOOLEAN], NEW q \in TimerLists, NEW i \in Ifs
    PROVE  Helloed(q, AddHello(q, i))
  <1>1. \A n, j : ~IsEntry(HelloTimer(i), n, j)
    BY NewTimers DEF IsEntry
  <1>2. CASE hello[i]
    BY <1>1, <1>2, NewTimers, TimerAddFacts, AddedFacts DEF AddHello, Helloed
  <1>3. CASE ~hello[i]
    BY <1>3 DEF AddHello, Helloed
  <1> QED
    BY <1>2, <1>3

(* The chains that start_discovery and the signal handler add to a list.   *)
LEMMA StartedFacts ==
    ASSUME hello \in [Ifs -> BOOLEAN]
    PROVE  /\ Helloed(<<>>, Started[Len(Interfaces)])
           /\ Started[Len(Interfaces)] # <<>> => Started[Len(Interfaces)][1].timeout = HelloInterval
  <1> DEFINE n == Len(Interfaces)
             rec(f) == f = [k \in 0..n |-> IF k = 0 THEN <<>> ELSE AddHello(f[k - 1], Interfaces[k])]
             step == [k \in 1..n |-> [q \in TimerLists |-> AddHello(q, Interfaces[k])]]
             alike(q) == q # <<>> => q[1].timeout = HelloInterval
             R == {k \in 0..n : Helloed(<<>>, Started[k]) /\ alike(Started[k])}
  <1>1. n \in Nat /\ \A k \in 1..n : Interfaces[k] \in Ifs
    BY DiscoveryAssumption
  <1>2. <<>> \in TimerLists /\ Helloed(<<>>, <<>>)
    BY DEF TimerLists, Sorted, Helloed
  <1> HIDE DEF n
  <1>3. \A k \in 1..n : \A q \in TimerLists : AddHello(q, Interfaces[k]) \in TimerLists
    BY <1>1, AddHelloFacts DEF Helloed
  <1>4. step \in [1..n -> [TimerLists -> TimerLists]]
    BY <1>3
  <1>5. PICK g : Computes(g, n, TimerLists, <<>>, step)
    <2> HIDE DEF step
    <2> QED
      BY <1>1, <1>2, <1>4, Recursion
  <1>6. rec(g)
    <2>1. \A k \in 0..n : g[k] = IF k = 0 THEN <<>> ELSE AddHello(g[k - 1], Interfaces[k])
      <3> TAKE k \in 0..n
      <3>1. CASE k = 0
        BY <1>5, <3>1 DEF Computes
      <3>2. CASE k # 0
        <4>1. k \in 1..n /\ k - 1 \in 0..n
          BY <1>1, <3>2
        <4>2. g[k - 1] \in TimerLists /\ g[k] = step[k][g[k - 1]]
          BY <1>5, <4>1 DEF Computes
        <4> QED
          BY <3>2, <4>1, <4>2
      <3> QED
        BY <3>1, <3>2
    <2>2. g = [k \in 0..n |-> g[k]]
      BY <1>5 DEF Computes
    <2> QED
      BY <2>1, <2>2
  <1>7. rec(Started)
    <2>1. Started = CHOOSE f : rec(f)
      BY DEF Started, n
    <2> HIDE DEF rec
    <2> QED
      BY <1>6, <2>1
  <1>8. \A k \in 0..n : Started[k] = IF k = 0 THEN <<>> ELSE AddHello(Started[k - 1], Interfaces[k])
    BY <1>7
  <1> HIDE DEF rec, step
  <1>9. 0 \in R
    BY <1>1, <1>2, <1>8
  <1>10. \A k \in 1..n : k - 1 \in R => k \in R
    <2> SUFFICES ASSUME NEW k \in 1..n, Helloed(<<>>, Started[k - 1]), alike(Started[k - 1])
                 PROVE  Helloed(<<>>, Started[k]) /\ alike(Started[k])
      BY <1>1
    <2> DEFINE q == Started[k - 1]
    <2>1. Started[k] = AddHello(q, Interfaces[k]) /\ q \in TimerLists
      BY <1>1, <1>8 DEF Helloed
    <2>2. Interfaces[k] \in Ifs
      BY <1>1
    <2> HIDE DEF q
    <2>3. Helloed(q, Started[k])
      BY <2>1, <2>2, AddHelloFacts
    <2>4. alike(Started[k])
      <3>1. HelloTimer(Interfaces[k]).timeout = HelloInterval
        BY DEF HelloTimer, Timer
      <3> QED
        BY <2>1, <2>2, <3>1, NewTimers, AddedFacts DEF AddHello, q
    <2> QED
      BY <2>3, <2>4, HelloedTwice DEF q
  <1>11. n \in R
    <2> HIDE DEF R
    <2>1. \A k \in 0..n : k \in R
      BY <1>1, <1>9, <1>10, Upward
    <2> QED
      BY <1>1, <2>1
  <1> QED
    BY <1>11 DEF n

LEMMA RenewedSteps ==
    ASSUME hello \in [Ifs -> BOOLEAN], timerQ \in TimerLists, NEW q \in TimerLists
    PROVE  \A k \in 0..Len(timerQ) :
              Renewed(q)[k] = IF k = 0 THEN q
                              ELSE IF timerQ[k].type = "HELLO"
                                   THEN AddHello(Renewed(q)[k - 1], timerQ[k].contain)
                                   ELSE Renewed(q)[k - 1]
  <1> DEFINE n == Len(timerQ)
             next(k, r) == IF timerQ[k].type = "HELLO" THEN AddHello(r, timerQ[k].contain) ELSE r
             rec(f) == f = [k \in 0..n |->
                              IF k = 0 THEN q
                              ELSE IF timerQ[k].type = "HELLO"
                                   THEN AddHello(f[k - 1], timerQ[k].contain) ELSE f[k - 1]]
             step == [k \in 1..n |-> [r \in TimerLists |-> next(k, r)]]
             s == Renewed(q)
  <1>1. n \in Nat /\ \A k \in 1..n : timerQ[k].contain \in Ifs
    <2>1. timerQ \in Seq(TimerRecord)
      BY DEF TimerLists
    <2>2. \A k \in 1..n : timerQ[k] \in TimerRecord
      BY <2>1
    <2> QED
      BY <2>1, <2>2 DEF TimerRecord
  <1> HIDE DEF n
  <1>2. \A r \in TimerLists : Helloed(r, r)
    BY DEF Helloed
  <1>3. \A k \in 1..n : \A r \in TimerLists : Helloed(r, next(k, r))
    BY <1>1, <1>2, AddHelloFacts
  <1>4. step \in [1..n -> [TimerLists -> TimerLists]]
    BY <1>3 DEF Helloed
  <1>5. PICK g : Computes(g, n, TimerLists, q, step)
    <2> HIDE DEF step
    <2> QED
      BY <1>1, <1>4, Recursion
  <1>6. rec(g)
    <2>1. \A k \in 0..n : g[k] = IF k = 0 THEN q ELSE next(k, g[k - 1])
      <3> TAKE k \in 0..n
      <3>1. CASE k = 0
        BY <1>5, <3>1 DEF Computes
      <3>2. CASE k # 0
        <4>1. k \in 1..n /\ k - 1 \in 0..n
          BY <1>1, <3>2
        <4>2. g[k - 1] \in TimerLists /\ g[k] = step[k][g[k - 1]]
          BY <1>5, <4>1 DEF Computes
        <4> QED
          BY <3>2, <4>1, <4>2
      <3> QED
        BY <3>1, <3>2
    <2>2. g = [k \in 0..n |-> g[k]]
      BY <1>5 DEF Computes
    <2> QED
      BY <2>1, <2>2
  <1>7. rec(s)
    <2>1. s = CHOOSE f : rec(f)
      BY DEF Renewed, n
    <2> HIDE DEF rec, s
    <2> QED
      BY <1>6, <2>1
  <1> HIDE DEF s
  <1> QED
    BY <1>7 DEF n, s

LEMMA RenewedFacts ==
    ASSUME hello \in [Ifs -> BOOLEAN], timerQ \in TimerLists, NEW q \in TimerLists
    PROVE  \A k \in 0..Len(timerQ) : Helloed(q, Renewed(q)[k])
  <1> DEFINE n == Len(timerQ)
             next(k, r) == IF timerQ[k].type = "HELLO" THEN AddHello(r, timerQ[k].contain) ELSE r
             s == Renewed(q)
             R == {k \in 0..n : Helloed(q, s[k])}
  <1>1. n \in Nat /\ \A k \in 1..n : timerQ[k].contain \in Ifs
    <2>1. timerQ \in Seq(TimerRecord)
      BY DEF TimerLists
    <2>2. \A k \in 1..n : timerQ[k] \in TimerRecord
      BY <2>1
    <2> QED
      BY <2>1, <2>2 DEF TimerRecord
  <1>2. \A r \in TimerLists : Helloed(r, r)
    BY DEF Helloed
  <1>8. \A k \in 0..n : s[k] = IF k = 0 THEN q ELSE next(k, s[k - 1])
    BY RenewedSteps
  <1> HIDE DEF n, s
  <1>3. \A k \in 1..n : \A r \in TimerLists : Helloed(r, next(k, r))
    BY <1>1, <1>2, AddHelloFacts
  <1> HIDE DEF next
  <1>9. 0 \in R
    BY <1>1, <1>2, <1>8
  <1>10. \A k \in 1..n : k - 1 \in R => k \in R
    <2> SUFFICES ASSUME NEW k \in 1..n, Helloed(q, s[k - 1])
                 PROVE  Helloed(q, s[k])
      BY <1>1
    <2>1. s[k] = next(k, s[k - 1]) /\ s[k - 1] \in TimerLists
      BY <1>1, <1>8 DEF Helloed
    <2> QED
      BY <1>3, <2>1, HelloedTwice
  <1>11. \A k \in 0..n : k \in R
    <2> HIDE DEF R
    <2> QED
      BY <1>1, <1>9, <1>10, Upward
  <1> QED
    BY <1>11 DEF n, s

(* What a run of the signal handler leaves of the list.                    *)
LEMMA LeftFacts ==
    ASSUME hello \in [Ifs -> BOOLEAN], timerQ \in TimerLists
    PROVE  /\ Left \in TimerLists /\ Early(Left)
           /\ \A n, i : /\ Has(Left, n, i) => Has(timerQ, n, i)
                        /\ Has(timerQ, n, i) /\ ~DueFor(n, i) => Has(Left, n, i)
                        /\ Once(timerQ, n, i) => /\ Once(Left, n, i)
                                                 /\ DueFor(n, i) => ~Has(Left, n, i)
  <1>1. Helloed(Rest, Left)
    BY DueFacts, RestFacts, RenewedFacts DEF Left, Rest
  <1> QED
    BY <1>1, RestFacts DEF Helloed

(* Taking a timer of an entry out of the list.                             *)
LEMMA RemovedFacts ==
    ASSUME NEW q \in TimerLists, NEW k \in DOMAIN q
    PROVE  /\ RemoveAt(q, k) \in TimerLists
           /\ \A n, i : IF IsEntry(q[k], n, i)
                        THEN Once(q, n, i) => ~Has(RemoveAt(q, k), n, i)
                        ELSE /\ Has(RemoveAt(q, k), n, i) = Has(q, n, i)
                             /\ Once(q, n, i) => Once(RemoveAt(q, k), n, i)
  <1> DEFINE m == Len(q)
             r == RemoveAt(q, k)
             old(j) == IF j < k THEN j ELSE j + 1
             new(j) == IF j < k THEN j ELSE j - 1
  <1>1. q \in Seq(TimerRecord) /\ m \in Nat /\ DOMAIN q = 1..m /\ Sorted(q)
    BY DEF TimerLists
  <1>2. /\ r \in Seq(TimerRecord) /\ Len(r) = m - 1
        /\ \A j \in 1..m - 1 : r[j] = IF j < k THEN q[j] ELSE q[j + 1]
    BY <1>1, RemoveAtFacts
  <1>3. DOMAIN r = 1..m - 1 /\ k \in 1..m
    BY <1>1, <1>2
  <1> HIDE DEF m, r
  <1>4. \A j \in 1..m - 1 : old(j) \in 1..m /\ old(j) # k /\ r[j] = q[old(j)]
    BY <1>1, <1>2, <1>3
  <1>5. \A i, j \in 1..m - 1 : i < j => old(i) < old(j)
    BY <1>1, <1>3
  <1>6. \A j \in 1..m : j # k => new(j) \in 1..m - 1 /\ q[j] = r[new(j)]
    <2> TAKE j \in 1..m
    <2>1. CASE j < k
      <3>1. j \in 1..m - 1
        BY <1>1, <1>3, <2>1
      <3> QED
        BY <1>2, <2>1, <3>1
    <2>2. CASE j > k
      <3>1. j - 1 \in 1..m - 1 /\ ~(j - 1 < k) /\ (j - 1) + 1 = j
        BY <1>1, <1>3, <2>2
      <3>2. r[j - 1] = q[j]
        BY <1>2, <3>1
      <3> QED
        BY <1>3, <2>2, <3>1, <3>2
    <2> QED
      BY <1>3, <2>1, <2>2
  <1>7. \A i, j \in 1..m - 1 : old(i) = old(j) => i = j
    BY <1>1, <1>3
  <1> HIDE DEF old, new
  <1>8. Sorted(r)
    BY <1>1, <1>3, <1>4, <1>5 DEF Sorted
  <1>9. ASSUME NEW n, NEW i
        PROVE  IF IsEntry(q[k], n, i)
               THEN Once(q, n, i) => ~Has(r, n, i)
               ELSE Has(r, n, i) = Has(q, n, i) /\ (Once(q, n, i) => Once(r, n, i))
    <2>1. CASE IsEntry(q[k], n, i)
      BY <1>1, <1>3, <1>4, <2>1 DEF Once, Has
    <2>2. CASE ~IsEntry(q[k], n, i)
      <3>1. Has(r, n, i) => Has(q, n, i)
        BY <1>1, <1>3, <1>4 DEF Has
      <3>2. Has(q, n, i) => Has(r, n, i)
        BY <1>1, <1>3, <1>6, <2>2 DEF Has
      <3>3. Once(q, n, i) => Once(r, n, i)
        BY <1>1, <1>3, <1>4, <1>7 DEF Once
      <3>4. Has(r, n, i) \in BOOLEAN /\ Has(q, n, i) \in BOOLEAN
        BY DEF Has
      <3> QED
        BY <2>2, <3>1, <3>2, <3>3, <3>4
    <2> QED
      BY <2>1, <2>2
  <1> QED
    BY <1>2, <1>8, <1>9 DEF r, TimerLists

(* What the passing of time makes of a timer.                              *)
Older(t) == [t EXCEPT !.timeout = IF @ > -Lag THEN @ - 1 ELSE @]

LEMMA TickFacts ==
    ASSUME NEW q \in TimerLists, NEW r, r = [k \in DOMAIN q |-> Older(q[k])]
    PROVE  /\ r \in TimerLists
           /\ \A n, i : Has(r, n, i) = Has(q, n, i) /\ Once(r, n, i) = Once(q, n, i)
  <1> DEFINE m == Len(q)
  <1>1. q \in Seq(TimerRecord) /\ m \in Nat /\ DOMAIN q = 1..m /\ Sorted(q)
    BY DEF TimerLists
  <1>2. \A t \in TimerRecord :
           /\ Older(t) \in TimerRecord /\ t.timeout \in Int
           /\ Older(t).type = t.type /\ Older(t).data = t.data /\ Older(t).contain = t.contain
           /\ Older(t).timeout = IF t.timeout > -Lag THEN t.timeout - 1 ELSE t.timeout
    BY Intervals DEF Older, TimerRecord
  <1>3. \A k \in 1..m : q[k] \in TimerRecord
    BY <1>1
  <1> HIDE DEF m
  <1>4. DOMAIN r = 1..m /\ \A k \in 1..m : r[k] = Older(q[k]) /\ r[k] \in TimerRecord
    BY <1>1, <1>2, <1>3
  <1>5. r \in Seq(TimerRecord)
    <2>1. r \in [1..m -> TimerRecord]
      BY <1>1, <1>2, <1>3
    <2> QED
      BY <1>1, <2>1
  <1>6. Sorted(r)
    <2> SUFFICES ASSUME NEW j \in 1..m, NEW k \in 1..m, j < k
                 PROVE  r[j].timeout <= r[k].timeout
      BY <1>4 DEF Sorted
    <2>1. q[j].timeout <= q[k].timeout
      BY <1>1 DEF Sorted
    <2> QED
      BY <1>2, <1>3, <1>4, <2>1, Intervals
  <1>7. \A k \in 1..m : \A n, i : IsEntry(r[k], n, i) <=> IsEntry(q[k], n, i)
    BY <1>2, <1>3, <1>4 DEF IsEntry
  <1>8. ASSUME NEW n, NEW i
        PROVE  Has(r, n, i) = Has(q, n, i) /\ Once(r, n, i) = Once(q, n, i)
    BY <1>1, <1>4, <1>7 DEF Has, Once
  <1> QED
    BY <1>5, <1>6, <1>8 DEF TimerLists

-----------------------------------------------------------------------------
(* The lists of neighbours.                                                *)
Audible(i) == {n \in Nodes : Link[n] = i}
EntryOf(i) == [ip : Audible(i), of : Audible(i)]
In(s, n) == \E k \in DOMAIN s : s[k].ip = n

(* A list of interface i: its neighbours, none of them twice.              *)
Listing(s, i) ==
    /\ s \in Seq(EntryOf(i))
    /\ \A j, k \in DOMAIN s : s[j].ip = s[k].ip => j = k

(* What a run of the signal handler leaves of a list: the entries without  *)
(* a timer that is due; if none is deleted up to x, that at x is there.    *)
LEMMA KeptFacts ==
    ASSUME NEW i \in Ifs, Listing(neighbors[i], i)
    PROVE  /\ Listing(Kept(i), i) /\ Len(Kept(i)) <= Len(neighbors[i])
           /\ \A n : In(Kept(i), n) <=> In(neighbors[i], n) /\ ~DueFor(n, i)
           /\ \A j \in DOMAIN Kept(i) :
                 \E k \in DOMAIN neighbors[i] : Kept(i)[j] = neighbors[i][k] /\ j <= k
           /\ \A x \in DOMAIN neighbors[i] :
                 (\A k \in 1..x : ~DueFor(neighbors[i][k].ip, i))
                    => x \in DOMAIN Kept(i) /\ Kept(i)[x] = neighbors[i][x]
  <1> DEFINE s == neighbors[i]
             r == Kept(i)
             T == {j \in DOMAIN s : \A k \in DueTimers :
                     ~(timerQ[k].type = "ENTRY" /\ timerQ[k].data = s[j].ip /\ timerQ[k].contain = i)}
  <1>1. \A j \in DOMAIN s : j \in T <=> ~DueFor(s[j].ip, i)
    BY DEF DueFor, IsEntry
  <1>2. r = ElementsAt(s, T)
    BY DEF Kept
  <1>3. s \in Seq(EntryOf(i)) /\ Len(s) \in Nat /\ DOMAIN s = 1..Len(s)
    BY DEF Listing
  <1> HIDE DEF T, r
  <1>4. PICK p : r \in Seq(EntryOf(i)) /\ Picks(r, s, T, Len(s), p)
    BY <1>2, <1>3, ElementsAtFacts
  <1>5. /\ r \in Seq(EntryOf(i)) /\ Len(r) <= Len(s) /\ Len(r) \in Nat /\ DOMAIN r = 1..Len(r)
        /\ \A j \in 1..Len(r) : r[j] = s[p[j]] /\ j <= p[j] /\ p[j] \in T \cap 1..Len(s)
    <2>1. r \in Seq(EntryOf(i)) /\ Len(r) \in Nat /\ DOMAIN r = 1..Len(r)
      BY <1>4
    <2>2. Len(r) <= Len(s) /\ p \in [1..Len(r) -> T \cap 1..Len(s)]
      BY <1>4 DEF Picks
    <2>3. \A j \in 1..Len(r) : r[j] = s[p[j]] /\ j <= p[j]
      BY <1>4 DEF Picks
    <2> QED
      BY <2>1, <2>2, <2>3
  <1>6. \A j \in 1..Len(r) : p[j] \in DOMAIN s /\ p[j] \in T
    BY <1>3, <1>5
  <1>7. Listing(r, i)
    <2> SUFFICES ASSUME NEW j \in 1..Len(r), NEW k \in 1..Len(r), r[j].ip = r[k].ip
                 PROVE  j = k
      BY <1>5 DEF Listing
    <2>1. p[j] = p[k]
      BY <1>5, <1>6 DEF Listing
    <2>2. ~(j < k) /\ ~(k < j)
      BY <1>3, <1>4, <1>6, <2>1 DEF Picks
    <2> QED
      BY <1>5, <2>2
  <1>8. ASSUME NEW n
        PROVE  In(r, n) <=> In(s, n) /\ ~DueFor(n, i)
    <2>1. ASSUME NEW j \in 1..Len(r), r[j].ip = n
          PROVE  In(s, n) /\ ~DueFor(n, i)
      BY <1>1, <1>5, <1>6, <2>1 DEF In
    <2>2. ASSUME NEW k \in DOMAIN s, s[k].ip = n, ~DueFor(n, i)
          PROVE  In(r, n)
      <3>1. PICK j \in 1..Len(r) : p[j] = k
        BY <1>1, <1>3, <1>4, <2>2 DEF Picks
      <3> QED
        BY <1>5, <2>2, <3>1 DEF In
    <2> QED
      BY <1>5, <2>1, <2>2 DEF In
  <1>9. \A j \in DOMAIN r : \E k \in DOMAIN s : r[j] = s[k] /\ j <= k
    BY <1>5, <1>6
  <1>10. ASSUME NEW x \in DOMAIN s, \A k \in 1..x : ~DueFor(s[k].ip, i)
         PROVE  x \in DOMAIN r /\ r[x] = s[x]
    <2>1. 1..x \subseteq T
      BY <1>1, <1>3, <1>10
    <2>2. x <= Len(r) /\ \A j \in 1..x : p[j] = j
      BY <1>3, <1>4, <2>1 DEF Picks
    <2> QED
      BY <1>3, <1>5, <2>2
  <1> QED
    BY <1>5, <1>7, <1>8, <1>9, <1>10 DEF r

-----------------------------------------------------------------------------
(* Types, and what the thread knows of its message.                        *)
Points == {"select", "read", "apply", "remove", "set", "ended"}

Types ==
    /\ neighbors = [i \in Ifs |-> neighbors[i]] /\ \A i \in Ifs : Listing(neighbors[i], i)
    /\ hello \in [Ifs -> BOOLEAN]
    /\ timerQ \in TimerLists
    /\ alarm \in -1..Off /\ up \in BOOLEAN /\ torn \subseteq Nodes
    /\ inbox = [i \in Ifs |-> inbox[i]] /\ \A i \in Ifs : inbox[i] \in Seq(Audible(i))
    /\ pc \in Points /\ ready \in Seq(Ifs)
    /\ pc \notin {"select", "ended"} => ready # <<>>
    /\ Updating => msg.src \in Audible(Head(ready)) /\ msg.index \in Nat
    /\ pc = "remove" => msg.index # 0
    /\ pc = "apply" /\ msg.index = 0 => ~In(neighbors[Head(ready)], msg.src)

LEMMA EmptyListing ==
    ASSUME NEW i
    PROVE  Listing(<<>>, i)
  BY DEF Listing

LEMMA HeadReady ==
    ASSUME Types, pc \notin {"select", "ended"}
    PROVE  Head(ready) \in Ifs /\ Tail(ready) \in Seq(Ifs)
  BY DEF Types

LEMMA ArmFacts ==
    ASSUME NEW t \in -Lag..Off - 1
    PROVE  Arm(t) \in 1..Off
  BY Intervals DEF Arm

LEMMA SetTimerTypes ==
    ASSUME timerQ \in TimerLists, alarm \in -1..Off, NEW t \in TimerRecord, t.timeout > 0,
           SetTimer(t)
    PROVE  timerQ' \in TimerLists /\ alarm' \in -1..Off
  <1>1. t.timeout \in -1..Off
    BY Intervals DEF TimerRecord
  <1> QED
    BY <1>1, TimerAddFacts DEF SetTimer

LEMMA TypesInit == Init => Types
  <1> SUFFICES ASSUME Init
               PROVE  Types
    OBVIOUS
  <1>1. hello \in [Ifs -> BOOLEAN]
    BY DEF Init
  <1>2. timerQ \in TimerLists
    BY <1>1, StartedFacts DEF Init, Helloed
  <1>3. alarm \in -1..Off
    BY Intervals DEF Init
  <1> QED
    BY <1>1, <1>2, <1>3, EmptyListing DEF Init, Types, Updating, Points

LEMMA SelectTypes == Types /\ Select => Types'
  <1> SUFFICES ASSUME Types, Select
               PROVE  Types'
    OBVIOUS
  <1> DEFINE T == {k \in DOMAIN Interfaces : inbox[Interfaces[k]] # <<>>}
  <1>0. Interfaces \in Seq(Ifs) /\ Ifs = {Interfaces[k] : k \in DOMAIN Interfaces}
    BY DiscoveryAssumption DEF Ifs, ToSet
  <1>1. ready' = ElementsAt(Interfaces, T)
    BY DEF Select
  <1>2. PICK k \in DOMAIN Interfaces : k \in T
    BY <1>0 DEF Select
  <1> HIDE DEF T
  <1>3. PICK p : ready' \in Seq(Ifs) /\ Picks(ready', Interfaces, T, Len(Interfaces), p)
    BY <1>0, <1>1, ElementsAtFacts
  <1>4. \E j \in 1..Len(ready') : p[j] = k
    <2>1. k \in T \cap 1..Len(Interfaces)
      BY <1>0, <1>2
    <2> QED
      BY <1>3, <2>1 DEF Picks
  <1>5. ready' # <<>>
    BY <1>4
  <1> QED
    BY <1>3, <1>5 DEF Types, Select, Updating, Points

LEMMA FindFacts ==
    ASSUME NEW i, NEW s, Listing(s, i), NEW n
    PROVE  IF In(s, n) THEN Find(n, s) \in DOMAIN s /\ s[Find(n, s)].ip = n ELSE Find(n, s) = 0
  BY DEF Find, In

LEMMA ReadHelloTypes == Types /\ ReadHello => Types'
  <1> SUFFICES ASSUME Types, ReadHello
               PROVE  Types'
    OBVIOUS
  <1> DEFINE i == Head(ready)
             n == Head(inbox[i])
  <1>1. i \in Ifs
    BY HeadReady DEF ReadHello
  <1>2. inbox[i] \in Seq(Audible(i)) /\ inbox[i] # <<>> /\ Listing(neighbors[i], i)
    BY <1>1 DEF Types, ReadHello
  <1>3. n \in Audible(i) /\ Tail(inbox[i]) \in Seq(Audible(i))
    <2>1. \A s \in Seq(Audible(i)) : s # <<>> => Head(s) \in Audible(i) /\ Tail(s) \in Seq(Audible(i))
      <3> DEFINE S == Audible(i)
      <3> HIDE DEF S
      <3>1. \A s \in Seq(S) : s # <<>> => Head(s) \in S /\ Tail(s) \in Seq(S)
        OBVIOUS
      <3> QED
        BY <3>1 DEF S
    <2> QED
      BY <1>2, <2>1
  <1>4. msg' = [src |-> n, index |-> Find(n, neighbors[i])] /\ inbox' = [inbox EXCEPT ![i] = Tail(@)]
    BY DEF ReadHello
  <1>5. pc = "read" /\ pc' = "apply" /\ UNCHANGED <<neighbors, hello, timerQ, alarm, up, ready, torn>>
    BY DEF ReadHello
  <1> HIDE DEF n
  <1>6. msg'.index \in Nat /\ (msg'.index = 0 => ~In(neighbors[i], n)) /\ msg'.src = n
    <2>1. neighbors[i] \in Seq(EntryOf(i))
      BY <1>2 DEF Listing
    <2>2. \A k \in DOMAIN neighbors[i] : k \in Nat /\ k # 0
      BY <2>1
    <2> QED
      BY <1>2, <1>4, <2>2, FindFacts
  <1>7. inbox' = [j \in Ifs |-> inbox'[j]] /\ \A j \in Ifs : inbox'[j] \in Seq(Audible(j))
    BY <1>1, <1>3, <1>4 DEF Types
  <1>8. ready # <<>>
    BY <1>5 DEF Types
  <1> HIDE DEF i
  <1> QED
    BY <1>3, <1>5, <1>6, <1>7, <1>8 DEF Types, Updating, Points, i

(* Writing an entry keeps the neighbours, or adds that of the message.     *)
LEMMA WrittenFacts ==
    ASSUME NEW i \in Ifs, NEW s, Listing(s, i), NEW m, m.src \in Audible(i), m.index \in Nat,
           m.index = 0 => ~In(s, m.src)
    PROVE  /\ Listing(Written(s, m), i)
           /\ \A n : In(Written(s, m), n) <=> In(s, n) \/ (m.index = 0 /\ n = m.src)
           /\ \A k \in DOMAIN s : k \in DOMAIN Written(s, m) /\ Written(s, m)[k].ip = s[k].ip
           /\ \A k \in DOMAIN Written(s, m) :
                 \/ \E j \in DOMAIN s : Written(s, m)[k] = s[j]
                 \/ /\ Written(s, m)[k].of = m.src
                    /\ \/ m.index = 0 /\ Written(s, m)[k].ip = m.src
                       \/ m.index \in DOMAIN s /\ Written(s, m)[k].ip = s[m.index].ip
  <1> DEFINE r == Written(s, m)
  <1>1. s \in Seq(EntryOf(i)) /\ Len(s) \in Nat /\ DOMAIN s = 1..Len(s)
    BY DEF Listing
  <1>2. \A k \in DOMAIN s : s[k] \in EntryOf(i)
    BY <1>1
  <1>3. CASE m.index = 0
    <2> DEFINE e == [ip |-> m.src, of |-> m.src]
    <2>1. r = Append(s, e) /\ e \in EntryOf(i) /\ e.ip = m.src /\ e.of = m.src
      BY <1>3 DEF Written, EntryOf
    <2> HIDE DEF e
    <2>2. /\ r \in Seq(EntryOf(i)) /\ DOMAIN r = 1..Len(s) + 1
          /\ \A k \in 1..Len(s) + 1 : r[k] = IF k = Len(s) + 1 THEN e ELSE s[k]
      BY <1>1, <2>1
    <2>3. \A k \in 1..Len(s) + 1 : k = Len(s) + 1 \/ k \in DOMAIN s
      BY <1>1
    <2>4. \A k \in DOMAIN s : k \in 1..Len(s) + 1 /\ k # Len(s) + 1 /\ r[k] = s[k] /\ s[k].ip # m.src
      BY <1>1, <1>3, <2>2 DEF In
    <2>5. r[Len(s) + 1] = e /\ Len(s) + 1 \in DOMAIN r
      BY <1>1, <2>2
    <2> HIDE DEF r
    <2>6. Listing(r, i)
      BY <2>1, <2>2, <2>3, <2>4, <2>5 DEF Listing
    <2>7. \A n : In(r, n) <=> In(s, n) \/ n = m.src
      BY <2>1, <2>2, <2>3, <2>4, <2>5 DEF In
    <2>8. \A k \in DOMAIN r : r[k] = e \/ \E j \in DOMAIN s : r[k] = s[j]
      <3> TAKE k \in DOMAIN r
      <3>1. k = Len(s) + 1 \/ k \in DOMAIN s
        BY <2>2, <2>3
      <3> QED
        BY <2>4, <2>5, <3>1
    <2>9. \A k \in DOMAIN r : \/ \E j \in DOMAIN s : r[k] = s[j]
                              \/ r[k].of = m.src /\ r[k].ip = m.src
      <3> TAKE k \in DOMAIN r
      <3>1. CASE r[k] = e
        BY <2>1, <3>1
      <3> QED
        BY <2>8, <3>1
    <2> QED
      BY <1>3, <2>2, <2>4, <2>6, <2>7, <2>9 DEF r
  <1>4. CASE m.index \in DOMAIN s
    <2> DEFINE x == m.index
               e == [s[x] EXCEPT !.of = m.src]
    <2>0. x # 0
      BY <1>1, <1>4
    <2>1. r = [s EXCEPT ![x] = e]
      BY <1>4, <2>0 DEF Written
    <2>2. e \in EntryOf(i) /\ e.ip = s[x].ip /\ e.of = m.src
      BY <1>2, <1>4 DEF EntryOf
    <2> HIDE DEF e
    <2>3. r \in Seq(EntryOf(i)) /\ DOMAIN r = DOMAIN s /\ \A k \in DOMAIN s : r[k] = IF k = x THEN e ELSE s[k]
      BY <1>1, <1>4, <2>1, <2>2
    <2> HIDE DEF r
    <2>4. \A k \in DOMAIN s : r[k].ip = s[k].ip
      BY <2>2, <2>3
    <2>5. Listing(r, i)
      BY <2>3, <2>4 DEF Listing
    <2>6. \A n : In(r, n) <=> In(s, n)
      BY <2>3, <2>4 DEF In
    <2>7. \A k \in DOMAIN r : \/ \E j \in DOMAIN s : r[k] = s[j]
                              \/ r[k].of = m.src /\ r[k].ip = s[x].ip
      <3> TAKE k \in DOMAIN r
      <3>1. CASE k = x
        BY <2>2, <2>3, <3>1
      <3>2. CASE k # x
        BY <2>3, <3>2
      <3> QED
        BY <3>1, <3>2
    <2> QED
      BY <1>4, <2>0, <2>3, <2>4, <2>5, <2>6, <2>7 DEF r
  <1>5. CASE m.index \notin DOMAIN s /\ m.index # 0
    BY <1>5 DEF Written
  <1> QED
    BY <1>3, <1>4, <1>5

LEMMA ApplyTypes == Types /\ Apply => Types'
  <1> SUFFICES ASSUME Types, Apply
               PROVE  Types'
    OBVIOUS
  <1> DEFINE i == Head(ready)
  <1>1. i \in Ifs /\ pc = "apply"
    BY HeadReady DEF Apply
  <1>2. msg.src \in Audible(i) /\ msg.index \in Nat /\ (msg.index = 0 => ~In(neighbors[i], msg.src))
    BY <1>1 DEF Types, Updating
  <1>3. Listing(Written(neighbors[i], msg), i)
    BY <1>1, <1>2, WrittenFacts DEF Types
  <1>4. /\ neighbors' = IF up THEN [neighbors EXCEPT ![i] = Written(@, msg)] ELSE neighbors
        /\ pc' = IF msg.index = 0 THEN "set" ELSE "remove"
        /\ UNCHANGED <<hello, timerQ, alarm, up, inbox, ready, msg, torn>>
    BY DEF Apply
  <1>5. ready # <<>>
    BY <1>1 DEF Types
  <1> HIDE DEF i
  <1>6. neighbors' = [j \in Ifs |-> neighbors'[j]] /\ \A j \in Ifs : Listing(neighbors'[j], j)
    BY <1>1, <1>3, <1>4 DEF Types
  <1> QED
    BY <1>2, <1>4, <1>5, <1>6 DEF Types, Updating, Points, i

(* The timer that is removed is one of the neighbour of the message.       *)
LEMMA Removal ==
    ASSUME Types, RemoveTimer
    PROVE  \/ ~Has(timerQ, msg.src, Head(ready)) /\ timerQ' = timerQ
           \/ \E k \in DOMAIN timerQ :
                 IsEntry(timerQ[k], msg.src, Head(ready)) /\ timerQ' = RemoveAt(timerQ, k)
  <1> DEFINE old == EntryTimers(msg.src, Head(ready))
             k == CHOOSE x \in old : \A y \in old : x <= y
  <1>1. \/ old = {} /\ timerQ' = timerQ
        \/ old # {} /\ timerQ' = RemoveAt(timerQ, k)
    BY DEF RemoveTimer
  <1>2. old = {x \in DOMAIN timerQ : IsEntry(timerQ[x], msg.src, Head(ready))}
    BY DEF EntryTimers, IsEntry
  <1>3. old \in SUBSET Nat
    BY <1>2 DEF Types, TimerLists
  <1> HIDE DEF old
  <1>4. old # {} => k \in old
    BY <1>3, Least
  <1> QED
    BY <1>1, <1>2, <1>4 DEF Has

LEMMA RemoveTimerTypes == Types /\ RemoveTimer => Types'
  <1> SUFFICES ASSUME Types, RemoveTimer
               PROVE  Types'
    OBVIOUS
  <1> DEFINE old == EntryTimers(msg.src, Head(ready))
             k == CHOOSE x \in old : \A y \in old : x <= y
             setNow == timerQ[1].type = "ENTRY" /\ timerQ[1].contain = Head(ready)
  <1>1. /\ pc = "remove" /\ pc' = "set"
        /\ UNCHANGED <<neighbors, hello, up, inbox, ready, msg, torn>>
    BY DEF RemoveTimer
  <1>2. \/ UNCHANGED <<timerQ, alarm>>
        \/ /\ old # {}
           /\ timerQ' = RemoveAt(timerQ, k)
           /\ alarm' = IF setNow /\ k < Len(timerQ) THEN Arm(timerQ[k + 1].timeout) ELSE alarm
    BY DEF RemoveTimer
  <1>3. timerQ' \in TimerLists /\ alarm' \in -1..Off
    <2>1. CASE UNCHANGED <<timerQ, alarm>>
      BY <2>1 DEF Types
    <2>2. CASE /\ old # {}
               /\ timerQ' = RemoveAt(timerQ, k)
               /\ alarm' = IF setNow /\ k < Len(timerQ) THEN Arm(timerQ[k + 1].timeout) ELSE alarm
      <3>1. timerQ \in Seq(TimerRecord) /\ alarm \in -1..Off /\ timerQ \in TimerLists
        BY DEF Types, TimerLists
      <3>2. k \in DOMAIN timerQ
        <4>1. old \in SUBSET Nat /\ old \subseteq DOMAIN timerQ
          BY <3>1 DEF EntryTimers
        <4> HIDE DEF old
        <4>2. \E x \in old : \A y \in old : x <= y
          BY <2>2, <4>1, Least
        <4> QED
          BY <4>1, <4>2
      <3> HIDE DEF k, setNow
      <3>3. timerQ' \in TimerLists
        BY <2>2, <3>1, <3>2, RemovedFacts
      <3>4. k < Len(timerQ) => Arm(timerQ[k + 1].timeout) \in 1..Off
        <4> SUFFICES ASSUME k < Len(timerQ)
                     PROVE  timerQ[k + 1].timeout \in -Lag..Off - 1
          BY ArmFacts
        <4>1. timerQ[k + 1] \in TimerRecord
          BY <3>1, <3>2
        <4> QED
          BY <4>1 DEF TimerRecord
      <3>5. alarm' \in -1..Off
        <4>1. \A t \in 1..Off : t \in -1..Off
          BY Intervals
        <4> QED
          BY <2>2, <3>1, <3>4, <4>1
      <3> QED
        BY <3>3, <3>5
    <2> QED
      BY <1>2, <2>1, <2>2
  <1> QED
    BY <1>1, <1>3 DEF Types, Updating, Points

LEMMA SetEntryTimerTypes == Types /\ SetEntryTimer => Types'
  <1> SUFFICES ASSUME Types, SetEntryTimer
               PROVE  Types'
    OBVIOUS
  <1>1. Head(ready) \in Ifs /\ Tail(ready) \in Seq(Ifs) /\ pc = "set" /\ msg.src \in Nodes
    BY HeadReady DEF SetEntryTimer, Types, Updating, Audible
  <1>2. timerQ' \in TimerLists /\ alarm' \in -1..Off
    <2>1. EntryTimer(msg.src, Head(ready)) \in TimerRecord
      BY <1>1, NewTimers
    <2>2. EntryTimer(msg.src, Head(ready)).timeout > 0
      BY Intervals DEF EntryTimer, Timer
    <2> QED
      BY <2>1, <2>2, SetTimerTypes DEF Types, SetEntryTimer
  <1>3. /\ ready' = Tail(ready)
        /\ pc' = IF ~up THEN "ended" ELSE IF ready' = <<>> THEN "select" ELSE "read"
        /\ UNCHANGED <<neighbors, hello, up, inbox, torn>>
    BY DEF SetEntryTimer
  <1> QED
    BY <1>1, <1>2, <1>3 DEF Types, Updating, Points

LEMMA ScheduleTimerTypes == Types /\ ScheduleTimer => Types'
  <1> SUFFICES ASSUME Types, ScheduleTimer
               PROVE  Types'
    OBVIOUS
  <1>1. /\ neighbors' = [i \in Ifs |-> Kept(i)]
        /\ timerQ' = Left
        /\ alarm' = IF timerQ' = <<>> THEN Off ELSE Arm(timerQ'[1].timeout)
        /\ torn' = torn \cup Disturbed
        /\ \/ UNCHANGED thread
           \/ pc = "select" /\ pc' = "read" /\ ready' = Interfaces /\ UNCHANGED msg
        /\ UNCHANGED <<hello, up, inbox>>
    BY DEF ScheduleTimer
  <1>2. \A i \in Ifs : Listing(Kept(i), i) /\ \A n : In(Kept(i), n) => In(neighbors[i], n)
    BY KeptFacts DEF Types
  <1>3. timerQ' \in TimerLists
    BY <1>1, LeftFacts DEF Types
  <1>4. alarm' \in -1..Off
    <2>1. ASSUME timerQ' # <<>>
          PROVE  timerQ'[1].timeout \in -Lag..Off - 1
      <3>1. timerQ'[1] \in TimerRecord
        BY <1>3, <2>1 DEF TimerLists
      <3> QED
        BY <3>1 DEF TimerRecord
    <2>2. timerQ' # <<>> => Arm(timerQ'[1].timeout) \in 1..Off
      BY <2>1, ArmFacts
    <2>3. Off \in -1..Off /\ \A t \in 1..Off : t \in -1..Off
      BY Intervals
    <2>4. alarm' = IF timerQ' = <<>> THEN Off ELSE Arm(timerQ'[1].timeout)
      BY <1>1
    <2> QED
      BY <2>2, <2>3, <2>4
  <1>5. torn' \subseteq Nodes
    <2>1. CASE pc \notin {"apply", "remove"}
      BY <1>1, <2>1 DEF Disturbed, Types
    <2>2. CASE pc \in {"apply", "remove"}
      <3>1. Head(ready) \in Ifs /\ msg.src \in Nodes
        BY <2>2, HeadReady DEF Types, Updating, Audible
      <3>2. \A k \in DOMAIN Kept(Head(ready)) : Kept(Head(ready))[k].ip \in Nodes
        <4>1. Kept(Head(ready)) \in Seq(EntryOf(Head(ready)))
          BY <1>2, <3>1 DEF Listing
        <4>2. \A k \in DOMAIN Kept(Head(ready)) : Kept(Head(ready))[k] \in EntryOf(Head(ready))
          BY <4>1
        <4> QED
          BY <4>2 DEF EntryOf, Audible
      <3> QED
        BY <1>1, <3>1, <3>2 DEF Disturbed, Types
    <2> QED
      BY <2>1, <2>2
  <1>6. Interfaces \in Seq(Ifs) /\ Interfaces # <<>>
    BY DiscoveryAssumption
  <1>7. pc = "apply" => Head(ready) \in Ifs
    BY HeadReady
  <1>8. /\ pc' \in Points /\ ready' \in Seq(Ifs) /\ (pc' \notin {"select", "ended"} => ready' # <<>>)
        /\ msg' = msg /\ (pc' \in {"apply", "remove", "set"} => pc' = pc /\ ready' = ready)
    BY <1>1, <1>6 DEF Types, Points, thread
  <1>9. neighbors' = [i \in Ifs |-> neighbors'[i]] /\ \A i \in Ifs : Listing(neighbors'[i], i)
    BY <1>1, <1>2
  <1>10. pc' = "apply" /\ msg'.index = 0 => ~In(neighbors'[Head(ready')], msg'.src)
    BY <1>1, <1>2, <1>7, <1>8 DEF Types
  <1> QED
    BY <1>1, <1>3, <1>4, <1>5, <1>8, <1>9, <1>10 DEF Types, Updating

LEMMA OtherTypes ==
    ASSUME Types,
           \/ TurnDown \/ Tick
           \/ \E i \in Tuned, on \in BOOLEAN : SetHelloInterval(i, on)
           \/ \E n \in Nodes : SendHello(n)
    PROVE  Types'
  <1>1. CASE TurnDown
    <2>1. <<>> \in TimerLists
      BY DEF TimerLists, Sorted
    <2>2. Updating => msg.src \in Nodes /\ Head(ready) \in Ifs
      BY HeadReady DEF Types, Updating, Audible
    <2>3. \A i, n : ~In(<<>>, n)
      BY DEF In
    <2>4. ~Updating => pc' = "ended"
      BY <1>1 DEF TurnDown
    <2>5. /\ up' = FALSE /\ neighbors' = [i \in Ifs |-> <<>>] /\ timerQ' = <<>>
          /\ inbox' = [i \in Ifs |-> <<>>] /\ UNCHANGED <<hello, alarm, msg>>
      BY <1>1 DEF TurnDown
    <2>6. CASE ~Updating
      <3>1. pc' = "ended" /\ ready' = <<>> /\ torn' = torn
        BY <1>1, <2>6 DEF TurnDown
      <3>2. ready' \in Seq(Ifs)
        BY <3>1
      <3>3. neighbors' = [i \in Ifs |-> neighbors'[i]] /\ \A i \in Ifs : Listing(neighbors'[i], i)
        BY <2>5, EmptyListing
      <3>4. inbox' = [i \in Ifs |-> inbox'[i]] /\ \A i \in Ifs : inbox'[i] \in Seq(Audible(i))
        BY <2>5
      <3> QED
        BY <2>1, <2>5, <3>1, <3>2, <3>3, <3>4 DEF Types, Updating, Points
    <2>7. CASE Updating
      <3>1. UNCHANGED <<pc, ready>> /\ torn' = torn \cup {msg.src}
        BY <1>1, <2>7 DEF TurnDown
      <3>3. neighbors' = [i \in Ifs |-> neighbors'[i]] /\ \A i \in Ifs : Listing(neighbors'[i], i)
        BY <2>5, EmptyListing
      <3>4. inbox' = [i \in Ifs |-> inbox'[i]] /\ \A i \in Ifs : inbox'[i] \in Seq(Audible(i))
        BY <2>5
      <3>5. ~In(neighbors'[Head(ready')], msg'.src) /\ torn' \subseteq Nodes
        BY <2>2, <2>3, <2>5, <2>7, <3>1 DEF Types
      <3> QED
        BY <2>1, <2>5, <2>7, <3>1, <3>3, <3>4, <3>5 DEF Types, Updating
    <2> QED
      BY <2>6, <2>7
  <1>2. CASE Tick
    <2>1. timerQ' \in TimerLists
      <3>1. timerQ' = [k \in DOMAIN timerQ |-> Older(timerQ[k])]
        BY <1>2 DEF Tick, Older
      <3> QED
        BY <3>1, TickFacts DEF Types
    <2>2. alarm' \in -1..Off
      <3>1. alarm \in -1..Off /\ alarm >= 0 /\ alarm' = IF alarm = Off THEN Off ELSE alarm - 1
        BY <1>2 DEF Tick, Types
      <3> QED
        BY <3>1, Intervals
    <2> QED
      BY <1>2, <2>1, <2>2 DEF Tick, Types, Updating, thread
  <1>3. ASSUME NEW i \in Tuned, NEW on \in BOOLEAN, SetHelloInterval(i, on)
        PROVE  Types'
    <2>1. i \in Ifs
      BY DiscoveryAssumption
    <2>2. hello' \in [Ifs -> BOOLEAN]
      BY <1>3 DEF SetHelloInterval, Types
    <2>3. timerQ' \in TimerLists /\ alarm' \in -1..Off
      <3>1. CASE SetTimer(HelloTimer(i))
        BY <2>1, <3>1, NewTimers, SetTimerTypes DEF Types
      <3>2. CASE UNCHANGED <<timerQ, alarm>>
        BY <3>2 DEF Types
      <3> QED
        BY <1>3, <3>1, <3>2 DEF SetHelloInterval
    <2> QED
      BY <1>3, <2>2, <2>3 DEF SetHelloInterval, Types, Updating, thread
  <1>4. ASSUME NEW n \in Nodes, SendHello(n)
        PROVE  Types'
    <2>1. Link[n] \in Ifs /\ n \in Audible(Link[n])
      BY DiscoveryAssumption DEF Audible
    <2>2. inbox' = [inbox EXCEPT ![Link[n]] = Append(@, n)]
      BY <1>4 DEF SendHello
    <2>3. inbox' = [j \in Ifs |-> inbox'[j]] /\ \A j \in Ifs : inbox'[j] \in Seq(Audible(j))
      <3>1. \A j : \A s \in Seq(Audible(j)) : n \in Audible(j) => Append(s, n) \in Seq(Audible(j))
        OBVIOUS
      <3>2. inbox = [j \in Ifs |-> inbox[j]] /\ \A j \in Ifs : inbox[j] \in Seq(Audible(j))
        BY DEF Types
      <3> HIDE DEF Audible
      <3>3. Append(inbox[Link[n]], n) \in Seq(Audible(Link[n]))
        BY <2>1, <3>1, <3>2
      <3> QED
        BY <2>1, <2>2, <3>2, <3>3
    <2> QED
      BY <1>4, <2>3 DEF SendHello, Types, Updating, thread
  <1> QED
    BY <1>1, <1>2, <1>3, <1>4

LEMMA TypesStep == Types /\ [Next]_vars => Types'
  <1> SUFFICES ASSUME Types, [Next]_vars
               PROVE  Types'
    OBVIOUS
  <1>1. CASE UNCHANGED vars
    BY <1>1 DEF vars, Types, Updating
  <1> QED
    BY <1>1, SelectTypes, ReadHelloTypes, ApplyTypes, RemoveTimerTypes, SetEntryTimerTypes,
       ScheduleTimerTypes, OtherTypes DEF Next, MainLoop

LEMMA TypesHold == Spec => []Types
  BY TypesInit, TypesStep, PTL DEF Spec

(* A list has no more entries than the interface has neighbours.           *)
LEMMA ListingLength ==
    ASSUME NEW i \in Ifs, NEW s, Listing(s, i)
    PROVE  Len(s) <= Cardinality(Audible(i))
  <1> DEFINE m == Len(s)
             f == [k \in 1..m |-> s[k].ip]
  <1>1. s \in Seq(EntryOf(i)) /\ m \in Nat /\ DOMAIN s = 1..m
    BY DEF Listing
  <1> HIDE DEF m
  <1>2. \A k \in 1..m : s[k].ip \in Audible(i)
    <2>1. \A k \in 1..m : s[k] \in EntryOf(i)
      BY <1>1
    <2> QED
      BY <2>1 DEF EntryOf
  <1>3. f \in Injection(1..m, Audible(i))
    BY <1>1, <1>2 DEF Listing, Injection, IsInjective
  <1>4. IsFiniteSet(Audible(i))
    <2>1. IsFiniteSet(Nodes) /\ Audible(i) \in SUBSET Nodes
      BY DiscoveryAssumption DEF Audible
    <2> QED
      BY <2>1, FS_Subset
  <1>5. Cardinality(1..m) <= Cardinality(Audible(i))
    <2> HIDE DEF f
    <2> QED
      BY <1>3, <1>4, FS_Injection
  <1>6. Cardinality(1..m) = m
    <2>1. Cardinality(1..m) = IF 1 > m THEN 0 ELSE m - 1 + 1
      BY <1>1, FS_Interval
    <2> QED
      BY <1>1, <2>1
  <1> QED
    BY <1>5, <1>6 DEF m

(* The lists of an interface hold neighbours of that interface, none of    *)
(* them more often than there are, whatever the interfaces and neighbours, *)
(* the intervals and the moment at which SIGALRM or a call of the API cuts *)
(* in on update_info; timers and sockets hold what their readers expect.   *)
THEOREM TypeCorrect == Spec => []TypeOK
  <1>1. Types => TypeOK
    <2> SUFFICES ASSUME Types
                 PROVE  TypeOK
      OBVIOUS
    <2>1. DOMAIN neighbors = Ifs
      BY DEF Types
    <2>2. ASSUME NEW i \in Ifs
          PROVE  /\ ToSet(neighbors[i]) \subseteq [ip : Audible(i), of : Audible(i)]
                 /\ Len(neighbors[i]) <= Cardinality(Audible(i))
      <3>1. Listing(neighbors[i], i)
        BY DEF Types
      <3>2. neighbors[i] \in Seq(EntryOf(i))
        BY <3>1 DEF Listing
      <3>3. ToSet(neighbors[i]) \subseteq EntryOf(i)
        BY <3>2 DEF ToSet
      <3> QED
        BY <3>1, <3>3, ListingLength DEF EntryOf
    <2>3. ASSUME NEW t \in ToSet(timerQ)
          PROVE  /\ t.type \in {"HELLO", "ENTRY"} /\ t.contain \in Ifs
                 /\ t.timeout \in -Lag..Off - 1
      <3>1. timerQ \in Seq(TimerRecord)
        BY DEF Types, TimerLists
      <3>2. t \in TimerRecord
        BY <2>3, <3>1 DEF ToSet
      <3> QED
        BY <3>2 DEF TimerRecord
    <2>4. ASSUME NEW i \in Ifs
          PROVE  ToSet(inbox[i]) \subseteq Nodes
      <3>1. inbox[i] \in Seq(Audible(i))
        BY DEF Types
      <3>2. ToSet(inbox[i]) \subseteq Audible(i)
        BY <3>1 DEF ToSet
      <3> QED
        BY <3>2 DEF Audible
    <2> QED
      BY <2>1, <2>2, <2>3, <2>4 DEF Types, TypeOK, Points, Audible
  <1> QED
    BY <1>1, TypesHold, PTL

-----------------------------------------------------------------------------
(* The real timer.                                                         *)
LEMMA FirstTimer ==
    ASSUME Types, timerQ # <<>>
    PROVE  timerQ[1] \in TimerRecord /\ timerQ[1].timeout \in -Lag..Off - 1 /\ 1 \in DOMAIN timerQ
  <1>1. timerQ[1] \in TimerRecord /\ 1 \in DOMAIN timerQ
    BY DEF Types, TimerLists
  <1> QED
    BY <1>1 DEF TimerRecord

LEMMA SetTimerInTime ==
    ASSUME Types, ~Behind, NEW t \in TimerRecord, SetTimer(t)
    PROVE  ~Behind'
  <1>1. \/ timerQ'[1] = t
        \/ timerQ # <<>> /\ timerQ'[1] = timerQ[1]
    BY AddedFacts DEF Types, SetTimer
  <1>2. alarm' = IF timerQ'[1].timeout = t.timeout THEN t.timeout ELSE alarm
    BY DEF SetTimer
  <1>3. t.timeout \in Int
    BY Intervals DEF TimerRecord
  <1>4. CASE timerQ'[1].timeout = t.timeout
    BY <1>2, <1>3, <1>4 DEF Behind
  <1>5. CASE timerQ'[1].timeout # t.timeout
    BY <1>1, <1>2, <1>5 DEF Behind
  <1> QED
    BY <1>4, <1>5

LEMMA ScheduleTimerInTime ==
    ASSUME Types, ScheduleTimer
    PROVE  ~Behind'
  <1>1. Early(timerQ') /\ timerQ' \in TimerLists
    BY LeftFacts DEF Types, ScheduleTimer
  <1>2. alarm' = IF timerQ' = <<>> THEN Off ELSE Arm(timerQ'[1].timeout)
    BY DEF ScheduleTimer
  <1>3. SUFFICES ASSUME timerQ' # <<>>
                 PROVE  ~Behind'
    BY DEF Behind
  <1>4. timerQ'[1].timeout > 0
    <2>1. 1 \in DOMAIN timerQ'
      BY <1>1, <1>3 DEF TimerLists
    <2> QED
      BY <1>1, <2>1 DEF Early
  <1>5. timerQ'[1].timeout \in Int
    <2>1. timerQ'[1] \in TimerRecord
      BY <1>1, <1>3 DEF TimerLists
    <2> QED
      BY <2>1, Intervals DEF TimerRecord
  <1>6. alarm' = timerQ'[1].timeout
    BY <1>2, <1>3, <1>4 DEF Arm
  <1> QED
    BY <1>5, <1>6 DEF Behind

LEMMA TickInTime ==
    ASSUME Types, ~Behind, Tick
    PROVE  ~Behind'
  <1>1. timerQ' = [k \in DOMAIN timerQ |-> Older(timerQ[k])]
    BY DEF Tick, Older
  <1>2. alarm \in -1..Off /\ alarm >= 0 /\ alarm' = IF alarm = Off THEN Off ELSE alarm - 1
    BY DEF Tick, Types
  <1>3. CASE timerQ = <<>>
    <2>1. timerQ' = <<>>
      BY <1>1, <1>3
    <2> QED
      BY <2>1 DEF Behind
  <1>4. CASE timerQ # <<>>
    <2>1. /\ timerQ[1].timeout \in -Lag..Off - 1
          /\ timerQ'[1].timeout = IF timerQ[1].timeout > -Lag THEN timerQ[1].timeout - 1
                                  ELSE timerQ[1].timeout
      <3>1. timerQ[1] \in TimerRecord /\ timerQ'[1] = Older(timerQ[1])
        BY <1>1, <1>4, FirstTimer
      <3> QED
        BY <1>4, <3>1, FirstTimer DEF Older, TimerRecord
    <2>2. ~(alarm > 0 /\ alarm > timerQ[1].timeout)
      BY <1>4 DEF Behind
    <2>3. ~(alarm' > 0 /\ alarm' > timerQ'[1].timeout)
      BY <1>2, <2>1, <2>2, Intervals
    <2> QED
      BY <2>3 DEF Behind
  <1> QED
    BY <1>3, <1>4

LEMMA RemoveTimerInTime ==
    ASSUME Types, ~Behind, RemoveTimer, Behind'
    PROVE  /\ pc = "remove" /\ timerQ[1].type = "ENTRY" /\ timerQ[1].contain = Head(ready)
           /\ timerQ[1].data # msg.src \/ alarm' = Off
  <1> DEFINE i == Head(ready)
             old == EntryTimers(msg.src, i)
             k == CHOOSE x \in old : \A y \in old : x <= y
             setNow == timerQ[1].type = "ENTRY" /\ timerQ[1].contain = i
             m == Len(timerQ)
  <1>1. /\ old # {} /\ timerQ' = RemoveAt(timerQ, k)
        /\ alarm' = IF setNow /\ k < m THEN Arm(timerQ[k + 1].timeout) ELSE alarm
    BY DEF RemoveTimer, Behind
  <1>2. timerQ \in Seq(TimerRecord) /\ m \in Nat /\ DOMAIN timerQ = 1..m
    BY DEF Types, TimerLists
  <1>3. k \in old /\ \A y \in old : k <= y
    <2>1. old \in SUBSET Nat
      BY <1>2 DEF EntryTimers
    <2> HIDE DEF old
    <2> QED
      BY <1>1, <2>1, Least
  <1> HIDE DEF k
  <1>4. k \in 1..m /\ timerQ[k].type = "ENTRY" /\ timerQ[k].contain = i
    BY <1>2, <1>3 DEF EntryTimers
  <1>5. 1 \in 1..m
    BY <1>2, <1>4
  <1>7. timerQ' # <<>> /\ alarm' > 0 /\ alarm' > timerQ'[1].timeout
    BY DEF Behind
  <1>6. /\ 1 \in 1..m - 1
        /\ \A j \in 1..m - 1 : timerQ'[j] = IF j < k THEN timerQ[j] ELSE timerQ[j + 1]
    <2>1. /\ timerQ' \in Seq(TimerRecord) /\ Len(timerQ') = m - 1
          /\ \A j \in 1..m - 1 : timerQ'[j] = IF j < k THEN timerQ[j] ELSE timerQ[j + 1]
      BY <1>1, <1>2, <1>4, RemoveAtFacts
    <2>2. Len(timerQ') \in Nat /\ Len(timerQ') # 0
      BY <1>7, <2>1
    <2> HIDE DEF m
    <2> QED
      BY <1>2, <2>1, <2>2
  <1> HIDE DEF m, old
  <1>8. setNow
    <2> SUFFICES ASSUME ~setNow
                 PROVE  FALSE
      OBVIOUS
    <2>1. k # 1
      BY <1>4
    <2>2. timerQ'[1] = timerQ[1] /\ alarm' = alarm /\ timerQ # <<>>
      BY <1>1, <1>2, <1>4, <1>6, <1>7, <2>1 DEF m
    <2> QED
      BY <1>7, <2>2 DEF Behind
  <1>9. ASSUME timerQ[1].data = msg.src
        PROVE  alarm' = Off
    <2>1. 1 \in old
      BY <1>2, <1>5, <1>8, <1>9 DEF old, EntryTimers
    <2>2. k = 1
      BY <1>2, <1>3, <1>4, <2>1
    <2>3. k < m /\ timerQ'[1] = timerQ[2]
      BY <1>2, <1>4, <1>6, <1>7, <2>2
    <2>4. alarm' = Arm(timerQ[2].timeout)
      BY <1>1, <1>8, <2>2, <2>3
    <2>5. timerQ[2].timeout \in Int
      <3>1. timerQ[2] \in TimerRecord
        BY <1>2, <1>4, <2>2, <2>3
      <3> QED
        BY <3>1, Intervals DEF TimerRecord
    <2> QED
      BY <1>7, <2>3, <2>4, <2>5 DEF Arm
  <1> QED
    BY <1>8, <1>9 DEF RemoveTimer

(* SIGALRM is set too late for the first timer of the list by nothing but  *)
(* remove_neighbor_entry_timer, and there only when the first timer is     *)
(* that of another neighbour of the interface, or the timer behind the     *)
(* removed one is due as well: no set_timer, run of the handler, passing   *)
(* of time or call of the API does, whatever the neighbours and intervals. *)
THEOREM AlarmIsInTime == Spec => AlarmFallsBehind
  <1> DEFINE excused == /\ pc = "remove" /\ timerQ[1].type = "ENTRY"
                        /\ timerQ[1].contain = Head(ready)
                        /\ timerQ[1].data # msg.src \/ alarm' = Off
  <1>1. Types /\ [Next]_vars => [Behind' => Behind \/ excused]_vars
    <2> SUFFICES ASSUME Types, Next, Behind', ~Behind
                 PROVE  excused
      OBVIOUS
    <2>0. ASSUME UNCHANGED <<timerQ, alarm>>
          PROVE  FALSE
      BY <2>0 DEF Behind
    <2>1. CASE Select \/ ReadHello \/ Apply
      BY <2>0, <2>1 DEF Select, ReadHello, Apply
    <2>2. CASE RemoveTimer
      BY <2>2, RemoveTimerInTime
    <2>3. CASE SetEntryTimer
      <3>1. Head(ready) \in Ifs /\ msg.src \in Nodes
        BY <2>3, HeadReady DEF SetEntryTimer, Types, Updating, Audible
      <3>2. EntryTimer(msg.src, Head(ready)) \in TimerRecord
        BY <3>1, NewTimers
      <3> QED
        BY <2>3, <3>2, SetTimerInTime DEF SetEntryTimer
    <2>4. CASE ScheduleTimer
      BY <2>4, ScheduleTimerInTime
    <2>5. CASE TurnDown
      BY <2>5 DEF TurnDown, Behind
    <2>6. CASE Tick
      BY <2>6, TickInTime
    <2>7. ASSUME NEW i \in Tuned, NEW on \in BOOLEAN, SetHelloInterval(i, on)
          PROVE  FALSE
      <3>1. CASE UNCHANGED <<timerQ, alarm>>
        BY <2>0, <3>1
      <3>2. CASE SetTimer(HelloTimer(i))
        BY <3>2, DiscoveryAssumption, NewTimers, SetTimerInTime
      <3> QED
        BY <2>7, <3>1, <3>2 DEF SetHelloInterval
    <2>8. ASSUME NEW n \in Nodes, SendHello(n)
          PROVE  FALSE
      BY <2>0, <2>8 DEF SendHello
    <2> QED
      BY <2>1, <2>2, <2>3, <2>4, <2>5, <2>6, <2>7, <2>8 DEF Next, MainLoop
  <1> QED
    BY <1>1, TypesHold, PTL DEF Spec, AlarmFallsBehind

-----------------------------------------------------------------------------
(* The chains of hello timers.                                             *)
Chain(q, i) == {k \in DOMAIN q : q[k].type = "HELLO" /\ q[k].contain = i}
Count(q, i) == Cardinality(Chain(q, i))

LEMMA Smaller ==
    ASSUME NEW S, NEW T, IsFiniteSet(T), NEW f \in [S -> T],
           \A x, y \in S : f[x] = f[y] => x = y
    PROVE  IsFiniteSet(S) /\ Cardinality(S) <= Cardinality(T)
  <1>1. f \in Injection(S, T)
    BY DEF Injection, IsInjective
  <1> QED
    BY <1>1, FS_Injection

LEMMA ChainFinite ==
    ASSUME NEW q \in TimerLists, NEW i
    PROVE  IsFiniteSet(Chain(q, i)) /\ Chain(q, i) \subseteq 1..Len(q) /\ Count(q, i) \in Nat
  <1>1. DOMAIN q = 1..Len(q) /\ Len(q) \in Nat
    BY DEF TimerLists
  <1>2. IsFiniteSet(1..Len(q)) /\ Chain(q, i) \in SUBSET (1..Len(q))
    BY <1>1, FS_Interval DEF Chain
  <1>3. IsFiniteSet(Chain(q, i))
    BY <1>2, FS_Subset
  <1> QED
    BY <1>2, <1>3, FS_CardinalityType DEF Count

LEMMA CountAdded ==
    ASSUME NEW q \in TimerLists, NEW t \in TimerRecord, NEW i
    PROVE  Count(TimerAdd(q, t), i)
              <= Count(q, i) + (IF t.type = "HELLO" /\ t.contain = i THEN 1 ELSE 0)
  <1> DEFINE r == TimerAdd(q, t)
             m == Len(q)
  <1>1. r \in TimerLists /\ m \in Nat /\ DOMAIN q = 1..m
    BY TimerAddFacts DEF TimerLists
  <1>2. PICK p \in 1..m + 1 : Inserted(r, q, p, t)
    BY TimerAddFacts
  <1>3. /\ DOMAIN r = 1..m + 1
        /\ \A j \in 1..m + 1 : r[j] = IF j < p THEN q[j] ELSE IF j = p THEN t ELSE q[j - 1]
    BY <1>1, <1>2 DEF Inserted, TimerLists
  <1> HIDE DEF r, m
  <1> DEFINE S == Chain(r, i) \ {p}
             f == [j \in S |-> IF j < p THEN j ELSE j - 1]
  <1>4. \A j \in S : j \in 1..m + 1 /\ j # p /\ r[j].type = "HELLO" /\ r[j].contain = i
    BY <1>3 DEF Chain
  <1>5. \A j \in 1..m + 1 : j # p => /\ (IF j < p THEN j ELSE j - 1) \in 1..m
                                     /\ r[j] = q[IF j < p THEN j ELSE j - 1]
    BY <1>1, <1>3
  <1>6. f \in [S -> Chain(q, i)]
    BY <1>1, <1>4, <1>5 DEF Chain
  <1>7. \A x, y \in S : f[x] = f[y] => x = y
    BY <1>1, <1>4
  <1>8. IsFiniteSet(S) /\ Cardinality(S) <= Count(q, i) /\ Count(q, i) \in Nat
    <2> HIDE DEF f, S
    <2> QED
      BY <1>6, <1>7, ChainFinite, Smaller DEF Count
  <1>9. p \in Chain(r, i) <=> t.type = "HELLO" /\ t.contain = i
    BY <1>1, <1>3 DEF Chain
  <1>10. CASE p \in Chain(r, i)
    <2>1. Chain(r, i) = S \cup {p} /\ p \notin S
      BY <1>10
    <2> HIDE DEF S
    <2>2. Count(r, i) = Cardinality(S) + 1
      BY <1>8, <2>1, FS_AddElement DEF Count
    <2>3. Cardinality(S) \in Nat
      BY <1>8, FS_CardinalityType
    <2> QED
      BY <1>8, <1>9, <1>10, <2>2, <2>3 DEF r
  <1>11. CASE p \notin Chain(r, i)
    <2>1. Chain(r, i) = S
      BY <1>11
    <2> HIDE DEF S
    <2>2. Count(r, i) = Cardinality(S) /\ Cardinality(S) \in Nat
      BY <1>8, <2>1, FS_CardinalityType DEF Count
    <2> QED
      BY <1>8, <1>9, <1>11, <2>2 DEF r
  <1> QED
    BY <1>10, <1>11

LEMMA CountRemoved ==
    ASSUME NEW q \in TimerLists, NEW k \in DOMAIN q, NEW i
    PROVE  Count(RemoveAt(q, k), i) <= Count(q, i)
  <1> DEFINE m == Len(q)
             r == RemoveAt(q, k)
             f == [j \in Chain(r, i) |-> IF j < k THEN j ELSE j + 1]
  <1>1. q \in Seq(TimerRecord) /\ m \in Nat /\ DOMAIN q = 1..m
    BY DEF TimerLists
  <1>2. /\ r \in Seq(TimerRecord) /\ Len(r) = m - 1
        /\ \A j \in 1..m - 1 : r[j] = IF j < k THEN q[j] ELSE q[j + 1]
    BY <1>1, RemoveAtFacts
  <1>3. DOMAIN r = 1..m - 1 /\ k \in 1..m
    BY <1>1, <1>2
  <1> HIDE DEF m, r
  <1>4. \A j \in Chain(r, i) : j \in 1..m - 1 /\ r[j].type = "HELLO" /\ r[j].contain = i
    BY <1>3 DEF Chain
  <1>5. \A j \in 1..m - 1 : /\ (IF j < k THEN j ELSE j + 1) \in 1..m
                            /\ r[j] = q[IF j < k THEN j ELSE j + 1]
    BY <1>1, <1>2, <1>3
  <1>6. f \in [Chain(r, i) -> Chain(q, i)]
    BY <1>1, <1>4, <1>5 DEF Chain
  <1>7. \A x, y \in Chain(r, i) : f[x] = f[y] => x = y
    BY <1>1, <1>3, <1>4
  <1> HIDE DEF f
  <1> QED
    BY <1>6, <1>7, ChainFinite, Smaller DEF Count, r

(* The handlers of the due timers add no more timers of an interface than  *)
(* are due.                                                                *)
LEMMA CountLeft ==
    ASSUME hello \in [Ifs -> BOOLEAN], timerQ \in TimerLists, NEW i
    PROVE  Count(Left, i) <= Count(timerQ, i)
  <1> DEFINE m == Len(timerQ)
             c == Cardinality(DueTimers)
             u == Renewed(Rest)
             past(k) == Chain(timerQ, i) \cap 1..k
             R == {k \in 0..m : u[k] \in TimerLists
                                /\ Count(u[k], i) <= Count(Rest, i) + Cardinality(past(k))}
  <1>1. timerQ \in Seq(TimerRecord) /\ m \in Nat /\ DOMAIN timerQ = 1..m /\ c \in 0..m
    BY DueFacts DEF TimerLists
  <1>2. /\ \A k \in 0..m : Helloed(Rest, u[k])
        /\ \A k \in 0..m : u[k] = IF k = 0 THEN Rest
                                  ELSE IF timerQ[k].type = "HELLO"
                                       THEN AddHello(u[k - 1], timerQ[k].contain) ELSE u[k - 1]
    BY RestFacts, RenewedFacts, RenewedSteps
  <1>3. Left = u[c]
    BY DEF Left, Rest
  <1>4. /\ Rest \in Seq(TimerRecord) /\ Len(Rest) = m - c
        /\ \A j \in 1..m - c : Rest[j] = timerQ[c + j]
    BY RestElements
  <1> HIDE DEF u, m, c
  <1>5. \A k \in 0..m : u[k] \in TimerLists
    BY <1>2 DEF Helloed
  <1>6. IsFiniteSet(Chain(timerQ, i)) /\ Chain(timerQ, i) \subseteq 1..m
    BY ChainFinite DEF m
  <1>7. ASSUME NEW k
        PROVE  IsFiniteSet(past(k)) /\ Cardinality(past(k)) \in Nat
    <2>1. past(k) \in SUBSET Chain(timerQ, i)
      OBVIOUS
    <2> HIDE DEF past
    <2> QED
      BY <1>6, <2>1, FS_Subset, FS_CardinalityType
  <1>8. Rest \in TimerLists /\ Count(Rest, i) \in Nat
    BY RestFacts, ChainFinite
  <1>9. 0 \in R
    <2>1. u[0] = Rest
      BY <1>1, <1>2
    <2> HIDE DEF past
    <2> QED
      BY <1>1, <1>7, <1>8, <2>1
  <1>10. \A k \in 1..m : k - 1 \in R => k \in R
    <2> SUFFICES ASSUME NEW k \in 1..m,
                        Count(u[k - 1], i) <= Count(Rest, i) + Cardinality(past(k - 1))
                 PROVE  Count(u[k], i) <= Count(Rest, i) + Cardinality(past(k))
      BY <1>1, <1>5
    <2>1. /\ k - 1 \in 0..m /\ k \in 0..m /\ k # 0
          /\ u[k] = IF timerQ[k].type = "HELLO" THEN AddHello(u[k - 1], timerQ[k].contain)
                    ELSE u[k - 1]
      BY <1>1, <1>2
    <2>2. timerQ[k] \in TimerRecord
      BY <1>1
    <2>3. timerQ[k].contain \in Ifs
      BY <2>2 DEF TimerRecord
    <2>4. u[k - 1] \in TimerLists /\ Count(u[k - 1], i) \in Nat /\ Count(u[k], i) \in Nat
      BY <1>5, <2>1, ChainFinite
    <2>5. past(k - 1) \subseteq past(k) /\ k \notin past(k - 1)
      BY <1>1
    <2>6. CASE timerQ[k].type = "HELLO" /\ timerQ[k].contain = i
      <3>1. past(k) = past(k - 1) \cup {k}
        BY <1>1, <1>6, <2>6 DEF Chain
      <3> HIDE DEF past
      <3>2. Cardinality(past(k)) = Cardinality(past(k - 1)) + 1
        BY <1>7, <2>5, <3>1, FS_AddElement
      <3>3. Count(u[k], i) <= Count(u[k - 1], i) + 1
        <4>1. CASE hello[i]
          <5>1. u[k] = TimerAdd(u[k - 1], HelloTimer(i))
            BY <2>1, <2>6, <4>1 DEF AddHello
          <5>2. HelloTimer(i) \in TimerRecord
            BY <2>3, <2>6, NewTimers
          <5>3. Count(u[k], i) <= Count(u[k - 1], i)
                   + (IF HelloTimer(i).type = "HELLO" /\ HelloTimer(i).contain = i THEN 1 ELSE 0)
            BY <2>4, <5>1, <5>2, CountAdded
          <5> QED
            BY <2>4, <5>3
        <4>2. CASE ~hello[i]
          BY <2>1, <2>4, <2>6, <4>2 DEF AddHello
        <4> QED
          BY <4>1, <4>2
      <3> QED
        BY <1>7, <1>8, <2>4, <3>2, <3>3
    <2>7. CASE ~(timerQ[k].type = "HELLO" /\ timerQ[k].contain = i)
      <3>1. Count(u[k], i) <= Count(u[k - 1], i)
        <4>1. CASE timerQ[k].type = "HELLO" /\ hello[timerQ[k].contain]
          <5>1. u[k] = TimerAdd(u[k - 1], HelloTimer(timerQ[k].contain))
            BY <2>1, <4>1 DEF AddHello
          <5>2. HelloTimer(timerQ[k].contain) \in TimerRecord
            BY <2>3, NewTimers
          <5>3. HelloTimer(timerQ[k].contain).contain # i
            BY <2>7, <4>1 DEF HelloTimer, Timer
          <5>4. Count(u[k], i) <= Count(u[k - 1], i) + 0
            BY <2>4, <5>1, <5>2, <5>3, CountAdded
          <5> QED
            BY <2>4, <5>4
        <4>2. CASE ~(timerQ[k].type = "HELLO" /\ hello[timerQ[k].contain])
          <5>1. u[k] = u[k - 1]
            BY <2>1, <4>2 DEF AddHello
          <5> QED
            BY <2>4, <5>1
        <4> QED
          BY <4>1, <4>2
      <3>2. Cardinality(past(k - 1)) <= Cardinality(past(k))
        <4> HIDE DEF past
        <4> QED
          BY <1>7, <2>5, FS_Subset
      <3> HIDE DEF past
      <3> QED
        BY <1>7, <1>8, <2>4, <3>1, <3>2
    <2> QED
      BY <2>6, <2>7
  <1>11. Count(u[c], i) <= Count(Rest, i) + Cardinality(past(c))
    <2> HIDE DEF R
    <2>1. c \in R
      BY <1>1, <1>9, <1>10, Upward
    <2> QED
      BY <2>1 DEF R
  <1>12. Count(Rest, i) + Cardinality(past(c)) <= Count(timerQ, i)
    <2> DEFINE S == Chain(Rest, i)
               later == Chain(timerQ, i) \ 1..c
               f == [j \in S |-> c + j]
    <2>1. \A j \in S : /\ j \in 1..m - c /\ Rest[j].type = "HELLO" /\ Rest[j].contain = i
                       /\ Rest[j] = timerQ[c + j]
      BY <1>1, <1>4 DEF Chain
    <2>2. \A j \in 1..m - c : c + j \in 1..m /\ c + j \notin 1..c
      BY <1>1
    <2>3. f \in [S -> later]
      BY <1>1, <2>1, <2>2 DEF Chain
    <2>4. \A x, y \in S : f[x] = f[y] => x = y
      BY <1>1, <2>1
    <2>5. IsFiniteSet(later)
      <3>1. later \in SUBSET Chain(timerQ, i)
        OBVIOUS
      <3> HIDE DEF later
      <3> QED
        BY <1>6, <3>1, FS_Subset
    <2>6. Count(Rest, i) <= Cardinality(later)
      <3> HIDE DEF f, later
      <3>1. Cardinality(S) <= Cardinality(later)
        <4> HIDE DEF S
        <4> QED
          BY <2>3, <2>4, <2>5, Smaller
      <3> QED
        BY <3>1 DEF Count
    <2>7. later \cup past(c) = Chain(timerQ, i) /\ later \cap past(c) = {}
      OBVIOUS
    <2> HIDE DEF later, past
    <2>8. Cardinality(Chain(timerQ, i)) = Cardinality(later) + Cardinality(past(c)) - Cardinality({})
      BY <1>7, <2>5, <2>7, FS_Union
    <2>9. Cardinality({}) = 0 /\ Cardinality(later) \in Nat
      BY <2>5, FS_EmptySet, FS_CardinalityType
    <2> QED
      BY <1>7, <1>8, <2>6, <2>8, <2>9 DEF Count
  <1>13. Count(timerQ, i) \in Nat /\ Count(u[c], i) \in Nat
    BY <1>1, <1>5, ChainFinite
  <1> HIDE DEF past
  <1> QED
    BY <1>3, <1>7, <1>8, <1>11, <1>12, <1>13

(* The hello timers of an interface become more only when its interval     *)
(* changes from 0 to another value: neither the handler, which sends and   *)
(* sets the timer again, nor any other timer or call starts a second       *)
(* chain, whatever the interfaces, intervals and neighbours.               *)
THEOREM ChainsStaySingle == Spec => OneChain
  <1> DEFINE grows == \A i \in Ifs : Cardinality(HelloTimers(i)') > Cardinality(HelloTimers(i))
                                        => ~hello[i] /\ hello'[i]
  <1>1. Types /\ [Next]_vars => [grows]_vars
    <2> SUFFICES ASSUME Types, Types', Next, NEW i \in Ifs, ~(~hello[i] /\ hello'[i])
                 PROVE  Count(timerQ', i) <= Count(timerQ, i)
      <3>1. \A i \in Ifs : /\ HelloTimers(i) = Chain(timerQ, i)
                           /\ HelloTimers(i)' = Chain(timerQ', i)
        BY DEF HelloTimers, Chain
      <3>2. ASSUME Types, Types', NEW i \in Ifs
            PROVE  Count(timerQ, i) \in Nat /\ Count(timerQ', i) \in Nat
        BY <3>2, ChainFinite DEF Types
      <3> QED
        BY <3>1, <3>2, TypesStep DEF Count
    <2>1. timerQ \in TimerLists /\ timerQ' \in TimerLists
      BY DEF Types
    <2>2. Count(timerQ, i) \in Nat /\ Count(timerQ', i) \in Nat
      BY <2>1, ChainFinite
    <2>3. ASSUME timerQ' = timerQ
          PROVE  Count(timerQ', i) <= Count(timerQ, i)
      BY <2>2, <2>3
    <2>4. ASSUME NEW t \in TimerRecord, SetTimer(t), t.type = "HELLO" => t.contain # i
          PROVE  Count(timerQ', i) <= Count(timerQ, i)
      <3>1. timerQ' = TimerAdd(timerQ, t)
        BY <2>4 DEF SetTimer
      <3>2. Count(TimerAdd(timerQ, t), i)
               <= Count(timerQ, i) + (IF t.type = "HELLO" /\ t.contain = i THEN 1 ELSE 0)
        BY <2>1, CountAdded
      <3> QED
        BY <2>2, <2>4, <3>1, <3>2
    <2>5. CASE Select \/ ReadHello \/ Apply
      BY <2>3, <2>5 DEF Select, ReadHello, Apply
    <2>6. CASE RemoveTimer
      <3>1. timerQ' = timerQ \/ \E k \in DOMAIN timerQ : timerQ' = RemoveAt(timerQ, k)
        BY <2>6, Removal
      <3> QED
        BY <2>1, <2>3, <3>1, CountRemoved
    <2>7. CASE SetEntryTimer
      <3>1. Head(ready) \in Ifs /\ msg.src \in Nodes
        BY <2>7, HeadReady DEF SetEntryTimer, Types, Updating, Audible
      <3>2. /\ EntryTimer(msg.src, Head(ready)) \in TimerRecord
            /\ EntryTimer(msg.src, Head(ready)).type = "ENTRY"
        BY <3>1, NewTimers
      <3>3. SetTimer(EntryTimer(msg.src, Head(ready)))
        BY <2>7 DEF SetEntryTimer
      <3> QED
        BY <2>4, <3>2, <3>3
    <2>8. CASE ScheduleTimer
      BY <2>1, <2>8, CountLeft DEF ScheduleTimer, Types
    <2>9. CASE TurnDown
      <3>1. timerQ' = <<>>
        BY <2>9 DEF TurnDown
      <3>2. Chain(timerQ', i) = {}
        BY <3>1 DEF Chain
      <3> QED
        BY <2>2, <3>2, FS_EmptySet DEF Count
    <2>10. CASE Tick
      <3>1. timerQ' = [k \in DOMAIN timerQ |-> Older(timerQ[k])]
        BY <2>10 DEF Tick, Older
      <3>2. \A t \in TimerRecord : Older(t).type = t.type /\ Older(t).contain = t.contain
        BY DEF Older, TimerRecord
      <3>3. \A k \in DOMAIN timerQ : timerQ[k] \in TimerRecord
        BY <2>1 DEF TimerLists
      <3>4. Chain(timerQ', i) = Chain(timerQ, i)
        BY <3>1, <3>2, <3>3 DEF Chain
      <3> QED
        BY <2>2, <3>4 DEF Count
    <2>11. ASSUME NEW j \in Tuned, NEW on \in BOOLEAN, SetHelloInterval(j, on)
           PROVE  Count(timerQ', i) <= Count(timerQ, i)
      <3>1. j \in Ifs /\ hello \in [Ifs -> BOOLEAN]
        BY DiscoveryAssumption DEF Types
      <3>2. CASE ~hello[j] /\ on
        <4>1. hello'[j] /\ SetTimer(HelloTimer(j))
          BY <2>11, <3>1, <3>2 DEF SetHelloInterval
        <4>2. j # i
          BY <3>2, <4>1
        <4>3. HelloTimer(j) \in TimerRecord /\ HelloTimer(j).contain # i
          BY <3>1, <4>2, NewTimers DEF HelloTimer, Timer
        <4> QED
          BY <2>4, <4>1, <4>3
      <3>3. CASE ~(~hello[j] /\ on)
        BY <2>3, <2>11, <3>3 DEF SetHelloInterval
      <3> QED
        BY <3>2, <3>3
    <2>12. ASSUME NEW n \in Nodes, SendHello(n)
           PROVE  Count(timerQ', i) <= Count(timerQ, i)
      BY <2>3, <2>12 DEF SendHello
    <2> QED
      BY <2>5, <2>6, <2>7, <2>8, <2>9, <2>10, <2>11, <2>12 DEF Next, MainLoop
  <1> QED
    BY <1>1, TypesHold, PTL DEF Spec, OneChain

-----------------------------------------------------------------------------
(* The index that update_info found is that of the neighbour of the        *)
(* message, or a run of the signal handler has moved another entry to it,  *)
(* which is torn then.                                                     *)
OwnInfo == \A i \in Ifs : \A k \in DOMAIN neighbors[i] :
              neighbors[i][k].of = neighbors[i][k].ip \/ neighbors[i][k].ip \in torn

Aimed == pc = "apply" /\ msg.index \in DOMAIN neighbors[Head(ready)]
            => neighbors[Head(ready)][msg.index].ip \in {msg.src} \cup torn

Own == OwnInfo /\ Aimed

(* The neighbours of the first entries, up to x.                           *)
FirstOf(i, x) == {neighbors[i][k].ip : k \in 1..x \cap DOMAIN neighbors[i]}

(* What the signal handler does to the entries up to x: none of them is    *)
(* deleted, or the one that is at x afterwards counts as torn.             *)
LEMMA DisturbedFacts ==
    ASSUME Types, pc \in {"apply", "remove"}, msg.index # 0
    PROVE  LET i == Head(ready) IN
           \/ \A n \in FirstOf(i, msg.index) : In(Kept(i), n)
           \/ /\ pc = "remove" /\ (msg.src \in Disturbed \/ In(Kept(i), msg.src))
           \/ /\ pc = "apply" /\ msg.src \in Disturbed
              /\ msg.index \in DOMAIN Kept(i) => Kept(i)[msg.index].ip \in Disturbed
  <1> DEFINE i == Head(ready)
             after == {Kept(i)[k].ip : k \in DOMAIN Kept(i)}
  <1>1. Disturbed = IF FirstOf(i, msg.index) \subseteq after THEN {}
                    ELSE IF pc = "remove" THEN {msg.src} \ after
                    ELSE {msg.src} \cup {Kept(i)[k].ip : k \in {msg.index} \cap DOMAIN Kept(i)}
    BY DEF Disturbed, FirstOf
  <1>2. \A n : n \in after <=> In(Kept(i), n)
    BY DEF In
  <1> HIDE DEF after, i
  <1>3. CASE FirstOf(i, msg.index) \subseteq after
    BY <1>2, <1>3 DEF i
  <1>4. CASE ~(FirstOf(i, msg.index) \subseteq after) /\ pc = "remove"
    BY <1>1, <1>2, <1>4 DEF i
  <1>5. CASE ~(FirstOf(i, msg.index) \subseteq after) /\ pc = "apply"
    BY <1>1, <1>5 DEF i
  <1> QED
    BY <1>3, <1>4, <1>5

LEMMA OwnInit == Init => Own
  BY DEF Init, Own, OwnInfo, Aimed

LEMMA OwnApply == Types /\ Own /\ Apply => Own'
  <1> SUFFICES ASSUME Types, Own, Apply
               PROVE  Own'
    OBVIOUS
  <1> DEFINE i == Head(ready)
             r == Written(neighbors[i], msg)
  <1>1. i \in Ifs /\ pc = "apply"
    BY HeadReady DEF Apply
  <1>2. Listing(neighbors[i], i) /\ msg.src \in Audible(i) /\ msg.index \in Nat
        /\ (msg.index = 0 => ~In(neighbors[i], msg.src))
    BY <1>1 DEF Types, Updating
  <1>3. /\ neighbors' = IF up THEN [neighbors EXCEPT ![i] = r] ELSE neighbors
        /\ pc' # "apply" /\ torn' = torn
    BY DEF Apply
  <1>4. \A k \in DOMAIN r :
           \/ \E j \in DOMAIN neighbors[i] : r[k] = neighbors[i][j]
           \/ /\ r[k].of = msg.src
              /\ \/ r[k].ip = msg.src
                 \/ msg.index \in DOMAIN neighbors[i] /\ r[k].ip = neighbors[i][msg.index].ip
    BY <1>1, <1>2, WrittenFacts
  <1>5. neighbors = [j \in Ifs |-> neighbors[j]]
    BY DEF Types
  <1> HIDE DEF r, i
  <1>6. \A k \in DOMAIN r : r[k].of = r[k].ip \/ r[k].ip \in torn
    <2> TAKE k \in DOMAIN r
    <2>1. CASE \E j \in DOMAIN neighbors[i] : r[k] = neighbors[i][j]
      BY <1>1, <2>1 DEF Own, OwnInfo
    <2>2. CASE /\ r[k].of = msg.src /\ msg.index \in DOMAIN neighbors[i]
               /\ r[k].ip = neighbors[i][msg.index].ip
      BY <1>1, <2>2 DEF Own, Aimed, i
    <2> QED
      BY <1>4, <2>1, <2>2
  <1>7. OwnInfo'
    <2>1. CASE up
      <3>1. \A j \in Ifs : neighbors'[j] = IF j = i THEN r ELSE neighbors[j]
        BY <1>3, <1>5, <2>1
      <3> SUFFICES ASSUME NEW j \in Ifs, NEW k \in DOMAIN neighbors'[j]
                   PROVE  neighbors'[j][k].of = neighbors'[j][k].ip \/ neighbors'[j][k].ip \in torn'
        BY DEF OwnInfo
      <3>2. CASE j = i
        BY <1>3, <1>6, <3>1, <3>2
      <3>3. CASE j # i
        BY <1>3, <3>1, <3>3 DEF Own, OwnInfo
      <3> QED
        BY <3>2, <3>3
    <2>2. CASE ~up
      BY <1>3, <2>2 DEF Own, OwnInfo
    <2> QED
      BY <2>1, <2>2
  <1> QED
    BY <1>3, <1>7 DEF Own, Aimed

LEMMA OwnReadHello == Types /\ Own /\ ReadHello => Own'
  <1> SUFFICES ASSUME Types, Own, ReadHello
               PROVE  Own'
    OBVIOUS
  <1> DEFINE i == Head(ready)
             n == Head(inbox[i])
  <1>1. i \in Ifs
    BY HeadReady DEF ReadHello
  <1>2. Listing(neighbors[i], i)
    BY <1>1 DEF Types
  <1>3. msg' = [src |-> n, index |-> Find(n, neighbors[i])] /\ UNCHANGED <<neighbors, ready, torn>>
    BY DEF ReadHello
  <1>4. ASSUME Find(n, neighbors[i]) \in DOMAIN neighbors[i]
        PROVE  neighbors[i][Find(n, neighbors[i])].ip = n
    <2>1. Find(n, neighbors[i]) # 0
      BY <1>2, <1>4 DEF Listing
    <2> QED
      BY <1>2, <2>1, FindFacts
  <1> HIDE DEF n
  <1> QED
    BY <1>3, <1>4 DEF Own, OwnInfo, Aimed

LEMMA OwnScheduleTimer == Types /\ Own /\ ScheduleTimer => Own'
  <1> SUFFICES ASSUME Types, Own, ScheduleTimer
               PROVE  Own'
    OBVIOUS
  <1>1. /\ neighbors' = [i \in Ifs |-> Kept(i)] /\ torn' = torn \cup Disturbed
        /\ pc' = "apply" => pc = "apply" /\ ready' = ready /\ msg' = msg
    BY DEF ScheduleTimer, thread
  <1>2. \A i \in Ifs : Listing(neighbors[i], i)
    BY DEF Types
  <1>3. OwnInfo'
    <2> SUFFICES ASSUME NEW i \in Ifs, NEW j \in DOMAIN Kept(i)
                 PROVE  Kept(i)[j].of = Kept(i)[j].ip \/ Kept(i)[j].ip \in torn'
      BY <1>1 DEF OwnInfo
    <2>1. PICK k \in DOMAIN neighbors[i] : Kept(i)[j] = neighbors[i][k]
      BY <1>2, KeptFacts
    <2> QED
      BY <1>1, <2>1 DEF Own, OwnInfo
  <1>4. Aimed'
    <2> DEFINE i == Head(ready)
               x == msg.index
    <2> SUFFICES ASSUME pc = "apply", x \in DOMAIN Kept(i), i \in Ifs
                 PROVE  Kept(i)[x].ip \in {msg.src} \cup torn \cup Disturbed
      <3>1. pc = "apply" => i \in Ifs
        BY HeadReady
      <3> QED
        BY <1>1, <3>1 DEF Aimed
    <2>1. Listing(Kept(i), i) /\ Listing(neighbors[i], i) /\ Len(Kept(i)) <= Len(neighbors[i])
      BY <1>2, KeptFacts
    <2>2. x \in DOMAIN neighbors[i] /\ x # 0 /\ x \in Nat
      BY <2>1 DEF Listing
    <2>3. neighbors[i][x].ip \in {msg.src} \cup torn
      BY <2>2 DEF Own, Aimed
    <2> HIDE DEF x, i
    <2>4. CASE \A n \in FirstOf(i, x) : In(Kept(i), n)
      <3>1. ASSUME NEW k \in 1..x
            PROVE  ~DueFor(neighbors[i][k].ip, i)
        <4>1. k \in DOMAIN neighbors[i]
          BY <2>1, <2>2 DEF Listing
        <4>2. In(Kept(i), neighbors[i][k].ip)
          BY <2>4, <4>1 DEF FirstOf
        <4>3. \A n : In(Kept(i), n) => ~DueFor(n, i)
          BY <2>1, KeptFacts
        <4> QED
          BY <4>2, <4>3
      <3>2. Kept(i)[x] = neighbors[i][x]
        BY <2>1, <2>2, <3>1, KeptFacts
      <3> QED
        BY <2>3, <3>2
    <2>5. CASE Kept(i)[x].ip \in Disturbed
      BY <2>5
    <2> QED
      BY <2>2, <2>4, <2>5, DisturbedFacts DEF i, x
  <1> QED
    BY <1>3, <1>4 DEF Own

LEMMA OwnStep == Types /\ Own /\ [Next]_vars => Own'
  <1> SUFFICES ASSUME Types, Own, [Next]_vars
               PROVE  Own'
    OBVIOUS
  <1>1. ASSUME UNCHANGED <<neighbors, torn>>, pc' # "apply" \/ UNCHANGED <<ready, msg, pc>>
        PROVE  Own'
    BY <1>1 DEF Own, OwnInfo, Aimed
  <1>2. CASE UNCHANGED vars
    BY <1>1, <1>2 DEF vars
  <1>3. CASE Select \/ RemoveTimer
    BY <1>1, <1>3 DEF Select, RemoveTimer
  <1>4. CASE SetEntryTimer
    <2>1. pc' # "apply" /\ UNCHANGED <<neighbors, torn>>
      BY <1>4 DEF SetEntryTimer
    <2> QED
      BY <1>1, <2>1
  <1>5. CASE TurnDown
    <2>1. neighbors' = [i \in Ifs |-> <<>>]
      BY <1>5 DEF TurnDown
    <2>2. pc' = "apply" => ready' = ready /\ pc = "apply"
      BY <1>5 DEF TurnDown
    <2>3. pc = "apply" => Head(ready) \in Ifs
      BY HeadReady
    <2> QED
      BY <2>1, <2>2, <2>3 DEF Own, OwnInfo, Aimed
  <1>6. CASE Tick
    BY <1>1, <1>6 DEF Tick, thread
  <1>7. ASSUME NEW i \in Tuned, NEW on \in BOOLEAN, SetHelloInterval(i, on)
        PROVE  Own'
    BY <1>1, <1>7 DEF SetHelloInterval, thread
  <1>8. ASSUME NEW n \in Nodes, SendHello(n)
        PROVE  Own'
    BY <1>1, <1>8 DEF SendHello, thread
  <1> QED
    BY <1>2, <1>3, <1>4, <1>5, <1>6, <1>7, <1>8, OwnApply, OwnReadHello, OwnScheduleTimer
       DEF Next, MainLoop

(* What a list says of a neighbour stems from that neighbour's own         *)
(* messages, however many neighbours there are and whenever the signal     *)
(* handler deletes entries, except for a neighbour whose entry a deletion  *)
(* moved to the index that update_info had already found.                  *)
THEOREM InfoIsOwn == Spec => []InfoFromItself
  <1>1. Own => InfoFromItself
    <2> SUFFICES ASSUME Own, NEW i \in Ifs, NEW e \in ToSet(neighbors[i])
                 PROVE  e.of = e.ip \/ e.ip \in torn
      BY DEF InfoFromItself
    <2>1. PICK k \in DOMAIN neighbors[i] : e = neighbors[i][k]
      BY DEF ToSet
    <2> QED
      BY <2>1 DEF Own, OwnInfo
  <1>2. Spec => []Own
    BY TypesHold, OwnInit, OwnStep, PTL DEF Spec
  <1> QED
    BY <1>1, <1>2, PTL

-----------------------------------------------------------------------------
(* Every entry has a timer.                                                *)
Known(n) == In(neighbors[Link[n]], n)
HasTimer(n) == Has(timerQ, n, Link[n])
OneTimer(n) == Once(timerQ, n, Link[n])

(* The entry of the neighbour of the message is at the index that was      *)
(* found, or before it.                                                    *)
Placed(n) == n \in FirstOf(Link[n], msg.index)

(* Between two updates of a neighbour.                                     *)
Settled(n) ==
    /\ Known(n) => HasTimer(n)
    /\ n \notin torn => OneTimer(n) /\ (HasTimer(n) => Known(n))

(* Within an update.                                                       *)
Ongoing(n) ==
    /\ up /\ OneTimer(n)
    /\ pc = "apply" /\ msg.index = 0 => ~Known(n) /\ ~HasTimer(n)
    /\ (pc = "apply" /\ msg.index # 0) \/ pc = "remove" => Placed(n) /\ HasTimer(n)
    /\ pc = "set" => Known(n) /\ ~HasTimer(n)

Timed ==
    /\ ~up /\ ~Updating => pc = "ended"
    /\ \A n \in Nodes : IF InUpdate(n) THEN n \notin torn => Ongoing(n) ELSE Settled(n)

LEMMA LinkType == \A n \in Nodes : Link[n] \in Ifs
  BY DiscoveryAssumption

LEMMA InitTimed == Init => Timed
  <1> SUFFICES ASSUME Init
               PROVE  Timed
    OBVIOUS
  <1>1. hello \in [Ifs -> BOOLEAN]
    BY DEF Init
  <1>2. Helloed(<<>>, timerQ)
    BY <1>1, StartedFacts DEF Init
  <1>3. \A n, i : ~Has(<<>>, n, i) /\ Once(<<>>, n, i)
    BY DEF Has, Once
  <1>4. \A n \in Nodes : ~HasTimer(n) /\ OneTimer(n)
    BY <1>2, <1>3 DEF Helloed, HasTimer, OneTimer
  <1>5. \A n \in Nodes : ~Known(n)
    BY LinkType DEF Init, Known, In
  <1> QED
    BY <1>4, <1>5 DEF Init, Timed, InUpdate, Updating, Settled

(* A step outside of updates that adds no timer of an entry and removes    *)
(* none.                                                                   *)
LEMMA SameTimed ==
    ASSUME Timed, UNCHANGED <<neighbors, torn, up>>,
           \/ ~Updating /\ ~Updating' /\ (pc' = "ended" \/ (up /\ UNCHANGED up))
           \/ UNCHANGED <<pc, ready, msg>>,
           \A n \in Nodes : /\ HasTimer(n)' = HasTimer(n)
                            /\ OneTimer(n) => OneTimer(n)'
    PROVE  Timed'
  <1>1. \A n \in Nodes : Known(n)' = Known(n)
    BY DEF Known
  <1>2. CASE ~Updating /\ ~Updating' /\ (pc' = "ended" \/ (up /\ UNCHANGED up))
    BY <1>1, <1>2 DEF Timed, InUpdate, Settled
  <1>3. CASE UNCHANGED <<pc, ready, msg>>
    <2>1. Updating' = Updating /\ \A n \in Nodes : InUpdate(n)' = InUpdate(n) /\ Placed(n)' = Placed(n)
      BY <1>3 DEF Updating, InUpdate, Placed, FirstOf
    <2> SUFFICES ASSUME NEW n \in Nodes
                 PROVE  IF InUpdate(n)' THEN n \notin torn' => Ongoing(n)' ELSE Settled(n)'
      BY <1>3, <2>1 DEF Timed
    <2>2. CASE InUpdate(n)
      BY <1>1, <1>3, <2>1, <2>2 DEF Timed, Ongoing
    <2>3. CASE ~InUpdate(n)
      BY <1>1, <2>1, <2>3 DEF Timed, Settled
    <2> QED
      BY <2>2, <2>3
  <1> QED
    BY <1>2, <1>3

LEMMA ReadHelloTimed == Types /\ Timed /\ ReadHello => Timed'
  <1> SUFFICES ASSUME Types, Timed, ReadHello
               PROVE  Timed'
    OBVIOUS
  <1>1. PICK i \in Ifs : i = Head(ready)
    BY HeadReady DEF ReadHello
  <1>2. Listing(neighbors[i], i) /\ inbox[i] \in Seq(Audible(i)) /\ inbox[i] # <<>> /\ pc = "read"
    BY <1>1 DEF Types, ReadHello
  <1>3. PICK a \in Audible(i) : a = Head(inbox[i])
    <2> DEFINE S == Audible(i)
    <2> HIDE DEF S
    <2>1. \A s \in Seq(S) : s # <<>> => Head(s) \in S
      OBVIOUS
    <2> QED
      BY <1>2, <2>1 DEF S
  <1>4. PICK x : x = Find(a, neighbors[i])
    OBVIOUS
  <1>5. /\ msg' = [src |-> a, index |-> x] /\ pc' = "apply"
        /\ UNCHANGED <<neighbors, timerQ, up, torn, ready>>
    BY <1>1, <1>3, <1>4 DEF ReadHello
  <1>6. ~Updating /\ up /\ \A n \in Nodes : ~InUpdate(n) /\ Settled(n)
    BY <1>2 DEF Timed, Updating, InUpdate
  <1>7. a \in Nodes /\ Link[a] = i
    BY <1>3 DEF Audible
  <1>8. IF Known(a) THEN x \in DOMAIN neighbors[i] /\ neighbors[i][x].ip = a ELSE x = 0
    BY <1>2, <1>4, <1>7, FindFacts DEF Known
  <1>9. Known(a) => x \in 1..x \cap DOMAIN neighbors[i] /\ x # 0
    BY <1>2, <1>8 DEF Listing
  <1>10. \A n \in Nodes : InUpdate(n)' <=> n = a
    BY <1>5 DEF InUpdate, Updating
  <1>11. \A n \in Nodes : /\ Known(n)' = Known(n) /\ HasTimer(n)' = HasTimer(n)
                          /\ OneTimer(n)' = OneTimer(n)
    BY <1>5 DEF Known, HasTimer, OneTimer
  <1>12. a \notin torn => Ongoing(a)'
    <2> SUFFICES ASSUME a \notin torn
                 PROVE  Ongoing(a)'
      OBVIOUS
    <2>1. OneTimer(a) /\ (HasTimer(a) <=> Known(a))
      BY <1>6, <1>7 DEF Settled
    <2>2. Known(a) => Placed(a)'
      BY <1>5, <1>7, <1>8, <1>9 DEF Placed, FirstOf
    <2> QED
      BY <1>5, <1>6, <1>7, <1>8, <1>9, <1>11, <2>1, <2>2 DEF Ongoing
  <1>13. \A n \in Nodes : Settled(n)'
    BY <1>5, <1>6, <1>11 DEF Settled
  <1> QED
    BY <1>5, <1>6, <1>10, <1>12, <1>13 DEF Timed, Updating

LEMMA ApplyTimed == Types /\ Timed /\ Apply => Timed'
  <1> SUFFICES ASSUME Types, Timed, Apply
               PROVE  Timed'
    OBVIOUS
  <1>1. PICK i \in Ifs : i = Head(ready)
    BY HeadReady DEF Apply
  <1>2. PICK a : a = msg.src
    OBVIOUS
  <1>0. pc = "apply"
    BY DEF Apply
  <1>3. Listing(neighbors[i], i) /\ a \in Audible(i) /\ msg.index \in Nat
        /\ (msg.index = 0 => ~In(neighbors[i], a))
    BY <1>0, <1>1, <1>2 DEF Types, Updating
  <1>4. PICK r : r = Written(neighbors[i], msg)
    OBVIOUS
  <1>5. /\ neighbors' = IF up THEN [neighbors EXCEPT ![i] = r] ELSE neighbors
        /\ pc' = IF msg.index = 0 THEN "set" ELSE "remove"
        /\ UNCHANGED <<timerQ, up, torn, ready, msg>>
    BY <1>1, <1>4 DEF Apply
  <1>6. a \in Nodes /\ Link[a] = i
    BY <1>3 DEF Audible
  <1>7. /\ \A n : In(r, n) <=> In(neighbors[i], n) \/ (msg.index = 0 /\ n = a)
        /\ \A k \in DOMAIN neighbors[i] : k \in DOMAIN r /\ r[k].ip = neighbors[i][k].ip
    BY <1>2, <1>3, <1>4, WrittenFacts
  <1>8. \A j \in Ifs : neighbors'[j] = IF up /\ j = i THEN r ELSE neighbors[j]
    <2>1. neighbors = [j \in Ifs |-> neighbors[j]]
      BY DEF Types
    <2> QED
      BY <1>5, <2>1
  <1>9. \A n \in Nodes : (InUpdate(n)' <=> n = a) /\ (InUpdate(n) <=> n = a)
    BY <1>0, <1>2, <1>5 DEF InUpdate, Updating
  <1>10. \A n \in Nodes : HasTimer(n)' = HasTimer(n) /\ OneTimer(n)' = OneTimer(n)
    BY <1>5 DEF HasTimer, OneTimer
  <1>11. \A n \in Nodes : Known(n)' <=> Known(n) \/ (up /\ msg.index = 0 /\ n = a)
    <2> TAKE n \in Nodes
    <2>1. CASE Link[n] = i
      BY <1>3, <1>7, <1>8, <2>1 DEF Known
    <2>2. CASE Link[n] # i
      BY <1>6, <1>8, <2>2, LinkType DEF Known
    <2> QED
      BY <2>1, <2>2
  <1>12. a \notin torn => Ongoing(a)'
    <2> SUFFICES ASSUME a \notin torn
                 PROVE  Ongoing(a)'
      OBVIOUS
    <2>1. Ongoing(a)
      BY <1>6, <1>9 DEF Timed
    <2>2. CASE msg.index = 0
      BY <1>0, <1>5, <1>6, <1>10, <1>11, <2>1, <2>2 DEF Ongoing
    <2>3. CASE msg.index # 0
      <3>1. Placed(a) /\ up
        BY <1>0, <2>1, <2>3 DEF Ongoing
      <3>2. Placed(a)'
        BY <1>5, <1>6, <1>7, <1>8, <3>1 DEF Placed, FirstOf
      <3> QED
        BY <1>0, <1>5, <1>6, <1>10, <1>11, <2>1, <2>3, <3>2 DEF Ongoing
    <2> QED
      BY <2>2, <2>3
  <1>13. \A n \in Nodes : n # a => Settled(n)'
    BY <1>5, <1>9, <1>10, <1>11 DEF Timed, Settled
  <1>14. Updating'
    BY <1>5 DEF Updating
  <1> QED
    BY <1>9, <1>5, <1>12, <1>13, <1>14 DEF Timed

LEMMA RemoveTimerTimed == Types /\ Timed /\ RemoveTimer => Timed'
  <1> SUFFICES ASSUME Types, Timed, RemoveTimer
               PROVE  Timed'
    OBVIOUS
  <1>1. PICK a, i : a = msg.src /\ i = Head(ready)
    OBVIOUS
  <1>2. /\ pc = "remove" /\ pc' = "set"
        /\ UNCHANGED <<neighbors, up, ready, msg, torn>>
    BY DEF RemoveTimer
  <1>3. a \in Nodes /\ Link[a] = i /\ i \in Ifs
    BY <1>1, <1>2, HeadReady DEF Types, Updating, Audible
  <1>4. timerQ \in TimerLists /\ timerQ \in Seq(TimerRecord)
    BY DEF Types, TimerLists
  <1>5. \/ ~Has(timerQ, a, i) /\ timerQ' = timerQ
        \/ \E k \in DOMAIN timerQ : IsEntry(timerQ[k], a, i) /\ timerQ' = RemoveAt(timerQ, k)
    BY <1>1, Removal
  <1>6. \A n \in Nodes : n # a => HasTimer(n)' = HasTimer(n) /\ (OneTimer(n) => OneTimer(n)')
    <2> SUFFICES ASSUME NEW n \in Nodes, n # a
                 PROVE  HasTimer(n)' = HasTimer(n) /\ (OneTimer(n) => OneTimer(n)')
      OBVIOUS
    <2>1. CASE timerQ' = timerQ
      BY <2>1 DEF HasTimer, OneTimer
    <2>2. ASSUME NEW k \in DOMAIN timerQ, IsEntry(timerQ[k], a, i), timerQ' = RemoveAt(timerQ, k)
          PROVE  HasTimer(n)' = HasTimer(n) /\ (OneTimer(n) => OneTimer(n)')
      <3>1. ~IsEntry(timerQ[k], n, Link[n])
        BY <2>2 DEF IsEntry
      <3> QED
        BY <1>4, <2>2, <3>1, RemovedFacts DEF HasTimer, OneTimer
    <2> QED
      BY <1>5, <2>1, <2>2
  <1>7. OneTimer(a) => ~HasTimer(a)' /\ OneTimer(a)'
    <2>1. OneTimer(a) => ~Has(timerQ', a, i)
      BY <1>3, <1>4, <1>5, RemovedFacts DEF OneTimer
    <2>2. ~Has(timerQ', a, i) => Once(timerQ', a, i)
      BY DEF Has, Once
    <2> QED
      BY <1>3, <2>1, <2>2 DEF HasTimer, OneTimer
  <1>8. \A n \in Nodes : Known(n)' = Known(n) /\ (InUpdate(n) <=> n = a) /\ (InUpdate(n)' <=> n = a)
    BY <1>1, <1>2 DEF Known, InUpdate, Updating
  <1>9. a \notin torn => Ongoing(a)'
    <2> SUFFICES ASSUME a \notin torn
                 PROVE  Ongoing(a)'
      OBVIOUS
    <2>1. Ongoing(a)
      BY <1>3, <1>8 DEF Timed
    <2>2. up /\ OneTimer(a) /\ Placed(a)
      BY <1>2, <2>1 DEF Ongoing
    <2>3. Known(a)
      BY <2>2 DEF Placed, FirstOf, Known, In
    <2> QED
      BY <1>2, <1>3, <1>7, <1>8, <2>2, <2>3 DEF Ongoing
  <1>10. \A n \in Nodes : n # a => Settled(n)'
    BY <1>2, <1>6, <1>8 DEF Timed, Settled
  <1>11. Updating'
    BY <1>2 DEF Updating
  <1> QED
    BY <1>2, <1>8, <1>9, <1>10, <1>11 DEF Timed

LEMMA SetEntryTimerTimed == Types /\ Timed /\ SetEntryTimer => Timed'
  <1> SUFFICES ASSUME Types, Timed, SetEntryTimer
               PROVE  Timed'
    OBVIOUS
  <1>1. PICK a, i : a = msg.src /\ i = Head(ready)
    OBVIOUS
  <1>2. pc = "set" /\ UNCHANGED <<neighbors, up, torn>>
    BY DEF SetEntryTimer
  <1>3. a \in Nodes /\ Link[a] = i /\ i \in Ifs
    BY <1>1, <1>2, HeadReady DEF Types, Updating, Audible
  <1>4. PICK t : t = EntryTimer(a, i)
    OBVIOUS
  <1>5. timerQ' = TimerAdd(timerQ, t) /\ timerQ \in TimerLists /\ t \in TimerRecord
    <2>1. timerQ' = TimerAdd(timerQ, t)
      BY <1>1, <1>4 DEF SetEntryTimer, SetTimer
    <2> QED
      BY <1>3, <1>4, <2>1, NewTimers DEF Types
  <1>6. \A n : IsEntry(t, n, Link[n]) <=> n = a
    BY <1>3, <1>4, NewTimers DEF IsEntry
  <1>7. ~Updating' /\ (~up => pc' = "ended")
    BY DEF SetEntryTimer, Updating
  <1>8. \A n \in Nodes : n # a => HasTimer(n)' = HasTimer(n) /\ (OneTimer(n) => OneTimer(n)')
    BY <1>5, <1>6, AddedFacts DEF HasTimer, OneTimer
  <1>9. HasTimer(a)' /\ (~HasTimer(a) => OneTimer(a)')
    BY <1>3, <1>5, <1>6, AddedFacts DEF HasTimer, OneTimer
  <1>10. \A n \in Nodes : Known(n)' = Known(n) /\ (InUpdate(n) <=> n = a)
    BY <1>1, <1>2 DEF Known, InUpdate, Updating
  <1>11. ASSUME NEW n \in Nodes
         PROVE  Settled(n)'
    <2>1. CASE n # a
      BY <1>2, <1>8, <1>10, <2>1 DEF Timed, Settled
    <2>2. CASE n = a
      <3>1. a \notin torn => Known(a) /\ ~HasTimer(a)
        BY <1>2, <1>3, <1>10 DEF Timed, Ongoing
      <3> QED
        BY <1>2, <1>3, <1>9, <1>10, <2>2, <3>1 DEF Settled
    <2> QED
      BY <2>1, <2>2
  <1> QED
    BY <1>2, <1>7, <1>11 DEF Timed, InUpdate

LEMMA ScheduleTimerTimed == Types /\ Timed /\ ScheduleTimer => Timed'
  <1> SUFFICES ASSUME Types, Timed, ScheduleTimer
               PROVE  Timed'
    OBVIOUS
  <1>1. /\ neighbors' = [i \in Ifs |-> Kept(i)] /\ timerQ' = Left
        /\ torn' = torn \cup Disturbed /\ up' = up
        /\ \/ UNCHANGED <<pc, ready, msg>>
           \/ pc = "select" /\ pc' = "read"
    BY DEF ScheduleTimer, thread
  <1>2. \A i \in Ifs : Listing(neighbors[i], i)
    BY DEF Types
  <1>3. \A n \in Nodes : Known(n)' <=> Known(n) /\ ~DueFor(n, Link[n])
    BY <1>1, <1>2, LinkType, KeptFacts DEF Known
  <1>4. \A n \in Nodes :
           /\ HasTimer(n)' => HasTimer(n)
           /\ HasTimer(n) /\ ~DueFor(n, Link[n]) => HasTimer(n)'
           /\ OneTimer(n) => OneTimer(n)' /\ (DueFor(n, Link[n]) => ~HasTimer(n)')
    BY <1>1, LeftFacts DEF Types, HasTimer, OneTimer
  <1>5. \A n \in Nodes : DueFor(n, Link[n]) => HasTimer(n)
    BY DEF DueFor, DueTimers, HasTimer, Has
  <1>6. ASSUME NEW n \in Nodes, Settled(n)
        PROVE  Settled(n)'
    BY <1>1, <1>3, <1>4, <1>6 DEF Settled
  <1>7. (~Updating /\ ~Updating') \/ UNCHANGED <<pc, ready, msg>>
    BY <1>1 DEF Updating
  <1>8. \A n \in Nodes : InUpdate(n)' <=> InUpdate(n)
    BY <1>7 DEF InUpdate, Updating
  <1>9. ASSUME NEW n \in Nodes, InUpdate(n), n \notin torn'
        PROVE  Ongoing(n)'
    <2>1. Ongoing(n) /\ n \notin Disturbed /\ UNCHANGED <<pc, ready, msg>>
      BY <1>1, <1>7, <1>9 DEF Timed, InUpdate
    <2>2. up' /\ OneTimer(n)'
      BY <1>1, <1>4, <2>1 DEF Ongoing
    <2>3. PICK i \in Ifs : i = Head(ready)
      BY <1>9, HeadReady DEF InUpdate, Updating
    <2>4. msg.src = n /\ Link[n] = i
      BY <1>9, <2>3 DEF InUpdate, Types, Updating, Audible
    <2>5. ASSUME (pc = "apply" /\ msg.index # 0) \/ pc = "remove"
          PROVE  Placed(n)' /\ HasTimer(n)'
      <3>1. Placed(n) /\ HasTimer(n) /\ msg.index # 0
        BY <2>1, <2>5 DEF Ongoing, Types
      <3>2. In(Kept(i), n)
        BY <2>1, <2>3, <2>4, <2>5, <3>1, DisturbedFacts DEF Placed
      <3>3. ~DueFor(n, i) /\ Listing(Kept(i), i)
        BY <1>2, <3>2, KeptFacts
      <3>4. PICK j \in DOMAIN Kept(i) : Kept(i)[j].ip = n
        BY <3>2 DEF In
      <3>5. PICK k \in DOMAIN neighbors[i] : Kept(i)[j] = neighbors[i][k] /\ j <= k
        BY <1>2, KeptFacts
      <3>6. PICK x \in 1..msg.index \cap DOMAIN neighbors[i] : neighbors[i][x].ip = n
        BY <2>4, <3>1 DEF Placed, FirstOf
      <3>7. k = x
        BY <1>2, <3>4, <3>5, <3>6 DEF Listing
      <3>8. j \in Nat /\ j >= 1 /\ msg.index \in Nat
        BY <1>9, <3>3 DEF Listing, Types, InUpdate
      <3>9. j \in 1..msg.index
        BY <3>5, <3>6, <3>7, <3>8
      <3>10. Placed(n)'
        BY <1>1, <2>1, <2>4, <3>4, <3>9 DEF Placed, FirstOf
      <3> QED
        BY <1>4, <2>4, <3>1, <3>3, <3>10
    <2>6. pc = "apply" /\ msg.index = 0 => ~Known(n)' /\ ~HasTimer(n)'
      BY <1>3, <1>4, <2>1 DEF Ongoing
    <2>7. pc = "set" => Known(n)' /\ ~HasTimer(n)'
      BY <1>3, <1>4, <1>5, <2>1 DEF Ongoing
    <2> QED
      BY <2>1, <2>2, <2>5, <2>6, <2>7 DEF Ongoing
  <1>10. ~up' /\ ~Updating' => pc' = "ended"
    BY <1>1, <1>7 DEF Timed, Updating
  <1> QED
    BY <1>6, <1>8, <1>9, <1>10 DEF Timed

LEMMA TurnDownTimed == Types /\ Timed /\ TurnDown => Timed'
  <1> SUFFICES ASSUME Types, Timed, TurnDown
               PROVE  Timed'
    OBVIOUS
  <1>1. /\ up' = FALSE /\ neighbors' = [i \in Ifs |-> <<>>] /\ timerQ' = <<>> /\ msg' = msg
        /\ IF ~Updating THEN pc' = "ended" ELSE pc' = pc /\ torn' = torn \cup {msg.src}
    BY DEF TurnDown
  <1>2. \A n \in Nodes : ~Known(n)' /\ ~HasTimer(n)' /\ OneTimer(n)'
    BY <1>1, LinkType DEF Known, In, HasTimer, Has, OneTimer, Once
  <1>3. \A n \in Nodes : Settled(n)'
    BY <1>2 DEF Settled
  <1>4. CASE ~Updating
    BY <1>1, <1>3, <1>4 DEF Timed, InUpdate, Updating
  <1>5. CASE Updating
    <2>1. \A n \in Nodes : InUpdate(n)' => n \in torn'
      BY <1>1, <1>5 DEF InUpdate
    <2> QED
      BY <1>1, <1>3, <1>5, <2>1 DEF Timed, Updating
  <1> QED
    BY <1>4, <1>5

LEMMA TimedStep == Types /\ Timed /\ [Next]_vars => Timed'
  <1> SUFFICES ASSUME Types, Timed, [Next]_vars
               PROVE  Timed'
    OBVIOUS
  <1>1. CASE UNCHANGED vars
    BY <1>1, SameTimed DEF vars, HasTimer, OneTimer
  <1>2. CASE Select
    <2>1. up
      BY <1>2 DEF Select, Timed, Updating
    <2> QED
      BY <1>2, <2>1, SameTimed DEF Select, Updating, HasTimer, OneTimer
  <1>3. CASE Tick
    <2>1. timerQ' = [k \in DOMAIN timerQ |-> Older(timerQ[k])]
      BY <1>3 DEF Tick, Older
    <2>2. \A n \in Nodes : HasTimer(n)' = HasTimer(n) /\ OneTimer(n)' = OneTimer(n)
      BY <2>1, TickFacts DEF Types, HasTimer, OneTimer
    <2> QED
      BY <1>3, <2>2, SameTimed DEF Tick, thread
  <1>4. ASSUME NEW i \in Tuned, NEW on \in BOOLEAN, SetHelloInterval(i, on)
        PROVE  Timed'
    <2>1. \A n \in Nodes : HasTimer(n)' = HasTimer(n) /\ (OneTimer(n) => OneTimer(n)')
      <3>1. CASE UNCHANGED timerQ
        BY <3>1 DEF HasTimer, OneTimer
      <3>2. CASE timerQ' = TimerAdd(timerQ, HelloTimer(i))
        <4>1. HelloTimer(i) \in TimerRecord /\ \A n, j : ~IsEntry(HelloTimer(i), n, j)
          BY DiscoveryAssumption, NewTimers DEF IsEntry
        <4> QED
          BY <3>2, <4>1, AddedFacts DEF Types, HasTimer, OneTimer
      <3> QED
        BY <1>4, <3>1, <3>2 DEF SetHelloInterval, SetTimer
    <2> QED
      BY <1>4, <2>1, SameTimed DEF SetHelloInterval, thread
  <1>5. ASSUME NEW n \in Nodes, SendHello(n)
        PROVE  Timed'
    BY <1>5, SameTimed DEF SendHello, thread, HasTimer, OneTimer
  <1> QED
    BY <1>1, <1>2, <1>3, <1>4, <1>5, ReadHelloTimed, ApplyTimed, RemoveTimerTimed,
       SetEntryTimerTimed, ScheduleTimerTimed, TurnDownTimed DEF Next, MainLoop

(* Outside an update of a neighbour, its entry has a timer that will       *)
(* delete it; and, unless SIGALRM or nd_turn_down came in the middle of an *)
(* update of that neighbour, it is the only one and no timer is left of an *)
(* entry that is gone: for any neighbours, interfaces and intervals.       *)
THEOREM EntriesHaveTimers == Spec => []EntryTimed
  <1>1. Types /\ Timed => EntryTimed
    <2> SUFFICES ASSUME Types, Timed, NEW n \in Nodes, ~InUpdate(n)
                 PROVE  LET timers == Cardinality(EntryTimers(n, Link[n])) IN
                        /\ Listed(n) => timers >= 1
                        /\ timers = (IF Listed(n) THEN 1 ELSE 0) \/ n \in torn
      BY DEF EntryTimed
    <2> DEFINE T == EntryTimers(n, Link[n])
    <2>1. T = {k \in DOMAIN timerQ : IsEntry(timerQ[k], n, Link[n])}
      BY DEF EntryTimers, IsEntry
    <2>2. IsFiniteSet(T)
      <3>1. timerQ \in Seq(TimerRecord)
        BY DEF Types, TimerLists
      <3>2. IsFiniteSet(1..Len(timerQ)) /\ T \in SUBSET (1..Len(timerQ))
        <4>1. Len(timerQ) \in Int
          BY <3>1
        <4> QED
          BY <2>1, <3>1, <4>1, FS_Interval
      <3> QED
        BY <3>2, FS_Subset
    <2>3. Settled(n)
      BY DEF Timed
    <2>4. Listed(n) <=> Known(n)
      <3>1. Listing(neighbors[Link[n]], Link[n])
        BY LinkType DEF Types
      <3>2. \A k \in DOMAIN neighbors[Link[n]] : k # 0
        BY <3>1 DEF Listing
      <3> QED
        BY <3>1, <3>2, FindFacts DEF Listed, Known
    <2> HIDE DEF T
    <2>5. HasTimer(n) <=> T # {}
      BY <2>1 DEF HasTimer, Has
    <2>6. HasTimer(n) => Cardinality(T) >= 1
      <3>1. Cardinality(T) \in Nat /\ (Cardinality(T) = 0 <=> T = {})
        BY <2>2, FS_CardinalityType, FS_EmptySet
      <3> QED
        BY <2>5, <3>1
    <2>7. ~HasTimer(n) => Cardinality(T) = 0
      BY <2>5, FS_EmptySet
    <2>8. HasTimer(n) /\ OneTimer(n) => Cardinality(T) = 1
      <3>1. OneTimer(n) => \A j, k \in T : j = k
        BY <2>1 DEF OneTimer, Once
      <3>2. HasTimer(n) /\ OneTimer(n) => \E k : T = {k}
        BY <2>5, <3>1
      <3> QED
        BY <2>2, <3>2, FS_Singleton
    <2> QED
      BY <2>3, <2>4, <2>6, <2>7, <2>8 DEF Settled, T
  <1>2. Spec => []Timed
    BY TypesHold, InitTimed, TimedStep, PTL DEF Spec
  <1> QED
    BY <1>1, <1>2, TypesHold, PTL
=============================================================================
