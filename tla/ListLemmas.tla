----------------------------- MODULE ListLemmas -----------------------------
(* What the operations on lists that the models use return, and inductions *)
(* over numbers for the functions that go through a list.                  *)
EXTENDS Integers, Sequences, SequencesExt, SequenceTheorems, WellFoundedInduction, TLAPS

(* A set of numbers has a least one.                                       *)
LEMMA Least ==
    ASSUME NEW T \in SUBSET Nat, T # {}
    PROVE  \E x \in T : \A y \in T : x <= y
  <1>1. IsWellFoundedOn(OpToRel(<, Nat), Nat)
    BY NatLessThanWellFounded
  <1>2. PICK x \in T : \A y \in T : ~(<<y, x>> \in OpToRel(<, Nat))
    BY <1>1, WFMin, Zenon
  <1>3. \A y \in T : ~(y < x)
    BY <1>2 DEF OpToRel
  <1> QED
    BY <1>3

(* What holds of 0 and goes on from each number to the next, up to n,      *)
(* holds up to n.                                                          *)
LEMMA Upward ==
    ASSUME NEW n \in Nat, NEW S, 0 \in S, \A i \in 1..n : i - 1 \in S => i \in S
    PROVE  \A i \in 0..n : i \in S
  <1> SUFFICES ASSUME NEW k \in 0..n, k \notin S
               PROVE  FALSE
    OBVIOUS
  <1> DEFINE T == {i \in 0..n : i \notin S}
  <1>1. PICK x \in T : \A y \in T : x <= y
    <2>1. T \in SUBSET Nat /\ T # {}
      OBVIOUS
    <2> HIDE DEF T
    <2> QED
      BY <2>1, Least
  <1>2. x \in 1..n /\ x - 1 \notin T
    BY <1>1
  <1> QED
    BY <1>1, <1>2

(* What g computes by recursion over the numbers up to n.                  *)
Computes(g, n, X, base, step) ==
    /\ g \in [0..n -> X] /\ g[0] = base
    /\ \A i \in 1..n : g[i] = step[i][g[i - 1]]

(* A function that is defined by recursion over numbers exists.            *)
LEMMA Recursion ==
    ASSUME NEW n \in Nat, NEW X, NEW base \in X, NEW step \in [1..n -> [X -> X]]
    PROVE  \E g : Computes(g, n, X, base, step)
  <1> DEFINE upto(m, g) == Computes(g, m, X, base, step)
             S == {m \in 0..n : \E g : upto(m, g)}
  <1>1. 0 \in S
    <2> DEFINE h == [i \in 0..0 |-> base]
    <2>1. upto(0, h)
      BY DEF Computes
    <2> HIDE DEF h, upto
    <2> QED
      BY <2>1
  <1>2. \A m \in 1..n : m - 1 \in S => m \in S
    <2> SUFFICES ASSUME NEW m \in 1..n, NEW h, upto(m - 1, h)
                 PROVE  \E g : upto(m, g)
      <3> HIDE DEF upto
      <3> QED
        OBVIOUS
    <2> DEFINE g == [i \in 0..m |-> IF i = m THEN step[m][h[m - 1]] ELSE h[i]]
    <2> USE DEF Computes
    <2>1. h[m - 1] \in X
      OBVIOUS
    <2>2. g \in [0..m -> X] /\ g[0] = base
      BY <2>1
    <2>3. ASSUME NEW i \in 1..m
          PROVE  g[i] = step[i][g[i - 1]]
      <3>1. g[i - 1] = h[i - 1] /\ i - 1 \in 0..m - 1
        OBVIOUS
      <3>2. CASE i = m
        <4>1. g[m] = step[m][h[m - 1]] /\ h[i - 1] = h[m - 1]
          BY <3>2
        <4> HIDE DEF g
        <4> QED
          BY <3>1, <3>2, <4>1
      <3>3. CASE i # m
        <4>1. i \in 1..m - 1 /\ g[i] = h[i]
          BY <3>3
        <4> QED
          BY <3>1, <4>1
      <3> QED
        BY <3>2, <3>3
    <2> HIDE DEF g
    <2>4. upto(m, g)
      BY <2>2, <2>3
    <2> HIDE DEF upto
    <2> QED
      BY <2>4
  <1>3. n \in S
    <2> HIDE DEF S
    <2>1. \A i \in 0..n : i \in S
      BY <1>1, <1>2, Upward
    <2> QED
      BY <2>1
  <1> QED
    BY <1>3

-----------------------------------------------------------------------------

(* Removing the i-th element shifts the later ones down by one.            *)
LEMMA RemoveAtFacts ==
    ASSUME NEW S, NEW s \in Seq(S), NEW i \in DOMAIN s
    PROVE  /\ RemoveAt(s, i) \in Seq(S)
           /\ Len(RemoveAt(s, i)) = Len(s) - 1
           /\ \A j \in 1..(Len(s) - 1) :
                 RemoveAt(s, i)[j] = IF j < i THEN s[j] ELSE s[j + 1]
  <1> DEFINE a == SubSeq(s, 1, i - 1)
             b == SubSeq(s, i + 1, Len(s))
  <1>1. i \in 1..Len(s) /\ Len(s) \in Nat
    OBVIOUS
  <1>2. a \in Seq(S) /\ Len(a) = i - 1 /\ \A j \in 1..(i - 1) : a[j] = s[j]
    BY <1>1
  <1>3. /\ b \in Seq(S)
        /\ Len(b) = Len(s) - i
        /\ \A j \in 1..(Len(s) - i) : b[j] = s[i + j]
    BY <1>1
  <1>4. RemoveAt(s, i) = a \o b
    BY DEF RemoveAt
  <1>5. a \o b \in Seq(S) /\ Len(a \o b) = Len(s) - 1
    <2> HIDE DEF a, b
    <2> QED BY <1>1, <1>2, <1>3, ConcatProperties
  <1>6. ASSUME NEW j \in 1..(Len(s) - 1)
        PROVE  (a \o b)[j] = IF j < i THEN s[j] ELSE s[j + 1]
    <2>1. (a \o b)[j] = IF j <= Len(a) THEN a[j] ELSE b[j - Len(a)]
      <3> HIDE DEF a, b
      <3> QED BY <1>1, <1>2, <1>3, ConcatProperties
    <2>2. CASE j < i
      BY <1>1, <1>2, <2>1, <2>2
    <2>3. CASE ~(j < i)
      <3>1. j - (i - 1) \in 1..(Len(s) - i) /\ i + (j - (i - 1)) = j + 1
        BY <1>1, <2>3
      <3> HIDE DEF a, b
      <3>2. ~(j <= Len(a)) /\ Len(a) = i - 1
        BY <1>1, <1>2, <2>3
      <3>3. (a \o b)[j] = b[j - (i - 1)]
        BY <2>1, <3>2
      <3>4. b[j - (i - 1)] = s[i + (j - (i - 1))]
        BY <1>3, <3>1
      <3> QED BY <2>3, <3>1, <3>3, <3>4
    <2> QED BY <2>2, <2>3
  <1> QED
    BY <1>4, <1>5, <1>6

(* What r makes of s: e is the i-th element, and the later ones have moved *)
(* up by one.                                                              *)
Inserted(r, s, i, e) ==
    /\ Len(r) = Len(s) + 1
    /\ \A j \in 1..Len(s) + 1 : r[j] = IF j < i THEN s[j] ELSE IF j = i THEN e ELSE s[j - 1]

LEMMA InsertAtFacts ==
    ASSUME NEW S, NEW s \in Seq(S), NEW e \in S, NEW i \in 1..Len(s) + 1
    PROVE  /\ InsertAt(s, i, e) \in Seq(S)
           /\ Inserted(InsertAt(s, i, e), s, i, e)
  <1> DEFINE a == SubSeq(s, 1, i - 1)
             b == SubSeq(s, i, Len(s))
             c == a \o <<e>>
  <1>0. Len(s) \in Nat /\ i \in Nat
    OBVIOUS
  <1>1. a \in Seq(S) /\ Len(a) = i - 1 /\ \A j \in 1..i - 1 : a[j] = s[j]
    OBVIOUS
  <1>2. /\ b \in Seq(S) /\ Len(b) = Len(s) + 1 - i
        /\ \A j \in 1..Len(s) + 1 - i : b[j] = s[i + j - 1]
    OBVIOUS
  <1>3. InsertAt(s, i, e) = c \o b
    BY DEF InsertAt
  <1> HIDE DEF a, b
  <1>4. c \in Seq(S) /\ Len(c) = i
    BY <1>1
  <1>5. \A j \in 1..i : c[j] = IF j < i THEN s[j] ELSE e
    BY <1>1
  <1> HIDE DEF c
  <1>6. /\ c \o b \in Seq(S) /\ Len(c \o b) = Len(s) + 1
        /\ \A j \in 1..Len(s) + 1 : (c \o b)[j] = IF j <= i THEN c[j] ELSE b[j - i]
    <2>1. b \in Seq(S) /\ Len(b) = Len(s) + 1 - i
      BY <1>2
    <2>2. /\ c \o b \in Seq(S) /\ Len(c \o b) = Len(c) + Len(b)
          /\ \A j \in 1..Len(c) + Len(b) :
                (c \o b)[j] = IF j <= Len(c) THEN c[j] ELSE b[j - Len(c)]
      BY <1>4, <2>1, ConcatProperties, Zenon
    <2>3. Len(c) + Len(b) = Len(s) + 1
      BY <1>0, <1>4, <2>1
    <2> QED
      BY <1>4, <2>2, <2>3
  <1>7. ASSUME NEW j \in 1..Len(s) + 1
        PROVE  (c \o b)[j] = IF j < i THEN s[j] ELSE IF j = i THEN e ELSE s[j - 1]
    <2>1. CASE j <= i
      BY <1>0, <1>5, <1>6, <2>1
    <2>2. CASE j > i
      <3>1. (c \o b)[j] = b[j - i]
        BY <1>0, <1>6, <2>2
      <3>2. j - i \in 1..Len(s) + 1 - i /\ i + (j - i) - 1 = j - 1
        BY <2>2
      <3> QED
        BY <1>2, <2>2, <3>1, <3>2
    <2>3. j <= i \/ j > i
      BY <1>0
    <2> QED
      BY <2>1, <2>2, <2>3
  <1> QED
    BY <1>3, <1>6, <1>7 DEF Inserted

(* The elements behind the first c of them.                                *)
LEMMA BehindFacts ==
    ASSUME NEW S, NEW s \in Seq(S), NEW c \in 0..Len(s)
    PROVE  /\ SubSeq(s, c + 1, Len(s)) \in Seq(S)
           /\ Len(SubSeq(s, c + 1, Len(s))) = Len(s) - c
           /\ \A j \in 1..Len(s) - c : SubSeq(s, c + 1, Len(s))[j] = s[c + j]
  <1> DEFINE m == Len(s)
             r == SubSeq(s, c + 1, m)
  <1>1. m \in Nat /\ DOMAIN s = 1..m
    OBVIOUS
  <1>2. \A k \in c + 1..m : s[k] \in S
    BY <1>1
  <1>3. \A j \in 1..m - c : r[j] = s[c + j]
    BY <1>1
  <1>4. r \in Seq(S) /\ Len(r) = IF c + 1 <= m THEN m - (c + 1) + 1 ELSE 0
    <2>1. c + 1 \in Int /\ m \in Int
      BY <1>1
    <2> HIDE DEF m
    <2> QED
      BY <1>2, <2>1, SubSeqProperties
  <1>5. Len(r) = m - c
    <2> HIDE DEF m, r
    <2> QED
      BY <1>1, <1>4
  <1> QED
    BY <1>3, <1>4, <1>5

-----------------------------------------------------------------------------
(* The earliest timer is the first.                                        *)
Sorted(q) == \A j, k \in DOMAIN q : j < k => q[j].timeout <= q[k].timeout

(* Elements of a set K in a list: that there is one, and that there are    *)
(* not two.                                                                *)
Some(q, K) == \E i \in DOMAIN q : q[i] \in K
Lone(q, K) == \A i, j \in DOMAIN q : q[i] \in K /\ q[j] \in K => i = j

LEMMA InsertedElements ==
    ASSUME NEW S, NEW q \in Seq(S), NEW r \in Seq(S), NEW e, NEW i \in 1..Len(q) + 1,
           Inserted(r, q, i, e)
    PROVE  /\ r # <<>> /\ ToSet(r) = ToSet(q) \cup {e}
           /\ \A K : /\ Some(r, K) <=> Some(q, K) \/ e \in K
                     /\ Lone(q, K) /\ (e \in K => ~Some(q, K)) => Lone(r, K)
  <1> DEFINE m == Len(q)
             at(j) == IF j < i THEN j ELSE j + 1
             back(j) == IF j < i THEN j ELSE j - 1
  <1>1. m \in Nat /\ DOMAIN q = 1..m
    OBVIOUS
  <1>2. /\ Len(r) = m + 1 /\ DOMAIN r = 1..m + 1
        /\ \A j \in 1..m + 1 : r[j] = IF j < i THEN q[j] ELSE IF j = i THEN e ELSE q[j - 1]
    BY DEF Inserted
  <1> HIDE DEF m
  <1>3. \A j \in 1..m : at(j) \in 1..m + 1 /\ r[at(j)] = q[j]
    BY <1>1, <1>2
  <1>4. \A j \in 1..m + 1 : j # i => back(j) \in 1..m /\ r[j] = q[back(j)]
    BY <1>1, <1>2
  <1>5. \A j, k \in 1..m + 1 : j # i /\ k # i /\ back(j) = back(k) => j = k
    BY <1>1
  <1>6. i \in 1..m + 1 /\ r[i] = e
    BY <1>1, <1>2 DEF m
  <1> HIDE DEF at, back
  <1>7. r # <<>>
    BY <1>1, <1>2
  <1>8. ToSet(r) = ToSet(q) \cup {e}
    <2>1. \A x \in ToSet(r) : x \in ToSet(q) \cup {e}
      BY <1>1, <1>2, <1>4, <1>6 DEF ToSet
    <2>2. \A x \in ToSet(q) \cup {e} : x \in ToSet(r)
      BY <1>1, <1>2, <1>3, <1>6 DEF ToSet
    <2> QED
      BY <2>1, <2>2
  <1>9. ASSUME NEW K
        PROVE  /\ Some(r, K) <=> Some(q, K) \/ e \in K
               /\ Lone(q, K) /\ (e \in K => ~Some(q, K)) => Lone(r, K)
    <2>1. Some(r, K) => Some(q, K) \/ e \in K
      BY <1>1, <1>2, <1>4, <1>6 DEF Some
    <2>2. Some(q, K) \/ e \in K => Some(r, K)
      BY <1>1, <1>2, <1>3, <1>6 DEF Some
    <2>3. ASSUME Lone(q, K), e \in K => ~Some(q, K), NEW j \in 1..m + 1, NEW k \in 1..m + 1,
                 r[j] \in K, r[k] \in K
          PROVE  j = k
      <3>1. CASE e \in K
        BY <1>1, <1>4, <2>3, <3>1 DEF Some
      <3>2. CASE e \notin K
        <4>1. j # i /\ k # i
          BY <1>6, <2>3, <3>2
        <4>2. back(j) = back(k)
          BY <1>1, <1>4, <2>3, <4>1 DEF Lone
        <4> QED
          BY <1>5, <4>1, <4>2
      <3> QED
        BY <3>1, <3>2
    <2> QED
      BY <1>2, <2>1, <2>2, <2>3 DEF Lone
  <1> QED
    BY <1>7, <1>8, <1>9

LEMMA RemovedElements ==
    ASSUME NEW S, NEW q \in Seq(S), NEW k \in DOMAIN q
    PROVE  /\ ToSet(RemoveAt(q, k)) \subseteq ToSet(q)
           /\ Sorted(q) => Sorted(RemoveAt(q, k))
           /\ \A K : /\ Some(RemoveAt(q, k), K) => Some(q, K)
                     /\ q[k] \notin K /\ Some(q, K) => Some(RemoveAt(q, k), K)
                     /\ Lone(q, K) => Lone(RemoveAt(q, k), K)
                     /\ Lone(q, K) /\ q[k] \in K => ~Some(RemoveAt(q, k), K)
  <1> DEFINE m == Len(q)
             r == RemoveAt(q, k)
             old(j) == IF j < k THEN j ELSE j + 1
             new(j) == IF j < k THEN j ELSE j - 1
  <1>1. m \in Nat /\ DOMAIN q = 1..m /\ k \in 1..m
    OBVIOUS
  <1>2. /\ r \in Seq(S) /\ Len(r) = m - 1
        /\ \A j \in 1..m - 1 : r[j] = IF j < k THEN q[j] ELSE q[j + 1]
    BY RemoveAtFacts
  <1>3. DOMAIN r = 1..m - 1
    BY <1>1, <1>2
  <1> HIDE DEF m, r
  <1>4. \A j \in 1..m - 1 : old(j) \in 1..m /\ old(j) # k /\ r[j] = q[old(j)]
    BY <1>1, <1>2, <1>3
  <1>5. \A i, j \in 1..m - 1 : i < j => old(i) < old(j)
    BY <1>1, <1>3
  <1>6. \A j \in 1..m : j # k => new(j) \in 1..m - 1 /\ q[j] = r[new(j)]
    <2> TAKE j \in 1..m
    <2>1. CASE j < k
      <3>1. j \in 1..m - 1
        BY <1>1, <1>3, <2>1
      <3> QED
        BY <1>2, <2>1, <3>1
    <2>2. CASE j > k
      <3>1. j - 1 \in 1..m - 1 /\ ~(j - 1 < k) /\ (j - 1) + 1 = j
        BY <1>1, <1>3, <2>2
      <3>2. r[j - 1] = q[j]
        BY <1>2, <3>1
      <3> QED
        BY <1>3, <2>2, <3>1, <3>2
    <2> QED
      BY <1>1, <2>1, <2>2
  <1>7. \A i, j \in 1..m - 1 : old(i) = old(j) => i = j
    BY <1>1, <1>3
  <1> HIDE DEF old, new
  <1>8. ToSet(r) \subseteq ToSet(q)
    BY <1>1, <1>3, <1>4 DEF ToSet
  <1>9. Sorted(q) => Sorted(r)
    BY <1>1, <1>3, <1>4, <1>5 DEF Sorted
  <1>10. ASSUME NEW K
         PROVE  /\ Some(r, K) => Some(q, K)
                /\ q[k] \notin K /\ Some(q, K) => Some(r, K)
                /\ Lone(q, K) => Lone(r, K)
                /\ Lone(q, K) /\ q[k] \in K => ~Some(r, K)
    <2>1. Some(r, K) => Some(q, K)
      BY <1>1, <1>3, <1>4 DEF Some
    <2>2. q[k] \notin K /\ Some(q, K) => Some(r, K)
      BY <1>1, <1>3, <1>6 DEF Some
    <2>3. Lone(q, K) => Lone(r, K)
      BY <1>1, <1>3, <1>4, <1>7 DEF Lone
    <2>4. Lone(q, K) /\ q[k] \in K => ~Some(r, K)
      BY <1>1, <1>3, <1>4 DEF Some, Lone
    <2> QED
      BY <2>1, <2>2, <2>3, <2>4
  <1> QED
    BY <1>1, <1>3, <1>8, <1>9, <1>10 DEF r

-----------------------------------------------------------------------------
(* Lists of timers.                                                        *)

(* The place that timer_add of both timer queues has for t: before the     *)
(* first timer that is not earlier.                                        *)
InOrder(q, t) ==
    LET pos == {k \in DOMAIN q : q[k].timeout >= t.timeout
                                 /\ \A j \in 1..k - 1 : q[j].timeout < t.timeout}
    IN IF pos = {} THEN Append(q, t)
       ELSE InsertAt(q, CHOOSE k \in pos : TRUE, t)

LEMMA InOrderFacts ==
    ASSUME NEW S, \A x \in S : x.timeout \in Int, NEW q \in Seq(S), NEW t \in S
    PROVE  /\ InOrder(q, t) \in Seq(S)
           /\ \E i \in 1..Len(q) + 1 :
                 /\ Inserted(InOrder(q, t), q, i, t)
                 /\ \A j \in 1..i - 1 : q[j].timeout < t.timeout
                 /\ i <= Len(q) => t.timeout <= q[i].timeout
  <1> DEFINE m == Len(q)
             r == InOrder(q, t)
             late == {k \in DOMAIN q : q[k].timeout >= t.timeout}
             pos == {k \in DOMAIN q : q[k].timeout >= t.timeout
                                      /\ \A j \in 1..k - 1 : q[j].timeout < t.timeout}
  <1>1. q \in Seq(S) /\ m \in Nat /\ DOMAIN q = 1..m
    OBVIOUS
  <1>2. t.timeout \in Int /\ \A j \in 1..m : q[j] \in S /\ q[j].timeout \in Int
    <2>1. \A j \in 1..m : q[j] \in S
      BY <1>1
    <2> QED
      BY <2>1
  <1>3. r \in Seq(S) /\ \E i \in 1..m + 1 :
           /\ Inserted(r, q, i, t)
           /\ \A j \in 1..i - 1 : q[j].timeout < t.timeout
           /\ i <= m => t.timeout <= q[i].timeout
    <2>1. CASE pos = {}
      <3>1. late = {}
        <4> SUFFICES ASSUME late # {}
                     PROVE  FALSE
          OBVIOUS
        <4>1. late \in SUBSET Nat
          BY <1>1
        <4> HIDE DEF late
        <4>2. PICK x \in late : \A y \in late : x <= y
          BY <4>1, Least
        <4>3. x \in 1..m /\ q[x].timeout >= t.timeout
          BY <1>1, <4>2 DEF late
        <4>4. ASSUME NEW j \in 1..x - 1
              PROVE  q[j].timeout < t.timeout
          <5>1. j \in 1..m /\ ~(x <= j)
            BY <1>1, <4>3
          <5>2. j \notin late
            BY <4>2, <5>1
          <5> QED
            BY <1>1, <1>2, <5>1, <5>2 DEF late
        <4> QED
          BY <1>1, <2>1, <4>3, <4>4
      <3>2. r = Append(q, t)
        BY <2>1 DEF InOrder
      <3>3. \A j \in 1..m : q[j].timeout < t.timeout
        BY <1>1, <1>2, <3>1
      <3>4. /\ Append(q, t) \in Seq(S) /\ Len(Append(q, t)) = m + 1
            /\ \A j \in 1..m + 1 : Append(q, t)[j] = IF j < m + 1 THEN q[j] ELSE t
        BY <1>1
      <3> HIDE DEF r, m
      <3>5. m + 1 \in 1..m + 1 /\ (m + 1) - 1 = m /\ ~(m + 1 <= m)
        BY <1>1
      <3>6. \A j \in 1..m + 1 : j < m + 1 \/ j = m + 1
        BY <1>1
      <3>7. Inserted(r, q, m + 1, t)
        BY <3>2, <3>4, <3>6 DEF Inserted, m
      <3> QED
        BY <3>2, <3>3, <3>4, <3>5, <3>7
    <2>2. CASE pos # {}
      <3> DEFINE i == CHOOSE k \in pos : TRUE
      <3>1. i \in pos
        BY <2>2
      <3>2. r = InsertAt(q, i, t)
        BY <2>2 DEF InOrder
      <3> HIDE DEF i
      <3>3. i \in 1..m /\ q[i].timeout >= t.timeout /\ \A j \in 1..i - 1 : q[j].timeout < t.timeout
        BY <1>1, <3>1
      <3>4. i \in 1..m + 1 /\ t.timeout <= q[i].timeout
        BY <1>1, <1>2, <3>3
      <3> HIDE DEF r, pos
      <3>5. r \in Seq(S) /\ Inserted(r, q, i, t)
        BY <1>1, <3>2, <3>4, InsertAtFacts DEF m
      <3> QED
        BY <3>3, <3>4, <3>5
    <2> QED
      BY <2>1, <2>2
  <1> QED
    BY <1>3

LEMMA StaysSorted ==
    ASSUME NEW S, \A x \in S : x.timeout \in Int, NEW q \in Seq(S), NEW t \in S, Sorted(q)
    PROVE  Sorted(InOrder(q, t))
  <1> DEFINE m == Len(q)
             r == InOrder(q, t)
  <1>1. r \in Seq(S) /\ m \in Nat /\ DOMAIN q = 1..m
    BY InOrderFacts
  <1>2. t.timeout \in Int /\ \A j \in 1..m : q[j].timeout \in Int
    <2>1. \A j \in 1..m : q[j] \in S
      BY <1>1
    <2> QED
      BY <2>1
  <1>3. PICK i \in 1..m + 1 :
           /\ Inserted(r, q, i, t)
           /\ \A j \in 1..i - 1 : q[j].timeout < t.timeout
           /\ i <= m => t.timeout <= q[i].timeout
    BY InOrderFacts
  <1>4. /\ Len(r) = m + 1
        /\ \A j \in 1..m + 1 : r[j] = IF j < i THEN q[j] ELSE IF j = i THEN t ELSE q[j - 1]
    BY <1>3 DEF Inserted
  <1> HIDE DEF r, m
  <1>5. Sorted(r)
    <2> SUFFICES ASSUME NEW j \in 1..m + 1, NEW k \in 1..m + 1, j < k
                 PROVE  r[j].timeout <= r[k].timeout
      BY <1>1, <1>3, <1>4 DEF Sorted
    <2>0. \A a, b \in 1..m : a <= b => q[a].timeout <= q[b].timeout
      BY <1>1, <1>2 DEF Sorted
    <2>1. CASE k < i
      BY <1>1, <1>3, <1>4, <2>0, <2>1
    <2>2. CASE k = i
      <3>1. r[k] = t /\ r[j] = q[j] /\ j \in 1..i - 1 /\ j \in 1..m
        BY <1>1, <1>3, <1>4, <2>2
      <3> QED
        BY <1>2, <1>3, <3>1
    <2>3. CASE k > i
      <3>1. r[k] = q[k - 1] /\ k - 1 \in 1..m /\ i <= k - 1 /\ i \in 1..m
        BY <1>1, <1>3, <1>4, <2>3
      <3>2. CASE j < i
        <4>1. r[j] = q[j] /\ j \in 1..m /\ j <= k - 1
          BY <1>1, <1>3, <1>4, <3>2, <3>1
        <4> QED
          BY <2>0, <3>1, <4>1
      <3>3. CASE j = i
        <4>1. r[j] = t /\ t.timeout <= q[i].timeout /\ q[i].timeout <= q[k - 1].timeout
          BY <1>1, <1>3, <1>4, <2>0, <3>1, <3>3
        <4> QED
          BY <1>2, <3>1, <4>1
      <3>4. CASE j > i
        <4>1. r[j] = q[j - 1] /\ j - 1 \in 1..m /\ j - 1 <= k - 1
          BY <1>1, <1>3, <1>4, <3>4
        <4> QED
          BY <2>0, <3>1, <4>1
      <3> QED
        BY <1>3, <3>2, <3>3, <3>4
    <2> QED
      BY <1>3, <2>1, <2>2, <2>3
  <1> QED
    BY <1>5 DEF r
=============================================================================
