-------------------------- MODULE IdleTimesProofs --------------------------
(* Proofs about the idle times of the routes, for any packets, routes and  *)
(* number of CPUs.                                                         *)
EXTENDS IdleTimes, ListLemmas, FiniteSetTheorems

Entry == [key : Keys, time : Nat, next : Nat]
Sources == {f[1] : f \in Flows}
Work == [pc : {"find", "link", "publish"}, key : Keys, src : Sources, time : Nat, link : Nat]
Tables == [Dests -> [valid : BOOLEAN, life : Nat]]

-----------------------------------------------------------------------------
(* The list, as a function of the entries.                                 *)

(* An entry is linked to an earlier one.                                   *)
Linked(q) == \A i \in DOMAIN q : q[i].next \in 0..i - 1

WholeIn(q, S) == \A i \in S : q[i].next \in S \cup {0}

From(q, h) ==
    {i \in DOMAIN q : \A S \in SUBSET DOMAIN q : h \in S \cup {0} /\ WholeIn(q, S) => i \in S}

LEMMA ListIsFrom == \A h : ListFrom(h) = From(nodes, h)
  BY DEF ListFrom, From, Whole, WholeIn

LEMMA CacheIsFrom == Cache = From(nodes, head) /\ Cache' = From(nodes', head')
  <1>1. Cache = From(nodes, head)
    BY ListIsFrom DEF Cache
  <1>2. Cache' = From(nodes', head')
    BY DEF Cache, ListFrom, From, Whole, WholeIn
  <1> QED
    BY <1>1, <1>2

(* What is linked to an entry of the list is in the list.                  *)
LEMMA FromIsWhole ==
    ASSUME NEW q \in Seq(Entry), Linked(q), NEW h \in 0..Len(q)
    PROVE  /\ From(q, h) \subseteq DOMAIN q
           /\ h \in From(q, h) \cup {0}
           /\ WholeIn(q, From(q, h))
  <1>1. DOMAIN q = 1..Len(q) /\ Len(q) \in Nat
    OBVIOUS
  <1>2. h \in From(q, h) \cup {0}
    BY <1>1 DEF From
  <1>3. ASSUME NEW i \in From(q, h), q[i].next # 0
        PROVE  q[i].next \in From(q, h)
    <2>1. i \in DOMAIN q /\ q[i].next \in DOMAIN q
      BY <1>1, <1>3 DEF From, Linked
    <2>2. ASSUME NEW S \in SUBSET DOMAIN q, h \in S \cup {0}, WholeIn(q, S)
          PROVE  q[i].next \in S
      <3>1. i \in S
        BY <2>2 DEF From
      <3> QED
        BY <1>3, <2>2, <3>1 DEF WholeIn
    <2> QED
      BY <2>1, <2>2 DEF From
  <1> QED
    BY <1>2, <1>3 DEF From, WholeIn

LEMMA FromSame ==
    ASSUME NEW q, NEW r, DOMAIN r = DOMAIN q, \A i \in DOMAIN q : r[i].next = q[i].next, NEW h
    PROVE  From(r, h) = From(q, h)
  <1>1. \A S \in SUBSET DOMAIN q : WholeIn(r, S) <=> WholeIn(q, S)
    BY DEF WholeIn
  <1> QED
    BY <1>1 DEF From

(* A new entry, and what it is linked to.                                  *)
LEMMA FromNew ==
    ASSUME NEW q \in Seq(Entry), Linked(q), NEW e \in Entry, e.next \in 0..Len(q)
    PROVE  /\ Append(q, e) \in Seq(Entry) /\ Linked(Append(q, e))
           /\ DOMAIN Append(q, e) = 1..Len(q) + 1
           /\ \A i \in 1..Len(q) : Append(q, e)[i] = q[i]
           /\ Append(q, e)[Len(q) + 1] = e
           /\ From(Append(q, e), Len(q) + 1) = From(q, e.next) \cup {Len(q) + 1}
  <1> DEFINE r == Append(q, e)
             n == Len(q)
             F == From(q, e.next)
  <1>1. /\ n \in Nat /\ DOMAIN q = 1..n /\ r \in Seq(Entry) /\ DOMAIN r = 1..n + 1
        /\ r[n + 1] = e /\ \A i \in 1..n : r[i] = q[i]
    OBVIOUS
  <1> HIDE DEF r
  <1>2. /\ F \subseteq 1..n /\ e.next \in F \cup {0} /\ WholeIn(q, F)
    BY <1>1, FromIsWhole
  <1>3. \A i \in 1..n : q[i].next \in 0..i - 1
    BY <1>1 DEF Linked
  <1>4. \A i \in 1..n + 1 : i \in 1..n \/ i = n + 1
    BY <1>1
  <1>5. Linked(r)
    <2>1. r[n + 1].next \in 0..(n + 1) - 1
      BY <1>1
    <2> QED
      BY <1>1, <1>3, <1>4, <2>1 DEF Linked
  <1> HIDE DEF F, n
  <1>6. From(r, n + 1) \subseteq F \cup {n + 1}
    <2> DEFINE S == F \cup {n + 1}
    <2>1. S \in SUBSET DOMAIN r /\ n + 1 \in S \cup {0}
      BY <1>1, <1>2
    <2>2. WholeIn(r, S)
      BY <1>1, <1>2 DEF WholeIn
    <2> QED
      BY <2>1, <2>2 DEF From
  <1>7. ASSUME NEW S \in SUBSET DOMAIN r, n + 1 \in S \cup {0}, WholeIn(r, S)
        PROVE  F \cup {n + 1} \subseteq S
    <2> DEFINE S0 == S \cap 1..n
    <2>1. n + 1 \in S /\ n + 1 # 0
      BY <1>1, <1>7
    <2>2. e.next \in S0 \cup {0}
      <3>1. e.next \in S \cup {0}
        BY <1>1, <1>7, <2>1 DEF WholeIn
      <3> QED
        BY <1>1, <3>1 DEF n
    <2>3. ASSUME NEW i \in S0
          PROVE  q[i].next \in S0 \cup {0}
      <3>1. q[i].next \in S \cup {0}
        BY <1>1, <1>7 DEF WholeIn
      <3>2. q[i].next \in 0..n
        BY <1>1, <1>3
      <3> QED
        BY <1>1, <3>1, <3>2
    <2>4. F \subseteq S0
      <3>1. S0 \in SUBSET DOMAIN q /\ WholeIn(q, S0)
        BY <1>1, <2>3 DEF WholeIn
      <3> HIDE DEF S0
      <3> QED
        BY <2>2, <3>1 DEF From, F
    <2> QED
      BY <2>1, <2>4
  <1>8. F \cup {n + 1} \subseteq From(r, n + 1)
    BY <1>1, <1>2, <1>7 DEF From
  <1> QED
    BY <1>1, <1>5, <1>6, <1>8 DEF r, n, F

-----------------------------------------------------------------------------
(* Least and greatest elements.                                            *)

LEMMA MinOfNumbers ==
    ASSUME NEW S \in SUBSET Nat, S # {}
    PROVE  Min(S) \in S
  <1>1. \E x \in S : \A y \in S : x <= y
    BY Least
  <1> QED
    BY <1>1 DEF Min

LEMMA MaxOfIndexes ==
    ASSUME NEW n \in Nat, NEW S \in SUBSET (1..n), S # {}
    PROVE  Max(S) \in S
  <1> DEFINE T == {d \in 0..n : n - d \in S}
  <1>1. T \in SUBSET Nat /\ T # {}
    <2>1. PICK i \in S : i \in 1..n
      OBVIOUS
    <2>2. n - i \in 0..n /\ n - (n - i) = i
      BY <2>1
    <2>3. n - i \in T /\ T \in SUBSET Nat
      BY <2>2
    <2> HIDE DEF T
    <2> QED
      BY <2>3
  <1>2. PICK d \in T : \A e \in T : d <= e
    <2> HIDE DEF T
    <2> QED
      BY <1>1, Least
  <1>3. ASSUME NEW i \in S
        PROVE  i <= n - d
    <2>1. i \in 1..n /\ n - i \in 0..n /\ n - (n - i) = i
      OBVIOUS
    <2>2. n - i \in T
      BY <2>1
    <2>3. d <= n - i /\ d \in 0..n
      BY <1>2, <2>2
    <2> QED
      BY <2>1, <2>3
  <1>4. n - d \in S /\ \A i \in S : n - d >= i
    BY <1>3
  <1> QED
    BY <1>4 DEF Max

(* A finite set of integers has a least one.                               *)
LEMMA MinOfFinite ==
    ASSUME NEW S \in SUBSET Int, IsFiniteSet(S), S # {}
    PROVE  Min(S) \in S /\ \A x \in S : Min(S) <= x
  <1> DEFINE least(T) == \E x \in T : \A y \in T : x <= y
             N == {n \in 0..Cardinality(S) :
                      \A T \in SUBSET S : Cardinality(T) = n /\ T # {} => least(T)}
  <1>1. Cardinality(S) \in Nat /\ \A T \in SUBSET S : IsFiniteSet(T)
    BY FS_CardinalityType, FS_Subset
  <1>2. 0 \in N
    BY <1>1, FS_EmptySet
  <1>3. ASSUME NEW n \in 1..Cardinality(S), n - 1 \in N
        PROVE  n \in N
    <2> SUFFICES ASSUME NEW T \in SUBSET S, Cardinality(T) = n, T # {}
                 PROVE  least(T)
      BY <1>1
    <2>1. PICK a \in T : TRUE
      OBVIOUS
    <2> DEFINE R == T \ {a}
    <2>2. IsFiniteSet(R) /\ Cardinality(R) = n - 1
      BY <1>1, <2>1, FS_RemoveElement
    <2>3. CASE R = {}
      BY <2>1, <2>3
    <2>4. CASE R # {}
      <3>1. PICK b \in R : \A y \in R : b <= y
        BY <1>3, <2>2, <2>4
      <3> QED
        BY <2>1, <3>1
    <2> QED
      BY <2>3, <2>4
  <1>4. \A n \in 0..Cardinality(S) : n \in N
    <2> HIDE DEF N
    <2> QED
      BY <1>1, <1>2, <1>3, Upward
  <1>5. least(S)
    BY <1>1, <1>4
  <1> QED
    BY <1>5 DEF Min

LEMMA FiniteImage ==
    ASSUME NEW S, IsFiniteSet(S), NEW f, DOMAIN f = S
    PROVE  IsFiniteSet({f[x] : x \in S})
  <1> DEFINE T == {f[x] : x \in S}
             g == [x \in S |-> f[x]]
  <1>1. g \in Surjection(S, T)
    BY DEF Surjection
  <1> HIDE DEF T, g
  <1>2. IsFiniteSet(T)
    BY <1>1, FS_Surjection
  <1> QED
    BY <1>2 DEF T

-----------------------------------------------------------------------------
(* Times and queries.                                                      *)

(* The kernel's time is never behind.                                      *)
LEMMA KernelTimeFacts ==
    ASSUME NEW t \in Nat
    PROVE  KernelTime(t) \in Nat /\ t <= KernelTime(t)
  <1> DEFINE d == t \div K
             r == t % K
  <1>1. K \in Nat /\ K > 0
    BY IdleAssumption
  <1>2. d \in Int /\ r \in 0..K - 1 /\ t = K * d + r
    BY <1>1
  <1>3. KernelTime(t) = d * K + r * K
    BY DEF KernelTime
  <1> HIDE DEF d, r
  <1>4. r * K \in Nat /\ r <= r * K
    BY <1>1, <1>2
  <1>5. K * d = d * K /\ d * K \in Int
    BY <1>1, <1>2
  <1> QED
    BY <1>2, <1>3, <1>4, <1>5

-----------------------------------------------------------------------------
(* The invariant.                                                          *)

Typed ==
    /\ now \in 0..MaxTime
    /\ nodes \in Seq(Entry) /\ Len(nodes) <= MaxNodes /\ Linked(nodes)
    /\ head \in 0..Len(nodes)
    /\ hook \in [Cpus -> {Idle} \cup Work]
    /\ \A c \in Cpus : hook[c] \in Work => hook[c].link \in 0..Len(nodes)
    /\ table \in Tables
    /\ used \in [Keys -> -1..MaxTime]
    /\ raced \in SUBSET Keys

(* A packet in the hook has yet to be noted for an address.                *)
Due(h, k) == h \in Work /\ (h.key = k \/ (h.key[2] = 1 /\ k = <<h.src, 0>>))
Pending(k) == \E c \in Cpus : Due(hook[c], k)

(* The clock stands still while a packet is in the hook.                   *)
Timely ==
    \A c \in Cpus : /\ hook[c] \in Work => hook[c].time = KernelTime(now)
                    /\ \A k \in Keys : Due(hook[c], k) => used[k] = now

Unused == \A k \in Keys : used[k] = -1 => \A i \in DOMAIN nodes : nodes[i].key # k

(* An entry that the list has lost, or one of two for an address, has been *)
(* in a race.                                                              *)
Listed == \A i \in DOMAIN nodes : i \notin Cache => nodes[i].key \in raced
Once == \A i, j \in DOMAIN nodes : nodes[i].key = nodes[j].key => i = j \/ nodes[i].key \in raced

Notes(i, k) == nodes[i].key = k /\ (k \in raced \/ nodes[i].time = KernelTime(used[k]))
Noted == \A k \in Keys : used[k] # -1 => Pending(k) \/ \E i \in DOMAIN nodes : Notes(i, k)

IInv == Typed /\ Timely /\ Unused /\ Listed /\ Once /\ Noted

(* The hook is idle, or it works on a packet.                              *)
LEMMA HookFacts ==
    ASSUME Typed, NEW c \in Cpus
    PROVE  /\ hook[c] = Idle \/ hook[c] \in Work
           /\ Idle \notin Work /\ \A k : ~Due(Idle, k)
           /\ hook[c].pc = "idle" <=> hook[c] = Idle
           /\ hook[c] \in Work =>
                 /\ hook[c].key \in Keys /\ hook[c].src \in Sources /\ hook[c].time \in Nat
                 /\ hook[c].link \in 0..Len(nodes)
  <1>1. hook[c] = Idle \/ hook[c] \in Work
    BY DEF Typed
  <1>2. Idle \notin Work
    <2>1. Idle.pc = "idle"
      BY DEF Idle
    <2>2. \A w \in Work : w.pc \in {"find", "link", "publish"}
      BY DEF Work
    <2> QED
      BY <2>1, <2>2
  <1>3. Idle.pc = "idle" /\ \A w \in Work : w.pc # "idle"
    BY DEF Idle, Work
  <1>4. \A w \in Work : w.key \in Keys /\ w.src \in Sources /\ w.time \in Nat
    BY DEF Work
  <1> QED
    BY <1>1, <1>2, <1>3, <1>4 DEF Due, Typed

LEMMA KeyFacts ==
    ASSUME NEW f \in Flows
    PROVE  <<f[2], 1>> \in Keys /\ <<f[1], 0>> \in Keys /\ f[1] \in Sources
  BY DEF Keys, Sources

(* The hook goes on to the source, and then to the next packet.            *)
LEMMA AdvanceFacts ==
    ASSUME NEW h \in Work
    PROVE  /\ Advance(h) = Idle \/ (Advance(h) \in Work /\ Advance(h).time = h.time
                                    /\ Advance(h).link = h.link)
           /\ \A k : Due(Advance(h), k) => Due(h, k)
           /\ \A k : Due(h, k) => k = h.key \/ Due(Advance(h), k)
  <1>1. CASE h.key[2] = 1
    <2> DEFINE a == Advance(h)
    <2>1. a = [[h EXCEPT !.pc = "find"] EXCEPT !.key = <<h.src, 0>>]
      BY <1>1 DEF Advance
    <2>2. <<h.src, 0>> \in Keys
      BY KeyFacts DEF Work, Sources
    <2>3. a \in Work /\ a.time = h.time /\ a.link = h.link /\ a.key = <<h.src, 0>>
      BY <2>1, <2>2 DEF Work
    <2> HIDE DEF a
    <2>4. a.key[2] = 0
      BY <2>3
    <2>5. \A k : Due(a, k) <=> k = <<h.src, 0>>
      BY <2>3, <2>4 DEF Due
    <2> QED
      BY <1>1, <2>3, <2>5 DEF Due, a
  <1>2. CASE h.key[2] # 1
    <2>1. Advance(h) = Idle
      BY <1>2 DEF Advance
    <2>2. Idle \notin Work
      <3>1. Idle.pc = "idle"
        BY DEF Idle
      <3> QED
        BY <3>1 DEF Work
    <2> QED
      BY <1>2, <2>1, <2>2 DEF Due
  <1> QED
    BY <1>1, <1>2

LEMMA EntriesFacts ==
    ASSUME Typed, NEW k
    PROVE  /\ Cache \in SUBSET DOMAIN nodes /\ Entries(k) \in SUBSET DOMAIN nodes
           /\ DOMAIN nodes = 1..Len(nodes) /\ Len(nodes) \in Nat
           /\ \A i \in DOMAIN nodes : nodes[i] \in Entry /\ nodes[i].key \in Keys /\ nodes[i].time \in Nat
           /\ Entries(k) # {} => Max(Entries(k)) \in Entries(k) /\ Min(Entries(k)) \in Entries(k)
           /\ \A i \in Entries(k) : nodes[i].key = k
  <1>1. /\ nodes \in Seq(Entry) /\ DOMAIN nodes = 1..Len(nodes) /\ Len(nodes) \in Nat
        /\ \A i \in DOMAIN nodes : nodes[i] \in Entry
    BY DEF Typed
  <1>2. \A e \in Entry : e.key \in Keys /\ e.time \in Nat
    BY DEF Entry
  <1>3. Cache \in SUBSET DOMAIN nodes /\ Entries(k) \in SUBSET DOMAIN nodes
    BY DEF Cache, ListFrom, Entries
  <1>4. Entries(k) \in SUBSET Nat /\ Entries(k) \in SUBSET (1..Len(nodes))
    BY <1>1, <1>3
  <1>5. Entries(k) # {} => Max(Entries(k)) \in Entries(k) /\ Min(Entries(k)) \in Entries(k)
    BY <1>1, <1>4, MinOfNumbers, MaxOfIndexes
  <1>6. \A i \in Entries(k) : nodes[i].key = k
    BY DEF Entries
  <1> QED
    BY <1>1, <1>2, <1>3, <1>5, <1>6

-----------------------------------------------------------------------------
(* The steps.                                                              *)

LEMMA Starts == Init => IInv
  <1> SUFFICES ASSUME Init
               PROVE  IInv
    OBVIOUS
  <1>1. /\ now = 0 /\ nodes = <<>> /\ head = 0 /\ hook = [c \in Cpus |-> Idle]
        /\ table = [d \in Dests |-> [valid |-> TRUE, life |-> Active]]
        /\ used = [k \in Keys |-> -1] /\ raced = {}
    BY DEF Init
  <1>2. MaxTime \in Nat /\ MaxNodes \in Nat /\ Active \in Nat
    BY IdleAssumption
  <1>3. nodes \in Seq(Entry) /\ Len(nodes) = 0 /\ DOMAIN nodes = {} /\ Linked(nodes)
    BY <1>1 DEF Linked
  <1>4. table \in Tables
    BY <1>1, <1>2 DEF Tables
  <1>5. used \in [Keys -> -1..MaxTime]
    BY <1>1, <1>2
  <1>6. hook \in [Cpus -> {Idle} \cup Work]
    BY <1>1
  <1>7. Typed
    <2>1. \A c \in Cpus : hook[c].pc = "idle"
      BY <1>1 DEF Idle
    <2>2. \A c \in Cpus : hook[c] \notin Work
      BY <2>1 DEF Work
    <2> QED
      BY <1>1, <1>2, <1>3, <1>4, <1>5, <1>6, <2>2 DEF Typed
  <1>8. \A c \in Cpus : hook[c] \notin Work
    BY <1>1, <1>7, HookFacts
  <1>9. Timely
    BY <1>8 DEF Timely, Due
  <1>10. Unused /\ Listed /\ Once
    BY <1>3 DEF Unused, Listed, Once
  <1>11. Noted
    BY <1>1 DEF Noted
  <1> QED
    BY <1>7, <1>9, <1>10, <1>11 DEF IInv

LEMMA ReceiveStep ==
    ASSUME IInv, NEW c \in Cpus, NEW f \in Flows, Receive(c, f[1], f[2])
    PROVE  IInv'
  <1> DEFINE w == [pc |-> "find", key |-> <<f[2], 1>>, src |-> f[1], time |-> KernelTime(now),
                   link |-> 0]
             to == <<f[2], 1>>
             from == <<f[1], 0>>
  <1>1. /\ hook[c] = Idle /\ hook' = [hook EXCEPT ![c] = w]
        /\ used' = [used EXCEPT ![to] = now, ![from] = now]
        /\ now' = now /\ nodes' = nodes /\ head' = head /\ table' = table /\ raced' = raced
    BY DEF Receive, cache
  <1>2. Typed /\ now \in Nat /\ now \in 0..MaxTime /\ MaxTime \in Nat
    BY IdleAssumption DEF IInv, Typed
  <1>3. to \in Keys /\ from \in Keys /\ f[1] \in Sources
    BY KeyFacts
  <1>4. KernelTime(now) \in Nat
    BY <1>2, KernelTimeFacts
  <1>5. w \in Work /\ w.time = KernelTime(now) /\ w.link = 0 /\ \A k : Due(w, k) <=> k \in {to, from}
    <2>1. w \in Work
      BY <1>3, <1>4 DEF Work
    <2>2. w.key = to /\ w.src = f[1] /\ w.key[2] = 1
      OBVIOUS
    <2>3. \A k : Due(w, k) <=> k = to \/ k = from
      BY <2>1, <2>2 DEF Due
    <2> QED
      BY <2>1, <2>3
  <1> HIDE DEF w
  <1>6. /\ hook'[c] = w /\ \A b \in Cpus \ {c} : hook'[b] = hook[b]
        /\ hook' \in [Cpus -> {Idle} \cup Work]
    BY <1>1, <1>2, <1>5 DEF Typed
  <1> HIDE DEF to, from
  <1>7. /\ used' \in [Keys -> -1..MaxTime] /\ used'[to] = now /\ used'[from] = now
        /\ \A k \in Keys : k \notin {to, from} => used'[k] = used[k]
    BY <1>1, <1>2, <1>3 DEF Typed
  <1>8. Typed'
    <2>1. \A b \in Cpus : hook'[b] \in Work => hook'[b].link \in 0..Len(nodes)
      <3>1. Len(nodes) \in Nat
        BY <1>2 DEF Typed
      <3> QED
        BY <1>2, <1>5, <1>6, <3>1 DEF Typed
    <2> QED
      BY <1>1, <1>2, <1>6, <1>7, <2>1 DEF Typed
  <1>9. Timely'
    <2> SUFFICES ASSUME NEW b \in Cpus
                 PROVE  /\ hook'[b] \in Work => hook'[b].time = KernelTime(now)
                        /\ \A k \in Keys : Due(hook'[b], k) => used'[k] = now
      BY <1>1 DEF Timely, KernelTime
    <2>1. CASE b = c
      BY <1>5, <1>6, <1>7, <2>1
    <2>2. CASE b # c
      BY <1>6, <1>7, <2>2 DEF IInv, Timely
    <2> QED
      BY <2>1, <2>2
  <1>10. Unused'
    <2> SUFFICES ASSUME NEW k \in Keys, used'[k] = -1
                 PROVE  used[k] = -1
      BY <1>1 DEF IInv, Unused
    <2> QED
      BY <1>2, <1>7
  <1>11. Cache' = Cache
    BY <1>1, CacheIsFrom
  <1>12. Listed' /\ Once'
    BY <1>1, <1>11 DEF IInv, Listed, Once
  <1>13. Noted'
    <2> SUFFICES ASSUME NEW k \in Keys, used'[k] # -1
                 PROVE  Pending(k)' \/ \E i \in DOMAIN nodes : Notes(i, k)'
      BY <1>1 DEF Noted
    <2>1. CASE k \in {to, from}
      BY <1>5, <1>6, <2>1 DEF Pending
    <2>2. CASE k \notin {to, from}
      <3>1. used'[k] = used[k]
        BY <1>7, <2>2
      <3>2. \A i : Notes(i, k)' <=> Notes(i, k)
        BY <1>1, <3>1 DEF Notes, KernelTime
      <3>3. Pending(k) => Pending(k)'
        <4>1. ~Due(hook[c], k)
          BY <1>1, <1>2, HookFacts
        <4> QED
          BY <1>6, <4>1 DEF Pending
      <3> QED
        BY <2>2, <3>1, <3>2, <3>3 DEF IInv, Noted
    <2> QED
      BY <2>1, <2>2
  <1> QED
    BY <1>8, <1>9, <1>10, <1>12, <1>13 DEF IInv

(* The hook goes on with its packet.                                       *)
LEMMA Goes ==
    ASSUME Typed, Timely, NEW c \in Cpus, hook[c] \in Work, NEW w,
           hook' = [hook EXCEPT ![c] = w],
           w = Idle \/ (w \in Work /\ w.time = hook[c].time),
           \A k : Due(w, k) => Due(hook[c], k),
           now' = now, used' = used
    PROVE  /\ hook' \in [Cpus -> {Idle} \cup Work]
           /\ \A b \in Cpus : hook'[b] = IF b = c THEN w ELSE hook[b]
           /\ Timely'
           /\ \A k \in Keys : Pending(k) => Pending(k)' \/ (Due(hook[c], k) /\ ~Due(w, k))
  <1>1. w \in {Idle} \cup Work /\ hook \in [Cpus -> {Idle} \cup Work]
    BY DEF Typed
  <1>2. /\ hook' \in [Cpus -> {Idle} \cup Work]
        /\ \A b \in Cpus : hook'[b] = IF b = c THEN w ELSE hook[b]
    BY <1>1
  <1>3. Timely'
    <2> SUFFICES ASSUME NEW b \in Cpus
                 PROVE  /\ hook'[b] \in Work => hook'[b].time = KernelTime(now)
                        /\ \A k \in Keys : Due(hook'[b], k) => used[k] = now
      BY DEF Timely, KernelTime
    <2>1. Idle \notin Work
      BY HookFacts
    <2>2. CASE b = c
      BY <1>2, <2>1, <2>2 DEF Timely
    <2>3. CASE b # c
      BY <1>2, <2>3 DEF Timely
    <2> QED
      BY <2>2, <2>3
  <1>4. ASSUME NEW k \in Keys, Pending(k)
        PROVE  Pending(k)' \/ (Due(hook[c], k) /\ ~Due(w, k))
    <2>1. PICK b \in Cpus : Due(hook[b], k)
      BY <1>4 DEF Pending
    <2>2. b # c => Pending(k)'
      BY <1>2, <2>1 DEF Pending
    <2>3. Due(w, k) => Pending(k)'
      BY <1>2 DEF Pending
    <2> QED
      BY <2>1, <2>2, <2>3
  <1> QED
    BY <1>2, <1>3, <1>4

LEMMA FindStep ==
    ASSUME IInv, NEW c \in Cpus, Find(c)
    PROVE  IInv'
  <1> DEFINE h == hook[c]
             found == Entries(h.key)
             m == Max(found)
  <1>1. /\ h.pc = "find" /\ now' = now /\ head' = head /\ table' = table
        /\ used' = used /\ raced' = raced
    BY DEF Find
  <1>2. /\ Typed /\ Timely /\ Unused /\ Listed /\ Once /\ Noted
    BY DEF IInv
  <1>3. h \in Work /\ h.key \in Keys /\ h.time \in Nat /\ h.link \in 0..Len(nodes)
    BY <1>1, <1>2, HookFacts
  <1>4. nodes \in Seq(Entry) /\ Len(nodes) \in Nat /\ DOMAIN nodes = 1..Len(nodes)
    BY <1>2 DEF Typed
  <1>5. CASE found = {}
    <2> DEFINE w == [h EXCEPT !.pc = "link"]
    <2>1. hook' = [hook EXCEPT ![c] = w] /\ nodes' = nodes
      BY <1>5 DEF Find
    <2>2. w \in Work /\ w.time = h.time /\ w.link = h.link /\ w.key = h.key /\ w.src = h.src
      BY <1>3 DEF Work
    <2>3. \A k : Due(w, k) <=> Due(h, k)
      BY <1>3, <2>2 DEF Due
    <2> HIDE DEF w
    <2>4. /\ hook' \in [Cpus -> {Idle} \cup Work]
          /\ \A b \in Cpus : hook'[b] = IF b = c THEN w ELSE hook[b]
          /\ Timely'
          /\ \A k \in Keys : Pending(k) => Pending(k)'
      BY <1>1, <1>2, <1>3, <2>1, <2>2, <2>3, Goes
    <2>5. Typed'
      BY <1>1, <1>2, <1>3, <2>1, <2>2, <2>4 DEF Typed
    <2>6. Cache' = Cache
      BY <1>1, <2>1, CacheIsFrom
    <2>7. Unused' /\ Listed' /\ Once'
      BY <1>1, <1>2, <2>1, <2>6 DEF Unused, Listed, Once
    <2>8. \A i, k : Notes(i, k)' <=> Notes(i, k)
      BY <1>1, <2>1 DEF Notes, KernelTime
    <2>9. Noted'
      BY <1>1, <1>2, <2>1, <2>4, <2>8 DEF Noted
    <2> QED
      BY <2>4, <2>5, <2>7, <2>9 DEF IInv
  <1>6. CASE found # {}
    <2> DEFINE w == Advance(h)
               e == [nodes[m] EXCEPT !.time = h.time]
    <2>1. hook' = [hook EXCEPT ![c] = w] /\ nodes' = [nodes EXCEPT ![m].time = h.time]
      BY <1>6 DEF Find
    <2>2. m \in found /\ m \in DOMAIN nodes /\ nodes[m] \in Entry /\ nodes[m].key = h.key
      BY <1>2, <1>6, EntriesFacts
    <2>3. e \in Entry /\ e.key = h.key /\ e.time = h.time /\ e.next = nodes[m].next
      BY <1>3, <2>2 DEF Entry
    <2>4. /\ w = Idle \/ (w \in Work /\ w.time = h.time /\ w.link = h.link)
          /\ \A k : Due(w, k) => Due(h, k)
          /\ \A k : Due(h, k) => k = h.key \/ Due(w, k)
      BY <1>3, AdvanceFacts
    <2>5. nodes' = [nodes EXCEPT ![m] = e]
      BY <2>1
    <2> HIDE DEF w, e, m, found, h
    <2>6. /\ nodes' \in Seq(Entry) /\ Len(nodes') = Len(nodes) /\ DOMAIN nodes' = DOMAIN nodes
          /\ nodes'[m] = e /\ \A i \in DOMAIN nodes : i # m => nodes'[i] = nodes[i]
      BY <1>4, <2>2, <2>3, <2>5
    <2>7. \A i \in DOMAIN nodes : nodes'[i].key = nodes[i].key /\ nodes'[i].next = nodes[i].next
      BY <2>2, <2>3, <2>6
    <2>8. /\ hook' \in [Cpus -> {Idle} \cup Work]
          /\ \A b \in Cpus : hook'[b] = IF b = c THEN w ELSE hook[b]
          /\ Timely'
          /\ \A k \in Keys : Pending(k) => Pending(k)' \/ k = h.key
      BY <1>1, <1>2, <1>3, <2>1, <2>4, Goes DEF h
    <2>9. Typed'
      <3>1. \A b \in Cpus : hook'[b] \in Work => hook'[b].link \in 0..Len(nodes)
        <4>1. Idle \notin Work
          BY <1>2, HookFacts
        <4> QED
          BY <1>2, <1>3, <2>4, <2>8, <4>1 DEF Typed
      <3>2. Linked(nodes')
        BY <1>2, <2>6, <2>7 DEF Typed, Linked
      <3> QED
        BY <1>1, <1>2, <2>6, <2>8, <3>1, <3>2 DEF Typed
    <2>10. Cache' = Cache
      BY <1>1, <2>6, <2>7, CacheIsFrom, FromSame
    <2>11. Unused' /\ Listed' /\ Once'
      BY <1>1, <1>2, <2>6, <2>7, <2>10 DEF Unused, Listed, Once
    <2>12. Noted'
      <3> SUFFICES ASSUME NEW k \in Keys, used[k] # -1
                   PROVE  Pending(k)' \/ \E i \in DOMAIN nodes' : Notes(i, k)'
        BY <1>1 DEF Noted
      <3>1. CASE k = h.key
        <4>1. Due(h, k)
          BY <1>3, <3>1 DEF Due
        <4>2. used[k] = now /\ h.time = KernelTime(now)
          BY <1>2, <1>3, <4>1 DEF Timely, h
        <4>3. PICK j \in DOMAIN nodes : j = m
          BY <2>2
        <4>4. nodes'[j].key = k /\ nodes'[j].time = KernelTime(used[k])
          BY <2>3, <2>6, <3>1, <4>2, <4>3
        <4>5. Notes(j, k)'
          BY <1>1, <4>4 DEF Notes, KernelTime
        <4> QED
          BY <2>6, <4>5
      <3>2. CASE k # h.key
        <4>1. CASE Pending(k)
          BY <2>8, <3>2, <4>1
        <4>2. CASE \E i \in DOMAIN nodes : Notes(i, k)
          <5>1. PICK i \in DOMAIN nodes : Notes(i, k)
            BY <4>2
          <5>2. i # m
            BY <2>2, <3>2, <5>1 DEF Notes
          <5>3. Notes(i, k)'
            BY <1>1, <2>6, <5>1, <5>2 DEF Notes, KernelTime
          <5> QED
            BY <2>6, <5>3
        <4> QED
          BY <1>2, <4>1, <4>2 DEF Noted
      <3> QED
        BY <3>1, <3>2
    <2> QED
      BY <2>8, <2>9, <2>11, <2>12 DEF IInv
  <1> QED
    BY <1>5, <1>6

LEMMA LinkStep ==
    ASSUME IInv, NEW c \in Cpus, Link(c)
    PROVE  IInv'
  <1> DEFINE h == hook[c]
             w == [h EXCEPT !.pc = "publish", !.link = head]
  <1>1. /\ h.pc = "link" /\ now' = now /\ nodes' = nodes /\ head' = head /\ table' = table
        /\ used' = used /\ raced' = raced
        /\ hook' = [hook EXCEPT ![c] = w]
    BY DEF Link, cache
  <1>2. Typed /\ Timely /\ Unused /\ Listed /\ Once /\ Noted
    BY DEF IInv
  <1>3. h \in Work
    BY <1>1, <1>2, HookFacts
  <1>4. head \in 0..Len(nodes) /\ Len(nodes) \in Nat /\ head \in Nat
    BY <1>2 DEF Typed
  <1>5. w \in Work /\ w.time = h.time /\ w.link = head /\ w.key = h.key /\ w.src = h.src
    BY <1>3, <1>4 DEF Work
  <1>6. \A k : Due(w, k) <=> Due(h, k)
    BY <1>3, <1>5 DEF Due
  <1> HIDE DEF w
  <1>7. /\ hook' \in [Cpus -> {Idle} \cup Work]
        /\ \A b \in Cpus : hook'[b] = IF b = c THEN w ELSE hook[b]
        /\ Timely'
        /\ \A k \in Keys : Pending(k) => Pending(k)'
    BY <1>1, <1>2, <1>3, <1>5, <1>6, Goes
  <1>8. Typed'
    BY <1>1, <1>2, <1>4, <1>5, <1>7 DEF Typed
  <1>9. Cache' = Cache
    BY <1>1, CacheIsFrom
  <1>10. Unused' /\ Listed' /\ Once'
    BY <1>1, <1>2, <1>9 DEF Unused, Listed, Once
  <1>11. \A i, k : Notes(i, k)' <=> Notes(i, k)
    BY <1>1 DEF Notes, KernelTime
  <1>12. Noted'
    BY <1>1, <1>2, <1>7, <1>11 DEF Noted
  <1> QED
    BY <1>7, <1>8, <1>10, <1>12 DEF IInv

(* What the new entry leaves out, and what it doubles, counts as raced.    *)
LEMMA PublishStep ==
    ASSUME IInv, NEW c \in Cpus, Publish(c)
    PROVE  IInv'
  <1> DEFINE h == hook[c]
             w == Advance(h)
             e == [key |-> h.key, time |-> h.time, next |-> h.link]
             n == Len(nodes)
             kept == From(nodes, h.link)
  <1>1. /\ h.pc = "publish" /\ Len(nodes) < MaxNodes
        /\ now' = now /\ table' = table /\ used' = used
        /\ nodes' = Append(nodes, e) /\ head' = Len(nodes')
        /\ hook' = [hook EXCEPT ![c] = w]
    BY DEF Publish
  <1>2. Typed /\ Timely /\ Unused /\ Listed /\ Once /\ Noted
    BY DEF IInv
  <1>3. h \in Work /\ h.key \in Keys /\ h.time \in Nat /\ h.link \in 0..Len(nodes)
    BY <1>1, <1>2, HookFacts
  <1>4. nodes \in Seq(Entry) /\ n \in Nat /\ DOMAIN nodes = 1..n /\ Linked(nodes) /\ Cache \subseteq 1..n
    BY <1>2, EntriesFacts DEF Typed
  <1>5. /\ raced \subseteq raced'
        /\ \A i \in Cache : i \in kept \/ nodes[i].key \in raced'
        /\ \A i \in Cache : nodes[i].key # h.key \/ h.key \in raced'
        /\ raced' \in SUBSET Keys
    <2>1. raced' = raced \cup {nodes[i].key : i \in Cache \ kept}
                         \cup ({h.key} \cap {nodes[i].key : i \in Cache \cup kept})
      BY ListIsFrom DEF Publish
    <2>2. \A i \in Cache : nodes[i].key \in Keys
      BY <1>2, EntriesFacts
    <2> HIDE DEF kept, h
    <2> QED
      BY <1>2, <1>3, <2>1, <2>2 DEF Typed, h
  <1>6. e \in Entry /\ e.key = h.key /\ e.time = h.time /\ e.next = h.link
    BY <1>3, <1>4 DEF Entry
  <1> HIDE DEF e, w
  <1>7. /\ nodes' \in Seq(Entry) /\ Linked(nodes')
        /\ DOMAIN nodes' = 1..n + 1
        /\ \A i \in 1..n : nodes'[i] = nodes[i]
        /\ nodes'[n + 1] = e
        /\ From(nodes', n + 1) = kept \cup {n + 1}
    BY <1>1, <1>3, <1>4, <1>6, FromNew
  <1>8. head' = n + 1 /\ Len(nodes') = n + 1
    BY <1>1, <1>4, <1>7
  <1>9. Cache' = kept \cup {n + 1}
    BY <1>7, <1>8, CacheIsFrom
  <1>10. /\ w = Idle \/ (w \in Work /\ w.time = h.time /\ w.link = h.link)
         /\ \A k : Due(w, k) => Due(h, k)
         /\ \A k : Due(h, k) => k = h.key \/ Due(w, k)
    BY <1>3, AdvanceFacts DEF w
  <1>11. /\ hook' \in [Cpus -> {Idle} \cup Work]
         /\ \A b \in Cpus : hook'[b] = IF b = c THEN w ELSE hook[b]
         /\ Timely'
         /\ \A k \in Keys : Pending(k) => Pending(k)' \/ k = h.key
    BY <1>1, <1>2, <1>3, <1>10, Goes
  <1>12. Due(h, h.key)
    BY <1>3 DEF Due
  <1>13. used[h.key] = now /\ h.time = KernelTime(now) /\ now \in Nat
    BY <1>2, <1>3, <1>12 DEF Timely, Typed
  <1>14. \A i \in 1..n + 1 : i \in 1..n \/ i = n + 1
    BY <1>4
  <1>15. Typed'
    <2>1. \A b \in Cpus : hook'[b] \in Work => hook'[b].link \in 0..n + 1
      <3>1. \A b \in Cpus : hook'[b] \in Work => hook'[b].link \in 0..n
        <4>1. Idle \notin Work
          BY <1>2, <1>3, HookFacts
        <4> QED
          BY <1>2, <1>3, <1>10, <1>11, <4>1 DEF Typed
      <3> QED
        BY <1>4, <3>1
    <2>2. n + 1 <= MaxNodes /\ n + 1 \in 0..n + 1
      BY <1>1, <1>4, IdleAssumption
    <2> HIDE DEF n
    <2> QED
      BY <1>1, <1>2, <1>5, <1>7, <1>8, <1>11, <2>1, <2>2 DEF Typed
  <1>16. Unused'
    <2> SUFFICES ASSUME NEW k \in Keys, used[k] = -1, NEW i \in 1..n + 1
                 PROVE  nodes'[i].key # k
      BY <1>1, <1>7 DEF Unused
    <2>1. CASE i \in 1..n
      BY <1>2, <1>4, <1>7, <2>1 DEF Unused
    <2>2. CASE i = n + 1
      BY <1>6, <1>7, <1>13, <2>2
    <2> QED
      BY <1>14, <2>1, <2>2
  <1>17. Listed'
    <2> SUFFICES ASSUME NEW i \in 1..n + 1, i \notin kept \cup {n + 1}
                 PROVE  nodes'[i].key \in raced'
      BY <1>7, <1>9 DEF Listed
    <2>1. i \in 1..n /\ i \notin kept /\ nodes'[i] = nodes[i]
      BY <1>7, <1>14
    <2> HIDE DEF kept
    <2> QED
      BY <1>2, <1>4, <1>5, <2>1 DEF Listed
  <1>18. \A i \in 1..n : nodes[i].key = h.key => h.key \in raced'
    BY <1>2, <1>4, <1>5 DEF Listed
  <1>19. Once'
    <2> SUFFICES ASSUME NEW i \in 1..n + 1, NEW j \in 1..n + 1, nodes'[i].key = nodes'[j].key
                 PROVE  i = j \/ nodes'[i].key \in raced'
      BY <1>7 DEF Once
    <2>1. CASE i \in 1..n /\ j \in 1..n
      BY <1>2, <1>4, <1>5, <1>7, <2>1 DEF Once
    <2>2. CASE i = n + 1 /\ j \in 1..n
      BY <1>6, <1>7, <1>18, <2>2
    <2>3. CASE i \in 1..n /\ j = n + 1
      BY <1>6, <1>7, <1>18, <2>3
    <2> QED
      BY <1>14, <2>1, <2>2, <2>3
  <1>20. Noted'
    <2> SUFFICES ASSUME NEW k \in Keys, used[k] # -1
                 PROVE  Pending(k)' \/ \E i \in 1..n + 1 : Notes(i, k)'
      BY <1>1, <1>7 DEF Noted
    <2>1. CASE k = h.key
      <3>1. PICK j \in 1..n + 1 : j = n + 1
        BY <1>4
      <3>2. nodes'[j].key = k /\ nodes'[j].time = KernelTime(used[k])
        BY <1>6, <1>7, <1>13, <2>1, <3>1
      <3>3. Notes(j, k)'
        BY <1>1, <3>2 DEF Notes, KernelTime
      <3> QED
        BY <3>3
    <2>2. CASE k # h.key
      <3>1. CASE Pending(k)
        BY <1>11, <2>2, <3>1
      <3>2. CASE \E i \in 1..n : Notes(i, k)
        <4>1. PICK i \in 1..n : Notes(i, k)
          BY <3>2
        <4>2. Notes(i, k)' /\ i \in 1..n + 1
          BY <1>1, <1>4, <1>5, <1>7, <4>1 DEF Notes, KernelTime
        <4> QED
          BY <4>2
      <3> QED
        BY <1>2, <1>4, <3>1, <3>2 DEF Noted
    <2> QED
      BY <2>1, <2>2
  <1> QED
    BY <1>11, <1>15, <1>16, <1>17, <1>19, <1>20 DEF IInv

LEMMA TickStep ==
    ASSUME IInv, Tick
    PROVE  IInv'
  <1>1. /\ now < MaxTime /\ Quiet /\ now' = now + 1 /\ nodes' = nodes /\ head' = head
        /\ hook' = hook /\ table' = table /\ used' = used /\ raced' = raced
    BY DEF Tick, cache
  <1>2. Typed /\ Unused /\ Listed /\ Once /\ Noted
    BY DEF IInv
  <1>3. \A c \in Cpus : hook[c] \notin Work
    BY <1>1, <1>2, HookFacts DEF Quiet
  <1>4. Typed'
    <2>1. now + 1 \in 0..MaxTime
      BY <1>1, <1>2, IdleAssumption DEF Typed
    <2> QED
      BY <1>1, <1>2, <2>1 DEF Typed
  <1>5. Timely'
    BY <1>1, <1>3 DEF Timely, Due
  <1>6. Cache' = Cache
    BY <1>1, CacheIsFrom
  <1>7. Unused' /\ Listed' /\ Once'
    BY <1>1, <1>2, <1>6 DEF Unused, Listed, Once
  <1>8. Noted'
    BY <1>1, <1>2 DEF Noted, Notes, Pending, KernelTime
  <1> QED
    BY <1>4, <1>5, <1>7, <1>8 DEF IInv

(* A step that changes the routing table alone.                            *)
LEMMA TableStep ==
    ASSUME IInv, table' \in Tables, UNCHANGED <<now, cache, hook, used, raced>>
    PROVE  IInv'
  <1>1. /\ now' = now /\ nodes' = nodes /\ head' = head
        /\ hook' = hook /\ used' = used /\ raced' = raced
    BY DEF cache
  <1>2. Cache' = Cache
    BY <1>1, CacheIsFrom
  <1>3. Typed'
    BY <1>1 DEF IInv, Typed
  <1>4. Timely'
    BY <1>1 DEF IInv, Timely, KernelTime
  <1>5. Unused' /\ Listed' /\ Once'
    BY <1>1, <1>2 DEF IInv, Unused, Listed, Once
  <1>6. Noted'
    BY <1>1 DEF IInv, Noted, Notes, Pending, KernelTime
  <1> QED
    BY <1>3, <1>4, <1>5, <1>6 DEF IInv

-----------------------------------------------------------------------------
(* A run of refreshEntries.                                                *)

(* What a query that finds something returns.                              *)
Answered(k, idle) == \E i \in Entries(k) : idle = now - nodes[i].time

LEMMA QueryFacts ==
    ASSUME Typed, NEW k
    PROVE  /\ Query(k) \in Int
           /\ Query(k) # -1 => k \in Keys /\ Answered(k, Query(k))
           /\ \A i : Answered(k, i) => now - i \in Nat
  <1>1. /\ Entries(k) \in SUBSET DOMAIN nodes
        /\ \A i \in DOMAIN nodes : nodes[i].key \in Keys /\ nodes[i].time \in Nat
        /\ Entries(k) # {} => Min(Entries(k)) \in Entries(k)
        /\ \A i \in Entries(k) : nodes[i].key = k
    BY EntriesFacts
  <1>2. now \in Nat
    BY DEF Typed
  <1>3. CASE Entries(k) = {}
    <2>1. Query(k) = -1
      BY <1>3 DEF Query
    <2> QED
      BY <1>3, <2>1 DEF Answered
  <1>4. CASE Entries(k) # {}
    <2> DEFINE m == Min(Entries(k))
    <2>1. Query(k) = now - nodes[m].time
      BY <1>4 DEF Query
    <2>2. m \in Entries(k) /\ nodes[m].time \in Nat /\ k \in Keys
      BY <1>1, <1>4
    <2> HIDE DEF m
    <2>3. \A i : Answered(k, i) => now - i \in Nat
      BY <1>1, <1>2 DEF Answered
    <2> QED
      BY <1>2, <2>1, <2>2, <2>3 DEF Answered
  <1> QED
    BY <1>3, <1>4

(* The addresses whose packets keep a route alive.                         *)
Serving(d) == {k \in Keys : k = <<d, 1>> \/ k[1] \in Behind(d)}

LEMMA IdleOfFacts ==
    ASSUME Typed, NEW d \in Dests
    PROVE  /\ IdleOf(d) \in Int
           /\ IdleOf(d) < Active => \E k \in Keys :
                 /\ k = <<d, 1>> \/ \E f \in Behind(d) : k = <<f, 0>>
                 /\ Answered(k, IdleOf(d))
           /\ Query(<<d, 1>>) >= 0 => IdleOf(d) <= Query(<<d, 1>>)
  <1> DEFINE own == Query(<<d, 1>>)
             first == IF own < 0 THEN 2 * Active ELSE own
             G == {g \in Behind(d) : <<g, 0>> \in Keys}
             ask(f) == Query(<<f, 0>>)
             others == {ask(f) : f \in G} \ {-1}
             S == {first} \cup others
  <1>1. Active \in Nat /\ Active > 0 /\ own \in Int /\ \A f : ask(f) \in Int
    BY IdleAssumption, QueryFacts
  <1>2. IsFiniteSet(Dests)
    <2>1. Order \in Seq(Dests) /\ Dests = {Order[j] : j \in 1..Len(Order)} /\ Len(Order) \in Nat
      BY IdleAssumption DEF Dests, ToSet
    <2>2. IsFiniteSet(1..Len(Order))
      BY <2>1, FS_Interval
    <2>3. DOMAIN Order = 1..Len(Order)
      BY <2>1
    <2> QED
      BY <2>1, <2>2, <2>3, FiniteImage
  <1>3. IsFiniteSet(S)
    <2>1. G \in SUBSET Dests
      BY DEF Behind
    <2>2. IsFiniteSet(G)
      BY <1>2, <2>1, FS_Subset
    <2> HIDE DEF G, ask
    <2>3. IsFiniteSet({ask(f) : f \in G})
      <3> DEFINE a == [f \in G |-> ask(f)]
      <3>1. DOMAIN a = G /\ {a[f] : f \in G} = {ask(f) : f \in G}
        OBVIOUS
      <3> HIDE DEF a
      <3>2. IsFiniteSet({a[f] : f \in G})
        BY <2>2, <3>1, FiniteImage
      <3> QED
        BY <3>1, <3>2
    <2>4. IsFiniteSet(others)
      BY <2>3, FS_RemoveElement
    <2> HIDE DEF others, first
    <2>5. IsFiniteSet({first})
      BY FS_Singleton
    <2> QED
      BY <2>4, <2>5, FS_Union
  <1>4. S \in SUBSET Int /\ S # {}
    <2>1. first \in Int
      BY <1>1
    <2>2. others \in SUBSET Int
      BY <1>1
    <2> HIDE DEF first, others
    <2> QED
      BY <2>1, <2>2
  <1>5. IdleOf(d) = Min(S)
    BY DEF IdleOf
  <1> HIDE DEF S
  <1>6. IdleOf(d) \in S /\ \A x \in S : IdleOf(d) <= x
    BY <1>3, <1>4, <1>5, MinOfFinite
  <1>7. IdleOf(d) \in Int
    BY <1>4, <1>6
  <1>8. own >= 0 => IdleOf(d) <= own
    BY <1>1, <1>6 DEF S
  <1>9. ASSUME IdleOf(d) < Active
        PROVE  \E k \in Keys : /\ k = <<d, 1>> \/ \E f \in Behind(d) : k = <<f, 0>>
                               /\ Answered(k, IdleOf(d))
    <2>1. IdleOf(d) = first \/ IdleOf(d) \in others
      BY <1>6 DEF S
    <2>2. CASE IdleOf(d) = first
      <3>1. IdleOf(d) = own /\ own # -1
        BY <1>1, <1>9, <2>2
      <3>2. <<d, 1>> \in Keys /\ Answered(<<d, 1>>, own)
        BY <3>1, QueryFacts
      <3> HIDE DEF own
      <3> QED
        BY <3>1, <3>2
    <2>3. CASE IdleOf(d) \in others
      <3>1. PICK f \in Behind(d) : IdleOf(d) = ask(f) /\ ask(f) # -1
        BY <2>3
      <3>2. <<f, 0>> \in Keys /\ Answered(<<f, 0>>, ask(f))
        BY <3>1, QueryFacts
      <3> HIDE DEF ask
      <3> QED
        BY <3>1, <3>2
    <2> QED
      BY <2>1, <2>2, <2>3
  <1> QED
    BY <1>7, <1>8, <1>9

(* What one entry's turn makes of the table.                               *)
LEMMA RefreshEntryFacts ==
    ASSUME Typed, NEW t \in Tables, NEW d \in Dests
    PROVE  LET r == RefreshEntry(t, d) IN
           /\ r \in Tables
           /\ \A x \in Dests :
                 /\ r[x].life # t[x].life =>
                       /\ x \in {d, NextHop[d]} /\ IdleOf(d) < Active
                       /\ r[x].life = now - IdleOf(d) + Active
                 /\ r[x].valid => t[x].valid
                 /\ t[x].valid /\ ~r[x].valid =>
                       \/ x = d /\ IdleOf(d) >= Active
                       \/ x \in Behind(d) /\ ~r[d].valid
  <1> DEFINE r == RefreshEntry(t, d)
             life == now - IdleOf(d) + Active
  <1>1. /\ Active \in Nat /\ now \in Nat /\ NextHop[d] \in Dests
        /\ IdleOf(d) \in Int
    <2>1. Active \in Nat /\ NextHop[d] \in Dests
      BY IdleAssumption
    <2>2. IdleOf(d) \in Int
      BY IdleOfFacts
    <2>3. now \in Nat
      BY DEF Typed
    <2> QED
      BY <2>1, <2>2, <2>3
  <1>2. CASE ~t[d].valid \/ t[d].life > now
    <2>1. r = t
      BY <1>2 DEF RefreshEntry
    <2> QED
      BY <2>1
  <1>3. CASE t[d].valid /\ ~(t[d].life > now) /\ IdleOf(d) < Active
    <2>1. r = [t EXCEPT ![d].life = life, ![NextHop[d]].life = life]
      BY <1>3 DEF RefreshEntry
    <2>2. life \in Nat
      <3>1. PICK k \in Keys : Answered(k, IdleOf(d))
        BY <1>3, IdleOfFacts
      <3>2. now - IdleOf(d) \in Nat
        BY <3>1, QueryFacts
      <3> QED
        BY <1>1, <3>2
    <2> HIDE DEF life
    <2> DEFINE s == [t EXCEPT ![d].life = life]
    <2>3. /\ s \in Tables
          /\ \A x \in Dests : s[x].valid = t[x].valid
                              /\ s[x].life = IF x = d THEN life ELSE t[x].life
      BY <2>2 DEF Tables
    <2>4. r = [s EXCEPT ![NextHop[d]].life = life]
      BY <2>1
    <2> HIDE DEF s, r
    <2>5. /\ r \in Tables
          /\ \A x \in Dests : r[x].valid = s[x].valid
                              /\ r[x].life = IF x = NextHop[d] THEN life ELSE s[x].life
      BY <1>1, <2>2, <2>3, <2>4 DEF Tables
    <2>6. \A x \in Dests : r[x].valid = t[x].valid
                           /\ r[x].life = IF x \in {d, NextHop[d]} THEN life ELSE t[x].life
      BY <2>3, <2>5
    <2> QED
      BY <1>3, <2>5, <2>6 DEF r, life
  <1>4. CASE t[d].valid /\ ~(t[d].life > now) /\ ~(IdleOf(d) < Active)
    <2>1. r = [f \in Dests |-> IF f \in {d} \cup Behind(d) THEN [t[f] EXCEPT !.valid = FALSE] ELSE t[f]]
      BY <1>4 DEF RefreshEntry
    <2>2. \A f \in Dests : t[f] \in [valid : BOOLEAN, life : Nat]
      BY DEF Tables
    <2> HIDE DEF r
    <2>3. \A x \in Dests : r[x] = IF x \in {d} \cup Behind(d) THEN [t[x] EXCEPT !.valid = FALSE] ELSE t[x]
      BY <2>1
    <2>4. \A x \in Dests : /\ r[x] \in [valid : BOOLEAN, life : Nat]
                           /\ r[x].life = t[x].life
                           /\ r[x].valid = (t[x].valid /\ x \notin {d} \cup Behind(d))
      BY <2>2, <2>3
    <2>5. r \in Tables
      BY <2>1, <2>4 DEF Tables
    <2>6. ~r[d].valid /\ IdleOf(d) >= Active
      BY <1>1, <1>4, <2>4
    <2> QED
      BY <2>4, <2>5, <2>6 DEF r
  <1> QED
    BY <1>2, <1>3, <1>4

(* Why a table t differs from the one that refreshEntries began with.      *)
Reasoned(t) ==
    /\ t \in Tables
    /\ \A x \in Dests :
          /\ t[x].life # table[x].life =>
                \E d \in Dests : /\ x \in {d, NextHop[d]} /\ IdleOf(d) < Active
                                 /\ t[x].life = now - IdleOf(d) + Active
          /\ t[x].valid => table[x].valid
          /\ table[x].valid /\ ~t[x].valid =>
                \/ IdleOf(x) >= Active
                \/ \E d \in Dests : x \in Behind(d) /\ ~t[d].valid

LEMMA RefreshedSteps ==
    ASSUME Typed
    PROVE  \A j \in 0..Len(Order) :
              Refreshed[j] = IF j = 0 THEN table ELSE RefreshEntry(Refreshed[j - 1], Order[j])
  <1> DEFINE n == Len(Order)
             rec(f) == f = [j \in 0..n |->
                              IF j = 0 THEN table ELSE RefreshEntry(f[j - 1], Order[j])]
             step == [j \in 1..n |-> [t \in Tables |-> RefreshEntry(t, Order[j])]]
             s == Refreshed
  <1>1. n \in Nat /\ \A j \in 1..n : Order[j] \in Dests
    BY IdleAssumption
  <1>2. table \in Tables
    BY DEF Typed
  <1>3. \A j \in 1..n : \A t \in Tables : RefreshEntry(t, Order[j]) \in Tables
    BY <1>1, RefreshEntryFacts
  <1> HIDE DEF n
  <1>4. step \in [1..n -> [Tables -> Tables]]
    BY <1>3
  <1>5. PICK g : Computes(g, n, Tables, table, step)
    <2> HIDE DEF step
    <2> QED
      BY <1>1, <1>2, <1>4, Recursion
  <1>6. rec(g)
    <2>1. \A j \in 0..n : g[j] = IF j = 0 THEN table ELSE RefreshEntry(g[j - 1], Order[j])
      <3> TAKE j \in 0..n
      <3>1. CASE j = 0
        BY <1>5, <3>1 DEF Computes
      <3>2. CASE j # 0
        <4>1. j \in 1..n /\ j - 1 \in 0..n
          BY <1>1, <3>2
        <4>2. g[j - 1] \in Tables /\ g[j] = step[j][g[j - 1]]
          BY <1>5, <4>1 DEF Computes
        <4> QED
          BY <3>2, <4>1, <4>2
      <3> QED
        BY <3>1, <3>2
    <2>2. g = [j \in 0..n |-> g[j]]
      BY <1>5 DEF Computes
    <2> QED
      BY <2>1, <2>2
  <1>7. rec(s)
    <2>1. s = CHOOSE f : rec(f)
      BY DEF Refreshed, n
    <2> HIDE DEF rec, s
    <2> QED
      BY <1>6, <2>1
  <1> HIDE DEF s
  <1>8. \A j \in 0..n : s[j] = IF j = 0 THEN table ELSE RefreshEntry(s[j - 1], Order[j])
    BY <1>7
  <1> QED
    BY <1>8 DEF n, s

LEMMA RefreshedFacts ==
    ASSUME Typed
    PROVE  Reasoned(Refreshed[Len(Order)])
  <1> DEFINE n == Len(Order)
             s == Refreshed
             R == {j \in 0..n : Reasoned(s[j])}
  <1>1. n \in Nat /\ \A j \in 1..n : Order[j] \in Dests
    BY IdleAssumption
  <1>2. \A j \in 0..n : s[j] = IF j = 0 THEN table ELSE RefreshEntry(s[j - 1], Order[j])
    BY RefreshedSteps
  <1> HIDE DEF n, s
  <1>3. 0 \in R
    <2>1. s[0] = table /\ 0 \in 0..n
      BY <1>1, <1>2
    <2> QED
      BY <2>1 DEF Reasoned, Typed
  <1>4. ASSUME NEW j \in 1..n, j - 1 \in R
        PROVE  j \in R
    <2> DEFINE t == s[j - 1]
               d == Order[j]
               r == RefreshEntry(t, d)
    <2>1. j \in 0..n /\ s[j] = r /\ d \in Dests /\ Reasoned(t) /\ t \in Tables
      BY <1>1, <1>2, <1>4 DEF Reasoned
    <2> HIDE DEF t, d
    <2>2. /\ r \in Tables
          /\ \A x \in Dests :
                /\ r[x].life # t[x].life =>
                      /\ x \in {d, NextHop[d]} /\ IdleOf(d) < Active
                      /\ r[x].life = now - IdleOf(d) + Active
                /\ r[x].valid => t[x].valid
                /\ t[x].valid /\ ~r[x].valid =>
                      \/ x = d /\ IdleOf(d) >= Active
                      \/ x \in Behind(d) /\ ~r[d].valid
      BY <2>1, RefreshEntryFacts
    <2> HIDE DEF r
    <2>3. ASSUME NEW x \in Dests, r[x].life # table[x].life
          PROVE  \E e \in Dests : /\ x \in {e, NextHop[e]} /\ IdleOf(e) < Active
                                  /\ r[x].life = now - IdleOf(e) + Active
      <3>1. CASE r[x].life # t[x].life
        BY <2>1, <2>2, <3>1
      <3>2. CASE r[x].life = t[x].life
        BY <2>1, <2>3, <3>2 DEF Reasoned
      <3> QED
        BY <3>1, <3>2
    <2>4. \A x \in Dests : r[x].valid => table[x].valid
      BY <2>1, <2>2 DEF Reasoned
    <2>5. ASSUME NEW x \in Dests, table[x].valid, ~r[x].valid
          PROVE  IdleOf(x) >= Active \/ \E e \in Dests : x \in Behind(e) /\ ~r[e].valid
      <3>1. CASE t[x].valid
        BY <2>1, <2>2, <2>5, <3>1
      <3>2. CASE ~t[x].valid
        BY <2>1, <2>2, <2>5, <3>2 DEF Reasoned
      <3> QED
        BY <3>1, <3>2
    <2>6. Reasoned(r)
      BY <2>2, <2>3, <2>4, <2>5 DEF Reasoned
    <2> QED
      BY <2>1, <2>6
  <1>5. n \in R
    <2> HIDE DEF R
    <2>1. \A j \in 0..n : j \in R
      BY <1>1, <1>3, <1>4, Upward
    <2> QED
      BY <1>1, <2>1
  <1> QED
    BY <1>5 DEF n, s

LEMMA LearnTable ==
    ASSUME Typed, NEW d \in Dests, Learn(d)
    PROVE  table' \in Tables /\ \A x \in Dests : table[x].valid => table'[x].valid
  <1>1. table' = [f \in Dests |-> IF f \in {d, NextHop[d]}
                                  THEN [valid |-> TRUE, life |-> now + Active] ELSE table[f]]
    BY DEF Learn
  <1>2. now + Active \in Nat
    BY IdleAssumption DEF Typed
  <1>3. \A f \in Dests : table[f] \in [valid : BOOLEAN, life : Nat]
    BY DEF Typed, Tables
  <1>4. \A f \in Dests : table'[f] \in [valid : BOOLEAN, life : Nat]
    BY <1>1, <1>2, <1>3
  <1>5. table' \in Tables
    BY <1>1, <1>4 DEF Tables
  <1>6. \A x \in Dests : table[x].valid => table'[x].valid
    BY <1>1
  <1> QED
    BY <1>5, <1>6

-----------------------------------------------------------------------------
(* The theorems.                                                           *)

LEMMA Steps == IInv /\ [Next]_vars => IInv'
  <1> SUFFICES ASSUME IInv, [Next]_vars
               PROVE  IInv'
    OBVIOUS
  <1>1. Typed
    BY DEF IInv
  <1>2. ASSUME NEW c \in Cpus, Hook(c)
        PROVE  IInv'
    BY <1>2, FindStep, LinkStep, PublishStep DEF Hook
  <1>3. ASSUME NEW c \in Cpus, NEW f \in Flows, Receive(c, f[1], f[2])
        PROVE  IInv'
    BY <1>3, ReceiveStep
  <1>4. CASE RefreshEntries
    <2>1. table' \in Tables
      BY <1>1, <1>4, RefreshedFacts DEF RefreshEntries, Reasoned
    <2> QED
      BY <1>4, <2>1, TableStep DEF RefreshEntries
  <1>5. CASE Tick
    BY <1>5, TickStep
  <1>6. ASSUME NEW d \in Dests, Learn(d)
        PROVE  IInv'
    <2>1. table' \in Tables
      BY <1>1, <1>6, LearnTable
    <2> QED
      BY <1>6, <2>1, TableStep DEF Learn
  <1>7. CASE UNCHANGED vars
    <2>1. table' \in Tables /\ UNCHANGED <<now, cache, hook, used, raced>>
      BY <1>1, <1>7 DEF vars, cache, Typed
    <2> QED
      BY <2>1, TableStep
  <1> QED
    BY <1>2, <1>3, <1>4, <1>5, <1>6, <1>7 DEF Next

LEMMA Invariance == Spec => []IInv
  BY Starts, Steps, PTL DEF Spec

(* The entries of the list of route_cache.c are linked without a cycle,    *)
(* and the lifetimes that refreshEntries computes from a time of use are   *)
(* numbers, however the hook's insertions meet.                            *)
THEOREM TypeCorrect == Spec => []TypeOK
  <1>1. IInv => TypeOK
    <2> SUFFICES ASSUME IInv
                 PROVE  TypeOK
      OBVIOUS
    <2>1. Typed
      BY DEF IInv
    <2>2. \A i \in DOMAIN nodes : nodes[i].key \in Keys /\ nodes[i].next \in 0..i - 1
      BY <2>1, EntriesFacts DEF Typed, Linked
    <2>3. \A d \in Dests : table[d].valid \in BOOLEAN /\ table[d].life \in Nat
      <3>1. \A d \in Dests : table[d] \in [valid : BOOLEAN, life : Nat]
        BY <2>1 DEF Typed, Tables
      <3> QED
        BY <3>1
    <2>4. \A c \in Cpus : hook[c].pc \in {"idle", "find", "link", "publish"}
      <3>1. Idle.pc = "idle" /\ \A w \in Work : w.pc \in {"find", "link", "publish"}
        BY DEF Idle, Work
      <3> QED
        BY <2>1, <3>1, HookFacts
    <2> QED
      BY <2>1, <2>2, <2>3, <2>4 DEF TypeOK, Typed
  <1> QED
    BY Invariance, <1>1, PTL

(* What LastUseRecorded says of an address.                                *)
LEMMA Recorded ==
    ASSUME IInv, Quiet, NEW k \in Keys, k \notin raced
    PROVE  IF used[k] = -1 THEN Entries(k) = {}
           ELSE \E i \in DOMAIN nodes : Entries(k) = {i} /\ nodes[i].time = KernelTime(used[k])
  <1>1. Typed /\ Unused /\ Listed /\ Once /\ Noted
    BY DEF IInv
  <1>2. Entries(k) \in SUBSET DOMAIN nodes /\ \A i \in Entries(k) : nodes[i].key = k
    BY <1>1, EntriesFacts
  <1>3. CASE used[k] = -1
    BY <1>1, <1>2, <1>3 DEF Unused
  <1>4. CASE used[k] # -1
    <2>1. ~Pending(k)
      BY <1>1, HookFacts DEF Pending, Quiet
    <2>2. PICK i \in DOMAIN nodes : Notes(i, k)
      BY <1>1, <1>4, <2>1 DEF Noted
    <2>3. nodes[i].key = k /\ nodes[i].time = KernelTime(used[k])
      BY <2>2 DEF Notes
    <2>4. i \in Entries(k)
      BY <1>1, <2>3 DEF Listed, Entries
    <2>5. \A j \in Entries(k) : j = i
      BY <1>1, <1>2, <2>3 DEF Once
    <2> QED
      BY <1>4, <2>3, <2>4, <2>5
  <1> QED
    BY <1>3, <1>4

(* find_route_cache_entry and insert_route_cache_entry note the last use   *)
(* of every address once, on any number of CPUs without a lock, but for    *)
(* the addresses that simultaneous insertions have lost or doubled.        *)
THEOREM UseIsNoted == Spec => []LastUseRecorded
  <1>1. IInv => LastUseRecorded
    BY Recorded DEF LastUseRecorded
  <1> QED
    BY Invariance, <1>1, PTL

(* refreshEntries lets a route live for ACTIVE_ROUTE_TIMEOUT after a noted *)
(* use of it or of something behind it, and never for longer.              *)
THEOREM LivesByItsUse == Spec => LifeEndsWithUse
  <1> DEFINE Origin(d) ==
               \E k \in Keys : /\ k = <<d, 1>> \/ k[1] \in Behind(d)
                               /\ \/ k \in raced
                                  \/ table'[d].life = KernelTime(used[k]) + Active
             Step == RefreshEntries /\ Quiet =>
                        \A d \in Dests : table'[d].life > table[d].life => Origin(d)
  <1>1. IInv => Step
    <2> SUFFICES ASSUME IInv, RefreshEntries, Quiet, NEW d \in Dests,
                        table'[d].life > table[d].life
                 PROVE  Origin(d)
      OBVIOUS
    <2>1. Typed
      BY DEF IInv
    <2>2. Reasoned(table') /\ table' \in Tables
      BY <2>1, RefreshedFacts DEF RefreshEntries, Reasoned
    <2>3. table'[d].life # table[d].life
      <3>1. table[d] \in [valid : BOOLEAN, life : Nat]
        BY <2>1 DEF Typed, Tables
      <3> QED
        BY <3>1
    <2>4. PICK x \in Dests : /\ d \in {x, NextHop[x]} /\ IdleOf(x) < Active
                             /\ table'[d].life = now - IdleOf(x) + Active
      BY <2>2, <2>3 DEF Reasoned
    <2>5. PICK k \in Keys : /\ k = <<x, 1>> \/ \E f \in Behind(x) : k = <<f, 0>>
                            /\ Answered(k, IdleOf(x))
      BY <2>1, <2>4, IdleOfFacts
    <2>6. k = <<d, 1>> \/ k[1] \in Behind(d)
      <3>1. CASE k = <<x, 1>>
        BY <2>4, <3>1 DEF Behind
      <3>2. CASE k # <<x, 1>>
        <4>1. PICK f \in Behind(x) : k = <<f, 0>>
          BY <2>5, <3>2
        <4>2. f \in Dests /\ NextHop[f] = x /\ f # x
          BY <4>1 DEF Behind
        <4>3. NextHop[x] = x
          BY <4>2, IdleAssumption
        <4>4. d = x /\ k[1] = f
          BY <2>4, <4>1, <4>3
        <4> QED
          BY <4>1, <4>4
      <3> QED
        BY <3>1, <3>2
    <2>7. ASSUME k \notin raced
          PROVE  table'[d].life = KernelTime(used[k]) + Active
      <3>1. PICK i \in Entries(k) : IdleOf(x) = now - nodes[i].time
        BY <2>5 DEF Answered
      <3>2. nodes[i].time = KernelTime(used[k]) /\ i \in DOMAIN nodes
        BY <2>1, <2>7, <3>1, Recorded, EntriesFacts
      <3>3. now \in Nat /\ nodes[i].time \in Nat /\ Active \in Nat
        BY <2>1, <3>2, EntriesFacts, IdleAssumption DEF Typed
      <3> QED
        BY <2>4, <3>1, <3>2, <3>3
    <2> QED
      BY <2>6, <2>7
  <1> QED
    BY <1>1, Invariance, PTL DEF LifeEndsWithUse

(* refreshEntries ends a route that was used less than                     *)
(* ACTIVE_ROUTE_TIMEOUT ago for two reasons only: the noted time is still  *)
(* to come, by the milliseconds of getcurrtime in utils.c, or the route to *)
(* the next hop ends.                                                      *)
THEOREM EndsForTwoReasons == Spec => UsedRouteKept
  <1> DEFINE Kept(d, k) ==
               table[d].valid /\ ~table'[d].valid /\ Quiet /\ k \in Keys \ raced =>
                  \/ used[k] = -1 \/ now - used[k] >= Active
                  \/ KernelTime(used[k]) > now
                  \/ NextHop[d] # d /\ ~table'[NextHop[d]].valid
             Step == \A d \in Dests : Kept(d, <<d, 1>>)
  <1>1. IInv /\ [Next]_vars => [Step]_vars
    <2> SUFFICES ASSUME IInv, Next, NEW d \in Dests, NEW k, k = <<d, 1>>, k \in Keys \ raced,
                        table[d].valid, ~table'[d].valid, Quiet
                 PROVE  \/ used[k] = -1 \/ now - used[k] >= Active
                        \/ KernelTime(used[k]) > now
                        \/ NextHop[d] # d /\ ~table'[NextHop[d]].valid
      OBVIOUS
    <2>1. Typed
      BY DEF IInv
    <2>2. RefreshEntries
      <3>1. table' # table
        OBVIOUS
      <3>2. ~\E x \in Dests : Learn(x)
        BY <2>1, LearnTable
      <3> QED
        BY <3>1, <3>2 DEF Next, Hook, Find, Link, Publish, Receive, Tick
    <2>3. Reasoned(table')
      BY <2>1, <2>2, RefreshedFacts DEF RefreshEntries
    <2>4. IdleOf(d) >= Active \/ \E e \in Dests : d \in Behind(e) /\ ~table'[e].valid
      BY <2>3 DEF Reasoned
    <2>5. CASE \E e \in Dests : d \in Behind(e) /\ ~table'[e].valid
      BY <2>5 DEF Behind
    <2>6. CASE IdleOf(d) >= Active /\ used[k] # -1
      <3>1. PICK i \in DOMAIN nodes : Entries(k) = {i} /\ nodes[i].time = KernelTime(used[k])
        BY <2>6, Recorded
      <3>2. /\ used[k] \in Nat /\ KernelTime(used[k]) \in Nat /\ used[k] <= KernelTime(used[k])
        <4>1. used[k] \in Nat
          BY <2>1, <2>6 DEF Typed
        <4> QED
          BY <4>1, KernelTimeFacts
      <3>3. now \in Nat /\ Active \in Nat /\ IdleOf(d) \in Int
        BY <2>1, IdleAssumption, IdleOfFacts DEF Typed
      <3>4. Query(k) = now - KernelTime(used[k])
        <4>1. Min(Entries(k)) \in Entries(k) /\ Entries(k) # {}
          BY <2>1, <3>1, EntriesFacts
        <4>2. Min(Entries(k)) = i
          BY <3>1, <4>1
        <4> QED
          BY <3>1, <4>1, <4>2 DEF Query
      <3>5. Query(k) >= 0 => IdleOf(d) <= Query(k)
        BY <2>1, IdleOfFacts
      <3> HIDE DEF Query
      <3> QED
        BY <2>6, <3>2, <3>3, <3>4, <3>5
    <2> QED
      BY <2>4, <2>5, <2>6
  <1> QED
    BY <1>1, Invariance, PTL DEF Spec, UsedRouteKept
=============================================================================
