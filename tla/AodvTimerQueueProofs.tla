------------------------ MODULE AodvTimerQueueProofs ------------------------
(* Proofs about the timers of the AODV daemon, for any nodes, intervals    *)
(* and bounds.                                                             *)
EXTENDS AodvTimerQueue, ListLemmas, FiniteSetTheorems

-----------------------------------------------------------------------------
(* Timers and lists of them.                                               *)

TimerRecord ==
    {t \in [type : Types, data : Nodes \cup {NoNode}, timeout : -Lag..Off - 1] :
        t.type \in {"REBOOT", "PERIODIC", "HELLO"} => t.data = NoNode}

Lists == Seq(TimerRecord)
Kind(type, n) == {t \in TimerRecord : t.type = type /\ t.data = n}
NotDue == {t \in TimerRecord : t.timeout > 0}

LEMMA Intervals ==
    /\ Off = 1000 /\ Lag \in Nat
    /\ \A type \in Types : Delay[type] # {} /\ \A v \in Delay[type] : v \in 1..Off - 1
    /\ {"REBOOT", "PERIODIC", "HELLO", "RREQ", "LR", "ACTIVE_ROUTE"} = Types
  BY TimerAssumption DEF Off, Types

LEMMA IntervalFacts ==
    /\ \A v \in 1..Off - 1 : v \in Int /\ v > 0 /\ v \in -1..Off /\ v \in -Lag..Off - 1 /\ v # Off
    /\ \A x \in -Lag..Off - 1 : /\ x \in Int /\ x # Off
                               /\ x > 0 => x \in 1..Off - 1 /\ x \in 1..Off
    /\ -1 \in -1..Off /\ Off \in 1..Off /\ Off \in -1..Off /\ \A x \in 1..Off : x \in -1..Off
  <1>1. Off = 1000 /\ Lag \in Nat
    BY Intervals
  <1> QED
    BY <1>1

(* A new timer is not due.                                                 *)
LEMMA NewTimers ==
    ASSUME NEW type \in Types, NEW n \in Nodes \cup {NoNode}, NEW v \in Delay[type],
           type \in {"REBOOT", "PERIODIC", "HELLO"} => n = NoNode
    PROVE  /\ Timer(type, n, v) \in Kind(type, n) \cap NotDue
           /\ Timer(type, n, v).type = type /\ Timer(type, n, v).data = n
           /\ Timer(type, n, v).timeout = v
  <1>1. v \in 1..Off - 1 /\ v \in -Lag..Off - 1 /\ v > 0
    BY Intervals
  <1> QED
    BY <1>1 DEF Timer, Kind, NotDue, TimerRecord

LEMMA Timeouts ==
    \A t \in TimerRecord : t.timeout \in Int /\ t.timeout \in -Lag..Off - 1 /\ t.type \in Types
  BY Intervals DEF TimerRecord

LEMMA KindsApart ==
    ASSUME NEW type, NEW n, NEW t \in Kind(type, n)
    PROVE  t \in TimerRecord /\ t.type = type /\ t.data = n
  BY DEF Kind

(* A list into which a timer goes.                                         *)
LEMMA InsertFacts ==
    ASSUME NEW q \in Lists, NEW t \in TimerRecord
    PROVE  /\ Insert(q, t) \in Lists
           /\ Insert(q, t) # <<>>
           /\ ToSet(Insert(q, t)) = ToSet(q) \cup {t}
           /\ Sorted(q) => Sorted(Insert(q, t))
           /\ \A K : /\ Some(Insert(q, t), K) <=> Some(q, K) \/ t \in K
                     /\ Lone(q, K) /\ (t \in K => ~Some(q, K)) => Lone(Insert(q, t), K)
  <1> DEFINE r == Insert(q, t)
  <1>1. r = InOrder(q, t)
    BY DEF Insert, InOrder
  <1>2. \A x \in TimerRecord : x.timeout \in Int
    BY Timeouts
  <1>3. q \in Seq(TimerRecord)
    BY DEF Lists
  <1> HIDE DEF r
  <1>4. r \in Seq(TimerRecord) /\ \E i \in 1..Len(q) + 1 : Inserted(r, q, i, t)
    BY <1>1, <1>2, <1>3, InOrderFacts
  <1>5. PICK i \in 1..Len(q) + 1 : Inserted(r, q, i, t)
    BY <1>4
  <1>6. Sorted(q) => Sorted(r)
    BY <1>1, <1>2, <1>3, StaysSorted
  <1>7. /\ r # <<>> /\ ToSet(r) = ToSet(q) \cup {t}
        /\ \A K : /\ Some(r, K) <=> Some(q, K) \/ t \in K
                  /\ Lone(q, K) /\ (t \in K => ~Some(q, K)) => Lone(r, K)
    BY <1>3, <1>4, <1>5, InsertedElements
  <1> QED
    BY <1>4, <1>6, <1>7 DEF r, Lists

(* A list from which the first timer of some positions is taken.           *)
LEMMA FirstFacts ==
    ASSUME NEW S \in SUBSET Nat, S # {}
    PROVE  First(S) \in S /\ \A j \in S : First(S) <= j
  <1>1. \E i \in S : \A j \in S : i <= j
    BY Least
  <1> QED
    BY <1>1 DEF First

LEMMA DroppedFacts ==
    ASSUME NEW q \in Lists, NEW S \in SUBSET DOMAIN q
    PROVE  /\ Dropped(q, S) \in Lists
           /\ ToSet(Dropped(q, S)) \subseteq ToSet(q)
           /\ Sorted(q) => Sorted(Dropped(q, S))
           /\ \A K : /\ Lone(q, K) => Lone(Dropped(q, S), K)
                     /\ Some(Dropped(q, S), K) => Some(q, K)
                     /\ (\A i \in S : q[i] \notin K) /\ Some(q, K) => Some(Dropped(q, S), K)
                     /\ /\ Lone(q, K)
                        /\ S = {i \in DOMAIN q : q[i] \in K}
                        => ~Some(Dropped(q, S), K)
  <1>1. q \in Seq(TimerRecord) /\ DOMAIN q \in SUBSET Nat
    BY DEF Lists
  <1>2. CASE S = {}
    <2>1. Dropped(q, S) = q
      BY <1>2 DEF Dropped
    <2>2. \A K : S = {i \in DOMAIN q : q[i] \in K} => ~Some(q, K)
      BY <1>2 DEF Some
    <2> QED
      BY <2>1, <2>2
  <1>3. CASE S # {}
    <2> DEFINE k == First(S)
    <2>1. k \in S /\ k \in DOMAIN q
      BY <1>1, <1>3, FirstFacts
    <2>2. Dropped(q, S) = RemoveAt(q, k)
      BY <1>3 DEF Dropped
    <2> HIDE DEF k
    <2>3. RemoveAt(q, k) \in Seq(TimerRecord)
      BY <1>1, <2>1, RemoveAtFacts
    <2>4. /\ ToSet(RemoveAt(q, k)) \subseteq ToSet(q)
          /\ Sorted(q) => Sorted(RemoveAt(q, k))
          /\ \A K : /\ Some(RemoveAt(q, k), K) => Some(q, K)
                    /\ q[k] \notin K /\ Some(q, K) => Some(RemoveAt(q, k), K)
                    /\ Lone(q, K) => Lone(RemoveAt(q, k), K)
                    /\ Lone(q, K) /\ q[k] \in K => ~Some(RemoveAt(q, k), K)
      BY <1>1, <2>1, RemovedElements
    <2> QED
      BY <2>1, <2>2, <2>3, <2>4 DEF Lists
  <1> QED
    BY <1>2, <1>3

(* A list whose timers get other timeouts.                                 *)
LEMMA SameKinds ==
    ASSUME NEW q, NEW r, DOMAIN r = DOMAIN q, NEW K,
           \A i \in DOMAIN q : r[i] \in K <=> q[i] \in K
    PROVE  (Some(r, K) <=> Some(q, K)) /\ (Lone(r, K) <=> Lone(q, K))
  BY DEF Some, Lone

-----------------------------------------------------------------------------
(* A run of the signal handler.                                            *)

(* The timers that are due are the first ones.                             *)
LEMMA DueFacts ==
    ASSUME timerQ \in Lists
    PROVE  /\ Cardinality(DueTimers) \in 0..Len(timerQ)
           /\ DueTimers = 1..Cardinality(DueTimers)
           /\ Sorted(timerQ) => \A i \in DOMAIN timerQ \ DueTimers : timerQ[i] \in NotDue
  <1> DEFINE m == Len(timerQ)
             R == {k \in 1..m + 1 : k = m + 1 \/ timerQ[k].timeout > 0}
  <1>1. m \in Nat /\ DOMAIN timerQ = 1..m /\ \A k \in 1..m : timerQ[k] \in TimerRecord
    BY DEF Lists
  <1>2. \A k \in 1..m : timerQ[k].timeout \in Int
    BY <1>1, Timeouts
  <1> HIDE DEF m
  <1>3. PICK x \in R : \A y \in R : x <= y
    <2>1. R \in SUBSET Nat /\ m + 1 \in R
      BY <1>1
    <2> HIDE DEF R
    <2> QED
      BY <2>1, Least
  <1>4. x \in 1..m + 1 /\ (x = m + 1 \/ timerQ[x].timeout > 0)
    OBVIOUS
  <1>5. \A k \in 1..m : k < x => timerQ[k].timeout <= 0
    BY <1>1, <1>2, <1>3, <1>4
  <1> HIDE DEF R
  <1>6. ASSUME NEW k \in 1..m
        PROVE  k \in DueTimers <=> k \in 1..x - 1
    <2>1. CASE k < x
      <3>1. \A j \in 1..k : j \in 1..m /\ j < x
        BY <1>1, <1>4, <2>1
      <3> QED
        BY <1>1, <1>4, <1>5, <2>1, <3>1 DEF DueTimers
    <2>2. CASE k >= x
      <3>1. x \in 1..m /\ x \in 1..k /\ timerQ[x].timeout > 0
        BY <1>1, <1>4, <2>2
      <3>2. ~(timerQ[x].timeout <= 0)
        BY <1>2, <3>1
      <3> QED
        BY <1>1, <1>4, <2>2, <3>1, <3>2 DEF DueTimers
    <2> QED
      BY <1>1, <1>4, <2>1, <2>2
  <1>7. DueTimers = 1..x - 1
    <2>1. \A k \in DueTimers : k \in 1..m
      BY <1>1 DEF DueTimers
    <2>2. \A k \in 1..x - 1 : k \in 1..m
      BY <1>1, <1>4
    <2> QED
      BY <1>6, <2>1, <2>2
  <1>8. Cardinality(1..x - 1) = x - 1
    <2>1. 1 \in Int /\ x - 1 \in Int
      BY <1>1, <1>4
    <2>2. Cardinality(1..x - 1) = IF 1 > x - 1 THEN 0 ELSE (x - 1) - 1 + 1
      BY <2>1, FS_Interval
    <2> QED
      BY <1>1, <1>4, <2>2
  <1>9. ASSUME Sorted(timerQ), NEW i \in 1..m, i \notin 1..x - 1
        PROVE  timerQ[i] \in NotDue
    <2>1. x \in 1..m /\ timerQ[x].timeout > 0 /\ (x < i \/ x = i)
      BY <1>1, <1>4, <1>9
    <2>2. timerQ[x].timeout <= timerQ[i].timeout
      BY <1>1, <1>2, <1>9, <2>1 DEF Sorted
    <2>3. timerQ[i].timeout > 0
      BY <1>2, <2>1, <2>2
    <2> QED
      BY <1>1, <2>3 DEF NotDue
  <1> QED
    BY <1>1, <1>4, <1>7, <1>8, <1>9 DEF m

(* The timers behind them.                                                 *)
Rest == SubSeq(timerQ, Cardinality(DueTimers) + 1, Len(timerQ))

LEMMA RestFacts ==
    ASSUME timerQ \in Lists
    PROVE  /\ Rest \in Lists /\ ToSet(Rest) \subseteq ToSet(timerQ)
           /\ Sorted(timerQ) => Sorted(Rest) /\ ToSet(Rest) \subseteq NotDue
           /\ \A K : /\ Some(Rest, K) => Some(timerQ, K)
                     /\ Some(timerQ, K) => Some(Rest, K) \/ \E k \in DueTimers : timerQ[k] \in K
                     /\ Lone(timerQ, K) =>
                           Lone(Rest, K) /\ \A k \in DueTimers : timerQ[k] \in K => ~Some(Rest, K)
  <1> DEFINE m == Len(timerQ)
             c == Cardinality(DueTimers)
             r == Rest
  <1>1. m \in Nat /\ DOMAIN timerQ = 1..m /\ timerQ \in Seq(TimerRecord)
    BY DEF Lists
  <1>2. c \in 0..m /\ DueTimers = 1..c
    BY DueFacts
  <1>3. /\ r \in Seq(TimerRecord) /\ Len(r) = m - c
        /\ \A j \in 1..m - c : r[j] = timerQ[c + j]
    BY <1>1, <1>2, BehindFacts DEF Rest
  <1>4. Sorted(timerQ) => \A i \in 1..m : i \notin 1..c => timerQ[i] \in NotDue
    BY <1>1, <1>2, DueFacts
  <1>5. DOMAIN r = 1..m - c
    BY <1>3
  <1> HIDE DEF m, c, r
  <1>6. \A j \in 1..m - c : c + j \in 1..m /\ c + j \notin 1..c /\ r[j] = timerQ[c + j]
    BY <1>1, <1>2, <1>3
  <1>7. \A k \in 1..m : k \notin 1..c => k - c \in 1..m - c /\ timerQ[k] = r[k - c]
    BY <1>1, <1>2, <1>3
  <1>8. \A i, j \in 1..m - c : (i < j => c + i < c + j) /\ (c + i = c + j => i = j)
    BY <1>1, <1>2
  <1>9. ToSet(r) \subseteq ToSet(timerQ)
    BY <1>1, <1>5, <1>6 DEF ToSet
  <1>10. Sorted(timerQ) => Sorted(r) /\ ToSet(r) \subseteq NotDue
    <2>1. Sorted(timerQ) => Sorted(r)
      BY <1>1, <1>5, <1>6, <1>8 DEF Sorted
    <2>2. Sorted(timerQ) => ToSet(r) \subseteq NotDue
      BY <1>4, <1>5, <1>6 DEF ToSet
    <2> QED
      BY <2>1, <2>2
  <1>11. ASSUME NEW K
         PROVE  /\ Some(r, K) => Some(timerQ, K)
                /\ Some(timerQ, K) => Some(r, K) \/ \E k \in 1..c : timerQ[k] \in K
                /\ Lone(timerQ, K) =>
                      Lone(r, K) /\ \A k \in 1..c : timerQ[k] \in K => ~Some(r, K)
    <2>1. Some(r, K) => Some(timerQ, K)
      BY <1>1, <1>5, <1>6 DEF Some
    <2>2. Some(timerQ, K) => Some(r, K) \/ \E k \in 1..c : timerQ[k] \in K
      BY <1>1, <1>5, <1>7 DEF Some
    <2>3. Lone(timerQ, K) => Lone(r, K)
      BY <1>1, <1>5, <1>6, <1>8 DEF Lone
    <2>4. ASSUME Lone(timerQ, K), NEW k \in 1..c, timerQ[k] \in K
          PROVE  ~Some(r, K)
      <3>1. k \in 1..m
        BY <1>1, <1>2
      <3> QED
        BY <1>1, <1>5, <1>6, <2>4, <3>1 DEF Some, Lone
    <2> QED
      BY <2>1, <2>2, <2>3, <2>4
  <1> QED
    BY <1>2, <1>3, <1>9, <1>10, <1>11 DEF r, c, Lists

(* What a handler adds.                                                    *)
LEMMA AgainFacts ==
    ASSUME NEW t \in TimerRecord, NEW a \in Again(t)
    PROVE  /\ a # <<>> => a[1] \in NotDue
           /\ t.type \in {"REBOOT", "HELLO"} => a # <<>> /\ a[1] \in Kind("HELLO", NoNode)
           /\ t.type = "PERIODIC" => a # <<>> /\ a[1] \in Kind("PERIODIC", NoNode)
                                     /\ a[1].timeout \in Delay["PERIODIC"]
           /\ a # <<>> => \/ t.type \in {"REBOOT", "HELLO", "PERIODIC"}
                          \/ a[1].type = "RREQ"
  <1>1. ASSUME NEW type \in {"HELLO", "PERIODIC"}, a \in Renewed(type, NoNode)
        PROVE  a # <<>> /\ a[1] \in NotDue /\ a[1] \in Kind(type, NoNode)
               /\ a[1].timeout \in Delay[type]
    <2>1. PICK v \in Delay[type] : a = <<Timer(type, NoNode, v)>>
      BY <1>1 DEF Renewed
    <2>2. a # <<>> /\ a[1] = Timer(type, NoNode, v)
      BY <2>1
    <2>3. type \in Types /\ NoNode \in Nodes \cup {NoNode}
      BY Intervals
    <2>4. /\ Timer(type, NoNode, v) \in Kind(type, NoNode) \cap NotDue
          /\ Timer(type, NoNode, v).timeout = v
      BY <2>3, NewTimers
    <2> QED
      BY <2>2, <2>4
  <1>2. CASE t.type \in {"REBOOT", "HELLO"}
    <2>1. a \in Renewed("HELLO", NoNode)
      BY <1>2 DEF Again
    <2> QED
      BY <1>1, <1>2, <2>1
  <1>3. CASE t.type = "PERIODIC"
    <2>1. a \in Renewed("PERIODIC", NoNode)
      BY <1>3 DEF Again
    <2> QED
      BY <1>1, <1>3, <2>1
  <1>4. CASE t.type = "RREQ"
    <2>1. a = <<>> \/ \E v \in Delay["RREQ"] : a = <<Timer("RREQ", t.data, v)>>
      BY <1>4 DEF Again, Renewed
    <2>2. t.data \in Nodes \cup {NoNode}
      BY DEF TimerRecord
    <2>3. ASSUME NEW v \in Delay["RREQ"], a = <<Timer("RREQ", t.data, v)>>
          PROVE  a[1] \in NotDue /\ a[1].type = "RREQ"
      <3>1. a[1] = Timer("RREQ", t.data, v)
        BY <2>3
      <3> QED
        BY <2>2, <3>1, NewTimers, Intervals
    <2> QED
      BY <1>4, <2>1, <2>3
  <1>5. CASE t.type \notin {"REBOOT", "HELLO", "PERIODIC", "RREQ"}
    <2>1. a = <<>>
      BY <1>5 DEF Again
    <2> QED
      BY <1>5, <2>1
  <1> QED
    BY <1>2, <1>3, <1>4, <1>5

(* The list after the first k handlers.                                    *)
Adds(again, k, K) == again[k] # <<>> /\ again[k][1] \in K

Serves(q, again, k) ==
    /\ q \in Lists
    /\ Sorted(Rest) => Sorted(q)
    /\ \A t \in ToSet(q) : t \in ToSet(Rest) \/ \E j \in 1..k : Adds(again, j, {t})
    /\ \A K : /\ Some(q, K) <=> Some(Rest, K) \/ \E j \in 1..k : Adds(again, j, K)
              /\ /\ Lone(Rest, K)
                 /\ \A i, j \in 1..k : Adds(again, i, K) /\ Adds(again, j, K) => i = j
                 /\ \A j \in 1..k : Adds(again, j, K) => ~Some(Rest, K)
                 => Lone(q, K)

LEMMA HandledSteps ==
    ASSUME timerQ \in Lists, NEW again, \A i \in DueTimers : again[i] \in Again(timerQ[i])
    PROVE  \A k \in 0..Cardinality(DueTimers) :
              Handled(again)[k] = IF k = 0 THEN Rest
                                  ELSE IF again[k] = <<>> THEN Handled(again)[k - 1]
                                  ELSE Insert(Handled(again)[k - 1], again[k][1])
  <1> DEFINE n == Cardinality(DueTimers)
             next(k, q) == IF again[k] = <<>> THEN q ELSE Insert(q, again[k][1])
             rec(f) == f = [k \in 0..n |->
                              IF k = 0 THEN SubSeq(timerQ, n + 1, Len(timerQ))
                              ELSE IF again[k] = <<>> THEN f[k - 1]
                              ELSE Insert(f[k - 1], again[k][1])]
             step == [k \in 1..n |-> [q \in Lists |-> next(k, q)]]
             s == Handled(again)
  <1>1. n \in Nat /\ DueTimers = 1..n /\ n \in 0..Len(timerQ)
    <2>1. Len(timerQ) \in Nat
      BY DEF Lists
    <2> QED
      BY <2>1, DueFacts
  <1>2. Rest \in Lists /\ Rest = SubSeq(timerQ, n + 1, Len(timerQ))
    BY RestFacts DEF Rest
  <1>3. \A k \in 1..n : \A q \in Lists : next(k, q) \in Lists
    <2> SUFFICES ASSUME NEW k \in 1..n, NEW q \in Lists, again[k] # <<>>
                 PROVE  Insert(q, again[k][1]) \in Lists
      OBVIOUS
    <2>1. timerQ[k] \in TimerRecord /\ again[k] \in Again(timerQ[k])
      <3>1. k \in DOMAIN timerQ
        BY <1>1 DEF DueTimers
      <3> QED
        BY <1>1, <3>1 DEF Lists
    <2>2. again[k][1] \in TimerRecord
      BY <2>1, AgainFacts DEF NotDue
    <2> QED
      BY <2>2, InsertFacts
  <1> HIDE DEF n
  <1>4. step \in [1..n -> [Lists -> Lists]]
    BY <1>3
  <1>5. PICK g : Computes(g, n, Lists, Rest, step)
    <2> HIDE DEF step
    <2> QED
      BY <1>1, <1>2, <1>4, Recursion
  <1>6. rec(g)
    <2>1. \A k \in 0..n : g[k] = IF k = 0 THEN Rest ELSE next(k, g[k - 1])
      <3> TAKE k \in 0..n
      <3>1. CASE k = 0
        BY <1>5, <3>1 DEF Computes
      <3>2. CASE k # 0
        <4>1. k \in 1..n /\ k - 1 \in 0..n
          BY <1>1, <3>2
        <4>2. g[k - 1] \in Lists /\ g[k] = step[k][g[k - 1]]
          BY <1>5, <4>1 DEF Computes
        <4> QED
          BY <3>2, <4>1, <4>2
      <3> QED
        BY <3>1, <3>2
    <2>2. g = [k \in 0..n |-> g[k]]
      BY <1>5 DEF Computes
    <2> QED
      BY <1>2, <2>1, <2>2
  <1>7. rec(s)
    <2>1. s = CHOOSE f : rec(f)
      BY DEF Handled, n
    <2> HIDE DEF rec, s
    <2> QED
      BY <1>6, <2>1
  <1> HIDE DEF s
  <1>8. \A k \in 0..n : s[k] = IF k = 0 THEN Rest
                               ELSE IF again[k] = <<>> THEN s[k - 1]
                               ELSE Insert(s[k - 1], again[k][1])
    BY <1>2, <1>7
  <1> QED
    BY <1>8 DEF n, s

LEMMA HandledFacts ==
    ASSUME timerQ \in Lists, NEW again, \A i \in DueTimers : again[i] \in Again(timerQ[i])
    PROVE  Serves(Handled(again)[Cardinality(DueTimers)], again, Cardinality(DueTimers))
  <1> DEFINE n == Cardinality(DueTimers)
             s == Handled(again)
             R == {k \in 0..n : Serves(s[k], again, k)}
  <1>1. n \in Nat /\ DueTimers = 1..n
    <2>1. Len(timerQ) \in Nat
      BY DEF Lists
    <2> QED
      BY <2>1, DueFacts
  <1>2. \A k \in 0..n : s[k] = IF k = 0 THEN Rest
                               ELSE IF again[k] = <<>> THEN s[k - 1]
                               ELSE Insert(s[k - 1], again[k][1])
    BY HandledSteps
  <1>3. \A k \in 1..n : again[k] # <<>> => again[k][1] \in TimerRecord
    <2> TAKE k \in 1..n
    <2>1. k \in DOMAIN timerQ
      BY <1>1 DEF DueTimers
    <2>2. timerQ[k] \in TimerRecord /\ again[k] \in Again(timerQ[k])
      BY <1>1, <2>1 DEF Lists
    <2> QED
      BY <2>2, AgainFacts DEF NotDue
  <1>4. Rest \in Lists
    BY RestFacts
  <1> HIDE DEF n, s
  <1>5. 0 \in R
    <2>1. s[0] = Rest
      BY <1>1, <1>2
    <2> QED
      BY <1>1, <1>4, <2>1 DEF Serves
  <1>6. ASSUME NEW k \in 1..n, k - 1 \in R
        PROVE  k \in R
    <2>1. Serves(s[k - 1], again, k - 1) /\ k \in 0..n
      BY <1>1, <1>6
    <2>2. \A j : j \in 1..k <=> j = k \/ j \in 1..k - 1
      BY <1>1
    <2>3. CASE again[k] = <<>>
      <3>1. s[k] = s[k - 1]
        BY <1>1, <1>2, <2>3
      <3>2. \A K : ~Adds(again, k, K)
        BY <2>3 DEF Adds
      <3>3. Serves(s[k - 1], again, k)
        BY <2>1, <2>2, <3>2 DEF Serves
      <3> QED
        BY <2>1, <3>1, <3>3
    <2>4. CASE again[k] # <<>>
      <3> DEFINE q == s[k - 1]
                 t == again[k][1]
      <3>1. s[k] = Insert(q, t)
        BY <1>1, <1>2, <2>4
      <3>2. t \in TimerRecord /\ q \in Lists
        BY <1>3, <2>1, <2>4 DEF Serves
      <3>3. \A K : Adds(again, k, K) <=> t \in K
        BY <2>4 DEF Adds
      <3> HIDE DEF q, t
      <3>4. /\ Insert(q, t) \in Lists
            /\ Sorted(q) => Sorted(Insert(q, t))
            /\ ToSet(Insert(q, t)) = ToSet(q) \cup {t}
            /\ \A K : /\ Some(Insert(q, t), K) <=> Some(q, K) \/ t \in K
                      /\ Lone(q, K) /\ (t \in K => ~Some(q, K)) => Lone(Insert(q, t), K)
        BY <3>2, InsertFacts
      <3>5. Sorted(Rest) => Sorted(Insert(q, t))
        BY <2>1, <3>4 DEF Serves, q
      <3>6. \A x \in ToSet(Insert(q, t)) : x \in ToSet(Rest) \/ \E j \in 1..k : Adds(again, j, {x})
        BY <2>1, <2>2, <3>3, <3>4 DEF Serves, q
      <3>7. ASSUME NEW K
            PROVE  /\ Some(Insert(q, t), K) <=> Some(Rest, K) \/ \E j \in 1..k : Adds(again, j, K)
                   /\ /\ Lone(Rest, K)
                      /\ \A i, j \in 1..k : Adds(again, i, K) /\ Adds(again, j, K) => i = j
                      /\ \A j \in 1..k : Adds(again, j, K) => ~Some(Rest, K)
                      => Lone(Insert(q, t), K)
        <4>1. Some(q, K) <=> Some(Rest, K) \/ \E j \in 1..k - 1 : Adds(again, j, K)
          BY <2>1 DEF Serves, q
        <4>2. Some(Insert(q, t), K) <=> Some(Rest, K) \/ \E j \in 1..k : Adds(again, j, K)
          BY <2>2, <3>3, <3>4, <4>1
        <4>3. ASSUME Lone(Rest, K),
                     \A i, j \in 1..k : Adds(again, i, K) /\ Adds(again, j, K) => i = j,
                     \A j \in 1..k : Adds(again, j, K) => ~Some(Rest, K)
              PROVE  Lone(Insert(q, t), K)
          <5>1. Lone(q, K)
            BY <2>1, <2>2, <4>3 DEF Serves, q
          <5>2. ASSUME t \in K
                PROVE  ~Some(q, K)
            <6>1. Adds(again, k, K) /\ k \in 1..k /\ k \notin 1..k - 1
              BY <1>1, <3>3, <5>2
            <6> QED
              BY <2>2, <4>1, <4>3, <6>1
          <5> QED
            BY <3>4, <5>1, <5>2
        <4> QED
          BY <4>2, <4>3
      <3>8. Serves(Insert(q, t), again, k)
        BY <3>4, <3>5, <3>6, <3>7 DEF Serves
      <3> QED
        BY <2>1, <3>1, <3>8
    <2> QED
      BY <2>3, <2>4
  <1>7. n \in R
    <2> HIDE DEF R
    <2>1. \A k \in 0..n : k \in R
      BY <1>1, <1>5, <1>6, Upward
    <2> QED
      BY <1>1, <2>1
  <1> QED
    BY <1>7 DEF n, s

-----------------------------------------------------------------------------
(* The invariant.                                                          *)

Periodic == Kind("PERIODIC", NoNode)
Hello == Kind("HELLO", NoNode)
Reboot == Kind("REBOOT", NoNode)
Active(n) == Kind("ACTIVE_ROUTE", n)

Typed ==
    /\ timerQ \in Lists
    /\ alarm \in -1..Off
    /\ timeVal \in 0..Off - 1
    /\ duringReboot \in BOOLEAN
    /\ resets \in 0..MaxResets

(* One timer of the two that lead to the next hello.                       *)
Complete(q, reboot) ==
    /\ Some(q, Periodic) /\ Lone(q, Periodic)
    /\ Some(q, Reboot \cup Hello) /\ Lone(q, Reboot \cup Hello)
    /\ ~Some(q, IF reboot THEN Hello ELSE Reboot)
    /\ \A n \in Nodes : Lone(q, Active(n))

(* No timer was set more than a period before the periodic one.            *)
InTime(S) ==
    /\ \A t \in S : t.type = "REBOOT" => \A v \in Delay["REBOOT"] : t.timeout <= v
    /\ \A p \in S : p.type = "PERIODIC" =>
          /\ p.timeout <= Period
          /\ \A t \in S : t.timeout >= p.timeout - Period + 1

Covers(a, S) == \A p \in S : p.type = "PERIODIC" => a <= p.timeout

Early(S) == \A t \in S : t.type \in {"REBOOT", "PERIODIC"}

(* Only a reset of the reboot timer leaves the list unsorted, and it stops *)
(* the real timer.                                                         *)
Punctual(q, a, val, reboot) ==
    /\ Sorted(q) \/ (reboot /\ a = Off /\ val = 0)
    /\ InTime(ToSet(q))
    /\ reboot => Early(ToSet(q))
    /\ ~reboot /\ a # Off => Covers(a, ToSet(q))

IInv ==
    /\ Typed
    /\ Complete(timerQ, duringReboot)
    /\ Punctual(timerQ, alarm, timeVal, duringReboot)

LEMMA PeriodFacts ==
    Period \in 1..Off - 1 /\ \A v \in Delay["PERIODIC"] : v <= Period
  <1> DEFINE T == {d \in 0..Off : Off - d \in Delay["PERIODIC"]}
  <1>1. Off = 1000 /\ Delay["PERIODIC"] # {} /\ \A v \in Delay["PERIODIC"] : v \in 1..Off - 1
    <2>1. "PERIODIC" \in Types
      BY DEF Types
    <2>2. Delay["PERIODIC"] # {} /\ \A v \in Delay["PERIODIC"] : v \in 1..Off - 1
      BY <2>1, Intervals
    <2> QED
      BY <2>2, Intervals
  <1>2. T \in SUBSET Nat /\ T # {}
    <2>1. PICK v \in Delay["PERIODIC"] : v \in 1..Off - 1
      BY <1>1
    <2>2. Off - v \in 0..Off /\ Off - (Off - v) = v
      BY <1>1, <2>1
    <2>3. Off - v \in T
      BY <2>2
    <2> QED
      BY <1>1, <2>3
  <1>3. PICK d \in T : \A e \in T : d <= e
    <2> HIDE DEF T
    <2> QED
      BY <1>2, Least
  <1>4. Off - d \in Delay["PERIODIC"] /\ d \in 0..Off
    OBVIOUS
  <1>5. ASSUME NEW w \in Delay["PERIODIC"]
        PROVE  w <= Off - d
    <2>1. w \in 1..Off - 1
      BY <1>1
    <2>2. Off - w \in 0..Off /\ Off - (Off - w) = w
      BY <1>1, <2>1
    <2>3. Off - w \in T
      BY <2>2
    <2>4. d <= Off - w
      BY <1>3, <2>3
    <2> QED
      BY <1>1, <1>4, <2>1, <2>4
  <1>6. \E v \in Delay["PERIODIC"] : \A w \in Delay["PERIODIC"] : w <= v
    BY <1>4, <1>5
  <1>7. Period \in Delay["PERIODIC"] /\ \A w \in Delay["PERIODIC"] : w <= Period
    BY <1>6 DEF Period
  <1> QED
    BY <1>1, <1>7

(* In a list of timers, the positions are the elements.                    *)
LEMMA Elements ==
    ASSUME NEW q \in Lists
    PROVE  /\ ToSet(q) \subseteq TimerRecord
           /\ \A t : t \in ToSet(q) <=> \E i \in DOMAIN q : q[i] = t
           /\ \A i \in DOMAIN q : q[i] \in ToSet(q) /\ q[i] \in TimerRecord
           /\ Len(q) \in Nat /\ DOMAIN q = 1..Len(q)
  BY DEF Lists, ToSet

LEMMA FewerInTime ==
    ASSUME NEW S, NEW T \in SUBSET S
    PROVE  /\ InTime(S) => InTime(T)
           /\ Early(S) => Early(T)
           /\ \A a : Covers(a, S) => Covers(a, T)
  BY DEF InTime, Early, Covers

LEMMA NewInTime ==
    ASSUME NEW S \in SUBSET TimerRecord, InTime(S),
           NEW t \in NotDue, t.type \in {"RREQ", "LR", "ACTIVE_ROUTE"}
    PROVE  /\ InTime(S \cup {t})
           /\ \A a : Covers(a, S) => Covers(a, S \cup {t})
  <1>1. t.timeout > 0 /\ t.timeout \in Int /\ t.type # "PERIODIC" /\ t.type # "REBOOT"
    BY Timeouts DEF NotDue
  <1>2. \A p \in S : p.timeout \in Int
    BY Timeouts
  <1>3. Period \in 1..Off - 1 /\ Off = 1000
    BY PeriodFacts, Intervals
  <1>4. \A p \in S : p.type = "PERIODIC" => t.timeout >= p.timeout - Period + 1
    <2> TAKE p \in S
    <2> HAVE p.type = "PERIODIC"
    <2>1. p.timeout <= Period /\ p.timeout \in Int
      BY <1>2 DEF InTime
    <2> QED
      BY <1>1, <1>3, <2>1
  <1> QED
    BY <1>1, <1>4 DEF InTime, Covers

(* A timer of a search or of a neighbour comes in.                         *)
LEMMA NewComplete ==
    ASSUME NEW q \in Lists, NEW reboot \in BOOLEAN, Complete(q, reboot), NEW t \in TimerRecord,
           \/ t.type \in {"RREQ", "LR"}
           \/ t.type = "ACTIVE_ROUTE" /\ ~Some(q, Active(t.data))
    PROVE  Complete(Insert(q, t), reboot)
  <1>1. \A K : /\ Some(Insert(q, t), K) <=> Some(q, K) \/ t \in K
               /\ Lone(q, K) /\ (t \in K => ~Some(q, K)) => Lone(Insert(q, t), K)
    BY InsertFacts
  <1>2. t \notin Periodic /\ t \notin Reboot /\ t \notin Hello /\ t \notin Reboot \cup Hello
    BY DEF Periodic, Reboot, Hello, Kind
  <1>3. \A n \in Nodes : t \in Active(n) => ~Some(q, Active(n))
    BY DEF Active, Kind
  <1>4. ~Some(q, IF reboot THEN Hello ELSE Reboot)
    BY DEF Complete
  <1>5. ~Some(Insert(q, t), IF reboot THEN Hello ELSE Reboot)
    BY <1>1, <1>2, <1>4
  <1>6. \A n \in Nodes : Lone(Insert(q, t), Active(n))
    BY <1>1, <1>3 DEF Complete
  <1> QED
    BY <1>1, <1>2, <1>5, <1>6 DEF Complete

(* One goes out.                                                           *)
LEMMA LessComplete ==
    ASSUME NEW q \in Lists, NEW reboot \in BOOLEAN, Complete(q, reboot), NEW S \in SUBSET DOMAIN q,
           \A i \in S : q[i].type \in {"RREQ", "LR", "ACTIVE_ROUTE"}
    PROVE  Complete(Dropped(q, S), reboot)
  <1>1. \A K : /\ Lone(q, K) => Lone(Dropped(q, S), K)
               /\ Some(Dropped(q, S), K) => Some(q, K)
               /\ (\A i \in S : q[i] \notin K) /\ Some(q, K) => Some(Dropped(q, S), K)
    BY DroppedFacts
  <1>2. \A i \in S : q[i] \notin Periodic /\ q[i] \notin Reboot \cup Hello
    BY DEF Periodic, Reboot, Hello, Kind
  <1> QED
    BY <1>1, <1>2 DEF Complete

-----------------------------------------------------------------------------
(* The steps.                                                              *)

LEMMA Starts == Init => IInv
  <1> SUFFICES ASSUME Init
               PROVE  IInv
    OBVIOUS
  <1>1. PICK v \in Delay["PERIODIC"], r \in Delay["REBOOT"] :
           /\ timerQ = Insert(<<Timer("REBOOT", NoNode, r)>>, Timer("PERIODIC", NoNode, v))
           /\ alarm = r /\ timeVal = v /\ duringReboot = TRUE /\ resets = 0
    BY DEF Init
  <1> DEFINE b == Timer("REBOOT", NoNode, r)
             p == Timer("PERIODIC", NoNode, v)
             q == <<b>>
  <1>2. /\ b \in Reboot \cap NotDue /\ b.type = "REBOOT" /\ b.timeout = r
        /\ p \in Periodic \cap NotDue /\ p.type = "PERIODIC" /\ p.timeout = v
    <2>1. "REBOOT" \in Types /\ "PERIODIC" \in Types /\ NoNode \in Nodes \cup {NoNode}
      BY Intervals
    <2> QED
      BY <2>1, NewTimers DEF Reboot, Periodic
  <1>3. b \in TimerRecord /\ p \in TimerRecord /\ b.timeout > 0 /\ p.timeout > 0
    BY <1>2 DEF NotDue
  <1>4. /\ r \in 1..Off - 1 /\ v \in 1..Off - 1 /\ Off = 1000
        /\ v <= Period /\ Period \in 1..Off - 1
        /\ \A w \in Delay["REBOOT"] : r <= w
    <2>1. \A w \in Delay["REBOOT"] : w = r
      BY TimerAssumption
    <2> QED
      BY <2>1, Intervals, PeriodFacts DEF Types
  <1> HIDE DEF b, p
  <1>5. /\ q \in Lists /\ ToSet(q) = {b} /\ Sorted(q)
        /\ \A K : (Some(q, K) <=> b \in K) /\ Lone(q, K)
    <2>1. q \in Lists /\ DOMAIN q = {1} /\ q[1] = b
      BY <1>3 DEF Lists
    <2> HIDE DEF q
    <2> QED
      BY <2>1 DEF ToSet, Sorted, Some, Lone
  <1>6. timerQ = Insert(q, p)
    BY <1>1 DEF b, p
  <1> HIDE DEF q
  <1>7. /\ timerQ \in Lists /\ ToSet(timerQ) = {b, p} /\ Sorted(timerQ)
        /\ \A K : /\ Some(timerQ, K) <=> b \in K \/ p \in K
                  /\ (p \in K => b \notin K) => Lone(timerQ, K)
    BY <1>3, <1>5, <1>6, InsertFacts
  <1>8. Typed
    <2>1. 0 \in 0..MaxResets
      BY TimerAssumption
    <2> QED
      BY <1>1, <1>4, <1>7, <2>1 DEF Typed
  <1>9. Complete(timerQ, duringReboot)
    <2>1. /\ p \in Periodic /\ b \notin Periodic
          /\ b \in Reboot \cup Hello /\ p \notin Reboot \cup Hello
          /\ b \notin Hello /\ p \notin Hello
          /\ \A n \in Nodes : p \notin Active(n)
      BY <1>2 DEF Periodic, Reboot, Hello, Active, Kind
    <2>2. ~Some(timerQ, IF duringReboot THEN Hello ELSE Reboot)
      BY <1>1, <1>7, <2>1
    <2> QED
      BY <1>7, <2>1, <2>2 DEF Complete
  <1>10. InTime(ToSet(timerQ)) /\ Early(ToSet(timerQ))
    <2>1. InTime({b, p})
      BY <1>2, <1>4 DEF InTime
    <2>2. Early({b, p})
      BY <1>2 DEF Early
    <2> QED
      BY <1>7, <2>1, <2>2
  <1> QED
    BY <1>1, <1>7, <1>8, <1>9, <1>10 DEF IInv, Punctual

LEMMA SetLowestTimerStep ==
    ASSUME IInv, SetLowestTimer
    PROVE  IInv'
  <1>1. /\ timerQ' = timerQ /\ duringReboot' = duringReboot /\ resets' = resets
        /\ timeVal' = 0 /\ timeVal # 0
        /\ alarm' = IF timerQ[1].timeout = timeVal THEN timeVal ELSE alarm
    BY DEF SetLowestTimer
  <1>2. Typed /\ Sorted(timerQ) /\ timerQ \in Lists
    BY <1>1 DEF IInv, Punctual, Typed
  <1>3. Typed'
    BY <1>1, <1>2, Intervals DEF Typed
  <1>4. ASSUME timerQ[1].timeout = timeVal
        PROVE  Covers(timeVal, ToSet(timerQ))
    <2> SUFFICES ASSUME NEW i \in DOMAIN timerQ
                 PROVE  timerQ[1].timeout <= timerQ[i].timeout
      BY <1>2, <1>4, Elements DEF Covers
    <2>1. i \in 1..Len(timerQ) /\ 1 \in 1..Len(timerQ) /\ DOMAIN timerQ = 1..Len(timerQ)
      BY <1>2, Elements
    <2>2. i = 1 \/ 1 < i
      BY <2>1
    <2>3. timerQ[1].timeout \in Int
      BY <1>2, <2>1, Elements, Timeouts
    <2> QED
      BY <1>2, <2>1, <2>2, <2>3 DEF Sorted
  <1>5. Punctual(timerQ, alarm', 0, duringReboot)
    BY <1>1, <1>2, <1>4 DEF IInv, Punctual
  <1> QED
    BY <1>1, <1>3, <1>5 DEF IInv

(* Outside of the reboot phase the list is sorted, and a timer of a search *)
(* can be removed: the real timer goes to the next one.                    *)
LEMMA WithoutFacts ==
    ASSUME IInv, ~duringReboot, NEW n \in Nodes
    PROVE  /\ Without(n) \in Lists /\ Sorted(Without(n))
           /\ Complete(Without(n), FALSE)
           /\ InTime(ToSet(Without(n)))
           /\ AlarmWithout(n) \in -1..Off
           /\ AlarmWithout(n) # Off => Covers(AlarmWithout(n), ToSet(Without(n)))
  <1>1. Typed /\ Sorted(timerQ) /\ timerQ \in Lists /\ Search(n) \in SUBSET DOMAIN timerQ
    BY DEF IInv, Punctual, Typed, Search
  <1>2. /\ Without(n) \in Lists /\ Sorted(Without(n))
        /\ ToSet(Without(n)) \subseteq ToSet(timerQ)
    BY <1>1, DroppedFacts DEF Without
  <1>3. duringReboot = FALSE /\ \A i \in Search(n) : timerQ[i].type \in {"RREQ", "LR"}
    BY DEF IInv, Typed, Search
  <1>4. Complete(Without(n), FALSE)
    BY <1>1, <1>3, LessComplete DEF IInv, Without
  <1>5. InTime(ToSet(Without(n)))
    BY <1>2, FewerInTime DEF IInv, Punctual
  <1>6. alarm # Off => Covers(alarm, ToSet(timerQ))
    BY <1>3 DEF IInv, Punctual
  <1>7. CASE ~(1 \in Search(n) /\ Len(timerQ) > 1)
    <2>1. AlarmWithout(n) = alarm
      BY <1>7 DEF AlarmWithout
    <2> QED
      BY <1>1, <1>2, <1>4, <1>5, <1>6, <2>1, FewerInTime DEF Typed
  <1>8. CASE 1 \in Search(n) /\ Len(timerQ) > 1
    <2>1. AlarmWithout(n) = Arm(timerQ[2].timeout)
      BY <1>8 DEF AlarmWithout
    <2>2. 2 \in DOMAIN timerQ /\ timerQ[2] \in TimerRecord
      BY <1>1, <1>8, Elements
    <2>3. timerQ[2].timeout \in -Lag..Off - 1 /\ timerQ[2].timeout \in Int
      BY <2>2, Timeouts
    <2>4. AlarmWithout(n) \in 1..Off /\ (AlarmWithout(n) # Off => AlarmWithout(n) = timerQ[2].timeout)
      BY <2>1, <2>3, IntervalFacts DEF Arm
    <2>5. Covers(timerQ[2].timeout, ToSet(timerQ))
      <3> SUFFICES ASSUME NEW i \in DOMAIN timerQ, timerQ[i].type = "PERIODIC"
                   PROVE  timerQ[2].timeout <= timerQ[i].timeout
        BY <1>1, Elements DEF Covers
      <3>1. i # 1 /\ i \in 1..Len(timerQ)
        BY <1>1, <1>3, <1>8, Elements
      <3>2. i = 2 \/ 2 < i
        BY <3>1
      <3> QED
        BY <1>1, <2>2, <2>3, <3>2 DEF Sorted
    <2>6. AlarmWithout(n) \in -1..Off
      BY <2>4, Intervals
    <2> QED
      BY <1>2, <1>4, <1>5, <2>4, <2>5, <2>6, FewerInTime
  <1> QED
    BY <1>7, <1>8

(* What setting a timer of a search or of a neighbour leaves.              *)
LEMMA SetFacts ==
    ASSUME NEW q \in Lists, Sorted(q), Complete(q, FALSE), InTime(ToSet(q)),
           NEW type \in {"RREQ", "LR", "ACTIVE_ROUTE"}, NEW n \in Nodes, NEW v \in Delay[type],
           type = "ACTIVE_ROUTE" => ~Some(q, Active(n))
    PROVE  LET r == Insert(q, Timer(type, n, v)) IN
           /\ r \in Lists /\ Sorted(r) /\ Complete(r, FALSE) /\ InTime(ToSet(r))
           /\ \A a : Covers(a, ToSet(q)) => Covers(a, ToSet(r))
           /\ v \in 0..Off - 1
  <1> DEFINE t == Timer(type, n, v)
  <1>1. /\ t \in NotDue /\ t \in TimerRecord /\ t.type = type /\ t.data = n
        /\ v \in 0..Off - 1
    <2>1. type \in Types /\ type \notin {"REBOOT", "PERIODIC", "HELLO"} /\ n \in Nodes \cup {NoNode}
      BY Intervals
    <2> QED
      BY <2>1, NewTimers, Intervals DEF NotDue
  <1> HIDE DEF t
  <1>2. Insert(q, t) \in Lists /\ Sorted(Insert(q, t)) /\ ToSet(Insert(q, t)) = ToSet(q) \cup {t}
    BY <1>1, InsertFacts
  <1>3. Complete(Insert(q, t), FALSE)
    BY <1>1, NewComplete
  <1>4. /\ InTime(ToSet(q) \cup {t})
        /\ \A a : Covers(a, ToSet(q)) => Covers(a, ToSet(q) \cup {t})
    BY <1>1, Elements, NewInTime
  <1> QED
    BY <1>1, <1>2, <1>3, <1>4 DEF t

LEMMA RouteUpdateStep ==
    ASSUME IInv, NEW n \in Nodes, RouteUpdate(n)
    PROVE  IInv'
  <1>1. /\ timerQ' = Without(n) /\ alarm' = AlarmWithout(n) /\ ~duringReboot
        /\ timeVal' = timeVal /\ duringReboot' = duringReboot /\ resets' = resets
    BY DEF RouteUpdate
  <1>2. duringReboot = FALSE /\ Typed
    BY <1>1 DEF IInv, Typed
  <1>3. /\ Without(n) \in Lists /\ Sorted(Without(n))
        /\ Complete(Without(n), FALSE)
        /\ InTime(ToSet(Without(n)))
        /\ AlarmWithout(n) \in -1..Off
        /\ AlarmWithout(n) # Off => Covers(AlarmWithout(n), ToSet(Without(n)))
    BY <1>1, WithoutFacts
  <1>4. Typed'
    BY <1>1, <1>2, <1>3 DEF Typed
  <1>5. Punctual(timerQ', alarm', timeVal', FALSE)
    BY <1>1, <1>3 DEF Punctual
  <1> QED
    BY <1>1, <1>2, <1>3, <1>4, <1>5 DEF IInv

LEMMA SendRequestStep ==
    ASSUME IInv, NEW n \in Nodes, NEW type \in {"RREQ", "LR"}, SendRequest(n, type)
    PROVE  IInv'
  <1>1. PICK v \in Delay[type] : timerQ' = Insert(timerQ, Timer(type, n, v)) /\ timeVal' = v
    BY DEF SendRequest, BeginSetTimer
  <1>2. alarm' = alarm /\ ~duringReboot /\ duringReboot' = duringReboot /\ resets' = resets
    BY DEF SendRequest
  <1>3. /\ duringReboot = FALSE /\ Typed /\ Complete(timerQ, FALSE) /\ Sorted(timerQ)
        /\ InTime(ToSet(timerQ)) /\ (alarm # Off => Covers(alarm, ToSet(timerQ)))
        /\ timerQ \in Lists
    BY <1>2 DEF IInv, Typed, Punctual
  <1>4. /\ timerQ' \in Lists /\ Sorted(timerQ') /\ Complete(timerQ', FALSE)
        /\ InTime(ToSet(timerQ')) /\ v \in 0..Off - 1
        /\ \A a : Covers(a, ToSet(timerQ)) => Covers(a, ToSet(timerQ'))
    <2>1. type \in {"RREQ", "LR", "ACTIVE_ROUTE"} /\ type # "ACTIVE_ROUTE"
      OBVIOUS
    <2> QED
      BY <1>1, <1>3, <2>1, SetFacts
  <1>5. Typed'
    BY <1>1, <1>2, <1>3, <1>4 DEF Typed
  <1>6. Punctual(timerQ', alarm', timeVal', FALSE)
    BY <1>2, <1>3, <1>4 DEF Punctual
  <1> QED
    BY <1>2, <1>3, <1>4, <1>5, <1>6 DEF IInv

LEMMA NeighborUpdateStep ==
    ASSUME IInv, NEW n \in Nodes, NEW hello \in BOOLEAN, NeighborUpdate(n, hello)
    PROVE  IInv'
  <1> DEFINE left == Without(n)
             old == {i \in DOMAIN left : left[i].type = "ACTIVE_ROUTE" /\ left[i].data = n}
             q == Dropped(left, old)
  <1>1. /\ ~duringReboot /\ alarm' = AlarmWithout(n)
        /\ duringReboot' = duringReboot /\ resets' = resets
        /\ \/ BeginSetTimer(q, "ACTIVE_ROUTE", n)
           \/ timerQ' = left /\ timeVal' = timeVal
    BY DEF NeighborUpdate
  <1>2. duringReboot = FALSE /\ Typed
    BY <1>1 DEF IInv, Typed
  <1>3. /\ left \in Lists /\ Sorted(left) /\ Complete(left, FALSE) /\ InTime(ToSet(left))
        /\ AlarmWithout(n) \in -1..Off
        /\ AlarmWithout(n) # Off => Covers(AlarmWithout(n), ToSet(left))
    BY <1>1, WithoutFacts
  <1> HIDE DEF left
  <1>4. CASE timerQ' = left /\ timeVal' = timeVal
    <2>1. Typed'
      BY <1>1, <1>2, <1>3, <1>4 DEF Typed
    <2>2. Punctual(timerQ', alarm', timeVal', FALSE)
      BY <1>1, <1>3, <1>4 DEF Punctual
    <2> QED
      BY <1>1, <1>2, <1>3, <1>4, <2>1, <2>2 DEF IInv
  <1>5. CASE BeginSetTimer(q, "ACTIVE_ROUTE", n)
    <2>1. PICK v \in Delay["ACTIVE_ROUTE"] :
             timerQ' = Insert(q, Timer("ACTIVE_ROUTE", n, v)) /\ timeVal' = v
      BY <1>5 DEF BeginSetTimer
    <2>2. old = {i \in DOMAIN left : left[i] \in Active(n)} /\ old \in SUBSET DOMAIN left
      BY <1>3, Elements DEF Active, Kind
    <2>3. \A i \in old : left[i].type \in {"RREQ", "LR", "ACTIVE_ROUTE"}
      OBVIOUS
    <2>4. Lone(left, Active(n))
      BY <1>3 DEF Complete
    <2> HIDE DEF old
    <2>5. /\ q \in Lists /\ ToSet(q) \subseteq ToSet(left) /\ Sorted(q)
          /\ ~Some(q, Active(n))
      BY <1>3, <2>2, <2>4, DroppedFacts
    <2>6. Complete(q, FALSE)
      BY <1>3, <2>2, <2>3, LessComplete
    <2>7. InTime(ToSet(q)) /\ \A a : Covers(a, ToSet(left)) => Covers(a, ToSet(q))
      BY <1>3, <2>5, FewerInTime
    <2> HIDE DEF q
    <2>8. /\ timerQ' \in Lists /\ Sorted(timerQ') /\ Complete(timerQ', FALSE)
          /\ InTime(ToSet(timerQ')) /\ v \in 0..Off - 1
          /\ \A a : Covers(a, ToSet(q)) => Covers(a, ToSet(timerQ'))
      BY <2>1, <2>5, <2>6, <2>7, SetFacts
    <2>9. Typed'
      BY <1>1, <1>2, <1>3, <2>1, <2>8 DEF Typed
    <2>10. Punctual(timerQ', alarm', timeVal', FALSE)
      BY <1>1, <1>3, <2>7, <2>8 DEF Punctual
    <2> QED
      BY <1>1, <1>2, <2>8, <2>9, <2>10 DEF IInv
  <1> QED
    BY <1>1, <1>4, <1>5

(* In the reboot phase there are two timers: if the reboot timer is not    *)
(* the first, it is the last.                                              *)
LEMMA ResetRebootTimerStep ==
    ASSUME IInv, ResetRebootTimer
    PROVE  IInv'
  <1>1. PICK i \in DOMAIN timerQ, v \in Delay["REBOOT"] :
           /\ timerQ[i].type = "REBOOT"
           /\ timerQ' = [timerQ EXCEPT ![i].timeout = v]
           /\ alarm' = IF i = 1 THEN Off ELSE alarm
    BY DEF ResetRebootTimer
  <1>2. /\ timeVal = 0 /\ duringReboot /\ resets < MaxResets /\ resets' = resets + 1
        /\ timeVal' = timeVal /\ duringReboot' = duringReboot
    BY DEF ResetRebootTimer
  <1>3. /\ Typed /\ timerQ \in Lists /\ duringReboot = TRUE
        /\ Complete(timerQ, TRUE) /\ InTime(ToSet(timerQ)) /\ Early(ToSet(timerQ))
        /\ Sorted(timerQ) \/ alarm = Off
    BY <1>2 DEF IInv, Typed, Punctual
  <1> DEFINE q == timerQ'
             m == Len(timerQ)
  <1>4. m \in Nat /\ DOMAIN timerQ = 1..m /\ \A j \in 1..m : timerQ[j] \in TimerRecord
    BY <1>3, Elements
  <1>5. v \in 1..Off - 1 /\ v \in -Lag..Off - 1 /\ Off = 1000
    <2>1. Off = 1000 /\ "REBOOT" \in Types
      BY Intervals
    <2>2. v \in 1..Off - 1
      BY <2>1, Intervals
    <2> QED
      BY <2>1, <2>2, IntervalFacts
  <1> DEFINE t == [timerQ[i] EXCEPT !.timeout = v]
  <1>6. /\ t \in TimerRecord /\ t.type = "REBOOT" /\ t.timeout = v /\ t.data = timerQ[i].data
    BY <1>1, <1>4, <1>5 DEF TimerRecord
  <1>7. DOMAIN q = 1..m /\ q[i] = t /\ \A j \in 1..m : j # i => q[j] = timerQ[j]
    BY <1>1, <1>4
  <1> HIDE DEF t
  <1>8. q \in Lists
    <2>1. q = [j \in 1..m |-> q[j]] /\ \A j \in 1..m : q[j] \in TimerRecord
      BY <1>1, <1>4, <1>6, <1>7
    <2> HIDE DEF q
    <2>2. [j \in 1..m |-> q[j]] \in [1..m -> TimerRecord]
      BY <2>1
    <2> QED
      BY <1>4, <2>1, <2>2 DEF Lists
  <1> HIDE DEF q, m
  <1>9. timerQ[i].timeout <= v /\ timerQ[i].timeout \in Int /\ i \in 1..m /\ v \in Int
    <2>1. timerQ[i] \in ToSet(timerQ)
      BY <1>3, Elements
    <2> QED
      BY <1>1, <1>3, <1>4, <1>5, <2>1, Timeouts DEF InTime
  <1>10. /\ \A j \in 1..m : q[j].type = timerQ[j].type /\ q[j].data = timerQ[j].data
         /\ \A j \in 1..m : timerQ[j].timeout <= q[j].timeout
                            /\ timerQ[j].timeout \in Int /\ q[j].timeout \in Int
         /\ \A j \in 1..m : q[j].timeout = timerQ[j].timeout \/ j = i
    BY <1>1, <1>4, <1>6, <1>7, <1>9, Timeouts
  <1>11. Complete(q, TRUE)
    <2>1. ASSUME NEW K, \A j \in 1..m : q[j] \in K <=> timerQ[j] \in K
          PROVE  (Some(q, K) <=> Some(timerQ, K)) /\ (Lone(q, K) <=> Lone(timerQ, K))
      BY <1>4, <1>7, <2>1, SameKinds
    <2>2. \A j \in 1..m : q[j] \in TimerRecord
      BY <1>4, <1>6, <1>7
    <2>3. \A type, n : \A j \in 1..m : q[j] \in Kind(type, n) <=> timerQ[j] \in Kind(type, n)
      BY <1>4, <1>10, <2>2 DEF Kind
    <2>4. \A j \in 1..m : /\ q[j] \in Periodic <=> timerQ[j] \in Periodic
                          /\ q[j] \in Hello <=> timerQ[j] \in Hello
                          /\ q[j] \in Reboot \cup Hello <=> timerQ[j] \in Reboot \cup Hello
                          /\ \A n \in Nodes : q[j] \in Active(n) <=> timerQ[j] \in Active(n)
      BY <2>3 DEF Periodic, Hello, Reboot, Active
    <2> QED
      BY <1>3, <2>1, <2>4 DEF Complete
  <1>12. \A x : x \in ToSet(q) <=> \E j \in 1..m : q[j] = x
    BY <1>7, <1>8, Elements
  <1>13. \A j \in 1..m : timerQ[j] \in ToSet(timerQ)
    BY <1>3, <1>4, Elements
  <1>14. InTime(ToSet(q))
    <2>1. \A x \in ToSet(q) : x.type = "REBOOT" => \A w \in Delay["REBOOT"] : x.timeout <= w
      <3>1. \A w \in Delay["REBOOT"] : w = v
        BY TimerAssumption
      <3>2. \A j \in 1..m : q[j].type = "REBOOT" => q[j].timeout <= v
        BY <1>3, <1>6, <1>7, <1>9, <1>10, <1>13 DEF InTime
      <3> QED
        BY <1>12, <3>1, <3>2
    <2>2. ASSUME NEW j \in 1..m, q[j].type = "PERIODIC"
          PROVE  q[j].timeout <= Period /\ \A k \in 1..m : q[k].timeout >= q[j].timeout - Period + 1
      <3>1. q[j] = timerQ[j] /\ timerQ[j].type = "PERIODIC"
        BY <1>6, <1>7, <2>2
      <3>2. /\ timerQ[j].timeout <= Period
            /\ \A k \in 1..m : timerQ[k].timeout >= timerQ[j].timeout - Period + 1
        BY <1>3, <1>13, <3>1 DEF InTime
      <3>3. Period \in Int
        BY PeriodFacts
      <3> QED
        BY <1>10, <3>1, <3>2, <3>3
    <2> QED
      BY <1>12, <2>1, <2>2 DEF InTime
  <1>15. Early(ToSet(q))
    BY <1>3, <1>10, <1>12, <1>13 DEF Early
  <1>16. Sorted(timerQ) /\ i # 1 => Sorted(q)
    <2> SUFFICES ASSUME Sorted(timerQ), i # 1, NEW j \in 1..m, NEW k \in 1..m, j < k
                 PROVE  q[j].timeout <= q[k].timeout
      BY <1>7 DEF Sorted
    <2>1. timerQ[j].timeout <= timerQ[k].timeout
      BY <1>4 DEF Sorted
    <2>2. CASE j # i
      BY <1>10, <2>1, <2>2
    <2>3. CASE j = i
      <3>1. 1 \in 1..m /\ k # 1 /\ k # i
        BY <1>4, <2>3
      <3>2. \A l \in 1..m : l # i => timerQ[l] \in Periodic
        <4> SUFFICES ASSUME NEW l \in 1..m, l # i
                     PROVE  timerQ[l] \in Periodic
          OBVIOUS
        <4>1. timerQ[l].type \in {"REBOOT", "PERIODIC"}
          BY <1>3, <1>13 DEF Early
        <4>2. timerQ[l] \in Reboot => l = i
          <5>1. timerQ[i] \in Reboot
            BY <1>1, <1>4, <1>9 DEF Reboot, Kind, TimerRecord
          <5> QED
            BY <1>3, <1>4, <1>9, <5>1 DEF Complete, Lone
        <4> QED
          BY <1>4, <4>1, <4>2 DEF Reboot, Periodic, Kind, TimerRecord
      <3>3. timerQ[1] \in Periodic /\ timerQ[k] \in Periodic
        BY <3>1, <3>2
      <3> QED
        BY <1>3, <1>4, <3>1, <3>3 DEF Complete, Lone
    <2> QED
      BY <2>2, <2>3
  <1>17. Punctual(q, alarm', 0, TRUE)
    BY <1>1, <1>3, <1>14, <1>15, <1>16 DEF Punctual
  <1>18. Typed'
    <2>1. resets + 1 \in 0..MaxResets
      BY <1>2, <1>3, TimerAssumption DEF Typed
    <2> QED
      BY <1>1, <1>2, <1>3, <1>5, <1>8, <2>1 DEF Typed, q
  <1> QED
    BY <1>2, <1>3, <1>11, <1>17, <1>18 DEF IInv, q

(* The timeouts go down by one, those that are late beyond count excepted. *)
Older(x) == IF x > -Lag THEN x - 1 ELSE x

LEMMA OlderFacts ==
    /\ \A x \in -Lag..Off - 1 : Older(x) \in -Lag..Off - 1 /\ Older(x) <= x /\ x - 1 <= Older(x)
    /\ \A x, y \in -Lag..Off - 1 : x <= y => Older(x) <= Older(y)
    /\ \A x, y \in -Lag..Off - 1 : \A d \in Nat : x >= y - d => Older(x) >= Older(y) - d
  BY Intervals DEF Older

LEMMA TickStep ==
    ASSUME IInv, Tick
    PROVE  IInv'
  <1> DEFINE q == timerQ'
             m == Len(timerQ)
  <1>1. /\ alarm >= 0 /\ alarm' = IF alarm = Off THEN Off ELSE alarm - 1
        /\ timeVal' = timeVal /\ duringReboot' = duringReboot /\ resets' = resets
        /\ q = [i \in DOMAIN timerQ |-> [timerQ[i] EXCEPT !.timeout = Older(timerQ[i].timeout)]]
    BY DEF Tick, Older
  <1>2. /\ Typed /\ timerQ \in Lists /\ Complete(timerQ, duringReboot)
        /\ Punctual(timerQ, alarm, timeVal, duringReboot)
        /\ InTime(ToSet(timerQ)) /\ (duringReboot => Early(ToSet(timerQ)))
    BY DEF IInv, Typed, Punctual
  <1>3. /\ m \in Nat /\ DOMAIN timerQ = 1..m
        /\ \A j \in 1..m : timerQ[j] \in TimerRecord /\ timerQ[j] \in ToSet(timerQ)
    BY <1>2, Elements
  <1> HIDE DEF m
  <1>4. \A j \in 1..m : timerQ[j].timeout \in -Lag..Off - 1
    BY <1>3, Timeouts
  <1>5. DOMAIN q = 1..m
    BY <1>1, <1>3
  <1>6. ASSUME NEW j \in 1..m
        PROVE  /\ q[j] \in TimerRecord
               /\ q[j].type = timerQ[j].type /\ q[j].data = timerQ[j].data
               /\ q[j].timeout = Older(timerQ[j].timeout)
    <2>1. q[j] = [timerQ[j] EXCEPT !.timeout = Older(timerQ[j].timeout)]
      BY <1>1, <1>3
    <2>2. Older(timerQ[j].timeout) \in -Lag..Off - 1 /\ timerQ[j] \in TimerRecord
      BY <1>3, <1>4, OlderFacts
    <2> HIDE DEF q
    <2> QED
      BY <2>1, <2>2 DEF TimerRecord
  <1>7. q \in Lists
    <2>1. q = [j \in 1..m |-> q[j]]
      BY <1>1, <1>3
    <2> HIDE DEF q
    <2>2. [j \in 1..m |-> q[j]] \in [1..m -> TimerRecord]
      BY <1>6
    <2> QED
      BY <1>3, <2>1, <2>2 DEF Lists
  <1> HIDE DEF q
  <1>8. \A x : x \in ToSet(q) <=> \E j \in 1..m : q[j] = x
    BY <1>5, <1>7, Elements
  <1>9. Complete(q, duringReboot)
    <2>1. ASSUME NEW K, \A j \in 1..m : q[j] \in K <=> timerQ[j] \in K
          PROVE  (Some(q, K) <=> Some(timerQ, K)) /\ (Lone(q, K) <=> Lone(timerQ, K))
      BY <1>3, <1>5, <2>1, SameKinds
    <2>2. \A type, n : \A j \in 1..m : q[j] \in Kind(type, n) <=> timerQ[j] \in Kind(type, n)
      BY <1>3, <1>6 DEF Kind
    <2>3. \A j \in 1..m : /\ q[j] \in Periodic <=> timerQ[j] \in Periodic
                          /\ q[j] \in Hello <=> timerQ[j] \in Hello
                          /\ q[j] \in Reboot <=> timerQ[j] \in Reboot
                          /\ q[j] \in Reboot \cup Hello <=> timerQ[j] \in Reboot \cup Hello
                          /\ \A n \in Nodes : q[j] \in Active(n) <=> timerQ[j] \in Active(n)
      BY <2>2 DEF Periodic, Hello, Reboot, Active
    <2>4. ~Some(q, IF duringReboot THEN Hello ELSE Reboot)
      BY <1>2, <2>1, <2>3 DEF Complete
    <2> QED
      BY <1>2, <2>1, <2>3, <2>4 DEF Complete
  <1>10. Sorted(timerQ) => Sorted(q)
    <2> SUFFICES ASSUME Sorted(timerQ), NEW j \in 1..m, NEW k \in 1..m, j < k
                 PROVE  q[j].timeout <= q[k].timeout
      BY <1>5 DEF Sorted
    <2>1. timerQ[j].timeout <= timerQ[k].timeout
      BY <1>3 DEF Sorted
    <2> QED
      BY <1>4, <1>6, <2>1, OlderFacts
  <1>11. InTime(ToSet(q))
    <2>1. ASSUME NEW j \in 1..m, q[j].type = "REBOOT", NEW w \in Delay["REBOOT"]
          PROVE  q[j].timeout <= w
      <3>1. timerQ[j].timeout <= w
        BY <1>2, <1>3, <1>6, <2>1 DEF InTime
      <3>2. q[j].timeout <= timerQ[j].timeout /\ q[j].timeout \in Int /\ timerQ[j].timeout \in Int
        BY <1>3, <1>4, <1>6, OlderFacts, Timeouts
      <3>3. w \in Int
        <4>1. w \in 1..Off - 1 /\ Off = 1000
          BY Intervals DEF Types
        <4> QED
          BY <4>1
      <3> QED
        BY <3>1, <3>2, <3>3
    <2>2. ASSUME NEW j \in 1..m, q[j].type = "PERIODIC"
          PROVE  q[j].timeout <= Period /\ \A k \in 1..m : q[k].timeout >= q[j].timeout - Period + 1
      <3>1. /\ timerQ[j].timeout <= Period
            /\ \A k \in 1..m : timerQ[k].timeout >= timerQ[j].timeout - Period + 1
        BY <1>2, <1>3, <1>6, <2>2 DEF InTime
      <3> DEFINE d == Period - 1
      <3>2. Period \in 1..Off - 1 /\ d \in Nat /\ \A x \in Int : x - Period + 1 = x - d
        BY PeriodFacts
      <3>3. \A k \in 1..m : q[k].timeout \in Int /\ timerQ[k].timeout \in Int
        BY <1>3, <1>6, Timeouts
      <3>4. q[j].timeout <= timerQ[j].timeout
        BY <1>4, <1>6, OlderFacts
      <3> HIDE DEF d
      <3>5. \A k \in 1..m : q[k].timeout >= q[j].timeout - d
        BY <1>4, <1>6, <3>1, <3>2, <3>3, OlderFacts
      <3>6. q[j].timeout <= Period
        BY <3>1, <3>2, <3>3, <3>4
      <3> QED
        BY <3>2, <3>3, <3>5, <3>6
    <2>3. \A x \in ToSet(q) : x.type = "REBOOT" => \A w \in Delay["REBOOT"] : x.timeout <= w
      BY <1>8, <2>1
    <2>4. ASSUME NEW p \in ToSet(q), p.type = "PERIODIC"
          PROVE  p.timeout <= Period /\ \A t \in ToSet(q) : t.timeout >= p.timeout - Period + 1
      BY <1>8, <2>2, <2>4
    <2> QED
      BY <2>3, <2>4 DEF InTime
  <1>12. duringReboot => Early(ToSet(q))
    BY <1>2, <1>3, <1>6, <1>8 DEF Early
  <1>13. ~duringReboot /\ alarm' # Off => Covers(alarm', ToSet(q))
    <2> SUFFICES ASSUME ~duringReboot, alarm' # Off, NEW j \in 1..m, q[j].type = "PERIODIC"
                 PROVE  alarm' <= q[j].timeout
      BY <1>8 DEF Covers
    <2>1. alarm # Off /\ alarm' = alarm - 1 /\ alarm \in Int
      BY <1>1, <1>2, Intervals DEF Typed
    <2>2. alarm <= timerQ[j].timeout
      BY <1>2, <1>3, <1>6, <2>1 DEF Punctual, Covers
    <2>3. timerQ[j].timeout - 1 <= q[j].timeout /\ q[j].timeout \in Int /\ timerQ[j].timeout \in Int
      BY <1>3, <1>4, <1>6, OlderFacts, Timeouts
    <2> QED
      BY <2>1, <2>2, <2>3
  <1>14. Punctual(q, alarm', timeVal, duringReboot)
    BY <1>1, <1>2, <1>10, <1>11, <1>12, <1>13 DEF Punctual
  <1>15. Typed'
    <2>1. alarm' \in -1..Off
      BY <1>1, <1>2, Intervals DEF Typed
    <2> QED
      BY <1>1, <1>2, <1>7, <2>1 DEF Typed, q
  <1> QED
    BY <1>1, <1>9, <1>14, <1>15 DEF IInv, q

(* A run of the signal handler in a state of the invariant.                *)
LEMMA AddsFacts ==
    ASSUME timerQ \in Lists, NEW again, \A i \in DueTimers : again[i] \in Again(timerQ[i]),
           NEW j \in DueTimers
    PROVE  /\ j \in DOMAIN timerQ /\ timerQ[j] \in TimerRecord /\ timerQ[j] \in ToSet(timerQ)
           /\ \A x : Adds(again, j, {x}) => x = again[j][1] /\ x \in NotDue
           /\ Adds(again, j, Periodic) <=> timerQ[j] \in Periodic
           /\ Adds(again, j, Reboot \cup Hello) <=> timerQ[j] \in Reboot \cup Hello
           /\ Adds(again, j, Hello) => timerQ[j] \in Reboot \cup Hello
           /\ ~Adds(again, j, Reboot)
           /\ \A n : ~Adds(again, j, Active(n))
           /\ Adds(again, j, Periodic) => again[j][1].timeout <= Period
  <1> DEFINE t == timerQ[j]
             a == again[j]
  <1>1. j \in DOMAIN timerQ /\ t \in TimerRecord /\ t \in ToSet(timerQ) /\ a \in Again(t)
    <2>1. j \in DOMAIN timerQ
      BY DEF DueTimers
    <2> QED
      BY <2>1, Elements
  <1> HIDE DEF t, a
  <1>2. /\ a # <<>> => a[1] \in NotDue
        /\ t.type \in {"REBOOT", "HELLO"} => a # <<>> /\ a[1] \in Hello
        /\ t.type = "PERIODIC" => a # <<>> /\ a[1] \in Periodic
                                  /\ a[1].timeout \in Delay["PERIODIC"]
        /\ a # <<>> => \/ t.type \in {"REBOOT", "HELLO", "PERIODIC"}
                       \/ a[1].type = "RREQ"
    BY <1>1, AgainFacts DEF Hello, Periodic
  <1>3. \A K : Adds(again, j, K) <=> a # <<>> /\ a[1] \in K
    BY DEF Adds, a
  <1>4. /\ t \in Periodic <=> t.type = "PERIODIC"
        /\ t \in Reboot \cup Hello <=> t.type \in {"REBOOT", "HELLO"}
    BY <1>1 DEF Periodic, Reboot, Hello, Kind, TimerRecord
  <1>5. \A x : /\ x \in Periodic => x.type = "PERIODIC"
               /\ x \in Hello => x.type = "HELLO"
               /\ x \in Reboot => x.type = "REBOOT"
               /\ \A n : x \in Active(n) => x.type = "ACTIVE_ROUTE"
    BY DEF Periodic, Reboot, Hello, Active, Kind
  <1>6. \A v \in Delay["PERIODIC"] : v <= Period
    BY PeriodFacts
  <1>7. Adds(again, j, Periodic) <=> t.type = "PERIODIC"
    BY <1>2, <1>3, <1>5
  <1>8. Adds(again, j, Hello) <=> t.type \in {"REBOOT", "HELLO"}
    BY <1>2, <1>3, <1>5
  <1>9. ~Adds(again, j, Reboot) /\ \A n : ~Adds(again, j, Active(n))
    BY <1>2, <1>3, <1>5
  <1>10. Adds(again, j, Reboot \cup Hello) <=> t.type \in {"REBOOT", "HELLO"}
    BY <1>3, <1>8, <1>9
  <1>11. \A x : Adds(again, j, {x}) => x = a[1] /\ x \in NotDue
    BY <1>2, <1>3
  <1>12. Adds(again, j, Periodic) => a[1].timeout <= Period
    BY <1>2, <1>6, <1>7
  <1> QED
    BY <1>1, <1>4, <1>7, <1>8, <1>9, <1>10, <1>11, <1>12 DEF t, a

LEMMA ScheduleTimerStep ==
    ASSUME IInv, ScheduleTimer
    PROVE  IInv' /\ alarm' # Off
  <1>1. PICK again \in [DueTimers -> UNION {Again(timerQ[i]) : i \in DueTimers}] :
           /\ \A i \in DueTimers : again[i] \in Again(timerQ[i])
           /\ timerQ' = Handled(again)[Cardinality(DueTimers)]
    BY DEF ScheduleTimer
  <1>2. /\ alarm <= 0 /\ alarm' = NextAlarm(timerQ')
        /\ duringReboot' = (duringReboot /\ \A i \in DueTimers : timerQ[i].type # "REBOOT")
        /\ timeVal' = timeVal /\ resets' = resets
    BY DEF ScheduleTimer
  <1> DEFINE q == timerQ'
             n == Cardinality(DueTimers)
             S == ToSet(timerQ)
  <1>3. /\ Typed /\ timerQ \in Lists /\ Complete(timerQ, duringReboot) /\ Sorted(timerQ)
        /\ InTime(S) /\ (duringReboot => Early(S))
    BY <1>2, Intervals DEF IInv, Typed, Punctual
  <1>4. Serves(q, again, n) /\ DueTimers = 1..n
    BY <1>1, <1>3, HandledFacts, DueFacts
  <1>5. /\ Rest \in Lists /\ ToSet(Rest) \subseteq S
        /\ Sorted(Rest) /\ ToSet(Rest) \subseteq NotDue
        /\ \A K : /\ Some(Rest, K) => Some(timerQ, K)
                  /\ Some(timerQ, K) => Some(Rest, K) \/ \E k \in 1..n : timerQ[k] \in K
                  /\ Lone(timerQ, K) =>
                        Lone(Rest, K) /\ \A k \in 1..n : timerQ[k] \in K => ~Some(Rest, K)
    BY <1>3, <1>4, RestFacts
  <1>6. \A j \in 1..n :
           /\ j \in DOMAIN timerQ /\ timerQ[j] \in TimerRecord /\ timerQ[j] \in S
           /\ \A x : Adds(again, j, {x}) => x = again[j][1] /\ x \in NotDue
           /\ Adds(again, j, Periodic) <=> timerQ[j] \in Periodic
           /\ Adds(again, j, Reboot \cup Hello) <=> timerQ[j] \in Reboot \cup Hello
           /\ Adds(again, j, Hello) => timerQ[j] \in Reboot \cup Hello
           /\ ~Adds(again, j, Reboot)
           /\ \A m : ~Adds(again, j, Active(m))
           /\ Adds(again, j, Periodic) => again[j][1].timeout <= Period
    BY <1>1, <1>3, <1>4, AddsFacts
  <1> HIDE DEF q, n, S
  <1>7. q \in Lists /\ Sorted(q)
    BY <1>4, <1>5 DEF Serves
  <1>8. \A x \in ToSet(q) : x \in ToSet(Rest) \/ \E j \in 1..n : Adds(again, j, {x})
    BY <1>4 DEF Serves
  <1>9. \A x \in ToSet(q) : x \in NotDue
    BY <1>5, <1>6, <1>8
  <1>10. \A K : Some(q, K) <=> Some(Rest, K) \/ \E j \in 1..n : Adds(again, j, K)
    BY <1>4 DEF Serves
  <1>11. ASSUME NEW K, Lone(timerQ, K), \A j \in 1..n : Adds(again, j, K) => timerQ[j] \in K
         PROVE  Lone(q, K)
    <2>1. \A i, j \in 1..n : Adds(again, i, K) /\ Adds(again, j, K) => i = j
      BY <1>6, <1>11 DEF Lone
    <2>2. Lone(Rest, K) /\ \A j \in 1..n : Adds(again, j, K) => ~Some(Rest, K)
      BY <1>5, <1>11
    <2> QED
      BY <1>4, <2>1, <2>2 DEF Serves
  <1>12. Complete(q, duringReboot')
    <2>1. Some(q, Periodic) /\ Lone(q, Periodic)
      <3>1. Some(q, Periodic)
        BY <1>3, <1>5, <1>6, <1>10 DEF Complete
      <3>2. Lone(q, Periodic)
        BY <1>3, <1>6, <1>11 DEF Complete
      <3> QED
        BY <3>1, <3>2
    <2>2. Some(q, Reboot \cup Hello) /\ Lone(q, Reboot \cup Hello)
      <3>1. Some(q, Reboot \cup Hello)
        BY <1>3, <1>5, <1>6, <1>10 DEF Complete
      <3>2. Lone(q, Reboot \cup Hello)
        BY <1>3, <1>6, <1>11 DEF Complete
      <3> QED
        BY <3>1, <3>2
    <2>3. \A m \in Nodes : Lone(q, Active(m))
      BY <1>3, <1>6, <1>11 DEF Complete
    <2>4. \A k \in 1..n : timerQ[k] \in Reboot => timerQ[k].type = "REBOOT"
      BY DEF Reboot, Kind
    <2>5. CASE duringReboot'
      <3>1. duringReboot /\ \A k \in 1..n : timerQ[k] \notin Reboot
        BY <1>2, <1>4, <2>4, <2>5
      <3>2. ~Some(timerQ, Hello)
        BY <1>3, <3>1 DEF Complete
      <3>3. \A k \in 1..n : timerQ[k] \notin Hello
        BY <1>6, <3>2 DEF Some
      <3>4. ~Some(q, Hello)
        BY <1>5, <1>6, <1>10, <3>1, <3>2, <3>3
      <3> QED
        BY <2>1, <2>2, <2>3, <2>5, <3>4 DEF Complete
    <2>6. CASE ~duringReboot'
      <3>1. ~Some(Rest, Reboot)
        <4>1. CASE ~duringReboot
          BY <1>3, <1>5, <4>1 DEF Complete
        <4>2. CASE duringReboot
          <5>1. PICK k \in 1..n : timerQ[k].type = "REBOOT"
            BY <1>2, <1>4, <2>6, <4>2
          <5>2. timerQ[k] \in Reboot \cup Hello
            BY <1>6, <5>1 DEF Reboot, Kind, TimerRecord
          <5>3. ~Some(Rest, Reboot \cup Hello)
            BY <1>3, <1>5, <5>2 DEF Complete
          <5> QED
            BY <5>3 DEF Some
        <4> QED
          BY <4>1, <4>2
      <3>2. ~Some(q, Reboot)
        BY <1>6, <1>10, <3>1
      <3> QED
        BY <2>1, <2>2, <2>3, <2>6, <3>2 DEF Complete
    <2> QED
      BY <2>5, <2>6
  <1>13. InTime(ToSet(q))
    <2>1. ASSUME NEW t \in ToSet(q), t.type = "REBOOT"
          PROVE  \A v \in Delay["REBOOT"] : t.timeout <= v
      <3>1. t \in TimerRecord
        BY <1>9 DEF NotDue
      <3>2. t \in Reboot
        BY <2>1, <3>1 DEF Reboot, Kind, TimerRecord
      <3>3. \A j \in 1..n : Adds(again, j, {t}) => Adds(again, j, Reboot)
        BY <3>2 DEF Adds
      <3>4. t \in S
        BY <1>5, <1>6, <1>8, <3>3
      <3> QED
        BY <1>3, <2>1, <3>4 DEF InTime
    <2>2. ASSUME NEW p \in ToSet(q), p.type = "PERIODIC"
          PROVE  p.timeout <= Period
      <3>1. p \in TimerRecord
        BY <1>9 DEF NotDue
      <3>2. p \in Periodic
        BY <2>2, <3>1 DEF Periodic, Kind, TimerRecord
      <3>3. CASE p \in S
        BY <1>3, <2>2, <3>3 DEF InTime
      <3>4. CASE \E j \in 1..n : Adds(again, j, {p})
        <4>1. PICK j \in 1..n : Adds(again, j, {p})
          BY <3>4
        <4>2. p = again[j][1] /\ Adds(again, j, Periodic)
          BY <1>6, <3>2, <4>1 DEF Adds
        <4> QED
          BY <1>6, <4>2
      <3> QED
        BY <1>5, <1>8, <3>3, <3>4
    <2>3. \A p, t \in ToSet(q) : p.type = "PERIODIC" => t.timeout >= p.timeout - Period + 1
      <3> TAKE p, t \in ToSet(q)
      <3> HAVE p.type = "PERIODIC"
      <3>1. p.timeout <= Period /\ t.timeout > 0
        BY <1>9, <2>2 DEF NotDue
      <3>2. p.timeout \in Int /\ t.timeout \in Int /\ Period \in Int
        BY <1>9, Timeouts, PeriodFacts DEF NotDue
      <3> QED
        BY <3>1, <3>2
    <2> QED
      BY <2>1, <2>2, <2>3 DEF InTime
  <1>14. duringReboot' => Early(ToSet(q))
    <2> SUFFICES ASSUME duringReboot', NEW t \in ToSet(q)
                 PROVE  t.type \in {"REBOOT", "PERIODIC"}
      BY DEF Early
    <2>1. duringReboot /\ \A k \in 1..n : timerQ[k].type # "REBOOT"
      BY <1>2, <1>4
    <2>2. CASE t \in S
      BY <1>3, <2>1, <2>2 DEF Early
    <2>3. CASE \E j \in 1..n : Adds(again, j, {t})
      <3>1. PICK j \in 1..n : Adds(again, j, {t})
        BY <2>3
      <3>2. timerQ[j].type = "PERIODIC"
        BY <1>3, <1>6, <2>1 DEF Early
      <3>3. timerQ[j] \in Periodic
        BY <1>6, <3>2 DEF Periodic, Kind, TimerRecord
      <3>4. t \in Periodic
        BY <1>6, <3>1, <3>3 DEF Adds
      <3> QED
        BY <3>4 DEF Periodic, Kind
    <2> QED
      BY <1>5, <1>8, <2>2, <2>3
  <1>15. /\ q # <<>> /\ 1 \in 1..Len(q) /\ DOMAIN q = 1..Len(q)
         /\ q[1].timeout \in 1..Off - 1
    <2>1. DOMAIN q # {}
      BY <1>12 DEF Complete, Some
    <2>2. DOMAIN q = 1..Len(q) /\ Len(q) \in Nat /\ \A i \in DOMAIN q : q[i] \in ToSet(q)
      BY <1>7, Elements
    <2>3. 1 \in 1..Len(q)
      BY <2>1, <2>2
    <2>4. q[1] \in NotDue
      BY <1>9, <2>2, <2>3
    <2>5. q[1].timeout > 0 /\ q[1].timeout \in Int /\ q[1].timeout \in -Lag..Off - 1
      BY <2>4, Timeouts DEF NotDue
    <2>6. q # <<>>
      BY <2>1
    <2> QED
      <3>1. q[1].timeout \in 1..Off - 1
        BY <2>5, IntervalFacts
      <3> QED
        BY <2>2, <2>3, <2>6, <3>1
  <1>16. alarm' = q[1].timeout /\ alarm' \in -1..Off /\ alarm' # Off
    <2>1. alarm' = q[1].timeout
      <3>1. q[1].timeout > 0
        BY <1>15, IntervalFacts
      <3>2. alarm' = NextAlarm(q)
        BY <1>2 DEF q
      <3> QED
        BY <1>15, <3>1, <3>2 DEF NextAlarm, Arm
    <2> QED
      BY <1>15, <2>1, IntervalFacts
  <1>17. Covers(alarm', ToSet(q))
    <2> SUFFICES ASSUME NEW i \in DOMAIN q
                 PROVE  q[1].timeout <= q[i].timeout
      BY <1>7, <1>16, Elements DEF Covers
    <2>1. i = 1 \/ 1 < i
      BY <1>15
    <2> QED
      BY <1>7, <1>15, <2>1 DEF Sorted
  <1>18. Typed'
    BY <1>2, <1>3, <1>7, <1>16 DEF Typed, q
  <1>19. Punctual(q, alarm', timeVal', duringReboot')
    BY <1>7, <1>13, <1>14, <1>17 DEF Punctual
  <1> QED
    BY <1>12, <1>16, <1>18, <1>19 DEF IInv, q

-----------------------------------------------------------------------------
(* The theorems.                                                           *)

LEMMA Steps == IInv /\ [Next]_vars => IInv'
  <1> SUFFICES ASSUME IInv, [Next]_vars
               PROVE  IInv'
    OBVIOUS
  <1>1. CASE SetLowestTimer
    BY <1>1, SetLowestTimerStep
  <1>2. CASE ResetRebootTimer
    BY <1>2, ResetRebootTimerStep
  <1>3. CASE ScheduleTimer
    BY <1>3, ScheduleTimerStep
  <1>4. CASE Tick
    BY <1>4, TickStep
  <1>5. ASSUME NEW n \in Nodes, RouteUpdate(n)
        PROVE  IInv'
    BY <1>5, RouteUpdateStep
  <1>6. ASSUME NEW n \in Nodes, NEW type \in {"RREQ", "LR"}, SendRequest(n, type)
        PROVE  IInv'
    BY <1>6, SendRequestStep
  <1>7. ASSUME NEW n \in Nodes, NEW hello \in BOOLEAN, NeighborUpdate(n, hello)
        PROVE  IInv'
    BY <1>7, NeighborUpdateStep
  <1>8. CASE UNCHANGED vars
    BY <1>8 DEF vars, IInv, Typed
  <1> QED
    BY <1>1, <1>2, <1>3, <1>4, <1>5, <1>6, <1>7, <1>8 DEF Next

LEMMA Invariance == Spec => []IInv
  BY Starts, Steps, PTL DEF Spec

(* Every entry of the list is a timer, and the interval timer and the      *)
(* flags of the daemon keep their ranges (timerQueue.cc).                  *)
THEOREM TypeCorrect == Spec => []TypeOK
  <1>1. IInv => TypeOK
    <2> SUFFICES ASSUME IInv
                 PROVE  TypeOK
      OBVIOUS
    <2>1. Typed /\ timerQ \in Lists
      BY DEF IInv, Typed
    <2>2. \A i \in DOMAIN timerQ : timerQ[i] \in TimerRecord
      BY <2>1, Elements
    <2>3. \A t \in TimerRecord : /\ t.type \in Types /\ t.data \in Nodes \cup {NoNode}
                                 /\ t.timeout \in -Lag..Off - 1
      BY DEF TimerRecord
    <2> QED
      BY <2>1, <2>2, <2>3 DEF TypeOK, Typed
  <1> QED
    BY Invariance, <1>1, PTL

(* One periodic timer, one timer that leads to the next hello and at most  *)
(* one for each neighbour are in the list (timer_add, removeRREQTimer,     *)
(* removeActiveRouteTimer and scheduleTimer of timerQueue.cc), whatever    *)
(* the signal interrupts.                                                  *)
THEOREM NeverLostNorDoubled == Spec => []OneOfEach
  <1>1. IInv => OneOfEach
    <2> SUFFICES ASSUME IInv
                 PROVE  OneOfEach
      OBVIOUS
    <2>1. Complete(timerQ, duringReboot) /\ timerQ \in Lists
      BY DEF IInv, Typed
    <2>2. \A i \in DOMAIN timerQ : timerQ[i] \in TimerRecord
      BY <2>1, Elements
    <2>3. \A type, n : Of(type, n) = {i \in DOMAIN timerQ : timerQ[i] \in Kind(type, n)}
      BY <2>2 DEF Of, Kind
    <2>4. \A type, n : /\ Of(type, n) # {} <=> Some(timerQ, Kind(type, n))
                       /\ Lone(timerQ, Kind(type, n)) => \A i, j \in Of(type, n) : i = j
      BY <2>3 DEF Some, Lone
    <2>5. Single(Of("PERIODIC", NoNode))
      BY <2>1, <2>4 DEF Complete, Periodic, Single
    <2>6. \A n \in Nodes : Of("ACTIVE_ROUTE", n) = {} \/ Single(Of("ACTIVE_ROUTE", n))
      BY <2>1, <2>4 DEF Complete, Active, Single
    <2>7. /\ Lone(timerQ, Reboot) /\ Lone(timerQ, Hello)
          /\ Some(timerQ, Reboot) \/ Some(timerQ, Hello)
      BY <2>1 DEF Complete, Some, Lone
    <2>8. IF duringReboot THEN Single(Of("REBOOT", NoNode)) /\ Of("HELLO", NoNode) = {}
                          ELSE Single(Of("HELLO", NoNode)) /\ Of("REBOOT", NoNode) = {}
      BY <2>1, <2>4, <2>7 DEF Complete, Reboot, Hello, Single
    <2> QED
      BY <2>5, <2>6, <2>8 DEF OneOfEach
  <1> QED
    BY Invariance, <1>1, PTL

(* After the reboot phase and while the real timer runs, it goes off no    *)
(* later than the periodic timer is due (setLowestTimer, removeRREQTimer,  *)
(* scheduleTimer): no timer is late by more than that interval.            *)
THEOREM AtMostOnePeriodLate == Spec => []LateByOnePeriod
  <1>1. IInv => LateByOnePeriod
    <2> SUFFICES ASSUME IInv, ~duringReboot, alarm # Off, NEW i \in DOMAIN timerQ
                 PROVE  timerQ[i].timeout >= -Period
      BY DEF LateByOnePeriod
    <2>1. /\ timerQ \in Lists /\ Complete(timerQ, duringReboot) /\ alarm \in -1..Off
          /\ InTime(ToSet(timerQ)) /\ Covers(alarm, ToSet(timerQ))
      BY DEF IInv, Typed, Punctual
    <2>2. PICK p \in DOMAIN timerQ : timerQ[p] \in Periodic
      BY <2>1 DEF Complete, Some
    <2>3. /\ timerQ[p] \in ToSet(timerQ) /\ timerQ[p].type = "PERIODIC"
          /\ timerQ[i] \in ToSet(timerQ)
      BY <2>1, <2>2, Elements DEF Periodic, Kind
    <2>4. alarm <= timerQ[p].timeout
      BY <2>1, <2>3 DEF Covers
    <2>5. timerQ[i].timeout >= timerQ[p].timeout - Period + 1
      BY <2>1, <2>3 DEF InTime
    <2>6. timerQ[i].timeout \in Int /\ timerQ[p].timeout \in Int
      BY <2>1, <2>2, Elements, Timeouts
    <2>7. Period \in Int /\ alarm >= -1 /\ alarm \in Int
      BY <2>1, PeriodFacts, Intervals
    <2> QED
      BY <2>4, <2>5, <2>6, <2>7
  <1> QED
    BY Invariance, <1>1, PTL

(* What AlarmStops says of the removal of a timer of a search.             *)
LEMMA RemovalStops ==
    ASSUME IInv, NEW n \in Nodes, alarm # Off, AlarmWithout(n) = Off
    PROVE  /\ timerQ[1].type \in {"RREQ", "LR"}
           /\ Len(timerQ) > 1 /\ timerQ[2].timeout <= 0
  <1>1. 1 \in Search(n) /\ Len(timerQ) > 1 /\ Arm(timerQ[2].timeout) = Off
    BY DEF AlarmWithout
  <1>2. timerQ \in Lists
    BY DEF IInv, Typed
  <1>3. 2 \in DOMAIN timerQ
    BY <1>1, <1>2, Elements
  <1>4. timerQ[2].timeout \in -Lag..Off - 1 /\ timerQ[2].timeout \in Int
    BY <1>2, <1>3, Elements, Timeouts
  <1>5. Off = 1000 /\ Lag \in Nat
    BY Intervals
  <1>6. ~(timerQ[2].timeout > 0)
    BY <1>1, <1>4, <1>5 DEF Arm
  <1> QED
    BY <1>1, <1>4, <1>6 DEF Search

(* The real timer stops for good only where removeRREQTimer arms it for a  *)
(* timer that is due, and where resetRebootTimer gives it a time instead   *)
(* of an interval: no other step of the daemon ends the timeouts.          *)
THEOREM StopsInTwoWaysOnly == Spec => AlarmStops
  <1> DEFINE Step ==
               alarm # Off /\ alarm' = Off =>
                  \/ /\ timerQ[1].type \in {"RREQ", "LR"}
                     /\ Len(timerQ) > 1 /\ timerQ[2].timeout <= 0
                  \/ resets' > resets /\ timerQ[1].type = "REBOOT"
  <1>1. IInv /\ [Next]_vars => [Step]_vars
    <2> SUFFICES ASSUME IInv, Next, alarm # Off, alarm' = Off
                 PROVE  Step
      OBVIOUS
    <2>1. Typed /\ Off = 1000
      BY Intervals DEF IInv
    <2>2. CASE SetLowestTimer
      <3>1. alarm' = timeVal \/ alarm' = alarm
        BY <2>2 DEF SetLowestTimer
      <3> QED
        BY <2>1, <3>1 DEF Typed
    <2>3. CASE ResetRebootTimer
      <3>1. PICK i \in DOMAIN timerQ :
               timerQ[i].type = "REBOOT" /\ alarm' = IF i = 1 THEN Off ELSE alarm
        BY <2>3 DEF ResetRebootTimer
      <3>2. resets' = resets + 1 /\ resets \in Int
        BY <2>1, <2>3, TimerAssumption DEF ResetRebootTimer, Typed
      <3> QED
        BY <3>1, <3>2
    <2>4. CASE ScheduleTimer
      BY <2>4, ScheduleTimerStep
    <2>5. CASE Tick
      <3>1. alarm' = alarm - 1 /\ alarm \in -1..Off
        BY <2>1, <2>5 DEF Tick, Typed
      <3> QED
        BY <2>1, <3>1
    <2>6. ASSUME NEW n \in Nodes, RouteUpdate(n) \/ \E hello \in BOOLEAN : NeighborUpdate(n, hello)
          PROVE  Step
      <3>1. alarm' = AlarmWithout(n)
        BY <2>6 DEF RouteUpdate, NeighborUpdate
      <3> QED
        BY <3>1, RemovalStops
    <2>7. ASSUME NEW n \in Nodes, NEW type \in {"RREQ", "LR"}, SendRequest(n, type)
          PROVE  Step
      <3>1. alarm' = alarm
        BY <2>7 DEF SendRequest
      <3> QED
        BY <3>1
    <2> QED
      BY <2>2, <2>3, <2>4, <2>5, <2>6, <2>7 DEF Next
  <1> QED
    BY <1>1, Invariance, PTL DEF Spec, AlarmStops
=============================================================================
