------------------------- MODULE AodvNetworkProofs -------------------------
(* Proofs about daemons that exchange messages, for any number of nodes,   *)
(* links and requests, every bound, and any loss, delay and timeout.       *)
EXTENDS AodvNetwork, ListLemmas, FiniteSetTheorems

Flags == {"NONE", "ACTIVE", "BROKEN", "INVALID"}

Entry == [flags : Flags, hops : Nat, last : Nat, next : Nodes \cup {None},
          seq : Nat, live : BOOLEAN]

(* All that matters of a daemon is its table.                              *)
HasTable(s) == "rtable" \in DOMAIN s /\ s.rtable \in [Nodes -> Entry]

(* What the proofs need of the constants.                                  *)
LEMMA Constants ==
    /\ Node!Dests = Nodes /\ None \notin Nodes /\ Node!Infinity = 60
    /\ MaxHops \in 1..58 /\ MaxSeq \in Nat /\ Order \in Seq(Nodes)
    /\ \A n \in Nodes : {n, n} \notin Links
  <1>1. Node!Dests = Nodes
    BY DEF Node!Dests, Nodes
  <1>2. \A n \in Nodes : {n, n} \notin Links
    <2> SUFFICES ASSUME NEW n \in Nodes, {n, n} \in Links
                 PROVE  FALSE
      OBVIOUS
    <2>1. Cardinality({n}) = 1
      BY FS_Singleton
    <2>2. {n} \in Links /\ 1 # 2
      OBVIOUS
    <2>3. \A l \in Links : Cardinality(l) = 2
      BY NetworkAssumption
    <2> QED
      BY <2>1, <2>2, <2>3
  <1> QED
    BY <1>1, <1>2, NetworkAssumption DEF Node!TableAssumption, Node!Infinity, None

-----------------------------------------------------------------------------
(* What updates, messages and timers do to a table.                        *)

(* A daemon whose table stays.                                             *)
LEMMA OtherField ==
    ASSUME NEW s, HasTable(s), NEW f \in STRING \ {"rtable"}, NEW v
    PROVE  LET t == [s EXCEPT ![f] = v]
           IN HasTable(t) /\ t.rtable = s.rtable
  BY DEF HasTable

(* A daemon with one entry changed.                                        *)
LEMMA EntryPut ==
    ASSUME NEW s, HasTable(s), NEW d \in Nodes, NEW e \in Entry
    PROVE  LET t == [s EXCEPT !.rtable[d] = e]
           IN /\ HasTable(t) /\ t.rtable[d] = e
              /\ \A x \in Nodes \ {d} : t.rtable[x] = s.rtable[x]
  BY DEF HasTable

(* The entry of a new route.                                               *)
LEMMA RouteEntry ==
    ASSUME NEW e \in Entry, NEW p \in Nodes, NEW q \in Nat, NEW h \in Nat
    PROVE  LET f == Node!Route(e, p, q, h)
           IN /\ f \in Entry /\ f.flags = "ACTIVE" /\ f.next = p /\ f.seq = q /\ f.hops = h
  BY DEF Node!Route, Entry, Flags

(* removeRREQTimer *)
LEMMA RouteFoundFacts ==
    ASSUME NEW s, HasTable(s), NEW d \in Nodes, NEW t \in RouteFound(s, d)
    PROVE  HasTable(t) /\ t.rtable = s.rtable
  <1> DEFINE found == Node!Answer(s, d)
             ended(k) == Node!EndTimer(found, d, k)
  <1>1. HasTable(found) /\ found.rtable = s.rtable
    BY DEF HasTable, Node!Answer
  <1> HIDE DEF found
  <1>2. ASSUME NEW k
        PROVE  HasTable(ended(k)) /\ ended(k).rtable = s.rtable
    BY <1>1 DEF HasTable, Node!EndTimer
  <1>3. \/ t = found
        \/ \E k : t = ended(k) \/ t = Node!OffRepairList(ended(k), d)
    BY DEF RouteFound, found
  <1> HIDE DEF ended
  <1>4. ASSUME NEW k
        PROVE  LET u == Node!OffRepairList(ended(k), d)
               IN HasTable(u) /\ u.rtable = s.rtable
    BY <1>2 DEF HasTable, Node!OffRepairList
  <1> QED
    BY <1>1, <1>2, <1>3, <1>4

(* Route p itself, by a message with number q.                             *)
LEMMA NeighborFacts ==
    ASSUME NEW s, HasTable(s), NEW p \in Nodes, NEW q \in Nat, NEW hello,
           NEW t \in NeighborUpdate(s, p, q, hello)
    PROVE  /\ HasTable(t) /\ t.rtable[p] = Node!Route(s.rtable[p], p, q, 1)
           /\ \A x \in Nodes \ {p} : t.rtable[x] = s.rtable[x]
  <1> DEFINE e == Node!Route(s.rtable[p], p, q, 1)
             v == [s EXCEPT !.rtable[p] = e]
             w == Node!AddKroute(v, p)
  <1>1. e \in Entry
    BY RouteEntry DEF HasTable
  <1> HIDE DEF e
  <1>2. /\ HasTable(v) /\ v.rtable[p] = e
        /\ \A x \in Nodes \ {p} : v.rtable[x] = s.rtable[x]
    BY <1>1, EntryPut
  <1>3. \E u \in RouteFound(v, p) \cup RouteFound(w, p) :
           t = [u EXCEPT !.watch = IF hello THEN u.watch \cup {p} ELSE u.watch]
    BY DEF NeighborUpdate, Node!NeighborEntry, e
  <1> HIDE DEF v
  <1>4. HasTable(w) /\ w.rtable = v.rtable
    BY <1>2 DEF HasTable, Node!AddKroute
  <1> HIDE DEF w
  <1>5. PICK u \in RouteFound(v, p) \cup RouteFound(w, p) :
           t = [u EXCEPT !.watch = IF hello THEN u.watch \cup {p} ELSE u.watch]
    BY <1>3
  <1>6. HasTable(u) /\ u.rtable = v.rtable
    BY <1>2, <1>4, RouteFoundFacts
  <1>7. HasTable(t) /\ t.rtable = u.rtable
    BY <1>5, <1>6 DEF HasTable
  <1> QED
    BY <1>2, <1>6, <1>7 DEF e

(* A route to d by way of p, if the message is fresher than the entry.     *)
LEMMA RouteUpdateFacts ==
    ASSUME NEW s, HasTable(s), NEW d \in Nodes, NEW p \in Nodes, NEW q \in Nat, NEW h \in Nat,
           NEW t \in RouteUpdate(s, d, p, q, h)
    PROVE  /\ HasTable(t)
           /\ t.rtable[d] = IF Node!Fresher(s.rtable[d], q, h)
                            THEN Node!Route(s.rtable[d], p, q, h) ELSE s.rtable[d]
           /\ \A x \in Nodes \ {d} : t.rtable[x] = s.rtable[x]
  <1> DEFINE e == s.rtable[d]
             r == Node!Route(e, p, q, h)
             v == [s EXCEPT !.rtable[d] = r]
             w == Node!AddKroute(v, d)
             new == Node!NewEntry(s, d, p, q, h)
             replaced == Node!ReplaceEntry(s, d, p, q, h, Node!Moved(e, p, h))
  <1>1. r \in Entry /\ r.flags = "ACTIVE"
    BY RouteEntry DEF HasTable
  <1>2. /\ HasTable(v) /\ v.rtable[d] = r
        /\ \A x \in Nodes \ {d} : v.rtable[x] = s.rtable[x]
    <2> HIDE DEF r
    <2> QED
      BY <1>1, EntryPut
  <1>3. new = w
    BY DEF Node!NewEntry, HasTable
  <1>4. e.flags = "ACTIVE" => replaced \in {v, w}
    <2> SUFFICES ASSUME e.flags = "ACTIVE"
                 PROVE  replaced \in {v, w}
      OBVIOUS
    <2>1. [r EXCEPT !.flags = e.flags] = r
      <3> HIDE DEF r
      <3> QED
        BY <1>1 DEF Entry
    <2>2. v = [s EXCEPT !.rtable[d] = [r EXCEPT !.flags = e.flags]]
      BY <2>1
    <2> QED
      BY <2>2 DEF Node!ReplaceEntry, HasTable
  <1> HIDE DEF v, r, new, replaced
  <1>5. HasTable(w) /\ w.rtable = v.rtable
    BY <1>2 DEF HasTable, Node!AddKroute
  <1> HIDE DEF w
  <1>6. CASE ~Node!Fresher(e, q, h)
    <2>1. t \in RouteFound(s, d)
      BY <1>6 DEF RouteUpdate
    <2>2. HasTable(t) /\ t.rtable = s.rtable
      BY <2>1, RouteFoundFacts
    <2> QED
      BY <1>6, <2>2
  <1>7. CASE Node!Fresher(e, q, h)
    <2>1. t \in RouteFound(v, d) \cup RouteFound(w, d)
      BY <1>3, <1>4, <1>7 DEF RouteUpdate, new, replaced
    <2>2. HasTable(t) /\ t.rtable = v.rtable
      BY <1>2, <1>5, <2>1, RouteFoundFacts
    <2> QED
      BY <1>2, <1>7, <2>2 DEF r
  <1> QED
    BY <1>6, <1>7

(* What a message of neighbour p about d makes of a table: p is a          *)
(* neighbour, and d is behind it, if the message is fresher.               *)
Learns(s, t, p, d, q, h) ==
    /\ HasTable(t)
    /\ t.rtable[p] = Node!Route(s.rtable[p], p, IF d = p THEN q ELSE 0, 1)
    /\ \A x \in Nodes \ {p, d} : t.rtable[x] = s.rtable[x]
    /\ d # p => \/ t.rtable[d] = s.rtable[d]
                \/ /\ Node!Fresher(s.rtable[d], q, h)
                   /\ t.rtable[d] = Node!Route(s.rtable[d], p, q, h)

(* Nothing staler or longer than the message is left.                      *)
Heeds(t, p, d, q, h) ==
    LET f == t.rtable[d]
    IN f.flags = "ACTIVE" /\ (f.seq > q \/ (f.seq = q /\ f.hops <= h))

(* After the comparison of an update the entry is no worse than the        *)
(* message.                                                                *)
LEMMA UpdateHeeds ==
    ASSUME NEW s, HasTable(s), NEW d \in Nodes, NEW p \in Nodes, NEW q \in Nat, NEW h \in Nat,
           NEW t, HasTable(t), t.rtable[d] = IF Node!Fresher(s.rtable[d], q, h)
                               THEN Node!Route(s.rtable[d], p, q, h) ELSE s.rtable[d]
    PROVE  Heeds(t, p, d, q, h)
  <1> DEFINE e == s.rtable[d]
  <1>1. e \in Entry
    BY DEF HasTable
  <1>2. CASE Node!Fresher(e, q, h)
    BY <1>1, <1>2, RouteEntry DEF Heeds
  <1>3. CASE ~Node!Fresher(e, q, h)
    BY <1>1, <1>3 DEF Heeds, Node!Fresher, Entry
  <1> QED
    BY <1>2, <1>3

(* The two updates that a message may set off.                             *)
LEMMA UpdateFacts ==
    ASSUME NEW s, HasTable(s), NEW d \in Nodes, NEW p \in Nodes, NEW q \in Nat, NEW h \in Nat \ {0},
           NEW hello, NEW skip,
           NEW u \in NeighborUpdate(s, p, IF d = p THEN q ELSE 0, hello),
           NEW t \in IF skip \/ d = p THEN {u} ELSE RouteUpdate(u, d, p, q, h)
    PROVE  Learns(s, t, p, d, q, h) /\ (~skip => Heeds(t, p, d, q, h))
  <1> DEFINE k == IF d = p THEN q ELSE 0
  <1>1. k \in Nat
    OBVIOUS
  <1>2. /\ HasTable(u) /\ u.rtable[p] = Node!Route(s.rtable[p], p, k, 1)
        /\ \A x \in Nodes \ {p} : u.rtable[x] = s.rtable[x]
    <2> HIDE DEF k
    <2>1. u \in NeighborUpdate(s, p, k, hello)
      BY DEF k
    <2> QED
      BY <1>1, <2>1, NeighborFacts
  <1>3. CASE d = p
    <2>1. t = u
      BY <1>3
    <2>2. LET f == Node!Route(s.rtable[p], p, k, 1)
          IN f.flags = "ACTIVE" /\ f.seq = k /\ f.hops = 1
      <3> HIDE DEF k
      <3>1. s.rtable[p] \in Entry /\ 1 \in Nat
        BY DEF HasTable
      <3> QED
        BY <1>1, <3>1 DEF Node!Route, Entry
    <2> QED
      BY <1>2, <1>3, <2>1, <2>2 DEF Learns, Heeds
  <1>4. CASE d # p /\ skip
    BY <1>2, <1>4 DEF Learns
  <1>5. CASE d # p /\ ~skip
    <2>1. t \in RouteUpdate(u, d, p, q, h)
      BY <1>5
    <2>2. /\ HasTable(t)
          /\ t.rtable[d] = IF Node!Fresher(u.rtable[d], q, h)
                           THEN Node!Route(u.rtable[d], p, q, h) ELSE u.rtable[d]
          /\ \A x \in Nodes \ {d} : t.rtable[x] = u.rtable[x]
      BY <1>2, <2>1, RouteUpdateFacts
    <2>3. Heeds(t, p, d, q, h)
      BY <1>2, <2>2, UpdateHeeds
    <2> QED
      BY <1>2, <1>5, <2>2, <2>3 DEF Learns
  <1> QED
    BY <1>3, <1>4, <1>5

(* An RREQ that is not a repeated one is heeded.                           *)
LEMMA RREQFacts ==
    ASSUME NEW s, HasTable(s), NEW p \in Nodes, NEW d \in Nodes, NEW q \in Nat, NEW h \in Nat,
           NEW seen, NEW t \in AfterRREQ(s, p, d, q, h, seen)
    PROVE  Learns(s, t, p, d, q, h + 1) /\ (~seen => Heeds(t, p, d, q, h + 1))
  <1>1. h + 1 \in Nat \ {0}
    OBVIOUS
  <1>2. PICK u \in NeighborUpdate(s, p, IF d = p THEN q ELSE 0, FALSE) :
           t \in IF seen \/ d = p THEN {u} ELSE RouteUpdate(u, d, p, q, h + 1)
    BY DEF AfterRREQ
  <1> QED
    BY <1>1, <1>2, UpdateFacts

(* An RREP is heeded always.                                               *)
LEMMA RREPFacts ==
    ASSUME NEW s, HasTable(s), NEW p \in Nodes, NEW d \in Nodes, NEW q \in Nat, NEW h \in Nat,
           NEW hello, NEW t \in AfterRREP(s, p, d, q, h, hello)
    PROVE  Learns(s, t, p, d, q, h + 1) /\ Heeds(t, p, d, q, h + 1)
  <1>1. h + 1 \in Nat \ {0}
    OBVIOUS
  <1>2. PICK u \in NeighborUpdate(s, p, IF d = p THEN q ELSE 0, hello) :
           t \in IF FALSE \/ d = p THEN {u} ELSE RouteUpdate(u, d, p, q, h + 1)
    BY DEF AfterRREP
  <1> QED
    BY <1>1, <1>2, UpdateFacts

-----------------------------------------------------------------------------
(* Steps that make no route.                                               *)

(* A route is the one it was.                                              *)
Alike(e, f) ==
    f.flags = "ACTIVE" => /\ e.flags = "ACTIVE" /\ f.next = e.next
                          /\ f.seq = e.seq /\ f.hops = e.hops

NoneNew(s, t) == HasTable(t) /\ \A x \in Nodes : Alike(s.rtable[x], t.rtable[x])

(* A route of Infinity hops would be taken for one that has ended.         *)
Short(s) == \A x \in Nodes : s.rtable[x].flags = "ACTIVE" => s.rtable[x].hops # 60

(* One entry that is like the old one.                                     *)
LEMMA OnePut ==
    ASSUME NEW s, HasTable(s), NEW d \in Nodes, NEW e \in Entry, Alike(s.rtable[d], e),
           NEW t, HasTable(t), t.rtable = [s EXCEPT !.rtable[d] = e].rtable
    PROVE  NoneNew(s, t)
  <1>1. /\ t.rtable[d] = e
        /\ \A x \in Nodes \ {d} : t.rtable[x] = s.rtable[x]
    BY DEF HasTable
  <1> QED
    BY <1>1 DEF NoneNew, Alike

(* Two steps without a new route make one.                                 *)
LEMMA NoneNewTwice ==
    ASSUME NEW s, NEW t, NEW u, NoneNew(s, t), NoneNew(t, u)
    PROVE  NoneNew(s, u)
  BY DEF NoneNew, Alike

(* makeInvalid leaves an entry that is not active.                         *)
LEMMA InvalidEntry ==
    ASSUME NEW e \in Entry
    PROVE  Node!Invalid(e) \in Entry /\ Node!Invalid(e).flags = "INVALID"
  <1>1. Node!Infinity \in Nat
    BY Constants
  <1> QED
    BY <1>1 DEF Node!Invalid, Entry, Flags

(* updateInvalidEntries *)
LEMMA HeardFacts ==
    ASSUME NEW s, HasTable(s), Short(s), NEW d \in Nodes, NEW q \in Nat
    PROVE  LET t == Node!Heard(s, d, q)
           IN NoneNew(s, t) /\ (s.rtable[d].flags = "ACTIVE" => t.rtable = s.rtable)
  <1> DEFINE e == s.rtable[d]
             f == [e EXCEPT !.seq = IF e.hops = 60 /\ q > e.seq THEN q ELSE e.seq]
             t == [s EXCEPT !.rtable[d] = f]
  <1>1. e \in Entry
    BY DEF HasTable
  <1>2. f \in Entry /\ f.flags = e.flags /\ Alike(e, f) /\ (e.flags = "ACTIVE" => f = e)
    BY <1>1 DEF Entry, Alike, Short
  <1>3. t = Node!Heard(s, d, q)
    BY Constants DEF Node!Heard, HasTable
  <1> HIDE DEF f
  <1>4. /\ HasTable(t) /\ t.rtable[d] = f
        /\ \A x \in Nodes \ {d} : t.rtable[x] = s.rtable[x]
    BY <1>2, EntryPut
  <1> HIDE DEF t
  <1>5. NoneNew(s, t)
    BY <1>2, <1>4 DEF NoneNew, Alike
  <1>6. e.flags = "ACTIVE" => t.rtable = s.rtable
    BY <1>2, <1>4 DEF HasTable
  <1> QED
    BY <1>3, <1>5, <1>6

(* What is left of a RERR before the entry ends: the sender is a neighbour,  *)
(* and no other route is new.                                              *)
Sender(s, u, p) ==
    /\ HasTable(u)
    /\ \A x \in Nodes : \/ Alike(s.rtable[x], u.rtable[x])
                        \/ x = p /\ Alike(Node!Route(s.rtable[p], p, 0, 1), u.rtable[x])

(* A RERR makes its sender a neighbour, before it ends a route.            *)
LEMMA SenderFirst ==
    ASSUME NEW s, HasTable(s), Short(s), NEW p \in Nodes, NEW d \in Nodes, NEW q \in Nat,
           NEW w \in NeighborUpdate(s, p, 0, FALSE)
    PROVE  Sender(s, Node!Heard(w, d, q), p)
  <1> DEFINE r == Node!Route(s.rtable[p], p, 0, 1)
             u == Node!Heard(w, d, q)
  <1>1. r \in Entry /\ r.hops = 1
    BY DEF HasTable, Node!Route, Entry, Flags
  <1>2. /\ HasTable(w) /\ w.rtable[p] = r
        /\ \A x \in Nodes \ {p} : w.rtable[x] = s.rtable[x]
    <2>1. PICK z, b : z = 0 /\ b = FALSE /\ w \in NeighborUpdate(s, p, z, b)
      OBVIOUS
    <2>2. /\ HasTable(w) /\ w.rtable[p] = Node!Route(s.rtable[p], p, z, 1)
          /\ \A x \in Nodes \ {p} : w.rtable[x] = s.rtable[x]
      BY <2>1, NeighborFacts
    <2> QED
      BY <2>1, <2>2
  <1> HIDE DEF r
  <1>3. Short(w)
    BY <1>1, <1>2 DEF Short
  <1>4. NoneNew(w, u)
    BY <1>2, <1>3, HeardFacts
  <1> QED
    BY <1>2, <1>4 DEF NoneNew, Sender, r

(* What follows brings no other route.                                     *)
LEMMA SenderKept ==
    ASSUME NEW s, NEW u, NEW t, NEW p \in Nodes, Sender(s, u, p), NoneNew(u, t)
    PROVE  Sender(s, t, p)
  BY DEF Sender, NoneNew, Alike

(* processRERR: the only new route is the one to the sender.               *)
LEMMA RERRFacts ==
    ASSUME NEW s, HasTable(s), Short(s), NEW p \in Nodes, NEW d \in Nodes, NEW q \in Nat,
           NEW one, NEW t \in AfterRERR(s, p, d, q, one)
    PROVE  Sender(s, t, p)
  <1>1. PICK w \in NeighborUpdate(s, p, 0, FALSE) :
           LET u == Node!Heard(w, d, q)
               v == IF u.rtable[d].flags = "BROKEN" THEN Node!OffRepairList(u, d) ELSE u
           IN t = IF ~Node!Lost(u, d, p) THEN u
                  ELSE [Node!MakeInvalid(v, d, q) EXCEPT
                          !.down = IF one THEN "rerr" ELSE @]
    BY DEF AfterRERR
  <1> DEFINE u == Node!Heard(w, d, q)
             v == IF u.rtable[d].flags = "BROKEN" THEN Node!OffRepairList(u, d) ELSE u
             m == Node!MakeInvalid(v, d, q)
  <1>2. Sender(s, u, p)
    BY SenderFirst
  <1> HIDE DEF u
  <1>3. NoneNew(u, v)
    <2>1. HasTable(u)
      BY <1>2 DEF Sender
    <2>2. HasTable(v) /\ v.rtable = u.rtable
      BY <2>1 DEF Node!OffRepairList, HasTable
    <2> QED
      BY <2>2 DEF NoneNew, Alike
  <1> HIDE DEF v
  <1>4. NoneNew(v, m)
    <2> DEFINE i == Node!Invalid(v.rtable[d])
               e == [i EXCEPT !.last = v.rtable[d].hops, !.seq = q]
    <2>1. HasTable(v)
      BY <1>3 DEF NoneNew
    <2>2. e \in Entry /\ Alike(v.rtable[d], e)
      <3>1. v.rtable[d] \in Entry
        BY <2>1 DEF HasTable
      <3>2. i \in Entry /\ i.flags = "INVALID"
        BY <3>1, InvalidEntry
      <3> HIDE DEF i
      <3> QED
        BY <3>1, <3>2 DEF Entry, Alike
    <2>3. m = [v EXCEPT !.rtable[d] = e]
      BY <2>1 DEF Node!MakeInvalid, HasTable
    <2> HIDE DEF e, m
    <2>4. HasTable(m)
      BY <2>1, <2>2, <2>3, EntryPut
    <2> QED
      BY <2>1, <2>2, <2>3, <2>4, OnePut
  <1> HIDE DEF m
  <1>5. CASE t = u
    BY <1>2, <1>5
  <1>6. CASE t = [m EXCEPT !.down = IF one THEN "rerr" ELSE @]
    <2>1. HasTable(t) /\ t.rtable = m.rtable
      BY <1>4, <1>6 DEF NoneNew, HasTable
    <2>2. NoneNew(m, t)
      BY <2>1 DEF NoneNew, Alike
    <2>3. NoneNew(u, t)
      BY <1>3, <1>4, <2>2, NoneNewTwice
    <2> QED
      BY <1>2, <2>3, SenderKept
  <1> QED
    BY <1>1, <1>5, <1>6 DEF u, v, m

(* A route with the number of a RERR with the N flag.                      *)
Renumbered(e, f, q) ==
    f.flags = "ACTIVE" /\ f.seq = q /\ e.flags = "ACTIVE" /\ f.next = e.next /\ f.hops = e.hops

(* A RERR with the N flag: the number of the destination may change as     *)
(* well.                                                                   *)
LEMMA RepairedFacts ==
    ASSUME NEW s, HasTable(s), Short(s), NEW p \in Nodes, NEW d \in Nodes, NEW q \in Nat,
           NEW t \in AfterRepaired(s, p, d, q)
    PROVE  \E u : /\ Sender(s, u, p) /\ HasTable(t)
                  /\ \A x \in Nodes : \/ t.rtable[x] = u.rtable[x]
                                      \/ x = d /\ Renumbered(u.rtable[d], t.rtable[d], q)
  <1>1. PICK w \in NeighborUpdate(s, p, 0, FALSE) :
           LET u == Node!Heard(w, d, q)
               e == u.rtable[d]
           IN t = [u EXCEPT !.rtable[d].seq = IF Node!Active(e) /\ e.next = p THEN q ELSE @]
    BY DEF AfterRepaired, Node!TakeNumber
  <1> DEFINE u == Node!Heard(w, d, q)
             e == u.rtable[d]
             f == [e EXCEPT !.seq = IF Node!Active(e) /\ e.next = p THEN q ELSE e.seq]
  <1>2. Sender(s, u, p)
    BY SenderFirst
  <1>3. t = [u EXCEPT !.rtable[d] = f]
    BY <1>1
  <1> HIDE DEF u
  <1>4. HasTable(u) /\ e \in Entry
    BY <1>2 DEF Sender, HasTable
  <1>5. f \in Entry /\ (f = e \/ Renumbered(e, f, q))
    BY <1>4 DEF Entry, Renumbered, Node!Active
  <1> HIDE DEF f
  <1>6. /\ HasTable(t) /\ t.rtable[d] = f
        /\ \A x \in Nodes \ {d} : t.rtable[x] = u.rtable[x]
    BY <1>3, <1>4, <1>5, EntryPut
  <1> QED
    BY <1>2, <1>5, <1>6

(* A step that leaves the table alone.                                     *)
LEMMA SameTable ==
    ASSUME NEW s, NEW t, HasTable(t), t.rtable = s.rtable
    PROVE  NoneNew(s, t)
  BY DEF NoneNew, Alike

(* process_asl *)
LEMMA AslFacts ==
    ASSUME NEW s, HasTable(s), NEW d \in Nodes, NEW local
    PROVE  NoneNew(s, AfterAsl(s, d, local))
  <1> DEFINE t == AfterAsl(s, d, local)
  <1>1. CASE t = Node!SendRREQ(s, d)
    <2> DEFINE e == s.rtable[d]
               f == [e EXCEPT !.live = e.live \/ e.flags # "NONE"]
               v == [s EXCEPT !.rtable[d] = f]
    <2>1. f \in Entry /\ Alike(e, f)
      BY DEF HasTable, Entry, Alike
    <2>2. PICK x, y, z :
             t = [v EXCEPT !.rreqL = x, !.search = y, !.waiting = z]
      <3>1. PICK x, y, z : Node!SendRREQ(s, d) = [v EXCEPT !.rreqL = x, !.search = y, !.waiting = z]
        BY DEF Node!SendRREQ
      <3> HIDE DEF t, v
      <3> QED
        BY <1>1, <3>1
    <2> HIDE DEF f, t
    <2>3. HasTable(v)
      BY <2>1, EntryPut
    <2>4. HasTable(t) /\ t.rtable = v.rtable
      <3> HIDE DEF v
      <3> QED
        BY <2>2, <2>3 DEF HasTable
    <2>5. NoneNew(s, t)
      BY <2>1, <2>4, OnePut
    <2> QED
      BY <2>5 DEF t
  <1>2. CASE \E x, y : t = [s EXCEPT !.search = x, !.waiting = y]
    <2>1. HasTable(t) /\ t.rtable = s.rtable
      BY <1>2 DEF HasTable
    <2> QED
      BY <2>1, SameTable
  <1>3. CASE \E y : t = [s EXCEPT !.waiting = y]
    <2>1. HasTable(t) /\ t.rtable = s.rtable
      BY <1>3 DEF HasTable
    <2> QED
      BY <2>1, SameTable
  <1>4. \/ t = Node!SendRREQ(s, d)
        \/ \E x, y : t = [s EXCEPT !.search = x, !.waiting = y]
        \/ \E y : t = [s EXCEPT !.waiting = y]
    <2>1. \E y : Node!Answer(s, d) = [s EXCEPT !.waiting = y]
      BY DEF Node!Answer
    <2>2. \E x, y : Node!LocalRepair(s, d) = [s EXCEPT !.search = x, !.waiting = y]
      BY DEF Node!LocalRepair
    <2>3. \/ t \in {Node!Answer(s, d), Node!SendRREQ(s, d), Node!LocalRepair(s, d)}
          \/ t = [s EXCEPT !.waiting[d] = IF @ = "no" THEN "repair" ELSE @]
      BY DEF AfterAsl
    <2> HIDE DEF t
    <2> QED
      BY <2>1, <2>2, <2>3
  <1> QED
    BY <1>1, <1>2, <1>3, <1>4

(* resendRREQ *)
LEMMA ResentFacts ==
    ASSUME NEW s, HasTable(s), NEW d \in Nodes
    PROVE  NoneNew(s, Node!Resent(s, d))
  <1> DEFINE t == Node!Resent(s, d)
  <1>1. \E x, y, z : \/ t = [s EXCEPT !.search = x]
                     \/ t = [s EXCEPT !.rreqL = x]
                     \/ t = [[s EXCEPT !.waiting = x] EXCEPT !.search = y, !.rreqL = z]
    BY DEF Node!Resent, Node!Answer
  <1> HIDE DEF t
  <1>2. HasTable(t) /\ t.rtable = s.rtable
    BY <1>1 DEF HasTable
  <1>3. NoneNew(s, t)
    BY <1>2, SameTable
  <1> QED
    BY <1>3 DEF t

(* LR_handler *)
LEMMA GivenUpFacts ==
    ASSUME NEW s, HasTable(s), NEW d \in Nodes
    PROVE  NoneNew(s, Node!GivenUp(s, d))
  <1> DEFINE e == s.rtable[d]
             i == Node!Invalid(e)
             f == IF e.flags = "NONE" THEN e ELSE [i EXCEPT !.last = e.hops]
             v == [s EXCEPT !.rtable[d] = f]
             t == Node!GivenUp(s, d)
  <1>1. f \in Entry /\ Alike(e, f)
    <2>1. e \in Entry
      BY DEF HasTable
    <2>2. i \in Entry /\ i.flags = "INVALID"
      BY <2>1, InvalidEntry
    <2> HIDE DEF i
    <2> QED
      BY <2>1, <2>2 DEF Entry, Alike
  <1>2. HasTable(t) /\ t.rtable = v.rtable
    <2> DEFINE w == Node!OffRepairList(Node!Answer(s, d), d)
    <2>1. HasTable(w) /\ w.rtable = s.rtable
      BY DEF HasTable, Node!OffRepairList, Node!Answer
    <2>2. PICK x : t = [w EXCEPT !.search = x, !.rtable = [w.rtable EXCEPT ![d] = f]]
      BY <2>1 DEF Node!GivenUp
    <2> HIDE DEF w, f, t
    <2> QED
      BY <1>1, <2>1, <2>2 DEF HasTable
  <1> HIDE DEF f
  <1>3. NoneNew(s, t)
    <2> HIDE DEF t
    <2> QED
      BY <1>1, <1>2, OnePut
  <1> QED
    BY <1>3

(* The end of a lifetime.                                                  *)
LEMMA ExpiredFacts ==
    ASSUME NEW s, HasTable(s), NEW d \in Nodes
    PROVE  NoneNew(s, Node!Expired(s, d))
  <1> DEFINE e == s.rtable[d]
             f == [e EXCEPT !.live = FALSE]
             t == [s EXCEPT !.rtable[d] = f]
  <1>1. f \in Entry /\ Alike(e, f)
    BY DEF HasTable, Entry, Alike
  <1>2. t = Node!Expired(s, d)
    BY DEF Node!Expired
  <1> HIDE DEF f
  <1>3. HasTable(t)
    BY <1>1, EntryPut
  <1>4. NoneNew(s, t)
    BY <1>1, <1>3, OnePut
  <1> QED
    BY <1>2, <1>4

(* neighbor_timeout_handler *)
LEMMA BrokenFacts ==
    ASSUME NEW e \in Entry
    PROVE  /\ Node!Broken(e) \in Entry /\ Alike(e, Node!Broken(e))
           /\ Node!BrokenNeighbor(e) \in Entry /\ Alike(e, Node!BrokenNeighbor(e))
  <1> DEFINE k == Node!Next1(e.seq)
             g == [e EXCEPT !.flags = "BROKEN", !.live = TRUE, !.last = e.hops, !.seq = k]
             h == [e EXCEPT !.flags = "BROKEN", !.live = TRUE, !.hops = e.last]
  <1>1. k \in Nat
    BY DEF Node!Next1, Entry
  <1>2. Node!Broken(e) = g
    BY DEF Node!Broken
  <1> HIDE DEF k
  <1>3. g \in Entry /\ Alike(e, g)
    BY <1>1 DEF Entry, Alike, Flags
  <1>4. h \in Entry /\ Alike(e, h)
    BY DEF Entry, Alike, Flags
  <1>5. Node!BrokenNeighbor(e) \in {e, h, g}
    BY <1>2 DEF Node!BrokenNeighbor
  <1>6. Alike(e, e)
    BY DEF Alike
  <1> HIDE DEF g, h
  <1> QED
    BY <1>2, <1>3, <1>4, <1>5, <1>6

(* The end of a neighbour.                                                 *)
LEMMA TimedOutFacts ==
    ASSUME NEW s, HasTable(s), NEW p, NEW read
    PROVE  NoneNew(s, Node!TimedOut(s, p, read))
  <1> DEFINE behind == {d \in Nodes \ {p} : s.rtable[d].flags = "ACTIVE" /\ s.rtable[d].next = read}
             f(d) == IF d = p THEN Node!BrokenNeighbor(s.rtable[d])
                     ELSE IF d \in behind THEN Node!Broken(s.rtable[d]) ELSE s.rtable[d]
             t == Node!TimedOut(s, p, read)
  <1>1. "rtable" \in DOMAIN t /\ t.rtable = [d \in Nodes |-> f(d)]
    BY Constants DEF Node!TimedOut, HasTable
  <1> HIDE DEF behind, t
  <1>2. ASSUME NEW x \in Nodes
        PROVE  f(x) \in Entry /\ Alike(s.rtable[x], f(x))
    <2>1. s.rtable[x] \in Entry /\ Alike(s.rtable[x], s.rtable[x])
      BY DEF HasTable, Alike
    <2> QED
      BY <2>1, BrokenFacts
  <1>3. [d \in Nodes |-> f(d)] \in [Nodes -> Entry] /\ \A x \in Nodes : [d \in Nodes |-> f(d)][x] = f(x)
    BY <1>2
  <1> HIDE DEF f
  <1>4. NoneNew(s, t)
    BY <1>1, <1>2, <1>3 DEF NoneNew, HasTable
  <1> QED
    BY <1>4 DEF t

-----------------------------------------------------------------------------
(* refreshEntries                                                          *)

(* One round of refreshEntries.                                            *)
LEMMA RefreshEntryFacts ==
    ASSUME NEW s, HasTable(s), NEW d \in Nodes, NEW busy
    PROVE  NoneNew(s, Node!RefreshEntry(s, d, busy))
  <1> DEFINE e == s.rtable[d]
             expired(x) == [Node!Invalid(x) EXCEPT
                              !.last = IF x.flags = "ACTIVE" THEN x.hops ELSE @,
                              !.seq = IF x.flags = "ACTIVE" THEN Node!Next1(@) ELSE @]
             behind(x) == e.hops = 1 /\ x.next = d /\ x.flags # "NONE" /\ x.hops # Node!Infinity
             f(x) == IF x = d \/ behind(s.rtable[x]) THEN expired(s.rtable[x]) ELSE s.rtable[x]
             t == Node!RefreshEntry(s, d, busy)
  <1>1. \A x \in Nodes : s.rtable[x] \in Entry /\ Alike(s.rtable[x], s.rtable[x])
    BY DEF HasTable, Alike
  <1>2. \/ t = s
        \/ t = [s EXCEPT !.rtable[d] = Node!NoRoute]
        \/ t = [s EXCEPT !.rtable = [x \in Nodes |-> f(x)]]
        \/ t = [s EXCEPT !.down = "refresh"]
        \/ t = [s EXCEPT !.rtable[d].live = TRUE, !.rtable[e.next].live = TRUE]
    BY Constants DEF Node!RefreshEntry
  <1> SUFFICES NoneNew(s, t)
    OBVIOUS
  <1> HIDE DEF t
  <1>3. CASE t = s
    BY <1>3, SameTable
  <1>4. CASE t = [s EXCEPT !.rtable[d] = Node!NoRoute]
    <2>1. Node!NoRoute \in Entry /\ Alike(e, Node!NoRoute)
      BY DEF Node!NoRoute, Entry, Flags, Alike, None
    <2>2. HasTable(t)
      BY <1>4, <2>1, EntryPut
    <2> QED
      BY <1>4, <2>1, <2>2, OnePut
  <1>5. CASE t = [s EXCEPT !.rtable = [x \in Nodes |-> f(x)]]
    <2>1. ASSUME NEW x \in Nodes
          PROVE  f(x) \in Entry /\ Alike(s.rtable[x], f(x))
      <3> DEFINE g == s.rtable[x]
                 i == Node!Invalid(g)
                 k == Node!Next1(i.seq)
                 l == IF g.flags = "ACTIVE" THEN g.hops ELSE i.last
                 q == IF g.flags = "ACTIVE" THEN k ELSE i.seq
                 h == [i EXCEPT !.last = l, !.seq = q]
      <3>1. i \in Entry /\ i.flags = "INVALID"
        BY <1>1, InvalidEntry
      <3>2. expired(g) = h
        <4>1. i \in Entry
          BY <3>1
        <4> QED
          BY <4>1 DEF Entry
      <3> HIDE DEF i
      <3>3. l \in Nat /\ q \in Nat
        BY <1>1, <3>1 DEF Entry, Node!Next1
      <3> HIDE DEF l, q
      <3>4. h \in Entry /\ Alike(g, h)
        BY <3>1, <3>3 DEF Entry, Alike
      <3> HIDE DEF h, expired
      <3> QED
        BY <1>1, <3>2, <3>4
    <2>2. /\ [x \in Nodes |-> f(x)] \in [Nodes -> Entry]
          /\ \A x \in Nodes : [y \in Nodes |-> f(y)][x] = f(x)
      <3> HIDE DEF f
      <3> QED
        BY <2>1
    <2> HIDE DEF f
    <2>3. "rtable" \in DOMAIN t /\ t.rtable = [x \in Nodes |-> f(x)]
      BY <1>5 DEF HasTable
    <2> QED
      BY <2>1, <2>2, <2>3 DEF NoneNew, HasTable
  <1>6. CASE t = [s EXCEPT !.down = "refresh"]
    <2>1. HasTable(t) /\ t.rtable = s.rtable
      BY <1>6 DEF HasTable
    <2> QED
      BY <2>1, SameTable
  <1>7. CASE t = [s EXCEPT !.rtable[d].live = TRUE, !.rtable[e.next].live = TRUE]
    <2> DEFINE r == [s.rtable EXCEPT ![d] = [e EXCEPT !.live = TRUE]]
               v == [r EXCEPT ![e.next] = [r[e.next] EXCEPT !.live = TRUE]]
               awake(g) == [g EXCEPT !.live = TRUE]
    <2>1. \A g \in Entry : awake(g) \in Entry /\ Alike(g, awake(g))
      BY DEF Entry, Alike
    <2>2. r \in [Nodes -> Entry] /\ \A x \in Nodes : r[x] = s.rtable[x] \/ r[x] = awake(s.rtable[x])
      BY <1>1, <2>1 DEF HasTable
    <2>3. "rtable" \in DOMAIN t /\ t.rtable = v
      BY <1>7 DEF HasTable
    <2> HIDE DEF r
    <2>4. v \in [Nodes -> Entry] /\ \A x \in Nodes : v[x] = r[x] \/ v[x] = awake(r[x])
      BY <2>1, <2>2
    <2> HIDE DEF v, awake
    <2>5. \A x \in Nodes : Alike(s.rtable[x], r[x]) /\ Alike(r[x], v[x])
      BY <1>1, <2>1, <2>2, <2>4 DEF Alike
    <2>6. \A x \in Nodes : Alike(s.rtable[x], v[x])
      BY <2>5 DEF Alike
    <2> QED
      BY <2>3, <2>4, <2>6 DEF NoneNew, HasTable
  <1> QED
    BY <1>2, <1>3, <1>4, <1>5, <1>6, <1>7

(* The recursive function has the values it is defined by.                 *)
LEMMA RoundsDefined ==
    ASSUME NEW s, NEW busy
    PROVE  LET R == Node!Rounds(s, busy) IN
             R = [i \in 0..Len(Order) |-> IF i = 0 THEN s
                                          ELSE Node!RefreshEntry(R[i - 1], Order[i], busy)]
  <1> DEFINE n == Len(Order)
             upto(m, g) == g = [i \in 0..m |-> IF i = 0 THEN s
                                               ELSE Node!RefreshEntry(g[i - 1], Order[i], busy)]
             S == {m \in 0..n : \E g : upto(m, g)}
  <1>1. n \in Nat
    BY Constants
  <1>2. 0 \in S
    <2> DEFINE g == [i \in 0..0 |-> s]
    <2>1. upto(0, g)
      OBVIOUS
    <2> HIDE DEF g, upto
    <2> QED
      BY <1>1, <2>1
  <1>3. \A m \in 1..n : m - 1 \in S => m \in S
    <2> SUFFICES ASSUME NEW m \in 1..n, \E g : upto(m - 1, g)
                 PROVE  \E g : upto(m, g)
      <3> HIDE DEF upto
      <3> QED
        BY <1>1
    <2>1. PICK h : upto(m - 1, h)
      OBVIOUS
    <2> DEFINE g == [i \in 0..m |-> IF i = m THEN Node!RefreshEntry(h[m - 1], Order[m], busy)
                                    ELSE h[i]]
    <2>2. \A i \in 0..m : g[i] = IF i = 0 THEN s ELSE Node!RefreshEntry(g[i - 1], Order[i], busy)
      <3> TAKE i \in 0..m
      <3>1. CASE i = m
        <4>1. g[i - 1] = h[i - 1]
          BY <1>1, <3>1
        <4> QED
          BY <1>1, <3>1, <4>1
      <3>2. CASE i # m
        <4>1. i \in 0..m - 1
          BY <1>1, <3>2
        <4>2. h[i] = IF i = 0 THEN s ELSE Node!RefreshEntry(h[i - 1], Order[i], busy)
          BY <2>1, <4>1
        <4>3. i # 0 => g[i - 1] = h[i - 1]
          BY <1>1, <3>2
        <4> QED
          BY <3>2, <4>2, <4>3
      <3> QED
        BY <3>1, <3>2
    <2>3. g = [i \in 0..m |-> g[i]]
      OBVIOUS
    <2> HIDE DEF g
    <2>4. upto(m, g)
      BY <2>2, <2>3
    <2> HIDE DEF upto
    <2> QED
      BY <2>4
  <1>4. n \in S
    <2> HIDE DEF S, n
    <2> QED
      BY <1>1, <1>2, <1>3, Upward
  <1> QED
    BY <1>4 DEF Node!Rounds

(* refreshEntries, by induction over its rounds.                           *)
LEMMA RefreshedFacts ==
    ASSUME NEW s, HasTable(s), NEW busy
    PROVE  NoneNew(s, Node!Refreshed(s, busy))
  <1> DEFINE R == Node!Rounds(s, busy)
             n == Len(Order)
             S == {i \in 0..n : NoneNew(s, R[i])}
  <1>1. n \in Nat
    BY Constants
  <1>2. R[0] = s /\ \A i \in 1..n : R[i] = Node!RefreshEntry(R[i - 1], Order[i], busy)
    <2> DEFINE r(i) == IF i = 0 THEN s ELSE Node!RefreshEntry(R[i - 1], Order[i], busy)
    <2>1. R = [i \in 0..n |-> r(i)]
      BY RoundsDefined
    <2> HIDE DEF R, r
    <2>2. R[0] = r(0) /\ \A i \in 1..n : R[i] = r(i)
      BY <1>1, <2>1
    <2> QED
      BY <1>1, <2>2 DEF r
  <1> HIDE DEF R
  <1>3. 0 \in S
    BY <1>1, <1>2, SameTable
  <1>4. \A i \in 1..n : i - 1 \in S => i \in S
    <2> SUFFICES ASSUME NEW i \in 1..n, i - 1 \in S
                 PROVE  NoneNew(s, R[i])
      <3>1. \A j \in 1..n : j \in 0..n
        BY <1>1
      <3> QED
        BY <3>1
    <2>1. HasTable(R[i - 1]) /\ Order[i] \in Nodes
      BY <1>1, Constants DEF NoneNew
    <2>2. NoneNew(R[i - 1], R[i])
      BY <1>2, <2>1, RefreshEntryFacts
    <2> QED
      BY <2>2, NoneNewTwice
  <1>5. n \in S
    <2> HIDE DEF S, n
    <2> QED
      BY <1>1, <1>3, <1>4, Upward
  <1> QED
    BY <1>5 DEF Node!Refreshed, R

-----------------------------------------------------------------------------
(* The invariant.                                                          *)

(* By its route to d, node x is nearer to d than who has number q and h    *)
(* hops: the number is later, or is the same and the hops are fewer.       *)
Ahead(x, d, q, h) ==
    LET e == nodes[x].rtable[d]
    IN e.seq > q \/ (e.seq = q /\ e.flags = "ACTIVE" /\ e.hops < h)

(* An active route has a number that its destination has handed out, and   *)
(* its next hop is nearer.                                                 *)
Leads(x, d, e) ==
    /\ e.next \in Nodes /\ e.hops \in 1..MaxHops + 1
    /\ e.seq <= own[d].seq
    /\ d \notin forgot \cup {e.next} => Ahead(e.next, d, e.seq, e.hops)

Tables ==
    /\ nodes = [n \in Nodes |-> nodes[n]]
    /\ own \in [Nodes -> [seq : Nat, id : Nat]]
    /\ \A n \in Nodes :
          /\ HasTable(nodes[n])
          /\ \A d \in Nodes : nodes[n].rtable[d].flags = "ACTIVE" =>
                                 Leads(n, d, nodes[n].rtable[d])

Fields(type) == {"type", "from", "to", "src", "dst", "dseq", "hops"}
                \cup IF type = "RREQ" THEN {"sseq", "ttl"} ELSE {}

Between(m) == m.from \in Nodes /\ m.to \in Nodes /\ m.from # m.to

(* What a message offers is no better than what its sender has.            *)
Offer(m, d, q) ==
    /\ d \in Nodes /\ q \in Nat /\ q <= own[d].seq
    /\ m.hops \in 0..MaxHops
    /\ d \notin forgot \cup {m.from} => Ahead(m.from, d, q, m.hops + 1)

SoundRREQ(m) ==
    /\ m.type = "RREQ" /\ Fields("RREQ") \subseteq DOMAIN m
    /\ Between(m) /\ m.dst \in Nodes /\ m.dseq \in Nat
    /\ Offer(m, m.src, m.sseq)

SoundRREP(m) ==
    /\ m.type = "RREP" /\ Fields("RREP") \subseteq DOMAIN m
    /\ Between(m) /\ m.src \in Nodes \cup {None}
    /\ Offer(m, m.dst, m.dseq)

SoundRERR(m) ==
    /\ m.type = "RERR"
    /\ Between(m) /\ m.dst \in Nodes /\ m.dseq \in Nat /\ m.N \in BOOLEAN
    /\ m.N => m.dseq <= own[m.dst].seq /\ m.dst \in forgot

Sound(m) == SoundRREQ(m) \/ SoundRREP(m) \/ SoundRERR(m)

Inv == Tables /\ \A m \in net : Sound(m)

-----------------------------------------------------------------------------
(* A step of one node.                                                     *)

(* The new table t of node n: a route that is new leads to its             *)
(* destination, and is not longer than the last with the same number.      *)
Change(n, t) ==
    /\ HasTable(t)
    /\ \A d \in Nodes :
          LET e == nodes[n].rtable[d]
              f == t.rtable[d]
          IN \/ Alike(e, f)
             \/ /\ Leads(n, d, f)
                /\ d \notin forgot => /\ f.next # n
                                      /\ e.flags = "ACTIVE" /\ f.seq = e.seq => f.hops <= e.hops

Grows == /\ own' \in [Nodes -> [seq : Nat, id : Nat]]
         /\ \A d \in Nodes : own[d].seq <= own'[d].seq

(* What Step adds to an action.                                            *)
Frame == /\ \A m \in net' : m.type \in {"RREQ", "RREP"} => m.hops <= MaxHops
         /\ forgot' = forgot \cup {d \in Nodes \ forgot : Forgets(d)}

(* Who is nearer stays nearer.                                             *)
LEMMA StaysAhead ==
    ASSUME Tables, Frame, NEW n \in Nodes, NEW t, Change(n, t),
           nodes' = [nodes EXCEPT ![n] = t],
           NEW x \in Nodes, NEW d \in Nodes \ forgot', NEW q \in Nat, NEW h \in Nat,
           Ahead(x, d, q, h)
    PROVE  Ahead(x, d, q, h)'
  <1>1. CASE x # n
    <2>1. nodes'[x] = nodes[x]
      BY <1>1 DEF Tables
    <2> QED
      BY <2>1 DEF Ahead
  <1>2. CASE x = n
    <2> DEFINE e == nodes[n].rtable[d]
               f == t.rtable[d]
    <2>1. e \in Entry /\ f \in Entry
      BY DEF Tables, Change, HasTable
    <2>2. nodes'[n] = t
      BY DEF Tables
    <2>3. ~(f.seq < e.seq) /\ ~(f.seq = e.seq /\ e.flags = "ACTIVE" /\ f.flags # "ACTIVE")
      <3>1. ~Forgets(d)
        BY DEF Frame
      <3>2. ~(f # e /\ (f.seq < e.seq \/ (f.seq = e.seq /\ e.flags = "ACTIVE" /\ f.flags # "ACTIVE")))
        BY <2>2, <3>1 DEF Forgets
      <3> HIDE DEF e, f
      <3> QED
        BY <2>1, <3>2 DEF Entry
    <2>4. f.seq = e.seq /\ e.flags = "ACTIVE" => f.flags = "ACTIVE" /\ f.hops <= e.hops
      <3>1. d \notin forgot
        BY DEF Frame
      <3>2. Alike(e, f) \/ (e.flags = "ACTIVE" /\ f.seq = e.seq => f.hops <= e.hops)
        BY <3>1 DEF Change
      <3> QED
        BY <2>1, <2>3, <3>2 DEF Alike, Entry
    <2>5. e.seq > q \/ (e.seq = q /\ e.flags = "ACTIVE" /\ e.hops < h)
      BY <1>2 DEF Ahead
    <2>6. f.seq > q \/ (f.seq = q /\ f.flags = "ACTIVE" /\ f.hops < h)
      <3> HIDE DEF e, f
      <3> QED
        BY <2>1, <2>3, <2>4, <2>5 DEF Entry
    <2> QED
      BY <1>2, <2>2, <2>6 DEF Ahead
  <1> QED
    BY <1>1, <1>2

(* Routes go on leading to their destinations.                             *)
LEMMA TablesKept ==
    ASSUME Tables, Frame, Grows, NEW n \in Nodes, NEW t, Change(n, t),
           nodes' = [nodes EXCEPT ![n] = t]
    PROVE  Tables'
  <1>1. nodes' = [x \in Nodes |-> nodes'[x]] /\ nodes'[n] = t
        /\ \A x \in Nodes \ {n} : nodes'[x] = nodes[x]
    BY DEF Tables
  <1>2. \A x \in Nodes : HasTable(nodes'[x])
    BY <1>1 DEF Tables, Change
  <1>3. ASSUME NEW x \in Nodes, NEW d \in Nodes, nodes'[x].rtable[d].flags = "ACTIVE"
        PROVE  Leads(x, d, nodes[x].rtable[d])'
    <2> PICK f : f = nodes'[x].rtable[d]
      OBVIOUS
    <2>1. f \in Entry
      BY <1>2 DEF HasTable
    <2>2. Leads(x, d, f)
      <3>1. CASE x # n
        BY <1>1, <1>3, <3>1 DEF Tables
      <3>2. CASE x = n
        <4> DEFINE e == nodes[n].rtable[d]
        <4>1. f = t.rtable[d] /\ f.flags = "ACTIVE"
          BY <1>1, <1>3, <3>2
        <4>2. Alike(e, f) \/ Leads(n, d, f)
          BY <4>1 DEF Change
        <4>3. CASE Alike(e, f)
          <5>1. Leads(n, d, e)
            BY <4>1, <4>3 DEF Alike, Tables
          <5> QED
            BY <3>2, <4>1, <4>3, <5>1 DEF Alike, Leads
        <4> QED
          BY <3>2, <4>2, <4>3
      <3> QED
        BY <3>1, <3>2
    <2>3. f.seq <= own'[d].seq
      <3>1. f.seq <= own[d].seq /\ own[d].seq <= own'[d].seq
        BY <2>2 DEF Leads, Grows
      <3>2. f.seq \in Nat /\ own[d].seq \in Nat /\ own'[d].seq \in Nat
        BY <2>1 DEF Entry, Tables, Grows
      <3> QED
        BY <3>1, <3>2
    <2>4. ASSUME d \notin forgot' \cup {f.next}
          PROVE  Ahead(f.next, d, f.seq, f.hops)'
      <3>1. Ahead(f.next, d, f.seq, f.hops) /\ d \in Nodes \ forgot' /\ f.next \in Nodes
        BY <2>2, <2>4 DEF Leads, Frame
      <3>2. f.seq \in Nat /\ f.hops \in Nat
        BY <2>1 DEF Entry
      <3>3. \A y \in Nodes, q, h \in Nat : Ahead(y, d, q, h) => Ahead(y, d, q, h)'
        BY <3>1, StaysAhead
      <3> QED
        BY <3>1, <3>2, <3>3
    <2> QED
      BY <2>2, <2>3, <2>4 DEF Leads
  <1> QED
    BY <1>1, <1>2, <1>3 DEF Tables, Grows

(* A message that is on its way stays sound.                               *)
LEMMA OfferKept ==
    ASSUME Tables, Frame, Grows, NEW n \in Nodes, NEW t, Change(n, t),
           nodes' = [nodes EXCEPT ![n] = t],
           NEW m, Between(m), NEW d, NEW q, Offer(m, d, q)
    PROVE  Offer(m, d, q)'
  <1>1. q <= own'[d].seq
    <2>1. q <= own[d].seq /\ own[d].seq <= own'[d].seq /\ q \in Nat
      BY DEF Offer, Grows
    <2>2. own[d].seq \in Nat /\ own'[d].seq \in Nat
      BY DEF Offer, Tables, Grows
    <2> QED
      BY <2>1, <2>2
  <1>2. ASSUME d \notin forgot' \cup {m.from}
        PROVE  Ahead(m.from, d, q, m.hops + 1)'
    <2>1. Ahead(m.from, d, q, m.hops + 1) /\ d \in Nodes \ forgot' /\ m.from \in Nodes
          /\ q \in Nat
      BY <1>2 DEF Offer, Frame, Between
    <2>2. PICK h \in Nat : h = m.hops + 1
      BY DEF Offer
    <2>3. Ahead(m.from, d, q, h)'
      BY <2>1, <2>2, StaysAhead
    <2> QED
      BY <2>2, <2>3
  <1> QED
    BY <1>1, <1>2 DEF Offer

(* No message on its way becomes a better offer than its sender has: who   *)
(* is ahead stays ahead.                                                   *)
LEMMA SoundKept ==
    ASSUME Inv, Frame, Grows, NEW n \in Nodes, NEW t, Change(n, t),
           nodes' = [nodes EXCEPT ![n] = t], NEW m \in net
    PROVE  Sound(m)'
  <1> USE DEF Inv
  <1>1. CASE SoundRREQ(m)
    BY <1>1, OfferKept DEF SoundRREQ, Sound, Between
  <1>2. CASE SoundRREP(m)
    BY <1>2, OfferKept DEF SoundRREP, Sound, Between
  <1>3. CASE SoundRERR(m)
    <2>1. m.N => m.dseq <= own'[m.dst].seq
      <3>1. m.N => m.dseq <= own[m.dst].seq /\ own[m.dst].seq <= own'[m.dst].seq
        BY <1>3 DEF SoundRERR, Grows
      <3>2. m.dseq \in Nat /\ own[m.dst].seq \in Nat /\ own'[m.dst].seq \in Nat
        BY <1>3 DEF SoundRERR, Tables, Grows
      <3> QED
        BY <3>1, <3>2
    <2>2. m.N => m.dst \in forgot'
      BY <1>3 DEF SoundRERR, Frame
    <2> QED
      BY <1>3, <2>1, <2>2 DEF SoundRERR, Sound, Between
  <1> QED
    BY <1>1, <1>2, <1>3 DEF Sound

(* The step as a whole: what is left to show is that new messages are      *)
(* sound.                                                                  *)
LEMMA Kept ==
    ASSUME Inv, Frame, Grows, NEW n \in Nodes, NEW t, Change(n, t),
           nodes' = [nodes EXCEPT ![n] = t],
           \A m \in net' \ net : Sound(m)'
    PROVE  Inv'
  <1>1. Tables'
    BY TablesKept DEF Inv
  <1>2. \A m \in net : Sound(m)'
    BY SoundKept
  <1> QED
    BY <1>1, <1>2 DEF Inv

-----------------------------------------------------------------------------
(* Changes of a table.                                                     *)

(* A table without a new route.                                            *)
LEMMA NoneNewChange ==
    ASSUME NEW n \in Nodes, NEW t, NoneNew(nodes[n], t)
    PROVE  Change(n, t)
  BY DEF NoneNew, Change

(* A step that leaves all tables alone.                                    *)
LEMMA Unchanged ==
    ASSUME Tables, UNCHANGED nodes, NEW n \in Nodes
    PROVE  Change(n, nodes[n]) /\ nodes' = [nodes EXCEPT ![n] = nodes[n]]
  <1>1. NoneNew(nodes[n], nodes[n])
    BY SameTable DEF Tables
  <1>2. nodes = [nodes EXCEPT ![n] = nodes[n]]
    BY DEF Tables
  <1> QED
    BY <1>1, <1>2, NoneNewChange

(* The route to a neighbour by which a message comes.                      *)
LEMMA NeighborLeads ==
    ASSUME Tables, NEW n \in Nodes, NEW p \in Nodes \ {n}, NEW q \in Nat, q <= own[p].seq,
           NEW f, f.next = p, f.hops = 1, f.seq = q
    PROVE  /\ Leads(n, p, f) /\ f.next # n
           /\ nodes[n].rtable[p].flags = "ACTIVE" => f.hops <= nodes[n].rtable[p].hops
  <1>1. 1 \in 1..MaxHops + 1
    BY Constants
  <1>2. nodes[n].rtable[p].flags = "ACTIVE" => nodes[n].rtable[p].hops \in 1..MaxHops + 1
    BY DEF Tables, Leads
  <1> QED
    BY <1>1, <1>2 DEF Leads

(* A table that takes the offer of a neighbour that is ahead.              *)
LEMMA LearnsChange ==
    ASSUME Tables, NEW n \in Nodes, NEW p \in Nodes \ {n}, NEW d \in Nodes, NEW q \in Nat,
           NEW h \in 1..MaxHops + 1, q <= own[d].seq,
           d \notin forgot \cup {p} => Ahead(p, d, q, h),
           NEW t, Learns(nodes[n], t, p, d, q, h)
    PROVE  Change(n, t)
  <1> DEFINE s == nodes[n]
             k == IF d = p THEN q ELSE 0
  <1>1. HasTable(s) /\ HasTable(t) /\ h \in Nat
    BY Constants DEF Tables, Learns
  <1>2. k \in Nat /\ k <= own[p].seq
    BY DEF Tables
  <1> SUFFICES ASSUME NEW x \in Nodes
               PROVE  LET e == s.rtable[x]
                          f == t.rtable[x]
                      IN \/ Alike(e, f)
                         \/ /\ Leads(n, x, f)
                            /\ x \notin forgot =>
                                 /\ f.next # n
                                 /\ e.flags = "ACTIVE" /\ f.seq = e.seq => f.hops <= e.hops
    BY <1>1 DEF Change
  <1>3. CASE x = p
    <2> DEFINE f == t.rtable[p]
    <2>1. f = Node!Route(s.rtable[p], p, k, 1)
      BY DEF Learns
    <2>2. f.next = p /\ f.hops = 1 /\ f.seq = k
      <3> HIDE DEF k, f
      <3> QED
        BY <1>1, <1>2, <2>1 DEF Node!Route, HasTable, Entry
    <2> HIDE DEF k, f
    <2>3. /\ Leads(n, p, f) /\ f.next # n
          /\ s.rtable[p].flags = "ACTIVE" => f.hops <= s.rtable[p].hops
      BY <1>2, <2>2, NeighborLeads
    <2> QED
      BY <1>3, <2>3 DEF f
  <1>4. CASE x # p /\ t.rtable[x] = s.rtable[x]
    BY <1>4 DEF Alike
  <1>5. CASE x = d /\ d # p /\ Node!Fresher(s.rtable[d], q, h)
             /\ t.rtable[d] = Node!Route(s.rtable[d], p, q, h)
    <2> DEFINE f == t.rtable[d]
               e == s.rtable[d]
    <2>1. e \in Entry /\ f.next = p /\ f.hops = h /\ f.seq = q
      <3>1. e \in Entry /\ f = Node!Route(e, p, q, h)
        BY <1>1, <1>5 DEF HasTable
      <3> HIDE DEF e, f
      <3> QED
        BY <3>1 DEF Node!Route, Entry
    <2>2. e.flags = "ACTIVE" /\ f.seq = e.seq => f.hops <= e.hops
      <3> HIDE DEF e, f
      <3>1. Node!Fresher(e, q, h)
        BY <1>5 DEF e
      <3> QED
        BY <1>1, <2>1, <3>1 DEF Node!Fresher, Entry
    <2>3. Leads(n, d, f)
      <3> HIDE DEF e, f
      <3> QED
        BY <2>1 DEF Leads
    <2> QED
      BY <1>5, <2>1, <2>2, <2>3
  <1> QED
    BY <1>3, <1>4, <1>5 DEF Learns

(* A table in which the sender of a RERR is a neighbour.                   *)
LEMMA SenderChange ==
    ASSUME Tables, NEW n \in Nodes, NEW p \in Nodes \ {n}, NEW t, Sender(nodes[n], t, p)
    PROVE  Change(n, t)
  <1> DEFINE s == nodes[n]
             r == Node!Route(s.rtable[p], p, 0, 1)
  <1>1. r.flags = "ACTIVE" /\ r.next = p /\ r.hops = 1 /\ r.seq = 0
    BY DEF Node!Route, Tables, HasTable, Entry
  <1>2. 0 \in Nat /\ 0 <= own[p].seq
    BY DEF Tables
  <1> HIDE DEF r
  <1>3. ASSUME NEW f, Alike(r, f), f.flags = "ACTIVE"
        PROVE  /\ Leads(n, p, f) /\ f.next # n
               /\ s.rtable[p].flags = "ACTIVE" => f.hops <= s.rtable[p].hops
    <2>1. f.next = p /\ f.hops = 1 /\ f.seq = 0
      BY <1>1, <1>3 DEF Alike
    <2> QED
      BY <1>2, <2>1, NeighborLeads
  <1> QED
    BY <1>3 DEF Sender, Change, Alike, r

(* A daemon never has routes of Infinity hops.                             *)
LEMMA AllShort ==
    ASSUME Tables, NEW n \in Nodes
    PROVE  Short(nodes[n])
  <1>1. 60 \notin 1..MaxHops + 1
    BY Constants
  <1>2. \A x \in Nodes : nodes[n].rtable[x].flags = "ACTIVE" =>
                            nodes[n].rtable[x].hops \in 1..MaxHops + 1
    BY DEF Tables, Leads
  <1> QED
    BY <1>1, <1>2 DEF Short

(* A repaired route takes over the number of its next hop.                 *)
LEMMA RepairedChange ==
    ASSUME Tables, NEW n \in Nodes, NEW p \in Nodes \ {n}, NEW d \in Nodes, NEW q \in Nat,
           d \in forgot, q <= own[d].seq, NEW t \in AfterRepaired(nodes[n], p, d, q)
    PROVE  Change(n, t)
  <1> DEFINE s == nodes[n]
  <1>1. HasTable(s) /\ Short(s)
    BY AllShort DEF Tables
  <1>2. PICK u : /\ Sender(s, u, p) /\ HasTable(t)
                 /\ \A x \in Nodes : \/ t.rtable[x] = u.rtable[x]
                                     \/ x = d /\ Renumbered(u.rtable[d], t.rtable[d], q)
    BY <1>1, RepairedFacts
  <1>3. Change(n, u)
    BY <1>2, SenderChange
  <1>4. ASSUME Renumbered(u.rtable[d], t.rtable[d], q)
        PROVE  Leads(n, d, t.rtable[d])
    <2> DEFINE f == t.rtable[d]
               g == u.rtable[d]
    <2>1. Alike(s.rtable[d], g) \/ Leads(n, d, g)
      BY <1>3 DEF Change
    <2>2. g.next \in Nodes /\ g.hops \in 1..MaxHops + 1
      BY <1>4, <2>1 DEF Renumbered, Alike, Leads, Tables
    <2> QED
      BY <1>4, <2>2 DEF Renumbered, Leads
  <1> QED
    BY <1>2, <1>3, <1>4 DEF Change

-----------------------------------------------------------------------------
(* New messages.                                                           *)

(* A broadcast goes to others.                                             *)
LEMMA SentTo ==
    ASSUME NEW n \in Nodes, NEW m, NEW x \in Broadcast(n, m)
    PROVE  \E y \in Nodes \ {n} : x = [m EXCEPT !.to = y]
  BY Constants DEF Broadcast

(* A unicast too.                                                          *)
LEMMA SentToOne ==
    ASSUME NEW n \in Nodes, NEW m, NEW to, NEW x \in Unicast(n, m, to)
    PROVE  \E y \in Nodes \ {n} : x = [m EXCEPT !.to = y]
  BY SentTo DEF Unicast

(* An RREQ that leaves is sound if its sender has the way back that it     *)
(* offers.                                                                 *)
LEMMA RREQSent ==
    ASSUME Frame, Grows, NEW n \in Nodes, NEW m \in net',
           m.type = "RREQ", Fields("RREQ") \subseteq DOMAIN m,
           m.from = n, m.to \in Nodes \ {n}, m.src \in Nodes, m.sseq \in Nat,
           m.dst \in Nodes, m.dseq \in Nat, m.hops \in Nat,
           m.sseq <= own'[m.src].seq,
           m.src \notin forgot' \cup {n} => Ahead(n, m.src, m.sseq, m.hops + 1)'
    PROVE  Sound(m)'
  <1>1. m.hops \in 0..MaxHops
    BY Constants DEF Frame
  <1>2. Offer(m, m.src, m.sseq)'
    BY <1>1 DEF Offer
  <1>3. SoundRREQ(m)'
    BY <1>2 DEF SoundRREQ, Between
  <1> QED
    BY <1>3 DEF Sound

(* An RREP that leaves is sound if its sender has the route that it        *)
(* offers.                                                                 *)
LEMMA RREPSent ==
    ASSUME Frame, Grows, NEW n \in Nodes, NEW m \in net',
           m.type = "RREP", Fields("RREP") \subseteq DOMAIN m,
           m.from = n, m.to \in Nodes \ {n}, m.src \in Nodes \cup {None},
           m.dst \in Nodes, m.dseq \in Nat, m.hops \in Nat,
           m.dseq <= own'[m.dst].seq,
           m.dst \notin forgot' \cup {n} => Ahead(n, m.dst, m.dseq, m.hops + 1)'
    PROVE  Sound(m)'
  <1>1. m.hops \in 0..MaxHops
    BY Constants DEF Frame
  <1>2. Offer(m, m.dst, m.dseq)'
    BY <1>1 DEF Offer
  <1>3. SoundRREP(m)'
    BY <1>2 DEF SoundRREP, Between
  <1> QED
    BY <1>3 DEF Sound

(* The fields of an RREP that a node makes.                                *)
LEMMA RREPMade ==
    ASSUME NEW n \in Nodes, NEW src, NEW dst, NEW q, NEW h, NEW x,
           x \in Broadcast(n, RREPMessage(n, src, dst, q, h))
    PROVE  /\ x.type = "RREP" /\ Fields("RREP") \subseteq DOMAIN x
           /\ x.from = n /\ x.to \in Nodes \ {n} /\ x.src = src /\ x.dst = dst
           /\ x.dseq = q /\ x.hops = h
  <1>1. PICK y \in Nodes \ {n} : x = [RREPMessage(n, src, dst, q, h) EXCEPT !.to = y]
    <2> DEFINE m == RREPMessage(n, src, dst, q, h)
    <2> HIDE DEF m
    <2>1. \E y \in Nodes \ {n} : x = [m EXCEPT !.to = y]
      BY SentTo DEF m
    <2> QED
      BY <2>1 DEF m
  <1> QED
    BY <1>1 DEF RREPMessage, Fields

(* A RERR that leaves is sound; with the N flag it is one that Forgets     *)
(* sees.                                                                   *)
LEMMA RERRSent ==
    ASSUME Frame, NEW n \in Nodes, NEW s, HasTable(s), NEW d \in Nodes, NEW N \in BOOLEAN, NEW brd,
           N => s.rtable[d].seq <= own'[d].seq,
           NEW m \in net', m \in RouteError(n, s, d, N, brd)
    PROVE  Sound(m)'
  <1> DEFINE q == s.rtable[d].seq
             r == RERRMessage(n, d, q, N)
  <1>1. \/ m \in Broadcast(n, r)
        \/ \E to : m \in Unicast(n, r, to)
    BY DEF RouteError
  <1>2. PICK y \in Nodes \ {n} : m = [r EXCEPT !.to = y]
    BY <1>1, SentTo, SentToOne
  <1>3. q \in Nat
    BY DEF HasTable, Entry
  <1>4. m = [type |-> "RERR", from |-> n, to |-> y, dst |-> d, dseq |-> q, N |-> N]
    BY <1>2 DEF RERRMessage
  <1> HIDE DEF q
  <1>5. N => d \in forgot'
    BY <1>4 DEF Frame, Forgets
  <1>6. N => q <= own'[d].seq
    BY DEF q
  <1>7. SoundRERR(m)'
    BY <1>3, <1>4, <1>5, <1>6 DEF SoundRERR, Between
  <1> QED
    BY <1>7 DEF Sound

(* Who has heeded a message about d may offer a route to d that is one hop *)
(* longer.                                                                 *)
LEMMA HeedsAhead ==
    ASSUME NEW n, NEW t, nodes'[n] = t, HasTable(t), NEW p, NEW d \in Nodes, NEW q \in Nat,
           NEW h \in Nat, Heeds(t, p, d, q, h)
    PROVE  Ahead(n, d, q, h + 1)' /\ Ahead(n, d, q, t.rtable[d].hops + 1)'
  <1>1. t.rtable[d] \in Entry
    BY DEF HasTable
  <1> QED
    BY <1>1 DEF Heeds, Ahead, Entry

(* The larger of two numbers, as recvRREQ and createRREP take it.           *)
LEMMA LargerOne ==
    ASSUME NEW i \in Nat, NEW j \in Nat
    PROVE  Max({i, j}) \in Nat /\ i <= Max({i, j}) /\ j <= Max({i, j})
  <1> DEFINE k == IF i >= j THEN i ELSE j
  <1>1. k \in {i, j} /\ \A y \in {i, j} : k >= y
    OBVIOUS
  <1> HIDE DEF k
  <1>2. PICK x \in {i, j} : Max({i, j}) = x /\ \A y \in {i, j} : x >= y
    BY <1>1 DEF Max
  <1> QED
    BY <1>2

(* Nobody counts on.                                                       *)
LEMMA SameOwn ==
    ASSUME Tables, UNCHANGED own
    PROVE  Grows
  BY DEF Tables, Grows

(* Numbers and hops of messages and entries.                               *)
LEMMA Parts ==
    ASSUME NEW s, HasTable(s), NEW d \in Nodes
    PROVE  s.rtable[d].seq \in Nat /\ s.rtable[d].hops \in Nat
  BY DEF HasTable, Entry

(* After a step with which routes go on to lead to their destinations, an  *)
(* active route may be offered.                                            *)
LEMMA ActiveOffer ==
    ASSUME Tables', NEW n \in Nodes, NEW d \in Nodes, NEW t, nodes'[n] = t,
           t.rtable[d].flags = "ACTIVE"
    PROVE  /\ t.rtable[d].seq <= own'[d].seq
           /\ Ahead(n, d, t.rtable[d].seq, t.rtable[d].hops + 1)'
  <1>1. HasTable(t) /\ Leads(n, d, nodes[n].rtable[d])'
    BY DEF Tables
  <1>2. t.rtable[d].hops \in Nat
    BY <1>1, Parts
  <1> QED
    BY <1>1, <1>2 DEF Leads, Ahead

(* The RERR at the end of a repair.                                        *)
LEMMA RepairEndedSound ==
    ASSUME Tables', Frame, NEW n \in Nodes, NEW t, nodes'[n] = t, NEW d \in Nodes,
           t.rtable[d].flags = "ACTIVE", NEW m \in net', m \in RepairEnded(n, t, d)
    PROVE  Sound(m)'
  <1>1. t.rtable[d].seq <= own'[d].seq
    BY ActiveOffer
  <1>2. m \in RouteError(n, t, d, TRUE, FALSE)
    BY DEF RepairEnded
  <1>3. HasTable(t)
    BY DEF Tables
  <1>4. PICK N \in BOOLEAN, brd \in BOOLEAN : N = TRUE /\ brd = FALSE /\ m \in RouteError(n, t, d, N, brd)
    BY <1>2
  <1> QED
    BY <1>1, <1>3, <1>4, RERRSent

(* What processRREQ sends.                                                 *)
LEMMA AnswersSound ==
    ASSUME Tables, Tables', Frame, Grows, NEW n \in Nodes, NEW t, nodes'[n] = t,
           NEW m, SoundRREQ(m),
           m.src # n, Heeds(t, m.from, m.src, m.sseq, m.hops + 1),
           NEW ownSeq \in Nat, m.dst = n => ownSeq = own'[n].seq,
           m.dst = n \/ ValidRoute(t, m.dst, m.dseq),
           NEW x \in net', x \in Reply(n, t, m, ownSeq) \cup GratuitousReply(n, t, m)
    PROVE  Sound(x)'
  <1> DEFINE e == t.rtable[m.dst]
             f == t.rtable[m.src]
  <1>1. /\ m.src \in Nodes /\ m.dst \in Nodes /\ m.sseq \in Nat /\ m.hops \in Nat
        /\ m.sseq <= own[m.src].seq /\ None \notin Nodes
    BY Constants DEF SoundRREQ, Offer
  <1>2. /\ HasTable(t) /\ e.seq \in Nat /\ e.hops \in Nat /\ f.seq \in Nat /\ f.hops \in Nat
    BY <1>1, Parts DEF Tables
  <1>3. ASSUME m.dst = n, x \in Reply(n, t, m, ownSeq)
        PROVE  Sound(x)'
    <2>1. PICK z : z = 0 /\ x \in Broadcast(n, RREPMessage(n, m.src, m.dst, ownSeq, z))
      BY <1>3 DEF Reply, Unicast
    <2>2. x.dst = n /\ x.dseq = own'[n].seq /\ x.hops = 0 /\ x.src \in Nodes /\ x.from = n
      BY <1>1, <1>3, <2>1, RREPMade
    <2>3. x.type = "RREP" /\ Fields("RREP") \subseteq DOMAIN x /\ x.to \in Nodes \ {n}
      BY <2>1, RREPMade
    <2>4. own'[n].seq \in Nat
      BY <1>3
    <2> QED
      BY <2>2, <2>3, <2>4, RREPSent
  <1>4. ASSUME m.dst # n, x \in Reply(n, t, m, ownSeq)
        PROVE  Sound(x)'
    <2>1. x \in Broadcast(n, RREPMessage(n, m.src, m.dst, e.seq, e.hops))
      BY <1>4 DEF Reply, Unicast
    <2>2. /\ x.type = "RREP" /\ Fields("RREP") \subseteq DOMAIN x
          /\ x.from = n /\ x.to \in Nodes \ {n} /\ x.src = m.src /\ x.dst = m.dst
          /\ x.dseq = e.seq /\ x.hops = e.hops
      <3> HIDE DEF e
      <3> QED
        BY <2>1, RREPMade
    <2>3. e.seq <= own'[m.dst].seq /\ Ahead(n, m.dst, e.seq, e.hops + 1)'
      BY <1>1, <1>4, ActiveOffer DEF ValidRoute
    <2> QED
      BY <1>1, <1>2, <2>2, <2>3, RREPSent
  <1>5. ASSUME x \in GratuitousReply(n, t, m)
        PROVE  Sound(x)'
    <2>1. x \in Broadcast(n, RREPMessage(n, m.dst, m.src, m.sseq, f.hops))
      BY <1>5 DEF GratuitousReply, Unicast
    <2>2. /\ x.type = "RREP" /\ Fields("RREP") \subseteq DOMAIN x
          /\ x.from = n /\ x.to \in Nodes \ {n} /\ x.src = m.dst /\ x.dst = m.src
          /\ x.dseq = m.sseq /\ x.hops = f.hops
      <3> HIDE DEF f
      <3> QED
        BY <2>1, RREPMade
    <2>3. Ahead(n, m.src, m.sseq, f.hops + 1)'
      <3>1. PICK h \in Nat : h = m.hops + 1
        BY <1>1
      <3> QED
        BY <1>1, <1>2, <3>1, HeedsAhead
    <2>4. m.sseq <= own'[m.src].seq
      <3>1. own[m.src].seq \in Nat /\ own'[m.src].seq \in Nat /\ own[m.src].seq <= own'[m.src].seq
        BY <1>1 DEF Tables, Grows
      <3> QED
        BY <1>1, <3>1
    <2> QED
      BY <1>1, <1>2, <2>2, <2>3, <2>4, RREPSent
  <1> QED
    BY <1>3, <1>4, <1>5

(* FWD_RREQ                                                                *)
LEMMA ForwardSound ==
    ASSUME Tables, Tables', Frame, Grows, NEW n \in Nodes, NEW t, nodes'[n] = t,
           NEW m, SoundRREQ(m),
           m.src # n, Heeds(t, m.from, m.src, m.sseq, m.hops + 1),
           NEW x \in net', x \in Forward(n, t, m)
    PROVE  Sound(x)'
  <1> DEFINE k == t.rtable[m.dst].seq
             g == Max({m.dseq, k})
             r == [m EXCEPT !.from = n, !.hops = m.hops + 1, !.ttl = m.ttl - 1, !.dseq = g]
  <1>1. /\ m.src \in Nodes /\ m.dst \in Nodes /\ m.sseq \in Nat /\ m.hops \in Nat
        /\ m.sseq <= own[m.src].seq /\ m.dseq \in Nat /\ HasTable(t)
    BY DEF SoundRREQ, Offer, Tables
  <1>2. g \in Nat
    <2>1. k \in Nat
      BY <1>1, Parts
    <2> HIDE DEF k
    <2> QED
      BY <1>1, <2>1, LargerOne
  <1>3. x \in Broadcast(n, r)
    BY DEF Forward
  <1> HIDE DEF g
  <1>4. PICK y \in Nodes \ {n} : x = [r EXCEPT !.to = y]
    <2> HIDE DEF r
    <2> QED
      BY <1>3, SentTo
  <1>5. Fields("RREQ") \subseteq DOMAIN m /\ m.type = "RREQ"
    BY DEF SoundRREQ
  <1>6. /\ x.type = "RREQ" /\ Fields("RREQ") \subseteq DOMAIN x
        /\ x.from = n /\ x.to \in Nodes \ {n} /\ x.src = m.src /\ x.sseq = m.sseq
        /\ x.dst = m.dst /\ x.dseq = g /\ x.hops = m.hops + 1
    BY <1>4, <1>5 DEF Fields
  <1>7. PICK h \in Nat : h = m.hops + 1
    BY <1>1
  <1>8. Ahead(n, m.src, m.sseq, h + 1)'
    BY <1>1, <1>7, HeedsAhead
  <1>9. m.sseq <= own'[m.src].seq
    <2>1. own[m.src].seq \in Nat /\ own'[m.src].seq \in Nat /\ own[m.src].seq <= own'[m.src].seq
      BY <1>1 DEF Tables, Grows
    <2> QED
      BY <1>1, <2>1
  <1> QED
    BY <1>1, <1>2, <1>6, <1>7, <1>8, <1>9, RREQSent

-----------------------------------------------------------------------------
(* The handlers of messages.                                               *)

(* processRREQ: the way back is learnt of the sender, then the answer or   *)
(* the relayed RREQ leaves.                                                *)
LEMMA RecvRREQKeeps ==
    ASSUME Inv, Frame, NEW n \in Nodes, NEW m \in net, m.to = n, RecvRREQ(n, m)
    PROVE  Inv'
  <1>1. SoundRREQ(m)
    BY DEF RecvRREQ, Inv, Sound, SoundRREP, SoundRERR
  <1>2. Tables /\ m.from \in Nodes \ {n} /\ m.src \in Nodes /\ m.sseq \in Nat
        /\ m.hops \in 0..MaxHops /\ m.dseq \in Nat /\ m.sseq <= own[m.src].seq
    BY <1>1 DEF Inv, SoundRREQ, Offer, Between
  <1>3. CASE m.src = n
    <2>1. net' \subseteq net /\ UNCHANGED <<nodes, own>>
      BY <1>3 DEF RecvRREQ
    <2>2. Change(n, nodes[n]) /\ nodes' = [nodes EXCEPT ![n] = nodes[n]] /\ Grows
      BY <1>2, <2>1, Unchanged, SameOwn
    <2> QED
      BY <2>1, <2>2, Kept
  <1>4. CASE m.src # n
    <2> DEFINE seen == Seen(n, m)
               ownSeq == Max({own[n].seq, m.dseq})
    <2>1. PICK t \in AfterRREQ(nodes[n], m.from, m.src, m.sseq, m.hops, seen) :
             /\ nodes' = [nodes EXCEPT ![n] = t]
             /\ own' = IF seen \/ m.dst # n THEN own ELSE [own EXCEPT ![n].seq = ownSeq]
             /\ net' = (net \ {m}) \cup
                       (IF seen \/ m.src = m.from THEN {} ELSE RepairEnded(n, t, m.src)) \cup
                       (IF seen THEN {}
                        ELSE IF m.dst = n \/ ValidRoute(t, m.dst, m.dseq)
                        THEN Reply(n, t, m, ownSeq) \cup GratuitousReply(n, t, m)
                        ELSE Forward(n, t, m))
      BY <1>4 DEF RecvRREQ
    <2>2. ownSeq \in Nat /\ own[n].seq <= ownSeq /\ own[n] \in [seq : Nat, id : Nat]
      BY <1>2, LargerOne DEF Tables
    <2> HIDE DEF seen, ownSeq
    <2>3. Grows
      BY <1>2, <2>1, <2>2 DEF Tables, Grows
    <2>4. HasTable(nodes[n]) /\ m.hops \in Nat
      BY <1>2 DEF Tables
    <2>5. /\ Learns(nodes[n], t, m.from, m.src, m.sseq, m.hops + 1)
          /\ ~seen => Heeds(t, m.from, m.src, m.sseq, m.hops + 1)
      BY <1>2, <2>4, RREQFacts
    <2>6. Change(n, t)
      <3>1. PICK h \in 1..MaxHops + 1 : h = m.hops + 1
        <4>1. m.hops \in 0..MaxHops /\ MaxHops \in Nat
          BY <1>2, Constants
        <4>2. m.hops + 1 \in 1..MaxHops + 1
          BY ONLY <4>1
        <4> QED
          BY <4>2
      <3>2. m.src \notin forgot \cup {m.from} => Ahead(m.from, m.src, m.sseq, h)
        BY <1>1, <3>1 DEF SoundRREQ, Offer
      <3> QED
        BY <1>2, <2>5, <3>1, <3>2, LearnsChange
    <2>7. Tables' /\ nodes'[n] = t
      BY <1>2, <2>1, <2>3, <2>6, TablesKept DEF Tables
    <2>8. ASSUME NEW x \in net' \ net
          PROVE  Sound(x)'
      <3>1. CASE x \in RepairEnded(n, t, m.src) /\ ~seen
        <4>1. t.rtable[m.src].flags = "ACTIVE"
          BY <2>5, <3>1 DEF Heeds
        <4> QED
          BY <1>2, <2>7, <2>8, <3>1, <4>1, RepairEndedSound
      <3>2. CASE ~seen /\ (m.dst = n \/ ValidRoute(t, m.dst, m.dseq))
                 /\ x \in Reply(n, t, m, ownSeq) \cup GratuitousReply(n, t, m)
        <4>1. m.dst = n => ownSeq = own'[n].seq
          BY <1>2, <2>1, <3>2 DEF Tables
        <4> QED
          BY <1>1, <1>2, <1>4, <2>2, <2>3, <2>5, <2>7, <2>8, <3>2, <4>1, AnswersSound
      <3>3. CASE ~seen /\ x \in Forward(n, t, m)
        BY <1>1, <1>2, <1>4, <2>3, <2>5, <2>7, <2>8, <3>3, ForwardSound
      <3> QED
        BY <2>1, <2>8, <3>1, <3>2, <3>3
    <2> QED
      BY <2>1, <2>3, <2>6, <2>8, Kept
  <1> QED
    BY <1>3, <1>4

(* processRREP: the route is learnt of the sender, then the RREP goes on   *)
(* with the route of the node itself.                                      *)
LEMMA RecvRREPKeeps ==
    ASSUME Inv, Frame, NEW n \in Nodes, NEW m \in net, m.to = n, RecvRREP(n, m)
    PROVE  Inv'
  <1>1. SoundRREP(m)
    BY DEF RecvRREP, Inv, Sound, SoundRREQ, SoundRERR
  <1>2. Tables /\ m.from \in Nodes \ {n} /\ m.dst \in Nodes /\ m.dseq \in Nat
        /\ m.hops \in 0..MaxHops /\ m.dseq <= own[m.dst].seq /\ m.src \in Nodes \cup {None}
    BY <1>1 DEF Inv, SoundRREP, Offer, Between
  <1> DEFINE hello == m.src = None
  <1>3. PICK t \in AfterRREP(nodes[n], m.from, m.dst, m.dseq, m.hops, hello) :
           /\ nodes' = [nodes EXCEPT ![n] = t]
           /\ net' = (net \ {m}) \cup
                     (IF m.dst = m.from THEN {} ELSE RepairEnded(n, t, m.dst)) \cup
                     Unicast(n, [m EXCEPT !.from = n, !.hops = @ + 1], Back(n, t, m))
    BY DEF RecvRREP
  <1> HIDE DEF hello
  <1>4. Grows
    BY <1>2, SameOwn DEF RecvRREP
  <1>5. HasTable(nodes[n]) /\ m.hops \in Nat
    BY <1>2 DEF Tables
  <1>6. /\ Learns(nodes[n], t, m.from, m.dst, m.dseq, m.hops + 1)
        /\ Heeds(t, m.from, m.dst, m.dseq, m.hops + 1)
    BY <1>2, <1>5, RREPFacts
  <1>7. Change(n, t)
    <2>1. PICK h \in 1..MaxHops + 1 : h = m.hops + 1
      BY <1>2, Constants
    <2>2. m.dst \notin forgot \cup {m.from} => Ahead(m.from, m.dst, m.dseq, h)
      BY <1>1, <2>1 DEF SoundRREP, Offer
    <2> QED
      BY <1>2, <1>6, <2>1, <2>2, LearnsChange
  <1>8. Tables' /\ nodes'[n] = t
    BY <1>2, <1>3, <1>4, <1>7, TablesKept DEF Tables
  <1>9. ASSUME NEW x \in net' \ net
        PROVE  Sound(x)'
    <2>1. CASE x \in RepairEnded(n, t, m.dst)
      <3>1. t.rtable[m.dst].flags = "ACTIVE"
        BY <1>6 DEF Heeds
      <3> QED
        BY <1>2, <1>8, <1>9, <2>1, <3>1, RepairEndedSound
    <2>2. CASE x \in Unicast(n, [m EXCEPT !.from = n, !.hops = @ + 1], Back(n, t, m))
      <3> DEFINE r == [m EXCEPT !.from = n, !.hops = m.hops + 1]
      <3>1. PICK y \in Nodes \ {n} : x = [r EXCEPT !.to = y]
        <4>1. \E to : x \in Unicast(n, r, to)
          BY <2>2
        <4> HIDE DEF r
        <4> QED
          BY <4>1, SentToOne
      <3>2. m.type = "RREP" /\ Fields("RREP") \subseteq DOMAIN m
        BY <1>1 DEF SoundRREP
      <3>3. PICK h \in Nat : h = m.hops + 1
        BY <1>5
      <3>4. /\ x.type = "RREP" /\ Fields("RREP") \subseteq DOMAIN x
            /\ x.from = n /\ x.to \in Nodes \ {n} /\ x.src = m.src
            /\ x.dst = m.dst /\ x.dseq = m.dseq /\ x.hops = h
        BY <3>1, <3>2, <3>3 DEF Fields
      <3>5. Ahead(n, m.dst, m.dseq, h + 1)'
        <4>1. HasTable(t)
          BY <1>6 DEF Learns
        <4> QED
          BY <1>2, <1>6, <1>8, <3>3, <4>1, HeedsAhead
      <3>6. m.dseq <= own'[m.dst].seq
        BY <1>2 DEF RecvRREP
      <3> QED
        BY <1>2, <1>4, <1>9, <3>4, <3>5, <3>6, RREPSent
    <2> QED
      BY <1>3, <1>9, <2>1, <2>2
  <1> QED
    BY <1>3, <1>4, <1>7, <1>9, Kept

(* processRERR, with and without the N flag.                               *)
LEMMA RecvRERRKeeps ==
    ASSUME Inv, Frame, NEW n \in Nodes, NEW m \in net, m.to = n, RecvRERR(n, m)
    PROVE  Inv'
  <1>1. SoundRERR(m)
    BY DEF RecvRERR, Inv, Sound, SoundRREQ, SoundRREP
  <1>2. Tables /\ m.from \in Nodes \ {n} /\ m.dst \in Nodes /\ m.dseq \in Nat
    BY <1>1 DEF Inv, SoundRERR, Between
  <1>3. Grows
    BY <1>2, SameOwn DEF RecvRERR
  <1>4. HasTable(nodes[n]) /\ Short(nodes[n])
    BY <1>2, AllShort DEF Tables
  <1>5. CASE m.N
    <2>1. PICK t \in AfterRepaired(nodes[n], m.from, m.dst, m.dseq) :
             LET e == t.rtable[m.dst]
                 mine == Node!Active(e) /\ e.next = m.from
             IN /\ nodes' = [nodes EXCEPT ![n] = t]
                /\ net' = (net \ {m}) \cup (IF mine THEN RouteError(n, t, m.dst, TRUE, FALSE)
                                            ELSE {})
      BY <1>5 DEF RecvRERR
    <2>2. m.dseq <= own[m.dst].seq /\ m.dst \in forgot
      BY <1>1, <1>5 DEF SoundRERR
    <2>3. Change(n, t)
      BY <1>2, <2>2, RepairedChange
    <2>4. Tables' /\ nodes'[n] = t
      BY <1>2, <1>3, <2>1, <2>3, TablesKept DEF Tables
    <2>5. ASSUME NEW x \in net' \ net
          PROVE  Sound(x)'
      <3>1. t.rtable[m.dst].flags = "ACTIVE"
        BY <2>1, <2>5 DEF Node!Active
      <3>2. t.rtable[m.dst].seq <= own'[m.dst].seq /\ HasTable(t)
        BY <1>2, <2>3, <2>4, <3>1, ActiveOffer DEF Change
      <3>3. PICK N \in BOOLEAN, brd \in BOOLEAN : N = TRUE /\ brd = FALSE /\ x \in RouteError(n, t, m.dst, N, brd)
        BY <2>1, <2>5
      <3> QED
        BY <1>2, <2>5, <3>2, <3>3, RERRSent
    <2> QED
      BY <1>3, <2>1, <2>3, <2>5, Kept
  <1>6. CASE ~m.N
    <2>1. PICK one, t : /\ t \in AfterRERR(nodes[n], m.from, m.dst, m.dseq, one)
                        /\ nodes' = [nodes EXCEPT ![n] = t] /\ net' = net \ {m}
      BY <1>6 DEF RecvRERR
    <2>2. Sender(nodes[n], t, m.from)
      BY <1>2, <1>4, <2>1, RERRFacts
    <2>3. Change(n, t)
      BY <1>2, <2>2, SenderChange
    <2> QED
      BY <1>3, <2>1, <2>3, Kept
  <1> QED
    BY <1>5, <1>6

-----------------------------------------------------------------------------
(* Requests, timers and the radio.                                         *)

(* A step that makes no route and keeps its own number.                    *)
LEMMA QuietKeeps ==
    ASSUME Inv, Frame, UNCHANGED own, NEW n \in Nodes, NEW t, NoneNew(nodes[n], t),
           nodes' = [nodes EXCEPT ![n] = t], \A m \in net' \ net : Sound(m)'
    PROVE  Inv'
  <1>1. Grows
    BY SameOwn DEF Inv
  <1> QED
    BY <1>1, NoneNewChange, Kept

(* A step that changes no table: only what it sends matters.               *)
LEMMA IdleKeeps ==
    ASSUME Inv, Frame, UNCHANGED <<nodes, own>>, NEW n \in Nodes, \A m \in net' \ net : Sound(m)'
    PROVE  Inv'
  <1>1. Change(n, nodes[n]) /\ nodes' = [nodes EXCEPT ![n] = nodes[n]] /\ Grows
    BY Unchanged, SameOwn DEF Inv
  <1> QED
    BY <1>1, Kept

(* A RERR without the N flag says nothing of a route.                      *)
LEMMA BareRERRSent ==
    ASSUME Frame, NEW n \in Nodes, NEW s, HasTable(s), NEW d \in Nodes, NEW brd,
           NEW m \in net', m \in RouteError(n, s, d, FALSE, brd)
    PROVE  Sound(m)'
  <1>1. PICK N \in BOOLEAN : N = FALSE /\ m \in RouteError(n, s, d, N, brd)
    OBVIOUS
  <1> QED
    BY <1>1, RERRSent

(* An RREQ of its own takes the next number.                               *)
LEMMA SearchKeeps ==
    ASSUME Inv, Frame, NEW n \in Nodes, NEW t, NoneNew(nodes[n], t),
           nodes' = [nodes EXCEPT ![n] = t], NEW d \in Nodes, NEW ttl,
           Sends(n, NewRREQ(n, nodes[n], d, ttl))
    PROVE  Inv'
  <1> DEFINE k == nodes[n].rtable[d].seq
             m == [type |-> "RREQ", from |-> n, to |-> None, src |-> n, id |-> own[n].id + 1,
                   sseq |-> own[n].seq + 1, dst |-> d, dseq |-> k, hops |-> 0, ttl |-> ttl]
  <1>1. own[n] \in [seq : Nat, id : Nat] /\ HasTable(nodes[n]) /\ own \in [Nodes -> [seq : Nat, id : Nat]]
    BY DEF Inv, Tables
  <1>2. own' = [own EXCEPT ![n] = [seq |-> own[n].seq + 1, id |-> own[n].id + 1]]
    BY DEF Sends
  <1>3. Grows
    BY <1>1, <1>2 DEF Grows
  <1>4. k \in Nat
    BY <1>1, Parts
  <1>5. net' = net \cup Broadcast(n, m)
    BY DEF Sends, NewRREQ
  <1> HIDE DEF k
  <1>6. ASSUME NEW x \in net' \ net
        PROVE  Sound(x)'
    <2>1. PICK y \in Nodes \ {n} : x = [m EXCEPT !.to = y]
      <3> HIDE DEF m
      <3> QED
        BY <1>5, <1>6, SentTo
    <2>2. PICK q, h \in Nat : q = own[n].seq + 1 /\ h = 0
      BY <1>1
    <2>3. /\ x.type = "RREQ" /\ Fields("RREQ") \subseteq DOMAIN x
          /\ x.from = n /\ x.to \in Nodes \ {n} /\ x.src = n /\ x.sseq = q
          /\ x.dst = d /\ x.dseq = k /\ x.hops = h
      BY <2>1, <2>2 DEF Fields
    <2>4. own'[n].seq = q
      BY <1>1, <1>2, <2>2
    <2> HIDE DEF m
    <2>5. q <= q
      BY <2>2
    <2> QED
      BY <1>3, <1>4, <1>6, <2>2, <2>3, <2>4, <2>5, RREQSent
  <1>7. Change(n, t)
    BY NoneNewChange
  <1> QED
    BY <1>3, <1>6, <1>7, Kept

(* process_asl: a search, a repair or a RERR.                              *)
LEMMA RequestKeeps ==
    ASSUME Inv, Frame, NEW n \in Nodes, NEW d \in Nodes, NEW local \in BOOLEAN, Request(n, d, local)
    PROVE  Inv'
  <1> DEFINE s == nodes[n]
             t == AfterAsl(s, d, local)
  <1>1. HasTable(s)
    BY DEF Inv, Tables
  <1>2. NoneNew(s, t) /\ nodes' = [nodes EXCEPT ![n] = t]
    BY <1>1, AslFacts DEF Request
  <1> HIDE DEF t
  <1>3. \/ \E ttl : Sends(n, NewRREQ(n, s, d, ttl))
        \/ /\ UNCHANGED own
           /\ \/ net' = net
              \/ \E brd : net' = net \cup RouteError(n, s, d, FALSE, brd)
    BY DEF Request, t
  <1>4. CASE \E ttl : Sends(n, NewRREQ(n, s, d, ttl))
    BY <1>2, <1>4, SearchKeeps
  <1>5. CASE UNCHANGED own /\ net' = net
    BY <1>2, <1>5, QuietKeeps
  <1>6. CASE UNCHANGED own /\ \E brd : net' = net \cup RouteError(n, s, d, FALSE, brd)
    <2>1. \A m \in net' \ net : Sound(m)'
      BY <1>1, <1>6, BareRERRSent
    <2> QED
      BY <1>2, <1>6, <2>1, QuietKeeps
  <1> QED
    BY <1>3, <1>4, <1>5, <1>6

(* resendRREQ: the next ring, or the end of the search.                    *)
LEMMA ResendKeeps ==
    ASSUME Inv, Frame, NEW n \in Nodes, NEW d \in Nodes, Resend(n, d)
    PROVE  Inv'
  <1> DEFINE s == nodes[n]
             t == Node!Resent(s, d)
  <1>1. HasTable(s)
    BY DEF Inv, Tables
  <1>2. NoneNew(s, t) /\ nodes' = [nodes EXCEPT ![n] = t]
    BY <1>1, ResentFacts DEF Resend
  <1> HIDE DEF t
  <1>3. (\E ttl : Sends(n, NewRREQ(n, s, d, ttl))) \/ UNCHANGED <<own, net>>
    BY DEF Resend, t
  <1>4. CASE \E ttl : Sends(n, NewRREQ(n, s, d, ttl))
    BY <1>2, <1>4, SearchKeeps
  <1>5. CASE UNCHANGED <<own, net>>
    BY <1>2, <1>5, QuietKeeps
  <1> QED
    BY <1>3, <1>4, <1>5

(* LR_handler: the repair is given up.                                     *)
LEMMA RepairFailedKeeps ==
    ASSUME Inv, Frame, NEW n \in Nodes, NEW d \in Nodes, RepairFailed(n, d)
    PROVE  Inv'
  <1> DEFINE s == nodes[n]
             t == Node!GivenUp(s, d)
  <1>1. HasTable(s)
    BY DEF Inv, Tables
  <1>2. NoneNew(s, t)
    BY <1>1, GivenUpFacts
  <1>3. /\ nodes' = [nodes EXCEPT ![n] = t] /\ UNCHANGED own
        /\ \E brd : net' = net \cup RouteError(n, t, d, FALSE, brd)
    BY DEF RepairFailed
  <1> HIDE DEF t
  <1>4. \A m \in net' \ net : Sound(m)'
    BY <1>2, <1>3, BareRERRSent DEF NoneNew
  <1> QED
    BY <1>2, <1>3, <1>4, QuietKeeps

(* sendHello: an RREP of the node about itself.                            *)
LEMMA HelloKeeps ==
    ASSUME Inv, Frame, NEW n \in Nodes, Hello(n)
    PROVE  Inv'
  <1>1. Grows /\ own[n].seq \in Nat /\ UNCHANGED <<nodes, own>>
    BY SameOwn DEF Inv, Tables, Hello
  <1>2. ASSUME NEW x \in net' \ net
        PROVE  Sound(x)'
    <2>1. PICK q, h \in Nat : q = own[n].seq /\ h = 0 /\ x \in Broadcast(n, RREPMessage(n, None, n, q, h))
      BY <1>1, <1>2 DEF Hello
    <2>2. /\ x.type = "RREP" /\ Fields("RREP") \subseteq DOMAIN x
          /\ x.from = n /\ x.to \in Nodes \ {n} /\ x.src = None /\ x.dst = n
          /\ x.dseq = q /\ x.hops = h
      BY <2>1, RREPMade
    <2>3. q <= own'[n].seq
      BY <1>1, <2>1
    <2> QED
      BY <1>1, <1>2, <2>1, <2>2, <2>3, RREPSent
  <1> QED
    BY <1>1, <1>2, IdleKeeps

(* What timers and time do brings no route and sends nothing.              *)
LEMMA TimersKeep ==
    ASSUME Inv, Frame, NEW n \in Nodes,
           \/ Forget(n)
           \/ \E busy : Refresh(n, busy)
           \/ \E d \in Nodes : Timeout(n, d) \/ Expire(n, d)
    PROVE  Inv'
  <1>1. HasTable(nodes[n])
    BY DEF Inv, Tables
  <1>2. CASE Forget(n)
    BY <1>2, IdleKeeps DEF Forget
  <1>3. ASSUME NEW busy, Refresh(n, busy)
        PROVE  Inv'
    BY <1>1, <1>3, RefreshedFacts, QuietKeeps DEF Refresh
  <1>4. ASSUME NEW d \in Nodes, Timeout(n, d)
        PROVE  Inv'
    <2>1. PICK read : nodes' = [nodes EXCEPT ![n] = Node!TimedOut(nodes[n], d, read)]
      BY <1>4 DEF Timeout
    <2> QED
      BY <1>1, <1>4, <2>1, TimedOutFacts, QuietKeeps DEF Timeout
  <1>5. ASSUME NEW d \in Nodes, Expire(n, d)
        PROVE  Inv'
    <2>1. nodes' = [nodes EXCEPT ![n] = Node!Expired(nodes[n], d)]
      BY <1>5 DEF Expire
    <2> QED
      BY <1>1, <1>5, <2>1, ExpiredFacts, QuietKeeps DEF Expire
  <1> QED
    BY <1>2, <1>3, <1>4, <1>5

(* A lost message takes nothing with it.                                   *)
LEMMA LoseKeeps ==
    ASSUME Inv, Frame, Lose
    PROVE  Inv'
  <1>1. PICK m \in net : net' = net \ {m}
    BY DEF Lose
  <1>2. m.from \in Nodes
    BY DEF Inv, Sound, SoundRREQ, SoundRREP, SoundRERR, Between
  <1> QED
    BY <1>1, <1>2, IdleKeeps DEF Lose

-----------------------------------------------------------------------------
(* Every step.                                                             *)

(* At the start there are neither routes nor messages.                     *)
LEMMA InitInv == Init => Inv
  <1> SUFFICES ASSUME Init
               PROVE  Inv
    OBVIOUS
  <1>1. net = {} /\ nodes = [n \in Nodes |-> nodes[n]]
    BY DEF Init
  <1>2. own \in [Nodes -> [seq : Nat, id : Nat]]
    BY DEF Init
  <1>3. ASSUME NEW n \in Nodes
        PROVE  /\ HasTable(nodes[n])
               /\ \A d \in Nodes : nodes[n].rtable[d].flags = "NONE"
    <2>1. Node!NoRoute \in Entry /\ Node!NoRoute.flags = "NONE"
      BY DEF Node!NoRoute, Entry, Flags, None
    <2>2. "rtable" \in DOMAIN nodes[n] /\ nodes[n].rtable = [d \in Nodes |-> Node!NoRoute]
      BY Constants DEF Init, Node!Started
    <2> QED
      BY <2>1, <2>2 DEF HasTable
  <1> QED
    BY <1>1, <1>2, <1>3 DEF Inv, Tables

(* Every handler of a daemon keeps the invariant.                          *)
LEMMA HandlersKeep ==
    ASSUME Inv, Frame, NEW n \in Nodes, Handlers(n)
    PROVE  Inv'
  <1>1. CASE Receive(n)
    BY <1>1, RecvRREQKeeps, RecvRREPKeeps, RecvRERRKeeps DEF Receive
  <1>2. CASE Hello(n)
    BY <1>2, HelloKeeps
  <1>3. CASE Forget(n) \/ \E busy : Refresh(n, busy)
    BY <1>3, TimersKeep
  <1>4. ASSUME NEW d \in Nodes,
               \/ \E local \in BOOLEAN : Request(n, d, local)
               \/ Resend(n, d) \/ RepairFailed(n, d) \/ Timeout(n, d) \/ Expire(n, d)
        PROVE  Inv'
    BY <1>4, RequestKeeps, ResendKeeps, RepairFailedKeeps, TimersKeep
  <1> QED
    BY <1>1, <1>2, <1>3, <1>4 DEF Handlers

(* So does every step.                                                     *)
LEMMA StepInv == Inv /\ [Next]_vars => Inv'
  <1> SUFFICES ASSUME Inv, [Next]_vars
               PROVE  Inv'
    OBVIOUS
  <1>1. CASE Step(Lose)
    BY <1>1, LoseKeeps DEF Step, Frame
  <1>2. ASSUME NEW n \in Nodes, Step(Handlers(n))
        PROVE  Inv'
    BY <1>2, HandlersKeep DEF Step, Frame
  <1>3. CASE UNCHANGED vars
    <2>1. UNCHANGED <<nodes, own, net, forgot>>
      BY <1>3 DEF vars
    <2>2. Tables'
      BY <2>1 DEF Inv, Tables, Leads, Ahead
    <2>3. \A m : Sound(m) => Sound(m)'
      BY <2>1 DEF Sound, SoundRREQ, SoundRREP, SoundRERR, Offer, Ahead, Between
    <2> QED
      BY <2>1, <2>2, <2>3 DEF Inv
  <1> QED
    BY <1>1, <1>2, <1>3 DEF Next

(* The invariant holds in every state.                                     *)
LEMMA Always == Spec => []Inv
  BY InitInv, StepInv, PTL DEF Spec

(* Nobody has an active route with a number that its destination has not   *)
(* handed out.                                                             *)
THEOREM NumbersFromOwner == Spec => []SeqFromOwner
  <1>1. Inv => SeqFromOwner
    BY DEF Inv, Tables, Leads, SeqFromOwner
  <1> QED
    BY <1>1, Always, PTL

(* Among nodes whose routes lead to each other, one has the least number   *)
(* and, of those, one the fewest hops; its next hop would be nearer.       *)
LEMMA NoCircle ==
    ASSUME Tables, NEW d \in Nodes \ forgot, NEW S \in SUBSET (Nodes \ {d}),
           \A n \in S : nodes[n].rtable[d].flags = "ACTIVE" /\ nodes[n].rtable[d].next \in S
    PROVE  S = {}
  <1> SUFFICES ASSUME S # {}
               PROVE  FALSE
    OBVIOUS
  <1> DEFINE e(n) == nodes[n].rtable[d]
             top == own[d].seq
             late == {top - e(n).seq : n \in S}
  <1>1. \A n \in S : /\ e(n).seq \in Nat /\ e(n).hops \in Nat /\ e(n).seq <= top
                     /\ Ahead(e(n).next, d, e(n).seq, e(n).hops) /\ e(n).next \in S
    <2> SUFFICES ASSUME NEW n \in S
                 PROVE  /\ e(n).seq \in Nat /\ e(n).hops \in Nat /\ e(n).seq <= top
                        /\ Ahead(e(n).next, d, e(n).seq, e(n).hops) /\ e(n).next \in S
      OBVIOUS
    <2>1. HasTable(nodes[n]) /\ Leads(n, d, e(n))
      BY DEF Tables
    <2>2. e(n).seq \in Nat /\ e(n).hops \in Nat
      BY <2>1, Parts
    <2> QED
      BY <2>1, <2>2 DEF Leads
  <1>2. top \in Nat
    BY DEF Tables
  <1>3. \A n \in S : LET x == e(n).next IN
           e(x).seq > e(n).seq \/ (e(x).seq = e(n).seq /\ e(x).hops < e(n).hops)
    BY <1>1 DEF Ahead
  <1> HIDE DEF top, e
  <1>4. PICK n \in S : \A x \in S : e(x).seq <= e(n).seq
    <2>1. late \in SUBSET Nat /\ late # {}
      BY <1>1, <1>2
    <2> HIDE DEF late
    <2>2. PICK k \in late : \A l \in late : k <= l
      BY <2>1, Least
    <2>3. PICK n \in S : k = top - e(n).seq
      BY DEF late
    <2>4. ASSUME NEW x \in S
          PROVE  e(x).seq <= e(n).seq
      <3>1. top - e(n).seq <= top - e(x).seq
        BY <2>2, <2>3 DEF late
      <3> QED
        BY <1>1, <1>2, <3>1
    <2> QED
      BY <2>4
  <1> DEFINE T == {e(x).hops : x \in {y \in S : e(y).seq = e(n).seq}}
  <1>5. T \in SUBSET Nat /\ T # {}
    BY <1>1
  <1>6. PICK k \in T : \A l \in T : k <= l
    <2> HIDE DEF T
    <2> QED
      BY <1>5, Least
  <1>7. PICK x \in S : e(x).seq = e(n).seq /\ e(x).hops = k
    OBVIOUS
  <1> DEFINE y == e(x).next
  <1>8. y \in S /\ (e(y).seq > e(x).seq \/ (e(y).seq = e(x).seq /\ e(y).hops < e(x).hops))
    BY <1>1, <1>3
  <1>9. e(y).seq <= e(n).seq /\ e(y).seq \in Nat /\ e(n).seq \in Nat
        /\ e(x).seq \in Nat /\ e(x).hops \in Nat /\ e(y).hops \in Nat
    BY <1>1, <1>4, <1>8
  <1> HIDE DEF y
  <1>10. e(y).seq = e(n).seq /\ e(y).hops < k
    BY <1>7, <1>8, <1>9
  <1>11. e(y).hops \in T
    BY <1>8, <1>10
  <1> HIDE DEF T
  <1>12. k <= e(y).hops /\ k \in Nat
    BY <1>5, <1>6, <1>11
  <1> QED
    BY <1>9, <1>10, <1>12

(* No circle of routes, whichever messages are late, lost or repeated by   *)
(* the nodes, as long as every node keeps count of the destination.        *)
THEOREM RoutesEndAtDestination == Spec => []LoopFree
  <1>1. Inv => LoopFree
    BY NoCircle DEF Inv, LoopFree
  <1> QED
    BY <1>1, Always, PTL
=============================================================================
