--------------------------- MODULE AodvNodeProofs ---------------------------
(* Proofs about the routing table of one node, its searches and the        *)
(* answers it owes to the LA, for any number of other nodes, destinations, *)
(* searches and repairs, any bounds and any messages.                      *)
EXTENDS AodvNode, ListLemmas, FiniteSetTheorems, FunctionTheorems

Hops == 0..MaxHops + 1 \cup {Infinity}
Flags == {"NONE", "ACTIVE", "BROKEN", "INVALID"}
Entry == [flags : Flags, hops : Hops, last : Hops, next : Dests \cup {NoNode},
          seq : Seqs, live : BOOLEAN]
TimerKinds == {"RREQ", "LR"}
Counts == [RREQ : Nat, LR : Nat]
Pending == [dest : Dests, retries : 0..2, ttl : Nat]

States ==
    [rtable : [Dests -> Entry], kroute : [Dests -> Dests \cup {NoNode}],
     repair : SUBSET Dests, watch : SUBSET Dests,
     search : [Dests -> Counts], rreqL : Seq(Pending),
     duringReboot : BOOLEAN, down : {"up", "rerr", "refresh"},
     waiting : [Dests -> {"no", "search", "repair"}]]

(* What is known of each entry: one that is not there is NoRoute, the      *)
(* others have a next hop, and an active route of one hop is that of a     *)
(* neighbour.                                                              *)
Sane(e, d) ==
    /\ (e.flags = "NONE") = (e = NoRoute)
    /\ e.flags # "NONE" => e.next \in Dests
    /\ e.flags = "ACTIVE" => e.hops \in 1..MaxHops + 1 /\ (e.hops = 1 => e.next = d)

Typed(s) == s \in States /\ \A d \in Dests : Sane(s.rtable[d], d)

-----------------------------------------------------------------------------
(* Numbers.                                                                *)

(* Hops are far from Infinity.                                             *)
LEMMA Sizes ==
    /\ MaxHops \in Nat \ {0} /\ MaxHops + 1 < Infinity /\ Infinity = 60
    /\ MaxSeq \in Nat /\ Len(Order) \in Nat
    /\ Order \in Seq(Dests) /\ NoNode \notin Dests
    /\ Hops \subseteq Nat /\ Seqs \subseteq Nat /\ 0 \in Seqs /\ 0 \in Hops
    /\ Infinity \in Hops
  BY TableAssumption DEF Hops, Seqs, Infinity

-----------------------------------------------------------------------------
(* Parts of a state.                                                       *)

(* A new entry in the routing table.                                       *)
LEMMA EntryPut ==
    ASSUME NEW s \in States, NEW d \in Dests, NEW e \in Entry
    PROVE  LET t == [s EXCEPT !.rtable[d] = e] IN
           /\ t \in States /\ t.rtable[d] = e
           /\ \A x \in Dests \ {d} : t.rtable[x] = s.rtable[x]
           /\ t.kroute = s.kroute /\ t.repair = s.repair /\ t.search = s.search
           /\ t.duringReboot = s.duringReboot /\ t.down = s.down
           /\ t.watch = s.watch /\ t.rreqL = s.rreqL /\ t.waiting = s.waiting
  BY DEF States

(* A table of entries.                                                     *)
LEMMA TablePut ==
    ASSUME NEW s \in States, NEW r \in [Dests -> Entry]
    PROVE  LET t == [s EXCEPT !.rtable = r] IN
           /\ t \in States /\ t.rtable = r
           /\ t.kroute = s.kroute /\ t.repair = s.repair /\ t.search = s.search
           /\ t.duringReboot = s.duringReboot /\ t.down = s.down
  BY DEF States

(* A counter of timers.                                                    *)
LEMMA CountPut ==
    ASSUME NEW s \in States, NEW d \in Dests, NEW k \in TimerKinds, NEW n \in Nat
    PROVE  LET t == [s EXCEPT !.search[d][k] = n] IN
           /\ t \in States /\ t.rtable = s.rtable /\ t.kroute = s.kroute
           /\ t.repair = s.repair /\ t.duringReboot = s.duringReboot /\ t.down = s.down
           /\ t.waiting = s.waiting /\ t.rreqL = s.rreqL
           /\ t.search[d][k] = n
  <1>1. s.search[d] \in Counts
    BY DEF States
  <1>2. [s.search[d] EXCEPT ![k] = n] \in Counts
    BY <1>1 DEF Counts, TimerKinds
  <1>3. [s.search EXCEPT ![d] = [s.search[d] EXCEPT ![k] = n]] \in [Dests -> Counts]
    BY <1>2 DEF States
  <1> QED
    BY <1>1, <1>2, <1>3 DEF States, Counts, TimerKinds

(* The answer owed to the LA.                                              *)
LEMMA WaitPut ==
    ASSUME NEW s \in States, NEW d \in Dests, NEW w \in {"no", "search", "repair"}
    PROVE  LET t == [s EXCEPT !.waiting[d] = w] IN
           /\ t \in States /\ t.rtable = s.rtable /\ t.kroute = s.kroute
           /\ t.repair = s.repair /\ t.search = s.search /\ t.rreqL = s.rreqL
           /\ t.duringReboot = s.duringReboot /\ t.down = s.down
  BY DEF States

(* The pending RREQs.                                                      *)
LEMMA ListPut ==
    ASSUME NEW s \in States, NEW q \in Seq(Pending)
    PROVE  LET t == [s EXCEPT !.rreqL = q] IN
           /\ t \in States /\ t.rtable = s.rtable /\ t.kroute = s.kroute
           /\ t.repair = s.repair /\ t.search = s.search /\ t.rreqL = q
           /\ t.duringReboot = s.duringReboot /\ t.down = s.down
  BY DEF States

(* The repair list.                                                        *)
LEMMA RepairPut ==
    ASSUME NEW s \in States, NEW R \in SUBSET Dests
    PROVE  LET t == [s EXCEPT !.repair = R] IN
           /\ t \in States /\ t.rtable = s.rtable /\ t.kroute = s.kroute
           /\ t.repair = R /\ t.search = s.search /\ t.rreqL = s.rreqL
           /\ t.duringReboot = s.duringReboot /\ t.down = s.down
  BY DEF States

(* The counters of a state are numbers.                                    *)
LEMMA CountGet ==
    ASSUME NEW s \in States, NEW d \in Dests, NEW k \in TimerKinds
    PROVE  s.search[d][k] \in Nat
  BY DEF States, Counts, TimerKinds

(* The entry that a message makes.                                         *)
LEMMA RouteEntry ==
    ASSUME NEW e \in Entry, NEW p \in Dests, NEW seq \in Seqs, NEW hops \in 1..MaxHops + 1
    PROVE  LET r == Route(e, p, seq, hops) IN
           /\ r \in Entry /\ r.flags = "ACTIVE" /\ r.next = p /\ r.seq = seq
           /\ r.hops = hops
           /\ \A d \in Dests : (hops = 1 => p = d) => Sane(r, d)
  <1>1. Route(e, p, seq, hops) \in Entry
    <2>1. hops \in Hops
      BY DEF Hops
    <2> QED
      BY <2>1 DEF Entry, Route, Flags
  <1>2. /\ Route(e, p, seq, hops).flags = "ACTIVE" /\ Route(e, p, seq, hops).next = p
        /\ Route(e, p, seq, hops).seq = seq /\ Route(e, p, seq, hops).hops = hops
    BY DEF Entry, Route
  <1> HIDE DEF Route
  <1> QED
    BY <1>1, <1>2 DEF Sane, NoRoute

-----------------------------------------------------------------------------
(* What holds of the lists and of the kernel.  M are the destinations      *)
(* whose active routes the kernel need not have, C those whose broken      *)
(* routes need not be on the repair list.                                  *)
Repaired(s, C) == \A d \in Dests : s.rtable[d].flags = "BROKEN" => d \in s.repair \cup C

Followed(s, M) ==
    ~s.duringReboot =>
       \A d \in Dests \ M : s.rtable[d].flags = "ACTIVE" =>
          /\ s.kroute[d] # NoNode
          /\ s.rtable[d].hops > 1 => s.kroute[d] = s.rtable[d].next

Inv(s, M, C) == Typed(s) /\ Repaired(s, C) /\ Followed(s, M)

(* Destinations whose routes have ended need not be excepted any more.     *)
LEMMA Narrowed ==
    ASSUME NEW s, NEW M, NEW C, NEW M2, NEW C2, Inv(s, M, C),
           \A d \in Dests : d \in M /\ s.rtable[d].flags = "ACTIVE" => d \in M2,
           \A d \in Dests : d \in C /\ s.rtable[d].flags = "BROKEN" /\ d \notin s.repair => d \in C2
    PROVE  Inv(s, M2, C2)
  BY DEF Inv, Repaired, Followed

(* The same, but for d.                                                    *)
Beside(f, g, d) == \A x \in Dests \ {d} : g[x] = f[x]
Within(A, B, d) == \A x \in Dests \ {d} : x \in A => x \in B

(* An entry e of d, if d need not be excepted, and the kernel's route k.   *)
Fits(s, d, e, k, M, C) ==
    /\ Sane(e, d)
    /\ e.flags = "BROKEN" => d \in s.repair \cup C
    /\ e.flags = "ACTIVE" /\ ~s.duringReboot /\ d \notin M =>
          k # NoNode /\ (e.hops > 1 => k = e.next)

(* An entry that changes, and what the kernel has for it.                  *)
LEMMA Changed ==
    ASSUME NEW s \in States, NEW M, NEW C, Inv(s, M, C), NEW t \in States, NEW M2, NEW C2,
           NEW d \in Dests, Beside(s.rtable, t.rtable, d), Beside(s.kroute, t.kroute, d),
           t.repair = s.repair, t.duringReboot = s.duringReboot,
           Within(M, M2, d), Within(C, C2, d), Fits(s, d, t.rtable[d], t.kroute[d], M2, C2)
    PROVE  Inv(t, M2, C2)
  <1>1. Typed(t)
    BY DEF Inv, Typed, Beside, Fits
  <1>2. Repaired(t, C2)
    BY DEF Inv, Repaired, Beside, Within, Fits
  <1>3. Followed(t, M2)
    <2> SUFFICES ASSUME ~s.duringReboot, NEW x \in Dests \ M2, t.rtable[x].flags = "ACTIVE"
                 PROVE  /\ t.kroute[x] # NoNode
                        /\ t.rtable[x].hops > 1 => t.kroute[x] = t.rtable[x].next
      BY DEF Followed
    <2>1. CASE x = d
      BY <2>1 DEF Fits
    <2>2. CASE x # d
      BY <2>2 DEF Inv, Followed, Beside, Within
    <2> QED
      BY <2>1, <2>2
  <1> QED
    BY <1>1, <1>2, <1>3 DEF Inv

(* An entry that changes without becoming active or broken.                *)
LEMMA QuietEntry ==
    ASSUME NEW M, NEW C, NEW s \in States, Inv(s, M, C), NEW d \in Dests, NEW e \in Entry, Sane(e, d),
           e.flags = "ACTIVE" => /\ s.rtable[d].flags = "ACTIVE" /\ e.hops = s.rtable[d].hops
                                 /\ e.next = s.rtable[d].next,
           e.flags = "BROKEN" => s.rtable[d].flags = "BROKEN"
    PROVE  LET t == [s EXCEPT !.rtable[d] = e] IN
           /\ t \in States /\ Inv(t, M, C) /\ t.duringReboot = s.duringReboot /\ t.down = s.down
           /\ t.rtable[d] = e /\ t.repair = s.repair /\ t.kroute = s.kroute
           /\ t.search = s.search
           /\ \A x \in Dests \ {d} : t.rtable[x] = s.rtable[x]
  <1> DEFINE t == [s EXCEPT !.rtable[d] = e]
  <1>1. /\ t \in States /\ t.rtable[d] = e
        /\ \A x \in Dests \ {d} : t.rtable[x] = s.rtable[x]
        /\ t.kroute = s.kroute /\ t.repair = s.repair /\ t.search = s.search
        /\ t.duringReboot = s.duringReboot /\ t.down = s.down
    BY EntryPut
  <1> HIDE DEF t
  <1>2. e.flags = "BROKEN" => d \in s.repair \cup C
    BY DEF Inv, Repaired
  <1>3. e.flags = "ACTIVE" /\ ~s.duringReboot /\ d \notin M =>
           s.kroute[d] # NoNode /\ (e.hops > 1 => s.kroute[d] = e.next)
    BY DEF Inv, Followed
  <1>4. Inv(t, M, C)
    <2>1. Beside(s.rtable, t.rtable, d) /\ Beside(s.kroute, t.kroute, d)
          /\ Within(M, M, d) /\ Within(C, C, d)
      BY <1>1 DEF Beside, Within
    <2>2. Fits(s, d, t.rtable[d], t.kroute[d], M, C)
      BY <1>1, <1>2, <1>3 DEF Fits
    <2> QED
      BY <1>1, <2>1, <2>2, Changed
  <1> QED
    BY <1>1, <1>4 DEF t

(* Nothing of the searches changes.                                        *)
Untouched(s, t) == t.search = s.search /\ t.rreqL = s.rreqL /\ t.waiting = s.waiting

(* A new entry, with or without the call that tells the kernel.            *)
Told(s, d, e, told) ==
    LET t == [s EXCEPT !.rtable[d] = e] IN IF told THEN AddKroute(t, d) ELSE t

LEMMA ToldFacts ==
    ASSUME NEW s \in States, NEW d \in Dests, NEW e \in Entry, e.next \in Dests, NEW told \in BOOLEAN
    PROVE  LET t == Told(s, d, e, told) IN
           /\ t \in States /\ t.rtable[d] = e /\ Untouched(s, t)
           /\ \A x \in Dests \ {d} : t.rtable[x] = s.rtable[x] /\ t.kroute[x] = s.kroute[x]
           /\ t.kroute[d] = IF told THEN e.next ELSE s.kroute[d]
           /\ t.repair = s.repair /\ t.duringReboot = s.duringReboot /\ t.down = s.down
  <1> DEFINE n == [s EXCEPT !.rtable[d] = e]
             a == AddKroute(n, d)
  <1>1. /\ n \in States /\ n.rtable[d] = e /\ Untouched(s, n)
        /\ \A x \in Dests \ {d} : n.rtable[x] = s.rtable[x]
        /\ n.kroute = s.kroute /\ n.repair = s.repair
        /\ n.duringReboot = s.duringReboot /\ n.down = s.down
    BY EntryPut DEF Untouched
  <1> HIDE DEF n
  <1>2. /\ a \in States /\ a.rtable = n.rtable /\ a.kroute = [n.kroute EXCEPT ![d] = e.next]
        /\ a.repair = n.repair /\ a.duringReboot = n.duringReboot /\ a.down = n.down
        /\ Untouched(n, a)
    BY <1>1 DEF AddKroute, ReplaceRoute, States, Untouched
  <1> HIDE DEF a
  <1>3. /\ a.kroute[d] = e.next
        /\ \A x \in Dests \ {d} : a.kroute[x] = s.kroute[x]
    BY <1>1, <1>2 DEF States
  <1>4. Told(s, d, e, told) = IF told THEN a ELSE n
    BY DEF Told, n, a
  <1>5. CASE told
    <2>1. Told(s, d, e, told) = a
      BY <1>4, <1>5
    <2> QED
      BY <1>1, <1>2, <1>3, <1>5, <2>1 DEF Untouched
  <1>6. CASE ~told
    BY <1>1, <1>4, <1>6
  <1> QED
    BY <1>5, <1>6

-----------------------------------------------------------------------------
(* What the LA, timers and the passing of time leave: no new active route, *)
(* and no route behind a neighbour that has none.                          *)
Alike(e, f) == f.flags = e.flags /\ f.next = e.next /\ f.hops = e.hops /\ f.seq = e.seq

Leads(s, p, d) ==
    LET e == s.rtable[p]
        f == s.rtable[d]
    IN p # d /\ e.flags = "ACTIVE" /\ e.hops = 1 /\ f.flags = "ACTIVE" /\ f.next = p

Along(s, t) ==
    \A p, d \in Dests : Leads(s, p, d) /\ t.rtable[p].flags # "ACTIVE" => t.rtable[d].flags # "ACTIVE"

Quieter(s, t) ==
    \A x \in Dests : t.rtable[x].flags = "ACTIVE" => Alike(s.rtable[x], t.rtable[x])

(* No route breaks, either.                                                *)
Kept(s, t, M, C) ==
    /\ t \in States /\ Inv(t, M, C)
    /\ \A x \in Dests : /\ t.rtable[x].flags = "ACTIVE" => Alike(s.rtable[x], t.rtable[x])
                        /\ t.rtable[x].flags = "BROKEN" => s.rtable[x].flags = "BROKEN"

(* A state that differs in the lists and counters only.                    *)
LEMMA SameTable ==
    ASSUME NEW M, NEW C, NEW s \in States, Inv(s, M, C), NEW t \in States, t.rtable = s.rtable, t.kroute = s.kroute,
           t.duringReboot = s.duringReboot, t.repair = s.repair
    PROVE  Kept(s, t, M, C) /\ Along(s, t)
  <1>1. Inv(t, M, C)
    BY DEF Inv, Typed, Repaired, Followed
  <1>2. Along(s, t)
    BY DEF Along, Leads
  <1> QED
    BY <1>1, <1>2 DEF Kept, Alike

(* Two steps.                                                              *)
LEMMA KeptTwice ==
    ASSUME NEW M, NEW C, NEW s, NEW t, NEW u, Kept(s, t, M, C), Along(s, t), Kept(t, u, M, C), Along(t, u)
    PROVE  Kept(s, u, M, C) /\ Along(s, u)
  <1>1. Kept(s, u, M, C)
    BY DEF Kept, Alike
  <1>2. Along(s, u)
    <2> SUFFICES ASSUME NEW p \in Dests, NEW d \in Dests, Leads(s, p, d),
                        u.rtable[p].flags # "ACTIVE", u.rtable[d].flags = "ACTIVE"
                 PROVE  FALSE
      BY DEF Along
    <2>1. t.rtable[d].flags = "ACTIVE" /\ Alike(s.rtable[d], t.rtable[d])
      BY DEF Kept, Alike
    <2>2. t.rtable[p].flags = "ACTIVE" /\ Alike(s.rtable[p], t.rtable[p])
      BY <2>1 DEF Kept, Along
    <2>3. Leads(t, p, d)
      BY <2>1, <2>2 DEF Leads, Alike
    <2> QED
      BY <2>3 DEF Along
  <1> QED
    BY <1>1, <1>2

(* An entry alike.                                                         *)
LEMMA LikeEntry ==
    ASSUME NEW M, NEW C, NEW s \in States, Inv(s, M, C), NEW d \in Dests, NEW e \in Entry, Sane(e, d),
           Alike(s.rtable[d], e)
    PROVE  LET t == [s EXCEPT !.rtable[d] = e] IN
           /\ Kept(s, t, M, C) /\ Along(s, t) /\ t.search = s.search /\ t.kroute = s.kroute
           /\ t.duringReboot = s.duringReboot /\ t.down = s.down
           /\ t.rtable[d] = e /\ \A x \in Dests \ {d} : t.rtable[x] = s.rtable[x]
  <1> DEFINE t == [s EXCEPT !.rtable[d] = e]
  <1>1. /\ t \in States /\ Inv(t, M, C) /\ t.duringReboot = s.duringReboot /\ t.down = s.down
        /\ t.rtable[d] = e /\ t.kroute = s.kroute /\ t.search = s.search
        /\ \A x \in Dests \ {d} : t.rtable[x] = s.rtable[x]
    BY QuietEntry DEF Alike
  <1> HIDE DEF t
  <1>2. \A x \in Dests : Alike(s.rtable[x], t.rtable[x])
    BY <1>1 DEF Alike
  <1>3. Along(s, t)
    BY <1>2 DEF Along, Leads, Alike
  <1>4. Kept(s, t, M, C)
    BY <1>1, <1>2 DEF Kept, Alike
  <1> QED
    BY <1>1, <1>3, <1>4 DEF t

(* process_asl *)
LEMMA SendKeeps ==
    ASSUME NEW M, NEW C, NEW s \in States, Inv(s, M, C), NEW d \in Dests
    PROVE  Kept(s, SendRREQ(s, d), M, C) /\ Along(s, SendRREQ(s, d))
  <1> DEFINE e == s.rtable[d]
             f == [e EXCEPT !.live = @ \/ e.flags # "NONE"]
             live == [s EXCEPT !.rtable[d] = f]
             new == [dest |-> d, retries |-> 0, ttl |-> FirstTTL(live.rtable[d])]
             n == s.search[d]["RREQ"] + 1
             u == SendRREQ(s, d)
  <1>1. e \in Entry /\ Sane(e, d)
    BY DEF States, Inv, Typed
  <1>2. f \in Entry /\ Alike(e, f) /\ Sane(f, d)
    BY <1>1 DEF Entry, Alike, Sane, NoRoute
  <1>3. Kept(s, live, M, C) /\ Along(s, live) /\ live.search = s.search /\ live.rtable[d] = f
    <2> HIDE DEF f
    <2> QED
      BY <1>2, LikeEntry
  <1>4. new \in Pending
    <2>1. f.hops \in Nat /\ f.last \in Nat
      BY <1>2, Sizes DEF Entry
    <2> HIDE DEF f
    <2>2. FirstTTL(f) \in Nat
      BY <2>1 DEF FirstTTL
    <2> QED
      BY <1>3, <2>2 DEF Pending
  <1>5. live \in States /\ Inv(live, M, C)
    BY <1>3 DEF Kept
  <1> HIDE DEF f, new
  <1>6. n \in Nat
    BY CountGet DEF TimerKinds
  <1>7. u = [live EXCEPT !.rreqL = Append(@, new), !.search[d]["RREQ"] = n,
                         !.waiting[d] = "search"]
    BY <1>3 DEF SendRREQ, new, f
  <1> HIDE DEF live, n
  <1> DEFINE q == Append(live.rreqL, new)
             a == [live EXCEPT !.rreqL = q]
             b == [a EXCEPT !.search[d]["RREQ"] = n]
             c == [b EXCEPT !.waiting[d] = "search"]
  <1>8. q \in Seq(Pending)
    BY <1>4, <1>5 DEF States
  <1>9. u = c
    BY <1>5, <1>7 DEF States
  <1> HIDE DEF q
  <1>10. /\ a \in States /\ a.rtable = live.rtable /\ a.kroute = live.kroute
         /\ a.duringReboot = live.duringReboot /\ a.repair = live.repair
    BY <1>5, <1>8, ListPut
  <1> HIDE DEF a
  <1>11. /\ b \in States /\ b.rtable = a.rtable /\ b.kroute = a.kroute
         /\ b.duringReboot = a.duringReboot /\ b.repair = a.repair
    BY <1>6, <1>10, CountPut DEF TimerKinds
  <1> HIDE DEF b
  <1>12. /\ c \in States /\ c.rtable = b.rtable /\ c.kroute = b.kroute
         /\ c.duringReboot = b.duringReboot /\ c.repair = b.repair
    BY <1>11, WaitPut
  <1> HIDE DEF c
  <1>13. Kept(live, u, M, C) /\ Along(live, u)
    BY <1>5, <1>9, <1>10, <1>11, <1>12, SameTable
  <1> QED
    BY <1>3, <1>13, KeptTwice

LEMMA AnswerKeeps ==
    ASSUME NEW M, NEW C, NEW s \in States, Inv(s, M, C), NEW d \in Dests
    PROVE  Kept(s, Answer(s, d), M, C) /\ Along(s, Answer(s, d))
  <1> DEFINE a == Answer(s, d)
  <1>1. /\ a \in States /\ a.rtable = s.rtable /\ a.kroute = s.kroute
        /\ a.duringReboot = s.duringReboot /\ a.repair = s.repair
    BY WaitPut DEF Answer
  <1> HIDE DEF a
  <1>2. Kept(s, a, M, C) /\ Along(s, a)
    BY <1>1, SameTable
  <1> QED
    BY <1>2 DEF a

LEMMA RepairKeeps ==
    ASSUME NEW M, NEW C, NEW s \in States, Inv(s, M, C), NEW d \in Dests
    PROVE  Kept(s, LocalRepair(s, d), M, C) /\ Along(s, LocalRepair(s, d))
  <1> DEFINE u == LocalRepair(s, d)
             n == s.search[d]["LR"] + 1
             a == [s EXCEPT !.search[d]["LR"] = n]
             b == [a EXCEPT !.waiting[d] = "search"]
  <1>1. u = b
    BY DEF LocalRepair, States
  <1>2. n \in Nat
    BY CountGet DEF TimerKinds
  <1> HIDE DEF n, u
  <1>3. /\ a \in States /\ a.rtable = s.rtable /\ a.kroute = s.kroute
        /\ a.duringReboot = s.duringReboot /\ a.repair = s.repair
    BY <1>2, CountPut DEF TimerKinds
  <1> HIDE DEF a
  <1>4. /\ b \in States /\ b.rtable = a.rtable /\ b.kroute = a.kroute
        /\ b.duringReboot = a.duringReboot /\ b.repair = a.repair
    BY <1>3, WaitPut
  <1> HIDE DEF b
  <1>5. Kept(s, u, M, C) /\ Along(s, u)
    BY <1>1, <1>3, <1>4, SameTable
  <1> QED
    BY <1>5 DEF u

LEMMA WaitKeeps ==
    ASSUME NEW M, NEW C, NEW s \in States, Inv(s, M, C), NEW d \in Dests,
           NEW w \in {"no", "search", "repair"}
    PROVE  LET u == [s EXCEPT !.waiting[d] = w] IN Kept(s, u, M, C) /\ Along(s, u)
  <1> DEFINE u == [s EXCEPT !.waiting[d] = w]
  <1>1. /\ u \in States /\ u.rtable = s.rtable /\ u.kroute = s.kroute
        /\ u.duringReboot = s.duringReboot /\ u.repair = s.repair
    BY WaitPut
  <1> HIDE DEF u
  <1>2. Kept(s, u, M, C) /\ Along(s, u)
    BY <1>1, SameTable
  <1> QED
    BY <1>2 DEF u

(* An entry of a list is tried again: the first one of d, which exists.    *)
FirstOf(q, d, i) ==
    /\ i \in DOMAIN q /\ q[i].dest = d
    /\ \A k \in 1..i - 1 : q[k].dest # d

LEMMA FirstThere ==
    ASSUME NEW S, NEW q \in Seq(S), NEW d, \E j \in DOMAIN q : q[j].dest = d
    PROVE  /\ \E i \in DOMAIN q : FirstOf(q, d, i)
           /\ \A i, j \in DOMAIN q : FirstOf(q, d, i) /\ FirstOf(q, d, j) => i = j
  <1> DEFINE T == {j \in DOMAIN q : q[j].dest = d}
  <1>1. DOMAIN q = 1..Len(q) /\ Len(q) \in Nat
    OBVIOUS
  <1>2. PICK i \in T : \A y \in T : i <= y
    <2>1. T \in SUBSET Nat /\ T # {}
      BY <1>1
    <2> HIDE DEF T
    <2> QED
      BY <2>1, Least
  <1>3. FirstOf(q, d, i)
    <2>1. ASSUME NEW k \in 1..i - 1, q[k].dest = d
          PROVE  FALSE
      <3>1. k \in T /\ k < i
        BY <1>1, <1>2, <2>1
      <3> QED
        BY <1>1, <1>2, <3>1
    <2> QED
      BY <1>2, <2>1 DEF FirstOf
  <1>4. ASSUME NEW x \in DOMAIN q, NEW y \in DOMAIN q, FirstOf(q, d, x), FirstOf(q, d, y)
        PROVE  x = y
    BY <1>1, <1>4 DEF FirstOf
  <1> QED
    BY <1>2, <1>3, <1>4

First(q, d) == CHOOSE j \in DOMAIN q : q[j].dest = d /\ \A k \in 1..j - 1 : q[k].dest # d

LEMMA FirstChosen ==
    ASSUME NEW S, NEW q \in Seq(S), NEW d, NEW i \in DOMAIN q, FirstOf(q, d, i)
    PROVE  First(q, d) = i
  <1> DEFINE P(j) == q[j].dest = d /\ \A k \in 1..j - 1 : q[k].dest # d
             c == CHOOSE j \in DOMAIN q : P(j)
  <1>1. c \in DOMAIN q /\ P(c)
    <2>1. \E j \in DOMAIN q : P(j)
      BY DEF FirstOf
    <2> HIDE DEF P
    <2> QED
      BY <2>1
  <1>2. FirstOf(q, d, c) /\ First(q, d) = c
    <2> HIDE DEF c
    <2>1. FirstOf(q, d, c)
      BY <1>1 DEF FirstOf
    <2>2. First(q, d) = c
      BY DEF First, c
    <2> QED
      BY <2>1, <2>2
  <1> HIDE DEF P, c
  <1>3. \E j \in DOMAIN q : q[j].dest = d
    BY DEF FirstOf
  <1> QED
    BY <1>1, <1>2, <1>3, FirstThere

Tries == [dest : Dests, retries : 0..3, ttl : Nat]

LEMMA Trying ==
    /\ \A e \in Pending : e \in Tries /\ NextTry(e) \in Tries /\ NextTry(e).dest = e.dest
    /\ \A e \in Tries : ~(e.retries > 2) => e \in Pending
  <1>1. ASSUME NEW e \in Pending
        PROVE  NextTry(e) \in Tries /\ NextTry(e).dest = e.dest
    <2>1. CASE e.ttl = 35
      BY <2>1 DEF Pending, Tries, NextTry
    <2>2. CASE e.ttl # 35 /\ e.ttl + 2 < 7
      BY <2>2 DEF Pending, Tries, NextTry
    <2>3. CASE e.ttl # 35 /\ ~(e.ttl + 2 < 7)
      <3> DEFINE f == [e EXCEPT !.ttl = 35]
      <3>1. f \in Pending /\ f.dest = e.dest
        BY DEF Pending
      <3>2. NextTry(e) = [f EXCEPT !.retries = f.retries + 1]
        BY <2>3 DEF Pending, NextTry
      <3> HIDE DEF f
      <3>3. LET g == [f EXCEPT !.retries = f.retries + 1] IN g \in Tries /\ g.dest = f.dest
        BY <3>1 DEF Pending, Tries
      <3> QED
        BY <3>1, <3>2, <3>3
    <2> QED
      BY <2>1, <2>2, <2>3
  <1>2. \A e \in Pending : e \in Tries
    BY DEF Pending, Tries
  <1>3. \A e \in Tries : ~(e.retries > 2) => e \in Pending
    BY DEF Pending, Tries
  <1> QED
    BY <1>1, <1>2, <1>3

LEMMA RetriedFacts ==
    ASSUME NEW q \in Seq(Pending), NEW d \in Dests, \E j \in DOMAIN q : q[j].dest = d
    PROVE  LET r == Retried(q, d) IN
           \E i \in DOMAIN q :
              /\ r \in Seq(Tries) /\ DOMAIN r = DOMAIN q /\ FirstOf(r, d, i)
              /\ \A j \in DOMAIN r \ {i} : r[j] \in Pending
              /\ \A j \in DOMAIN r : r[j].dest = q[j].dest
  <1>1. PICK i \in DOMAIN q : FirstOf(q, d, i)
    BY FirstThere
  <1> DEFINE e == NextTry(q[i])
             r == [q EXCEPT ![i] = e]
  <1>2. q[i] \in Pending /\ q[i].dest = d
    BY <1>1 DEF FirstOf
  <1>3. e \in Tries /\ e.dest = d
    BY <1>2, Trying
  <1>4. First(q, d) = i
    BY <1>1, FirstChosen
  <1>5. Retried(q, d) = r
    BY <1>4 DEF Retried, First
  <1> HIDE DEF e
  <1>6. \A j \in DOMAIN q : q[j] \in Pending /\ q[j] \in Tries
    BY Trying
  <1>7. r \in Seq(Tries)
    BY <1>3, <1>6
  <1>8. FirstOf(r, d, i)
    BY <1>1, <1>3 DEF FirstOf
  <1>9. \A j \in DOMAIN r : r[j].dest = q[j].dest
    BY <1>2, <1>3
  <1> QED
    BY <1>1, <1>5, <1>6, <1>7, <1>8, <1>9

LEMMA DeletedFacts ==
    ASSUME NEW r \in Seq(Tries), NEW d, NEW i \in DOMAIN r, FirstOf(r, d, i),
           \A j \in DOMAIN r \ {i} : r[j] \in Pending
    PROVE  DeleteFromList(r, d) \in Seq(Pending) /\ DeleteFromList(r, d) = RemoveAt(r, i)
  <1> DEFINE u == RemoveAt(r, i)
  <1>1. DeleteFromList(r, d) = u
    <2>1. First(r, d) = i
      BY FirstChosen
    <2> QED
      BY <2>1 DEF DeleteFromList, First
  <1>2. /\ u \in Seq(Tries) /\ Len(u) = Len(r) - 1
        /\ \A j \in 1..(Len(r) - 1) : u[j] = IF j < i THEN r[j] ELSE r[j + 1]
    BY RemoveAtFacts
  <1> HIDE DEF u
  <1>3. \A j \in 1..Len(u) : u[j] \in Pending
    BY <1>2
  <1>4. u \in Seq(Pending)
    BY <1>2, <1>3
  <1> QED
    BY <1>1, <1>4 DEF u

(* resendRREQ *)
LEMMA ResentKeeps ==
    ASSUME NEW M, NEW C, NEW s \in States, Inv(s, M, C), NEW d \in Dests, s.search[d]["RREQ"] > 0
    PROVE  Kept(s, Resent(s, d), M, C) /\ Along(s, Resent(s, d))
  <1> DEFINE n == s.search[d]["RREQ"] - 1
             q == Retried(s.rreqL, d)
             last == \E j \in DOMAIN q : q[j].dest = d /\ q[j].retries > 2
             u == Resent(s, d)
  <1>1. n \in Nat
    BY CountGet, Sizes DEF TimerKinds
  <1>2. CASE \A j \in DOMAIN s.rreqL : s.rreqL[j].dest # d
    <2>1. u = [s EXCEPT !.search[d]["RREQ"] = n]
      BY <1>2 DEF Resent
    <2> HIDE DEF n, u
    <2>2. /\ u \in States /\ u.rtable = s.rtable /\ u.kroute = s.kroute
          /\ u.duringReboot = s.duringReboot /\ u.repair = s.repair
      BY <1>1, <2>1, CountPut DEF TimerKinds
    <2>3. Kept(s, u, M, C) /\ Along(s, u)
      BY <2>2, SameTable
    <2> QED
      BY <2>3 DEF u
  <1>3. CASE \E j \in DOMAIN s.rreqL : s.rreqL[j].dest = d
    <2>1. s.rreqL \in Seq(Pending)
      BY DEF States
    <2>2. PICK i \in DOMAIN s.rreqL :
             /\ q \in Seq(Tries) /\ DOMAIN q = DOMAIN s.rreqL /\ FirstOf(q, d, i)
             /\ \A j \in DOMAIN q \ {i} : q[j] \in Pending
      BY <1>3, <2>1, RetriedFacts
    <2>3. CASE last
      <3> DEFINE l == DeleteFromList(q, d)
                 a == Answer(s, d)
                 b == [a EXCEPT !.search[d]["RREQ"] = n]
                 c == [b EXCEPT !.rreqL = l]
      <3>1. l \in Seq(Pending)
        BY <2>2, DeletedFacts
      <3>2. u = c
        BY <1>3, <2>3 DEF Resent, Answer, States
      <3>3. /\ a \in States /\ a.rtable = s.rtable /\ a.kroute = s.kroute
            /\ a.duringReboot = s.duringReboot /\ a.repair = s.repair
        BY WaitPut DEF Answer
      <3> HIDE DEF n, u, a, l
      <3>4. /\ b \in States /\ b.rtable = a.rtable /\ b.kroute = a.kroute
            /\ b.duringReboot = a.duringReboot /\ b.repair = a.repair
        BY <1>1, <3>3, CountPut DEF TimerKinds
      <3> HIDE DEF b
      <3>5. /\ c \in States /\ c.rtable = b.rtable /\ c.kroute = b.kroute
            /\ c.duringReboot = b.duringReboot /\ c.repair = b.repair
        BY <3>1, <3>4, ListPut
      <3> HIDE DEF c
      <3>6. Kept(s, u, M, C) /\ Along(s, u)
        BY <3>2, <3>3, <3>4, <3>5, SameTable
      <3> QED
        BY <3>6 DEF u
    <2>4. CASE ~last
      <3>1. u = [s EXCEPT !.rreqL = q]
        BY <1>3, <2>4 DEF Resent
      <3>2. q[i] \in Pending
        <4>1. q[i] \in Tries /\ ~(q[i].retries > 2)
          BY <2>2, <2>4 DEF FirstOf
        <4> QED
          BY <4>1, Trying
      <3> HIDE DEF q, u, last
      <3>3. q \in Seq(Pending)
        BY <2>2, <3>2
      <3>4. /\ u \in States /\ u.rtable = s.rtable /\ u.kroute = s.kroute
            /\ u.duringReboot = s.duringReboot /\ u.repair = s.repair
        BY <3>1, <3>3, ListPut
      <3>5. Kept(s, u, M, C) /\ Along(s, u)
        BY <3>4, SameTable
      <3> QED
        BY <3>5 DEF u
    <2> QED
      BY <2>3, <2>4
  <1> QED
    BY <1>2, <1>3

(* LR_handler *)
LEMMA GivenUpKeeps ==
    ASSUME NEW M, NEW C, NEW s \in States, Inv(s, M, C), NEW d \in Dests, s.search[d]["LR"] > 0
    PROVE  LET u == GivenUp(s, d) IN
           /\ Kept(s, u, M, C) /\ u.search[d]["LR"] < s.search[d]["LR"]
           /\ \A x \in Dests \ {d} : u.rtable[x] = s.rtable[x]
  <1> DEFINE e == s.rtable[d]
             f == IF e.flags = "NONE" THEN e ELSE [Invalid(e) EXCEPT !.last = e.hops]
             n == s.search[d]["LR"] - 1
             R == s.repair \ {d}
             a == [s EXCEPT !.waiting[d] = "no"]
             b == [a EXCEPT !.repair = R]
             c == [b EXCEPT !.search[d]["LR"] = n]
             g == [c EXCEPT !.rtable[d] = f]
  <1>1. e \in Entry /\ Sane(e, d)
    BY DEF States, Inv, Typed
  <1>2. f \in Entry /\ f.flags \in {"NONE", "INVALID"} /\ Sane(f, d)
    BY <1>1, Sizes DEF Entry, Flags, Invalid, Sane, NoRoute
  <1>3. n \in Nat /\ n < s.search[d]["LR"] /\ R \in SUBSET Dests
    BY CountGet, Sizes DEF TimerKinds, States
  <1>4. GivenUp(s, d) = g
    BY DEF GivenUp, OffRepairList, Answer
  <1> HIDE DEF e, f, n, R
  <1>5. /\ a \in States /\ a.rtable = s.rtable /\ a.kroute = s.kroute
        /\ a.search = s.search /\ a.duringReboot = s.duringReboot
    BY WaitPut
  <1> HIDE DEF a
  <1>6. /\ b \in States /\ b.rtable = a.rtable /\ b.kroute = a.kroute /\ b.repair = R
        /\ b.search = a.search /\ b.duringReboot = a.duringReboot
    BY <1>3, <1>5, RepairPut
  <1> HIDE DEF b
  <1>7. /\ c \in States /\ c.rtable = b.rtable /\ c.kroute = b.kroute /\ c.repair = b.repair
        /\ c.search[d]["LR"] = n /\ c.duringReboot = b.duringReboot
    BY <1>3, <1>6, CountPut DEF TimerKinds
  <1> HIDE DEF c
  <1>8. /\ g \in States /\ g.rtable[d] = f /\ \A x \in Dests \ {d} : g.rtable[x] = s.rtable[x]
        /\ g.kroute = c.kroute /\ g.repair = c.repair
        /\ g.search[d]["LR"] = n /\ g.duringReboot = c.duringReboot
    BY <1>2, <1>5, <1>6, <1>7, EntryPut
  <1> HIDE DEF g
  <1>9. Inv(g, M, C)
    <2>1. Typed(g)
      BY <1>2, <1>8 DEF Inv, Typed
    <2>2. Repaired(g, C)
      BY <1>2, <1>5, <1>6, <1>7, <1>8 DEF Inv, Repaired, R
    <2>3. Followed(g, M)
      BY <1>2, <1>5, <1>6, <1>7, <1>8 DEF Inv, Followed
    <2> QED
      BY <2>1, <2>2, <2>3 DEF Inv
  <1>10. Kept(s, g, M, C)
    BY <1>2, <1>8, <1>9 DEF Kept, Alike
  <1> QED
    BY <1>3, <1>4, <1>8, <1>10

(* neighbor_timeout_handler *)
LEMMA BrokenEntries ==
    ASSUME NEW e \in Entry, NEW d \in Dests, Sane(e, d)
    PROVE  /\ e.flags # "NONE" => /\ Broken(e) \in Entry /\ Broken(e).flags = "BROKEN"
                                  /\ Sane(Broken(e), d)
           /\ BrokenNeighbor(e) \in Entry /\ BrokenNeighbor(e).flags \in {"NONE", "BROKEN"}
           /\ Sane(BrokenNeighbor(e), d)
  <1>1. Next1(e.seq) \in Seqs
    BY Sizes DEF Next1, Seqs, Entry
  <1>2. ASSUME e.flags # "NONE"
        PROVE  /\ Broken(e) \in Entry /\ Broken(e).flags = "BROKEN"
               /\ Sane(Broken(e), d)
    <2>1. Broken(e) \in Entry /\ Broken(e).flags = "BROKEN" /\ Broken(e).next = e.next
      BY <1>1 DEF Entry, Broken, Flags
    <2> QED
      BY <1>2, <2>1 DEF Sane, NoRoute
  <1>3. CASE e.flags = "NONE"
    BY <1>3 DEF BrokenNeighbor
  <1>4. CASE e.flags # "NONE" /\ e.hops = Infinity
    <2> DEFINE f == [e EXCEPT !.flags = "BROKEN", !.live = TRUE, !.hops = e.last]
    <2>1. BrokenNeighbor(e) = f
      BY <1>4 DEF BrokenNeighbor
    <2>2. f \in Entry /\ f.flags = "BROKEN" /\ f.next = e.next
      BY DEF Entry, Flags
    <2> HIDE DEF f
    <2>3. Sane(f, d)
      BY <1>4, <2>2 DEF Sane, NoRoute
    <2> QED
      BY <1>2, <1>4, <2>1, <2>2, <2>3
  <1>5. CASE e.flags # "NONE" /\ e.hops # Infinity
    <2>1. BrokenNeighbor(e) = Broken(e)
      BY <1>5 DEF BrokenNeighbor
    <2> QED
      BY <1>2, <1>5, <2>1
  <1> QED
    BY <1>3, <1>4, <1>5

LEMMA TimedOutKeeps ==
    ASSUME NEW M, NEW C, NEW s \in States, Inv(s, M, C), NEW p \in Dests, NEW read \in Dests \cup {NoNode},
           s.rtable[p].flags = "NONE" \/ read = p
    PROVE  LET u == TimedOut(s, p, read) IN
           u \in States /\ Inv(u, M, C) /\ Quieter(s, u) /\ Along(s, u)
  <1> DEFINE behind == {d \in Dests \ {p} : s.rtable[d].flags = "ACTIVE"
                                            /\ s.rtable[d].next = read}
             r == [d \in Dests |-> IF d = p THEN BrokenNeighbor(s.rtable[d])
                                   ELSE IF d \in behind THEN Broken(s.rtable[d])
                                   ELSE s.rtable[d]]
             R == s.repair \cup {p} \cup behind
             W == s.watch \ {p}
             u == TimedOut(s, p, read)
  <1>1. ASSUME NEW d \in Dests
        PROVE  /\ r[d] \in Entry /\ Sane(r[d], d)
               /\ r[d].flags = "ACTIVE" => d # p /\ d \notin behind /\ r[d] = s.rtable[d]
               /\ r[d].flags = "BROKEN" => d \in R \cup C
    <2>1. s.rtable[d] \in Entry /\ Sane(s.rtable[d], d)
      BY DEF States, Inv, Typed
    <2>2. CASE d = p
      BY <2>1, <2>2, BrokenEntries
    <2>3. CASE d \in behind
      BY <2>1, <2>3, BrokenEntries
    <2>4. CASE d # p /\ d \notin behind
      BY <2>1, <2>4 DEF Inv, Repaired
    <2> QED
      BY <2>2, <2>3, <2>4
  <1>2. u = [s EXCEPT !.watch = W, !.repair = R, !.rtable = r]
    BY DEF TimedOut, RepairList
  <1>3. r \in [Dests -> Entry] /\ R \in SUBSET Dests /\ W \in SUBSET Dests
    BY <1>1 DEF States
  <1>4. \A p0, d \in Dests : Leads(s, p0, d) /\ r[p0].flags # "ACTIVE" => r[d].flags # "ACTIVE"
    <2> SUFFICES ASSUME NEW p0 \in Dests, NEW d \in Dests, Leads(s, p0, d),
                        r[p0].flags # "ACTIVE", r[d].flags = "ACTIVE"
                 PROVE  FALSE
      OBVIOUS
    <2>1. s.rtable[p0].next = p0
      BY DEF Leads, Inv, Typed, Sane
    <2>2. d # p /\ d \notin behind
      BY <1>1
    <2>3. p0 # read
      BY <2>2 DEF Leads
    <2>4. p0 # p
      BY <2>3 DEF Leads
    <2>5. p0 \notin behind
      BY <2>1, <2>3
    <2> QED
      BY <2>4, <2>5 DEF Leads
  <1> HIDE DEF r, R, W, u, behind
  <1>5. /\ u \in States /\ u.rtable = r /\ u.repair = R /\ u.kroute = s.kroute
        /\ u.duringReboot = s.duringReboot
    BY <1>2, <1>3 DEF States
  <1>6. Inv(u, M, C)
    <2>1. Typed(u)
      BY <1>1, <1>5 DEF Typed
    <2>2. Repaired(u, C)
      BY <1>1, <1>5 DEF Repaired
    <2>3. Followed(u, M)
      BY <1>1, <1>5 DEF Inv, Followed
    <2> QED
      BY <2>1, <2>2, <2>3 DEF Inv
  <1>7. Quieter(s, u)
    BY <1>1, <1>5 DEF Quieter, Alike
  <1>8. Along(s, u)
    BY <1>4, <1>5 DEF Along
  <1> QED
    BY <1>5, <1>6, <1>7, <1>8 DEF u

(* refreshEntries: an entry.                                               *)
ExpiredEntry(f) ==
    [Invalid(f) EXCEPT !.last = IF f.flags = "ACTIVE" THEN f.hops ELSE @,
                       !.seq = IF f.flags = "ACTIVE" THEN Next1(@) ELSE @]

LEMMA ExpiredFacts ==
    ASSUME NEW e \in Entry, NEW d \in Dests, Sane(e, d), e.flags # "NONE"
    PROVE  LET f == ExpiredEntry(e) IN
           f \in Entry /\ f.flags = "INVALID" /\ Sane(f, d)
  <1> DEFINE f == ExpiredEntry(e)
  <1>1. Next1(e.seq) \in Seqs
    BY Sizes DEF Next1, Seqs, Entry
  <1>2. f \in Entry /\ f.flags = "INVALID" /\ f.next = e.next
    <2> DEFINE g == Invalid(e)
               l == IF e.flags = "ACTIVE" THEN e.hops ELSE e.last
               q == IF e.flags = "ACTIVE" THEN Next1(e.seq) ELSE e.seq
    <2>1. g \in Entry /\ g.flags = "INVALID" /\ g.next = e.next /\ g.last = e.last /\ g.seq = e.seq
      BY Sizes DEF Invalid, Entry, Flags
    <2>2. l \in Hops /\ q \in Seqs
      BY <1>1 DEF Entry
    <2>3. f = [g EXCEPT !.last = l, !.seq = q]
      BY <2>1 DEF ExpiredEntry
    <2> HIDE DEF g, l, q, f
    <2> QED
      BY <2>1, <2>2, <2>3 DEF Entry
  <1> QED
    BY <1>2 DEF Sane, NoRoute

LEMMA RefreshEntryKeeps ==
    ASSUME NEW M, NEW C, NEW s \in States, Inv(s, M, C), NEW d \in Dests, NEW busy \in SUBSET Dests
    PROVE  Kept(s, RefreshEntry(s, d, busy), M, C) /\ Along(s, RefreshEntry(s, d, busy))
  <1> DEFINE e == s.rtable[d]
             behind(f) == e.hops = 1 /\ f.next = d /\ f.flags # "NONE" /\ f.hops # Infinity
             r == [f \in Dests |-> IF f = d \/ behind(s.rtable[f]) THEN ExpiredEntry(s.rtable[f])
                                   ELSE s.rtable[f]]
             u == RefreshEntry(s, d, busy)
  <1>1. \A x \in Dests : s.rtable[x] \in Entry /\ Sane(s.rtable[x], x)
    BY DEF States, Inv, Typed
  <1>2. CASE u = s
    BY <1>2, SameTable
  <1>3. CASE e.flags # "NONE" /\ e.hops = Infinity /\ u = [s EXCEPT !.rtable[d] = NoRoute]
    <2>1. e.flags # "ACTIVE"
      BY <1>1, <1>3, Sizes DEF Sane
    <2>2. NoRoute \in Entry /\ NoRoute.flags = "NONE" /\ Sane(NoRoute, d)
      BY Sizes DEF NoRoute, Entry, Sane, Flags
    <2>3. /\ u \in States /\ Inv(u, M, C) /\ u.rtable[d] = NoRoute
          /\ \A x \in Dests \ {d} : u.rtable[x] = s.rtable[x]
      BY <1>3, <2>2, QuietEntry
    <2> HIDE DEF u
    <2>4. Kept(s, u, M, C)
      BY <2>2, <2>3 DEF Kept, Alike
    <2>5. Along(s, u)
      BY <2>1, <2>2, <2>3 DEF Along, Leads
    <2> QED
      BY <2>4, <2>5 DEF u
  <1>4. CASE e.flags # "NONE" /\ e.hops # Infinity /\ u = [s EXCEPT !.rtable = r]
    <2>1. ASSUME NEW x \in Dests
          PROVE  /\ r[x] \in Entry /\ Sane(r[x], x)
                 /\ r[x].flags \in {"ACTIVE", "BROKEN"} => r[x] = s.rtable[x]
                 /\ x = d \/ behind(s.rtable[x]) => r[x].flags = "INVALID"
                 /\ ~(x = d \/ behind(s.rtable[x])) => r[x] = s.rtable[x]
      <3>1. CASE x = d \/ behind(s.rtable[x])
        <4>1. r[x] = ExpiredEntry(s.rtable[x]) /\ s.rtable[x].flags # "NONE"
          BY <1>4, <3>1
        <4> HIDE DEF r
        <4> QED
          BY <1>1, <3>1, <4>1, ExpiredFacts
      <3>2. CASE ~(x = d \/ behind(s.rtable[x]))
        <4>1. r[x] = s.rtable[x]
          BY <3>2
        <4> HIDE DEF r
        <4> QED
          BY <1>1, <3>2, <4>1
      <3> QED
        BY <3>1, <3>2
    <2>2. r \in [Dests -> Entry]
      BY <2>1
    <2> HIDE DEF r
    <2>3. /\ u \in States /\ u.rtable = r /\ u.repair = s.repair /\ u.kroute = s.kroute
          /\ u.duringReboot = s.duringReboot
      BY <1>4, <2>2, TablePut
    <2> HIDE DEF u
    <2>4. Inv(u, M, C)
      <3>1. Typed(u)
        BY <2>1, <2>3 DEF Typed
      <3>2. Repaired(u, C)
        BY <2>1, <2>3 DEF Inv, Repaired
      <3>3. Followed(u, M)
        BY <2>1, <2>3 DEF Inv, Followed
      <3> QED
        BY <3>1, <3>2, <3>3 DEF Inv
    <2>5. Kept(s, u, M, C)
      BY <2>1, <2>3, <2>4 DEF Kept, Alike
    <2>6. Along(s, u)
      <3> SUFFICES ASSUME NEW p \in Dests, NEW x \in Dests, Leads(s, p, x),
                          r[p].flags # "ACTIVE", r[x].flags = "ACTIVE"
                   PROVE  FALSE
        BY <2>3 DEF Along
      <3>1. s.rtable[p].next = p /\ s.rtable[x].hops # Infinity
        BY <1>1, Sizes DEF Leads, Sane
      <3>2. p = d \/ behind(s.rtable[p])
        BY <2>1 DEF Leads
      <3>3. p = d
        BY <3>1, <3>2
      <3>4. behind(s.rtable[x])
        BY <3>1, <3>3 DEF Leads
      <3> QED
        BY <2>1, <3>4
    <2> QED
      BY <2>5, <2>6 DEF u
  <1>5. CASE u = [s EXCEPT !.down = "refresh"]
    <2>1. /\ u \in States /\ u.rtable = s.rtable /\ u.repair = s.repair /\ u.kroute = s.kroute
          /\ u.duringReboot = s.duringReboot
      <3> HIDE DEF u
      <3> QED
        BY <1>5 DEF States
    <2> HIDE DEF u
    <2>2. Kept(s, u, M, C) /\ Along(s, u)
      BY <2>1, SameTable
    <2> QED
      BY <2>2 DEF u
  <1>6. CASE /\ e.flags # "NONE" /\ s.rtable[e.next].flags # "NONE"
             /\ u = [s EXCEPT !.rtable[d].live = TRUE, !.rtable[e.next].live = TRUE]
    <2> DEFINE f == [e EXCEPT !.live = TRUE]
               a == [s EXCEPT !.rtable[d] = f]
               g == [a.rtable[e.next] EXCEPT !.live = TRUE]
               b == [a EXCEPT !.rtable[e.next] = g]
    <2>1. e.next \in Dests
      BY <1>1, <1>6 DEF Sane
    <2>2. u = b
      BY <1>6, <2>1 DEF States
    <2>3. ASSUME NEW x \in Entry, NEW y \in Dests, Sane(x, y), x.flags # "NONE"
          PROVE  LET z == [x EXCEPT !.live = TRUE] IN
                 z \in Entry /\ Alike(x, z) /\ Sane(z, y)
      BY <2>3 DEF Entry, Alike, Sane, NoRoute
    <2>4. f \in Entry /\ Alike(e, f) /\ Sane(f, d)
      BY <1>1, <1>6, <2>3
    <2> HIDE DEF f
    <2>5. Kept(s, a, M, C) /\ Along(s, a) /\ a.rtable[d] = f
          /\ \A x \in Dests \ {d} : a.rtable[x] = s.rtable[x]
      BY <2>4, LikeEntry
    <2> HIDE DEF a
    <2>6. a \in States /\ Inv(a, M, C) /\ a.rtable[e.next] \in Entry /\ Sane(a.rtable[e.next], e.next)
      BY <2>1, <2>5 DEF Kept, States, Inv, Typed
    <2>7. a.rtable[e.next].flags # "NONE"
      BY <1>6, <2>1, <2>4, <2>5 DEF Alike
    <2>8. g \in Entry /\ Alike(a.rtable[e.next], g) /\ Sane(g, e.next)
      BY <2>1, <2>3, <2>6, <2>7
    <2> HIDE DEF g
    <2>9. Kept(a, b, M, C) /\ Along(a, b)
      BY <2>1, <2>6, <2>8, LikeEntry
    <2> HIDE DEF b, u
    <2>10. Kept(s, u, M, C) /\ Along(s, u)
      BY <2>2, <2>5, <2>9, KeptTwice
    <2> QED
      BY <2>10 DEF u
  <1> QED
    BY <1>2, <1>3, <1>4, <1>5, <1>6 DEF RefreshEntry, ExpiredEntry

(* The recursive function has the values it is defined by.                 *)
LEMMA RoundsDefined ==
    ASSUME NEW s, NEW busy
    PROVE  Rounds(s, busy) =
             [i \in 0..Len(Order) |-> IF i = 0 THEN s
                                      ELSE RefreshEntry(Rounds(s, busy)[i - 1], Order[i], busy)]
  <1> DEFINE n == Len(Order)
             upto(m, g) == g = [i \in 0..m |-> IF i = 0 THEN s
                                               ELSE RefreshEntry(g[i - 1], Order[i], busy)]
             S == {m \in 0..n : \E g : upto(m, g)}
  <1>1. n \in Nat
    BY Sizes
  <1>2. 0 \in S
    <2> DEFINE g == [i \in 0..0 |-> s]
    <2>1. upto(0, g)
      OBVIOUS
    <2> HIDE DEF g, upto
    <2> QED
      BY <1>1, <2>1
  <1>3. \A m \in 1..n : m - 1 \in S => m \in S
    <2> SUFFICES ASSUME NEW m \in 1..n, \E g : upto(m - 1, g)
                 PROVE  \E g : upto(m, g)
      <3> HIDE DEF upto
      <3> QED
        BY <1>1
    <2>1. PICK h : upto(m - 1, h)
      OBVIOUS
    <2> DEFINE g == [i \in 0..m |-> IF i = m THEN RefreshEntry(h[m - 1], Order[m], busy) ELSE h[i]]
    <2>2. \A i \in 0..m : g[i] = IF i = 0 THEN s ELSE RefreshEntry(g[i - 1], Order[i], busy)
      <3> TAKE i \in 0..m
      <3>1. CASE i = m
        <4>1. g[i - 1] = h[i - 1]
          BY <1>1, <3>1
        <4> QED
          BY <1>1, <3>1, <4>1
      <3>2. CASE i # m
        <4>1. i \in 0..m - 1
          BY <1>1, <3>2
        <4>2. h[i] = IF i = 0 THEN s ELSE RefreshEntry(h[i - 1], Order[i], busy)
          BY <2>1, <4>1
        <4>3. i # 0 => g[i - 1] = h[i - 1]
          BY <1>1, <3>2
        <4> QED
          BY <3>2, <4>2, <4>3
      <3> QED
        BY <3>1, <3>2
    <2>3. g = [i \in 0..m |-> g[i]]
      OBVIOUS
    <2> HIDE DEF g
    <2>4. upto(m, g)
      BY <2>2, <2>3
    <2> HIDE DEF upto
    <2> QED
      BY <2>4
  <1>4. n \in S
    <2> HIDE DEF S, n
    <2> QED
      BY <1>1, <1>2, <1>3, Upward
  <1> QED
    BY <1>4 DEF Rounds

LEMMA RefreshedKeeps ==
    ASSUME NEW M, NEW C, NEW s \in States, Inv(s, M, C), NEW busy \in SUBSET Dests
    PROVE  Kept(s, Refreshed(s, busy), M, C) /\ Along(s, Refreshed(s, busy))
  <1> DEFINE R == Rounds(s, busy)
             n == Len(Order)
             S == {i \in 0..n : Kept(s, R[i], M, C) /\ Along(s, R[i])}
  <1>1. n \in Nat
    BY Sizes
  <1>2. R[0] = s /\ \A i \in 1..n : R[i] = RefreshEntry(R[i - 1], Order[i], busy)
    <2> DEFINE r(i) == IF i = 0 THEN s ELSE RefreshEntry(R[i - 1], Order[i], busy)
    <2>1. R = [i \in 0..n |-> r(i)]
      BY RoundsDefined
    <2> HIDE DEF R, r
    <2>2. R[0] = r(0) /\ \A i \in 1..n : R[i] = r(i)
      BY <1>1, <2>1
    <2> QED
      BY <1>1, <2>2 DEF r
  <1> HIDE DEF R
  <1>3. 0 \in S
    BY <1>1, <1>2, SameTable
  <1>4. \A i \in 1..n : i - 1 \in S => i \in S
    <2> SUFFICES ASSUME NEW i \in 1..n, i - 1 \in S
                 PROVE  Kept(s, R[i], M, C) /\ Along(s, R[i])
      <3>1. \A i \in 1..n : i \in 0..n
        BY <1>1
      <3> QED
        BY <3>1
    <2> DEFINE t == R[i - 1]
               d == Order[i]
    <2>0. Kept(s, t, M, C) /\ Along(s, t)
      OBVIOUS
    <2>1. t \in States /\ Inv(t, M, C) /\ d \in Dests /\ R[i] = RefreshEntry(t, d, busy)
      BY <1>1, <1>2, <2>0, Sizes DEF Kept
    <2> HIDE DEF t, d
    <2>2. Kept(t, R[i], M, C) /\ Along(t, R[i])
      BY <2>1, RefreshEntryKeeps
    <2> QED
      BY <2>0, <2>2, KeptTwice
  <1>5. n \in S
    <2> HIDE DEF S, n
    <2> QED
      BY <1>1, <1>3, <1>4, Upward
  <1> QED
    BY <1>5 DEF Refreshed, R

(* rebootHandler *)
LEMMA RebootedKeeps ==
    ASSUME NEW M, NEW C, NEW s \in States, Inv(s, M, C)
    PROVE  LET u == [AddAllValidRoutes(s) EXCEPT !.duringReboot = FALSE] IN
           Kept(s, u, M, C) /\ Along(s, u)
  <1> DEFINE k == [d \in Dests |-> IF s.rtable[d].flags = "ACTIVE" THEN s.rtable[d].next
                                   ELSE s.kroute[d]]
             u == [AddAllValidRoutes(s) EXCEPT !.duringReboot = FALSE]
  <1>1. ASSUME NEW d \in Dests
        PROVE  /\ k[d] \in Dests \cup {NoNode}
               /\ s.rtable[d].flags = "ACTIVE" => k[d] = s.rtable[d].next /\ k[d] # NoNode
    <2>1. Sane(s.rtable[d], d)
      BY DEF Inv, Typed
    <2> QED
      BY <2>1, Sizes DEF Sane, States
  <1>2. u = [s EXCEPT !.kroute = k, !.duringReboot = FALSE]
    BY DEF AddAllValidRoutes, States
  <1>3. k \in [Dests -> Dests \cup {NoNode}]
    BY <1>1
  <1> HIDE DEF k, u
  <1>4. /\ u \in States /\ u.rtable = s.rtable /\ u.kroute = k /\ u.repair = s.repair
    BY <1>2, <1>3 DEF States
  <1>5. Inv(u, M, C)
    BY <1>1, <1>4 DEF Inv, Typed, Repaired, Followed
  <1>6. Kept(s, u, M, C) /\ Along(s, u)
    BY <1>4, <1>5 DEF Kept, Along, Leads, Alike
  <1> QED
    BY <1>6 DEF u

(* A lifetime ends.                                                        *)
LEMMA ExpiredKeeps ==
    ASSUME NEW M, NEW C, NEW s \in States, Inv(s, M, C), NEW d \in Dests, s.rtable[d].live
    PROVE  Kept(s, Expired(s, d), M, C) /\ Along(s, Expired(s, d))
  <1> DEFINE e == s.rtable[d]
             f == [e EXCEPT !.live = FALSE]
             u == [s EXCEPT !.rtable[d] = f]
  <1>1. e \in Entry /\ Sane(e, d) /\ e.flags # "NONE"
    BY DEF States, Inv, Typed, Sane, NoRoute
  <1>2. f \in Entry /\ Alike(e, f) /\ Sane(f, d)
    BY <1>1 DEF Entry, Alike, Sane, NoRoute
  <1>3. Expired(s, d) = u
    BY DEF Expired
  <1> HIDE DEF f
  <1>4. Kept(s, u, M, C) /\ Along(s, u)
    BY <1>2, LikeEntry
  <1> QED
    BY <1>3, <1>4

-----------------------------------------------------------------------------
Entries(q, d) == {j \in DOMAIN q : q[j].dest = d}

(* The two properties, of a state.                                         *)
Backed(s) == \A d \in Dests : s.search[d]["RREQ"] <= Cardinality(Entries(s.rreqL, d))

Owed(s) ==
    \A d \in Dests : s.waiting[d] = "search" => s.search[d]["RREQ"] + s.search[d]["LR"] > 0

(* Searches may have ended, those whose requests have been answered.       *)
Served(s, t) ==
    /\ t.rreqL = s.rreqL
    /\ \A x \in Dests :
          /\ t.search[x]["RREQ"] <= s.search[x]["RREQ"]
          /\ t.waiting[x] = "search" => s.waiting[x] = "search" /\ t.search[x] = s.search[x]

LEMMA UntouchedServed ==
    ASSUME NEW s \in States, NEW t, Untouched(s, t)
    PROVE  Served(s, t)
  <1>1. \A x \in Dests : s.search[x]["RREQ"] \in Nat
    BY CountGet DEF TimerKinds
  <1> QED
    BY <1>1, Sizes DEF Untouched, Served

LEMMA ServedTwice ==
    ASSUME NEW s \in States, NEW t \in States, NEW u \in States, Served(s, t), Served(t, u)
    PROVE  Served(s, u)
  <1>1. \A x \in Dests : /\ s.search[x]["RREQ"] \in Nat /\ t.search[x]["RREQ"] \in Nat
                         /\ u.search[x]["RREQ"] \in Nat
    BY CountGet, Sizes DEF TimerKinds
  <1> QED
    BY <1>1 DEF Served

LEMMA EntriesFinite ==
    ASSUME NEW S, NEW q \in Seq(S), NEW d
    PROVE  IsFiniteSet(Entries(q, d)) /\ Cardinality(Entries(q, d)) \in Nat
  <1>1. IsFiniteSet(1..Len(q)) /\ Entries(q, d) \in SUBSET (1..Len(q))
    BY FS_Interval DEF Entries
  <1> QED
    BY <1>1, FS_Subset, FS_CardinalityType

LEMMA ServedSafe ==
    ASSUME NEW s \in States, NEW t \in States, Backed(s), Owed(s), Served(s, t)
    PROVE  Backed(t) /\ Owed(t)
  <1>1. ASSUME NEW x \in Dests
        PROVE  /\ s.search[x]["RREQ"] \in Nat /\ t.search[x]["RREQ"] \in Nat
               /\ Cardinality(Entries(s.rreqL, x)) \in Nat
    <2>1. s.rreqL \in Seq(Pending)
      BY DEF States
    <2> QED
      BY <2>1, CountGet, Sizes, EntriesFinite DEF TimerKinds
  <1>2. Backed(t)
    BY <1>1 DEF Backed, Served
  <1>3. Owed(t)
    BY DEF Owed, Served
  <1> QED
    BY <1>2, <1>3

(* The answer to the LA, and the end of a timer.                           *)
LEMMA AnswerServed ==
    ASSUME NEW s \in States, NEW d \in Dests
    PROVE  Served(s, Answer(s, d))
  <1> DEFINE a == Answer(s, d)
  <1>1. /\ a.search = s.search /\ a.rreqL = s.rreqL
        /\ a.waiting = [s.waiting EXCEPT ![d] = "no"]
    BY DEF Answer, States
  <1>2. \A x \in Dests : a.waiting[x] = IF x = d THEN "no" ELSE s.waiting[x]
    BY <1>1 DEF States
  <1>3. \A x \in Dests : s.search[x]["RREQ"] \in Nat
    BY CountGet DEF TimerKinds
  <1> HIDE DEF a
  <1>4. Served(s, a)
    BY <1>1, <1>2, <1>3 DEF Served
  <1> QED
    BY <1>4 DEF a

LEMMA EndTimerServed ==
    ASSUME NEW s \in States, NEW d \in Dests, NEW k \in TimerKinds, s.search[d][k] > 0
    PROVE  LET t == EndTimer(Answer(s, d), d, k) IN
           /\ t \in States /\ Served(s, t) /\ t.rtable = s.rtable /\ t.kroute = s.kroute
           /\ t.repair = s.repair /\ t.duringReboot = s.duringReboot /\ t.down = s.down
  <1> DEFINE a == Answer(s, d)
             n == s.search[d][k] - 1
             t == [a EXCEPT !.search[d][k] = n]
  <1>1. /\ a \in States /\ a.search = s.search /\ a.rreqL = s.rreqL
        /\ a.waiting = [s.waiting EXCEPT ![d] = "no"]
        /\ a.rtable = s.rtable /\ a.kroute = s.kroute /\ a.repair = s.repair
        /\ a.duringReboot = s.duringReboot /\ a.down = s.down
    BY WaitPut DEF Answer, States
  <1>2. EndTimer(a, d, k) = t
    BY <1>1 DEF EndTimer
  <1>3. n \in Nat /\ n < s.search[d][k]
    BY CountGet
  <1> HIDE DEF a, n
  <1>4. /\ t \in States /\ t.rtable = a.rtable /\ t.kroute = a.kroute /\ t.repair = a.repair
        /\ t.duringReboot = a.duringReboot /\ t.down = a.down /\ t.waiting = a.waiting
        /\ t.rreqL = a.rreqL
    BY <1>1, <1>3, CountPut
  <1>5. t.search = [s.search EXCEPT ![d] = [s.search[d] EXCEPT ![k] = n]]
    BY <1>1 DEF States
  <1> HIDE DEF t
  <1>6. ASSUME NEW x \in Dests
        PROVE  /\ x # d => t.search[x] = s.search[x] /\ t.waiting[x] = s.waiting[x]
               /\ t.waiting[d] = "no" /\ s.search[x]["RREQ"] \in Nat
               /\ t.search[x]["RREQ"] <= s.search[x]["RREQ"]
    <2>1. s.search[x] \in Counts /\ s.search[d] \in Counts /\ s.search[x]["RREQ"] \in Nat
      BY CountGet DEF States, TimerKinds
    <2>2. x # d => t.search[x] = s.search[x] /\ t.waiting[x] = s.waiting[x]
      BY <1>1, <1>4, <1>5 DEF States
    <2>3. t.waiting[d] = "no" /\ t.search[d] = [s.search[d] EXCEPT ![k] = n]
      BY <1>1, <1>4, <1>5 DEF States
    <2>4. t.search[d]["RREQ"] <= s.search[d]["RREQ"]
      BY <1>3, <2>1, <2>3, CountGet DEF Counts, TimerKinds
    <2>5. x # d => t.search[x]["RREQ"] <= s.search[x]["RREQ"]
      BY <2>1, <2>2
    <2> QED
      BY <2>1, <2>2, <2>3, <2>4, <2>5
  <1>7. Served(s, t)
    BY <1>1, <1>4, <1>6 DEF Served
  <1> QED
    BY <1>1, <1>2, <1>4, <1>7 DEF a

-----------------------------------------------------------------------------
(* Timers that are no matter of the searches.                              *)
LEMMA RefreshedUntouched ==
    ASSUME NEW M, NEW C, NEW s \in States, Inv(s, M, C), NEW busy \in SUBSET Dests
    PROVE  Untouched(s, Refreshed(s, busy))
  <1> DEFINE R == Rounds(s, busy)
             n == Len(Order)
             S == {i \in 0..n : R[i] \in States /\ Inv(R[i], M, C) /\ Untouched(s, R[i])}
  <1>1. n \in Nat
    BY Sizes
  <1>2. R[0] = s /\ \A i \in 1..n : R[i] = RefreshEntry(R[i - 1], Order[i], busy)
    <2> DEFINE r(i) == IF i = 0 THEN s ELSE RefreshEntry(R[i - 1], Order[i], busy)
    <2>1. R = [i \in 0..n |-> r(i)]
      BY RoundsDefined
    <2> HIDE DEF R, r
    <2>2. R[0] = r(0) /\ \A i \in 1..n : R[i] = r(i)
      BY <1>1, <2>1
    <2> QED
      BY <1>1, <2>2 DEF r
  <1> HIDE DEF R
  <1>3. 0 \in S
    BY <1>1, <1>2 DEF Untouched
  <1>4. \A i \in 1..n : i - 1 \in S => i \in S
    <2> SUFFICES ASSUME NEW i \in 1..n, i - 1 \in S
                 PROVE  R[i] \in States /\ Inv(R[i], M, C) /\ Untouched(s, R[i])
      <3>1. \A i \in 1..n : i \in 0..n
        BY <1>1
      <3> QED
        BY <3>1
    <2> DEFINE t == R[i - 1]
               d == Order[i]
    <2>0. t \in States /\ Inv(t, M, C) /\ Untouched(s, t)
      OBVIOUS
    <2>1. d \in Dests /\ R[i] = RefreshEntry(t, d, busy)
      BY <1>1, <1>2, Sizes
    <2> HIDE DEF t, d
    <2>2. R[i] \in States /\ Inv(R[i], M, C)
      BY <2>0, <2>1, RefreshEntryKeeps DEF Kept
    <2>3. Untouched(t, RefreshEntry(t, d, busy))
      BY <2>0 DEF RefreshEntry, Untouched, States
    <2> QED
      BY <2>0, <2>1, <2>2, <2>3 DEF Untouched
  <1>5. n \in S
    <2> HIDE DEF S, n
    <2> QED
      BY <1>1, <1>3, <1>4, Upward
  <1> QED
    BY <1>5 DEF Refreshed, R

LEMMA OthersUntouched ==
    ASSUME NEW s \in States, NEW d \in Dests, NEW read
    PROVE  /\ Untouched(s, [AddAllValidRoutes(s) EXCEPT !.duringReboot = FALSE])
           /\ Untouched(s, TimedOut(s, d, read))
           /\ Untouched(s, Expired(s, d))
  <1>1. Untouched(s, [AddAllValidRoutes(s) EXCEPT !.duringReboot = FALSE])
    BY DEF AddAllValidRoutes, Untouched, States
  <1>2. Untouched(s, TimedOut(s, d, read))
    BY DEF TimedOut, Untouched, States
  <1>3. Untouched(s, Expired(s, d))
    BY DEF Expired, Untouched, States
  <1> QED
    BY <1>1, <1>2, <1>3

-----------------------------------------------------------------------------
(* The pending RREQs of a destination.                                     *)

(* One more.                                                               *)
LEMMA AppendEntries ==
    ASSUME NEW S, NEW q \in Seq(S), NEW e \in S, NEW x
    PROVE  Cardinality(Entries(Append(q, e), x))
             = Cardinality(Entries(q, x)) + (IF e.dest = x THEN 1 ELSE 0)
  <1> DEFINE r == Append(q, e)
             n == Len(q) + 1
  <1>1. /\ Len(q) \in Nat /\ DOMAIN q = 1..Len(q) /\ DOMAIN r = 1..n
        /\ r[n] = e /\ \A j \in 1..Len(q) : r[j] = q[j]
    BY AppendProperties
  <1> HIDE DEF r
  <1>2. Entries(r, x) = IF e.dest = x THEN Entries(q, x) \cup {n} ELSE Entries(q, x)
    BY <1>1 DEF Entries
  <1>3. n \notin Entries(q, x)
    BY <1>1 DEF Entries
  <1> HIDE DEF n
  <1>4. IsFiniteSet(Entries(q, x)) /\ Cardinality(Entries(q, x)) \in Nat
    BY EntriesFinite
  <1>5. Cardinality(Entries(q, x) \cup {n}) = Cardinality(Entries(q, x)) + 1
    BY <1>3, <1>4, FS_AddElement
  <1> QED
    BY <1>2, <1>4, <1>5 DEF r

(* One less, of its own destination only.                                  *)
LEMMA RemoveEntries ==
    ASSUME NEW S, NEW q \in Seq(S), NEW i \in DOMAIN q, NEW x
    PROVE  Cardinality(Entries(RemoveAt(q, i), x))
             >= Cardinality(Entries(q, x)) - (IF q[i].dest = x THEN 1 ELSE 0)
  <1> DEFINE r == RemoveAt(q, i)
             A == Entries(q, x) \ {i}
             B == Entries(r, x)
             f == [j \in A |-> IF j < i THEN j ELSE j - 1]
  <1>1. /\ r \in Seq(S) /\ Len(r) = Len(q) - 1 /\ Len(q) \in Nat
        /\ DOMAIN q = 1..Len(q) /\ DOMAIN r = 1..Len(q) - 1
        /\ \A j \in 1..(Len(q) - 1) : r[j] = IF j < i THEN q[j] ELSE q[j + 1]
    <2>1. /\ r \in Seq(S) /\ Len(r) = Len(q) - 1
          /\ \A j \in 1..(Len(q) - 1) : r[j] = IF j < i THEN q[j] ELSE q[j + 1]
      BY RemoveAtFacts
    <2> HIDE DEF r
    <2> QED
      BY <2>1
  <1> HIDE DEF r
  <1>2. f \in Injection(A, B)
    <2>1. ASSUME NEW j \in A
          PROVE  f[j] \in B
      <3>1. j \in 1..Len(q) /\ i \in 1..Len(q) /\ j # i /\ q[j].dest = x
        BY <1>1 DEF Entries
      <3>2. CASE j < i
        <4>1. j \in 1..Len(q) - 1 /\ r[j] = q[j] /\ f[j] = j
          BY <1>1, <3>1, <3>2
        <4> QED
          BY <1>1, <3>1, <4>1 DEF Entries
      <3>3. CASE ~(j < i)
        <4>1. j - 1 \in 1..Len(q) - 1 /\ ~(j - 1 < i) /\ f[j] = j - 1 /\ (j - 1) + 1 = j
          BY <1>1, <3>1, <3>3
        <4>2. r[j - 1] = q[j]
          BY <1>1, <4>1
        <4> QED
          BY <1>1, <3>1, <4>1, <4>2 DEF Entries
      <3> QED
        BY <3>2, <3>3
    <2>2. ASSUME NEW j \in A, NEW k \in A, f[j] = f[k]
          PROVE  j = k
      <3>1. j \in Nat /\ k \in Nat /\ i \in Nat /\ j # i /\ k # i
        BY <1>1 DEF Entries
      <3> QED
        BY <2>2, <3>1
    <2>3. f \in [A -> B]
      <3> HIDE DEF A, B
      <3> QED
        BY <2>1
    <2> HIDE DEF f, A, B
    <2> QED
      BY <2>2, <2>3, Fun_IsInj
  <1>3. IsFiniteSet(B) /\ Cardinality(B) \in Nat
    BY <1>1, EntriesFinite
  <1>4. Cardinality(A) <= Cardinality(B)
    <2> HIDE DEF f, A, B
    <2> QED
      BY <1>2, <1>3, FS_Injection
  <1>5. IsFiniteSet(Entries(q, x)) /\ Cardinality(Entries(q, x)) \in Nat
    BY EntriesFinite
  <1>6. Cardinality(A) = Cardinality(Entries(q, x)) - (IF q[i].dest = x THEN 1 ELSE 0)
    <2>1. i \in Entries(q, x) <=> q[i].dest = x
      BY DEF Entries
    <2>2. Cardinality(A) = IF i \in Entries(q, x) THEN Cardinality(Entries(q, x)) - 1
                           ELSE Cardinality(Entries(q, x))
      BY <1>5, FS_RemoveElement
    <2> HIDE DEF A
    <2> QED
      BY <1>5, <2>1, <2>2
  <1> QED
    <2> HIDE DEF A
    <2> QED
      BY <1>3, <1>4, <1>5, <1>6 DEF r

-----------------------------------------------------------------------------
(* Requests and their timers.                                              *)
Safe(s) == Backed(s) /\ Owed(s)

LEMMA Numbers ==
    ASSUME NEW s \in States, NEW x \in Dests
    PROVE  /\ s.search[x]["RREQ"] \in Nat /\ s.search[x]["LR"] \in Nat
           /\ s.search[x] \in Counts /\ s.rreqL \in Seq(Pending)
           /\ Cardinality(Entries(s.rreqL, x)) \in Nat
  <1>1. s.rreqL \in Seq(Pending) /\ s.search[x] \in Counts
    BY DEF States
  <1> QED
    BY <1>1, CountGet, Sizes, EntriesFinite DEF TimerKinds

(* sendRREQ: one timer and one entry more.                                 *)
LEMMA SendSafe ==
    ASSUME NEW M, NEW C, NEW s \in States, Inv(s, M, C), Safe(s), NEW d \in Dests
    PROVE  Safe(SendRREQ(s, d))
  <1> DEFINE u == SendRREQ(s, d)
             live == [s EXCEPT !.rtable[d].live = @ \/ s.rtable[d].flags # "NONE"]
             new == [dest |-> d, retries |-> 0, ttl |-> FirstTTL(live.rtable[d])]
  <1>1. /\ u.rreqL = Append(s.rreqL, new)
        /\ u.search = [s.search EXCEPT ![d]["RREQ"] = @ + 1]
        /\ u.waiting = [s.waiting EXCEPT ![d] = "search"]
    BY DEF SendRREQ, States
  <1>2. new.dest = d
    OBVIOUS
  <1> HIDE DEF u, new
  <1>3. ASSUME NEW x \in Dests
        PROVE  /\ u.search[x]["RREQ"] = s.search[x]["RREQ"] + (IF x = d THEN 1 ELSE 0)
               /\ u.search[x]["LR"] = s.search[x]["LR"]
               /\ x # d => u.waiting[x] = s.waiting[x]
    BY <1>1, Numbers DEF States, Counts
  <1>4. ASSUME NEW x \in Dests
        PROVE  Cardinality(Entries(u.rreqL, x))
                 = Cardinality(Entries(s.rreqL, x)) + (IF x = d THEN 1 ELSE 0)
    <2> DEFINE T == Pending \cup {new}
    <2>1. s.rreqL \in Seq(T) /\ new \in T
      <3>1. s.rreqL \in Seq(Pending)
        BY Numbers
      <3> QED
        BY <3>1
    <2> HIDE DEF T
    <2> QED
      BY <1>1, <1>2, <2>1, AppendEntries
  <1>5. Backed(u)
    <2> SUFFICES ASSUME NEW x \in Dests
                 PROVE  u.search[x]["RREQ"] <= Cardinality(Entries(u.rreqL, x))
      BY DEF Backed
    <2> QED
      BY <1>3, <1>4, Numbers DEF Safe, Backed
  <1>6. Owed(u)
    <2> SUFFICES ASSUME NEW x \in Dests, u.waiting[x] = "search"
                 PROVE  u.search[x]["RREQ"] + u.search[x]["LR"] > 0
      BY DEF Owed
    <2> QED
      BY <1>3, Numbers DEF Safe, Owed
  <1> QED
    BY <1>5, <1>6 DEF Safe, u

(* doLocalRepair: one timer more.                                         *)
LEMMA RepairSafe ==
    ASSUME NEW s \in States, Safe(s), NEW d \in Dests
    PROVE  Safe(LocalRepair(s, d))
  <1> DEFINE u == LocalRepair(s, d)
  <1>1. /\ u.rreqL = s.rreqL /\ u.search = [s.search EXCEPT ![d]["LR"] = @ + 1]
        /\ u.waiting = [s.waiting EXCEPT ![d] = "search"]
    BY DEF LocalRepair, States
  <1> HIDE DEF u
  <1>2. ASSUME NEW x \in Dests
        PROVE  /\ u.search[x]["RREQ"] = s.search[x]["RREQ"]
               /\ u.search[x]["LR"] = s.search[x]["LR"] + (IF x = d THEN 1 ELSE 0)
               /\ x # d => u.waiting[x] = s.waiting[x]
    BY <1>1, Numbers DEF States, Counts
  <1>3. Backed(u)
    BY <1>1, <1>2 DEF Safe, Backed
  <1>4. Owed(u)
    <2> SUFFICES ASSUME NEW x \in Dests, u.waiting[x] = "search"
                 PROVE  u.search[x]["RREQ"] + u.search[x]["LR"] > 0
      BY DEF Owed
    <2> QED
      BY <1>2, Numbers DEF Safe, Owed
  <1>5. Safe(u)
    BY <1>3, <1>4 DEF Safe
  <1> QED
    BY <1>5 DEF u

(* A timer of d ends, and the LA has its answer.                           *)
LEMMA EndedSafe ==
    ASSUME NEW s \in States, Safe(s), NEW d \in Dests, NEW k \in TimerKinds, s.search[d][k] > 0, NEW u,
           u.search = [s.search EXCEPT ![d][k] = @ - 1],
           u.waiting = [s.waiting EXCEPT ![d] = "no"],
           \/ k = "LR" /\ u.rreqL = s.rreqL
           \/ /\ k = "RREQ"
              /\ \A x \in Dests : Cardinality(Entries(u.rreqL, x))
                   >= Cardinality(Entries(s.rreqL, x)) - (IF x = d THEN 1 ELSE 0)
              /\ \A x \in Dests : Cardinality(Entries(u.rreqL, x)) \in Nat
    PROVE  Safe(u)
  <1>1. ASSUME NEW x \in Dests
        PROVE  /\ x # d => u.search[x] = s.search[x] /\ u.waiting[x] = s.waiting[x]
               /\ u.waiting[d] = "no"
               /\ u.search[d]["RREQ"] = s.search[d]["RREQ"] - (IF k = "RREQ" THEN 1 ELSE 0)
    BY Numbers DEF States, Counts, TimerKinds
  <1>2. Backed(u)
    <2> SUFFICES ASSUME NEW x \in Dests
                 PROVE  u.search[x]["RREQ"] <= Cardinality(Entries(u.rreqL, x))
      BY DEF Backed
    <2>1. s.search[x]["RREQ"] <= Cardinality(Entries(s.rreqL, x))
      BY DEF Safe, Backed
    <2> QED
      BY <1>1, <2>1, Numbers
  <1>3. Owed(u)
    BY <1>1 DEF Safe, Owed
  <1> QED
    BY <1>2, <1>3 DEF Safe

(* LR_handler *)
LEMMA GivenUpSafe ==
    ASSUME NEW s \in States, Safe(s), NEW d \in Dests, s.search[d]["LR"] > 0
    PROVE  Safe(GivenUp(s, d))
  <1> DEFINE u == GivenUp(s, d)
  <1>1. /\ u.rreqL = s.rreqL /\ u.search = [s.search EXCEPT ![d]["LR"] = @ - 1]
        /\ u.waiting = [s.waiting EXCEPT ![d] = "no"]
    BY DEF GivenUp, OffRepairList, Answer, States
  <1> HIDE DEF u
  <1>2. Safe(u)
    BY <1>1, EndedSafe DEF TimerKinds
  <1> QED
    BY <1>2 DEF u

(* resendRREQ: the timer finds an entry.                                   *)
LEMMA ResentSafe ==
    ASSUME NEW s \in States, Safe(s), NEW d \in Dests, s.search[d]["RREQ"] > 0
    PROVE  Safe(Resent(s, d))
  <1> DEFINE u == Resent(s, d)
             q == Retried(s.rreqL, d)
             last == \E j \in DOMAIN q : q[j].dest = d /\ q[j].retries > 2
  <1>1. \E j \in DOMAIN s.rreqL : s.rreqL[j].dest = d
    <2> SUFFICES ASSUME \A j \in DOMAIN s.rreqL : s.rreqL[j].dest # d
                 PROVE  FALSE
      OBVIOUS
    <2>1. Entries(s.rreqL, d) = {}
      BY DEF Entries
    <2>2. Cardinality(Entries(s.rreqL, d)) = 0
      BY <2>1, FS_EmptySet
    <2> QED
      BY <2>2, Numbers DEF Safe, Backed
  <1>2. PICK i \in DOMAIN s.rreqL :
           /\ q \in Seq(Tries) /\ DOMAIN q = DOMAIN s.rreqL /\ FirstOf(q, d, i)
           /\ \A j \in DOMAIN q \ {i} : q[j] \in Pending
           /\ \A j \in DOMAIN q : q[j].dest = s.rreqL[j].dest
    BY <1>1, Numbers, RetriedFacts
  <1>3. \A x \in Dests : Entries(q, x) = Entries(s.rreqL, x)
    <2> HIDE DEF q
    <2> QED
      BY <1>2 DEF Entries
  <1>4. CASE last
    <2> DEFINE l == DeleteFromList(q, d)
    <2>1. l \in Seq(Pending) /\ l = RemoveAt(q, i) /\ q[i].dest = d
      <3> HIDE DEF q
      <3> QED
        BY <1>2, DeletedFacts DEF FirstOf
    <2>2. /\ u.rreqL = l /\ u.search = [s.search EXCEPT ![d]["RREQ"] = @ - 1]
          /\ u.waiting = [s.waiting EXCEPT ![d] = "no"]
      BY <1>1, <1>4 DEF Resent, Answer, States
    <2> HIDE DEF l, u, q
    <2>3. ASSUME NEW x \in Dests
          PROVE  /\ Cardinality(Entries(u.rreqL, x))
                      >= Cardinality(Entries(s.rreqL, x)) - (IF x = d THEN 1 ELSE 0)
                 /\ Cardinality(Entries(u.rreqL, x)) \in Nat
      BY <1>2, <1>3, <2>1, <2>2, RemoveEntries, EntriesFinite
    <2>4. Safe(u)
      BY <2>2, <2>3, EndedSafe DEF TimerKinds
    <2> QED
      BY <2>4 DEF u
  <1>5. CASE ~last
    <2>1. u = [s EXCEPT !.rreqL = q]
      BY <1>1, <1>5 DEF Resent
    <2> HIDE DEF u, q
    <2>2. u.rreqL = q /\ u.search = s.search /\ u.waiting = s.waiting
      BY <2>1 DEF States
    <2>3. Safe(u)
      BY <1>3, <2>2 DEF Safe, Backed, Owed
    <2> QED
      BY <2>3 DEF u
  <1> QED
    BY <1>4, <1>5

-----------------------------------------------------------------------------
(* The main loop.  What it still needs is there at each of its places, and *)
(* a timer that came in between has left what it relies on.                *)
Places == {"idle", "reboot", "found", "repaired", "timer", "set", "rest", "replace", "heard",
           "invalid", "ask", "listed"}

Loops ==
    [at : Places, reboot : BOOLEAN, from : Dests \cup {NoNode}, dest : Dests \cup {NoNode},
     seq : Seqs, hops : 0..MaxHops + 1, more : BOOLEAN, add : BOOLEAN]

Placed(l) ==
    /\ l \in Loops
    /\ l.at \notin {"idle", "ask", "listed"} => l.from \in Dests
    /\ l.at \in {"found", "repaired", "replace", "heard", "invalid", "ask", "listed"} => l.dest \in Dests
    /\ l.at \in {"replace", "heard", "invalid"} => l.dest # l.from
    /\ l.at = "replace" => l.hops \in 2..MaxHops + 1
    /\ l.at = "reboot" => l.reboot

Held(s, l, C) ==
    LET e == s.rtable[l.dest]
    IN /\ l.at \in {"found", "repaired", "replace"} /\ e.flags = "BROKEN" => l.dest \in C
       /\ l.at = "replace" /\ e.flags = "ACTIVE" =>
             /\ Fresher(e, l.seq, l.hops)
             /\ ~l.add /\ ~l.reboot => e.next = l.from
       /\ l.at = "invalid" /\ e.flags = "ACTIVE" => e.next = l.from

NodeInv ==
    /\ node \in States /\ Inv(node, missed, cut)
    /\ missed \subseteq Dests /\ cut \subseteq Dests
    /\ Placed(loop) /\ Held(node, loop, cut)

(* What a message of p may make of an entry e of d: the route of p itself, *)
(* a route by way of p that is fresher, an end of a route by way of p, or  *)
(* another number for it.                                                  *)
Offered(e, f, d, p) ==
    \/ f = e
    \/ d = p /\ f.flags = "ACTIVE" /\ f.next = p /\ f.hops = 1
    \/ /\ d # p /\ f.flags = "ACTIVE" /\ f.next = p /\ f.hops > 1
       /\ Fresher(e, f.seq, f.hops)
    \/ d # p /\ (e.flags = "ACTIVE" => e.next = p) /\ f.flags = "INVALID"
    \/ /\ f.flags = e.flags
       /\ e.flags = "ACTIVE" => f.next = e.next /\ f.hops = e.hops /\ e.next = p

(* A step of the main loop that writes an entry, and another step.         *)
Message(p) ==
    /\ NodeInv'
    /\ \A x \in Dests : Offered(node.rtable[x], node'.rtable[x], x, p)
    /\ Served(node, node')

Calm ==
    /\ NodeInv' /\ Quieter(node, node') /\ Along(node, node')
    /\ Safe(node) => Safe(node')

LEMMA Idling == Placed(Idle) /\ \A s, C : Held(s, Idle, C)
  BY Sizes DEF Placed, Loops, Places, Held, Idle

(* An entry e of d is written.  What the kernel is told is followed; what  *)
(* it is not told is an active route that stays by the same neighbour, or  *)
(* one of the reboot time.                                                 *)
Stays(d, e) ==
    /\ node.rtable[d].flags = "ACTIVE"
    /\ e.hops > 1 => node.rtable[d].next = e.next /\ node.rtable[d].hops > 1

LEMMA Wrote ==
    ASSUME NodeInv, NEW d \in Dests, NEW e \in Entry, Sane(e, d), e.flags # "NONE",
           NEW told \in BOOLEAN, node' = Told(node, d, e, told), Written(d, told),
           cut' \subseteq Dests, Within(cut, cut', d), e.flags = "BROKEN" => d \in node.repair \cup cut',
           told \/ loop.reboot \/ e.flags # "ACTIVE" \/ Stays(d, e)
    PROVE  /\ node' \in States /\ Inv(node', missed', cut') /\ missed' \subseteq Dests
           /\ node'.rtable[d] = e /\ \A x \in Dests \ {d} : node'.rtable[x] = node.rtable[x]
           /\ Served(node, node')
  <1>1. e.next \in Dests /\ node \in States /\ Inv(node, missed, cut)
    BY DEF Sane, NodeInv
  <1>2. /\ node' \in States /\ node'.rtable[d] = e /\ Untouched(node, node')
        /\ Beside(node.rtable, node'.rtable, d) /\ Beside(node.kroute, node'.kroute, d)
        /\ node'.kroute[d] = IF told THEN e.next ELSE node.kroute[d]
        /\ node'.repair = node.repair /\ node'.duringReboot = node.duringReboot
    BY <1>1, ToldFacts DEF Beside
  <1>3. /\ missed' \subseteq Dests /\ Within(missed, missed', d)
        /\ ~told /\ d \in missed => d \in missed'
        /\ ~told /\ loop.reboot /\ ~node.duringReboot /\ e.flags = "ACTIVE" => d \in missed'
    BY <1>2 DEF NodeInv, Written, Within
  <1>4. ASSUME e.flags = "ACTIVE", ~node.duringReboot, d \notin missed'
        PROVE  node'.kroute[d] # NoNode /\ (e.hops > 1 => node'.kroute[d] = e.next)
    <2>1. CASE told
      BY <1>1, <1>2, <2>1, Sizes
    <2>2. CASE ~told
      BY <1>1, <1>2, <1>3, <1>4, <2>2 DEF Inv, Followed, Stays
    <2> QED
      BY <2>1, <2>2
  <1>5. Fits(node, d, node'.rtable[d], node'.kroute[d], missed', cut')
    BY <1>2, <1>4 DEF Fits
  <1>6. Inv(node', missed', cut')
    BY <1>1, <1>2, <1>3, <1>5, Changed
  <1>7. Served(node, node')
    BY <1>1, <1>2, UntouchedServed
  <1> QED
    BY <1>2, <1>3, <1>6, <1>7 DEF Beside

(* A step that leaves the table alone.                                     *)
LEMMA TableStays ==
    ASSUME NodeInv, node' \in States, node'.rtable = node.rtable, node'.kroute = node.kroute,
           node'.duringReboot = node.duringReboot, missed' = missed, cut' \subseteq Dests,
           cut \subseteq cut', \A x \in Dests \ cut' : x \in node.repair => x \in node'.repair,
           Served(node, node'), Placed(loop'), Held(node', loop', cut')
    PROVE  Calm
  <1>1. Inv(node', missed', cut')
    BY DEF NodeInv, Inv, Typed, Repaired, Followed
  <1>2. NodeInv'
    BY <1>1 DEF NodeInv
  <1>3. Quieter(node, node') /\ Along(node, node')
    BY DEF Quieter, Alike, Along, Leads
  <1>4. Safe(node) => Safe(node')
    BY ServedSafe DEF NodeInv, Safe
  <1> QED
    BY <1>2, <1>3, <1>4 DEF Calm

(* A step of the main loop alone.                                          *)
LEMMA LoopMoves ==
    ASSUME NodeInv, UNCHANGED <<node, missed, cut>>, Placed(loop'), Held(node, loop', cut)
    PROVE  Calm
  <1>1. Served(node, node') /\ node' \in States
    BY UntouchedServed DEF NodeInv, Untouched
  <1> QED
    BY <1>1, TableStays DEF NodeInv

-----------------------------------------------------------------------------
(* The entry of the neighbour.                                             *)
LEMMA NeighborUpdateStep ==
    ASSUME NodeInv, NEW p \in Dests, NEW seq \in Seqs, NEW more \in BOOLEAN,
           NeighborUpdate(p, seq, more)
    PROVE  Message(p)
  <1> DEFINE e == node.rtable[p]
             r == Route(e, p, seq, 1)
             told == e.flags # "ACTIVE"
  <1>1. e \in Entry /\ Sane(e, p) /\ 1 \in 1..MaxHops + 1 /\ ~(1 > 1) /\ told \in BOOLEAN
    BY Sizes DEF NodeInv, Inv, Typed, States
  <1>2. /\ r \in Entry /\ r.flags = "ACTIVE" /\ r.next = p /\ r.hops = 1 /\ Sane(r, p)
    BY <1>1, RouteEntry
  <1>3. /\ node' = Told(node, p, r, told) /\ Written(p, told) /\ cut' = cut \ {p}
        /\ told \/ e.flags = "ACTIVE"
    BY DEF NeighborUpdate, NeighborEntry, Told
  <1>4. PICK b \in BOOLEAN : b = told
    BY <1>1
  <1> HIDE DEF r, told
  <1>5. /\ r.flags # "NONE" /\ r.flags # "BROKEN" /\ (b \/ Stays(p, r))
        /\ cut' \subseteq Dests /\ Within(cut, cut', p)
        /\ node' = Told(node, p, r, b) /\ Written(p, b)
    BY <1>1, <1>2, <1>3, <1>4 DEF Stays, Within, NodeInv
  <1>6. /\ node' \in States /\ Inv(node', missed', cut') /\ missed' \subseteq Dests
        /\ node'.rtable[p] = r /\ \A x \in Dests \ {p} : node'.rtable[x] = node.rtable[x]
        /\ Served(node, node')
    BY <1>2, <1>5, Wrote
  <1>7. Placed(loop') /\ Held(node', loop', cut')
    <2>1. loop' = [Idle EXCEPT !.at = "found", !.from = p, !.dest = p, !.more = more]
      BY DEF NeighborUpdate
    <2>2. loop' = [at |-> "found", reboot |-> FALSE, from |-> p, dest |-> p, seq |-> 0,
                   hops |-> 0, more |-> more, add |-> FALSE]
      BY <2>1 DEF Idle
    <2>3. Placed(loop') /\ loop'.at = "found" /\ loop'.dest = p
      BY <2>2, Sizes DEF Placed, Loops, Places
    <2> QED
      BY <1>2, <1>6, <2>3 DEF Held
  <1>8. NodeInv'
    BY <1>5, <1>6, <1>7 DEF NodeInv
  <1>9. \A x \in Dests : Offered(node.rtable[x], node'.rtable[x], x, p)
    BY <1>2, <1>6 DEF Offered
  <1> QED
    BY <1>6, <1>8, <1>9 DEF Message

LEMMA EnterRebootStep ==
    ASSUME NodeInv, NEW p \in Dests, EnterReboot(p)
    PROVE  Calm
  <1>1. loop' = [Idle EXCEPT !.at = "reboot", !.from = p, !.reboot = TRUE]
    BY DEF EnterReboot
  <1>2. Placed(loop') /\ loop'.at = "reboot"
    <2>1. loop' = [at |-> "reboot", reboot |-> TRUE, from |-> p, dest |-> NoNode, seq |-> 0,
                   hops |-> 0, more |-> FALSE, add |-> FALSE]
      BY <1>1 DEF Idle
    <2> QED
      BY <2>1, Sizes DEF Placed, Loops, Places
  <1>3. Held(node, loop', cut)
    BY <1>2 DEF Held
  <1> QED
    BY <1>2, <1>3, LoopMoves DEF EnterReboot

LEMMA RebootNeighborStep ==
    ASSUME NodeInv, NEW seq \in Seqs, NEW more \in BOOLEAN, RebootNeighborUpdate(seq, more)
    PROVE  loop.from \in Dests /\ Message(loop.from)
  <1> DEFINE p == loop.from
             e == node.rtable[p]
             r == Route(e, p, seq, 1)
  <1>1. p \in Dests /\ loop.reboot
    BY DEF NodeInv, Placed, RebootNeighborUpdate
  <1>2. e \in Entry /\ Sane(e, p) /\ 1 \in 1..MaxHops + 1
    BY <1>1, Sizes DEF NodeInv, Inv, Typed, States
  <1>3. /\ r \in Entry /\ r.flags = "ACTIVE" /\ r.next = p /\ r.hops = 1 /\ Sane(r, p)
    BY <1>1, <1>2, RouteEntry
  <1>4. node' = Told(node, p, r, FALSE) /\ Written(p, FALSE) /\ cut' = cut \ {p}
    BY DEF RebootNeighborUpdate, RebootEntry, Told
  <1> HIDE DEF p, r
  <1>0. PICK told \in BOOLEAN : told = FALSE
    OBVIOUS
  <1>5. /\ node' \in States /\ Inv(node', missed', cut') /\ missed' \subseteq Dests
        /\ node'.rtable[p] = r /\ \A x \in Dests \ {p} : node'.rtable[x] = node.rtable[x]
        /\ Served(node, node')
    <2>1. /\ r.flags # "NONE" /\ r.flags # "BROKEN"
          /\ cut' \subseteq Dests /\ Within(cut, cut', p)
          /\ node' = Told(node, p, r, told) /\ Written(p, told)
      BY <1>0, <1>3, <1>4 DEF Within, NodeInv
    <2> QED
      BY <1>1, <1>3, <2>1, Wrote
  <1>6. Placed(loop') /\ Held(node', loop', cut')
    <2>1. CASE loop' = Idle
      BY <2>1, Idling
    <2>2. CASE loop' = [loop EXCEPT !.at = "rest", !.more = TRUE]
      <3>1. loop' \in Loops /\ loop'.at = "rest" /\ loop'.from = p
        BY <2>2 DEF NodeInv, Placed, Loops, Places, p
      <3> QED
        BY <1>1, <3>1 DEF Placed, Held
    <2> QED
      BY <2>1, <2>2 DEF RebootNeighborUpdate
  <1>7. NodeInv'
    BY <1>4, <1>5, <1>6 DEF NodeInv
  <1>8. \A x \in Dests : Offered(node.rtable[x], node'.rtable[x], x, p)
    BY <1>3, <1>5 DEF Offered
  <1> QED
    BY <1>1, <1>5, <1>7, <1>8 DEF Message, p

-----------------------------------------------------------------------------
(* The answer to the LA and the timers of the neighbour.                   *)
LEMMA SearchedPlaces ==
    ASSUME NodeInv, loop.at \in {"found", "repaired"}
    PROVE  Placed(Searched) /\ \A s, C : Held(s, Searched, C)
  <1>1. CASE loop.dest # loop.from
    BY <1>1, Idling DEF Searched
  <1>2. CASE loop.dest = loop.from
    <2> DEFINE l == [loop EXCEPT !.at = "timer"]
    <2>1. l \in Loops /\ l.at = "timer" /\ l.from = loop.from
      BY DEF NodeInv, Placed, Loops, Places
    <2>2. Searched = l
      BY <1>2 DEF Searched
    <2> HIDE DEF l
    <2>3. Placed(l) /\ \A s, C : Held(s, l, C)
      BY <2>1 DEF NodeInv, Placed, Held
    <2> QED
      BY <2>2, <2>3
  <1> QED
    BY <1>1, <1>2

LEMMA RouteFoundStep ==
    ASSUME NodeInv, RouteFound
    PROVE  Calm
  <1>1. loop.at = "found" /\ loop.dest \in Dests /\ UNCHANGED <<missed, cut>>
    BY DEF RouteFound, NodeInv, Placed
  <1>2. CASE node' = Answer(node, loop.dest) /\ loop' = Searched
    <2>1. LET a == Answer(node, loop.dest) IN
          /\ a \in States /\ a.rtable = node.rtable /\ a.kroute = node.kroute
          /\ a.repair = node.repair /\ a.duringReboot = node.duringReboot
      BY <1>1, WaitPut DEF NodeInv, Answer
    <2>2. Served(node, node')
      BY <1>1, <1>2, AnswerServed DEF NodeInv
    <2> QED
      BY <1>1, <1>2, <2>1, <2>2, SearchedPlaces, TableStays DEF NodeInv
  <1>3. ASSUME NEW k \in Kinds(node, loop.dest),
               node' = EndTimer(Answer(node, loop.dest), loop.dest, k),
               loop' = IF k = "LR" THEN [loop EXCEPT !.at = "repaired"] ELSE Searched
        PROVE  Calm
    <2>1. k \in TimerKinds /\ node.search[loop.dest][k] > 0
      BY <1>1, <1>3 DEF TimerKinds, Kinds, Answer, NodeInv, States
    <2>2. /\ node' \in States /\ node'.rtable = node.rtable /\ node'.kroute = node.kroute
          /\ node'.repair = node.repair /\ node'.duringReboot = node.duringReboot
          /\ Served(node, node')
      BY <1>1, <1>3, <2>1, EndTimerServed DEF NodeInv
    <2>3. Placed(loop') /\ Held(node', loop', cut')
      <3>1. CASE loop' = Searched
        BY <1>1, <3>1, SearchedPlaces
      <3>2. CASE loop' = [loop EXCEPT !.at = "repaired"]
        <4>1. /\ loop' \in Loops /\ loop'.at = "repaired" /\ loop'.dest = loop.dest
              /\ loop'.from = loop.from
          BY <3>2 DEF NodeInv, Placed, Loops, Places
        <4>2. loop.from \in Dests
          BY <1>1 DEF NodeInv, Placed
        <4> QED
          BY <1>1, <2>2, <4>1, <4>2 DEF NodeInv, Placed, Held
      <3> QED
        BY <1>3, <3>1, <3>2
    <2> QED
      BY <1>1, <2>2, <2>3, TableStays DEF NodeInv
  <1> QED
    BY <1>2, <1>3 DEF RouteFound

(* A broken route that the main loop takes off the list is cut.            *)
LEMMA RepairEndedStep ==
    ASSUME NodeInv, RepairEnded
    PROVE  Calm
  <1> DEFINE d == loop.dest
  <1>1. /\ loop.at = "repaired" /\ d \in Dests /\ UNCHANGED <<missed, cut>> /\ loop' = Searched
        /\ node' = OffRepairList(node, d)
    BY DEF RepairEnded, NodeInv, Placed
  <1>2. /\ node' \in States /\ node'.rtable = node.rtable /\ node'.kroute = node.kroute
        /\ node'.repair = node.repair \ {d} /\ node'.duringReboot = node.duringReboot
        /\ Untouched(node, node')
    <2>1. node \in States /\ node.repair \ {d} \in SUBSET Dests
      BY DEF NodeInv, States
    <2> QED
      BY <1>1, <2>1 DEF OffRepairList, States, Untouched
  <1>3. Placed(loop') /\ Held(node', loop', cut')
    BY <1>1, SearchedPlaces
  <1>4. Inv(node', missed', cut')
    <2>1. Typed(node')
      BY <1>2 DEF NodeInv, Inv, Typed
    <2>2. Repaired(node', cut')
      BY <1>1, <1>2 DEF NodeInv, Inv, Repaired, Held
    <2>3. Followed(node', missed')
      BY <1>1, <1>2 DEF NodeInv, Inv, Followed
    <2> QED
      BY <2>1, <2>2, <2>3 DEF Inv
  <1>5. NodeInv'
    BY <1>1, <1>2, <1>3, <1>4 DEF NodeInv
  <1>6. Quieter(node, node') /\ Along(node, node')
    BY <1>2 DEF Quieter, Alike, Along, Leads
  <1>7. Safe(node) => Safe(node')
    BY <1>2, UntouchedServed, ServedSafe DEF NodeInv, Safe
  <1> QED
    BY <1>5, <1>6, <1>7 DEF Calm

LEMMA NeighboredPlaces ==
    ASSUME NodeInv, loop.from \in Dests
    PROVE  Placed(Neighbored) /\ \A s, C : Held(s, Neighbored, C)
  <1>1. CASE ~loop.more
    BY <1>1, Idling DEF Neighbored
  <1>2. CASE loop.more
    <2> DEFINE l == [loop EXCEPT !.at = "rest", !.dest = NoNode]
    <2>1. l \in Loops /\ l.at = "rest" /\ l.from = loop.from
      BY DEF NodeInv, Placed, Loops, Places
    <2>2. Neighbored = l
      BY <1>2 DEF Neighbored
    <2> HIDE DEF l
    <2>3. Placed(l) /\ \A s, C : Held(s, l, C)
      BY <2>1 DEF Placed, Held
    <2> QED
      BY <2>2, <2>3
  <1> QED
    BY <1>1, <1>2

LEMMA TestTimerStep ==
    ASSUME NodeInv, NEW hello \in BOOLEAN, TestTimer(hello)
    PROVE  Calm
  <1>1. loop.from \in Dests
    BY DEF TestTimer, NodeInv, Placed
  <1>2. CASE loop' = Neighbored
    BY <1>1, <1>2, NeighboredPlaces, LoopMoves DEF TestTimer
  <1>3. CASE loop' = [loop EXCEPT !.at = "set"]
    <2>1. loop' \in Loops /\ loop'.at = "set" /\ loop'.from = loop.from
      BY <1>3 DEF NodeInv, Placed, Loops, Places
    <2>2. Placed(loop') /\ Held(node, loop', cut)
      BY <1>1, <2>1 DEF Placed, Held
    <2> QED
      BY <2>2, LoopMoves DEF TestTimer
  <1> QED
    BY <1>2, <1>3 DEF TestTimer

LEMMA SetTimerStep ==
    ASSUME NodeInv, SetTimer
    PROVE  Calm
  <1>1. loop.from \in Dests /\ loop' = Neighbored /\ UNCHANGED <<missed, cut>>
    BY DEF SetTimer, NodeInv, Placed
  <1>2. /\ node' \in States /\ node'.rtable = node.rtable /\ node'.kroute = node.kroute
        /\ node'.repair = node.repair /\ node'.duringReboot = node.duringReboot
        /\ Untouched(node, node')
    BY <1>1 DEF SetTimer, NodeInv, States, Untouched
  <1>3. Served(node, node')
    BY <1>2, UntouchedServed DEF NodeInv
  <1> QED
    BY <1>1, <1>2, <1>3, NeighboredPlaces, TableStays DEF NodeInv

-----------------------------------------------------------------------------
(* What a message says of another node.                                    *)
LEMMA SeenBeforeStep ==
    ASSUME NodeInv, SeenBefore
    PROVE  Calm
  BY Idling, LoopMoves DEF SeenBefore

LEMMA RouteUpdateStep ==
    ASSUME NodeInv, NEW d \in Dests, NEW seq \in Seqs, NEW hops \in 2..MaxHops + 1,
           RouteUpdate(d, seq, hops)
    PROVE  loop.from \in Dests /\ (Message(loop.from) \/ Calm)
  <1> DEFINE p == loop.from
             e == node.rtable[d]
             r == Route(e, p, seq, hops)
             found == [loop EXCEPT !.at = "found", !.dest = d]
             done == IF loop.reboot THEN Idle ELSE found
  <1>1. p \in Dests /\ d # p /\ loop \in Loops
    BY DEF RouteUpdate, NodeInv, Placed
  <1>2. e \in Entry /\ Sane(e, d) /\ hops \in 1..MaxHops + 1 /\ hops > 1 /\ hops # 1
    BY Sizes DEF NodeInv, Inv, Typed, States
  <1>3. /\ r \in Entry /\ r.flags = "ACTIVE" /\ r.next = p /\ r.hops = hops /\ r.seq = seq
        /\ Sane(r, d)
    BY <1>1, <1>2, RouteEntry
  <1>4. /\ Placed(found) /\ found.at = "found" /\ found.dest = d
    BY <1>1 DEF Placed, Loops, Places
  <1>5. ASSUME NEW s, NEW C, s.rtable[d].flags = "ACTIVE"
        PROVE  Placed(done) /\ Held(s, done, C)
    <2>1. Held(s, found, C)
      BY <1>4, <1>5 DEF Held
    <2> QED
      BY <1>4, <2>1, Idling
  <1>6. CASE e.flags # "ACTIVE"
    <2> HIDE DEF p, e, r, done
    <2>1. PICK told \in BOOLEAN : told = ~loop.reboot
      BY <1>1 DEF Loops
    <2>2. /\ node' = Told(node, d, r, told) /\ Written(d, told) /\ cut' = cut \ {d}
          /\ loop' = done
      BY <1>6, <2>1 DEF RouteUpdate, NewEntry, Told, p, e, r, done
    <2>3. /\ r.flags # "NONE" /\ r.flags # "BROKEN" /\ (told \/ loop.reboot)
          /\ cut' \subseteq Dests /\ Within(cut, cut', d)
      BY <1>3, <2>1, <2>2 DEF Within, NodeInv
    <2>4. /\ node' \in States /\ Inv(node', missed', cut') /\ missed' \subseteq Dests
          /\ node'.rtable[d] = r /\ \A x \in Dests \ {d} : node'.rtable[x] = node.rtable[x]
          /\ Served(node, node')
      BY <1>3, <2>2, <2>3, Wrote
    <2>5. Placed(loop') /\ Held(node', loop', cut')
      BY <1>3, <1>5, <2>2, <2>4
    <2>6. NodeInv'
      BY <2>3, <2>4, <2>5 DEF NodeInv
    <2>7. \A x \in Dests : Offered(node.rtable[x], node'.rtable[x], x, p)
      BY <1>1, <1>2, <1>3, <1>6, <2>4 DEF Offered, Fresher, e
    <2> QED
      BY <1>1, <2>4, <2>6, <2>7 DEF Message, p
  <1>7. CASE e.flags = "ACTIVE" /\ ~Fresher(e, seq, hops)
    <2>1. loop' = done /\ UNCHANGED <<node, missed, cut>>
      BY <1>7 DEF RouteUpdate
    <2> QED
      BY <1>1, <1>5, <1>7, <2>1, LoopMoves
  <1>8. CASE e.flags = "ACTIVE" /\ Fresher(e, seq, hops)
    <2>0. PICK add \in BOOLEAN : add = (~loop.reboot /\ Moved(e, p, hops))
      BY <1>1 DEF Loops, Moved
    <2> DEFINE l == [loop EXCEPT !.at = "replace", !.dest = d, !.seq = seq, !.hops = hops,
                                 !.add = add]
    <2>1. loop' = l /\ UNCHANGED <<node, missed, cut>>
      BY <1>8, <2>0 DEF RouteUpdate
    <2>2. ~add /\ ~loop.reboot => e.next = p
      BY <2>0 DEF Moved
    <2>3. /\ l \in Loops /\ l.at = "replace" /\ l.dest = d /\ l.seq = seq /\ l.hops = hops
          /\ l.add = add /\ l.from = p /\ l.reboot = loop.reboot
      <3>1. hops \in 0..MaxHops + 1
        BY Sizes
      <3> QED
        BY <1>1, <3>1 DEF Loops, Places
    <2> HIDE DEF l
    <2>4. Placed(l)
      BY <1>1, <2>3 DEF Placed
    <2>5. Held(node, l, cut)
      BY <1>8, <2>2, <2>3 DEF Held
    <2> QED
      BY <1>1, <2>1, <2>4, <2>5, LoopMoves
  <1> QED
    BY <1>6, <1>7, <1>8

(* The entry may have ended since the message was compared with it.        *)
LEMMA ReplaceActiveStep ==
    ASSUME NodeInv, ReplaceActive
    PROVE  loop.from \in Dests /\ Message(loop.from)
  <1> DEFINE p == loop.from
             d == loop.dest
             e == node.rtable[d]
             r == Route(e, p, loop.seq, loop.hops)
             f == [r EXCEPT !.flags = e.flags]
  <1>1. /\ loop.at = "replace" /\ p \in Dests /\ d \in Dests /\ d # p /\ loop \in Loops
        /\ loop.hops \in 1..MaxHops + 1 /\ loop.hops > 1 /\ loop.seq \in Seqs /\ loop.add \in BOOLEAN
        /\ cut' = cut
    BY Sizes DEF ReplaceActive, NodeInv, Placed, Loops
  <1>2. e \in Entry /\ Sane(e, d) /\ e.flags # "NONE"
    BY <1>1 DEF ReplaceActive, NodeInv, Inv, Typed, States
  <1>3. r \in Entry /\ r.flags = "ACTIVE" /\ r.next = p /\ r.hops = loop.hops /\ r.seq = loop.seq
    BY <1>1, <1>2, RouteEntry
  <1>4. /\ e.flags = "BROKEN" => d \in cut
        /\ e.flags = "ACTIVE" => /\ Fresher(e, loop.seq, loop.hops)
                                 /\ ~loop.add /\ ~loop.reboot => e.next = p
    BY <1>1 DEF NodeInv, Held
  <1>5. node' = Told(node, d, f, loop.add) /\ Written(d, loop.add)
    BY DEF ReplaceActive, ReplaceEntry, Told
  <1> HIDE DEF r
  <1>6. /\ f \in Entry /\ f.flags = e.flags /\ f.next = p /\ f.hops = loop.hops /\ f.seq = loop.seq
    BY <1>2, <1>3 DEF Entry
  <1> HIDE DEF f
  <1>7. Sane(f, d)
    BY <1>1, <1>2, <1>6 DEF Sane, NoRoute
  <1> HIDE DEF p, d, e
  <1>8. loop.add \/ loop.reboot \/ f.flags # "ACTIVE" \/ Stays(d, f)
    <2> SUFFICES ASSUME ~loop.add, ~loop.reboot, f.flags = "ACTIVE"
                 PROVE  Stays(d, f)
      OBVIOUS
    <2>1. e.next = p /\ e.hops \in 1..MaxHops + 1 /\ e.hops # 1
      BY <1>1, <1>2, <1>4, <1>6 DEF Sane
    <2> QED
      BY <1>6, <2>1, Sizes DEF Stays, e
  <1>9. /\ node' \in States /\ Inv(node', missed', cut') /\ missed' \subseteq Dests
        /\ node'.rtable[d] = f /\ \A x \in Dests \ {d} : node'.rtable[x] = node.rtable[x]
        /\ Served(node, node')
    <2>1. /\ cut' \subseteq Dests /\ Within(cut, cut', d) /\ f.flags # "NONE"
          /\ f.flags = "BROKEN" => d \in node.repair \cup cut'
      BY <1>1, <1>2, <1>4, <1>6 DEF Within, NodeInv
    <2> QED
      BY <1>1, <1>5, <1>6, <1>7, <1>8, <2>1, Wrote
  <1>10. Placed(loop') /\ Held(node', loop', cut')
    <2>1. CASE loop' = Idle
      BY <2>1, Idling
    <2>2. CASE loop' = [loop EXCEPT !.at = "found"]
      <3>1. loop' \in Loops /\ loop'.at = "found" /\ loop'.dest = d /\ loop'.from = p
        BY <1>1, <2>2 DEF Loops, Places, d, p
      <3> QED
        BY <1>1, <1>4, <1>6, <1>9, <3>1 DEF Placed, Held
    <2> QED
      BY <2>1, <2>2 DEF ReplaceActive
  <1>11. NodeInv'
    BY <1>1, <1>9, <1>10 DEF NodeInv
  <1>12. \A x \in Dests : Offered(node.rtable[x], node'.rtable[x], x, p)
    <2>1. Offered(e, f, d, p)
      <3>1. CASE e.flags = "ACTIVE"
        BY <1>1, <1>4, <1>6, <3>1 DEF Offered
      <3>2. CASE e.flags # "ACTIVE"
        BY <1>6, <3>2 DEF Offered
      <3> QED
        BY <3>1, <3>2
    <2> QED
      BY <1>9, <2>1 DEF Offered, e
  <1> QED
    BY <1>1, <1>9, <1>11, <1>12 DEF Message, p

(* An entry gets another number.                                           *)
LEMMA Numbered ==
    ASSUME NodeInv, NEW d \in Dests, NEW p \in Dests, NEW e, e = node.rtable[d], NEW q \in Seqs,
           e.flags # "NONE" \/ q = e.seq, e.flags # "ACTIVE" \/ e.next = p \/ q = e.seq,
           node' = [node EXCEPT !.rtable[d] = [e EXCEPT !.seq = q]],
           UNCHANGED <<missed, cut>>, Placed(loop'), loop'.at \in {"idle", "heard"}
    PROVE  Message(p)
  <1> DEFINE f == [e EXCEPT !.seq = q]
  <1>1. e \in Entry /\ Sane(e, d) /\ node \in States /\ Inv(node, missed, cut)
    BY DEF NodeInv, Inv, Typed, States
  <1>2. /\ f \in Entry /\ f.flags = e.flags /\ f.next = e.next /\ f.hops = e.hops
        /\ q = e.seq => f = e
    BY <1>1 DEF Entry
  <1>3. Sane(f, d)
    BY <1>1, <1>2 DEF Sane, NoRoute
  <1> HIDE DEF f
  <1>4. /\ node' \in States /\ Inv(node', missed, cut) /\ node'.rtable[d] = f
        /\ \A x \in Dests \ {d} : node'.rtable[x] = node.rtable[x]
    <2> DEFINE t == [node EXCEPT !.rtable[d] = f]
    <2>2. /\ t \in States /\ Inv(t, missed, cut) /\ t.rtable[d] = f
          /\ \A x \in Dests \ {d} : t.rtable[x] = node.rtable[x]
      BY <1>1, <1>2, <1>3, QuietEntry
    <2>3. node' = t
      BY DEF f
    <2> QED
      BY <2>2, <2>3
  <1>5. Untouched(node, node')
    BY <1>1 DEF States, Untouched
  <1>6. NodeInv'
    BY <1>4 DEF NodeInv, Held
  <1>7. \A x \in Dests : Offered(node.rtable[x], node'.rtable[x], x, p)
    BY <1>2, <1>4 DEF Offered
  <1>8. Served(node, node')
    BY <1>1, <1>5, UntouchedServed
  <1> QED
    BY <1>6, <1>7, <1>8 DEF Message

LEMMA HearOfStep ==
    ASSUME NodeInv, NEW d \in Dests, NEW seq \in Seqs, HearOf(d, seq)
    PROVE  loop.from \in Dests /\ Message(loop.from)
  <1> DEFINE e == node.rtable[d]
             q == IF e.hops = Infinity /\ seq > e.seq THEN seq ELSE e.seq
  <1>1. loop.from \in Dests /\ d # loop.from /\ loop \in Loops
    BY DEF HearOf, NodeInv, Placed
  <1>2. e \in Entry /\ Sane(e, d) /\ q \in Seqs
    BY DEF NodeInv, Inv, Typed, States, Entry
  <1>3. e.flags \in {"NONE", "ACTIVE"} => e.hops # Infinity
    BY <1>2, Sizes DEF Sane, NoRoute
  <1>4. node' = [node EXCEPT !.rtable[d] = [e EXCEPT !.seq = q]] /\ UNCHANGED <<missed, cut>>
    BY <1>2 DEF HearOf, Heard, NodeInv, States
  <1>5. Placed(loop') /\ loop'.at = "heard"
    <2>1. loop' = [loop EXCEPT !.at = "heard", !.dest = d, !.seq = seq]
      BY DEF HearOf
    <2> QED
      BY <1>1, <2>1 DEF Placed, Loops, Places
  <1>6. (e.flags # "NONE" \/ q = e.seq) /\ (e.flags # "ACTIVE" \/ e.next = loop.from \/ q = e.seq)
    BY <1>3
  <1> HIDE DEF q
  <1> QED
    BY <1>1, <1>2, <1>4, <1>5, <1>6, Numbered

LEMMA RenumberStep ==
    ASSUME NodeInv, Renumber
    PROVE  loop.from \in Dests /\ Message(loop.from)
  <1> DEFINE d == loop.dest
             e == node.rtable[d]
             q == IF Active(e) /\ e.next = loop.from THEN loop.seq ELSE e.seq
  <1>1. loop.from \in Dests /\ d \in Dests /\ loop.seq \in Seqs
    BY DEF Renumber, NodeInv, Placed, Loops
  <1>2. e \in Entry /\ q \in Seqs
    BY <1>1 DEF NodeInv, States, Entry
  <1>3. node' = [node EXCEPT !.rtable[d] = [e EXCEPT !.seq = q]] /\ UNCHANGED <<missed, cut>>
    BY <1>1, <1>2 DEF Renumber, TakeNumber, NodeInv, States
  <1>4. Placed(loop') /\ loop'.at = "idle"
    BY Idling DEF Renumber, Idle
  <1>5. (e.flags # "NONE" \/ q = e.seq) /\ (e.flags # "ACTIVE" \/ e.next = loop.from \/ q = e.seq)
    BY DEF Active
  <1> HIDE DEF q, d
  <1> QED
    BY <1>1, <1>2, <1>3, <1>4, <1>5, Numbered

LEMMA LoseRouteStep ==
    ASSUME NodeInv, LoseRoute
    PROVE  Calm
  <1> DEFINE d == loop.dest
             e == node.rtable[d]
  <1>1. loop.at = "heard" /\ d \in Dests /\ loop.from \in Dests /\ d # loop.from /\ loop \in Loops
        /\ missed' = missed
    BY DEF LoseRoute, NodeInv, Placed
  <1>2. CASE ~Lost(node, d, loop.from)
    BY <1>2, Idling, LoopMoves DEF LoseRoute
  <1>3. CASE Lost(node, d, loop.from)
    <2>1. loop' \in Loops /\ loop'.at = "invalid" /\ loop'.dest = d /\ loop'.from = loop.from
      BY <1>1, <1>3 DEF LoseRoute, Loops, Places
    <2>2. /\ node' \in States /\ node'.rtable = node.rtable /\ node'.kroute = node.kroute
          /\ node'.duringReboot = node.duringReboot /\ Untouched(node, node')
          /\ node.repair \ {d} \subseteq node'.repair
          /\ e.flags # "BROKEN" => node'.repair = node.repair
      <3>1. node \in States /\ node.repair \ {d} \in SUBSET Dests
        BY DEF NodeInv, States
      <3>2. CASE e.flags = "BROKEN"
        <4>1. node' = [node EXCEPT !.repair = @ \ {d}]
          BY <1>3, <3>2 DEF LoseRoute, OffRepairList
        <4> QED
          BY <3>1, <3>2, <4>1 DEF States, Untouched
      <3>3. CASE e.flags # "BROKEN"
        BY <1>3, <3>1, <3>3 DEF LoseRoute, Untouched
      <3> QED
        BY <3>2, <3>3
    <2>3. cut' = IF e.flags = "BROKEN" THEN cut \cup {d} ELSE cut
      BY <1>3 DEF LoseRoute
    <2>4. /\ cut' \subseteq Dests /\ cut \subseteq cut'
          /\ \A x \in Dests \ cut' : x \in node.repair => x \in node'.repair
      BY <1>1, <2>2, <2>3 DEF NodeInv
    <2>5. Placed(loop') /\ Held(node', loop', cut')
      BY <1>1, <1>3, <2>1, <2>2 DEF Placed, Held, Lost
    <2>6. Served(node, node')
      BY <2>2, UntouchedServed DEF NodeInv
    <2> QED
      BY <1>1, <2>2, <2>4, <2>5, <2>6, TableStays
  <1> QED
    BY <1>2, <1>3

LEMMA InvalidateStep ==
    ASSUME NodeInv, NEW one \in BOOLEAN, Invalidate(one)
    PROVE  loop.from \in Dests /\ Message(loop.from)
  <1> DEFINE d == loop.dest
             p == loop.from
             e == node.rtable[d]
             g == Invalid(e)
             f == [g EXCEPT !.last = e.hops, !.seq = loop.seq]
             t == [node EXCEPT !.rtable[d] = f]
  <1>1. /\ loop.at = "invalid" /\ d \in Dests /\ p \in Dests /\ d # p /\ loop.seq \in Seqs
        /\ node \in States /\ Inv(node, missed, cut) /\ loop' = Idle
        /\ missed' = missed \ {d} /\ cut' = cut \ {d}
    BY DEF Invalidate, NodeInv, Placed, Loops
  <1>2. e \in Entry /\ Sane(e, d) /\ e.flags # "NONE" /\ (e.flags = "ACTIVE" => e.next = p)
    BY <1>1 DEF Invalidate, NodeInv, Inv, Typed, States, Held
  <1>3. g \in Entry /\ g.flags = "INVALID" /\ g.next = e.next
    BY <1>2, Sizes DEF Invalid, Entry, Flags
  <1>4. node' = [t EXCEPT !.down = IF one /\ ~loop.reboot THEN "rerr" ELSE @]
    BY DEF Invalidate, MakeInvalid
  <1> HIDE DEF g
  <1>5. f \in Entry /\ f.flags = "INVALID" /\ f.next = e.next
    BY <1>1, <1>2, <1>3 DEF Entry
  <1> HIDE DEF f
  <1>6. Sane(f, d)
    BY <1>2, <1>5 DEF Sane, NoRoute
  <1>7. /\ t \in States /\ t.rtable[d] = f
        /\ \A x \in Dests \ {d} : t.rtable[x] = node.rtable[x]
        /\ t.kroute = node.kroute /\ t.repair = node.repair
        /\ t.duringReboot = node.duringReboot /\ Untouched(node, t)
    BY <1>1, <1>5, EntryPut DEF Untouched
  <1> HIDE DEF t
  <1>8. /\ node' \in States /\ node'.rtable = t.rtable /\ node'.kroute = t.kroute
        /\ node'.repair = t.repair /\ node'.duringReboot = t.duringReboot
        /\ Untouched(t, node')
    BY <1>4, <1>7 DEF States, Untouched
  <1>9. Inv(node', missed', cut')
    <2>1. Beside(node.rtable, node'.rtable, d) /\ Beside(node.kroute, node'.kroute, d)
          /\ Within(missed, missed', d) /\ Within(cut, cut', d)
      BY <1>1, <1>7, <1>8 DEF Beside, Within
    <2>2. Fits(node, d, node'.rtable[d], node'.kroute[d], missed', cut')
      BY <1>5, <1>6, <1>7, <1>8 DEF Fits
    <2> HIDE DEF d
    <2> QED
      BY <1>1, <1>7, <1>8, <2>1, <2>2, Changed
  <1>10. NodeInv'
    BY <1>1, <1>8, <1>9, Idling DEF NodeInv
  <1>11. \A x \in Dests : Offered(node.rtable[x], node'.rtable[x], x, p)
    BY <1>1, <1>2, <1>5, <1>7, <1>8 DEF Offered
  <1>12. Served(node, node')
    BY <1>1, <1>7, <1>8, UntouchedServed DEF Untouched
  <1> QED
    BY <1>1, <1>10, <1>11, <1>12 DEF Message
-----------------------------------------------------------------------------
(* Requests of the LA.                                                     *)

(* A step that keeps what holds with the same exceptions.                  *)
LEMMA KeptCalm ==
    ASSUME NodeInv, Kept(node, node', missed, cut), Along(node, node'),
           UNCHANGED <<missed, cut>>, Placed(loop'), Held(node', loop', cut'),
           Safe(node) => Safe(node')
    PROVE  Calm
  <1>1. NodeInv'
    BY DEF NodeInv, Kept
  <1>2. Quieter(node, node')
    BY DEF Kept, Quieter
  <1> QED
    BY <1>1, <1>2 DEF Calm

LEMMA AnswerSafe ==
    ASSUME NodeInv, NEW d \in Dests
    PROVE  Safe(node) => Safe(Answer(node, d))
  <1>1. Served(node, Answer(node, d)) /\ Answer(node, d) \in States
    BY AnswerServed, WaitPut DEF NodeInv, Answer
  <1> QED
    BY <1>1, ServedSafe DEF NodeInv, Safe

LEMMA ProcessAslStep ==
    ASSUME NodeInv, NEW d \in Dests, ProcessAsl(d)
    PROVE  Calm
  <1>1. CASE node' = Answer(node, d) /\ UNCHANGED loop
    <2>1. Kept(node, node', missed, cut) /\ Along(node, node')
      BY <1>1, AnswerKeeps DEF NodeInv
    <2>2. Placed(loop') /\ Held(node', loop', cut')
      BY <1>1 DEF ProcessAsl, NodeInv, Held
    <2> QED
      BY <1>1, <2>1, <2>2, AnswerSafe, KeptCalm DEF ProcessAsl
  <1>2. CASE loop' = [Idle EXCEPT !.at = "ask", !.dest = d] /\ UNCHANGED node
    <2>1. loop' = [at |-> "ask", reboot |-> FALSE, from |-> NoNode, dest |-> d, seq |-> 0,
                   hops |-> 0, more |-> FALSE, add |-> FALSE]
      BY <1>2 DEF Idle
    <2>2. Placed(loop') /\ loop'.at = "ask"
      BY <2>1, Sizes DEF Placed, Loops, Places
    <2>3. Held(node, loop', cut)
      BY <2>2 DEF Held
    <2> QED
      BY <1>2, <2>2, <2>3, LoopMoves DEF ProcessAsl
  <1> QED
    BY <1>1, <1>2 DEF ProcessAsl

LEMMA AskStep ==
    ASSUME NodeInv, NEW local \in BOOLEAN, Ask(local)
    PROVE  Calm
  <1>1. loop.dest \in Dests /\ loop \in Loops /\ UNCHANGED <<missed, cut>>
    BY DEF Ask, NodeInv, Placed
  <1>2. CASE node' = SendRREQ(node, loop.dest) /\ loop' = Idle
    <2>1. Kept(node, node', missed, cut) /\ Along(node, node')
      BY <1>1, <1>2, SendKeeps DEF NodeInv
    <2>2. Safe(node) => Safe(node')
      BY <1>1, <1>2, SendSafe DEF NodeInv
    <2> QED
      BY <1>1, <1>2, <2>1, <2>2, Idling, KeptCalm
  <1>3. CASE loop' = [loop EXCEPT !.at = "listed"] /\ UNCHANGED node
    <2>1. loop' \in Loops /\ loop'.at = "listed" /\ loop'.dest = loop.dest
      BY <1>1, <1>3 DEF Loops, Places
    <2>2. Placed(loop') /\ Held(node, loop', cut)
      BY <1>1, <2>1 DEF Placed, Held
    <2> QED
      BY <1>1, <1>3, <2>2, LoopMoves
  <1>4. CASE node' = Answer(node, loop.dest) /\ loop' = Idle
    <2>1. Kept(node, node', missed, cut) /\ Along(node, node')
      BY <1>1, <1>4, AnswerKeeps DEF NodeInv
    <2> QED
      BY <1>1, <1>4, <2>1, AnswerSafe, Idling, KeptCalm
  <1> QED
    BY <1>2, <1>3, <1>4 DEF Ask

(* A request that takes a repair to be going on is not owed an answer.     *)
LEMMA WaitSafe ==
    ASSUME NodeInv, NEW d \in Dests, NEW w \in {"no", "search", "repair"},
           w # "search" \/ w = node.waiting[d]
    PROVE  LET u == [node EXCEPT !.waiting[d] = w] IN Safe(node) => Safe(u)
  <1> DEFINE u == [node EXCEPT !.waiting[d] = w]
  <1>1. u \in States /\ u.search = node.search /\ u.rreqL = node.rreqL
    BY WaitPut DEF NodeInv
  <1>2. \A x \in Dests : u.waiting[x] = "search" => node.waiting[x] = "search"
    BY DEF NodeInv, States
  <1> HIDE DEF u
  <1>3. Served(node, u)
    <2>1. \A x \in Dests : u.search[x]["RREQ"] <= node.search[x]["RREQ"]
      BY <1>1, Numbers DEF NodeInv
    <2> QED
      BY <1>1, <1>2, <2>1 DEF Served
  <1>4. Safe(node) => Safe(u)
    BY <1>1, <1>3, ServedSafe DEF NodeInv, Safe
  <1> QED
    BY <1>4 DEF u

LEMMA AskForRepairStep ==
    ASSUME NodeInv, AskForRepair
    PROVE  Calm
  <1>1. loop.dest \in Dests /\ UNCHANGED <<missed, cut>> /\ loop' = Idle
    BY DEF AskForRepair, NodeInv, Placed
  <1>2. CASE node' = LocalRepair(node, loop.dest)
    <2>1. Kept(node, node', missed, cut) /\ Along(node, node')
      BY <1>1, <1>2, RepairKeeps DEF NodeInv
    <2>2. Safe(node) => Safe(node')
      BY <1>1, <1>2, RepairSafe DEF NodeInv
    <2> QED
      BY <1>1, <2>1, <2>2, Idling, KeptCalm
  <1>3. ASSUME NEW w \in {"no", "search", "repair"}, node' = [node EXCEPT !.waiting[loop.dest] = w],
               w # "search" \/ w = node.waiting[loop.dest]
        PROVE  Calm
    <2>1. Kept(node, node', missed, cut) /\ Along(node, node')
      BY <1>1, <1>3, WaitKeeps DEF NodeInv
    <2>2. Safe(node) => Safe(node')
      BY <1>1, <1>3, WaitSafe
    <2> QED
      BY <1>1, <2>1, <2>2, Idling, KeptCalm
  <1>4. CASE node' = [node EXCEPT !.waiting[loop.dest] = IF @ = "no" THEN "repair" ELSE @]
    <2> DEFINE w == IF node.waiting[loop.dest] = "no" THEN "repair" ELSE node.waiting[loop.dest]
    <2>1. w \in {"no", "search", "repair"} /\ (w # "search" \/ w = node.waiting[loop.dest])
      BY <1>1 DEF NodeInv, States
    <2>2. node' = [node EXCEPT !.waiting[loop.dest] = w]
      BY <1>1, <1>4 DEF NodeInv, States
    <2> HIDE DEF w
    <2> QED
      BY <1>3, <2>1, <2>2
  <1> QED
    BY <1>2, <1>4 DEF AskForRepair

-----------------------------------------------------------------------------
(* SIGALRM.                                                                *)

(* What a timer makes of the table leaves what the main loop relies on.    *)
LEMMA TimerKept ==
    ASSUME NodeInv, Kept(node, node', missed, cut), loop' = loop,
           missed' = missed \/ StillMissed, cut' = cut \/ StillCut
    PROVE  NodeInv' /\ Quieter(node, node')
  <1>1. /\ missed' \subseteq Dests /\ cut' \subseteq Dests
        /\ \A d \in missed : node'.rtable[d].flags = "ACTIVE" => d \in missed'
        /\ \A d \in cut : node'.rtable[d].flags = "BROKEN" => d \in cut'
    BY DEF NodeInv, StillMissed, StillCut
  <1>2. /\ node' \in States /\ Inv(node', missed, cut)
        /\ \A x \in Dests : /\ node'.rtable[x].flags = "ACTIVE" => Alike(node.rtable[x], node'.rtable[x])
                            /\ node'.rtable[x].flags = "BROKEN" => node.rtable[x].flags = "BROKEN"
    BY DEF Kept
  <1>3. Inv(node', missed', cut')
    BY <1>1, <1>2, Narrowed
  <1>4. Held(node', loop', cut')
    <2>1. loop.at \in {"found", "repaired", "replace", "invalid"} => loop.dest \in Dests
      BY DEF NodeInv, Placed
    <2> QED
      BY <1>1, <1>2, <2>1 DEF NodeInv, Held, Alike, Fresher
  <1> QED
    BY <1>1, <1>2, <1>3, <1>4 DEF NodeInv, Quieter

LEMMA TimerCalm ==
    ASSUME NodeInv, Kept(node, node', missed, cut), Along(node, node'), loop' = loop,
           missed' = missed \/ StillMissed, cut' = cut \/ StillCut,
           Safe(node) => Safe(node')
    PROVE  Calm
  BY TimerKept DEF Calm

LEMMA UntouchedSafe ==
    ASSUME NodeInv, node' \in States, Untouched(node, node')
    PROVE  Safe(node) => Safe(node')
  BY UntouchedServed, ServedSafe DEF NodeInv, Safe

LEMMA ResendStep ==
    ASSUME NodeInv, NEW d \in Dests, ResendRREQ(d)
    PROVE  Calm
  <1>1. Kept(node, node', missed, cut) /\ Along(node, node')
    BY ResentKeeps DEF ResendRREQ, NodeInv
  <1>2. Safe(node) => Safe(node')
    BY ResentSafe DEF ResendRREQ, NodeInv
  <1> QED
    BY <1>1, <1>2, TimerCalm DEF ResendRREQ

(* A repair of d that was still running is given up.                       *)
Ends(d) ==
    /\ node'.search[d]["LR"] < node.search[d]["LR"]
    /\ \A x \in Dests \ {d} : node'.rtable[x] = node.rtable[x]

LEMMA RepairFailedStep ==
    ASSUME NodeInv, NEW d \in Dests, RepairFailed(d)
    PROVE  NodeInv' /\ Quieter(node, node') /\ (Safe(node) => Safe(node')) /\ Ends(d)
  <1>1. Kept(node, node', missed, cut) /\ Ends(d)
    BY GivenUpKeeps DEF RepairFailed, NodeInv, Ends
  <1>2. Safe(node) => Safe(node')
    BY GivenUpSafe DEF RepairFailed, NodeInv
  <1> QED
    BY <1>1, <1>2, TimerKept DEF RepairFailed

(* What has broken under the main loop is cut.                             *)
LEMMA NeighborTimeoutStep ==
    ASSUME NodeInv, NEW p \in Dests, NEW read \in Dests \cup {NoNode}, NeighborTimeout(p, read)
    PROVE  Calm
  <1>1. node' \in States /\ Inv(node', missed, cut) /\ Quieter(node, node') /\ Along(node, node')
    BY TimedOutKeeps DEF NeighborTimeout, NodeInv
  <1>2. Safe(node) => Safe(node')
    BY <1>1, OthersUntouched, UntouchedSafe DEF NeighborTimeout, NodeInv
  <1>3. /\ \A d \in missed : node'.rtable[d].flags = "ACTIVE" => d \in missed'
        /\ \A d \in cut : d \notin node'.repair => d \in cut'
        /\ \A d \in Ending : node'.rtable[d].flags = "BROKEN" => d \in cut'
        /\ missed' \subseteq Dests /\ loop' = loop
    BY DEF NeighborTimeout, StillMissed, NodeInv
  <1>4. cut' \subseteq Dests
    BY DEF NeighborTimeout, Ending, NodeInv, Placed
  <1>5. Inv(node', missed', cut')
    BY <1>1, <1>3, Narrowed
  <1>6. Held(node', loop', cut')
    <2>1. loop.at \in {"found", "repaired", "replace", "invalid"} => loop.dest \in Dests
      BY DEF NodeInv, Placed
    <2>2. loop.at \in {"found", "repaired", "replace"} => loop.dest \in Ending
      BY DEF Ending
    <2> QED
      BY <1>1, <1>3, <2>1, <2>2 DEF NodeInv, Held, Quieter, Alike, Fresher
  <1>7. NodeInv'
    BY <1>1, <1>3, <1>4, <1>5, <1>6 DEF NodeInv
  <1> QED
    BY <1>1, <1>2, <1>7 DEF Calm

LEMMA RefreshStep ==
    ASSUME NodeInv, NEW busy \in SUBSET Dests, Refresh(busy)
    PROVE  Calm
  <1>1. Kept(node, node', missed, cut) /\ Along(node, node')
    BY RefreshedKeeps DEF Refresh, NodeInv
  <1>2. Safe(node) => Safe(node')
    BY <1>1, RefreshedUntouched, UntouchedSafe DEF Refresh, NodeInv, Kept
  <1> QED
    BY <1>1, <1>2, TimerCalm DEF Refresh

LEMMA RebootHandlerStep ==
    ASSUME NodeInv, RebootHandler
    PROVE  Calm
  <1>1. Kept(node, node', missed, cut) /\ Along(node, node')
    BY RebootedKeeps DEF RebootHandler, NodeInv
  <1>2. Untouched(node, node')
    BY DEF RebootHandler, AddAllValidRoutes, Untouched, NodeInv, States
  <1>3. Safe(node) => Safe(node')
    BY <1>1, <1>2, UntouchedSafe DEF Kept
  <1> QED
    BY <1>1, <1>3, TimerCalm DEF RebootHandler

LEMMA ExpireStep ==
    ASSUME NodeInv, NEW d \in Dests, Expire(d)
    PROVE  Calm
  <1>1. Kept(node, node', missed, cut) /\ Along(node, node')
    BY ExpiredKeeps DEF Expire, NodeInv
  <1>2. Safe(node) => Safe(node')
    BY <1>1, OthersUntouched, UntouchedSafe DEF Expire, NodeInv, Kept
  <1> QED
    BY <1>1, <1>2, TimerCalm DEF Expire

-----------------------------------------------------------------------------
(* Steps and theorems.                                                     *)
LEMMA InitInv == Init => NodeInv /\ Safe(node)
  <1> SUFFICES ASSUME Init
               PROVE  NodeInv /\ Safe(node)
    OBVIOUS
  <1> DEFINE r == [d \in Dests |-> NoRoute]
             k == [d \in Dests |-> NoNode]
             c == [d \in Dests |-> [RREQ |-> 0, LR |-> 0]]
             w == [d \in Dests |-> "no"]
  <1>1. /\ NoRoute \in Entry /\ NoRoute.flags = "NONE" /\ \A d \in Dests : Sane(NoRoute, d)
    BY Sizes DEF NoRoute, Entry, Sane, Flags
  <1>2. /\ r \in [Dests -> Entry] /\ k \in [Dests -> Dests \cup {NoNode}]
        /\ c \in [Dests -> Counts] /\ w \in [Dests -> {"no", "search", "repair"}]
        /\ <<>> \in Seq(Pending)
    BY <1>1, Sizes DEF Counts
  <1>3. \A d \in Dests : r[d] = NoRoute /\ c[d]["RREQ"] = 0 /\ w[d] = "no"
    OBVIOUS
  <1> HIDE DEF r, k, c, w
  <1>4. node = [rtable |-> r, kroute |-> k, repair |-> {}, watch |-> {}, rreqL |-> <<>>,
                search |-> c, duringReboot |-> TRUE, down |-> "up", waiting |-> w]
    BY DEF Init, Started, r, k, c, w
  <1>5. /\ node \in States /\ node.rtable = r /\ node.duringReboot /\ node.search = c
        /\ node.waiting = w /\ node.rreqL = <<>>
    BY <1>2, <1>4 DEF States
  <1>6. Inv(node, missed, cut)
    BY <1>1, <1>3, <1>5 DEF Inv, Typed, Repaired, Followed
  <1>7. NodeInv
    BY <1>5, <1>6, Idling DEF Init, NodeInv
  <1>8. \A d \in Dests : Cardinality(Entries(<<>>, d)) = 0
    <2>1. \A d \in Dests : Entries(<<>>, d) = {}
      BY DEF Entries
    <2> QED
      BY <2>1, FS_EmptySet
  <1>9. Safe(node)
    BY <1>3, <1>5, <1>8 DEF Safe, Backed, Owed
  <1> QED
    BY <1>7, <1>9

(* Every step is one of the main loop that a neighbour's message explains, *)
(* or leaves the active routes as they are or ends them with those behind, *)
(* or gives up a repair.                                                   *)
LEMMA StepKinds ==
    ASSUME NodeInv, Next
    PROVE  \/ \E p \in Dests : Message(p)
           \/ Calm
           \/ \E d \in Dests : /\ NodeInv' /\ Quieter(node, node') /\ Ends(d)
                               /\ Safe(node) => Safe(node')
  <1>1. CASE Timers
    <2>1. ASSUME NEW busy \in SUBSET Dests, Refresh(busy)
          PROVE  Calm
      BY <2>1, RefreshStep
    <2>2. ASSUME NEW d \in Dests, ResendRREQ(d)
          PROVE  Calm
      BY <2>2, ResendStep
    <2>3. ASSUME NEW d \in Dests, RepairFailed(d)
          PROVE  /\ NodeInv' /\ Quieter(node, node') /\ Ends(d)
                 /\ Safe(node) => Safe(node')
      BY <2>3, RepairFailedStep
    <2>4. ASSUME NEW d \in Dests, NEW read \in Dests \cup {NoNode}, NeighborTimeout(d, read)
          PROVE  Calm
      BY <2>4, NeighborTimeoutStep
    <2> QED
      BY <1>1, <2>1, <2>2, <2>3, <2>4, RebootHandlerStep DEF Timers
  <1>2. CASE Messages
    <2>1. ASSUME NEW p \in Dests, NEW seq \in Seqs, NEW more \in BOOLEAN,
                 NeighborUpdate(p, seq, more)
          PROVE  Message(p)
      BY <2>1, NeighborUpdateStep
    <2>2. ASSUME NEW d \in Dests, NEW seq \in Seqs, NEW hops \in 2..MaxHops + 1,
                 RouteUpdate(d, seq, hops)
          PROVE  (\E p \in Dests : Message(p)) \/ Calm
      BY <2>2, RouteUpdateStep
    <2>3. ASSUME NEW d \in Dests, NEW seq \in Seqs, HearOf(d, seq)
          PROVE  \E p \in Dests : Message(p)
      BY <2>3, HearOfStep
    <2>4. ASSUME NEW seq \in Seqs, NEW more \in BOOLEAN, RebootNeighborUpdate(seq, more)
          PROVE  \E p \in Dests : Message(p)
      BY <2>4, RebootNeighborStep
    <2>5. ASSUME NEW p \in Dests, EnterReboot(p)
          PROVE  Calm
      BY <2>5, EnterRebootStep
    <2>6. ASSUME NEW hello \in BOOLEAN, TestTimer(hello)
          PROVE  Calm
      BY <2>6, TestTimerStep
    <2>7. ASSUME NEW one \in BOOLEAN, Invalidate(one)
          PROVE  \E p \in Dests : Message(p)
      BY <2>7, InvalidateStep
    <2>8. CASE ReplaceActive \/ Renumber
      BY <2>8, ReplaceActiveStep, RenumberStep
    <2>9. CASE RouteFound \/ RepairEnded \/ SetTimer \/ SeenBefore \/ LoseRoute
      BY <2>9, RouteFoundStep, RepairEndedStep, SetTimerStep, SeenBeforeStep, LoseRouteStep
    <2> QED
      BY <1>2, <2>1, <2>2, <2>3, <2>4, <2>5, <2>6, <2>7, <2>8, <2>9 DEF Messages
  <1>3. CASE Requests
    BY <1>3, ProcessAslStep, AskStep, AskForRepairStep DEF Requests
  <1>4. ASSUME NEW d \in Dests, Expire(d)
        PROVE  Calm
    BY <1>4, ExpireStep
  <1> QED
    BY <1>1, <1>2, <1>3, <1>4 DEF Next

LEMMA StepInv == NodeInv /\ [Next]_vars => NodeInv'
  <1> SUFFICES ASSUME NodeInv, [Next]_vars
               PROVE  NodeInv'
    OBVIOUS
  <1>1. CASE Next
    BY <1>1, StepKinds DEF Message, Calm
  <1>2. CASE UNCHANGED vars
    BY <1>2 DEF vars, NodeInv
  <1> QED
    BY <1>1, <1>2

LEMMA Always == Spec => []NodeInv
  BY InitInv, StepInv, PTL DEF Spec

(* The state of the node has its type, whatever it hears.                  *)
THEOREM TypeCorrect == Spec => []TypeOK
  <1>1. NodeInv => TypeOK
    <2> SUFFICES ASSUME NodeInv
                 PROVE  TypeOK
      OBVIOUS
    <2>1. ASSUME NEW d \in Dests
          PROVE  LET e == node.rtable[d]
                 IN /\ e.flags \in {"NONE", "ACTIVE", "BROKEN", "INVALID"}
                    /\ e.hops \in 0..MaxHops + 1 \cup {Infinity}
                    /\ e.last \in 0..MaxHops + 1 \cup {Infinity}
                    /\ e.next \in Dests \cup {NoNode} /\ e.seq \in Seqs
                    /\ (e.flags = "NONE") = (e = NoRoute)
      BY DEF NodeInv, Inv, Typed, States, Entry, Flags, Hops, Sane
    <2>2. ASSUME NEW d \in Dests
          PROVE  /\ node.kroute[d] \in Dests \cup {NoNode}
                 /\ node.waiting[d] \in {"no", "search", "repair"}
                 /\ node.search[d]["RREQ"] \in Nat
                 /\ node.search[d]["LR"] \in Nat
      BY DEF NodeInv, States, Counts
    <2>3. /\ node.repair \subseteq Dests /\ node.watch \subseteq Dests
          /\ node.down \in {"up", "rerr", "refresh"}
      BY DEF NodeInv, States
    <2>4. ASSUME NEW j \in DOMAIN node.rreqL
          PROVE  /\ node.rreqL[j].dest \in Dests /\ node.rreqL[j].retries \in 0..2
                 /\ node.rreqL[j].ttl \in Nat
      <3>1. node.rreqL[j] \in Pending
        BY DEF NodeInv, States
      <3> QED
        BY <3>1 DEF Pending
    <2>5. /\ missed \subseteq Dests /\ cut \subseteq Dests
          /\ loop.from \in Dests \cup {NoNode} /\ loop.dest \in Dests \cup {NoNode}
          /\ loop.seq \in Seqs /\ loop.hops \in 0..MaxHops + 1
          /\ loop.at \in {"idle", "reboot", "found", "repaired", "timer", "set", "rest", "replace",
                         "heard", "invalid", "ask", "listed"}
      BY DEF NodeInv, Placed, Loops, Places
    <2> QED
      BY <2>1, <2>2, <2>3, <2>4, <2>5 DEF TypeOK
  <1> QED
    BY <1>1, Always, PTL

(* A broken route is on the repair list, unless the main loop cut it off.  *)
THEOREM BrokenStayInRepair == Spec => []BrokenInRepair
  <1>1. NodeInv => BrokenInRepair
    BY DEF NodeInv, Inv, Repaired, BrokenInRepair
  <1> QED
    BY <1>1, Always, PTL

(* The kernel routes as the daemon says, wherever SIGALRM came in, but for *)
(* what an interrupted branch of the reboot time wrote.                    *)
THEOREM KernelAgrees == Spec => []KernelFollows
  <1>1. NodeInv => KernelFollows
    BY DEF NodeInv, Inv, Followed, KernelFollows
  <1> QED
    BY <1>1, Always, PTL

(* No stale or longer offer replaces an active route.                      *)
THEOREM FresherWins == Spec => StaleNeverWins
  <1> DEFINE A == \A d \in Dests :
                     LET e == node.rtable[d]
                         f == node'.rtable[d]
                     IN e.flags = "ACTIVE" /\ f.flags = "ACTIVE" =>
                          \/ f.next = d /\ f.hops = 1
                          \/ f.next = e.next
                          \/ f.seq > e.seq
                          \/ f.seq = e.seq /\ f.hops < e.hops
  <1>1. NodeInv /\ [Next]_vars => [A]_vars
    <2> SUFFICES ASSUME NodeInv, Next, NEW d \in Dests,
                        node.rtable[d].flags = "ACTIVE", node'.rtable[d].flags = "ACTIVE"
                 PROVE  LET e == node.rtable[d]
                            f == node'.rtable[d]
                        IN \/ f.next = d /\ f.hops = 1
                           \/ f.next = e.next
                           \/ f.seq > e.seq
                           \/ f.seq = e.seq /\ f.hops < e.hops
      OBVIOUS
    <2> HIDE DEF A
    <2>1. ASSUME NEW p \in Dests, Message(p)
          PROVE  Offered(node.rtable[d], node'.rtable[d], d, p)
      BY <2>1 DEF Message
    <2>2. CASE Quieter(node, node')
      BY <2>2 DEF Quieter, Alike
    <2> QED
      BY <2>1, <2>2, StepKinds DEF Calm, Offered, Fresher
  <1> HIDE DEF A
  <1>2. Spec => [][A]_vars
    BY <1>1, Always, PTL DEF Spec
  <1> QED
    BY <1>2 DEF StaleNeverWins, A

(* A neighbour takes the routes behind it along.                           *)
THEOREM RoutesEndTogether == Spec => NeighborTakesRoutes
  <1> DEFINE A == \A p, d \in Dests :
                     LET e == node.rtable[p]
                         f == node.rtable[d]
                         led == p # d /\ e.flags = "ACTIVE" /\ e.hops = 1 /\ f.flags = "ACTIVE"
                                /\ f.next = p
                         ended == node'.rtable[p].flags # "ACTIVE"
                         givenUp == node'.search[p]["LR"] < node.search[p]["LR"]
                     IN led /\ ended /\ ~givenUp => node'.rtable[d].flags # "ACTIVE"
  <1>1. NodeInv /\ [Next]_vars => [A]_vars
    <2> SUFFICES ASSUME NodeInv, Next, NEW p \in Dests, NEW d \in Dests, Leads(node, p, d),
                        node'.rtable[p].flags # "ACTIVE",
                        ~(node'.search[p]["LR"] < node.search[p]["LR"])
                 PROVE  node'.rtable[d].flags # "ACTIVE"
      BY DEF Leads
    <2> HIDE DEF A
    <2>1. node.rtable[p].flags = "ACTIVE" /\ node.rtable[p].next = p
      BY DEF NodeInv, Inv, Typed, Sane, Leads
    <2>2. ASSUME NEW q \in Dests, Message(q)
          PROVE  FALSE
      BY <2>1, <2>2 DEF Message, Offered
    <2>3. CASE Along(node, node')
      BY <2>3 DEF Along
    <2>4. ASSUME NEW x \in Dests, Ends(x)
          PROVE  FALSE
      BY <2>1, <2>4 DEF Ends
    <2> QED
      BY <2>2, <2>3, <2>4, StepKinds DEF Calm
  <1> HIDE DEF A
  <1>2. Spec => [][A]_vars
    BY <1>1, Always, PTL DEF Spec
  <1> QED
    BY <1>2 DEF NeighborTakesRoutes, A

-----------------------------------------------------------------------------
(* Searches.                                                               *)
SearchInv == NodeInv /\ Safe(node)

LEMMA SearchAlways == Spec => []SearchInv
  <1>1. Init => SearchInv
    BY InitInv DEF SearchInv
  <1>2. SearchInv /\ [Next]_vars => SearchInv'
    <2> SUFFICES ASSUME SearchInv, [Next]_vars
                 PROVE  SearchInv'
      OBVIOUS
    <2>1. NodeInv'
      BY StepInv DEF SearchInv
    <2>2. CASE Next
      <3>1. ASSUME NEW p \in Dests, Message(p)
            PROVE  Safe(node')
        BY <2>1, <3>1, ServedSafe DEF Message, SearchInv, NodeInv, Safe
      <3> QED
        BY <2>1, <2>2, <3>1, StepKinds DEF SearchInv, Calm
    <2>3. CASE UNCHANGED vars
      BY <2>1, <2>3 DEF vars, SearchInv
    <2> QED
      BY <2>2, <2>3
  <1> QED
    BY <1>1, <1>2, PTL DEF Spec

(* Timers and entries are not tied to each other, and yet no timer is      *)
(* without an entry.                                                       *)
THEOREM EveryTimerHasEntry == Spec => []EntryForTimer
  <1>1. SearchInv => EntryForTimer
    BY DEF SearchInv, Safe, Backed, Entries, EntryForTimer
  <1> QED
    BY <1>1, SearchAlways, PTL

(* No search is left without a timer that answers it.                      *)
THEOREM EverySearchHasTimer == Spec => []SearchAnswers
  <1>1. SearchInv => SearchAnswers
    BY DEF SearchInv, Safe, Owed, SearchAnswers
  <1> QED
    BY <1>1, SearchAlways, PTL
=============================================================================
