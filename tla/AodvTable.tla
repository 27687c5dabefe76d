----------------------------- MODULE AodvTable ------------------------------
(***************************************************************************)
(* The state that the AODV daemon of one node keeps (its routing table,    *)
(* the routes it has put into the kernel, the searches that run, the       *)
(* answers it owes to the Local Agent), and what one update, one operation *)
(* on a list or one timer makes of it.  Which of them a handler does, and  *)
(* in which order, is in AodvNode and AodvNetwork.                         *)
(*                                                                         *)
(* A lifetime is live or over.  What only decides which messages go out is *)
(* left aside: the node's own sequence number and RREQ ids, precursors,    *)
(* time to live of packets.  refreshEntries goes through the table in the  *)
(* order of the map, that of the addresses.                                *)
(***************************************************************************)
EXTENDS Integers, Sequences, SequencesExt, FiniteSets

CONSTANTS
    Order,      (* the addresses of the other nodes, in order               *)
    MaxHops,    (* bound: hops a message may have made                      *)
    MaxSeq      (* bound: sequence numbers do not grow beyond this          *)

Dests == {Order[i] : i \in DOMAIN Order}
Seqs == 0..MaxSeq
Infinity == 60
NoNode == "none"

ASSUME TableAssumption ==
    /\ Order \in Seq(Dests) /\ NoNode \notin Dests
    /\ MaxHops \in 1..Infinity - 2 /\ MaxSeq \in Nat

(***************************************************************************)
(* The state s of a node.                                                  *)
(*                                                                         *)
(* s.rtable        the routing table; an address without entry has NoRoute *)
(* s.kroute        the gateway of its route in the kernel, or none         *)
(* s.repair        the local repair list                                   *)
(* s.watch         neighbours with an ACTIVE_ROUTE timer                   *)
(* s.search        how many RREQ and LR timers run                         *)
(* s.rreqL         pending RREQs, the oldest first                         *)
(* s.duringReboot                                                          *)
(* s.down          what ended the daemon, or "up"                          *)
(* s.waiting       ghost: whether a request of the LA waits for an answer, *)
(*                 for a search or because a repair is said to be going on *)
(***************************************************************************)
NoRoute == [flags |-> "NONE", hops |-> 0, last |-> 0, next |-> NoNode,
            seq |-> 0, live |-> FALSE]

(* The daemon when it has started.                                         *)
Started(reboot) ==
    [rtable |-> [d \in Dests |-> NoRoute],
     kroute |-> [d \in Dests |-> NoNode],
     repair |-> {}, watch |-> {}, rreqL |-> <<>>,
     search |-> [d \in Dests |-> [RREQ |-> 0, LR |-> 0]],
     duringReboot |-> reboot, down |-> "up",
     waiting |-> [d \in Dests |-> "no"]]

Next1(q) == IF q < MaxSeq THEN q + 1 ELSE q

-----------------------------------------------------------------------------
(* Updates of the routing table.                                           *)

(* Seeded fault: a new route takes over the larger of the two numbers.     *)
RouteKeepsNumber(e, p, seq, hops) ==
    [e EXCEPT !.flags = "ACTIVE", !.hops = hops, !.next = p,
              !.seq = IF seq > @ THEN seq ELSE @, !.live = TRUE]

Route(e, p, seq, hops) ==
    [e EXCEPT !.flags = "ACTIVE", !.hops = hops, !.next = p, !.seq = seq,
              !.live = TRUE]

Invalid(e) == [e EXCEPT !.flags = "INVALID", !.hops = Infinity, !.live = TRUE]

(* findActiveRoute *)
Active(e) == e.flags = "ACTIVE" /\ e.live

(* Seeded fault: a message as old as the entry replaces it.                *)
FresherOrSame(e, seq, hops) ==
    e.flags # "ACTIVE" \/ seq # e.seq \/ hops < e.hops

(* Seeded fault: hops do not count.                                        *)
FresherOrEqual(e, seq, hops) == e.flags # "ACTIVE" \/ seq >= e.seq

(* What a message must be to change the entry.                             *)
Fresher(e, seq, hops) ==
    e.flags # "ACTIVE" \/ seq > e.seq \/ (seq = e.seq /\ hops < e.hops)

(* FO_add_a_route: NLM_F_CREATE and NLM_F_REPLACE with one metric.         *)
ReplaceRoute(kroute, d, gateway) == [kroute EXCEPT ![d] = gateway]

(* add_kroute; del_kroute, called before, fails: its socket is never made. *)
AddKroute(s, d) == [s EXCEPT !.kroute = ReplaceRoute(@, d, s.rtable[d].next)]

(* deleteFromList of the local repair list                                 *)
OffRepairList(s, d) == [s EXCEPT !.repair = @ \ {d}]

(* Seeded fault: the kernel is told of shorter routes only.                *)
MovedIfShorter(e, p, hops) == e.flags # "ACTIVE" \/ hops < e.hops

(* Whether the kernel gets the new route as well.                          *)
Moved(e, p, hops) == e.flags # "ACTIVE" \/ hops < e.hops \/ e.next # p

(* neighborUpdate: the entry of the neighbour, and its route in the kernel *)
(* unless the entry was active.                                            *)
NeighborEntry(s, p, seq) ==
    LET t == [s EXCEPT !.rtable[p] = Route(@, p, seq, 1)]
    IN IF s.rtable[p].flags = "ACTIVE" THEN t ELSE AddKroute(t, p)

(* rebootNeighborUpdate *)
RebootEntry(s, p, seq) == [s EXCEPT !.rtable[p] = Route(@, p, seq, 1)]

(* reverseRouteUpdate and forwardRouteUpdate, of an entry not active.      *)
NewEntry(s, d, p, seq, hops) ==
    AddKroute([s EXCEPT !.rtable[d] = Route(@, p, seq, hops)], d)

(* The same of an active entry: the flags are not written again.           *)
ReplaceEntry(s, d, p, seq, hops, add) ==
    LET t == [s EXCEPT !.rtable[d] = [Route(@, p, seq, hops) EXCEPT !.flags = s.rtable[d].flags]]
    IN IF add THEN AddKroute(t, d) ELSE t

Answer(s, d) == [s EXCEPT !.waiting[d] = "no"]

(* The timers of a search or of a repair.                                  *)
Kinds(s, d) == {k \in {"RREQ", "LR"} : s.search[d][k] > 0}

(* removeRREQTimer: the first timer of the destination, of either kind.    *)
EndTimer(s, d, k) == [s EXCEPT !.search[d][k] = @ - 1]

-----------------------------------------------------------------------------
(* RERRs.                                                                  *)

(* updateValidEntries and createNewRERR: the entry is invalid if p is the  *)
(* next hop.                                                               *)
Lost(s, d, p) ==
    LET e == s.rtable[d]
    IN e.flags # "NONE" /\ e.hops # Infinity /\ e.next = p

MakeInvalid(s, d, seq) ==
    [s EXCEPT !.rtable[d] = [Invalid(@) EXCEPT !.last = s.rtable[d].hops, !.seq = seq]]

(* Seeded fault: the entry need not be invalid, nor exist.                 *)
HeardAlways(s, d, seq) ==
    [s EXCEPT !.rtable[d].seq = IF seq > @ THEN seq ELSE @]

(* updateInvalidEntries *)
Heard(s, d, seq) ==
    [s EXCEPT !.rtable[d].seq =
        IF s.rtable[d].hops = Infinity /\ seq > @ THEN seq ELSE @]

(* processRERR, for a message with the N flag about a route of the node.   *)
TakeNumber(s, d, p, seq) ==
    [s EXCEPT !.rtable[d].seq = IF Active(s.rtable[d]) /\ s.rtable[d].next = p THEN seq ELSE @]

-----------------------------------------------------------------------------
(* Requests of the LA.                                                     *)

(* getTTL and sendRREQ: the ring starts behind the known distance.         *)
FirstTTL(e) ==
    LET known == IF e.hops # Infinity /\ e.live THEN e.hops ELSE e.last
    IN IF known = 0 THEN 1 ELSE known + 2

SendRREQ(s, d) ==
    LET live == [s EXCEPT !.rtable[d].live = @ \/ s.rtable[d].flags # "NONE"]
    IN [live EXCEPT !.rreqL = Append(@, [dest |-> d, retries |-> 0,
                                         ttl |-> FirstTTL(live.rtable[d])]),
                    !.search[d]["RREQ"] = @ + 1,
                    !.waiting[d] = "search"]

(* doLocalRepair *)
LocalRepair(s, d) == [s EXCEPT !.search[d]["LR"] = @ + 1, !.waiting[d] = "search"]

-----------------------------------------------------------------------------
(* Timers.                                                                 *)

(* Seeded fault: at the network's diameter a retry is not counted.         *)
NextTryUncounted(e) ==
    IF e.ttl = 35 THEN e
    ELSE IF e.ttl + 2 < 7 THEN [e EXCEPT !.ttl = @ + 2]
    ELSE [e EXCEPT !.ttl = 35, !.retries = @ + 1]

(* The ring widens up to TTL_THRESHOLD and then to NET_DIAMETER.           *)
NextTry(e) ==
    IF e.ttl = 35 THEN [e EXCEPT !.retries = @ + 1]
    ELSE IF e.ttl + 2 < 7 THEN [e EXCEPT !.ttl = @ + 2]
    ELSE [e EXCEPT !.ttl = 35, !.retries = @ + 1]

(* Seeded fault: all entries of the destination are deleted.               *)
DeleteAll(q, d) == SelectSeq(q, LAMBDA e : e.dest # d)

(* deleteFromList of the pending RREQs: the first entry of d.              *)
DeleteFromList(q, d) ==
    LET i == CHOOSE j \in DOMAIN q : q[j].dest = d /\ \A k \in 1..j - 1 : q[k].dest # d
    IN RemoveAt(q, i)

(* The first entry of d, tried again.                                      *)
Retried(q, d) ==
    LET i == CHOOSE j \in DOMAIN q : q[j].dest = d /\ \A k \in 1..j - 1 : q[k].dest # d
    IN [q EXCEPT ![i] = NextTry(@)]

(* resendRREQ: another try, or IP_NOFOUND.                                 *)
Resent(s, d) ==
    IF \A j \in DOMAIN s.rreqL : s.rreqL[j].dest # d
    THEN [s EXCEPT !.search[d]["RREQ"] = @ - 1]
    ELSE LET q == Retried(s.rreqL, d)
             last == \E j \in DOMAIN q : q[j].dest = d /\ q[j].retries > 2
         IN IF last
            THEN [Answer(s, d) EXCEPT !.search[d]["RREQ"] = @ - 1,
                                      !.rreqL = DeleteFromList(q, d)]
            ELSE [s EXCEPT !.rreqL = q]

(* Seeded fault: the handler does not answer the LA.                       *)
GivenUpSilently(s, d) ==
    [OffRepairList(s, d) EXCEPT
       !.search[d]["LR"] = @ - 1,
       !.rtable[d] = IF @.flags = "NONE" THEN @
                     ELSE [Invalid(@) EXCEPT !.last = s.rtable[d].hops]]

(* Seeded fault: the entry of a repair that is given up stays broken.      *)
GivenUpBroken(s, d) ==
    [OffRepairList(Answer(s, d), d) EXCEPT !.search[d]["LR"] = @ - 1]

(* LR_handler *)
GivenUp(s, d) ==
    [OffRepairList(Answer(s, d), d) EXCEPT
       !.search[d]["LR"] = @ - 1,
       !.rtable[d] = IF @.flags = "NONE" THEN @
                     ELSE [Invalid(@) EXCEPT !.last = s.rtable[d].hops]]

Broken(e) ==
    [e EXCEPT !.flags = "BROKEN", !.live = TRUE, !.last = e.hops, !.seq = Next1(@)]

BrokenNeighbor(e) ==
    CASE e.flags = "NONE" -> e
      [] e.flags # "NONE" /\ e.hops = Infinity ->
            [e EXCEPT !.flags = "BROKEN", !.live = TRUE, !.hops = e.last]
      [] OTHER -> Broken(e)

(* Seeded fault: the list gets the neighbour alone.                        *)
RepairNeighbor(p, behind) == {p}

(* The destinations that neighbor_timeout_handler puts on the list.        *)
RepairList(p, behind) == {p} \cup behind

(* neighbor_timeout_handler; if p has no entry, the address that it reads  *)
(* behind the end of the map may be that of any node.                      *)
TimedOut(s, p, read) ==
    LET behind == {d \in Dests \ {p} : s.rtable[d].flags = "ACTIVE"
                                       /\ s.rtable[d].next = read}
    IN [s EXCEPT
          !.watch = @ \ {p},
          !.repair = @ \cup RepairList(p, behind),
          !.rtable = [d \in Dests |-> IF d = p THEN BrokenNeighbor(@[d])
                                      ELSE IF d \in behind THEN Broken(@[d])
                                      ELSE @[d]]]

(* Seeded fault: the routes behind an expired neighbour stay.              *)
RefreshEntryAlone(s, d, busy) ==
    LET e == s.rtable[d]
        expired(f) == [Invalid(f) EXCEPT
                         !.last = IF f.flags = "ACTIVE" THEN f.hops ELSE @,
                         !.seq = IF f.flags = "ACTIVE" THEN Next1(@) ELSE @]
    IN CASE s.down # "up" \/ e.flags = "NONE" \/ e.live -> s
         [] OTHER ->
            IF e.hops = Infinity THEN [s EXCEPT !.rtable[d] = NoRoute]
            ELSE IF d \notin busy
            THEN [s EXCEPT !.rtable = [f \in Dests |->
                     IF f = d THEN expired(@[f]) ELSE @[f]]]
            ELSE IF s.rtable[e.next].flags = "NONE" THEN [s EXCEPT !.down = "refresh"]
            ELSE [s EXCEPT !.rtable[d].live = TRUE, !.rtable[e.next].live = TRUE]

(* refreshEntries, for one entry.  busy are the destinations whose idle    *)
(* time is below ACTIVE_ROUTE_TIMEOUT; that of a neighbour takes in the    *)
(* routes behind it, by another query, so that the set is free.            *)
RefreshEntry(s, d, busy) ==
    LET e == s.rtable[d]
        expired(f) == [Invalid(f) EXCEPT
                         !.last = IF f.flags = "ACTIVE" THEN f.hops ELSE @,
                         !.seq = IF f.flags = "ACTIVE" THEN Next1(@) ELSE @]
        behind(f) == e.hops = 1 /\ f.next = d /\ f.flags # "NONE" /\ f.hops # Infinity
    IN CASE s.down # "up" \/ e.flags = "NONE" \/ e.live -> s
         [] OTHER ->
            IF e.hops = Infinity THEN [s EXCEPT !.rtable[d] = NoRoute]
            ELSE IF d \notin busy
            THEN [s EXCEPT !.rtable = [f \in Dests |->
                     IF f = d \/ behind(@[f]) THEN expired(@[f]) ELSE @[f]]]
            ELSE IF s.rtable[e.next].flags = "NONE" THEN [s EXCEPT !.down = "refresh"]
            ELSE [s EXCEPT !.rtable[d].live = TRUE, !.rtable[e.next].live = TRUE]

(* refreshEntries, up to the i-th entry of the table.                      *)
Rounds(s, busy) ==
    LET round[i \in 0..Len(Order)] ==
          IF i = 0 THEN s ELSE RefreshEntry(round[i - 1], Order[i], busy)
    IN round

Refreshed(s, busy) == Rounds(s, busy)[Len(Order)]

AddAllValidRoutes(s) ==
    [s EXCEPT !.kroute = [d \in Dests |-> IF s.rtable[d].flags = "ACTIVE"
                                          THEN s.rtable[d].next ELSE @[d]]]

(* A lifetime ends.                                                        *)
Expired(s, d) == [s EXCEPT !.rtable[d].live = FALSE]
=============================================================================
