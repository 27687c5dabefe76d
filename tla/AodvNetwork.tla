---------------------------- MODULE AodvNetwork -----------------------------
(***************************************************************************)
(* AODV daemons that exchange messages.  What an update or a timer does to *)
(* the daemon of one node is AodvTable; here is what the node sends for    *)
(* it: its own sequence number and RREQ ids, the list of RREQs it has      *)
(* seen, the precursors of its routes, and the time to live of a packet.   *)
(*                                                                         *)
(* All daemons run and have left their reboot time.  A message goes one    *)
(* link, takes any time and may be overtaken or lost.  A handler is one    *)
(* step: what a timer does that runs in the middle of it is in AodvNode.   *)
(***************************************************************************)
EXTENDS Integers, FiniteSets, FiniteSetsExt

CONSTANTS
    Order,      (* the addresses of the nodes, in order                     *)
    Links,      (* the pairs of nodes that hear each other                  *)
    Requests,   (* what the Local Agents ask for: <<node, destination, the  *)
                (* packet is of the node itself>>                           *)
    Greeters,   (* the nodes that send hello messages                       *)
    Tcp,        (* the packets are TCP: RREQs ask for a gratuitous RREP     *)
    MaxId,      (* bound: RREQs that each node sends                        *)
    MaxFaults,  (* bound: losses, timeouts and expiries                     *)
    MaxHops,    (* bound: hops that a message makes                         *)
    MaxSeq      (* bound: who breaks a route counts no further than this    *)

Nodes == {Order[i] : i \in DOMAIN Order}

VARIABLES
    nodes,      (* the daemons, each with the state of AodvTable            *)
    own,        (* localSeqNum and rreqId of each                           *)
    heard,      (* fw_rreqL: source and id of the RREQs seen                *)
    prec,       (* the precursors of each route                             *)
    net,        (* copies of messages on their way                          *)
    faults,     (* ghost: losses, timeouts and expiries so far              *)
    forgot,     (* ghost: destinations whose number a node has lost         *)
    garbled     (* ghost: an RREP with uninitialised fields went out        *)

Node == INSTANCE AodvTable

None == Node!NoNode

ASSUME NetworkAssumption ==
    /\ Node!TableAssumption
    /\ Links \subseteq SUBSET Nodes /\ \A l \in Links : Cardinality(l) = 2
    /\ Requests \subseteq Nodes \X Nodes \X BOOLEAN /\ \A r \in Requests : r[1] # r[2]
    /\ Greeters \subseteq Nodes /\ Tcp \in BOOLEAN
    /\ MaxId \in [Nodes -> Nat] /\ MaxFaults \in Nat

vars == <<nodes, own, heard, prec, net, faults, forgot, garbled>>

Init ==
    /\ nodes = [n \in Nodes |-> Node!Started(FALSE)]
    /\ own = [n \in Nodes |-> [seq |-> 0, id |-> 0]]
    /\ heard = [n \in Nodes |-> {}]
    /\ prec = [n \in Nodes |-> [d \in Nodes |-> {}]]
    /\ net = {} /\ faults = 0 /\ forgot = {} /\ garbled = FALSE

-----------------------------------------------------------------------------
(* What a handler of the main loop makes of the state s of a node, if no   *)
(* timer comes in.                                                         *)

(* IP_FOUND goes to the LA, and removeRREQTimer removes the first timer of *)
(* the destination; a repair that was running has ended.                   *)
RouteFound(s, d) ==
    LET found == Node!Answer(s, d)
    IN IF Node!Kinds(s, d) = {} THEN {found}
       ELSE {LET ended == Node!EndTimer(found, d, k)
             IN IF k = "LR" THEN Node!OffRepairList(ended, d) ELSE ended : k \in Node!Kinds(s, d)}

(* neighborUpdate *)
NeighborUpdate(s, p, seq, hello) ==
    {[u EXCEPT !.watch = IF hello THEN @ \cup {p} ELSE @] :
     u \in RouteFound(Node!NeighborEntry(s, p, seq), p)}

(* reverseRouteUpdate and forwardRouteUpdate                               *)
RouteUpdate(s, d, p, seq, hops) ==
    LET e == s.rtable[d]
    IN RouteFound(IF ~Node!Fresher(e, seq, hops) THEN s
                  ELSE IF e.flags # "ACTIVE" THEN Node!NewEntry(s, d, p, seq, hops)
                  ELSE Node!ReplaceEntry(s, d, p, seq, hops, Node!Moved(e, p, hops)), d)

(* processRREQ, of an RREQ that has made hops; seen if its id is listed.   *)
AfterRREQ(s, p, src, seq, hops, seen) ==
    UNION {IF seen \/ src = p THEN {t} ELSE RouteUpdate(t, src, p, seq, hops + 1) :
           t \in NeighborUpdate(s, p, IF src = p THEN seq ELSE 0, FALSE)}

(* processRREP; a hello message is one about p itself.                     *)
AfterRREP(s, p, dst, seq, hops, hello) ==
    UNION {IF dst = p THEN {t} ELSE RouteUpdate(t, dst, p, seq, hops + 1) :
           t \in NeighborUpdate(s, p, IF dst = p THEN seq ELSE 0, hello)}

(* processRERR without the N flag: createNewRERR ends the daemon if the    *)
(* route has one precursor.                                                *)
AfterRERR(s, p, d, seq, onePrecursor) ==
    {LET u == Node!Heard(t, d, seq)
         v == IF u.rtable[d].flags = "BROKEN" THEN Node!OffRepairList(u, d) ELSE u
     IN IF ~Node!Lost(u, d, p) THEN u
        ELSE [Node!MakeInvalid(v, d, seq) EXCEPT !.down = IF onePrecursor THEN "rerr" ELSE @] :
     t \in NeighborUpdate(s, p, 0, FALSE)}

(* processRERR with the N flag *)
AfterRepaired(s, p, d, seq) ==
    {Node!TakeNumber(Node!Heard(t, d, seq), d, p, seq) : t \in NeighborUpdate(s, p, 0, FALSE)}

(* process_asl *)
AfterAsl(s, d, local) ==
    IF Node!Active(s.rtable[d]) THEN Node!Answer(s, d)
    ELSE IF local THEN Node!SendRREQ(s, d)
    ELSE IF d \notin s.repair THEN Node!Answer(s, d)
    ELSE IF s.rtable[d].flags = "BROKEN" THEN Node!LocalRepair(s, d)
    ELSE [s EXCEPT !.waiting[d] = IF @ = "no" THEN "repair" ELSE @]

-----------------------------------------------------------------------------
(* What a node sends.  s is its state when it does so.                     *)

Broadcast(n, m) == {[m EXCEPT !.to = x] : x \in {y \in Nodes : {n, y} \in Links}}

Unicast(n, m, to) == {x \in Broadcast(n, m) : x.to = to}

(* get_next_hop *)
NextHop(s, d) == IF Node!Active(s.rtable[d]) THEN s.rtable[d].next ELSE None

(* Seeded fault: a wider ring goes out under the id of the last one.       *)
NewRREQSameId(n, s, d, ttl) ==
    Broadcast(n, [type |-> "RREQ", from |-> n, to |-> None, src |-> n,
                  id |-> IF ttl > 1 THEN own[n].id ELSE own[n].id + 1,
                  sseq |-> own[n].seq + 1,
                  dst |-> d, dseq |-> s.rtable[d].seq, hops |-> 0, ttl |-> ttl])

(* createRREQ and the transmission by sendRREQ, resendRREQ, doLocalRepair. *)
NewRREQ(n, s, d, ttl) ==
    Broadcast(n, [type |-> "RREQ", from |-> n, to |-> None, src |-> n,
                  id |-> own[n].id + 1, sseq |-> own[n].seq + 1,
                  dst |-> d, dseq |-> s.rtable[d].seq, hops |-> 0, ttl |-> ttl])

RREPMessage(n, src, dst, dseq, hops) ==
    [type |-> "RREP", from |-> n, to |-> None, src |-> src, dst |-> dst,
     dseq |-> dseq, hops |-> hops]

(* A RERR as packBuf and createRERR carry it, for one destination.         *)
RERRMessage(n, dst, dseq, N) ==
    [type |-> "RERR", from |-> n, to |-> None, dst |-> dst, dseq |-> dseq, N |-> N]

(* generateRERR *)
RouteError(n, s, d, N, brd) ==
    LET to == IF s.rtable[d].flags = "NONE" THEN {} ELSE prec[n][d]
        m == RERRMessage(n, d, s.rtable[d].seq, N)
    IN IF Cardinality(to) = 1 THEN Unicast(n, m, CHOOSE x \in to : TRUE)
       ELSE IF to # {} \/ brd THEN Broadcast(n, m)
       ELSE {}

(* The RERR at the end of a route update that ended a repair of d.         *)
RepairEnded(n, t, d) ==
    IF /\ t.search[d]["LR"] < nodes[n].search[d]["LR"]
       /\ t.rtable[d].hops > t.rtable[d].last
    THEN RouteError(n, t, d, TRUE, FALSE) ELSE {}

-----------------------------------------------------------------------------
(* processRREQ *)

(* findValidRoute does not look at the lifetime.                           *)
ValidRoute(s, d, seq) == s.rtable[d].flags = "ACTIVE" /\ s.rtable[d].seq >= seq

(* createRREP, to the way back of the RREQ.                                *)
Reply(n, t, m, ownSeq) ==
    LET e == t.rtable[m.dst]
        reply == IF m.dst = n THEN RREPMessage(n, m.src, m.dst, ownSeq, 0)
                 ELSE RREPMessage(n, m.src, m.dst, e.seq, e.hops)
    IN Unicast(n, reply, NextHop(t, m.src))

(* createGRREP, to the destination, about the source of the RREQ.          *)
GratuitousReply(n, t, m) ==
    IF Tcp /\ m.dst # n
    THEN Unicast(n, RREPMessage(n, m.dst, m.src, m.sseq, t.rtable[m.src].hops),
                 NextHop(t, m.dst))
    ELSE {}

(* Whether createRREP or createGRREP finds no live route to describe.      *)
Unset(n, t, m) ==
    /\ m.dst # n
    /\ \/ ~Node!Active(t.rtable[m.dst]) /\ NextHop(t, m.src) # None
       \/ ~Node!Active(t.rtable[m.src]) /\ NextHop(t, m.dst) # None /\ Tcp

(* addToPrecursor; p are the precursors of the routes of one node.         *)
AddToPrecursor(p, d, precur) == [p EXCEPT ![d] = @ \cup {precur}]

AddPrecursors(p, t, m) ==
    LET q == AddToPrecursor(p, m.dst, m.from)
    IN IF ~Node!Active(t.rtable[m.dst]) THEN p
       ELSE IF ~Node!Active(t.rtable[m.src]) THEN q
       ELSE AddToPrecursor(q, m.src, t.rtable[m.dst].next)

(* FWD_RREQ *)
Forward(n, t, m) ==
    IF m.ttl > 1
    THEN Broadcast(n, [m EXCEPT !.from = n, !.hops = @ + 1, !.ttl = @ - 1,
                                !.dseq = Max({@, t.rtable[m.dst].seq})])
    ELSE {}

(* inList of fw_rreqL *)
Seen(n, m) == <<m.src, m.id>> \in heard[n]

RecvRREQ(n, m) ==
    /\ m.type = "RREQ"
    /\ IF m.src = n
       THEN /\ net' = net \ {m}
            /\ UNCHANGED <<nodes, own, heard, prec, garbled>>
       ELSE LET seen == Seen(n, m)
                ownSeq == Max({own[n].seq, m.dseq})
            IN \E t \in AfterRREQ(nodes[n], m.from, m.src, m.sseq, m.hops, seen) :
               LET answer == m.dst = n \/ ValidRoute(t, m.dst, m.dseq)
                   ended == IF seen \/ m.src = m.from THEN {} ELSE RepairEnded(n, t, m.src)
               IN /\ nodes' = [nodes EXCEPT ![n] = t]
                  /\ heard' = [heard EXCEPT ![n] = @ \cup {<<m.src, m.id>>}]
                  /\ own' = IF seen \/ m.dst # n THEN own
                            ELSE [own EXCEPT ![n].seq = ownSeq]
                  /\ prec' = IF seen \/ ~answer \/ m.dst = n THEN prec
                             ELSE [prec EXCEPT ![n] = AddPrecursors(@, t, m)]
                  /\ garbled' = (garbled \/ (~seen /\ answer /\ Unset(n, t, m)))
                  /\ net' = (net \ {m}) \cup ended \cup
                            (IF seen THEN {}
                             ELSE IF answer
                             THEN Reply(n, t, m, ownSeq) \cup GratuitousReply(n, t, m)
                             ELSE Forward(n, t, m))

(* recvRREP: the way to the source of the RREQ, if the RREP is to be       *)
(* forwarded; src is None in a hello message.                              *)
Back(n, t, m) == IF m.src \in {n, None} THEN None ELSE NextHop(t, m.src)

(* processRREP *)
RecvRREP(n, m) ==
    /\ m.type = "RREP"
    /\ \E t \in AfterRREP(nodes[n], m.from, m.dst, m.dseq, m.hops, m.src = None) :
       LET back == Back(n, t, m)
           ended == IF m.dst = m.from THEN {} ELSE RepairEnded(n, t, m.dst)
       IN /\ nodes' = [nodes EXCEPT ![n] = t]
          /\ prec' = IF back # None /\ Node!Active(t.rtable[m.dst])
                     THEN [prec EXCEPT ![n] = AddToPrecursor(@, m.dst, back)] ELSE prec
          /\ net' = (net \ {m}) \cup ended \cup
                    Unicast(n, [m EXCEPT !.from = n, !.hops = @ + 1], back)
    /\ UNCHANGED <<own, heard, garbled>>

(* processRERR: a route with one precursor ends the daemon, and for one    *)
(* with more the new RERR goes to an address that was never set.           *)
RecvRERR(n, m) ==
    /\ m.type = "RERR"
    /\ IF m.N
       THEN \E t \in AfterRepaired(nodes[n], m.from, m.dst, m.dseq) :
               LET e == t.rtable[m.dst]
                   mine == Node!Active(e) /\ e.next = m.from
               IN /\ nodes' = [nodes EXCEPT ![n] = t]
                  /\ net' = (net \ {m}) \cup (IF mine THEN RouteError(n, t, m.dst, TRUE, FALSE)
                                              ELSE {})
       ELSE /\ \E t \in AfterRERR(nodes[n], m.from, m.dst, m.dseq,
                                       Cardinality(prec[n][m.dst]) = 1) :
                  nodes' = [nodes EXCEPT ![n] = t]
            /\ net' = net \ {m}
    /\ UNCHANGED <<own, heard, prec, garbled>>

-----------------------------------------------------------------------------
(* Requests, timers and the radio.                                         *)

Sends(n, msgs) ==
    /\ own[n].id < MaxId[n]
    /\ own' = [own EXCEPT ![n] = [seq |-> @.seq + 1, id |-> @.id + 1]]
    /\ net' = net \cup msgs

(* process_asl: a search, a local repair or, for a packet of another node  *)
(* without one, a RERR.                                                    *)
Request(n, d, local) ==
    LET s == nodes[n]
        t == AfterAsl(s, d, local)
    IN
    /\ <<n, d, local>> \in Requests /\ s.waiting[d] = "no"
    /\ nodes' = [nodes EXCEPT ![n] = t]
    /\ \/ /\ t.search[d]["RREQ"] > s.search[d]["RREQ"]
          /\ Sends(n, NewRREQ(n, s, d, t.rreqL[Cardinality(DOMAIN t.rreqL)].ttl))
       \/ /\ t.search[d]["LR"] > s.search[d]["LR"]
          /\ Sends(n, NewRREQ(n, s, d, s.rtable[d].last + 2))
       \/ /\ t.search = s.search
          /\ net' = IF local \/ Node!Active(s.rtable[d]) \/ d \in s.repair THEN net
                    ELSE net \cup RouteError(n, s, d, FALSE, s.rtable[d].flags = "NONE")
          /\ UNCHANGED own
    /\ UNCHANGED <<heard, prec, faults, garbled>>

(* resendRREQ *)
Resend(n, d) ==
    LET s == nodes[n]
        t == Node!Resent(s, d)
    IN
    /\ s.search[d]["RREQ"] > 0
    /\ nodes' = [nodes EXCEPT ![n] = t]
    /\ IF t.search = s.search
       THEN \E i \in DOMAIN t.rreqL : /\ t.rreqL[i] # s.rreqL[i]
                                     /\ Sends(n, NewRREQ(n, s, d, t.rreqL[i].ttl))
       ELSE UNCHANGED <<own, net>>
    /\ UNCHANGED <<heard, prec, faults, garbled>>

(* LR_handler *)
RepairFailed(n, d) ==
    LET t == Node!GivenUp(nodes[n], d)
    IN
    /\ nodes[n].search[d]["LR"] > 0
    /\ nodes' = [nodes EXCEPT ![n] = t]
    /\ net' = net \cup RouteError(n, t, d, FALSE, FALSE)
    /\ UNCHANGED <<own, heard, prec, faults, garbled>>

(* sendHello *)
Hello(n) ==
    /\ n \in Greeters
    /\ net' = net \cup Broadcast(n, RREPMessage(n, None, n, own[n].seq, 0))
    /\ UNCHANGED <<nodes, own, heard, prec, faults, garbled>>

(* refreshEntries: an entry that is erased loses its precursors.           *)
Refresh(n, busy) ==
    LET t == Node!Refreshed(nodes[n], busy)
    IN
    /\ nodes' = [nodes EXCEPT ![n] = t]
    /\ prec' = [prec EXCEPT ![n] = [d \in Nodes |-> IF t.rtable[d].flags = "NONE" THEN {}
                                                   ELSE @[d]]]
    /\ UNCHANGED <<own, heard, net, faults, garbled>>

Fault == faults < MaxFaults /\ faults' = faults + 1

(* neighbor_timeout_handler *)
Timeout(n, p) ==
    /\ Fault
    /\ p \in nodes[n].watch
    /\ \E read \in Nodes \cup {None} :
          /\ nodes[n].rtable[p].flags = "NONE" \/ read = p
          /\ nodes' = [nodes EXCEPT ![n] = Node!TimedOut(@, p, read)]
    /\ UNCHANGED <<own, heard, prec, net, garbled>>

(* A lifetime ends.                                                        *)
Expire(n, d) ==
    /\ Fault
    /\ nodes[n].rtable[d].live
    /\ nodes' = [nodes EXCEPT ![n] = Node!Expired(@, d)]
    /\ UNCHANGED <<own, heard, prec, net, garbled>>

(* updateEntries of fw_rreqL *)
Forget(n) ==
    /\ Fault
    /\ \E r \in heard[n] : heard' = [heard EXCEPT ![n] = @ \ {r}]
    /\ UNCHANGED <<nodes, own, prec, net, garbled>>

Lose ==
    /\ Fault
    /\ \E m \in net : net' = net \ {m}
    /\ UNCHANGED <<nodes, own, heard, prec, garbled>>

-----------------------------------------------------------------------------
Receive(n) ==
    /\ UNCHANGED faults
    /\ \E m \in {x \in net : x.to = n} : RecvRREQ(n, m) \/ RecvRREP(n, m) \/ RecvRERR(n, m)

Handlers(n) ==
    \/ Receive(n)
    \/ Hello(n) \/ Forget(n)
    \/ \E busy \in SUBSET {d \in Nodes : nodes[n].rtable[d].flags # "NONE"
                                          /\ ~nodes[n].rtable[d].live} : Refresh(n, busy)
    \/ \E d \in Nodes :
          \/ \E local \in BOOLEAN : Request(n, d, local)
          \/ Resend(n, d) \/ RepairFailed(n, d) \/ Timeout(n, d) \/ Expire(n, d)

(* A step after which some node cannot tell by the number of d what is     *)
(* older than a route to d that it has had: the number went back, the      *)
(* route ended and the number stayed, or neighbours are to take over the   *)
(* number of a repaired route and keep their own hop counts.               *)
Forgets(d) ==
    \/ \E n \in Nodes :
          LET e == nodes[n].rtable[d]
              f == nodes'[n].rtable[d]
          IN /\ f # e
             /\ \/ f.seq < e.seq
                \/ f.seq = e.seq /\ e.flags = "ACTIVE" /\ f.flags # "ACTIVE"
    \/ \E m \in net' : m.type = "RERR" /\ m.dst = d /\ m.N

(* With the first RREP that describes no route the model ends.             *)
Step(A) ==
    /\ ~garbled
    /\ A
    /\ \A m \in net' : m.type \in {"RREQ", "RREP"} => m.hops <= MaxHops
    /\ forgot' = forgot \cup {d \in Nodes \ forgot : Forgets(d)}

Next ==
    \/ Step(Lose)
    \/ \E n \in Nodes : nodes[n].down = "up" /\ Step(Handlers(n))

Spec == Init /\ [][Next]_vars

(* What is not lost arrives, in some order: RREQs and RREPs do not run out *)
(* of turns behind hello messages.  SIGALRM runs the handlers of the       *)
(* timers that are due.  After a fault nothing is assumed.                 *)
Arrives(m) == RecvRREQ(m.to, m) \/ (m.type = "RREP" /\ m.src # None /\ RecvRREP(m.to, m))

FairSpec ==
    /\ Spec
    /\ WF_vars(faults = 0 /\ Step(UNCHANGED faults /\ \E m \in net : Arrives(m)))
    /\ WF_vars(faults = 0 /\ Step(\E n, d \in Nodes : Resend(n, d)))

-----------------------------------------------------------------------------
(* Properties.                                                             *)

(* The routes that the daemons report for one destination never lead in a  *)
(* circle, whichever messages are late and routes repaired, unless the     *)
(* number of that destination has failed to tell old from new (Forgets):   *)
(* neighborUpdate overwrites it with that of an older message or 0, an     *)
(* entry that has ended takes any message with the number it had, and the  *)
(* hop counts of neighbours are not those of a repaired route.  (A hello   *)
(* message that an RREP overtakes is enough for a circle.)                 *)
LoopFree ==
    \A d \in Nodes \ forgot : \A S \in SUBSET (Nodes \ {d}) :
       (\A n \in S : /\ nodes[n].rtable[d].flags = "ACTIVE"
                     /\ nodes[n].rtable[d].next \in S) => S = {}

(* Nobody has an active route with a number that its destination has not   *)
(* handed out, although every node that breaks a route counts the number   *)
(* on: the count comes back to its owner by an RREQ before it can win.     *)
SeqFromOwner ==
    garbled \/ \A n, d \in Nodes :
       nodes[n].rtable[d].flags = "ACTIVE" => nodes[n].rtable[d].seq <= own[d].seq

(* A search whose messages get through ends in a route, also for a node    *)
(* that the first ring does not reach and whatever the nodes in between    *)
(* have learnt or search for at the same time.                             *)
Found ==
    \A r \in {q \in Requests : q[3]} :
       nodes[r[1]].waiting[r[2]] = "search" ~> \/ nodes[r[1]].rtable[r[2]].flags = "ACTIVE"
                                              \/ faults > 0 \/ garbled
=============================================================================
