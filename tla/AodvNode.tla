------------------------------ MODULE AodvNode ------------------------------
(***************************************************************************)
(* The AODV daemon of one node, as two actors that share the state of      *)
(* AodvTable: the main loop, which handles a message of another node or a  *)
(* request of the Local Agent, and SIGALRM, which runs the handlers of the *)
(* timers that are due between any two steps of the main loop.  The        *)
(* messages of other nodes are free, a lifetime may end and a timer may    *)
(* run out at any time.                                                    *)
(*                                                                         *)
(* A step of the main loop tests a flag or a list, or edits one; all it    *)
(* does to one entry of the table is one step.  SIGALRM is blocked while   *)
(* it runs, so that its handlers are steps.  What a message says is chosen *)
(* by the step that first needs it.                                        *)
(***************************************************************************)
EXTENDS AodvTable

CONSTANTS
    MaxSearch,  (* bound: timers of one kind for one destination            *)
    MaxPending  (* bound: entries of the list of pending RREQs              *)

ASSUME NodeAssumption == MaxSearch \in Nat /\ MaxPending \in Nat

VARIABLES
    node,       (* the state of AodvTable                                   *)
    loop,       (* where the main loop is, and what it still needs          *)
    missed,     (* ghost: active routes that the branch for the reboot time *)
                (* has written after the end of that time                   *)
    cut         (* ghost: broken routes that the main loop has taken, or is *)
                (* about to take, off the local repair list                 *)

vars == <<node, loop, missed, cut>>

(***************************************************************************)
(* loop.at         the next step                                           *)
(* loop.reboot     a message came in the reboot time                       *)
(* loop.from       the neighbour that sent the message                     *)
(* loop.dest       the destination in hand, as the message names it with   *)
(* loop.seq        its number and                                          *)
(* loop.hops       hops                                                    *)
(* loop.more       the message is about another node than the neighbour    *)
(* loop.add        addFlag of reverseRouteUpdate and forwardRouteUpdate    *)
(***************************************************************************)
Idle == [at |-> "idle", reboot |-> FALSE, from |-> NoNode, dest |-> NoNode,
         seq |-> 0, hops |-> 0, more |-> FALSE, add |-> FALSE]

Init == node = Started(TRUE) /\ loop = Idle /\ missed = {} /\ cut = {}

-----------------------------------------------------------------------------
(* Messages of a neighbour.                                                *)

(* An entry that is written after the end of the reboot time without a     *)
(* word to the kernel is missed until the kernel is told.                  *)
Written(d, told) ==
    missed' = IF told THEN missed \ {d}
              ELSE IF /\ loop.reboot /\ ~node.duringReboot
                      /\ node'.rtable[d].flags = "ACTIVE" THEN missed \cup {d}
              ELSE missed

(* The update of the neighbour is done.                                    *)
Neighbored == IF loop.more THEN [loop EXCEPT !.at = "rest", !.dest = NoNode] ELSE Idle

(* processRREQ, processRREP, processRERR: the test of duringReboot, and    *)
(* the entry of p by neighborUpdate.  The flag is never set again, so that *)
(* the test may as well come with the entry.                               *)
NeighborUpdate(p, seq, more) ==
    /\ loop.at = "idle" /\ ~node.duringReboot
    /\ more => seq = 0
    /\ node' = NeighborEntry(node, p, seq)
    /\ Written(p, node.rtable[p].flags # "ACTIVE") /\ cut' = cut \ {p}
    /\ loop' = [Idle EXCEPT !.at = "found", !.from = p, !.dest = p, !.more = more]

(* The test in the reboot time, before anything is written.                *)
EnterReboot(p) ==
    /\ loop.at = "idle" /\ node.duringReboot
    /\ loop' = [Idle EXCEPT !.at = "reboot", !.from = p, !.reboot = TRUE]
    /\ UNCHANGED <<node, missed, cut>>

(* rebootNeighborUpdate *)
RebootNeighborUpdate(seq, more) ==
    /\ loop.at = "reboot"
    /\ more => seq = 0
    /\ node' = RebootEntry(node, loop.from, seq)
    /\ Written(loop.from, FALSE) /\ cut' = cut \ {loop.from}
    /\ loop' = IF more THEN [loop EXCEPT !.at = "rest", !.more = TRUE] ELSE Idle

(* After the answer to the LA and removeRREQTimer.                         *)
Searched ==
    IF loop.dest # loop.from THEN Idle ELSE [loop EXCEPT !.at = "timer"]

(* IP_FOUND goes to the LA, and removeRREQTimer takes a timer away.        *)
RouteFound ==
    /\ loop.at = "found"
    /\ LET found == Answer(node, loop.dest)
       IN \/ /\ Kinds(node, loop.dest) = {}
             /\ node' = found /\ loop' = Searched
          \/ \E k \in Kinds(node, loop.dest) :
                /\ node' = EndTimer(found, loop.dest, k)
                /\ loop' = IF k = "LR" THEN [loop EXCEPT !.at = "repaired"] ELSE Searched
    /\ UNCHANGED <<missed, cut>>

(* deleteFromList of the local repair list, if that was a repair.          *)
RepairEnded ==
    /\ loop.at = "repaired"
    /\ node' = OffRepairList(node, loop.dest) /\ loop' = Searched
    /\ UNCHANGED <<missed, cut>>

(* neighborUpdate: isActiveTimerInQueue, or a hello message.               *)
TestTimer(hello) ==
    /\ loop.at = "timer"
    /\ hello => ~loop.more
    /\ loop' = IF hello \/ loop.from \in node.watch THEN [loop EXCEPT !.at = "set"]
               ELSE Neighbored
    /\ UNCHANGED <<node, missed, cut>>

(* removeActiveRouteTimer and set_timer                                    *)
SetTimer ==
    /\ loop.at = "set"
    /\ node' = [node EXCEPT !.watch = @ \cup {loop.from}] /\ loop' = Neighbored
    /\ UNCHANGED <<missed, cut>>

-----------------------------------------------------------------------------
(* What a message says of another node.                                    *)

(* inList of fw_rreqL: the RREQ has been seen before.                      *)
SeenBefore ==
    /\ loop.at = "rest" /\ ~loop.reboot
    /\ loop' = Idle /\ UNCHANGED <<node, missed, cut>>

(* reverseRouteUpdate, forwardRouteUpdate and their counterparts of the    *)
(* reboot time: first, what there is of an entry.                          *)
RouteUpdate(d, seq, hops) ==
    LET e == node.rtable[d]
        p == loop.from
        done == IF loop.reboot THEN Idle ELSE [loop EXCEPT !.at = "found", !.dest = d]
    IN
    /\ loop.at = "rest" /\ d # p
    /\ \/ /\ e.flags # "ACTIVE"
          /\ node' = IF loop.reboot
                     THEN [node EXCEPT !.rtable[d] = Route(@, p, seq, hops)]
                     ELSE NewEntry(node, d, p, seq, hops)
          /\ Written(d, ~loop.reboot) /\ cut' = cut \ {d} /\ loop' = done
       \/ /\ e.flags = "ACTIVE" /\ ~Fresher(e, seq, hops)
          /\ loop' = done /\ UNCHANGED <<node, missed, cut>>
       \/ /\ e.flags = "ACTIVE" /\ Fresher(e, seq, hops)
          /\ loop' = [loop EXCEPT !.at = "replace", !.dest = d, !.seq = seq, !.hops = hops,
                                  !.add = ~loop.reboot /\ Moved(e, p, hops)]
          /\ UNCHANGED <<node, missed, cut>>

(* Then the new route of an entry that was active; it does not pass both   *)
(* of its lifetimes, and leave the table, in between.                      *)
ReplaceActive ==
    /\ loop.at = "replace" /\ node.rtable[loop.dest].flags # "NONE"
    /\ node' = ReplaceEntry(node, loop.dest, loop.from, loop.seq, loop.hops, loop.add)
    /\ Written(loop.dest, loop.add) /\ UNCHANGED cut
    /\ loop' = IF loop.reboot THEN Idle ELSE [loop EXCEPT !.at = "found"]

(* processRERR: updateInvalidEntries; all messages name one destination.   *)
HearOf(d, seq) ==
    /\ loop.at = "rest" /\ d # loop.from
    /\ node' = Heard(node, d, seq)
    /\ loop' = [loop EXCEPT !.at = "heard", !.dest = d, !.seq = seq]
    /\ UNCHANGED <<missed, cut>>

(* A message with the N flag: the route stays.                             *)
Renumber ==
    /\ loop.at = "heard" /\ ~loop.reboot
    /\ node' = TakeNumber(node, loop.dest, loop.from, loop.seq) /\ loop' = Idle
    /\ UNCHANGED <<missed, cut>>

(* updateValidEntries and createNewRERR: a broken route leaves the list,   *)
LoseRoute ==
    LET d == loop.dest
        broken == node.rtable[d].flags = "BROKEN"
    IN
    /\ loop.at = "heard"
    /\ IF ~Lost(node, d, loop.from)
       THEN loop' = Idle /\ UNCHANGED <<node, cut>>
       ELSE /\ node' = IF broken THEN OffRepairList(node, d) ELSE node
            /\ cut' = IF broken THEN cut \cup {d} ELSE cut
            /\ loop' = [loop EXCEPT !.at = "invalid"]
    /\ UNCHANGED missed

(* and the entry is made invalid.  If it has one precursor, createNewRERR  *)
(* writes its address through a null pointer.                              *)
Invalidate(onePrecursor) ==
    /\ loop.at = "invalid" /\ node.rtable[loop.dest].flags # "NONE"
    /\ node' = [MakeInvalid(node, loop.dest, loop.seq) EXCEPT
                   !.down = IF onePrecursor /\ ~loop.reboot THEN "rerr" ELSE @]
    /\ missed' = missed \ {loop.dest} /\ cut' = cut \ {loop.dest}
    /\ loop' = Idle

-----------------------------------------------------------------------------
(* Requests of the LA.                                                     *)

Room(d) ==
    /\ node.search[d]["RREQ"] < MaxSearch /\ node.search[d]["LR"] < MaxSearch
    /\ Len(node.rreqL) < MaxPending

(* process_asl: in the reboot time, or if there is a route, it answers.    *)
ProcessAsl(d) ==
    /\ loop.at = "idle" /\ Room(d)
    /\ IF node.duringReboot \/ Active(node.rtable[d])
       THEN node' = Answer(node, d) /\ UNCHANGED loop
       ELSE loop' = [Idle EXCEPT !.at = "ask", !.dest = d] /\ UNCHANGED node
    /\ UNCHANGED <<missed, cut>>

(* A packet of the node itself is searched for; of another node, it is     *)
(* looked for on the local repair list.                                    *)
Ask(local) ==
    /\ loop.at = "ask"
    /\ IF local
       THEN node' = SendRREQ(node, loop.dest) /\ loop' = Idle
       ELSE IF loop.dest \in node.repair
       THEN loop' = [loop EXCEPT !.at = "listed"] /\ UNCHANGED node
       ELSE node' = Answer(node, loop.dest) /\ loop' = Idle
    /\ UNCHANGED <<missed, cut>>

(* On the list: a repair, unless one is taken to be going on.              *)
AskForRepair ==
    /\ loop.at = "listed"
    /\ node' = IF node.rtable[loop.dest].flags = "BROKEN" THEN LocalRepair(node, loop.dest)
               ELSE [node EXCEPT !.waiting[loop.dest] = IF @ = "no" THEN "repair" ELSE @]
    /\ loop' = Idle /\ UNCHANGED <<missed, cut>>

-----------------------------------------------------------------------------
(* SIGALRM.                                                                *)

(* What a handler ends is neither missed nor cut any more.                 *)
StillMissed == missed' = {d \in missed : node'.rtable[d].flags = "ACTIVE"}
StillCut == cut' = {d \in cut : node'.rtable[d].flags = "BROKEN"}

(* resendRREQ *)
ResendRREQ(d) ==
    /\ node.search[d]["RREQ"] > 0
    /\ node' = Resent(node, d)
    /\ UNCHANGED <<loop, missed, cut>>

(* LR_handler *)
RepairFailed(d) ==
    /\ node.search[d]["LR"] > 0
    /\ node' = GivenUp(node, d)
    /\ StillMissed /\ StillCut /\ UNCHANGED loop

(* The destination whose route the main loop has found, and whose repair   *)
(* it may be about to end.                                                 *)
Ending == IF loop.at \in {"replace", "found", "repaired"} THEN {loop.dest} ELSE {}

(* neighbor_timeout_handler *)
NeighborTimeout(p, read) ==
    /\ p \in node.watch
    /\ node.rtable[p].flags = "NONE" \/ read = p
    /\ node' = TimedOut(node, p, read)
    /\ cut' = (cut \ node'.repair) \cup {d \in Ending : node'.rtable[d].flags = "BROKEN"}
    /\ StillMissed /\ UNCHANGED loop

(* refreshEntries *)
Refresh(busy) ==
    /\ node' = Refreshed(node, busy)
    /\ StillMissed /\ StillCut /\ UNCHANGED loop

(* rebootHandler *)
RebootHandler ==
    /\ node.duringReboot
    /\ node' = [AddAllValidRoutes(node) EXCEPT !.duringReboot = FALSE]
    /\ UNCHANGED <<loop, missed, cut>>

(* A lifetime ends.                                                        *)
Expire(d) ==
    /\ node.rtable[d].live
    /\ node' = Expired(node, d)
    /\ UNCHANGED <<loop, missed, cut>>

-----------------------------------------------------------------------------
Timers ==
    \/ RebootHandler
    \/ \E busy \in SUBSET {d \in Dests : node.rtable[d] # NoRoute /\ ~node.rtable[d].live} :
          Refresh(busy)
    \/ \E d \in Dests :
          \/ ResendRREQ(d)
          \/ RepairFailed(d)
          \/ \E read \in Dests \cup {NoNode} : NeighborTimeout(d, read)

Messages ==
    \/ \E d \in Dests :
          \/ EnterReboot(d)
          \/ \E seq \in Seqs :
                \/ \E more \in BOOLEAN : NeighborUpdate(d, seq, more)
                \/ \E hops \in 2..MaxHops + 1 : RouteUpdate(d, seq, hops)
                \/ HearOf(d, seq)
    \/ \E seq \in Seqs, more \in BOOLEAN : RebootNeighborUpdate(seq, more)
    \/ RouteFound \/ RepairEnded \/ SetTimer \/ (\E hello \in BOOLEAN : TestTimer(hello))
    \/ SeenBefore \/ ReplaceActive \/ Renumber \/ LoseRoute
    \/ \E one \in BOOLEAN : Invalidate(one)

Requests ==
    \/ \E d \in Dests : ProcessAsl(d)
    \/ \E local \in BOOLEAN : Ask(local)
    \/ AskForRepair

Next ==
    /\ node.down = "up"
    /\ Timers \/ Messages \/ Requests \/ \E d \in Dests : Expire(d)

Spec == Init /\ [][Next]_vars

(* SIGALRM runs the handlers of the timers that are due.                   *)
FairSpec ==
    /\ Spec
    /\ \A d \in Dests : /\ WF_vars(node.down = "up" /\ ResendRREQ(d))
                        /\ WF_vars(node.down = "up" /\ RepairFailed(d))

-----------------------------------------------------------------------------
(* Properties.                                                             *)

TypeOK ==
    /\ \A d \in Dests :
          LET e == node.rtable[d]
          IN /\ e.flags \in {"NONE", "ACTIVE", "BROKEN", "INVALID"}
             /\ e.hops \in 0..MaxHops + 1 \cup {Infinity}
             /\ e.last \in 0..MaxHops + 1 \cup {Infinity}
             /\ e.next \in Dests \cup {NoNode} /\ e.seq \in Seqs
             /\ (e.flags = "NONE") = (e = NoRoute)
             /\ node.kroute[d] \in Dests \cup {NoNode}
             /\ node.waiting[d] \in {"no", "search", "repair"}
             /\ node.search[d]["RREQ"] \in Nat /\ node.search[d]["LR"] \in Nat
    /\ node.repair \subseteq Dests /\ node.watch \subseteq Dests
    /\ \A j \in DOMAIN node.rreqL : /\ node.rreqL[j].dest \in Dests
                                    /\ node.rreqL[j].retries \in 0..2
                                    /\ node.rreqL[j].ttl \in Nat
    /\ node.down \in {"up", "rerr", "refresh"}
    /\ missed \subseteq Dests /\ cut \subseteq Dests
    /\ loop.from \in Dests \cup {NoNode} /\ loop.dest \in Dests \cup {NoNode}
    /\ loop.seq \in Seqs /\ loop.hops \in 0..MaxHops + 1
    /\ loop.at \in {"idle", "reboot", "found", "repaired", "timer", "set", "rest", "replace",
                   "heard", "invalid", "ask", "listed"}

(* An RREQ timer always finds an entry in the list, although timers and    *)
(* entries of one destination are not tied to each other: otherwise        *)
(* resendRREQ would drop a search that has tries left.                     *)
EntryForTimer ==
    \A d \in Dests :
       node.search[d]["RREQ"] <= Cardinality({j \in DOMAIN node.rreqL : node.rreqL[j].dest = d})

(* A request that set off a search or a repair is answered by a timer that *)
(* still runs: no message removes the last timer without an answer.        *)
SearchAnswers ==
    \A d \in Dests : node.waiting[d] = "search" =>
       node.search[d]["RREQ"] + node.search[d]["LR"] > 0

(* A broken route is on the local repair list, so that process_asl repairs *)
(* it instead of giving up, whichever handler broke it or ended a repair,  *)
(* except that the main loop may take it off: a neighbour timeout comes in *)
(* while neighborUpdate or a route update ends a repair of the same route, *)
(* or a RERR is about to make the route invalid.                           *)
BrokenInRepair ==
    \A d \in Dests : node.rtable[d].flags = "BROKEN" => d \in node.repair \cup cut

(* What the daemon reports as a route is one in the kernel, and by the     *)
(* same next hop, except that the kernel may still send a packet to a      *)
(* neighbour by the way that led there before; and except for an entry     *)
(* that a message of the reboot time wrote when rebootHandler had come in  *)
(* after its test of duringReboot, until that route ends.                  *)
KernelFollows ==
    ~node.duringReboot =>
       \A d \in Dests \ missed : LET e == node.rtable[d] IN
          e.flags = "ACTIVE" => /\ node.kroute[d] # NoNode
                                /\ e.hops > 1 => node.kroute[d] = e.next

(* The sequence number of an active route goes down by a message of the    *)
(* destination itself or its next hop only, never for a longer or staler   *)
(* way that another neighbour offers.                                      *)
StaleNeverWins ==
    [][\A d \in Dests :
         LET e == node.rtable[d]
             f == node'.rtable[d]
         IN e.flags = "ACTIVE" /\ f.flags = "ACTIVE" =>
              \/ f.next = d /\ f.hops = 1
              \/ f.next = e.next
              \/ f.seq > e.seq
              \/ f.seq = e.seq /\ f.hops < e.hops]_vars

(* A neighbour takes the routes behind it along: an expiry or a timer that *)
(* ends its route ends those that lead through it, in whatever order       *)
(* refreshEntries meets them, and no message ends its route alone, unless  *)
(* a repair of the way to it, that was still running, is given up.         *)
NeighborTakesRoutes ==
    [][\A p, d \in Dests :
         LET e == node.rtable[p]
             f == node.rtable[d]
             led == p # d /\ e.flags = "ACTIVE" /\ e.hops = 1 /\ f.flags = "ACTIVE" /\ f.next = p
             ended == node'.rtable[p].flags # "ACTIVE"
             givenUp == node'.search[p]["LR"] < node.search[p]["LR"]
         IN led /\ ended /\ ~givenUp => node'.rtable[d].flags # "ACTIVE"]_vars

(* Every search of the LA ends in an answer, whatever is found, lost and   *)
(* searched for again meanwhile, unless the daemon ends.                   *)
Answered ==
    \A d \in Dests : node.waiting[d] = "search" ~> (node.waiting[d] # "search" \/ node.down # "up")
=============================================================================
