------------------------------ MODULE OdsKernel ------------------------------
(***************************************************************************)
(* The in-kernel half of the on-demand service (kernel_module/ODS_kernel). *)
(*                                                                         *)
(* A netfilter hook steals every packet routed to the tun device, asks the *)
(* Local Agent (LA) for a route and parks the packet on one list; a        *)
(* netlink message of the LA later releases, or drops, every packet parked *)
(* for a destination.  Hooks run in softirq or process context on any CPU; *)
(* the netlink input handler runs inside the sendmsg() of the LA.  Only    *)
(* the list operations are under the spinlock, so receive_packet is split  *)
(* at every point where another context may run.                           *)
(*                                                                         *)
(* The routing table and the LA process are the environment.  Of the LA    *)
(* the kernel sees which answers are still to come, the function due.      *)
(***************************************************************************)
EXTENDS Integers, Sequences, SequencesExt

CONSTANTS
    Packets,      (* the socket buffers                                     *)
    Dests,        (* destination addresses                                  *)
    Dst,          (* iph->daddr of each packet                              *)
    Contexts,     (* the contexts in which the hooks run                    *)
    Handler,      (* the context of the LA inside sendmsg()                 *)
    MaxLen,       (* MAX_PACKET_NUMBER                                      *)
    MaxDue,       (* bound: answers to come per destination                 *)
    RouteLosses,  (* bound: number of times a route falls back to the tun   *)
    HonestDaemon, (* does IP_FOUND imply that the route is in the kernel?   *)
    NoPacket

ASSUME KernelAssumption ==
    /\ Dst \in [Packets -> Dests]
    /\ Handler \notin Contexts
    /\ NoPacket \notin Packets
    /\ MaxLen \in Nat
    /\ MaxDue \in Nat \ {0}
    /\ RouteLosses \in Nat
    /\ HonestDaemon \in BOOLEAN

VARIABLES
    transmission_flag, \* the LA has said INIT and not EXIT
    queue,             \* my_queue_head->list, oldest packet first
    pc,                \* where each context is in receive_packet/send_packet
    skb,               \* the packet each context holds
    reply,             \* the rt_result being handled: {} or {<<dst, verdict>>}
    arrived,           \* packets that a hook has seen
    sent,              \* packets given back to the IP stack
    freed,             \* packets given to kfree_skb
    route,             \* device of the kernel's route to each destination
    losses,            \* how often a route has been lost
    la,                \* the LA process
    due,               \* number of answers the LA side will still give
    lost,              \* destinations whose last answer to come was lost
    exposed            \* packets overtaken by the answer they waited for

env    == <<route, losses>>
ghosts == <<lost, exposed>>
vars == <<transmission_flag, queue, pc, skb, reply, arrived, sent, freed,
          route, losses, la, due, lost, exposed>>

Procs == Contexts \cup {Handler}
Verdicts == {"NF_ACCEPT", "NF_DROP"}

(* The places where a context can be interrupted, named for what it does   *)
(* next; "send_packet" and "reroute" belong to the netlink handler.        *)
Labels == {"idle", "receive_packet", "pending_ip", "transmit_rtinfo",
           "packet_enqueue", "send_packet", "reroute"}

Queued == {queue[i] : i \in DOMAIN queue}
Held   == {skb[c] : c \in Procs} \ {NoPacket}

(* pending_ip: does some parked packet go to d?                            *)
Pending(d) == \E i \in DOMAIN queue : Dst[queue[i]] = d

Answering(d) == \E v \in Verdicts : <<d, v>> \in reply

(* receive_packet returns: a hook to the stack, the handler to its loop.   *)
AfterReceive(c) == IF c = Handler THEN "send_packet" ELSE "idle"

Goto(c, label) == pc' = [pc EXCEPT ![c] = label]

(* The context is done with its packet.                                    *)
Return(c) == /\ Goto(c, AfterReceive(c))
             /\ skb' = [skb EXCEPT ![c] = NoPacket]

Init ==
    /\ transmission_flag = FALSE
    /\ queue = <<>>
    /\ pc = [c \in Procs |-> "idle"]
    /\ skb = [c \in Procs |-> NoPacket]
    /\ reply = {}
    /\ arrived = {} /\ sent = {} /\ freed = {}
    /\ route = [d \in Dests |-> "mytun"]
    /\ losses = 0
    /\ la = "down"
    /\ due = [d \in Dests |-> 0]
    /\ lost = {} /\ exposed = {}

-----------------------------------------------------------------------------
(* The hooks.                                                              *)

(* check_packet, NF_ACCEPT: the packet is not routed to the tun device.    *)
AcceptPacket(c, p) ==
    /\ pc[c] = "idle"
    /\ p \notin arrived
    /\ route[Dst[p]] # "mytun"
    /\ arrived' = arrived \cup {p}
    /\ sent' = sent \cup {p}
    /\ UNCHANGED <<transmission_flag, queue, pc, skb, reply, freed, env,
                   la, due, ghosts>>

(* check_packet, NF_STOLEN: the device only exists while the LA runs.      *)
StealPacket(c, p) ==
    /\ pc[c] = "idle"
    /\ p \notin arrived
    /\ route[Dst[p]] = "mytun"
    /\ la # "down"
    /\ arrived' = arrived \cup {p}
    /\ Goto(c, "receive_packet")
    /\ skb' = [skb EXCEPT ![c] = p]
    /\ UNCHANGED <<transmission_flag, queue, reply, sent, freed, env,
                   la, due, ghosts>>

(* receive_packet reads transmission_flag: without an LA the packet goes.  *)
ReadFlag(c) ==
    /\ pc[c] = "receive_packet"
    /\ \/ /\ transmission_flag
          /\ Goto(c, "pending_ip")
          /\ UNCHANGED <<skb, freed>>
       \/ /\ ~transmission_flag
          /\ freed' = freed \cup {skb[c]}
          /\ Return(c)
    /\ UNCHANGED <<transmission_flag, queue, reply, arrived, sent, env,
                   la, due, ghosts>>

(* Seeded fault: pending_ip does not compare the destination.              *)
PendingIpOfAny(c) ==
    /\ pc[c] = "pending_ip"
    /\ Goto(c, IF queue # <<>> THEN "packet_enqueue" ELSE "transmit_rtinfo")
    /\ UNCHANGED <<transmission_flag, queue, skb, reply, arrived, sent,
                   freed, env, la, due, ghosts>>

(* pending_ip, under the lock: only the first packet of a destination asks *)
PendingIp(c) ==
    /\ pc[c] = "pending_ip"
    /\ Goto(c, IF Pending(Dst[skb[c]]) THEN "packet_enqueue"
                                       ELSE "transmit_rtinfo")
    /\ UNCHANGED <<transmission_flag, queue, skb, reply, arrived, sent,
                   freed, env, la, due, ghosts>>

(* transmit_rtinfo: the result of netlink_unicast is not looked at, so a   *)
(* failed allocation, a full receive buffer and a dead LA go unnoticed.    *)
TransmitRtinfo(c) ==
    LET d == Dst[skb[c]] IN
    /\ pc[c] = "transmit_rtinfo"
    /\ Goto(c, "packet_enqueue")
    /\ \/ /\ la = "up"
          /\ due[d] < MaxDue
          /\ due' = [due EXCEPT ![d] = @ + 1]
          /\ lost' = lost \ {d}
       \/ /\ lost' = IF due[d] = 0 THEN lost \cup {d} ELSE lost
          /\ UNCHANGED due
    /\ UNCHANGED <<transmission_flag, queue, skb, reply, arrived, sent,
                   freed, env, la, exposed>>

Park(c, room, element) ==
    /\ pc[c] = "packet_enqueue"
    /\ \/ /\ room
          /\ queue' = Append(queue, element)
          /\ UNCHANGED freed
       \/ /\ freed' = freed \cup {skb[c]}
          /\ UNCHANGED queue
    /\ Return(c)
    /\ UNCHANGED <<transmission_flag, reply, arrived, sent, env,
                   la, due, ghosts>>

(* Seeded faults: a list entry filled after the packet was given up; a     *)
(* failure reported after the packet was linked.                           *)
PacketEnqueueCleared(c) == Park(c, Len(queue) < MaxLen, NoPacket)
PacketEnqueueLinked(c) ==
    /\ pc[c] = "packet_enqueue"
    /\ Len(queue) < MaxLen
    /\ queue' = Append(queue, skb[c])
    /\ freed' = freed \cup {skb[c]}
    /\ Return(c)
    /\ UNCHANGED <<transmission_flag, reply, arrived, sent, env,
                   la, due, ghosts>>

(* packet_enqueue: a full list or a failed kmalloc frees the packet.       *)
PacketEnqueue(c) == Park(c, Len(queue) < MaxLen, skb[c])

-----------------------------------------------------------------------------
(* The netlink input handler.                                              *)

(* deal_info_msg for one answer of the LA.                                 *)
RecvInfo(d, v) ==
    /\ la = "up"
    /\ pc[Handler] = "idle"
    /\ due[d] > 0
    /\ HonestDaemon /\ v = "NF_ACCEPT" => route[d] # "mytun"
    /\ due' = [due EXCEPT ![d] = @ - 1]
    /\ reply' = {<<d, v>>}
    /\ Goto(Handler, "send_packet")
    /\ UNCHANGED <<transmission_flag, queue, skb, arrived, sent, freed, env,
                   la, ghosts>>

(* Seeded faults: packet_dequeue without cmp, and from the wrong end.      *)
OldestOfAny(d, i) == i \in DOMAIN queue /\ \A j \in DOMAIN queue : i <= j

NewestFirst(d, i) == /\ i \in DOMAIN queue
                     /\ Dst[queue[i]] = d
                     /\ \A j \in DOMAIN queue : j > i => Dst[queue[j]] # d

(* packet_dequeue: the oldest packet parked for d.                         *)
Oldest(d, i) == /\ i \in DOMAIN queue
                /\ Dst[queue[i]] = d
                /\ \A j \in DOMAIN queue : j < i => Dst[queue[j]] # d

(* One round of the loop of send_packet.                                   *)
ReleaseOne ==
    /\ pc[Handler] = "send_packet"
    /\ \E d \in Dests, v \in Verdicts, i \in DOMAIN queue :
          /\ <<d, v>> \in reply
          /\ Oldest(d, i)
          /\ queue' = RemoveAt(queue, i)
          /\ exposed' = exposed \ {queue[i]}
          /\ \/ /\ v = "NF_DROP"
                /\ freed' = freed \cup {queue[i]}
                /\ UNCHANGED <<pc, skb>>
             \/ /\ v = "NF_ACCEPT"
                /\ skb' = [skb EXCEPT ![Handler] = queue[i]]
                /\ Goto(Handler, "reroute")
                /\ UNCHANGED freed
    /\ UNCHANGED <<transmission_flag, reply, arrived, sent, env,
                   la, due, lost>>

(* reroute and ip_local_out: the packet passes the POST_ROUTING hook once  *)
(* more, and is stolen again if its route still is the tun device.         *)
Reroute ==
    /\ pc[Handler] = "reroute"
    /\ \/ /\ route[Dst[skb[Handler]]] # "mytun"
          /\ sent' = sent \cup {skb[Handler]}
          /\ Return(Handler)
       \/ /\ route[Dst[skb[Handler]]] = "mytun"
          /\ Goto(Handler, "receive_packet")
          /\ UNCHANGED <<sent, skb>>
    /\ UNCHANGED <<transmission_flag, queue, reply, arrived, freed, env,
                   la, due, ghosts>>

(* Packets that have passed pending_ip and are not on the list yet.        *)
Late == {skb[c] : c \in {c \in Procs : pc[c] = "packet_enqueue"}}

(* Seeded fault: one packet per answer, an if in place of the while.       *)
ReleaseDoneEarly ==
    /\ pc[Handler] = "send_packet"
    /\ \E d \in Dests :
          /\ Answering(d)
          /\ lost' = lost \ {d}
          /\ exposed' = exposed
    /\ Goto(Handler, "idle")
    /\ reply' = {}
    /\ UNCHANGED <<transmission_flag, queue, skb, arrived, sent, freed, env,
                   la, due>>

(* packet_dequeue finds nothing for d: the handler returns.                *)
ReleaseDone ==
    /\ pc[Handler] = "send_packet"
    /\ \E d \in Dests :
          /\ Answering(d)
          /\ ~Pending(d)
          /\ lost' = lost \ {d}
          /\ exposed' = IF due[d] > 0 THEN exposed
                      ELSE exposed \cup {p \in Late : Dst[p] = d}
    /\ Goto(Handler, "idle")
    /\ reply' = {}
    /\ UNCHANGED <<transmission_flag, queue, skb, arrived, sent, freed, env,
                   la, due>>

-----------------------------------------------------------------------------
(* The LA and the routing table.                                           *)

(* ods_turn_up: the INIT message.                                          *)
LaStart ==
    /\ la = "down"
    /\ la' = "up"
    /\ transmission_flag' = TRUE
    /\ UNCHANGED <<queue, pc, skb, reply, arrived, sent, freed, env,
                   due, ghosts>>

(* ods_turn_down: the EXIT message.  The list is left as it is.            *)
LaExit ==
    /\ la = "up"
    /\ pc[Handler] = "idle"
    /\ la' = "closing"
    /\ transmission_flag' = FALSE
    /\ UNCHANGED <<queue, pc, skb, reply, arrived, sent, freed, env,
                   due, ghosts>>

(* The LA side keeps only the answers of left.                             *)
KeepAnswers(left) ==
    /\ due' = left
    /\ lost' = lost \cup {d \in Dests : due[d] > 0 /\ left[d] = 0}

(* The LA process ends, after EXIT or killed without one: its socket goes, *)
(* and with it the requests it holds and the connections to the daemons.   *)
LaGone ==
    /\ la # "down"
    /\ pc[Handler] = "idle"
    /\ la' = "down"
    /\ KeepAnswers([d \in Dests |-> 0])
    /\ UNCHANGED <<transmission_flag, queue, pc, skb, reply, arrived, sent,
                   freed, env, exposed>>

(* The LA or a daemon loses some requests or answers.                      *)
LoseAnswers ==
    /\ la # "down"
    /\ \E left \in [Dests -> 0..MaxDue] :
          /\ \A d \in Dests : left[d] <= due[d]
          /\ left # due
          /\ KeepAnswers(left)
    /\ UNCHANGED <<transmission_flag, queue, pc, skb, reply, arrived, sent,
                   freed, env, la, exposed>>

(* A daemon answers for a destination nobody asked for.                    *)
Volunteer(d) ==
    /\ la # "down"
    /\ due[d] < MaxDue
    /\ due' = [due EXCEPT ![d] = @ + 1]
    /\ lost' = lost \ {d}
    /\ UNCHANGED <<transmission_flag, queue, pc, skb, reply, arrived, sent,
                   freed, env, la, exposed>>

(* A daemon installs a route.                                              *)
RouteFound(d) ==
    /\ route[d] = "mytun"
    /\ route' = [route EXCEPT ![d] = "dev"]
    /\ UNCHANGED <<transmission_flag, queue, pc, skb, reply, arrived, sent,
                   freed, losses, la, due, ghosts>>

(* A route is deleted: the default route to the tun device applies again.  *)
RouteLost(d) ==
    /\ route[d] = "dev"
    /\ losses < RouteLosses
    /\ losses' = losses + 1
    /\ route' = [route EXCEPT ![d] = "mytun"]
    /\ UNCHANGED <<transmission_flag, queue, pc, skb, reply, arrived, sent,
                   freed, la, due, ghosts>>

-----------------------------------------------------------------------------

ReceivePacket(c) == ReadFlag(c) \/ PendingIp(c) \/ TransmitRtinfo(c)
                    \/ PacketEnqueue(c)

SendPacket == ReleaseOne \/ Reroute \/ ReleaseDone

Environment ==
    \/ LaStart \/ LaExit \/ LaGone \/ LoseAnswers
    \/ \E d \in Dests : Volunteer(d) \/ RouteFound(d) \/ RouteLost(d)

Next ==
    \/ \E c \in Contexts, p \in Packets : AcceptPacket(c, p) \/ StealPacket(c, p)
    \/ \E c \in Procs : ReceivePacket(c)
    \/ \E d \in Dests, v \in Verdicts : RecvInfo(d, v)
    \/ SendPacket
    \/ Environment

Spec == Init /\ [][Next]_vars

-----------------------------------------------------------------------------
(* Properties.                                                             *)

(* Types of the variables, and a context holds a packet unless idle.       *)
TypeOK ==
    /\ transmission_flag \in BOOLEAN
    /\ queue \in Seq(Packets)
    /\ pc \in [Procs -> Labels]
    /\ skb \in [Procs -> Packets \cup {NoPacket}]
    /\ reply \in SUBSET (Dests \X Verdicts)
    /\ arrived \subseteq Packets
    /\ sent \subseteq Packets
    /\ freed \subseteq Packets
    /\ route \in [Dests -> {"mytun", "dev"}]
    /\ losses \in 0..RouteLosses
    /\ la \in {"down", "up", "closing"}
    /\ due \in [Dests -> 0..MaxDue]
    /\ lost \subseteq Dests
    /\ exposed \subseteq Packets

(* Every stolen packet has exactly one owner: one context, one list entry, *)
(* the IP stack or kfree_skb.  None leaks and none is used after it was    *)
(* freed or passed on, whatever the contexts interleave.                   *)
OneOwner ==
    /\ \A c1, c2 \in Procs : skb[c1] = skb[c2] /\ skb[c1] # NoPacket => c1 = c2
    /\ \A i, j \in DOMAIN queue : queue[i] = queue[j] => i = j
    /\ Held \cap Queued = {}
    /\ (Held \cup Queued) \cap (sent \cup freed) = {}
    /\ sent \cap freed = {}
    /\ arrived = Held \cup Queued \cup sent \cup freed

(* The answer on which a parked packet, or one about to be parked, relies. *)
Covered(p) ==
    LET d == Dst[p] IN
    \/ due[d] > 0
    \/ Answering(d)
    \/ d \in lost
    \/ p \in exposed
    \/ \E q \in Queued : Dst[q] = d /\ q \in exposed

(* A packet waits only for an answer that is still to come, unless that    *)
(* answer was lost on the LA side (lost) or was handled between pending_ip *)
(* and packet_enqueue (exposed).  These are the only two ways in which the *)
(* unlocked check-ask-park sequence of receive_packet strands packets.     *)
WaitsForAnswer == \A p \in Queued \cup Late : Covered(p)

(* An answer touches the packets of its own destination only, and a        *)
(* rejected destination never gets a packet through.                       *)
AnswerIsLocal ==
    [][\A p \in Queued \ Queued' :
          /\ Answering(Dst[p])
          /\ p \in freed' <=> <<Dst[p], "NF_DROP">> \in reply]_vars

Ahead(p, q) == /\ Dst[p] = Dst[q]
               /\ \E i, j \in DOMAIN queue : i < j /\ queue[i] = p /\ queue[j] = q

(* Packets of one destination leave the list in the order they joined it:  *)
(* a newcomer goes behind the others, and nobody leaves before the one     *)
(* ahead of him.                                                           *)
FifoPerDestination ==
    [][\A p, q \in Packets :
          /\ Ahead(p, q) /\ p \in Queued' => Ahead(p, q)'
          /\ /\ Dst[p] = Dst[q]
             /\ p \in Queued \cap Queued'
             /\ q \in Queued' \ Queued
             => Ahead(p, q)']_vars

(* No answer is to come for d, and the parked packets of d do not know.    *)
Stranded(d) ==
    /\ due[d] = 0
    /\ ~Answering(d)
    /\ Pending(d)
    /\ d \in lost \/ \E q \in Queued : Dst[q] = d /\ q \in exposed
=============================================================================
