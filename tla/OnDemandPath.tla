---------------------------- MODULE OnDemandPath ----------------------------
(***************************************************************************)
(* The whole way of a route request: hook, netlink, Local Agent, TCP,      *)
(* routing daemon, and back.  The kernel half (OdsKernel, instance K) and  *)
(* the user half (LocalAgent, extended here) share the process la, and     *)
(* what OdsKernel only counts, the answers to come, is here the contents   *)
(* of the sockets and of the daemons.  Netlink is synchronous in one       *)
(* direction: while the kernel handles an answer, the LA stands in         *)
(* sendmsg().                                                              *)
(***************************************************************************)
EXTENDS LocalAgent

CONSTANTS Packets, Dst, Contexts, Handler, NoPacket, MaxLen, RouteLosses,
          HonestDaemon

VARIABLES transmission_flag, queue, pc, skb, reply, arrived, sent, freed,
          route, losses, lost, exposed

K == INSTANCE OdsKernel WITH due <- [d \in Dests |-> Due(d)]

(* A daemon that keeps its promises needs routes that stay.                *)
ASSUME PathAssumption ==
    /\ K!KernelAssumption
    /\ HonestDaemon => RouteLosses = 0

kernelVars == <<transmission_flag, queue, pc, skb, reply, arrived, sent,
                freed, route, losses, lost, exposed>>
pathVars == <<kernelVars, agentVars>>

PathInit == Init /\ K!Init

-----------------------------------------------------------------------------

Arrive(c) ==
    /\ UNCHANGED agentVars
    /\ \E p \in Packets : K!AcceptPacket(c, p) \/ K!StealPacket(c, p)

(* The steps of receive_packet in which the LA takes no part.              *)
Hook(c) ==
    /\ UNCHANGED agentVars
    /\ K!ReadFlag(c) \/ K!PendingIp(c) \/ K!PacketEnqueue(c)

(* What a step of the user half does to the ghost lost of the kernel half: *)
(* the last answer to come is lost until there is one to come again.       *)
Losing == lost' = {d \in Dests : Due(d)' = 0 /\ (d \in lost \/ Due(d) > 0)}

Unseen ==
    /\ Losing
    /\ UNCHANGED <<transmission_flag, queue, pc, skb, reply, arrived, sent,
                   freed, route, losses, exposed>>

(* send_rtinfo: the request is in the LA's socket when netlink_unicast     *)
(* returns, or it is lost and nobody looks at the result.                  *)
SendRequest(c) ==
    LET d == Dst[skb[c]] IN
    /\ pc[c] = "transmit_rtinfo"
    /\ pc' = [pc EXCEPT ![c] = "packet_enqueue"]
    /\ \/ /\ KernelRequest(d)
          /\ Losing
       \/ /\ la # "up" \/ Len(netlink) = NetlinkMax \/ "alloc" \in Faults
          /\ UNCHANGED agentVars
          /\ lost' = IF Due(d) = 0 THEN lost \cup {d} ELSE lost
    /\ UNCHANGED <<transmission_flag, queue, skb, reply, arrived, sent,
                   freed, route, losses, exposed>>

(* ods_send_info_msg to deal_info_msg: the LA is in the kernel from now on *)
Deliver(d, v) ==
    /\ Feedback(d, v)
    /\ reply' = {<<d, v>>}
    /\ pc' = [pc EXCEPT ![Handler] = "send_packet"]
    /\ UNCHANGED <<transmission_flag, queue, skb, arrived, sent, freed, route,
                   losses, lost, exposed>>

(* The LA runs when it is not in the kernel.                               *)
LaLoop ==
    /\ pc[Handler] = "idle"
    /\ \/ Loop /\ Unseen
       \/ \E d \in Dests, v \in Verdicts : Deliver(d, v)

Send == UNCHANGED agentVars /\ K!SendPacket

(* deal_init_msg and deal_exit_msg; a process that is killed sends neither *)
Flag(on) ==
    /\ transmission_flag' = on
    /\ UNCHANGED <<queue, pc, skb, reply, arrived, sent, freed, route, losses,
                   lost, exposed>>

Process ==
    /\ pc[Handler] = "idle"
    /\ \/ Start /\ Flag(TRUE)
       \/ Exit /\ Flag(FALSE)
       \/ Gone /\ Unseen

(* process_asl answers IP_FOUND for a route it has just looked up.         *)
Promise(d, v) == HonestDaemon /\ v = "NF_ACCEPT" => route[d] = "dev"

DaemonAnswers(c) ==
    \E d \in Dests, v \in Verdicts :
       Promise(d, v) /\ DaemonAnswer(c, d, v) /\ Unseen

Client(c) ==
    \/ DaemonAnswers(c)
    \/ /\ \/ Connect(c) \/ DaemonRecv(c) \/ ClientClose(c)
          \/ \E d \in Dests : \/ DaemonSilent(c, d)
                              \/ /\ Promise(d, "NF_ACCEPT")
                                 /\ DaemonVolunteers(c, d)
       /\ Unseen

Routes == /\ UNCHANGED agentVars
          /\ \E d \in Dests : K!RouteFound(d) \/ K!RouteLost(d)

PathNext ==
    \/ \E c \in Contexts : Arrive(c)
    \/ \E c \in Contexts \cup {Handler} : Hook(c) \/ SendRequest(c)
    \/ LaLoop \/ Send \/ Process \/ Routes
    \/ \E c \in Clients : Client(c)

PathSpec == PathInit /\ [][PathNext]_pathVars

(* As in the parts; a daemon answers what it has read as soon as its       *)
(* connection takes the message.                                           *)
PathFairSpec ==
    /\ PathSpec
    /\ \A c \in Contexts \cup {Handler} :
          SF_pathVars(Hook(c) \/ SendRequest(c))
    /\ WF_pathVars(Send)
    /\ WF_pathVars(LaLoop)
    /\ \A c \in Clients : /\ WF_pathVars(DaemonRecv(c) /\ Unseen)
                          /\ SF_pathVars(DaemonAnswers(c))

-----------------------------------------------------------------------------
(* Properties.                                                             *)

(* The environment that OdsKernel assumes is the one the LA and the        *)
(* daemons provide: every step of the path is a step of it or a stutter.   *)
ImplementsKernel == K!Spec

(* A parked packet waits for something that really exists: a request in    *)
(* the LA's socket, on a connection or with a daemon, or an answer on its  *)
(* way, unless these were lost or overtaken.                               *)
RequestTravels == K!WaitsForAnswer

(* Without faults and with one destination, the last answer to come only   *)
(* disappears if the LA reads the request before a daemon has connected:   *)
(* coalescing merges requests of that destination, and one answer does.    *)
LostOnlyBeforeConnect ==
    [][lost' \ lost # {} => serv = <<>> /\ serv' = <<>>]_pathVars

(* Under the same conditions every stolen packet is sent or freed in the   *)
(* end: the LA's loop, the sockets and a daemon that answers what it read  *)
(* carry the request round, unless the request was lost or the answer      *)
(* overtook the packet.                                                    *)
EndToEnd ==
    \A p \in Packets :
       p \in arrived ~> \/ p \in sent \cup freed
                        \/ K!Stranded(Dst[p])
=============================================================================
