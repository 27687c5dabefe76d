----------------------------- MODULE LocalAgent -----------------------------
(***************************************************************************)
(* The Local Agent (LA): one process, one thread, a select loop over the   *)
(* netlink socket of the on-demand service, the listening socket, and one  *)
(* TCP connection per client.  It forwards each route request of the       *)
(* kernel to a routing daemon and each answer of a daemon to the kernel.   *)
(*                                                                         *)
(* recv() is called once per readable connection and only the first        *)
(* message of what it returns is parsed, in the LA and in the daemon.      *)
(***************************************************************************)
EXTENDS Integers, Sequences, SequencesExt, FiniteSets

CONSTANTS
    Clients,     (* connections that clients may open                       *)
    Dests,       (* destination addresses                                   *)
    MaxDue,      (* bound: requests and answers per destination             *)
    NetlinkMax,  (* bound: the receive buffer of the netlink socket         *)
    StreamMax,   (* bound: messages a peer writes before the other reads    *)
    Faults       (* what may go wrong: "exit", "kill", "close", "type",     *)
                 (* "silent" (a daemon that drops a request), "alloc"       *)

ASSUME AgentAssumption ==
    /\ IsFiniteSet(Clients) /\ {"ods_fd", "command_server_fd"} \cap Clients = {}
    /\ MaxDue \in Nat \ {0}
    /\ NetlinkMax \in Nat \ {0}
    /\ StreamMax \in 1..60   (* recv() takes 1023 bytes, a message is 17 *)
    /\ Faults \subseteq {"exit", "kill", "close", "type", "silent", "alloc"}

VARIABLES
    la,       \* the process: "down", "up", "closing" (EXIT sent)
    laPc,     \* "select", "scan" or "feedback" (an answer was just read)
    serv,     \* la_serv_list
    fd_list,  \* the descriptors select() waits for
    rbits,    \* the descriptors select() found readable
    ix,       \* the loop index of la_main_loop
    held,     \* the answer read from a client: <<>> or <<dst, verdict>>
    netlink,  \* requests in the netlink socket
    conn,     \* state of each TCP connection, seen from the LA
    toLA,     \* bytes on their way from client to LA, as messages
    toClient, \* the same from LA to client
    todo      \* requests a daemon has read and not answered, per destination

laVars == <<la, laPc, serv, fd_list, rbits, ix, held>>
streams == <<conn, toLA, toClient, todo>>
agentVars == <<la, laPc, serv, fd_list, rbits, ix, held, netlink, conn, toLA,
               toClient, todo>>

Verdicts == {"NF_ACCEPT", "NF_DROP"}

(* "half": the client closed its end and the LA has not seen it yet;       *)
(* "reset": the peer also answered data of the LA with RST.                *)
Open == {"open", "half", "reset"}

None == [d \in Dests |-> 0]

Init ==
    /\ la = "down"
    /\ laPc = "select"
    /\ serv = <<>>
    /\ fd_list = <<"ods_fd", "command_server_fd">>
    /\ rbits = {}
    /\ ix = 1
    /\ held = <<>>
    /\ netlink = <<>>
    /\ conn = [c \in Clients |-> "closed"]
    /\ toLA = [c \in Clients |-> <<>>]
    /\ toClient = [c \in Clients |-> <<>>]
    /\ todo = [c \in Clients |-> None]

(* The requests for d in the netlink socket, on the connections and with   *)
(* the daemons, and the answers for d under way to the LA.                 *)
Unread(d) == {i \in DOMAIN netlink : netlink[i] = d}
ToDaemons(d) ==
    {m \in Clients \X (1..StreamMax) :
        m[2] <= Len(toClient[m[1]]) /\ toClient[m[1]][m[2]] = d}
WithDaemons(d) == {m \in Clients \X (1..MaxDue) : m[2] <= todo[m[1]][d]}
FromDaemons(d) ==
    {m \in Clients \X (1..StreamMax) :
        m[2] <= Len(toLA[m[1]]) /\ toLA[m[1]][m[2]][1] = d}

(* How many answers for d are still to reach the kernel.                   *)
Due(d) ==
    Cardinality(Unread(d)) + (IF held # <<>> /\ held[1] = d THEN 1 ELSE 0)
    + Cardinality(ToDaemons(d)) + Cardinality(WithDaemons(d))
    + Cardinality(FromDaemons(d))

-----------------------------------------------------------------------------
(* The select loop.                                                        *)

Readable(fd) ==
    \/ fd = "ods_fd" /\ netlink # <<>>
    \/ fd = "command_server_fd" /\ (\E c \in Clients : conn[c] = "backlog")
    \/ /\ fd \in Clients
       /\ conn[fd] \in Open
       /\ toLA[fd] # <<>> \/ conn[fd] # "open"

(* Seeded fault: the scan ends with the first descriptor it serves.        *)
SelectOne ==
    /\ la = "up" /\ laPc = "select"
    /\ \E i \in DOMAIN fd_list :
          /\ Readable(fd_list[i])
          /\ \A j \in DOMAIN fd_list : j < i => ~Readable(fd_list[j])
          /\ rbits' = {fd_list[i]}
    /\ ix' = 1
    /\ laPc' = "scan"
    /\ UNCHANGED <<la, serv, fd_list, held, netlink, streams>>

(* la_fdset_register and select: returns with every readable descriptor.   *)
Select ==
    /\ la = "up" /\ laPc = "select"
    /\ \E i \in DOMAIN fd_list : Readable(fd_list[i])
    /\ rbits' = {fd \in ToSet(fd_list) : Readable(fd)}
    /\ ix' = 1
    /\ laPc' = "scan"
    /\ UNCHANGED <<la, serv, fd_list, held, netlink, streams>>

(* The next position of the scan whose bit is set.                         *)
Current(i) == /\ la = "up" /\ laPc = "scan"
              /\ i \in DOMAIN fd_list /\ i >= ix
              /\ fd_list[i] \in rbits
              /\ \A j \in DOMAIN fd_list : ix <= j /\ j < i =>
                    fd_list[j] \notin rbits

(* The scan is over: back to select.                                       *)
ScanDone ==
    /\ la = "up" /\ laPc = "scan"
    /\ \A i \in DOMAIN fd_list : i >= ix => fd_list[i] \notin rbits
    /\ laPc' = "select"
    /\ rbits' = {} /\ ix' = 1
    /\ UNCHANGED <<la, serv, fd_list, held, netlink, streams>>

-----------------------------------------------------------------------------
(* The handlers.                                                           *)

(* Seeded fault: the loop over the clients starts at 1.                    *)
FirstDaemonButOne(i) == /\ i \in DOMAIN serv \ {1}
                        /\ serv[i].type = "daemon"
                        /\ \A j \in 2..i - 1 : serv[j].type # "daemon"

(* The client la_ods_message_handle picks: the first daemon of the list.   *)
FirstDaemon(i) == /\ i \in DOMAIN serv
                  /\ serv[i].type = "daemon"
                  /\ \A j \in DOMAIN serv : j < i => serv[j].type # "daemon"

(* Everything the process holds is gone, and its connections with it.      *)
LaReset ==
    /\ la' = "down"
    /\ laPc' = "select"
    /\ serv' = <<>> /\ fd_list' = <<"ods_fd", "command_server_fd">>
    /\ rbits' = {} /\ ix' = 1
    /\ held' = <<>>
    /\ netlink' = <<>>
    /\ conn' = [c \in Clients |-> "closed"]
    /\ toLA' = [c \in Clients |-> <<>>]
    /\ toClient' = [c \in Clients |-> <<>>]
    /\ todo' = [c \in Clients |-> None]

(* Seeded fault: recv() drains the socket, of which only the first request *)
(* is forwarded.                                                           *)
OdsMessageDrained(i) ==
    /\ Current(i) /\ fd_list[i] = "ods_fd"
    /\ netlink # <<>>
    /\ netlink' = <<>>
    /\ ix' = i + 1
    /\ toClient' = [c \in Clients |->
                       IF \E k \in DOMAIN serv : FirstDaemon(k) /\ serv[k].sock_fd = c
                       THEN Append(toClient[c], Head(netlink)) ELSE toClient[c]]
    /\ UNCHANGED <<la, laPc, serv, fd_list, rbits, held, conn, toLA, todo>>

(* la_ods_message_handle: one request is read and forwarded to one daemon; *)
(* with no daemon in the list it is gone.  send() succeeds on a connection *)
(* that the peer has closed, which answers with RST.                       *)
OdsMessage(i) ==
    /\ Current(i) /\ fd_list[i] = "ods_fd"
    /\ netlink # <<>>
    /\ netlink' = Tail(netlink)
    /\ ix' = i + 1
    /\ \/ /\ \A k \in DOMAIN serv : ~FirstDaemon(k)
          /\ UNCHANGED <<conn, toClient>>
       \/ \E k \in DOMAIN serv :
             LET c == serv[k].sock_fd IN
             /\ FirstDaemon(k)
             /\ \/ /\ conn[c] = "open"
                   /\ Len(toClient[c]) < StreamMax
                   /\ toClient' = [toClient EXCEPT ![c] = Append(@, Head(netlink))]
                   /\ UNCHANGED conn
                \/ /\ conn[c] = "half"
                   /\ conn' = [conn EXCEPT ![c] = "reset"]
                   /\ UNCHANGED toClient
                \/ /\ conn[c] = "reset"
                   /\ UNCHANGED <<conn, toClient>>
    /\ UNCHANGED <<la, laPc, serv, fd_list, rbits, held, toLA, todo>>

(* The same send() on a connection already reset raises SIGPIPE, for which *)
(* the LA has no handler: it ends without an EXIT message.                 *)
OdsMessageSigpipe(i) ==
    /\ Current(i) /\ fd_list[i] = "ods_fd"
    /\ netlink # <<>>
    /\ \E k \in DOMAIN serv : FirstDaemon(k) /\ conn[serv[k].sock_fd] = "reset"
    /\ LaReset

(* la_command_server_accept: LAServ() leaves type uninitialised.           *)
Accept(i) ==
    /\ Current(i) /\ fd_list[i] = "command_server_fd"
    /\ \E c \in Clients, t \in {"daemon", "other"} :
          /\ conn[c] = "backlog"
          /\ t = "other" => "type" \in Faults
          /\ conn' = [conn EXCEPT ![c] = "open"]
          /\ serv' = Append(serv, [sock_fd |-> c, type |-> t])
          /\ fd_list' = Append(fd_list, c)
    /\ ix' = i + 1
    /\ UNCHANGED <<la, laPc, rbits, held, netlink, toLA, toClient, todo>>

(* la_serv_handle_message, data: recv() empties the connection, and        *)
(* parse_stream looks at the first message only.                           *)
ClientMessage(i) ==
    LET c == fd_list[i] IN
    /\ Current(i) /\ c \in Clients
    /\ toLA[c] # <<>>
    /\ held' = Head(toLA[c])
    /\ toLA' = [toLA EXCEPT ![c] = <<>>]
    /\ laPc' = "feedback"
    /\ ix' = i + 1
    /\ UNCHANGED <<la, serv, fd_list, rbits, netlink, conn, toClient, todo>>

(* Seeded fault: the buffer of the answer is not cleared.                  *)
FeedbackKept(d, v) ==
    /\ la = "up" /\ laPc = "feedback"
    /\ held = <<d, v>>
    /\ laPc' = "scan"
    /\ UNCHANGED <<la, serv, fd_list, rbits, ix, held, netlink, streams>>

(* ODS_feedback_route_reply: the answer goes to the kernel.                *)
Feedback(d, v) ==
    /\ la = "up" /\ laPc = "feedback"
    /\ held = <<d, v>>
    /\ held' = <<>>
    /\ laPc' = "scan"
    /\ UNCHANGED <<la, serv, fd_list, rbits, ix, netlink, streams>>

(* The position of c in la_serv_list.                                      *)
Position(c) == CHOOSE k \in DOMAIN serv : serv[k].sock_fd = c

(* Seeded fault: close() without la_fdset_update(FD_DEL).                  *)
ClientGoneWatched(i) ==
    LET c == fd_list[i] IN
    /\ Current(i) /\ c \in Clients
    /\ toLA[c] = <<>>
    /\ serv' = RemoveAt(serv, Position(c))
    /\ conn' = [conn EXCEPT ![c] = "closed"]
    /\ ix' = i + 1
    /\ UNCHANGED <<la, laPc, fd_list, rbits, held, netlink, toLA, toClient, todo>>

(* la_serv_handle_message, end of file or error: the client is erased from *)
(* both lists, which moves the next one to the current position.           *)
ClientGone(i) ==
    LET c == fd_list[i] IN
    /\ Current(i) /\ c \in Clients
    /\ toLA[c] = <<>>
    /\ serv' = RemoveAt(serv, Position(c))
    /\ fd_list' = RemoveAt(fd_list, i)
    /\ conn' = [conn EXCEPT ![c] = "closed"]
    /\ ix' = i + 1
    /\ UNCHANGED <<la, laPc, rbits, held, netlink, toLA, toClient, todo>>

-----------------------------------------------------------------------------
(* The process.                                                            *)

Start ==
    /\ la = "down"
    /\ la' = "up"
    /\ UNCHANGED <<laPc, serv, fd_list, rbits, ix, held, netlink, streams>>

(* close_function, the SIGINT handler: EXIT is sent, then the process ends *)
Exit ==
    /\ "exit" \in Faults
    /\ la = "up"
    /\ la' = "closing"
    /\ UNCHANGED <<laPc, serv, fd_list, rbits, ix, held, netlink, streams>>

Gone ==
    /\ \/ la = "closing"
       \/ la = "up" /\ "kill" \in Faults
    /\ LaReset

-----------------------------------------------------------------------------
(* The peers: the kernel's side of the netlink socket, and the clients,    *)
(* of which the AODV daemon reads requests the way the LA reads answers.   *)

KernelRequest(d) ==
    /\ la = "up"
    /\ Len(netlink) < NetlinkMax
    /\ Due(d) < MaxDue
    /\ netlink' = Append(netlink, d)
    /\ UNCHANGED <<laVars, streams>>

Connect(c) ==
    /\ la = "up"
    /\ conn[c] = "closed"
    /\ conn' = [conn EXCEPT ![c] = "backlog"]
    /\ UNCHANGED <<laVars, netlink, toLA, toClient, todo>>

(* aodv::recv_la_data: one recv(), one parse_stream.                       *)
DaemonRecv(c) ==
    /\ conn[c] = "open"
    /\ toClient[c] # <<>>
    /\ todo' = [todo EXCEPT ![c][Head(toClient[c])] = @ + 1]
    /\ toClient' = [toClient EXCEPT ![c] = <<>>]
    /\ UNCHANGED <<laVars, netlink, conn, toLA>>

(* A reply to a request, at once or when a route discovery has ended.      *)
DaemonAnswer(c, d, v) ==
    /\ conn[c] = "open"
    /\ todo[c][d] > 0
    /\ Len(toLA[c]) < StreamMax
    /\ todo' = [todo EXCEPT ![c][d] = @ - 1]
    /\ toLA' = [toLA EXCEPT ![c] = Append(@, <<d, v>>)]
    /\ UNCHANGED <<laVars, netlink, conn, toClient>>

(* A reply nobody asked for: a route to d was learnt from a message.       *)
DaemonVolunteers(c, d) ==
    /\ conn[c] = "open"
    /\ Len(toLA[c]) < StreamMax
    /\ Due(d) < MaxDue
    /\ toLA' = [toLA EXCEPT ![c] = Append(@, <<d, "NF_ACCEPT">>)]
    /\ UNCHANGED <<laVars, netlink, conn, toClient, todo>>

(* process_asl has paths that send no reply.                               *)
DaemonSilent(c, d) ==
    /\ "silent" \in Faults
    /\ todo[c][d] > 0
    /\ todo' = [todo EXCEPT ![c][d] = @ - 1]
    /\ UNCHANGED <<laVars, netlink, conn, toLA, toClient>>

(* A client ends.  Unread requests in its socket turn its FIN into RST; a  *)
(* client that ends while in the backlog looks like one that ends later.   *)
ClientClose(c) ==
    /\ "close" \in Faults
    /\ conn[c] = "open"
    /\ conn' = [conn EXCEPT ![c] = IF toClient[c] = <<>> THEN "half" ELSE "reset"]
    /\ toClient' = [toClient EXCEPT ![c] = <<>>]
    /\ todo' = [todo EXCEPT ![c] = None]
    /\ UNCHANGED <<laVars, netlink, toLA>>

-----------------------------------------------------------------------------

Dispatch(i) == OdsMessage(i) \/ OdsMessageSigpipe(i) \/ Accept(i)
               \/ ClientMessage(i) \/ ClientGone(i)

Loop == Select \/ ScanDone \/ (\E i \in DOMAIN fd_list : Dispatch(i))

Answer == \E d \in Dests, v \in Verdicts : Feedback(d, v)

Daemon(c) ==
    \/ DaemonRecv(c)
    \/ \E d \in Dests, v \in Verdicts : DaemonAnswer(c, d, v)
    \/ \E d \in Dests : DaemonVolunteers(c, d) \/ DaemonSilent(c, d)

Next ==
    \/ Loop \/ Answer
    \/ Start \/ Exit \/ Gone
    \/ \E d \in Dests : KernelRequest(d)
    \/ \E c \in Clients : Connect(c) \/ Daemon(c) \/ ClientClose(c)

Spec == Init /\ [][Next]_agentVars

(* The LA runs whenever one of its descriptors is readable, a process that *)
(* has sent EXIT ends, and daemons read their connections.                 *)
FairSpec ==
    /\ Spec
    /\ WF_agentVars(Loop \/ Answer)
    /\ WF_agentVars(la = "closing" /\ Gone)
    /\ \A c \in Clients : WF_agentVars(DaemonRecv(c))

-----------------------------------------------------------------------------
(* Properties.                                                             *)

TypeOK ==
    /\ la \in {"down", "up", "closing"}
    /\ laPc \in {"select", "scan", "feedback"}
    /\ serv \in Seq([sock_fd : Clients, type : {"daemon", "other"}])
    /\ fd_list \in Seq({"ods_fd", "command_server_fd"} \cup Clients)
    /\ rbits \subseteq {"ods_fd", "command_server_fd"} \cup Clients
    /\ ix \in Nat \ {0}
    /\ held \in {<<>>} \cup (Dests \X Verdicts)
    /\ held = <<>> <=> laPc # "feedback"
    /\ netlink \in Seq(Dests) /\ Len(netlink) <= NetlinkMax
    /\ conn \in [Clients -> {"closed", "backlog"} \cup Open]
    /\ \A c \in Clients : /\ toLA[c] \in Seq(Dests \X Verdicts)
                          /\ Len(toLA[c]) <= StreamMax
                          /\ toClient[c] \in Seq(Dests)
                          /\ Len(toClient[c]) <= StreamMax
    /\ todo \in [Clients -> [Dests -> 0..MaxDue]]

(* select() is never given a descriptor that is closed, which would end    *)
(* la_main_loop with EBADF, and never misses an open one; both lists are   *)
(* edited apart, in the middle of the scan over one of them.               *)
DescriptorsLive ==
    LET accepted == {c \in Clients : conn[c] \in Open} IN
    /\ ToSet(fd_list) = {"ods_fd", "command_server_fd"} \cup accepted
    /\ {s.sock_fd : s \in ToSet(serv)} = accepted
    /\ IsInjective(fd_list)
    /\ Len(serv) = Cardinality(accepted)

(* The answers to come that disappear are those that reach the kernel,     *)
(* requests read while no daemon is in the list or the one they are sent   *)
(* to has ended, what a client that ends held, messages that one recv()    *)
(* returned behind another one, and all of them when the LA ends, by       *)
(* SIGPIPE for one; a daemon may also never answer a request it has read.  *)
LossesNamed ==
    [][\A d \in Dests : Due(d)' < Due(d) =>
          \/ held = <<d, "NF_ACCEPT">> \/ held = <<d, "NF_DROP">>
          \/ /\ netlink # <<>> /\ Head(netlink) = d
             /\ \A k \in DOMAIN serv : FirstDaemon(k) => conn[serv[k].sock_fd] # "open"
          \/ \E c \in Clients :
                \/ conn[c] = "open" /\ conn'[c] \in {"half", "reset"}
                \/ Len(toLA[c]) > 1 /\ toLA'[c] = <<>>
                \/ Len(toClient[c]) > 1 /\ toClient'[c] = <<>>
                \/ "silent" \in Faults /\ todo'[c][d] < todo[c][d] /\ toLA' = toLA
          \/ /\ la' = "down"
             /\ \/ la = "closing" \/ "kill" \in Faults
                \/ \E c \in Clients : conn[c] = "reset"]_agentVars

(* A client that ended is noticed, and an answer that arrived is read,     *)
(* although an erase during the scan makes the loop pass over the          *)
(* descriptor that moved into the gap.                                     *)
ClientsServed ==
    \A c \in Clients :
       /\ conn[c] \in {"half", "reset"} ~> conn[c] \notin {"half", "reset"}
       /\ toLA[c] # <<>> ~> toLA[c] = <<>>

(* LA/common.h: a request of the kernel is to be forwarded to the routing  *)
(* daemon.  Here only for requests read while a daemon is connected.       *)
RequestForwarded ==
    [][Len(netlink') < Len(netlink) /\ la' = "up" /\ serv # <<>> =>
          \E c \in Clients : Len(toClient'[c]) > Len(toClient[c])]_agentVars

=============================================================================
