--------------------------- MODULE OdsKernelProofs ---------------------------
(* Proofs about the in-kernel half of the on-demand service, for any       *)
(* number of packets, destinations and contexts and any list length.       *)
EXTENDS OdsKernel, ListLemmas

Holding == {"receive_packet", "pending_ip", "transmit_rtinfo",
            "packet_enqueue", "reroute"}

(* Control state and data agree: who holds a packet, who may run the       *)
(* handler's labels, and for which destination the handler works.          *)
Control ==
    /\ \A c \in Procs : skb[c] # NoPacket <=> pc[c] \in Holding
    /\ \A c \in Contexts : pc[c] \notin {"send_packet", "reroute"}
    /\ reply = {} <=> pc[Handler] = "idle"
    /\ \A r1, r2 \in reply : r1 = r2
    /\ skb[Handler] # NoPacket => Answering(Dst[skb[Handler]])

-----------------------------------------------------------------------------
(* Typing and control.                                                     *)

(* An empty list and idle contexts are well typed.                         *)
LEMMA TypeInit == Init => TypeOK /\ Control
  <1> SUFFICES ASSUME Init
               PROVE  TypeOK /\ Control
    OBVIOUS
  <1>1. TypeOK
    <2>1. queue \in Seq(Packets)
      BY DEF Init
    <2>2. due \in [Dests -> 0..MaxDue] /\ losses \in 0..RouteLosses
      BY KernelAssumption DEF Init
    <2>3. /\ pc \in [Procs -> Labels]
          /\ skb \in [Procs -> Packets \cup {NoPacket}]
          /\ route \in [Dests -> {"mytun", "dev"}]
      BY DEF Init, Labels
    <2> QED
      BY <2>1, <2>2, <2>3 DEF Init, TypeOK
  <1>2. Control
    BY KernelAssumption DEF Init, Control, Holding, Procs
  <1> QED
    BY <1>1, <1>2

(* No step of hooks, handler or environment leaves types and control.      *)
LEMMA TypeStep == TypeOK /\ Control /\ [Next]_vars => TypeOK' /\ Control'
  <1> SUFFICES ASSUME TypeOK, Control, [Next]_vars
               PROVE  TypeOK' /\ Control'
    OBVIOUS
  <1> USE KernelAssumption DEF TypeOK, Control, Holding, Labels, Procs,
                               Verdicts, Answering, env, ghosts
  <1>1. ASSUME NEW c \in Contexts, NEW p \in Packets, AcceptPacket(c, p)
        PROVE  TypeOK' /\ Control'
    BY <1>1 DEF AcceptPacket
  <1>2. ASSUME NEW c \in Contexts, NEW p \in Packets, StealPacket(c, p)
        PROVE  TypeOK' /\ Control'
    BY <1>2 DEF StealPacket, Goto
  <1>3. ASSUME NEW c \in Procs, ReadFlag(c)
        PROVE  TypeOK' /\ Control'
    <2>1. skb[c] \in Packets
      BY <1>3 DEF ReadFlag
    <2>2. /\ pc' \in [Procs -> Labels]
          /\ skb' \in [Procs -> Packets \cup {NoPacket}]
          /\ freed' \subseteq Packets
      BY <1>3, <2>1 DEF ReadFlag, Return, AfterReceive, Goto
    <2>3. TypeOK'
      BY <1>3, <2>2 DEF ReadFlag
    <2>4. CASE Goto(c, "pending_ip") /\ UNCHANGED <<skb, freed>>
      <3>1. Control'
        BY <1>3, <2>1, <2>4 DEF ReadFlag, Goto
      <3> QED
        BY <2>3, <3>1
    <2>5. CASE Return(c)
      <3>1. Control'
        BY <1>3, <2>1, <2>5 DEF ReadFlag, Return, AfterReceive, Goto
      <3> QED
        BY <2>3, <3>1
    <2> QED
      BY <1>3, <2>4, <2>5 DEF ReadFlag
  <1>4. ASSUME NEW c \in Procs, PendingIp(c)
        PROVE  TypeOK' /\ Control'
    BY <1>4 DEF PendingIp, Goto
  <1>5. ASSUME NEW c \in Procs, TransmitRtinfo(c)
        PROVE  TypeOK' /\ Control'
    <2>1. /\ skb[c] \in Packets
          /\ Dst[skb[c]] \in Dests
      BY <1>5 DEF TransmitRtinfo
    <2>2. due' \in [Dests -> 0..MaxDue]
      <3>1. due[Dst[skb[c]]] < MaxDue => due[Dst[skb[c]]] + 1 \in 0..MaxDue
        BY <2>1
      <3>2. CASE /\ due[Dst[skb[c]]] < MaxDue
                 /\ due' = [due EXCEPT ![Dst[skb[c]]] = @ + 1]
        BY <2>1, <3>1, <3>2
      <3>3. CASE UNCHANGED due
        BY <3>3
      <3> QED
        BY <1>5, <3>2, <3>3 DEF TransmitRtinfo
    <2>3. pc' \in [Procs -> Labels] /\ lost' \subseteq Dests
      BY <1>5, <2>1 DEF TransmitRtinfo, Goto
    <2>4. TypeOK'
      BY <1>5, <2>2, <2>3 DEF TransmitRtinfo
    <2>5. Control'
      BY <1>5 DEF TransmitRtinfo, Goto
    <2> QED
      BY <2>4, <2>5
  <1>6. ASSUME NEW c \in Procs, PacketEnqueue(c)
        PROVE  TypeOK' /\ Control'
    <2>1. skb[c] \in Packets
      BY <1>6 DEF PacketEnqueue, Park
    <2>2. queue' \in Seq(Packets) /\ freed' \subseteq Packets
      <3>1. Append(queue, skb[c]) \in Seq(Packets)
        BY <2>1
      <3> QED
        BY <1>6, <2>1, <3>1 DEF PacketEnqueue, Park
    <2>3. /\ pc' \in [Procs -> Labels]
          /\ skb' \in [Procs -> Packets \cup {NoPacket}]
      BY <1>6 DEF PacketEnqueue, Park, Return, AfterReceive, Goto
    <2>4. TypeOK'
      BY <1>6, <2>2, <2>3 DEF PacketEnqueue, Park
    <2>5. Control'
      BY <1>6 DEF PacketEnqueue, Park, Return, AfterReceive, Goto
    <2> QED
      BY <2>4, <2>5
  <1>7. ASSUME NEW d \in Dests, NEW v \in Verdicts, RecvInfo(d, v)
        PROVE  TypeOK' /\ Control'
    BY <1>7 DEF RecvInfo, Goto
  <1>8. CASE ReleaseOne
    <2>1. PICK d \in Dests, v \in Verdicts, i \in DOMAIN queue :
             /\ <<d, v>> \in reply
             /\ Dst[queue[i]] = d
             /\ queue' = RemoveAt(queue, i)
             /\ exposed' = exposed \ {queue[i]}
             /\ \/ /\ freed' = freed \cup {queue[i]}
                   /\ UNCHANGED <<pc, skb>>
                \/ /\ skb' = [skb EXCEPT ![Handler] = queue[i]]
                   /\ Goto(Handler, "reroute")
                   /\ UNCHANGED freed
      BY <1>8 DEF ReleaseOne, Oldest
    <2>2. queue[i] \in Packets /\ queue' \in Seq(Packets)
      BY <2>1, RemoveAtFacts
    <2>3. /\ pc' \in [Procs -> Labels]
          /\ skb' \in [Procs -> Packets \cup {NoPacket}]
          /\ freed' \subseteq Packets
          /\ exposed' \subseteq Packets
      BY <2>1, <2>2 DEF Goto
    <2>4. TypeOK'
      BY <1>8, <2>2, <2>3 DEF ReleaseOne
    <2>5. CASE UNCHANGED <<pc, skb>>
      <3>1. UNCHANGED reply
        BY <1>8 DEF ReleaseOne
      <3> QED
        BY <2>4, <2>5, <3>1
    <2>6. CASE skb' = [skb EXCEPT ![Handler] = queue[i]] /\ Goto(Handler, "reroute")
      BY <1>8, <2>1, <2>2, <2>6 DEF ReleaseOne, Goto
    <2> QED
      BY <2>1, <2>4, <2>5, <2>6
  <1>9. CASE Reroute
    <2>1. skb[Handler] \in Packets
      BY <1>9 DEF Reroute
    <2>2. CASE Return(Handler) /\ sent' = sent \cup {skb[Handler]}
      BY <1>9, <2>1, <2>2 DEF Reroute, Return, AfterReceive, Goto
    <2>3. CASE Goto(Handler, "receive_packet") /\ UNCHANGED <<sent, skb>>
      BY <1>9, <2>1, <2>3 DEF Reroute, Goto
    <2> QED
      BY <1>9, <2>2, <2>3 DEF Reroute
  <1>10. CASE ReleaseDone
    <2>1. Late \subseteq Packets
      BY DEF Late
    <2> QED
      BY <1>10, <2>1 DEF ReleaseDone, Goto
  <1>11. CASE LaStart
    BY <1>11 DEF LaStart
  <1>12. CASE LaExit
    BY <1>12 DEF LaExit
  <1>13. CASE LaGone
    BY <1>13 DEF LaGone, KeepAnswers
  <1>14. CASE LoseAnswers
    BY <1>14 DEF LoseAnswers, KeepAnswers
  <1>15. ASSUME NEW d \in Dests, Volunteer(d) \/ RouteFound(d) \/ RouteLost(d)
         PROVE  TypeOK' /\ Control'
    <2>1. /\ due' \in [Dests -> 0..MaxDue]
          /\ route' \in [Dests -> {"mytun", "dev"}]
          /\ losses' \in 0..RouteLosses
          /\ lost' \subseteq Dests
      <3>1. CASE Volunteer(d)
        BY <3>1 DEF Volunteer
      <3>2. CASE RouteFound(d)
        BY <3>2 DEF RouteFound
      <3>3. CASE RouteLost(d)
        BY <3>3 DEF RouteLost
      <3> QED
        BY <1>15, <3>1, <3>2, <3>3
    <2>2. UNCHANGED <<transmission_flag, queue, pc, skb, reply, arrived,
                      sent, freed, la, exposed>>
      BY <1>15 DEF Volunteer, RouteFound, RouteLost
    <2> QED
      BY <2>1, <2>2
  <1>16. CASE UNCHANGED vars
    BY <1>16 DEF vars
  <1> QED
    BY <1>1, <1>2, <1>3, <1>4, <1>5, <1>6, <1>7, <1>8, <1>9, <1>10, <1>11,
       <1>12, <1>13, <1>14, <1>15, <1>16
    DEF Next, ReceivePacket, SendPacket, Environment

(* Every variable keeps its type, a context holds a packet exactly while   *)
(* it is inside receive_packet or reroute, and the handler works for one   *)
(* destination at a time.                                                  *)
THEOREM TypeCorrect == Spec => [](TypeOK /\ Control)
  BY TypeInit, TypeStep, PTL DEF Spec
-----------------------------------------------------------------------------
(* The list.                                                               *)

(* What the two list operations do to the set of parked packets.           *)
LEMMA EnqueueFacts ==
    ASSUME TypeOK, NEW p \in Packets, queue' = Append(queue, p)
    PROVE  /\ Queued' = Queued \cup {p}
           /\ Len(queue') = Len(queue) + 1
           /\ DOMAIN queue' = 1..(Len(queue) + 1)
           /\ \A i \in DOMAIN queue : queue'[i] = queue[i]
           /\ queue'[Len(queue) + 1] = p
  <1>1. /\ Len(queue) \in Nat
        /\ DOMAIN queue = 1..Len(queue)
        /\ queue \in Seq(Packets)
    BY DEF TypeOK
  <1>2. /\ Len(queue') = Len(queue) + 1
        /\ DOMAIN queue' = 1..(Len(queue) + 1)
        /\ \A i \in DOMAIN queue : queue'[i] = queue[i]
        /\ queue'[Len(queue) + 1] = p
    BY <1>1, AppendProperties
  <1>3. Queued' = Queued \cup {p}
    BY <1>1, <1>2 DEF Queued
  <1> QED BY <1>2, <1>3

(* Only the removed packet leaves the list.                                *)
LEMMA RemovedSet ==
    ASSUME TypeOK, NEW i \in DOMAIN queue, queue' = RemoveAt(queue, i)
    PROVE  /\ Queued' \subseteq Queued
           /\ \A q \in Queued : q # queue[i] => q \in Queued'
  <1>1. /\ Len(queue) \in Nat
        /\ DOMAIN queue = 1..Len(queue)
        /\ queue \in Seq(Packets)
        /\ i \in 1..Len(queue)
    BY DEF TypeOK
  <1>2. /\ queue' \in Seq(Packets)
        /\ Len(queue') = Len(queue) - 1
        /\ \A j \in 1..(Len(queue) - 1) :
              queue'[j] = IF j < i THEN queue[j] ELSE queue[j + 1]
    BY <1>1, RemoveAtFacts
  <1>3. DOMAIN queue' = 1..(Len(queue) - 1)
    BY <1>1, <1>2
  <1>4. Queued' \subseteq Queued
    BY <1>1, <1>2, <1>3 DEF Queued
  <1>5. ASSUME NEW q \in Queued, q # queue[i]
        PROVE  q \in Queued'
    <2>1. PICK j \in DOMAIN queue : q = queue[j] /\ j # i
      BY <1>5 DEF Queued
    <2>2. CASE j < i
      BY <1>1, <1>2, <1>3, <2>1, <2>2 DEF Queued
    <2>3. CASE j > i
      <3>1. j - 1 \in 1..(Len(queue) - 1) /\ ~(j - 1 < i) /\ (j - 1) + 1 = j
        BY <1>1, <2>1, <2>3
      <3>2. queue'[j - 1] = queue[j]
        BY <1>2, <3>1
      <3> QED BY <1>3, <2>1, <3>1, <3>2 DEF Queued
    <2> QED BY <1>1, <2>1, <2>2, <2>3
  <1> QED BY <1>4, <1>5

(* packet_dequeue takes the packet out of the list and no other one.       *)
LEMMA DequeueFacts ==
    ASSUME TypeOK, NEW i \in DOMAIN queue, queue' = RemoveAt(queue, i),
           \A j, k \in DOMAIN queue : queue[j] = queue[k] => j = k
    PROVE  /\ Queued' = Queued \ {queue[i]}
           /\ Len(queue') = Len(queue) - 1
           /\ \A j, k \in DOMAIN queue' : queue'[j] = queue'[k] => j = k
  <1>1. /\ Len(queue) \in Nat
        /\ DOMAIN queue = 1..Len(queue)
        /\ queue \in Seq(Packets)
        /\ i \in 1..Len(queue)
    BY DEF TypeOK
  <1>2. /\ Len(queue') = Len(queue) - 1
        /\ DOMAIN queue' = 1..(Len(queue) - 1)
        /\ \A j \in 1..(Len(queue) - 1) :
              queue'[j] = IF j < i THEN queue[j] ELSE queue[j + 1]
    <2>1. RemoveAt(queue, i) \in Seq(Packets)
      BY <1>1, RemoveAtFacts
    <2>2. Len(RemoveAt(queue, i)) = Len(queue) - 1
      BY <1>1, RemoveAtFacts
    <2>3. \A j \in 1..(Len(queue) - 1) :
             RemoveAt(queue, i)[j] = IF j < i THEN queue[j] ELSE queue[j + 1]
      BY <1>1, RemoveAtFacts
    <2> QED
      BY <1>1, <2>1, <2>2, <2>3
  <1>3. ASSUME NEW j \in DOMAIN queue', NEW k \in DOMAIN queue', queue'[j] = queue'[k]
        PROVE  j = k
    <2>1. /\ (IF j < i THEN j ELSE j + 1) \in DOMAIN queue
          /\ (IF k < i THEN k ELSE k + 1) \in DOMAIN queue
          /\ queue'[j] = queue[IF j < i THEN j ELSE j + 1]
          /\ queue'[k] = queue[IF k < i THEN k ELSE k + 1]
      BY <1>1, <1>2
    <2>2. (IF j < i THEN j ELSE j + 1) = (IF k < i THEN k ELSE k + 1)
      BY <1>1, <1>3, <2>1
    <2> QED
      BY <1>1, <1>2, <2>2
  <1>4. queue[i] \notin Queued'
    BY <1>1, <1>2 DEF Queued
  <1>5. Queued' = Queued \ {queue[i]}
    BY <1>4, RemovedSet
  <1> QED BY <1>2, <1>3, <1>5

-----------------------------------------------------------------------------
(* Ownership.                                                              *)

(* OneOwner only looks at these variables.                                 *)
LEMMA OwnerStutter ==
    ASSUME OneOwner, UNCHANGED <<queue, skb, arrived, sent, freed>>
    PROVE  OneOwner'
  BY DEF OneOwner, Held, Queued

(* No step leaks, frees twice or shares a packet.                          *)
LEMMA OwnerStep ==
    TypeOK /\ Control /\ OneOwner /\ [Next]_vars => OneOwner'
  <1> SUFFICES ASSUME TypeOK, Control, OneOwner, [Next]_vars
               PROVE  OneOwner'
    OBVIOUS
  <1> USE KernelAssumption DEF OneOwner
  <1>1. ASSUME NEW c \in Contexts, NEW p \in Packets, AcceptPacket(c, p)
        PROVE  OneOwner'
    BY <1>1 DEF AcceptPacket, Held, Queued
  <1>2. ASSUME NEW c \in Contexts, NEW p \in Packets, StealPacket(c, p)
        PROVE  OneOwner'
    <2>1. skb[c] = NoPacket /\ c \in Procs
      BY <1>2 DEF StealPacket, Control, Holding, Procs
    <2>2. Held' = Held \cup {p} /\ Queued' = Queued
      BY <1>2, <2>1 DEF StealPacket, Held, Queued, TypeOK
    <2>3. p \notin Held \cup Queued \cup sent \cup freed
      BY <1>2 DEF StealPacket
    <2> QED
      BY <1>2, <2>1, <2>2, <2>3 DEF StealPacket, Held, TypeOK
  <1>3. ASSUME NEW c \in Procs, ReadFlag(c)
        PROVE  OneOwner'
    <2>1. skb[c] \in Packets
      BY <1>3 DEF ReadFlag, Control, Holding, TypeOK
    <2>2. CASE UNCHANGED <<skb, freed>>
      BY <1>3, <2>2, OwnerStutter DEF ReadFlag
    <2>3. CASE freed' = freed \cup {skb[c]} /\ Return(c)
      <3>1. Held' = Held \ {skb[c]} /\ Queued' = Queued
        BY <1>3, <2>1, <2>3 DEF ReadFlag, Return, Held, Queued, TypeOK
      <3> QED
        BY <1>3, <2>1, <2>3, <3>1 DEF ReadFlag, Return, Held, TypeOK
    <2> QED BY <1>3, <2>2, <2>3 DEF ReadFlag
  <1>4. ASSUME NEW c \in Procs, PacketEnqueue(c)
        PROVE  OneOwner'
    <2>1. skb[c] \in Packets /\ skb[c] \in Held
      BY <1>4 DEF PacketEnqueue, Park, Control, Holding, TypeOK, Held
    <2>2. Held' = Held \ {skb[c]}
      BY <1>4, <2>1 DEF PacketEnqueue, Park, Return, Held, TypeOK
    <2>3. \A c1, c2 \in Procs :
             skb'[c1] = skb'[c2] /\ skb'[c1] # NoPacket => c1 = c2
      BY <1>4 DEF PacketEnqueue, Park, Return, TypeOK
    <2>4. CASE queue' = Append(queue, skb[c]) /\ UNCHANGED freed
      <3>1. /\ Queued' = Queued \cup {skb[c]}
            /\ DOMAIN queue' = 1..(Len(queue) + 1)
            /\ \A i \in DOMAIN queue : queue'[i] = queue[i]
            /\ queue'[Len(queue) + 1] = skb[c]
        BY <2>1, <2>4, EnqueueFacts
      <3>2. \A i \in DOMAIN queue : queue[i] # skb[c]
        BY <2>1 DEF Queued
      <3>3. DOMAIN queue = 1..Len(queue) /\ Len(queue) \in Nat
        BY DEF TypeOK
      <3>4. \A i, j \in DOMAIN queue' : queue'[i] = queue'[j] => i = j
        BY <3>1, <3>2, <3>3
      <3> QED
        BY <1>4, <2>1, <2>2, <2>3, <2>4, <3>1, <3>4 DEF PacketEnqueue, Park
    <2>5. CASE freed' = freed \cup {skb[c]} /\ UNCHANGED queue
      <3>1. Queued' = Queued
        BY <2>5 DEF Queued
      <3> QED
        BY <1>4, <2>1, <2>2, <2>3, <2>5, <3>1 DEF PacketEnqueue, Park
    <2> QED BY <1>4, <2>4, <2>5 DEF PacketEnqueue, Park
  <1>5. CASE ReleaseOne
    <2>1. PICK d \in Dests, v \in Verdicts, i \in DOMAIN queue :
             /\ queue' = RemoveAt(queue, i)
             /\ \/ /\ freed' = freed \cup {queue[i]}
                   /\ UNCHANGED <<pc, skb>>
                \/ /\ skb' = [skb EXCEPT ![Handler] = queue[i]]
                   /\ UNCHANGED freed
      BY <1>5 DEF ReleaseOne
    <2>2. UNCHANGED <<arrived, sent>>
      BY <1>5 DEF ReleaseOne
    <2>3. /\ Queued' = Queued \ {queue[i]}
          /\ \A j, k \in DOMAIN queue' : queue'[j] = queue'[k] => j = k
      BY <2>1, DequeueFacts
    <2>4. queue[i] \in Queued /\ queue[i] \in Packets
      BY DEF Queued, TypeOK
    <2>5. CASE freed' = freed \cup {queue[i]} /\ UNCHANGED <<pc, skb>>
      <3>1. Held' = Held
        BY <2>5 DEF Held
      <3> QED
        BY <2>2, <2>3, <2>4, <2>5, <3>1
    <2>6. CASE skb' = [skb EXCEPT ![Handler] = queue[i]] /\ UNCHANGED freed
      <3>1. skb[Handler] = NoPacket /\ Handler \in Procs
        BY <1>5 DEF ReleaseOne, Control, Holding, Procs
      <3>2. Held' = Held \cup {queue[i]}
        BY <2>4, <2>6, <3>1 DEF Held, TypeOK
      <3>3. \A c \in Procs : skb[c] # queue[i]
        BY <2>4 DEF Held
      <3> QED
        BY <2>2, <2>3, <2>4, <2>6, <3>1, <3>2, <3>3 DEF TypeOK
    <2> QED BY <2>1, <2>5, <2>6
  <1>6. CASE Reroute
    <2>1. CASE UNCHANGED <<sent, skb>>
      BY <1>6, <2>1, OwnerStutter DEF Reroute
    <2>2. CASE sent' = sent \cup {skb[Handler]} /\ Return(Handler)
      <3>1. skb[Handler] \in Packets /\ Handler \in Procs
        BY <1>6 DEF Reroute, Control, Holding, TypeOK, Procs
      <3>2. Held' = Held \ {skb[Handler]} /\ Queued' = Queued
        BY <1>6, <2>2, <3>1 DEF Reroute, Return, Held, Queued, TypeOK
      <3> QED
        BY <1>6, <2>2, <3>1, <3>2 DEF Reroute, Return, Held, TypeOK
    <2> QED BY <1>6, <2>1, <2>2 DEF Reroute
  <1>7. CASE UNCHANGED <<queue, skb, arrived, sent, freed>>
    BY <1>7, OwnerStutter
  <1> QED
    BY <1>1, <1>2, <1>3, <1>4, <1>5, <1>6, <1>7
    DEF Next, vars, ReceivePacket, PendingIp, TransmitRtinfo, RecvInfo,
        SendPacket, ReleaseDone, Environment, LaStart, LaExit, LaGone,
        LoseAnswers, Volunteer, RouteFound, RouteLost

(* No packet leaks, is freed twice or is used after it was handed on.      *)
THEOREM Ownership == Spec => []OneOwner
  <1>1. Init => OneOwner
    BY DEF Init, OneOwner, Held, Queued
  <1> QED
    BY <1>1, OwnerStep, TypeCorrect, PTL DEF Spec
-----------------------------------------------------------------------------
(* Why a packet waits.                                                     *)

(* The cover of a packet survives a step that takes nothing from it.       *)
LEMMA CoverKept ==
    ASSUME TypeOK, NEW p \in Packets, Covered(p),
           Queued \subseteq Queued', reply' = reply, exposed \subseteq exposed',
           due[Dst[p]] > 0 => due'[Dst[p]] > 0 \/ Dst[p] \in lost',
           Dst[p] \in lost => due'[Dst[p]] > 0 \/ Dst[p] \in lost'
    PROVE  Covered(p)'
  BY DEF Covered, Answering

(* A step that only moves a context, and not to packet_enqueue.            *)
LEMMA CoverStutter ==
    ASSUME TypeOK, WaitsForAnswer, Late' \subseteq Late, Late \subseteq Packets,
           UNCHANGED <<queue, reply, due, lost, exposed>>
    PROVE  WaitsForAnswer'
  <1>1. Queued' = Queued /\ Queued \subseteq Packets
    BY DEF Queued, TypeOK
  <1> QED
    BY <1>1, CoverKept DEF WaitsForAnswer

(* Packets that are late or parked are packets.                            *)
LEMMA LateFacts ==
    ASSUME TypeOK, Control
    PROVE  Late \subseteq Packets /\ Queued \subseteq Packets
  BY KernelAssumption DEF Late, Queued, TypeOK, Control, Holding

(* Only the step of a context to packet_enqueue makes a packet late.       *)
LEMMA LateStep ==
    ASSUME TypeOK, NEW c \in Procs, NEW label,
           Goto(c, label), \A b \in Procs \ {c} : skb'[b] = skb[b]
    PROVE  /\ label # "packet_enqueue" => Late' \subseteq Late
           /\ Late' \subseteq Late \cup {skb'[c]}
  BY DEF Late, Goto, TypeOK

(* No step takes away the reason that a parked packet waits for.           *)
LEMMA WaitStep ==
    TypeOK /\ Control /\ WaitsForAnswer /\ [Next]_vars => WaitsForAnswer'
  <1> SUFFICES ASSUME TypeOK, Control, WaitsForAnswer, [Next]_vars
               PROVE  WaitsForAnswer'
    OBVIOUS
  <1> USE KernelAssumption
  <1>0. Late \subseteq Packets /\ Queued \subseteq Packets
    BY LateFacts
  <1>1. ASSUME NEW c \in Contexts, NEW p \in Packets, AcceptPacket(c, p)
        PROVE  WaitsForAnswer'
    <2>1. Late' = Late
      BY <1>1 DEF AcceptPacket, Late
    <2> QED
      BY <1>0, <1>1, <2>1, CoverStutter DEF AcceptPacket, ghosts
  <1>2. ASSUME NEW c \in Contexts, NEW p \in Packets, StealPacket(c, p)
        PROVE  WaitsForAnswer'
    <2>1. \A b \in Procs \ {c} : skb'[b] = skb[b]
      BY <1>2 DEF StealPacket, TypeOK
    <2>2. Late' \subseteq Late
      BY <1>2, <2>1, LateStep DEF StealPacket, Procs
    <2> QED
      BY <1>0, <1>2, <2>2, CoverStutter DEF StealPacket, ghosts
  <1>3. ASSUME NEW c \in Procs, ReadFlag(c)
        PROVE  WaitsForAnswer'
    <2>1. \A b \in Procs \ {c} : skb'[b] = skb[b]
      BY <1>3 DEF ReadFlag, Return, TypeOK
    <2>2. PICK label : Goto(c, label) /\ label # "packet_enqueue"
      BY <1>3 DEF ReadFlag, Return, AfterReceive
    <2>3. Late' \subseteq Late
      BY <2>1, <2>2, LateStep
    <2> QED
      BY <1>0, <1>3, <2>3, CoverStutter DEF ReadFlag, ghosts
  <1>4. ASSUME NEW c \in Procs, PendingIp(c)
        PROVE  WaitsForAnswer'
    <2>1. /\ skb[c] \in Packets
          /\ UNCHANGED <<queue, skb, reply, due, lost, exposed>>
          /\ Queued' = Queued
      BY <1>4 DEF PendingIp, Control, Holding, TypeOK, ghosts, Queued
    <2>2. CASE ~Pending(Dst[skb[c]])
      <3>1. Goto(c, "transmit_rtinfo")
        BY <1>4, <2>2 DEF PendingIp
      <3>2. Late' \subseteq Late
        BY <2>1, <3>1, LateStep
      <3> QED
        BY <1>0, <2>1, <3>2, CoverStutter
    <2>3. CASE Pending(Dst[skb[c]])
      <3>1. Goto(c, "packet_enqueue")
        BY <1>4, <2>3 DEF PendingIp
      <3>2. Late' \subseteq Late \cup {skb[c]}
        BY <2>1, <3>1, LateStep
      <3>3. PICK q \in Queued : Dst[q] = Dst[skb[c]]
        BY <2>3 DEF Pending, Queued
      <3>4. Covered(q)
        BY DEF WaitsForAnswer
      <3>5. Covered(skb[c])
        BY <2>1, <3>3, <3>4 DEF Covered
      <3>6. \A p \in Queued \cup Late \cup {skb[c]} : Covered(p)
        BY <3>5 DEF WaitsForAnswer
      <3> QED
        BY <1>0, <2>1, <3>2, <3>6, CoverKept DEF WaitsForAnswer
    <2> QED BY <2>2, <2>3
  <1>5. ASSUME NEW c \in Procs, TransmitRtinfo(c)
        PROVE  WaitsForAnswer'
    <2> DEFINE d == Dst[skb[c]]
    <2>1. /\ skb[c] \in Packets /\ d \in Dests
          /\ UNCHANGED <<queue, skb, reply, exposed>>
          /\ Queued' = Queued
      BY <1>5 DEF TransmitRtinfo, Control, Holding, TypeOK, ghosts, Queued
    <2>2. Late' \subseteq Late \cup {skb[c]}
      BY <1>5, <2>1, LateStep DEF TransmitRtinfo
    <2>3. \/ due'[d] > 0
          \/ d \in lost' /\ due' = due
      BY <1>5, <2>1 DEF TransmitRtinfo, TypeOK
    <2>4. \A e \in Dests \ {d} : due'[e] = due[e] /\ (e \in lost => e \in lost')
      BY <1>5, <2>1 DEF TransmitRtinfo, TypeOK
    <2>5. Covered(skb[c])'
      BY <2>1, <2>3 DEF Covered
    <2>6. ASSUME NEW p \in Queued \cup Late
          PROVE  Covered(p)'
      <3>1. CASE Dst[p] = d
        BY <2>1, <2>3, <3>1 DEF Covered
      <3>2. CASE Dst[p] # d
        <4>1. p \in Packets /\ Dst[p] \in Dests \ {d} /\ Covered(p)
          BY <1>0, <3>2 DEF WaitsForAnswer
        <4> QED
          BY <2>1, <2>4, <4>1, CoverKept
      <3> QED BY <3>1, <3>2
    <2> QED
      BY <2>1, <2>2, <2>5, <2>6 DEF WaitsForAnswer
  <1>6. ASSUME NEW c \in Procs, PacketEnqueue(c)
        PROVE  WaitsForAnswer'
    <2>1. /\ skb[c] \in Packets /\ skb[c] \in Late
          /\ UNCHANGED <<reply, due, lost, exposed>>
      BY <1>6 DEF PacketEnqueue, Park, Control, Holding, TypeOK, ghosts, Late
    <2>2. \A b \in Procs \ {c} : skb'[b] = skb[b]
      BY <1>6 DEF PacketEnqueue, Park, Return, TypeOK
    <2>3. PICK label : Goto(c, label) /\ label # "packet_enqueue"
      BY <1>6 DEF PacketEnqueue, Park, Return, AfterReceive
    <2>4. Late' \subseteq Late
      BY <2>2, <2>3, LateStep
    <2>5. Queued \subseteq Queued' /\ Queued' \subseteq Queued \cup {skb[c]}
      <3>1. CASE queue' = Append(queue, skb[c])
        BY <2>1, <3>1, EnqueueFacts
      <3>2. CASE UNCHANGED queue
        BY <3>2 DEF Queued
      <3> QED BY <1>6, <3>1, <3>2 DEF PacketEnqueue, Park
    <2> QED
      BY <1>0, <2>1, <2>4, <2>5, CoverKept DEF WaitsForAnswer
  <1>7. ASSUME NEW d \in Dests, NEW v \in Verdicts, RecvInfo(d, v)
        PROVE  WaitsForAnswer'
    <2>1. reply = {}
      BY <1>7 DEF RecvInfo, Control
    <2>2. /\ Late' \subseteq Late /\ Queued' = Queued
          /\ UNCHANGED <<lost, exposed>>
      BY <1>7, LateStep DEF RecvInfo, Queued, Procs, ghosts
    <2>3. Answering(d)'
      BY <1>7 DEF RecvInfo, Answering
    <2>4. \A e \in Dests \ {d} : due'[e] = due[e]
      BY <1>7 DEF RecvInfo, TypeOK
    <2>5. ASSUME NEW p \in Queued \cup Late
          PROVE  Covered(p)'
      <3>1. Covered(p) /\ ~Answering(Dst[p]) /\ Dst[p] \in Dests
        BY <1>0, <2>1 DEF WaitsForAnswer, Answering
      <3> QED
        BY <2>2, <2>3, <2>4, <3>1 DEF Covered
    <2> QED
      BY <2>2, <2>5 DEF WaitsForAnswer
  <1>8. CASE ReleaseOne
    <2>1. PICK d \in Dests, v \in Verdicts, i \in DOMAIN queue :
             /\ <<d, v>> \in reply
             /\ Dst[queue[i]] = d
             /\ queue' = RemoveAt(queue, i)
             /\ exposed' = exposed \ {queue[i]}
      BY <1>8 DEF ReleaseOne, Oldest
    <2>2. /\ UNCHANGED <<reply, due, lost>>
          /\ Answering(d) /\ Answering(d)'
      BY <1>8, <2>1 DEF ReleaseOne, Answering
    <2>3. Late' \subseteq Late
      <3>1. CASE UNCHANGED <<pc, skb>>
        BY <3>1 DEF Late
      <3>2. CASE /\ \E q : skb' = [skb EXCEPT ![Handler] = q]
                 /\ Goto(Handler, "reroute")
        <4>1. \A b \in Procs \ {Handler} : skb'[b] = skb[b]
          BY <3>2 DEF TypeOK
        <4> QED
          BY <3>2, <4>1, LateStep DEF Procs
      <3> QED BY <1>8, <3>1, <3>2 DEF ReleaseOne
    <2>4. /\ Queued' \subseteq Queued
          /\ \A q \in Queued : q # queue[i] => q \in Queued'
      BY <2>1, RemovedSet
    <2>5. ASSUME NEW p \in Queued \cup Late
          PROVE  Covered(p)'
      <3>1. CASE Dst[p] = d
        BY <2>2, <3>1 DEF Covered
      <3>2. CASE Dst[p] # d
        <4>1. Covered(p) /\ p # queue[i]
          BY <2>1, <3>2 DEF WaitsForAnswer
        <4>2. \A q \in Queued : Dst[q] = Dst[p] => q # queue[i]
          BY <2>1, <3>2
        <4> QED
          BY <2>1, <2>2, <2>4, <4>1, <4>2 DEF Covered, Answering
      <3> QED BY <3>1, <3>2
    <2> QED
      BY <2>3, <2>4, <2>5 DEF WaitsForAnswer
  <1>9. CASE Reroute
    <2>1. \A b \in Procs \ {Handler} : skb'[b] = skb[b]
      BY <1>9 DEF Reroute, Return, TypeOK
    <2>2. PICK label : Goto(Handler, label) /\ label # "packet_enqueue"
      BY <1>9 DEF Reroute, Return, AfterReceive
    <2>3. Late' \subseteq Late
      BY <2>1, <2>2, LateStep DEF Procs
    <2> QED
      BY <1>0, <1>9, <2>3, CoverStutter DEF Reroute, ghosts
  <1>10. CASE ReleaseDone
    <2>1. PICK d \in Dests :
             /\ Answering(d)
             /\ ~Pending(d)
             /\ lost' = lost \ {d}
             /\ exposed' = IF due[d] > 0 THEN exposed
                           ELSE exposed \cup {p \in Late : Dst[p] = d}
      BY <1>10 DEF ReleaseDone
    <2>2. /\ UNCHANGED due /\ Queued' = Queued
          /\ exposed \subseteq exposed'
          /\ Late' \subseteq Late
      BY <1>10, <2>1, LateStep DEF ReleaseDone, Queued, Procs
    <2>3. \A e \in Dests \ {d} : ~Answering(e)
      BY <2>1 DEF Control, Answering
    <2>4. ASSUME NEW p \in Queued \cup Late
          PROVE  Covered(p)'
      <3>1. CASE Dst[p] = d
        <4>1. p \notin Queued
          BY <2>1, <3>1 DEF Pending, Queued
        <4>2. p \in Late
          BY <4>1
        <4>3. due[d] > 0 \/ p \in exposed'
          BY <2>1, <3>1, <4>2
        <4> QED
          BY <2>2, <3>1, <4>3 DEF Covered
      <3>2. CASE Dst[p] # d
        <4>1. Covered(p) /\ ~Answering(Dst[p])
          BY <1>0, <2>3, <3>2 DEF WaitsForAnswer
        <4> QED
          BY <2>1, <2>2, <3>2, <4>1 DEF Covered
      <3> QED BY <3>1, <3>2
    <2> QED
      BY <2>2, <2>4 DEF WaitsForAnswer
  <1>11. CASE LaStart \/ LaExit
    <2>1. Late' = Late
      BY <1>11 DEF LaStart, LaExit, Late
    <2> QED
      BY <1>0, <1>11, <2>1, CoverStutter DEF LaStart, LaExit, ghosts
  <1>12. CASE LaGone \/ LoseAnswers
    <2>1. PICK left \in [Dests -> 0..MaxDue] : KeepAnswers(left)
      BY <1>12 DEF LaGone, LoseAnswers
    <2>2. /\ Queued' = Queued /\ Late' = Late
          /\ UNCHANGED <<reply, exposed>>
      BY <1>12 DEF LaGone, LoseAnswers, Queued, Late
    <2>3. \A e \in Dests : due[e] > 0 => due'[e] > 0 \/ e \in lost'
      BY <2>1 DEF KeepAnswers
    <2>4. lost \subseteq lost'
      BY <2>1 DEF KeepAnswers
    <2> QED
      BY <1>0, <2>2, <2>3, <2>4, CoverKept DEF WaitsForAnswer
  <1>13. ASSUME NEW d \in Dests, Volunteer(d)
         PROVE  WaitsForAnswer'
    <2>1. /\ Queued' = Queued /\ Late' = Late
          /\ UNCHANGED <<reply, exposed>>
      BY <1>13 DEF Volunteer, Queued, Late
    <2>2. /\ due'[d] > 0
          /\ \A e \in Dests \ {d} : due'[e] = due[e] /\ (e \in lost => e \in lost')
      BY <1>13 DEF Volunteer, TypeOK
    <2> QED
      BY <1>0, <2>1, <2>2, CoverKept DEF WaitsForAnswer
  <1>14. ASSUME NEW d \in Dests, RouteFound(d) \/ RouteLost(d)
         PROVE  WaitsForAnswer'
    <2>1. Late' = Late
      BY <1>14 DEF RouteFound, RouteLost, Late
    <2> QED
      BY <1>0, <1>14, <2>1, CoverStutter DEF RouteFound, RouteLost, ghosts
  <1>15. CASE UNCHANGED vars
    <2>1. Late' = Late
      BY <1>15 DEF vars, Late
    <2> QED
      BY <1>0, <1>15, <2>1, CoverStutter DEF vars
  <1> QED
    BY <1>1, <1>2, <1>3, <1>4, <1>5, <1>6, <1>7, <1>8, <1>9, <1>10, <1>11,
       <1>12, <1>13, <1>14, <1>15
    DEF Next, ReceivePacket, SendPacket, Environment

(* A parked packet either has an answer coming, or is stranded in one of   *)
(* the two ways that the ghosts record: nothing else goes wrong in the     *)
(* unlocked check, request and enqueue of receive_packet.                  *)
THEOREM Waiting == Spec => []WaitsForAnswer
  <1>1. Init => WaitsForAnswer
    BY DEF Init, WaitsForAnswer, Late, Queued
  <1> QED
    BY <1>1, WaitStep, TypeCorrect, PTL DEF Spec

(* Only a destination for which no answer is to come is lost.              *)
LostGone == \A d \in lost : due[d] = 0

(* Every step that makes an answer due finds the destination again.        *)
LEMMA LostStep == TypeOK /\ Control /\ LostGone /\ [Next]_vars => LostGone'
  <1> SUFFICES ASSUME TypeOK, Control, LostGone, [Next]_vars
               PROVE  LostGone'
    OBVIOUS
  <1> USE KernelAssumption
  <1>1. due \in [Dests -> 0..MaxDue] /\ lost \subseteq Dests
    BY DEF TypeOK
  <1>2. ASSUME lost' \subseteq lost, due' = due
        PROVE  LostGone'
    BY <1>2 DEF LostGone
  <1>3. ASSUME NEW c \in Procs, TransmitRtinfo(c)
        PROVE  LostGone'
    <2>1. CASE due' = [due EXCEPT ![Dst[skb[c]]] = @ + 1] /\ lost' = lost \ {Dst[skb[c]]}
      BY <1>1, <2>1 DEF LostGone
    <2>2. CASE due' = due /\ lost' = IF due[Dst[skb[c]]] = 0 THEN lost \cup {Dst[skb[c]]}
                                                             ELSE lost
      BY <2>2 DEF LostGone
    <2> QED
      BY <1>3, <2>1, <2>2 DEF TransmitRtinfo
  <1>4. ASSUME NEW d \in Dests, NEW v \in Verdicts, RecvInfo(d, v)
        PROVE  LostGone'
    <2>1. due[d] > 0 /\ due' = [due EXCEPT ![d] = @ - 1] /\ lost' = lost
      BY <1>4 DEF RecvInfo, ghosts
    <2> QED
      BY <1>1, <2>1 DEF LostGone
  <1>5. ASSUME NEW left \in [Dests -> 0..MaxDue], \A d \in Dests : left[d] <= due[d],
               KeepAnswers(left)
        PROVE  LostGone'
    BY <1>1, <1>5 DEF KeepAnswers, LostGone
  <1>6. CASE LaGone \/ LoseAnswers
    <2>1. CASE LaGone
      <3>1. [d \in Dests |-> 0] \in [Dests -> 0..MaxDue]
        OBVIOUS
      <3>2. \A d \in Dests : [x \in Dests |-> 0][d] <= due[d]
        BY <1>1
      <3> QED
        BY <1>5, <2>1, <3>1, <3>2 DEF LaGone
    <2>2. CASE LoseAnswers
      BY <1>5, <2>2 DEF LoseAnswers
    <2> QED
      BY <1>6, <2>1, <2>2
  <1>7. ASSUME NEW d \in Dests, Volunteer(d)
        PROVE  LostGone'
    <2>1. due' = [due EXCEPT ![d] = @ + 1] /\ lost' = lost \ {d}
      BY <1>7 DEF Volunteer
    <2> QED
      BY <1>1, <2>1 DEF LostGone
  <1>8. ASSUME NEW d \in Dests, RouteFound(d) \/ RouteLost(d)
        PROVE  LostGone'
    BY <1>2, <1>8 DEF RouteFound, RouteLost, ghosts
  <1>9. ASSUME NEW c \in Procs, ReceivePacket(c)
        PROVE  LostGone'
    BY <1>2, <1>3, <1>9 DEF ReceivePacket, ReadFlag, PendingIp, PacketEnqueue, Park, ghosts
  <1>10. ASSUME NEW c \in Contexts, NEW p \in Packets, AcceptPacket(c, p) \/ StealPacket(c, p)
         PROVE  LostGone'
    BY <1>2, <1>10 DEF AcceptPacket, StealPacket, ghosts
  <1>11. CASE SendPacket
    BY <1>2, <1>11 DEF SendPacket, ReleaseOne, Reroute, ReleaseDone, ghosts
  <1>12. CASE LaStart \/ LaExit \/ UNCHANGED vars
    BY <1>2, <1>12 DEF LaStart, LaExit, ghosts, vars
  <1> QED
    BY <1>4, <1>6, <1>7, <1>8, <1>9, <1>10, <1>11, <1>12 DEF Next, Environment

-----------------------------------------------------------------------------
(* What leaves the list, and in which order.                               *)

(* The list changes by packet_enqueue and packet_dequeue only.             *)
LEMMA ListStep ==
    ASSUME [Next]_vars
    PROVE  (\E c \in Procs : PacketEnqueue(c)) \/ ReleaseOne \/ UNCHANGED queue
  BY DEF Next, vars, AcceptPacket, StealPacket, ReceivePacket, ReadFlag, PendingIp,
         TransmitRtinfo, RecvInfo, SendPacket, Reroute, ReleaseDone, Environment, LaStart,
         LaExit, LaGone, LoseAnswers, Volunteer, RouteFound, RouteLost

(* packet_enqueue adds one packet behind the others, or frees it.          *)
LEMMA ParkStep ==
    ASSUME TypeOK, Control, NEW c \in Procs, PacketEnqueue(c)
    PROVE  UNCHANGED queue \/ \E p \in Packets : queue' = Append(queue, p)
  BY DEF PacketEnqueue, Park, TypeOK, Control, Holding

(* One round of send_packet takes the oldest packet of the destination.    *)
LEMMA ReleaseStep ==
    ASSUME TypeOK, ReleaseOne
    PROVE  \E v \in Verdicts, i \in DOMAIN queue :
              /\ <<Dst[queue[i]], v>> \in reply
              /\ \A j \in DOMAIN queue : j < i => Dst[queue[j]] # Dst[queue[i]]
              /\ queue' = RemoveAt(queue, i)
              /\ freed' = IF v = "NF_DROP" THEN freed \cup {queue[i]} ELSE freed
  BY DEF ReleaseOne, Oldest, Verdicts

(* A packet leaves the list only by an answer for its own destination, and *)
(* is freed exactly by NF_DROP (send_packet, packet_dequeue): no packet of *)
(* a rejected destination gets through, and none is dropped by the answer  *)
(* for another.                                                            *)
THEOREM AnswersAreLocal == Spec => AnswerIsLocal
  <1> DEFINE Local == \A p \in Queued \ Queued' :
                         /\ Answering(Dst[p])
                         /\ p \in freed' <=> <<Dst[p], "NF_DROP">> \in reply
  <1>1. TypeOK /\ Control /\ OneOwner /\ [Next]_vars => Local
    <2> SUFFICES ASSUME TypeOK, Control, OneOwner, [Next]_vars, NEW p \in Queued \ Queued'
                 PROVE  /\ Answering(Dst[p])
                        /\ p \in freed' <=> <<Dst[p], "NF_DROP">> \in reply
      OBVIOUS
    <2>1. ~UNCHANGED queue
      BY DEF Queued
    <2>2. ReleaseOne
      <3>1. ASSUME NEW q \in Packets, queue' = Append(queue, q)
            PROVE  FALSE
        BY <3>1, EnqueueFacts
      <3> QED
        BY <2>1, <3>1, ListStep, ParkStep
    <2>3. PICK v \in Verdicts, i \in DOMAIN queue :
             /\ <<Dst[queue[i]], v>> \in reply
             /\ queue' = RemoveAt(queue, i)
             /\ freed' = IF v = "NF_DROP" THEN freed \cup {queue[i]} ELSE freed
      BY <2>2, ReleaseStep
    <2>4. p = queue[i]
      BY <2>3, RemovedSet
    <2>5. p \notin freed
      BY DEF OneOwner
    <2>6. \A w \in Verdicts : <<Dst[p], w>> \in reply => w = v
      BY <2>3, <2>4 DEF Control
    <2> QED
      BY <2>3, <2>4, <2>5, <2>6 DEF Answering, Verdicts
  <1>2. [](TypeOK /\ Control /\ OneOwner) /\ [][Next]_vars => [][Local]_vars
    BY <1>1, PTL
  <1> QED
    BY <1>2, TypeCorrect, Ownership, PTL DEF Spec, AnswerIsLocal

(* Packets of one destination leave the list in the order in which they    *)
(* joined it (packet_enqueue at the head, packet_dequeue from the tail),   *)
(* whatever is parked and released in between.                             *)
THEOREM FifoKept == Spec => FifoPerDestination
  <1> DEFINE Stay(p, q) == Ahead(p, q) /\ p \in Queued' => Ahead(p, q)'
             Join(p, q) == /\ Dst[p] = Dst[q]
                           /\ p \in Queued \cap Queued'
                           /\ q \in Queued' \ Queued
                           => Ahead(p, q)'
             Fifo == \A p, q \in Packets :
                        /\ Ahead(p, q) /\ p \in Queued' => Ahead(p, q)'
                        /\ /\ Dst[p] = Dst[q]
                           /\ p \in Queued \cap Queued'
                           /\ q \in Queued' \ Queued
                           => Ahead(p, q)'
  <1>1. TypeOK /\ Control /\ OneOwner /\ [Next]_vars => Fifo
    <2> SUFFICES ASSUME TypeOK, Control, OneOwner, [Next]_vars, NEW p \in Packets,
                        NEW q \in Packets
                 PROVE  Stay(p, q) /\ Join(p, q)
      OBVIOUS
    <2>1. CASE UNCHANGED queue
      BY <2>1 DEF Queued, Ahead
    <2>2. ASSUME NEW r \in Packets, queue' = Append(queue, r)
          PROVE  Stay(p, q) /\ Join(p, q)
      <3>1. /\ Queued' = Queued \cup {r}
            /\ DOMAIN queue' = 1..(Len(queue) + 1)
            /\ \A i \in DOMAIN queue : queue'[i] = queue[i]
            /\ queue'[Len(queue) + 1] = r
        BY <2>2, EnqueueFacts
      <3>2. DOMAIN queue = 1..Len(queue) /\ Len(queue) \in Nat
        BY DEF TypeOK
      <3>3. Stay(p, q)
        BY <3>1, <3>2 DEF Ahead
      <3>4. Join(p, q)
        BY <3>1, <3>2 DEF Ahead, Queued
      <3> QED
        BY <3>3, <3>4
    <2>3. CASE ReleaseOne
      <3>1. PICK k \in DOMAIN queue :
               /\ \A j \in DOMAIN queue : j < k => Dst[queue[j]] # Dst[queue[k]]
               /\ queue' = RemoveAt(queue, k)
        BY <2>3, ReleaseStep
      <3>2. /\ DOMAIN queue = 1..Len(queue) /\ Len(queue) \in Nat /\ k \in 1..Len(queue)
            /\ queue \in Seq(Packets)
        BY DEF TypeOK
      <3>3. /\ DOMAIN queue' = 1..(Len(queue) - 1)
            /\ \A j \in 1..(Len(queue) - 1) :
                  queue'[j] = IF j < k THEN queue[j] ELSE queue[j + 1]
        BY <3>1, <3>2, RemoveAtFacts
      <3>4. Queued' = Queued \ {queue[k]}
        BY <3>1, DequeueFacts DEF OneOwner
      <3>5. Join(p, q)
        BY <3>4
      <3>6. ASSUME Ahead(p, q), p \in Queued'
            PROVE  Ahead(p, q)'
        <4>1. PICK i \in DOMAIN queue, j \in DOMAIN queue :
                 i < j /\ queue[i] = p /\ queue[j] = q /\ Dst[p] = Dst[q]
          BY <3>6 DEF Ahead
        <4>2. i # k /\ j # k
          BY <3>1, <3>4, <3>6, <4>1
        <4> DEFINE a == IF i < k THEN i ELSE i - 1
                   b == IF j < k THEN j ELSE j - 1
        <4>3. a \in 1..(Len(queue) - 1) /\ b \in 1..(Len(queue) - 1) /\ a < b
          BY <3>2, <4>1, <4>2
        <4>4. queue'[a] = p /\ queue'[b] = q
          BY <3>2, <3>3, <4>1, <4>2, <4>3
        <4> HIDE DEF a, b
        <4> QED
          BY <3>3, <4>1, <4>3, <4>4 DEF Ahead
      <3> QED
        BY <3>5, <3>6
    <2> QED
      BY <2>1, <2>2, <2>3, ListStep, ParkStep
  <1>2. [](TypeOK /\ Control /\ OneOwner) /\ [][Next]_vars => [][Fifo]_vars
    BY <1>1, PTL
  <1> QED
    BY <1>2, TypeCorrect, Ownership, PTL DEF Spec, FifoPerDestination
=============================================================================
