------------------------- MODULE OnDemandPathProofs -------------------------
(* Proofs about the Local Agent and about the way of a request, which      *)
(* implements what the kernel half assumes of the LA and the daemons.  For *)
(* any number of packets, destinations, contexts, clients and messages,    *)
(* for every bound, and with every fault of the list Faults.               *)
EXTENDS OnDemandPath, ListLemmas, FiniteSetTheorems, FunctionTheorems

Descriptors == {"ods_fd", "command_server_fd"} \cup Clients

(* toLA and toClient are functions, which TypeOK does not say.             *)
Streams == DOMAIN toLA = Clients /\ DOMAIN toClient = Clients

Accepted == {c \in Clients : conn[c] \in Open}

(* No connection is in la_serv_list twice, which makes its length that of  *)
(* the set of accepted connections.                                        *)
Once == \A j, k \in DOMAIN serv : serv[j].sock_fd = serv[k].sock_fd => j = k

(* A process that does not run has no connections.                         *)
DownClosed ==
    la = "down" => /\ serv = <<>> /\ netlink = <<>> /\ held = <<>>
                   /\ \A c \in Clients : /\ conn[c] = "closed"
                                         /\ toLA[c] = <<>> /\ toClient[c] = <<>>
                                         /\ todo[c] = None

(* The bounds are numbers.                                                 *)
LEMMA Sizes == MaxDue \in Nat \ {0} /\ StreamMax \in Nat \ {0} /\ NetlinkMax \in Nat \ {0}
  BY AgentAssumption

-----------------------------------------------------------------------------
(* Typing.                                                                 *)

(* The initial state is well typed.                                        *)
LEMMA TypeInit == Init => TypeOK /\ Streams
  <1> SUFFICES ASSUME Init
               PROVE  TypeOK /\ Streams
    OBVIOUS
  <1>1. /\ serv \in Seq([sock_fd : Clients, type : {"daemon", "other"}])
        /\ fd_list \in Seq({"ods_fd", "command_server_fd"} \cup Clients)
        /\ netlink \in Seq(Dests) /\ Len(netlink) <= NetlinkMax
    BY AgentAssumption DEF Init
  <1>2. \A c \in Clients : /\ toLA[c] \in Seq(Dests \X Verdicts)
                           /\ Len(toLA[c]) <= StreamMax
                           /\ toClient[c] \in Seq(Dests)
                           /\ Len(toClient[c]) <= StreamMax
    BY AgentAssumption DEF Init
  <1>3. todo \in [Clients -> [Dests -> 0..MaxDue]]
    BY AgentAssumption DEF Init, None
  <1> QED
    BY <1>1, <1>2, <1>3 DEF Init, TypeOK, Streams

(* The process ends: a well-typed state again.                             *)
LEMMA ResetTypes == LaReset => TypeOK' /\ Streams'
  <1> SUFFICES ASSUME LaReset
               PROVE  TypeOK' /\ Streams'
    OBVIOUS
  <1>1. /\ serv' \in Seq([sock_fd : Clients, type : {"daemon", "other"}])
        /\ fd_list' \in Seq({"ods_fd", "command_server_fd"} \cup Clients)
        /\ netlink' \in Seq(Dests) /\ Len(netlink') <= NetlinkMax
    BY AgentAssumption DEF LaReset
  <1>2. \A c \in Clients : /\ toLA'[c] \in Seq(Dests \X Verdicts)
                           /\ Len(toLA'[c]) <= StreamMax
                           /\ toClient'[c] \in Seq(Dests)
                           /\ Len(toClient'[c]) <= StreamMax
    BY AgentAssumption DEF LaReset
  <1>3. todo' \in [Clients -> [Dests -> 0..MaxDue]]
    BY AgentAssumption DEF LaReset, None
  <1> QED
    BY <1>1, <1>2, <1>3 DEF LaReset, TypeOK, Streams

(* What TypeOK says of la_serv_list.                                       *)
LEMMA ServTypes ==
    ASSUME TypeOK
    PROVE  \A k \in DOMAIN serv : serv[k].sock_fd \in Clients
  <1>1. serv \in Seq([sock_fd : Clients, type : {"daemon", "other"}])
    BY DEF TypeOK
  <1>2. ASSUME NEW R, serv \in Seq(R), NEW k \in DOMAIN serv
        PROVE  serv[k] \in R
    BY <1>2
  <1>3. \A k \in DOMAIN serv : serv[k] \in [sock_fd : Clients, type : {"daemon", "other"}]
    BY <1>1, <1>2
  <1> QED
    BY <1>3

-----------------------------------------------------------------------------
(* The answers to come.                                                    *)

(* As many as the model allows.                                            *)
Bounded == \A d \in Dests : Due(d) <= MaxDue

(* They can be counted.                                                    *)
LEMMA DueSets ==
    TypeOK => \A d : /\ IsFiniteSet(Unread(d)) /\ IsFiniteSet(ToDaemons(d))
                     /\ IsFiniteSet(WithDaemons(d)) /\ IsFiniteSet(FromDaemons(d))
  <1> SUFFICES ASSUME TypeOK, NEW d
               PROVE  /\ IsFiniteSet(Unread(d)) /\ IsFiniteSet(ToDaemons(d))
                      /\ IsFiniteSet(WithDaemons(d)) /\ IsFiniteSet(FromDaemons(d))
    OBVIOUS
  <1>1. IsFiniteSet(Unread(d))
    <2>1. Len(netlink) \in Nat /\ Unread(d) \in SUBSET (1..Len(netlink))
      BY DEF TypeOK, Unread
    <2> QED
      <3>1. IsFiniteSet(1..Len(netlink))
        BY <2>1, FS_Interval
      <3> QED
        BY <2>1, <3>1, FS_Subset
  <1>2. ASSUME NEW n \in Nat
        PROVE  IsFiniteSet(Clients \X (1..n))
    <2>1. IsFiniteSet(1..n)
      BY FS_Interval
    <2> QED
      BY AgentAssumption, <2>1, FS_Product
  <1>3. ToDaemons(d) \in SUBSET (Clients \X (1..StreamMax))
    BY DEF ToDaemons
  <1>4. FromDaemons(d) \in SUBSET (Clients \X (1..StreamMax))
    BY DEF FromDaemons
  <1>5. WithDaemons(d) \in SUBSET (Clients \X (1..MaxDue))
    BY DEF WithDaemons
  <1>6. StreamMax \in Nat /\ MaxDue \in Nat
    BY AgentAssumption
  <1> QED
    BY <1>1, <1>2, <1>3, <1>4, <1>5, <1>6, FS_Subset

HeldFor(d) == IF held # <<>> /\ held[1] = d THEN 1 ELSE 0

(* The number is a natural number, and so are its parts.                   *)
LEMMA DueNat ==
    TypeOK => \A d : /\ Cardinality(Unread(d)) \in Nat /\ Cardinality(ToDaemons(d)) \in Nat
                     /\ Cardinality(WithDaemons(d)) \in Nat
                     /\ Cardinality(FromDaemons(d)) \in Nat
                     /\ HeldFor(d) \in Nat
                     /\ Due(d) = Cardinality(Unread(d)) + HeldFor(d)
                                 + Cardinality(ToDaemons(d)) + Cardinality(WithDaemons(d))
                                 + Cardinality(FromDaemons(d))
                     /\ Due(d) \in Nat
  BY DueSets, FS_CardinalityType DEF Due, HeldFor

(* The number of answers to come is a number.                              *)
LEMMA DueTypes == TypeOK => \A d : Due(d) \in Nat
  BY DueNat

(* A daemon that reads a request for d has room for it.                    *)
LEMMA RoomWithDaemon ==
    ASSUME TypeOK, Bounded, NEW c \in Clients, NEW d \in Dests,
           toClient[c] # <<>>, Head(toClient[c]) = d
    PROVE  todo[c][d] < MaxDue
  <1> SUFFICES ASSUME todo[c][d] = MaxDue
               PROVE  FALSE
    <2>1. todo[c][d] \in 0..MaxDue
      BY DEF TypeOK
    <2> QED
      BY <2>1, AgentAssumption
  <1>1. <<c, 1>> \in ToDaemons(d)
    BY AgentAssumption DEF ToDaemons, TypeOK
  <1>2. Cardinality(ToDaemons(d)) >= 1
    BY <1>1, DueSets, DueNat, FS_EmptySet
  <1>3. {c} \X (1..MaxDue) \in SUBSET WithDaemons(d)
    BY AgentAssumption DEF WithDaemons
  <1>4. Cardinality({c} \X (1..MaxDue)) = MaxDue
    <2>1. IsFiniteSet(1..MaxDue) /\ Cardinality(1..MaxDue) = MaxDue
      BY AgentAssumption, FS_Interval
    <2>2. IsFiniteSet({c}) /\ Cardinality({c}) = 1
      BY FS_Singleton
    <2>3. Cardinality({c} \X (1..MaxDue)) = Cardinality({c}) * Cardinality(1..MaxDue)
      BY <2>1, <2>2, FS_Product, Zenon
    <2>4. Cardinality({c} \X (1..MaxDue)) = 1 * MaxDue
      BY <2>1, <2>2, <2>3, Zenon
    <2> QED
      BY ONLY <2>4, Sizes
  <1>5. Cardinality(WithDaemons(d)) >= MaxDue
    BY <1>3, <1>4, DueSets, FS_Subset
  <1>6. Due(d) >= MaxDue + 1
    BY <1>2, <1>5, DueNat, AgentAssumption
  <1> QED
    BY <1>6, DueNat, AgentAssumption DEF Bounded

(* What a message more on a connection adds to the two sets.               *)
LEMMA AppendToDaemon ==
    ASSUME TypeOK, Streams, NEW c \in Clients, Len(toClient[c]) < StreamMax, NEW r \in Dests,
           toClient' = [toClient EXCEPT ![c] = Append(@, r)], NEW d
    PROVE  /\ <<c, Len(toClient[c]) + 1>> \notin ToDaemons(d)
           /\ ToDaemons(d)' = IF r = d THEN ToDaemons(d) \cup {<<c, Len(toClient[c]) + 1>>}
                                       ELSE ToDaemons(d)
  <1>1. /\ toClient'[c] = Append(toClient[c], r) /\ toClient[c] \in Seq(Dests)
        /\ \A b \in Clients \ {c} : toClient'[b] = toClient[b]
    BY DEF TypeOK, Streams
  <1>2. /\ Len(toClient[c]) \in Nat /\ Len(toClient'[c]) = Len(toClient[c]) + 1
        /\ toClient'[c][Len(toClient[c]) + 1] = r
        /\ \A i \in 1..Len(toClient[c]) : toClient'[c][i] = toClient[c][i]
    BY <1>1, AppendProperties
  <1>3. ASSUME NEW b \in Clients, NEW i \in 1..StreamMax
        PROVE  (i <= Len(toClient'[b]) /\ toClient'[b][i] = d)
                  <=> \/ i <= Len(toClient[b]) /\ toClient[b][i] = d
                      \/ r = d /\ b = c /\ i = Len(toClient[c]) + 1
    BY <1>1, <1>2
  <1>4. Len(toClient[c]) + 1 \in 1..StreamMax
    BY <1>2, AgentAssumption
  <1> QED
    BY <1>2, <1>3, <1>4 DEF ToDaemons

(* A message of a daemon comes on top of those on their way.               *)
LEMMA AppendFromDaemon ==
    ASSUME TypeOK, Streams, NEW c \in Clients, Len(toLA[c]) < StreamMax,
           NEW a \in Dests \X Verdicts, toLA' = [toLA EXCEPT ![c] = Append(@, a)], NEW d
    PROVE  /\ <<c, Len(toLA[c]) + 1>> \notin FromDaemons(d)
           /\ FromDaemons(d)' =
                 IF a[1] = d THEN FromDaemons(d) \cup {<<c, Len(toLA[c]) + 1>>}
                             ELSE FromDaemons(d)
  <1>1. /\ toLA'[c] = Append(toLA[c], a) /\ toLA[c] \in Seq(Dests \X Verdicts)
        /\ \A b \in Clients \ {c} : toLA'[b] = toLA[b]
    BY DEF TypeOK, Streams
  <1>2. /\ Len(toLA[c]) \in Nat /\ Len(toLA'[c]) = Len(toLA[c]) + 1
        /\ toLA'[c][Len(toLA[c]) + 1] = a
        /\ \A i \in 1..Len(toLA[c]) : toLA'[c][i] = toLA[c][i]
    BY <1>1, AppendProperties
  <1>3. ASSUME NEW b \in Clients, NEW i \in 1..StreamMax
        PROVE  (i <= Len(toLA'[b]) /\ toLA'[b][i][1] = d)
                  <=> \/ i <= Len(toLA[b]) /\ toLA[b][i][1] = d
                      \/ a[1] = d /\ b = c /\ i = Len(toLA[c]) + 1
    BY <1>1, <1>2
  <1>4. Len(toLA[c]) + 1 \in 1..StreamMax
    <2>1. Len(toLA[c]) < StreamMax
      OBVIOUS
    <2> QED
      BY ONLY <1>2, <2>1, Sizes
  <1> QED
    BY <1>2, <1>3, <1>4 DEF FromDaemons

(* What happens to a number when its set gets or loses an element.         *)
LEMMA OneMore ==
    ASSUME NEW S, IsFiniteSet(S), NEW x, x \notin S
    PROVE  Cardinality(S \cup {x}) = Cardinality(S) + 1
  BY FS_AddElement

(* A message that is read is one less on the way.                          *)
LEMMA OneLess ==
    ASSUME NEW S, IsFiniteSet(S), NEW x \in S, NEW T \in SUBSET (S \ {x})
    PROVE  Cardinality(T) <= Cardinality(S) - 1
  <1>1. IsFiniteSet(S \ {x}) /\ Cardinality(S \ {x}) = Cardinality(S) - 1
    BY FS_RemoveElement
  <1> QED
    BY <1>1, FS_Subset

(* Reading a request takes it out of the socket.                           *)
LEMMA TailCount ==
    ASSUME TypeOK, netlink # <<>>, netlink' = Tail(netlink), NEW d
    PROVE  /\ IsFiniteSet(Unread(d)')
           /\ Cardinality(Unread(d)') <=
                 Cardinality(Unread(d)) - (IF Head(netlink) = d THEN 1 ELSE 0)
  <1> DEFINE S == Unread(d)'
             T == IF Head(netlink) = d THEN Unread(d) \ {1} ELSE Unread(d)
             f == [i \in S |-> i + 1]
  <1>1. /\ Len(netlink) \in Nat \ {0} /\ Head(netlink) = netlink[1]
        /\ DOMAIN netlink = 1..Len(netlink) /\ DOMAIN netlink' = 1..(Len(netlink) - 1)
        /\ \A i \in 1..(Len(netlink) - 1) : netlink'[i] = netlink[i + 1]
    BY HeadTailProperties DEF TypeOK
  <1>2. f \in Injection(S, T)
    <2>1. \A i \in S : i \in Nat /\ i + 1 \in T
      BY <1>1 DEF Unread
    <2> QED
      BY <2>1, Fun_IsInj
  <1>3. /\ IsFiniteSet(T)
        /\ Cardinality(T) = Cardinality(Unread(d)) - (IF Head(netlink) = d THEN 1 ELSE 0)
    <2>1. CASE Head(netlink) = d
      <3>1. 1 \in Unread(d)
        BY <1>1, <2>1 DEF Unread
      <3> QED
        BY <2>1, <3>1, DueSets, FS_RemoveElement
    <2>2. CASE Head(netlink) # d
      BY <2>2, DueSets, DueNat
    <2> QED
      BY <2>1, <2>2
  <1> QED
    <2> HIDE DEF S, T, f
    <2>1. IsFiniteSet(S) /\ Cardinality(S) <= Cardinality(T)
      BY <1>2, <1>3, FS_Injection
    <2> QED
      BY <1>3, <2>1 DEF S

(* A request of the kernel is one answer more to come.                     *)
LEMMA RequestDue ==
    ASSUME TypeOK, NEW d \in Dests, KernelRequest(d), NEW x
    PROVE  Due(x)' = IF x = d THEN Due(x) + 1 ELSE Due(x)
  <1>1. netlink' = Append(netlink, d) /\ UNCHANGED <<held, toLA, toClient, todo>>
    BY DEF KernelRequest, laVars, streams
  <1>2. /\ Len(netlink) \in Nat /\ DOMAIN netlink = 1..Len(netlink)
        /\ DOMAIN netlink' = 1..Len(netlink) + 1
        /\ netlink'[Len(netlink) + 1] = d
        /\ \A i \in 1..Len(netlink) : netlink'[i] = netlink[i]
    BY <1>1, AppendProperties DEF TypeOK
  <1>3. /\ Len(netlink) + 1 \notin Unread(x)
        /\ Unread(x)' = IF x = d THEN Unread(x) \cup {Len(netlink) + 1} ELSE Unread(x)
    BY <1>2 DEF Unread
  <1>4. Cardinality(Unread(x)') =
           IF x = d THEN Cardinality(Unread(x)) + 1 ELSE Cardinality(Unread(x))
    BY <1>3, DueSets, OneMore
  <1>5. /\ ToDaemons(x)' = ToDaemons(x) /\ WithDaemons(x)' = WithDaemons(x)
        /\ FromDaemons(x)' = FromDaemons(x) /\ HeldFor(x)' = HeldFor(x)
    BY <1>1 DEF ToDaemons, WithDaemons, FromDaemons, HeldFor
  <1>6. Due(x)' = Cardinality(Unread(x)') + HeldFor(x)' + Cardinality(ToDaemons(x)')
                  + Cardinality(WithDaemons(x)') + Cardinality(FromDaemons(x)')
    BY DEF Due, HeldFor
  <1> QED
    BY <1>4, <1>5, <1>6, DueNat

(* The step of a request through the LA adds none.                         *)
LEMMA MessageDue ==
    ASSUME TypeOK, Streams, NEW i \in DOMAIN fd_list, OdsMessage(i), NEW x
    PROVE  Due(x)' <= Due(x)
  <1>1. /\ netlink # <<>> /\ netlink' = Tail(netlink)
        /\ UNCHANGED <<held, toLA, todo>>
    BY DEF OdsMessage
  <1>2. Head(netlink) \in Dests
    BY <1>1, HeadTailProperties DEF TypeOK
  <1>3. \/ UNCHANGED toClient
        \/ \E c \in Clients : /\ Len(toClient[c]) < StreamMax
                              /\ toClient' = [toClient EXCEPT ![c] = Append(@, Head(netlink))]
    BY ServTypes DEF OdsMessage
  <1>4. /\ Cardinality(ToDaemons(x)') \in Nat
        /\ Cardinality(ToDaemons(x)') <=
              Cardinality(ToDaemons(x)) + (IF Head(netlink) = x THEN 1 ELSE 0)
    <2>1. CASE UNCHANGED toClient
      <3>1. ToDaemons(x)' = ToDaemons(x)
        BY <2>1 DEF ToDaemons
      <3> QED
        BY <3>1, DueNat
    <2>2. ASSUME NEW c \in Clients, Len(toClient[c]) < StreamMax,
                 toClient' = [toClient EXCEPT ![c] = Append(@, Head(netlink))]
          PROVE  /\ Cardinality(ToDaemons(x)') \in Nat
                 /\ Cardinality(ToDaemons(x)') <=
                       Cardinality(ToDaemons(x)) + (IF Head(netlink) = x THEN 1 ELSE 0)
      <3>1. ToDaemons(x)' = IF Head(netlink) = x
                            THEN ToDaemons(x) \cup {<<c, Len(toClient[c]) + 1>>}
                            ELSE ToDaemons(x)
        BY <1>2, <2>2, AppendToDaemon
      <3>2. <<c, Len(toClient[c]) + 1>> \notin ToDaemons(x)
        BY <1>2, <2>2, AppendToDaemon
      <3>3. Cardinality(ToDaemons(x) \cup {<<c, Len(toClient[c]) + 1>>})
               = Cardinality(ToDaemons(x)) + 1
        BY <3>2, DueSets, OneMore
      <3> QED
        BY <3>1, <3>3, DueNat
    <2> QED
      BY <1>3, <2>1, <2>2
  <1>5. /\ WithDaemons(x)' = WithDaemons(x) /\ FromDaemons(x)' = FromDaemons(x)
        /\ HeldFor(x)' = HeldFor(x)
    BY <1>1 DEF WithDaemons, FromDaemons, HeldFor
  <1>6. Due(x)' = Cardinality(Unread(x)') + HeldFor(x)' + Cardinality(ToDaemons(x)')
                  + Cardinality(WithDaemons(x)') + Cardinality(FromDaemons(x)')
    BY DEF Due, HeldFor
  <1>7. /\ Cardinality(Unread(x)') \in Nat
        /\ Cardinality(Unread(x)') <=
              Cardinality(Unread(x)) - (IF Head(netlink) = x THEN 1 ELSE 0)
    BY <1>1, TailCount, FS_CardinalityType
  <1> QED
    BY <1>4, <1>5, <1>6, <1>7, DueNat

(* The answer that is held is one of those that were under way.            *)
LEMMA AnswerReadDue ==
    ASSUME TypeOK, Streams, NEW i \in DOMAIN fd_list, ClientMessage(i), NEW x
    PROVE  Due(x)' <= Due(x)
  <1> DEFINE c == fd_list[i]
  <1>1. /\ c \in Clients /\ toLA[c] # <<>> /\ held' = Head(toLA[c])
        /\ toLA' = [toLA EXCEPT ![c] = <<>>] /\ laPc = "scan"
        /\ UNCHANGED <<netlink, toClient, todo>>
    BY DEF ClientMessage, Current
  <1>2. held = <<>>
    BY <1>1 DEF TypeOK
  <1>3. Len(toLA[c]) \in 1..StreamMax /\ Head(toLA[c]) = toLA[c][1]
    BY <1>1, HeadTailProperties, AgentAssumption DEF TypeOK
  <1> HIDE DEF c
  <1>4. FromDaemons(x)' \in SUBSET (FromDaemons(x) \ {<<c, 1>>})
    <2>1. toLA'[c] = <<>> /\ \A b \in Clients \ {c} : toLA'[b] = toLA[b]
      BY <1>1 DEF Streams
    <2> QED
      BY <2>1 DEF FromDaemons
  <1>d. Due(x)' = Cardinality(Unread(x)) + HeldFor(x)' + Cardinality(ToDaemons(x))
                  + Cardinality(WithDaemons(x)) + Cardinality(FromDaemons(x)')
    BY <1>1 DEF Due, HeldFor, Unread, ToDaemons, WithDaemons
  <1>5. CASE held'[1] = x
    <2>1. <<c, 1>> \in FromDaemons(x)
      <3>1. toLA[c][1][1] = x /\ 1 <= Len(toLA[c])
        BY <1>1, <1>3, <1>5
      <3>2. 1 \in 1..StreamMax
        BY ONLY Sizes
      <3> QED
        BY <1>1, <3>1, <3>2 DEF FromDaemons
    <2>2. /\ Cardinality(FromDaemons(x)') <= Cardinality(FromDaemons(x)) - 1
          /\ Cardinality(FromDaemons(x)') \in Nat
      BY <1>4, <2>1, DueSets, OneLess, FS_Subset, FS_CardinalityType
    <2>3. HeldFor(x) = 0 /\ HeldFor(x)' <= 1 /\ HeldFor(x)' \in Nat
      BY <1>2 DEF HeldFor
    <2> QED
      BY <1>d, <2>2, <2>3, DueNat
  <1>6. CASE held'[1] # x
    <2>1. /\ Cardinality(FromDaemons(x)') <= Cardinality(FromDaemons(x))
          /\ Cardinality(FromDaemons(x)') \in Nat
      BY <1>4, DueSets, FS_Subset, FS_CardinalityType
    <2>2. HeldFor(x) = 0 /\ HeldFor(x)' = 0
      BY <1>2, <1>6 DEF HeldFor
    <2> QED
      BY <1>d, <2>1, <2>2, DueNat
  <1> QED
    BY <1>5, <1>6

(* An answer that reaches the kernel is no longer to come.                 *)
LEMMA FeedbackDue ==
    ASSUME TypeOK, NEW d \in Dests, NEW v \in Verdicts, Feedback(d, v), NEW x
    PROVE  /\ Due(d) > 0
           /\ Due(x)' = IF x = d THEN Due(x) - 1 ELSE Due(x)
  <1>1. /\ held = <<d, v>> /\ held' = <<>>
        /\ UNCHANGED <<netlink, toLA, toClient, todo>>
    BY DEF Feedback, streams
  <1>2. /\ \A y : HeldFor(y) = IF y = d THEN 1 ELSE 0
        /\ HeldFor(x)' = 0
    BY <1>1 DEF HeldFor
  <1>3. Due(d) > 0
    BY <1>2, DueNat
  <1>4. Due(x)' = Cardinality(Unread(x)) + HeldFor(x)' + Cardinality(ToDaemons(x))
                  + Cardinality(WithDaemons(x)) + Cardinality(FromDaemons(x))
    BY <1>1 DEF Due, HeldFor, Unread, ToDaemons, WithDaemons, FromDaemons
  <1> QED
    BY <1>2, <1>3, <1>4, DueNat

(* A daemon that reads its connection has one request more, and those on   *)
(* the connection are gone.                                                *)
LEMMA RecvDue ==
    ASSUME TypeOK, Streams, NEW c \in Clients, DaemonRecv(c), NEW x \in Dests
    PROVE  Due(x)' <= Due(x)
  <1> DEFINE r == Head(toClient[c])
  <1>1. /\ toClient[c] # <<>> /\ toClient' = [toClient EXCEPT ![c] = <<>>]
        /\ todo' = [todo EXCEPT ![c][r] = @ + 1]
        /\ UNCHANGED <<netlink, held, toLA>>
    BY DEF DaemonRecv, laVars
  <1>2. Len(toClient[c]) \in 1..StreamMax /\ r = toClient[c][1] /\ r \in Dests
    BY <1>1, HeadTailProperties, AgentAssumption DEF TypeOK
  <1> HIDE DEF r
  <1>3. ToDaemons(x)' \in SUBSET (ToDaemons(x) \ {<<c, 1>>})
    <2>1. toClient'[c] = <<>> /\ \A b \in Clients \ {c} : toClient'[b] = toClient[b]
      BY <1>1 DEF Streams
    <2> QED
      BY <2>1 DEF ToDaemons
  <1>4. Due(x)' = Cardinality(Unread(x)) + HeldFor(x) + Cardinality(ToDaemons(x)')
                  + Cardinality(WithDaemons(x)') + Cardinality(FromDaemons(x))
    BY <1>1 DEF Due, HeldFor, Unread, FromDaemons
  <1>5. CASE r # x
    <2>1. \A b \in Clients : todo'[b][x] = todo[b][x]
      BY <1>1, <1>2, <1>5 DEF TypeOK
    <2>2. WithDaemons(x)' = WithDaemons(x)
      BY <2>1 DEF WithDaemons
    <2>3. /\ Cardinality(ToDaemons(x)') <= Cardinality(ToDaemons(x))
          /\ Cardinality(ToDaemons(x)') \in Nat
      BY <1>3, DueSets, FS_Subset, FS_CardinalityType
    <2> QED
      BY <1>4, <2>2, <2>3, DueNat
  <1>6. CASE r = x
    <2>1. <<c, 1>> \in ToDaemons(x)
      <3>1. 1 \in 1..StreamMax /\ 1 <= Len(toClient[c]) /\ toClient[c][1] = x
        BY <1>2, <1>6, AgentAssumption
      <3> QED
        BY <3>1 DEF ToDaemons
    <2>2. /\ Cardinality(ToDaemons(x)') <= Cardinality(ToDaemons(x)) - 1
          /\ Cardinality(ToDaemons(x)') \in Nat
      BY <1>3, <2>1, DueSets, OneLess, FS_Subset, FS_CardinalityType
    <2>3. \A b \in Clients : todo'[b][x] = IF b = c THEN todo[b][x] + 1 ELSE todo[b][x]
      BY <1>1, <1>2, <1>6 DEF TypeOK
    <2>4. WithDaemons(x)' \in SUBSET (WithDaemons(x) \cup {<<c, todo[c][x] + 1>>})
      BY <2>3 DEF WithDaemons, TypeOK
    <2>5. /\ IsFiniteSet(WithDaemons(x) \cup {<<c, todo[c][x] + 1>>})
          /\ Cardinality(WithDaemons(x) \cup {<<c, todo[c][x] + 1>>})
                <= Cardinality(WithDaemons(x)) + 1
      <3> DEFINE W == WithDaemons(x)
                 e == <<c, todo[c][x] + 1>>
      <3>1. IsFiniteSet(W) /\ Cardinality(W) \in Nat
        BY DueSets, DueNat
      <3> HIDE DEF W, e
      <3>2. IsFiniteSet(W \cup {e})
        BY <3>1, FS_AddElement
      <3>3. CASE e \in W
        <4>1. W \cup {e} = W
          BY <3>3
        <4> QED
          BY <3>1, <3>2, <4>1 DEF W, e
      <3>4. CASE e \notin W
        <4>1. Cardinality(W \cup {e}) = Cardinality(W) + 1
          BY <3>1, <3>4, OneMore
        <4> QED
          BY <3>1, <3>2, <4>1 DEF W, e
      <3> QED
        BY <3>3, <3>4
    <2>6. /\ Cardinality(WithDaemons(x)') <= Cardinality(WithDaemons(x)) + 1
          /\ Cardinality(WithDaemons(x)') \in Nat
      <3>1. /\ Cardinality(WithDaemons(x)') \in Nat
            /\ Cardinality(WithDaemons(x)')
                  <= Cardinality(WithDaemons(x) \cup {<<c, todo[c][x] + 1>>})
        BY <2>4, <2>5, FS_Subset, FS_CardinalityType
      <3>2. Cardinality(WithDaemons(x) \cup {<<c, todo[c][x] + 1>>}) \in Nat
        BY <2>5, FS_CardinalityType
      <3> QED
        BY <2>5, <3>1, <3>2, DueNat
    <2> QED
      BY <1>4, <2>2, <2>6, DueNat
  <1> QED
    BY <1>5, <1>6

(* A daemon that answers turns a request into an answer.                   *)
LEMMA AnswerDue ==
    ASSUME TypeOK, Streams, NEW c \in Clients, NEW d \in Dests, NEW v \in Verdicts,
           DaemonAnswer(c, d, v), NEW x \in Dests
    PROVE  Due(x)' = Due(x)
  <1>1. /\ todo[c][d] > 0 /\ todo' = [todo EXCEPT ![c][d] = @ - 1]
        /\ Len(toLA[c]) < StreamMax /\ toLA' = [toLA EXCEPT ![c] = Append(@, <<d, v>>)]
        /\ UNCHANGED <<netlink, held, toClient>>
    BY DEF DaemonAnswer, laVars
  <1>2. /\ <<c, Len(toLA[c]) + 1>> \notin FromDaemons(x)
        /\ FromDaemons(x)' = IF d = x THEN FromDaemons(x) \cup {<<c, Len(toLA[c]) + 1>>}
                                      ELSE FromDaemons(x)
    <2>1. <<d, v>> \in Dests \X Verdicts /\ <<d, v>>[1] = d
      OBVIOUS
    <2> DEFINE a == <<d, v>>
    <2>2. toLA' = [toLA EXCEPT ![c] = Append(@, a)]
      BY <1>1
    <2> HIDE DEF a
    <2>3. a \in Dests \X Verdicts /\ a[1] = d
      BY <2>1 DEF a
    <2> QED
      BY <1>1, <2>2, <2>3, AppendFromDaemon
  <1>3. \A b \in Clients :
           todo'[b][x] = IF b = c /\ x = d THEN todo[b][x] - 1 ELSE todo[b][x]
    BY <1>1 DEF TypeOK
  <1>4. Due(x)' = Cardinality(Unread(x)) + HeldFor(x) + Cardinality(ToDaemons(x))
                  + Cardinality(WithDaemons(x)') + Cardinality(FromDaemons(x)')
    BY <1>1 DEF Due, HeldFor, Unread, ToDaemons
  <1>5. CASE d # x
    <2>1. WithDaemons(x)' = WithDaemons(x)
      BY <1>3, <1>5 DEF WithDaemons
    <2>2. FromDaemons(x)' = FromDaemons(x)
      BY <1>2, <1>5
    <2> QED
      BY <1>4, <2>1, <2>2, DueNat
  <1>6. CASE d = x
    <2>1. /\ <<c, todo[c][x]>> \in WithDaemons(x)
          /\ WithDaemons(x)' = WithDaemons(x) \ {<<c, todo[c][x]>>}
      BY <1>1, <1>3, <1>6, AgentAssumption DEF WithDaemons, TypeOK
    <2>2. Cardinality(WithDaemons(x)') = Cardinality(WithDaemons(x)) - 1
      <3>1. IsFiniteSet(WithDaemons(x))
        BY DueSets
      <3>2. ASSUME NEW W, IsFiniteSet(W), NEW w \in W
            PROVE  Cardinality(W \ {w}) = Cardinality(W) - 1
        BY <3>2, FS_RemoveElement
      <3> QED
        BY <2>1, <3>1, <3>2, Zenon
    <2>3. Cardinality(FromDaemons(x)') = Cardinality(FromDaemons(x)) + 1
      BY <1>2, <1>6, DueSets, OneMore
    <2> QED
      BY <1>4, <2>2, <2>3, DueNat
  <1> QED
    BY <1>5, <1>6

(* A daemon that volunteers adds an answer.                                *)
LEMMA VolunteerDue ==
    ASSUME TypeOK, Streams, NEW c \in Clients, NEW d \in Dests, DaemonVolunteers(c, d),
           NEW x \in Dests
    PROVE  Due(x)' = IF x = d THEN Due(x) + 1 ELSE Due(x)
  <1>1. /\ Len(toLA[c]) < StreamMax
        /\ toLA' = [toLA EXCEPT ![c] = Append(@, <<d, "NF_ACCEPT">>)]
        /\ UNCHANGED <<netlink, held, toClient, todo>>
    BY DEF DaemonVolunteers, laVars
  <1>2. <<d, "NF_ACCEPT">> \in Dests \X Verdicts /\ <<d, "NF_ACCEPT">>[1] = d
    BY DEF Verdicts
  <1>3. /\ <<c, Len(toLA[c]) + 1>> \notin FromDaemons(x)
        /\ FromDaemons(x)' = IF d = x THEN FromDaemons(x) \cup {<<c, Len(toLA[c]) + 1>>}
                                      ELSE FromDaemons(x)
    <2> DEFINE a == <<d, "NF_ACCEPT">>
    <2>1. toLA' = [toLA EXCEPT ![c] = Append(@, a)]
      BY <1>1
    <2>2. a \in Dests \X Verdicts /\ a[1] = d
      BY <1>2
    <2> HIDE DEF a
    <2> QED
      BY <1>1, <2>1, <2>2, AppendFromDaemon
  <1>4. Due(x)' = Cardinality(Unread(x)) + HeldFor(x) + Cardinality(ToDaemons(x))
                  + Cardinality(WithDaemons(x)) + Cardinality(FromDaemons(x)')
    BY <1>1 DEF Due, HeldFor, Unread, ToDaemons, WithDaemons
  <1>5. CASE d = x
    <2>1. Cardinality(FromDaemons(x)') = Cardinality(FromDaemons(x)) + 1
      BY <1>3, <1>5, DueSets, OneMore
    <2> QED
      BY <1>4, <1>5, <2>1, DueNat
  <1>6. CASE d # x
    BY <1>3, <1>4, <1>6, DueNat
  <1> QED
    BY <1>5, <1>6

(* A daemon that drops a request, or ends, takes what it had with it.      *)
LEMMA LossDue ==
    ASSUME TypeOK, Streams, NEW c \in Clients, NEW x \in Dests,
           ClientClose(c) \/ \E d \in Dests : DaemonSilent(c, d)
    PROVE  Due(x)' <= Due(x)
  <1>1. UNCHANGED <<netlink, held, toLA>>
    BY DEF ClientClose, DaemonSilent, laVars
  <1>2. /\ toClient'[c] = toClient[c] \/ toClient'[c] = <<>>
        /\ \A b \in Clients \ {c} : toClient'[b] = toClient[b]
    BY DEF ClientClose, DaemonSilent, Streams
  <1>3. \A b \in Clients : todo'[b][x] \in Int /\ todo'[b][x] <= todo[b][x]
    <2>1. CASE ClientClose(c)
      BY <2>1 DEF ClientClose, TypeOK, None
    <2>2. ASSUME NEW d \in Dests, DaemonSilent(c, d)
          PROVE  \A b \in Clients : todo'[b][x] \in Int /\ todo'[b][x] <= todo[b][x]
      BY <2>2 DEF DaemonSilent, TypeOK
    <2> QED
      BY <2>1, <2>2
  <1>4. ToDaemons(x)' \in SUBSET ToDaemons(x)
    BY <1>2 DEF ToDaemons
  <1>5. WithDaemons(x)' \in SUBSET WithDaemons(x)
    BY <1>3 DEF WithDaemons, TypeOK
  <1>6. /\ Cardinality(ToDaemons(x)') \in Nat /\ Cardinality(WithDaemons(x)') \in Nat
        /\ Cardinality(ToDaemons(x)') <= Cardinality(ToDaemons(x))
        /\ Cardinality(WithDaemons(x)') <= Cardinality(WithDaemons(x))
    BY <1>4, <1>5, DueSets, FS_Subset, FS_CardinalityType
  <1>7. Due(x)' = Cardinality(Unread(x)) + HeldFor(x) + Cardinality(ToDaemons(x)')
                  + Cardinality(WithDaemons(x)') + Cardinality(FromDaemons(x))
    BY <1>1 DEF Due, HeldFor, Unread, FromDaemons
  <1> QED
    BY <1>6, <1>7, DueNat

(* Nothing is to come from a process that has ended or not started.        *)
Drained == /\ netlink = <<>> /\ held = <<>>
           /\ \A c \in Clients : /\ toLA[c] = <<>> /\ toClient[c] = <<>>
                                 /\ todo[c] = None

(* With nothing on its way anywhere, no answer is to come.                *)
LEMMA DueNone == Drained => \A x \in Dests : Due(x) = 0
  <1> SUFFICES ASSUME Drained, NEW x \in Dests
               PROVE  Due(x) = 0
    OBVIOUS
  <1>1. Unread(x) = {} /\ ToDaemons(x) = {} /\ FromDaemons(x) = {}
    BY DEF Drained, Unread, ToDaemons, FromDaemons
  <1>2. WithDaemons(x) = {}
    BY AgentAssumption DEF Drained, WithDaemons, None
  <1> QED
    BY <1>1, <1>2, FS_EmptySet DEF Due, Drained

-----------------------------------------------------------------------------
(* A client that the scan has reached is in la_serv_list.                  *)
LEMMA ClientListed ==
    ASSUME TypeOK, DescriptorsLive, NEW i \in DOMAIN fd_list, fd_list[i] \in Clients
    PROVE  /\ Position(fd_list[i]) \in DOMAIN serv
           /\ serv[Position(fd_list[i])].sock_fd = fd_list[i]
           /\ fd_list[i] \in Accepted
  <1>1. fd_list[i] \in Accepted
    BY AgentAssumption DEF DescriptorsLive, Accepted, ToSet
  <1>2. \E k \in DOMAIN serv : serv[k].sock_fd = fd_list[i]
    BY <1>1 DEF DescriptorsLive, Accepted, ToSet
  <1> QED
    BY <1>1, <1>2 DEF Position

StreamTypes(f, S) ==
    /\ DOMAIN f = Clients
    /\ \A b \in Clients : f[b] \in Seq(S) /\ Len(f[b]) <= StreamMax

(* A message more on one stream, or a stream that is emptied.              *)
LEMMA StreamAppend ==
    ASSUME NEW S, NEW f, StreamTypes(f, S), NEW c \in Clients, NEW m \in S,
           Len(f[c]) < StreamMax
    PROVE  StreamTypes([f EXCEPT ![c] = Append(@, m)], S)
  BY AgentAssumption, AppendProperties DEF StreamTypes

(* A stream that is emptied stays one.                                     *)
LEMMA StreamEmpty ==
    ASSUME NEW S, NEW f, StreamTypes(f, S), NEW c \in Clients
    PROVE  StreamTypes([f EXCEPT ![c] = <<>>], S)
  BY AgentAssumption DEF StreamTypes

(* No step of the LA or of its peers leaves the types.                     *)
LEMMA TypeStep ==
    TypeOK /\ Streams /\ DescriptorsLive /\ Bounded /\ [Next]_agentVars
       => TypeOK' /\ Streams'
  <1> SUFFICES ASSUME TypeOK, Streams, DescriptorsLive, Bounded, [Next]_agentVars
               PROVE  TypeOK' /\ Streams'
    OBVIOUS
  <1> DEFINE Typed == TypeOK' /\ Streams'
  <1> SUFFICES Typed
    OBVIOUS
  <1>a. StreamTypes(toClient, Dests) /\ StreamTypes(toLA, Dests \X Verdicts)
    BY DEF TypeOK, Streams, StreamTypes
  <1>b. ASSUME UNCHANGED <<la, laPc, serv, fd_list, rbits, ix, held, netlink>>,
               conn' \in [Clients -> {"closed", "backlog"} \cup Open],
               StreamTypes(toClient', Dests), StreamTypes(toLA', Dests \X Verdicts),
               todo' \in [Clients -> [Dests -> 0..MaxDue]]
        PROVE  Typed
    BY <1>b DEF TypeOK, Streams, StreamTypes
  <1>c. conn \in [Clients -> {"closed", "backlog"} \cup Open]
        /\ todo \in [Clients -> [Dests -> 0..MaxDue]]
    BY DEF TypeOK
  <1>1. ASSUME Select \/ ScanDone \/ Start \/ Exit
        PROVE  Typed
    <2>1. CASE Select
      BY <2>1, rbits' \subseteq ToSet(fd_list) DEF Select, ToSet, TypeOK, Streams, streams
    <2>2. CASE ScanDone
      BY <2>2 DEF ScanDone, TypeOK, Streams, streams
    <2>3. CASE Start \/ Exit
      BY <2>3 DEF Start, Exit, TypeOK, Streams, streams
    <2> QED
      BY <1>1, <2>1, <2>2, <2>3
  <1>2. ASSUME NEW i \in DOMAIN fd_list, OdsMessage(i)
        PROVE  Typed
    <2>1. netlink \in Seq(Dests) /\ netlink # <<>> /\ Len(netlink) <= NetlinkMax
          /\ NetlinkMax \in Nat
      BY <1>2, AgentAssumption DEF OdsMessage, TypeOK
    <2>2. Head(netlink) \in Dests /\ Tail(netlink) \in Seq(Dests)
          /\ Len(Tail(netlink)) <= NetlinkMax
      BY <2>1, HeadTailProperties
    <2>3. conn' \in [Clients -> {"closed", "backlog"} \cup Open]
          /\ StreamTypes(toClient', Dests)
      <3>1. CASE UNCHANGED <<conn, toClient>>
        BY <1>a, <1>c, <3>1
      <3>2. ASSUME NEW c \in Clients, Len(toClient[c]) < StreamMax,
                   toClient' = [toClient EXCEPT ![c] = Append(@, Head(netlink))],
                   UNCHANGED conn
            PROVE  conn' \in [Clients -> {"closed", "backlog"} \cup Open]
                   /\ StreamTypes(toClient', Dests)
        BY <1>a, <1>c, <2>2, <3>2, StreamAppend
      <3>3. ASSUME NEW c \in Clients, conn' = [conn EXCEPT ![c] = "reset"],
                   UNCHANGED toClient
            PROVE  conn' \in [Clients -> {"closed", "backlog"} \cup Open]
                   /\ StreamTypes(toClient', Dests)
        BY <1>a, <1>c, <3>3 DEF Open
      <3> QED
        BY <1>2, <3>1, <3>2, <3>3, ServTypes DEF OdsMessage
    <2>4. i + 1 \in Nat \ {0}
      BY DEF TypeOK
    <2>5. /\ UNCHANGED <<la, laPc, serv, fd_list, rbits, held, toLA, todo>>
          /\ ix' = i + 1 /\ netlink' = Tail(netlink)
      BY <1>2 DEF OdsMessage
    <2> QED
      BY <1>a, <2>2, <2>3, <2>4, <2>5 DEF TypeOK, Streams, StreamTypes
  <1>3. ASSUME NEW i \in DOMAIN fd_list, Accept(i)
        PROVE  Typed
    BY <1>3 DEF Accept, TypeOK, Streams, Open
  <1>4. ASSUME NEW i \in DOMAIN fd_list, ClientMessage(i)
        PROVE  Typed
    <2>1. fd_list[i] \in Clients /\ toLA[fd_list[i]] # <<>>
      BY <1>4 DEF ClientMessage
    <2>2. Head(toLA[fd_list[i]]) \in Dests \X Verdicts
      BY <1>a, <2>1, HeadTailProperties DEF StreamTypes
    <2>3. /\ held' = Head(toLA[fd_list[i]]) /\ ix' = i + 1 /\ laPc' = "feedback"
          /\ toLA' = [toLA EXCEPT ![fd_list[i]] = <<>>]
          /\ UNCHANGED <<la, serv, fd_list, rbits, netlink, conn, toClient, todo>>
      BY <1>4 DEF ClientMessage
    <2>4. StreamTypes(toLA', Dests \X Verdicts)
      BY <1>a, <2>1, <2>3, StreamEmpty
    <2>5. i + 1 \in Nat \ {0}
      BY DEF TypeOK
    <2>6. held' # <<>>
      <3>1. \A a, b : <<a, b>> # <<>>
        OBVIOUS
      <3>2. \E a \in Dests, b \in Verdicts : held' = <<a, b>>
        BY <2>2, <2>3
      <3> QED
        BY <3>1, <3>2
    <2> QED
      BY <1>a, <2>2, <2>3, <2>4, <2>5, <2>6 DEF TypeOK, Streams, StreamTypes
  <1>5. ASSUME NEW i \in DOMAIN fd_list, ClientGone(i)
        PROVE  Typed
    <2>1. Position(fd_list[i]) \in DOMAIN serv
      BY <1>5, ClientListed DEF ClientGone
    <2>2. /\ serv' \in Seq([sock_fd : Clients, type : {"daemon", "other"}])
          /\ fd_list' \in Seq({"ods_fd", "command_server_fd"} \cup Clients)
      BY <1>5, <2>1, RemoveAtFacts DEF ClientGone, TypeOK
    <2> QED
      BY <1>5, <2>2 DEF ClientGone, TypeOK, Streams
  <1>6. ASSUME LaReset
        PROVE  Typed
    BY <1>6, ResetTypes
  <1>7. ASSUME Answer
        PROVE  Typed
    BY <1>7 DEF Answer, Feedback, TypeOK, Streams, streams
  <1>8. ASSUME NEW d \in Dests, KernelRequest(d)
        PROVE  Typed
    <2>1. netlink' \in Seq(Dests) /\ Len(netlink') <= NetlinkMax
      <3>1. netlink \in Seq(Dests) /\ Len(netlink) <= NetlinkMax /\ NetlinkMax \in Nat
        BY Sizes DEF TypeOK
      <3>2. netlink' = Append(netlink, d) /\ Len(netlink) < NetlinkMax
        BY <1>8 DEF KernelRequest
      <3> QED
        BY ONLY <3>1, <3>2, d \in Dests, AppendProperties
    <2> QED
      BY <1>8, <2>1 DEF KernelRequest, TypeOK, Streams, laVars, streams
  <1>9. ASSUME NEW c \in Clients, Connect(c)
        PROVE  Typed
    BY <1>9 DEF Connect, TypeOK, Streams, laVars
  <1>10. ASSUME NEW c \in Clients, ClientClose(c)
         PROVE  Typed
    <2>1. conn' \in [Clients -> {"closed", "backlog"} \cup Open]
      BY <1>10, <1>c DEF ClientClose, Open
    <2>2. todo' \in [Clients -> [Dests -> 0..MaxDue]]
      BY <1>10, <1>c, AgentAssumption DEF ClientClose, None
    <2> QED
      BY <1>10, <1>a, <1>b, <2>1, <2>2, StreamEmpty DEF ClientClose, laVars
  <1>11. ASSUME NEW c \in Clients, DaemonRecv(c)
         PROVE  Typed
    <2>1. Head(toClient[c]) \in Dests
      BY <1>11, <1>a, HeadTailProperties DEF DaemonRecv, StreamTypes
    <2>2. todo' \in [Clients -> [Dests -> 0..MaxDue]]
      <3>1. todo[c][Head(toClient[c])] < MaxDue
        BY <1>11, <2>1, RoomWithDaemon DEF DaemonRecv
      <3> QED
        BY <1>11, <1>c, <2>1, <3>1, AgentAssumption DEF DaemonRecv
    <2> QED
      BY <1>11, <1>a, <1>b, <1>c, <2>2, StreamEmpty DEF DaemonRecv, laVars
  <1>12. ASSUME NEW c \in Clients, NEW d \in Dests, NEW v \in Verdicts,
                DaemonAnswer(c, d, v)
         PROVE  Typed
    <2>1. todo' \in [Clients -> [Dests -> 0..MaxDue]]
      BY <1>12, <1>c, AgentAssumption DEF DaemonAnswer
    <2>2. <<d, v>> \in Dests \X Verdicts
      OBVIOUS
    <2> QED
      BY <1>12, <1>a, <1>b, <1>c, <2>1, <2>2, StreamAppend DEF DaemonAnswer, laVars
  <1>13. ASSUME NEW c \in Clients, NEW d \in Dests, DaemonVolunteers(c, d)
         PROVE  Typed
    <2>1. <<d, "NF_ACCEPT">> \in Dests \X Verdicts
      BY DEF Verdicts
    <2> QED
      BY <1>13, <1>a, <1>b, <1>c, <2>1, StreamAppend DEF DaemonVolunteers, laVars
  <1>14. ASSUME NEW c \in Clients, NEW d \in Dests, DaemonSilent(c, d)
         PROVE  Typed
    <2>1. todo' \in [Clients -> [Dests -> 0..MaxDue]]
      BY <1>14, <1>c, AgentAssumption DEF DaemonSilent
    <2> QED
      BY <1>14, <1>a, <1>b, <1>c, <2>1 DEF DaemonSilent, laVars
  <1>15. CASE UNCHANGED agentVars
    BY <1>15, <1>a, <1>b, <1>c DEF agentVars
  <1> HIDE DEF Typed
  <1>16. CASE Loop
    BY <1>16, <1>1, <1>2, <1>3, <1>4, <1>5, <1>6 DEF Loop, Dispatch, OdsMessageSigpipe
  <1>17. CASE \E c \in Clients : Daemon(c)
    BY <1>17, <1>11, <1>12, <1>13, <1>14 DEF Daemon
  <1>18. CASE Gone
    BY <1>18, <1>6 DEF Gone
  <1> QED
    BY <1>1, <1>7, <1>8, <1>9, <1>10, <1>15, <1>16, <1>17, <1>18 DEF Next

-----------------------------------------------------------------------------
(* The two lists.                                                          *)

(* The lists and the set of accepted connections are untouched.            *)
LEMMA ListsKept ==
    ASSUME DescriptorsLive, Once, UNCHANGED <<serv, fd_list>>,
           \A c \in Clients : conn[c] \in Open <=> conn'[c] \in Open
    PROVE  DescriptorsLive' /\ Once'
  <1>1. {c \in Clients : conn[c] \in Open} = {c \in Clients : conn'[c] \in Open}
    OBVIOUS
  <1> QED
    BY <1>1 DEF DescriptorsLive, Once

(* A connection that is accepted was in neither list.                      *)
LEMMA ListsAccept ==
    ASSUME TypeOK, DescriptorsLive, Once, NEW i \in DOMAIN fd_list, Accept(i)
    PROVE  DescriptorsLive' /\ Once'
  <1>1. PICK c \in Clients, t \in {"daemon", "other"} :
           /\ conn[c] = "backlog"
           /\ conn' = [conn EXCEPT ![c] = "open"]
           /\ serv' = Append(serv, [sock_fd |-> c, type |-> t])
           /\ fd_list' = Append(fd_list, c)
    BY DEF Accept
  <1>2. Accepted' = Accepted \cup {c} /\ c \notin Accepted
    BY <1>1 DEF Accepted, Open, TypeOK
  <1>3. /\ Len(serv) \in Nat /\ Len(fd_list) \in Nat
        /\ DOMAIN serv = 1..Len(serv) /\ DOMAIN fd_list = 1..Len(fd_list)
        /\ DOMAIN serv' = 1..Len(serv) + 1 /\ DOMAIN fd_list' = 1..Len(fd_list) + 1
        /\ Len(serv') = Len(serv) + 1
        /\ serv'[Len(serv) + 1].sock_fd = c /\ fd_list'[Len(fd_list) + 1] = c
        /\ \A k \in DOMAIN serv : serv'[k] = serv[k]
        /\ \A k \in DOMAIN fd_list : fd_list'[k] = fd_list[k]
    BY <1>1 DEF TypeOK
  <1>4. c \notin ToSet(fd_list) /\ \A k \in DOMAIN serv : serv[k].sock_fd # c
    <2>1. c \notin ToSet(fd_list) /\ c \notin {s.sock_fd : s \in ToSet(serv)}
      BY <1>2, AgentAssumption DEF DescriptorsLive, Accepted
    <2> QED
      BY <2>1 DEF ToSet
  <1>5. ToSet(fd_list)' = ToSet(fd_list) \cup {c}
    BY <1>3 DEF ToSet
  <1>6. {s.sock_fd : s \in ToSet(serv)}' = {s.sock_fd : s \in ToSet(serv)} \cup {c}
    BY <1>3 DEF ToSet
  <1>7. IsInjective(fd_list)' /\ Once'
    <2>1. IsInjective(fd_list)'
      BY <1>3, <1>4 DEF DescriptorsLive, IsInjective, ToSet
    <2>2. Once'
      BY <1>3, <1>4 DEF Once
    <2> QED
      BY <2>1, <2>2
  <1>8. Len(serv') = Cardinality(Accepted')
    <2>1. IsFiniteSet(Accepted)
      BY AgentAssumption, FS_Subset DEF Accepted
    <2>2. Len(serv) = Cardinality(Accepted)
      BY DEF DescriptorsLive, Accepted
    <2> QED
      <3>1. Cardinality(Accepted \cup {c}) = Cardinality(Accepted) + 1
        BY <1>2, <2>1, FS_AddElement
      <3> QED
        BY <1>2, <1>3, <2>2, <3>1
  <1> QED
    BY <1>2, <1>5, <1>6, <1>7, <1>8 DEF DescriptorsLive, Accepted

(* A client that is gone leaves both lists.                                *)
LEMMA ListsGone ==
    ASSUME TypeOK, DescriptorsLive, Once, NEW i \in DOMAIN fd_list, ClientGone(i)
    PROVE  DescriptorsLive' /\ Once'
  <1> DEFINE c == fd_list[i]
             k == Position(c)
  <1>1. /\ c \in Clients
        /\ serv' = RemoveAt(serv, k) /\ fd_list' = RemoveAt(fd_list, i)
        /\ conn' = [conn EXCEPT ![c] = "closed"]
    BY DEF ClientGone
  <1>2. k \in DOMAIN serv /\ serv[k].sock_fd = c /\ c \in Accepted
    BY <1>1, ClientListed
  <1>3. Accepted' = Accepted \ {c}
    BY <1>1 DEF Accepted, Open, TypeOK
  <1> HIDE DEF c, k
  <1>4. /\ Len(serv) \in Nat /\ DOMAIN serv = 1..Len(serv)
        /\ Len(serv') = Len(serv) - 1 /\ DOMAIN serv' = 1..Len(serv) - 1
        /\ \A j \in 1..Len(serv) - 1 : serv'[j] = IF j < k THEN serv[j] ELSE serv[j + 1]
    <2>1. serv \in Seq([sock_fd : Clients, type : {"daemon", "other"}])
      BY DEF TypeOK
    <2>2. serv' = RemoveAt(serv, k)
      BY <1>1
    <2> QED
      BY ONLY <1>2, <2>1, <2>2, RemoveAtFacts
  <1>5. /\ Len(fd_list) \in Nat /\ DOMAIN fd_list = 1..Len(fd_list)
        /\ DOMAIN fd_list' = 1..Len(fd_list) - 1
        /\ \A j \in 1..Len(fd_list) - 1 :
              fd_list'[j] = IF j < i THEN fd_list[j] ELSE fd_list[j + 1]
    BY <1>1, RemoveAtFacts DEF TypeOK
  <1>6. \A j \in DOMAIN serv : serv[j].sock_fd = c => j = k
    BY <1>2 DEF Once
  <1>7. \A j \in DOMAIN fd_list : fd_list[j] = c => j = i
    BY DEF c, DescriptorsLive, IsInjective
  <1>8. ToSet(fd_list)' = ToSet(fd_list) \ {c}
    <2>1. \A j \in DOMAIN fd_list' : fd_list'[j] \in ToSet(fd_list) /\ fd_list'[j] # c
      BY <1>5, <1>7 DEF ToSet
    <2>2. ASSUME NEW j \in DOMAIN fd_list, fd_list[j] # c
          PROVE  fd_list[j] \in ToSet(fd_list)'
      <3>1. CASE j < i
        BY <1>5, <3>1 DEF ToSet
      <3>2. CASE j > i
        <4>1. j - 1 \in DOMAIN fd_list' /\ fd_list'[j - 1] = fd_list[j]
          BY <1>5, <3>2
        <4> QED
          BY <4>1 DEF ToSet
      <3> QED
        BY <2>2, <1>5, <3>1, <3>2 DEF c
    <2> QED
      BY <2>1, <2>2 DEF ToSet
  <1>9. {s.sock_fd : s \in ToSet(serv)}' = {s.sock_fd : s \in ToSet(serv)} \ {c}
    <2>1. ASSUME NEW j \in DOMAIN serv'
          PROVE  serv'[j] \in ToSet(serv) /\ serv'[j].sock_fd # c
      <3>1. PICK m \in DOMAIN serv : m # k /\ serv'[j] = serv[m]
        BY <1>2, <1>4
      <3> QED
        BY <1>6, <3>1 DEF ToSet
    <2>2. ASSUME NEW j \in DOMAIN serv, serv[j].sock_fd # c
          PROVE  serv[j] \in ToSet(serv)'
      <3>1. CASE j < k
        BY <1>2, <1>4, <3>1 DEF ToSet
      <3>2. CASE j > k
        <4>1. j - 1 \in DOMAIN serv' /\ serv'[j - 1] = serv[j]
          BY <1>2, <1>4, <3>2
        <4> QED
          BY <4>1 DEF ToSet
      <3> QED
        BY <1>2, <1>4, <2>2, <3>1, <3>2
    <2> QED
      BY <2>1, <2>2 DEF ToSet
  <1>10. IsInjective(fd_list)'
    BY <1>5 DEF DescriptorsLive, IsInjective
  <1>11. Once'
    <2>1. \A j \in DOMAIN serv' : \E m \in DOMAIN serv :
             serv'[j] = serv[m] /\ m = IF j < k THEN j ELSE j + 1
      BY <1>2, <1>4
    <2>2. SUFFICES ASSUME NEW j \in DOMAIN serv', NEW m \in DOMAIN serv',
                          serv'[j].sock_fd = serv'[m].sock_fd
                   PROVE  j = m
      BY DEF Once
    <2>3. (IF j < k THEN j ELSE j + 1) = (IF m < k THEN m ELSE m + 1)
      BY <2>1, <2>2 DEF Once
    <2> QED
      BY <1>2, <1>4, <2>3
  <1>12. Len(serv') = Cardinality(Accepted')
    <2>1. IsFiniteSet(Accepted)
      BY AgentAssumption, FS_Subset DEF Accepted
    <2>2. Len(serv) = Cardinality(Accepted)
      BY DEF DescriptorsLive, Accepted
    <2>3. Cardinality(Accepted \ {c}) = Cardinality(Accepted) - 1
      BY <1>2, <2>1, FS_RemoveElement
    <2> QED
      BY <1>3, <1>4, <2>2, <2>3
  <1>13. c \notin {"ods_fd", "command_server_fd"}
    BY <1>1, AgentAssumption
  <1> QED
    BY <1>3, <1>8, <1>9, <1>10, <1>11, <1>12, <1>13 DEF DescriptorsLive, Accepted

(* The lists when the process starts or has ended.                         *)
NoConnection ==
    /\ serv = <<>> /\ fd_list = <<"ods_fd", "command_server_fd">>
    /\ conn = [c \in Clients |-> "closed"]

(* They agree, as there is nothing to agree about.                         *)
LEMMA ListsEmpty == NoConnection => DescriptorsLive /\ Once
  <1> SUFFICES ASSUME NoConnection
               PROVE  DescriptorsLive /\ Once
    OBVIOUS
  <1> USE DEF NoConnection
  <1>1. {c \in Clients : conn[c] \in Open} = {}
    BY DEF Open
  <1>2. ToSet(fd_list) = {"ods_fd", "command_server_fd"}
    BY DEF ToSet
  <1>3. {s.sock_fd : s \in ToSet(serv)} = {}
    BY DEF ToSet
  <1>4. IsInjective(fd_list)
    BY DEF IsInjective
  <1>5. Len(serv) = Cardinality({})
    BY FS_EmptySet
  <1>6. Once
    BY DEF Once
  <1>7. DescriptorsLive
    BY ONLY <1>1, <1>2, <1>3, <1>4, <1>5 DEF DescriptorsLive
  <1> QED
    BY <1>6, <1>7

(* The lists agree with the connections in every step.                     *)
LEMMA ListsStep ==
    TypeOK /\ DescriptorsLive /\ Once /\ [Next]_agentVars => DescriptorsLive' /\ Once'
  <1> SUFFICES ASSUME TypeOK, DescriptorsLive, Once, [Next]_agentVars
               PROVE  DescriptorsLive' /\ Once'
    OBVIOUS
  <1>1. ASSUME UNCHANGED <<serv, fd_list, conn>>
        PROVE  DescriptorsLive' /\ Once'
    BY <1>1, ListsKept
  <1>2. ASSUME NEW i \in DOMAIN fd_list, OdsMessage(i)
        PROVE  DescriptorsLive' /\ Once'
    <2>1. UNCHANGED conn \/ \E c \in Clients : /\ conn[c] \in Open
                                               /\ conn' = [conn EXCEPT ![c] = "reset"]
      BY <1>2, ServTypes DEF OdsMessage, Open
    <2>2. \A c \in Clients : conn[c] \in Open <=> conn'[c] \in Open
      BY <2>1 DEF Open, TypeOK
    <2> QED
      BY <1>2, <2>2, ListsKept DEF OdsMessage
  <1>3. ASSUME NEW c \in Clients, Connect(c) \/ ClientClose(c)
        PROVE  DescriptorsLive' /\ Once'
    <2>1. \A b \in Clients : conn[b] \in Open <=> conn'[b] \in Open
      BY <1>3 DEF Connect, ClientClose, Open, TypeOK
    <2> QED
      BY <1>3, <2>1, ListsKept DEF Connect, ClientClose, laVars
  <1>4. ASSUME LaReset
        PROVE  DescriptorsLive' /\ Once'
    <2>1. NoConnection' => (DescriptorsLive /\ Once)'
      BY ListsEmpty, PTL
    <2> QED
      BY <1>4, <2>1 DEF LaReset, NoConnection
  <1>5. CASE Loop
    <2>1. CASE Select \/ ScanDone
      BY <1>1, <2>1 DEF Select, ScanDone, streams
    <2>2. ASSUME NEW i \in DOMAIN fd_list, ClientMessage(i)
          PROVE  DescriptorsLive' /\ Once'
      BY <1>1, <2>2 DEF ClientMessage
    <2> QED
      BY <1>2, <1>4, <1>5, <2>1, <2>2, ListsAccept, ListsGone
      DEF Loop, Dispatch, OdsMessageSigpipe
  <1>6. CASE Answer \/ Start \/ Exit
    BY <1>1, <1>6 DEF Answer, Feedback, Start, Exit, streams
  <1>7. CASE Gone
    BY <1>4, <1>7 DEF Gone
  <1>8. CASE \E d \in Dests : KernelRequest(d)
    BY <1>1, <1>8 DEF KernelRequest, laVars, streams
  <1>9. CASE \E c \in Clients : Daemon(c)
    BY <1>1, <1>9 DEF Daemon, DaemonRecv, DaemonAnswer, DaemonVolunteers, DaemonSilent, laVars
  <1>10. CASE UNCHANGED agentVars
    BY <1>1, <1>10 DEF agentVars
  <1> QED
    BY <1>3, <1>5, <1>6, <1>7, <1>8, <1>9, <1>10 DEF Next

(* Nothing is in the sockets and with the daemons once the process ended.  *)
LEMMA DownStep == DownClosed /\ [Next]_agentVars => DownClosed'
  <1> SUFFICES ASSUME DownClosed, [Next]_agentVars, la' = "down"
               PROVE  DownClosed'
    BY DEF DownClosed
  <1>1. CASE la = "down"
    <2>1. UNCHANGED agentVars
      <3>1. \A c \in Clients : conn[c] = "closed" /\ \A d \in Dests : todo[c][d] = 0
        BY <1>1 DEF DownClosed, None
      <3>2. ~Loop /\ ~Answer /\ ~Exit /\ ~Gone /\ ~Start
        BY <1>1 DEF Loop, Select, ScanDone, Dispatch, OdsMessage, OdsMessageSigpipe, Accept,
                    ClientMessage, ClientGone, Current, Answer, Feedback, Exit, Gone, Start
      <3>3. \A c \in Clients : ~Connect(c) /\ ~Daemon(c) /\ ~ClientClose(c)
        BY <1>1, <3>1 DEF Connect, Daemon, DaemonRecv, DaemonAnswer, DaemonVolunteers,
                          DaemonSilent, ClientClose
      <3>4. \A d \in Dests : ~KernelRequest(d)
        BY <1>1 DEF KernelRequest
      <3> QED
        BY <3>2, <3>3, <3>4 DEF Next
    <2> QED
      BY <1>1, <2>1 DEF DownClosed, agentVars
  <1>2. CASE la # "down"
    <2>1. LaReset
      BY <1>2 DEF Next, Loop, Select, ScanDone, Dispatch, OdsMessage, OdsMessageSigpipe, Accept,
                  ClientMessage, ClientGone, Answer, Feedback, Exit, Gone, Start, KernelRequest,
                  Connect, Daemon, DaemonRecv, DaemonAnswer, DaemonVolunteers, DaemonSilent,
                  ClientClose, laVars, agentVars
    <2> QED
      BY <2>1 DEF LaReset, DownClosed
  <1> QED
    BY <1>1, <1>2

(* Everything that is to come is lost when the process ends.               *)
LEMMA ResetDue == LaReset => \A x \in Dests : Due(x)' = 0
  <1> SUFFICES ASSUME LaReset
               PROVE  \A x \in Dests : Due(x)' = 0
    OBVIOUS
  <1>1. Drained'
    BY DEF LaReset, Drained
  <1>2. Drained' => (\A x \in Dests : Due(x) = 0)'
    BY DueNone, PTL
  <1> QED
    BY <1>1, <1>2

(* Steps that touch none of the sockets, buffers and daemons.              *)
LEMMA SameDue ==
    UNCHANGED <<netlink, held, toClient, todo, toLA>> => \A x : Due(x)' = Due(x)
  BY DEF Due, Unread, ToDaemons, WithDaemons, FromDaemons

(* Only requests and unasked answers add to what is to come.               *)
LEMMA DueStep ==
    ASSUME TypeOK, Streams, [Next]_agentVars, NEW x \in Dests
    PROVE  \/ Due(x)' <= Due(x)
           \/ Due(x)' = 0
           \/ Due(x)' = Due(x) + 1 /\ Due(x) < MaxDue
  <1> DEFINE Fewer == \/ Due(x)' <= Due(x)
                      \/ Due(x)' = 0
                      \/ Due(x)' = Due(x) + 1 /\ Due(x) < MaxDue
  <1> SUFFICES Fewer
    OBVIOUS
  <1>1. Due(x) \in Nat
    BY DueNat
  <1>2. ASSUME UNCHANGED <<netlink, held, toClient, todo, toLA>>
        PROVE  Fewer
    <2>1. Due(x)' = Due(x)
      BY <1>2, SameDue
    <2> QED
      BY <1>1, <2>1
  <1>3. ASSUME LaReset
        PROVE  Fewer
    BY <1>3, ResetDue
  <1>4. CASE Loop
    <2>1. CASE Select \/ ScanDone
      BY <1>2, <2>1 DEF Select, ScanDone, streams
    <2>2. ASSUME NEW i \in DOMAIN fd_list, Dispatch(i)
          PROVE  Fewer
      <3>1. CASE OdsMessage(i)
        BY <3>1, MessageDue
      <3>2. CASE ClientMessage(i)
        BY <3>2, AnswerReadDue
      <3>3. CASE OdsMessageSigpipe(i)
        BY <1>3, <3>3 DEF OdsMessageSigpipe
      <3>4. CASE Accept(i) \/ ClientGone(i)
        BY <1>2, <3>4 DEF Accept, ClientGone
      <3> QED
        BY <2>2, <3>1, <3>2, <3>3, <3>4 DEF Dispatch
    <2> QED
      BY <1>4, <2>1, <2>2 DEF Loop
  <1>5. ASSUME NEW d \in Dests, NEW v \in Verdicts, Feedback(d, v)
        PROVE  Fewer
    <2>1. Due(x)' = IF x = d THEN Due(x) - 1 ELSE Due(x)
      BY <1>5, FeedbackDue
    <2> QED
      BY <1>1, <2>1
  <1>6. CASE Start \/ Exit \/ UNCHANGED agentVars
    BY <1>2, <1>6 DEF Start, Exit, streams, agentVars
  <1>7. CASE Gone
    BY <1>3, <1>7 DEF Gone
  <1>8. ASSUME NEW d \in Dests, KernelRequest(d)
        PROVE  Fewer
    <2>1. Due(x)' = IF x = d THEN Due(x) + 1 ELSE Due(x)
      BY <1>8, RequestDue
    <2>2. Due(d) < MaxDue
      BY <1>8 DEF KernelRequest
    <2> QED
      BY <1>1, <2>1, <2>2
  <1>9. ASSUME NEW c \in Clients, Connect(c)
        PROVE  Fewer
    BY <1>2, <1>9 DEF Connect, laVars
  <1>10. ASSUME NEW c \in Clients, Daemon(c)
        PROVE  Fewer
    <2>1. CASE DaemonRecv(c)
      BY <2>1, RecvDue
    <2>2. ASSUME NEW d \in Dests, NEW v \in Verdicts, DaemonAnswer(c, d, v)
          PROVE  Fewer
      <3>1. Due(x)' = Due(x)
        BY <2>2, AnswerDue
      <3> QED
        BY <1>1, <3>1
    <2>3. ASSUME NEW d \in Dests, DaemonVolunteers(c, d)
          PROVE  Fewer
      <3>1. Due(x)' = IF x = d THEN Due(x) + 1 ELSE Due(x)
        BY <2>3, VolunteerDue
      <3>2. Due(d) < MaxDue
        BY <2>3 DEF DaemonVolunteers
      <3> QED
        BY <1>1, <3>1, <3>2
    <2>4. ASSUME NEW d \in Dests, DaemonSilent(c, d)
          PROVE  Fewer
      BY <2>4, LossDue
    <2> QED
      BY <1>10, <2>1, <2>2, <2>3, <2>4 DEF Daemon
  <1>11. ASSUME NEW c \in Clients, ClientClose(c)
        PROVE  Fewer
    BY <1>11, LossDue
  <1> QED
    BY <1>4, <1>5, <1>6, <1>7, <1>8, <1>9, <1>10, <1>11 DEF Next, Answer

(* The model's bound on them is one.                                       *)
LEMMA BoundedStep ==
    TypeOK /\ Streams /\ Bounded /\ [Next]_agentVars /\ TypeOK' => Bounded'
  <1> SUFFICES ASSUME TypeOK, Streams, Bounded, [Next]_agentVars, TypeOK', NEW x \in Dests
               PROVE  Due(x)' <= MaxDue
    BY DEF Bounded
  <1>1. Due(x) \in Nat /\ Due(x) <= MaxDue /\ MaxDue \in Nat \ {0}
    BY DueNat, AgentAssumption DEF Bounded
  <1>2. Due(x)' \in Nat
    <2>1. TypeOK' => (\A d : Due(d) \in Nat)'
      BY DueTypes, PTL
    <2> QED
      BY <2>1
  <1> QED
    BY <1>1, <1>2, DueStep

-----------------------------------------------------------------------------
Inv == TypeOK /\ Streams /\ DescriptorsLive /\ Once /\ DownClosed /\ Bounded

(* The initial state satisfies the invariant.                              *)
LEMMA InvInit == Init => Inv
  <1> SUFFICES ASSUME Init
               PROVE  Inv
    OBVIOUS
  <1>1. DescriptorsLive /\ Once
    BY ListsEmpty DEF Init, NoConnection
  <1>2. DownClosed
    BY DEF Init, DownClosed
  <1>3. Bounded
    BY DueNone, AgentAssumption DEF Init, Drained, Bounded
  <1> QED
    BY <1>1, <1>2, <1>3, TypeInit DEF Inv

(* Every step keeps it.                                                    *)
LEMMA InvStep == Inv /\ [Next]_agentVars => Inv'
  BY TypeStep, ListsStep, DownStep, BoundedStep DEF Inv

(* The types of the LA's variables, whatever is interleaved and lost.      *)
THEOREM TypeCorrect == Spec => []TypeOK
  <1>1. Inv => TypeOK
    BY DEF Inv
  <1> QED
    BY <1>1, InvInit, InvStep, PTL DEF Spec

(* For any number of clients, the LA never hands select() a descriptor it  *)
(* has closed and never leaves out an open one (la_fdset_update, accept    *)
(* and the end of a client in the middle of the scan).                     *)
THEOREM DescriptorsStayLive == Spec => []DescriptorsLive
  <1>1. Inv => DescriptorsLive
    BY DEF Inv
  <1> QED
    BY <1>1, InvInit, InvStep, PTL DEF Spec

-----------------------------------------------------------------------------
(* What is to come and gets lost.                                          *)

(* Reading a request takes no other out of the socket.                     *)
LEMMA TailKeeps ==
    ASSUME TypeOK, netlink # <<>>, netlink' = Tail(netlink), NEW d
    PROVE  Cardinality(Unread(d)') >=
              Cardinality(Unread(d)) - (IF Head(netlink) = d THEN 1 ELSE 0)
  <1> DEFINE S == Unread(d)'
             T == Unread(d) \ {1}
             f == [i \in T |-> i - 1]
  <1>1. /\ Len(netlink) \in Nat \ {0} /\ Head(netlink) = netlink[1]
        /\ DOMAIN netlink = 1..Len(netlink) /\ DOMAIN netlink' = 1..(Len(netlink) - 1)
        /\ \A i \in 1..(Len(netlink) - 1) : netlink'[i] = netlink[i + 1]
    BY HeadTailProperties DEF TypeOK
  <1>2. f \in Injection(T, S)
    <2>1. ASSUME NEW i \in T
          PROVE  i \in Nat /\ i - 1 \in S
      <3>1. i \in 2..Len(netlink) /\ netlink[i] = d
        BY <1>1 DEF Unread
      <3>2. i - 1 \in 1..(Len(netlink) - 1) /\ (i - 1) + 1 = i
        BY <1>1, <3>1
      <3> QED
        BY <1>1, <3>1, <3>2 DEF Unread
    <2>2. \A i, j \in T : f[i] = f[j] => i = j
      BY <2>1
    <2> QED
      BY <2>1, <2>2, Fun_IsInj
  <1>3. IsFiniteSet(Unread(d)) /\ Cardinality(Unread(d)) \in Nat
    BY DueSets, DueNat
  <1>4. 1 \in Unread(d) <=> Head(netlink) = d
    BY <1>1 DEF Unread
  <1>5. Cardinality(T) = Cardinality(Unread(d)) - (IF Head(netlink) = d THEN 1 ELSE 0)
    <2> DEFINE U == Unread(d)
    <2>1. CASE 1 \in U
      <3> HIDE DEF U
      <3>1. Cardinality(U \ {1}) = Cardinality(U) - 1
        BY <1>3, <2>1, FS_RemoveElement DEF U
      <3> QED
        BY <1>4, <2>1, <3>1 DEF U
    <2>2. CASE 1 \notin U
      <3>1. T = Unread(d) /\ Head(netlink) # d
        BY <1>4, <2>2
      <3> HIDE DEF T
      <3> QED
        BY <1>3, <3>1
    <2> QED
      BY <2>1, <2>2
  <1>6. IsFiniteSet(S) /\ Cardinality(S) \in Nat
    BY TailCount, FS_CardinalityType
  <1> HIDE DEF S, T, f
  <1>7. Cardinality(T) <= Cardinality(S)
    BY <1>2, <1>6, FS_Injection
  <1> QED
    BY <1>3, <1>5, <1>6, <1>7 DEF S

(* Without the elements named, one of which is a member or not, a set is   *)
(* smaller by one at most.                                                 *)
LEMMA WithoutOne ==
    ASSUME NEW S, IsFiniteSet(S), NEW x, NEW T, IsFiniteSet(T), S \ {x} \subseteq T
    PROVE  /\ Cardinality(S) \in Nat /\ Cardinality(T) \in Nat
           /\ Cardinality(T) >= Cardinality(S) - 1
           /\ x \notin S => Cardinality(T) >= Cardinality(S)
  <1>1. Cardinality(S) \in Nat /\ Cardinality(T) \in Nat
    BY FS_CardinalityType
  <1>2. /\ IsFiniteSet(S \ {x})
        /\ Cardinality(S \ {x}) = IF x \in S THEN Cardinality(S) - 1 ELSE Cardinality(S)
    <2>1. CASE x \in S
      BY <2>1, FS_RemoveElement
    <2>2. CASE x \notin S
      <3>1. S \ {x} = S
        BY <2>2
      <3> QED
        BY <2>2, <3>1
    <2> QED
      BY <2>1, <2>2
  <1>3. Cardinality(S \ {x}) <= Cardinality(T)
    BY <1>2, FS_Subset
  <1> QED
    BY <1>1, <1>2, <1>3

(* A request that the LA reads is lost if no open connection gets it.      *)
LEMMA MessageKept ==
    ASSUME TypeOK, Streams, NEW i \in DOMAIN fd_list, OdsMessage(i), NEW x \in Dests,
           \/ Head(netlink) # x
           \/ \E k \in DOMAIN serv : FirstDaemon(k) /\ conn[serv[k].sock_fd] = "open"
    PROVE  Due(x)' >= Due(x)
  <1>1. /\ netlink # <<>> /\ netlink' = Tail(netlink)
        /\ UNCHANGED <<held, toLA, todo>>
    BY DEF OdsMessage
  <1>2. Head(netlink) \in Dests
    BY <1>1, HeadTailProperties DEF TypeOK
  <1>3. /\ WithDaemons(x)' = WithDaemons(x) /\ FromDaemons(x)' = FromDaemons(x)
        /\ HeldFor(x)' = HeldFor(x)
    BY <1>1 DEF WithDaemons, FromDaemons, HeldFor
  <1>4. Due(x)' = Cardinality(Unread(x)') + HeldFor(x)' + Cardinality(ToDaemons(x)')
                  + Cardinality(WithDaemons(x)') + Cardinality(FromDaemons(x)')
    BY DEF Due, HeldFor
  <1>5. /\ Cardinality(Unread(x)') \in Nat
        /\ Cardinality(Unread(x)') >=
              Cardinality(Unread(x)) - (IF Head(netlink) = x THEN 1 ELSE 0)
    BY <1>1, TailCount, TailKeeps, FS_CardinalityType
  <1>6. ASSUME NEW c \in Clients, Len(toClient[c]) < StreamMax,
               toClient' = [toClient EXCEPT ![c] = Append(@, Head(netlink))]
        PROVE  Cardinality(ToDaemons(x)') =
                  Cardinality(ToDaemons(x)) + (IF Head(netlink) = x THEN 1 ELSE 0)
    <2>1. ToDaemons(x)' = IF Head(netlink) = x
                          THEN ToDaemons(x) \cup {<<c, Len(toClient[c]) + 1>>}
                          ELSE ToDaemons(x)
      BY <1>2, <1>6, AppendToDaemon
    <2>2. <<c, Len(toClient[c]) + 1>> \notin ToDaemons(x)
      BY <1>2, <1>6, AppendToDaemon
    <2>3. Cardinality(ToDaemons(x) \cup {<<c, Len(toClient[c]) + 1>>})
             = Cardinality(ToDaemons(x)) + 1
      BY <2>2, DueSets, OneMore
    <2> QED
      BY <2>1, <2>3, DueNat
  <1>7. \/ UNCHANGED toClient
        \/ \E c \in Clients : /\ Len(toClient[c]) < StreamMax
                              /\ toClient' = [toClient EXCEPT ![c] = Append(@, Head(netlink))]
    BY ServTypes DEF OdsMessage
  <1>8. CASE Head(netlink) # x
    <2>1. CASE UNCHANGED toClient
      <3>1. ToDaemons(x)' = ToDaemons(x)
        BY <2>1 DEF ToDaemons
      <3> QED
        BY <1>3, <1>4, <1>5, <1>8, <3>1, DueNat
    <2>2. CASE ~UNCHANGED toClient
      <3>1. Cardinality(ToDaemons(x)') = Cardinality(ToDaemons(x))
        BY <1>6, <1>7, <1>8, <2>2, DueNat
      <3> QED
        BY <1>3, <1>4, <1>5, <1>8, <3>1, DueNat
    <2> QED
      BY <2>1, <2>2
  <1>9. CASE Head(netlink) = x
    <2>1. PICK k \in DOMAIN serv : FirstDaemon(k) /\ conn[serv[k].sock_fd] = "open"
      BY <1>9
    <2>2. DOMAIN serv \subseteq Int
      BY DEF TypeOK
    <2>3. \A m \in DOMAIN serv : FirstDaemon(m) => m = k
      BY <2>1, <2>2 DEF FirstDaemon
    <2>4. serv[k].sock_fd \in Clients
      BY ServTypes
    <2>5. /\ Len(toClient[serv[k].sock_fd]) < StreamMax
          /\ toClient' = [toClient EXCEPT ![serv[k].sock_fd] = Append(@, Head(netlink))]
      BY <2>1, <2>3 DEF OdsMessage
    <2>6. Cardinality(ToDaemons(x)') = Cardinality(ToDaemons(x)) + 1
      BY <1>6, <1>9, <2>4, <2>5
    <2> QED
      BY <1>3, <1>4, <1>5, <1>9, <2>6, DueNat
  <1> QED
    BY <1>8, <1>9

(* They can be counted after a step too.                                   *)
LEMMA DueSetsNext ==
    TypeOK' => (\A d : /\ IsFiniteSet(Unread(d)) /\ IsFiniteSet(ToDaemons(d))
                       /\ IsFiniteSet(WithDaemons(d)) /\ IsFiniteSet(FromDaemons(d)))'
  BY DueSets, PTL

(* What is not more than one message and not none.                         *)
LEMMA JustOne == \A n \in Nat \ {0} : ~(n > 1) => n = 1
  OBVIOUS

(* An answer that comes alone is not lost when the LA reads it.            *)
LEMMA AnswerReadKept ==
    ASSUME TypeOK, TypeOK', Streams, NEW i \in DOMAIN fd_list, ClientMessage(i), NEW x,
           ~(Len(toLA[fd_list[i]]) > 1)
    PROVE  Due(x)' >= Due(x)
  <1> DEFINE c == fd_list[i]
  <1>1. /\ c \in Clients /\ toLA[c] # <<>> /\ held' = Head(toLA[c])
        /\ toLA' = [toLA EXCEPT ![c] = <<>>] /\ laPc = "scan"
        /\ laPc' = "feedback" /\ UNCHANGED <<netlink, toClient, todo>>
    BY DEF ClientMessage, Current
  <1>2. held = <<>> /\ held' # <<>>
    BY <1>1 DEF TypeOK
  <1>3. Len(toLA[c]) = 1 /\ Head(toLA[c]) = toLA[c][1]
    <2>1. toLA[c] \in Seq(Dests \X Verdicts) /\ ~(Len(toLA[c]) > 1)
      BY <1>1 DEF TypeOK
    <2> HIDE DEF c
    <2>2. Len(toLA[c]) \in Nat \ {0} /\ Head(toLA[c]) = toLA[c][1]
      BY <1>1, <2>1
    <2> QED
      BY <2>1, <2>2, JustOne
  <1> HIDE DEF c
  <1>4. FromDaemons(x) \ {<<c, 1>>} \subseteq FromDaemons(x)'
    <2>1. \A b \in Clients \ {c} : toLA'[b] = toLA[b]
      BY <1>1 DEF Streams
    <2> QED
      BY <1>3, <2>1 DEF FromDaemons
  <1>5. <<c, 1>> \in FromDaemons(x) => held'[1] = x
    BY <1>1, <1>3 DEF FromDaemons
  <1>6. Due(x)' = Cardinality(Unread(x)) + HeldFor(x)' + Cardinality(ToDaemons(x))
                  + Cardinality(WithDaemons(x)) + Cardinality(FromDaemons(x)')
    BY <1>1 DEF Due, HeldFor, Unread, ToDaemons, WithDaemons
  <1>7. HeldFor(x) = 0 /\ HeldFor(x)' = IF held'[1] = x THEN 1 ELSE 0
    BY <1>2 DEF HeldFor
  <1>8. IsFiniteSet(FromDaemons(x)) /\ IsFiniteSet(FromDaemons(x)')
    BY DueSets, DueSetsNext
  <1>9. /\ Cardinality(FromDaemons(x)') \in Nat
        /\ Cardinality(FromDaemons(x)') >= Cardinality(FromDaemons(x)) - 1
        /\ <<c, 1>> \notin FromDaemons(x) =>
              Cardinality(FromDaemons(x)') >= Cardinality(FromDaemons(x))
    BY <1>4, <1>8, WithoutOne
  <1>10. /\ HeldFor(x)' \in Nat
         /\ Cardinality(FromDaemons(x)') + HeldFor(x)' >= Cardinality(FromDaemons(x))
    <2>1. CASE held'[1] = x
      <3>1. HeldFor(x)' = 1
        BY <1>7, <2>1
      <3> QED
        BY <1>9, <3>1, DueNat
    <2>2. CASE held'[1] # x
      <3>1. HeldFor(x)' = 0
        BY <1>7, <2>2
      <3> QED
        BY <1>5, <1>9, <2>2, <3>1, DueNat
    <2> QED
      BY <2>1, <2>2
  <1>11. /\ Due(x) = Cardinality(Unread(x)) + HeldFor(x) + Cardinality(ToDaemons(x))
                     + Cardinality(WithDaemons(x)) + Cardinality(FromDaemons(x))
         /\ Cardinality(Unread(x)) \in Nat /\ Cardinality(ToDaemons(x)) \in Nat
         /\ Cardinality(WithDaemons(x)) \in Nat /\ Cardinality(FromDaemons(x)) \in Nat
    BY DueNat
  <1>12. HeldFor(x) = 0 /\ Cardinality(FromDaemons(x)') \in Nat
    BY <1>7, <1>9
  <1> QED
    BY ONLY <1>6, <1>10, <1>11, <1>12

(* A request that comes alone is not lost when a daemon reads it.          *)
LEMMA RecvKept ==
    ASSUME TypeOK, TypeOK', Streams, Bounded, NEW c \in Clients, DaemonRecv(c), NEW x \in Dests,
           ~(Len(toClient[c]) > 1)
    PROVE  Due(x)' >= Due(x)
  <1> DEFINE r == Head(toClient[c])
  <1>1. /\ toClient[c] # <<>> /\ toClient' = [toClient EXCEPT ![c] = <<>>]
        /\ todo' = [todo EXCEPT ![c][r] = @ + 1]
        /\ UNCHANGED <<netlink, held, toLA>>
    BY DEF DaemonRecv, laVars
  <1>2. Len(toClient[c]) = 1 /\ r = toClient[c][1] /\ r \in Dests
    <2>1. toClient[c] \in Seq(Dests)
      BY <1>1 DEF TypeOK
    <2>2. Len(toClient[c]) \in Nat \ {0} /\ r = toClient[c][1] /\ r \in Dests
      BY <1>1, <2>1
    <2> QED
      BY <2>2, JustOne
  <1> HIDE DEF r
  <1>3. ToDaemons(x) \ {<<c, 1>>} \subseteq ToDaemons(x)'
    <2>1. \A b \in Clients \ {c} : toClient'[b] = toClient[b]
      BY <1>1 DEF Streams
    <2> QED
      BY <1>2, <2>1 DEF ToDaemons
  <1>4. <<c, 1>> \in ToDaemons(x) => r = x
    BY <1>2 DEF ToDaemons
  <1>5. \A b \in Clients : todo'[b][x] = IF b = c /\ r = x THEN todo[b][x] + 1 ELSE todo[b][x]
    BY <1>1, <1>2 DEF TypeOK
  <1>6. Due(x)' = Cardinality(Unread(x)) + HeldFor(x) + Cardinality(ToDaemons(x)')
                  + Cardinality(WithDaemons(x)') + Cardinality(FromDaemons(x))
    BY <1>1 DEF Due, HeldFor, Unread, FromDaemons
  <1>7. /\ IsFiniteSet(ToDaemons(x)) /\ IsFiniteSet(ToDaemons(x)')
        /\ IsFiniteSet(WithDaemons(x)) /\ IsFiniteSet(WithDaemons(x)')
    BY DueSets, DueSetsNext
  <1>8. /\ Cardinality(ToDaemons(x)') \in Nat
        /\ Cardinality(ToDaemons(x)') >= Cardinality(ToDaemons(x)) - 1
        /\ <<c, 1>> \notin ToDaemons(x) =>
              Cardinality(ToDaemons(x)') >= Cardinality(ToDaemons(x))
    BY <1>3, <1>7, WithoutOne
  <1>9. /\ Cardinality(WithDaemons(x)') \in Nat
        /\ Cardinality(WithDaemons(x)') >=
              Cardinality(WithDaemons(x)) + (IF r = x THEN 1 ELSE 0)
    <2>1. todo \in [Clients -> [Dests -> 0..MaxDue]]
      BY DEF TypeOK
    <2>2. \A b \in Clients : todo[b][x] \in Nat
      BY <2>1
    <2>3. CASE r = x
      <3> DEFINE W == WithDaemons(x)
                 e == <<c, todo[c][x] + 1>>
      <3>1. todo[c][x] < MaxDue
        BY <1>1, <2>3, RoomWithDaemon DEF r
      <3>2. todo[c][x] + 1 \in 1..MaxDue
        BY <2>2, <3>1, Sizes
      <3>3. e \notin W
        BY <2>2 DEF WithDaemons
      <3>4. e \in WithDaemons(x)'
        BY <1>5, <2>2, <2>3, <3>2 DEF WithDaemons
      <3>5. W \subseteq WithDaemons(x)'
        BY <1>5, <2>2 DEF WithDaemons
      <3> HIDE DEF e, W
      <3>6. W \cup {e} \subseteq WithDaemons(x)'
        BY <3>4, <3>5
      <3>7. Cardinality(W \cup {e}) = Cardinality(W) + 1 /\ IsFiniteSet(W \cup {e})
        BY <1>7, <3>3, FS_AddElement DEF W
      <3>8. /\ Cardinality(W \cup {e}) <= Cardinality(WithDaemons(x)')
            /\ Cardinality(WithDaemons(x)') \in Nat
        BY <1>7, <3>6, FS_Subset, FS_CardinalityType
      <3> QED
        BY <2>3, <3>7, <3>8 DEF W
    <2>4. CASE r # x
      <3>1. WithDaemons(x)' = WithDaemons(x)
        BY <1>5, <2>4 DEF WithDaemons
      <3> QED
        BY <2>4, <3>1, DueNat
    <2> QED
      BY <2>3, <2>4
  <1> QED
    BY <1>4, <1>6, <1>8, <1>9, DueNat

(* A daemon that drops a request drops none of another destination.        *)
LEMMA SilentKept ==
    ASSUME TypeOK, NEW c \in Clients, NEW d \in Dests, DaemonSilent(c, d), NEW x \in Dests,
           x # d
    PROVE  Due(x)' = Due(x)
  <1>1. /\ UNCHANGED <<netlink, held, toLA, toClient>>
        /\ todo' = [todo EXCEPT ![c][d] = @ - 1]
    BY DEF DaemonSilent, laVars
  <1>2. \A b \in Clients : todo'[b][x] = todo[b][x]
    BY <1>1 DEF TypeOK
  <1> QED
    BY <1>1, <1>2 DEF Due, Unread, ToDaemons, WithDaemons, FromDaemons

(* The ways in which an answer for d stops being to come.                  *)
Named(d) ==
    \/ held = <<d, "NF_ACCEPT">> \/ held = <<d, "NF_DROP">>
    \/ /\ netlink # <<>> /\ Head(netlink) = d
       /\ \A k \in DOMAIN serv : FirstDaemon(k) => conn[serv[k].sock_fd] # "open"
    \/ \E c \in Clients :
          \/ conn[c] = "open" /\ conn'[c] \in {"half", "reset"}
          \/ Len(toLA[c]) > 1 /\ toLA'[c] = <<>>
          \/ Len(toClient[c]) > 1 /\ toClient'[c] = <<>>
          \/ "silent" \in Faults /\ todo'[c][d] < todo[c][d] /\ toLA' = toLA
    \/ /\ la' = "down"
       /\ \/ la = "closing" \/ "kill" \in Faults
          \/ \E c \in Clients : conn[c] = "reset"

(* Every step that takes one away is one of them.                          *)
LEMMA LossStep ==
    ASSUME Inv, TypeOK', [Next]_agentVars, NEW x \in Dests, Due(x)' < Due(x)
    PROVE  Named(x)
  <1>1. TypeOK /\ Streams /\ Bounded
    BY DEF Inv
  <1>2. Due(x) \in Nat /\ Due(x)' \in Nat
    <2>1. TypeOK' => (\A d : Due(d) \in Nat)'
      BY DueTypes, PTL
    <2> QED
      BY <1>1, <2>1, DueTypes
  <1>3. ~(Due(x)' >= Due(x))
    BY <1>2
  <1>4. ~UNCHANGED <<netlink, held, toClient, todo, toLA>>
    BY <1>2, <1>3, SameDue
  <1>5. CASE Loop
    <2>1. ~Select /\ ~ScanDone
      BY <1>4 DEF Select, ScanDone, streams
    <2>2. PICK i \in DOMAIN fd_list : Dispatch(i)
      BY <1>5, <2>1 DEF Loop
    <2>3. CASE OdsMessage(i)
      <3>1. netlink # <<>>
        BY <2>3 DEF OdsMessage
      <3> QED
        BY <1>1, <1>3, <2>3, <3>1, MessageKept DEF Named
    <2>4. CASE OdsMessageSigpipe(i)
      BY <1>1, <2>4, ServTypes DEF OdsMessageSigpipe, LaReset, Named
    <2>5. CASE ClientMessage(i)
      <3>1. Len(toLA[fd_list[i]]) > 1
        BY <1>1, <1>3, <2>5, AnswerReadKept
      <3>2. fd_list[i] \in Clients /\ toLA' = [toLA EXCEPT ![fd_list[i]] = <<>>]
        BY <2>5 DEF ClientMessage
      <3>3. toLA'[fd_list[i]] = <<>>
        BY <1>1, <3>2 DEF Streams
      <3> QED
        BY <3>1, <3>2, <3>3 DEF Named
    <2>6. ~Accept(i) /\ ~ClientGone(i)
      BY <1>4 DEF Accept, ClientGone
    <2> QED
      BY <2>2, <2>3, <2>4, <2>5, <2>6 DEF Dispatch
  <1>6. ASSUME NEW d \in Dests, NEW v \in Verdicts, Feedback(d, v)
        PROVE  Named(x)
    <2>1. Due(x)' = IF x = d THEN Due(x) - 1 ELSE Due(x)
      BY <1>1, <1>6, FeedbackDue
    <2>2. x = d
      BY <1>2, <1>3, <2>1
    <2> QED
      BY <1>6, <2>2 DEF Feedback, Named, Verdicts
  <1>7. CASE Gone
    BY <1>7 DEF Gone, LaReset, Named
  <1>8. ASSUME NEW d \in Dests, KernelRequest(d)
        PROVE  FALSE
    <2>1. Due(x)' = IF x = d THEN Due(x) + 1 ELSE Due(x)
      BY <1>1, <1>8, RequestDue
    <2> QED
      BY <1>2, <1>3, <2>1
  <1>9. ASSUME NEW c \in Clients, DaemonRecv(c)
        PROVE  Named(x)
    <2>1. Len(toClient[c]) > 1
      BY <1>1, <1>3, <1>9, RecvKept
    <2>2. toClient'[c] = <<>>
      BY <1>1, <1>9 DEF DaemonRecv, Streams
    <2> QED
      BY <2>1, <2>2 DEF Named
  <1>10. ASSUME NEW c \in Clients, NEW d \in Dests, NEW v \in Verdicts, DaemonAnswer(c, d, v)
         PROVE  FALSE
    <2>1. Due(x)' = Due(x)
      BY <1>1, <1>10, AnswerDue
    <2> QED
      BY <1>2, <1>3, <2>1
  <1>11. ASSUME NEW c \in Clients, NEW d \in Dests, DaemonVolunteers(c, d)
         PROVE  FALSE
    <2>1. Due(x)' = IF x = d THEN Due(x) + 1 ELSE Due(x)
      BY <1>1, <1>11, VolunteerDue
    <2> QED
      BY <1>2, <1>3, <2>1
  <1>12. ASSUME NEW c \in Clients, NEW d \in Dests, DaemonSilent(c, d)
         PROVE  Named(x)
    <2>1. x = d
      <3>1. ASSUME x # d
            PROVE  FALSE
        <4>1. Due(x)' = Due(x)
          BY <1>1, <1>12, <3>1, SilentKept
        <4> QED
          BY <1>2, <1>3, <4>1
      <3> QED
        BY <3>1
    <2>2. "silent" \in Faults /\ toLA' = toLA /\ todo' = [todo EXCEPT ![c][d] = @ - 1]
      BY <1>12 DEF DaemonSilent
    <2>3. todo[c][d] \in Int /\ todo'[c][d] = todo[c][d] - 1
      BY <1>1, <2>2 DEF TypeOK
    <2>4. todo'[c][x] < todo[c][x]
      BY <2>1, <2>3
    <2> QED
      BY <2>2, <2>4 DEF Named
  <1>13. ASSUME NEW c \in Clients, ClientClose(c)
         PROVE  Named(x)
    <2>1. conn[c] = "open" /\ conn'[c] \in {"half", "reset"}
      BY <1>1, <1>13 DEF ClientClose, TypeOK
    <2> QED
      BY <2>1 DEF Named
  <1>14. ~Start /\ ~Exit /\ ~UNCHANGED agentVars /\ \A c \in Clients : ~Connect(c)
    BY <1>4 DEF Start, Exit, Connect, streams, laVars, agentVars
  <1> QED
    BY <1>5, <1>6, <1>7, <1>8, <1>9, <1>10, <1>11, <1>12, <1>13, <1>14 DEF Next, Answer, Daemon

(* An answer to come is given to the kernel or lost in one of the places   *)
(* that the code has for it: with no daemon in la_serv_list, behind        *)
(* another message of one recv(), with a client that ended or stays        *)
(* silent, and with the process, for which SIGPIPE is enough.              *)
THEOREM NoOtherLosses == Spec => LossesNamed
  <1>1. Inv /\ Inv' /\ [Next]_agentVars => \A d \in Dests : Due(d)' < Due(d) => Named(d)
    BY LossStep DEF Inv
  <1>2. Spec => []Inv
    BY InvInit, InvStep, PTL DEF Spec
  <1>3. []Inv /\ [][Next]_agentVars
           => [][\A d \in Dests : Due(d)' < Due(d) => Named(d)]_agentVars
    BY <1>1, PTL
  <1> QED
    BY <1>2, <1>3, PTL DEF Spec, LossesNamed, Named

-----------------------------------------------------------------------------
(* Without faults and with one destination.                                *)

(* The LA runs on, no connection breaks, and every client is a daemon.     *)
Faultless ==
    /\ la # "closing"
    /\ \A c \in Clients : conn[c] \notin {"half", "reset"}
    /\ \A k \in DOMAIN serv : serv[k].type = "daemon"

(* So every client of the list has an open connection.                     *)
LEMMA ClientsOpen ==
    ASSUME TypeOK, DescriptorsLive, Faultless, NEW k \in DOMAIN serv
    PROVE  serv[k].sock_fd \in Clients /\ conn[serv[k].sock_fd] = "open"
  <1>1. serv[k] \in ToSet(serv)
    BY DEF ToSet
  <1>2. serv[k].sock_fd \in Clients
    BY ServTypes
  <1>3. conn[serv[k].sock_fd] \in Open
    BY <1>1, <1>2 DEF DescriptorsLive
  <1> QED
    BY <1>2, <1>3 DEF Faultless, Open

LEMMA FaultlessInit == Init => Faultless
  BY DEF Init, Faultless

LEMMA FaultlessStep ==
    ASSUME Faults = {}, TypeOK, DescriptorsLive, Faultless, [Next]_agentVars
    PROVE  Faultless'
  <1>1. ASSUME UNCHANGED <<la, conn, serv>>
        PROVE  Faultless'
    BY <1>1 DEF Faultless
  <1>2. ASSUME NEW c \in Clients, UNCHANGED <<la, serv>>,
               conn' = [conn EXCEPT ![c] = "backlog"]
        PROVE  Faultless'
    BY <1>2 DEF Faultless, TypeOK
  <1>3. \A k \in DOMAIN serv : serv[k].sock_fd \in Clients /\ conn[serv[k].sock_fd] = "open"
    BY ClientsOpen
  <1>4. ASSUME NEW i \in DOMAIN fd_list, Dispatch(i)
        PROVE  Faultless'
    <2>1. CASE OdsMessage(i)
      BY <1>1, <1>3, <2>1 DEF OdsMessage, FirstDaemon
    <2>2. ~OdsMessageSigpipe(i)
      BY <1>3 DEF OdsMessageSigpipe, FirstDaemon
    <2>3. CASE Accept(i)
      <3>1. PICK c \in Clients :
               /\ conn' = [conn EXCEPT ![c] = "open"]
               /\ serv' = Append(serv, [sock_fd |-> c, type |-> "daemon"])
               /\ la' = la
        BY <2>3 DEF Accept
      <3>2. \A k \in DOMAIN serv' : serv'[k].type = "daemon"
        BY <3>1 DEF TypeOK, Faultless
      <3> QED
        BY <3>1, <3>2 DEF Faultless, TypeOK
    <2>4. CASE ClientMessage(i)
      BY <1>1, <2>4 DEF ClientMessage
    <2>5. CASE ClientGone(i)
      <3> DEFINE c == fd_list[i]
                 p == Position(c)
      <3>1. /\ c \in Clients /\ serv' = RemoveAt(serv, p) /\ la' = la
            /\ conn' = [conn EXCEPT ![c] = "closed"]
        BY <2>5 DEF ClientGone
      <3>2. p \in DOMAIN serv
        BY <3>1, ClientListed DEF Position
      <3> HIDE DEF c, p
      <3>3. \A k \in DOMAIN serv' : serv'[k].type = "daemon"
        <4>1. serv \in Seq([sock_fd : Clients, type : {"daemon", "other"}])
          BY DEF TypeOK
        <4>2. ToSet(serv') \subseteq ToSet(serv)
          BY <3>1, <3>2, <4>1, RemovedElements
        <4> QED
          BY <4>2 DEF ToSet, Faultless
      <3> QED
        BY <3>1, <3>3 DEF Faultless, TypeOK
    <2> QED
      BY <1>4, <2>1, <2>2, <2>3, <2>4, <2>5 DEF Dispatch
  <1>5. CASE Loop
    BY <1>1, <1>4, <1>5 DEF Loop, Select, ScanDone, streams
  <1>6. CASE Answer
    BY <1>1, <1>6 DEF Answer, Feedback, streams
  <1>7. CASE Start \/ Exit \/ Gone
    BY <1>7 DEF Start, Exit, Gone, streams, Faultless
  <1>8. ASSUME NEW d \in Dests, KernelRequest(d)
        PROVE  Faultless'
    BY <1>1, <1>8 DEF KernelRequest, laVars, streams
  <1>9. ASSUME NEW c \in Clients, Connect(c) \/ Daemon(c) \/ ClientClose(c)
        PROVE  Faultless'
    BY <1>1, <1>2, <1>9 DEF Connect, Daemon, DaemonRecv, DaemonAnswer, DaemonVolunteers,
                            DaemonSilent, ClientClose, laVars
  <1>10. CASE UNCHANGED agentVars
    BY <1>1, <1>10 DEF agentVars
  <1> QED
    BY <1>5, <1>6, <1>7, <1>8, <1>9, <1>10 DEF Next

(* Who has none to come holds and awaits none.                             *)
LEMMA NoneDue ==
    TypeOK => \A d : Due(d) = 0 => /\ \A i \in DOMAIN netlink : netlink[i] # d
                                   /\ ~(held # <<>> /\ held[1] = d)
                                   /\ \A c \in Clients : todo[c][d] \in 1..MaxDue => FALSE
  <1> SUFFICES ASSUME TypeOK, NEW d, Due(d) = 0
               PROVE  /\ \A i \in DOMAIN netlink : netlink[i] # d
                      /\ ~(held # <<>> /\ held[1] = d)
                      /\ \A c \in Clients : todo[c][d] \in 1..MaxDue => FALSE
    OBVIOUS
  <1>1. /\ Cardinality(Unread(d)) = 0 /\ HeldFor(d) = 0
        /\ Cardinality(WithDaemons(d)) = 0
    BY DueNat
  <1>2. Unread(d) = {} /\ WithDaemons(d) = {}
    BY <1>1, DueSets, FS_EmptySet
  <1>3. ASSUME NEW c \in Clients, todo[c][d] \in 1..MaxDue
        PROVE  FALSE
    <2>1. <<c, 1>> \in WithDaemons(d)
      BY <1>3, Sizes DEF WithDaemons
    <2> QED
      BY <1>2, <2>1
  <1> QED
    BY <1>1, <1>2, <1>3 DEF Unread, HeldFor

LEMMA NoneDueNext ==
    TypeOK' => (\A d : Due(d) = 0 => /\ \A i \in DOMAIN netlink : netlink[i] # d
                                     /\ ~(held # <<>> /\ held[1] = d)
                                     /\ \A c \in Clients : todo[c][d] \in 1..MaxDue => FALSE)'
  BY NoneDue, PTL

(* The last answer for the only destination goes to the kernel, or what    *)
(* would have brought it is read while the LA has no client.               *)
LEMMA LastKept ==
    ASSUME Faults = {}, \A d, e \in Dests : d = e, Inv, TypeOK', Faultless, [Next]_agentVars,
           NEW x \in Dests, Due(x) > 0, Due(x)' = 0,
           \A d \in Dests, v \in Verdicts : ~Feedback(d, v)
    PROVE  serv = <<>> /\ serv' = <<>>
  <1>1. TypeOK /\ Streams /\ DescriptorsLive
    BY DEF Inv
  <1>2. /\ ~(held' # <<>> /\ held'[1] = x)
        /\ \A c \in Clients : todo'[c][x] \notin 1..MaxDue
    BY NoneDueNext
  <1>3. Due(x) \in Nat
    BY <1>1, DueTypes
  <1>4. ASSUME UNCHANGED <<netlink, held, toClient, todo, toLA>>
        PROVE  FALSE
    BY <1>3, <1>4, SameDue
  <1>5. \A k \in DOMAIN serv : conn[serv[k].sock_fd] = "open"
    BY <1>1, ClientsOpen
  <1>6. ASSUME NEW i \in DOMAIN fd_list, Dispatch(i)
        PROVE  serv = <<>> /\ serv' = <<>>
    <2>1. CASE OdsMessage(i)
      <3>1. serv' = serv
        BY <2>1 DEF OdsMessage
      <3>2. CASE serv # <<>>
        <4>1. 1 \in DOMAIN serv
          BY <1>1, <3>2 DEF TypeOK
        <4>2. FirstDaemon(1) /\ conn[serv[1].sock_fd] = "open"
          <5>1. DOMAIN serv = 1..Len(serv)
            BY <1>1 DEF TypeOK
          <5> QED
            BY <1>5, <4>1, <5>1 DEF FirstDaemon, Faultless
        <4>3. Due(x)' >= Due(x)
          BY <1>1, <2>1, <4>1, <4>2, MessageKept
        <4> QED
          BY <1>3, <4>3
      <3> QED
        BY <3>1, <3>2
    <2>2. ~OdsMessageSigpipe(i)
      BY <1>5 DEF OdsMessageSigpipe, FirstDaemon
    <2>3. CASE Accept(i) \/ ClientGone(i)
      BY <1>4, <2>3 DEF Accept, ClientGone
    <2>4. CASE ClientMessage(i)
      <3>1. /\ fd_list[i] \in Clients /\ toLA[fd_list[i]] # <<>>
            /\ held' = Head(toLA[fd_list[i]]) /\ laPc' = "feedback"
        BY <2>4 DEF ClientMessage
      <3>2. held' \in Dests \X Verdicts
        BY <3>1 DEF TypeOK
      <3>3. held'[1] = x /\ held' # <<>>
        BY <3>2
      <3> QED
        BY <1>2, <3>3
    <2> QED
      BY <1>6, <2>1, <2>2, <2>3, <2>4 DEF Dispatch
  <1>7. CASE Loop
    BY <1>4, <1>6, <1>7 DEF Loop, Select, ScanDone, streams
  <1>8. CASE Answer \/ Start \/ Exit \/ Gone \/ UNCHANGED agentVars
    BY <1>4, <1>8 DEF Answer, Start, Exit, Gone, streams, Faultless, agentVars
  <1>9. ASSUME NEW d \in Dests, KernelRequest(d)
        PROVE  FALSE
    BY <1>1, <1>3, <1>9, RequestDue
  <1>10. ASSUME NEW c \in Clients, Connect(c) \/ Daemon(c) \/ ClientClose(c)
         PROVE  FALSE
    <2>1. ~Connect(c) /\ ~ClientClose(c)
      BY <1>4 DEF Connect, laVars, ClientClose
    <2>2. CASE DaemonRecv(c)
      <3> DEFINE r == Head(toClient[c])
      <3>1. toClient[c] # <<>> /\ todo' = [todo EXCEPT ![c][r] = @ + 1]
        BY <2>2 DEF DaemonRecv
      <3>2. toClient[c] \in Seq(Dests)
        BY <1>1 DEF TypeOK
      <3>3. r \in Dests
        BY <3>1, <3>2, HeadTailProperties
      <3>4. r = x
        BY <3>3
      <3> HIDE DEF r
      <3>5. todo'[c][x] = todo[c][x] + 1 /\ todo[c][x] \in Nat
        BY <1>1, <3>1, <3>4 DEF TypeOK
      <3>6. todo'[c][x] \in 0..MaxDue
        BY DEF TypeOK
      <3>7. todo'[c][x] \in 1..MaxDue
        BY <3>5, <3>6, Sizes
      <3> QED
        BY <1>2, <3>7
    <2>3. ASSUME NEW d \in Dests, NEW v \in Verdicts, DaemonAnswer(c, d, v)
          PROVE  FALSE
      BY <1>1, <1>3, <2>3, AnswerDue
    <2>4. ASSUME NEW d \in Dests, DaemonVolunteers(c, d)
          PROVE  FALSE
      BY <1>1, <1>3, <2>4, VolunteerDue
    <2>5. \A d \in Dests : ~DaemonSilent(c, d)
      BY DEF DaemonSilent
    <2> QED
      BY <1>10, <2>1, <2>2, <2>3, <2>4, <2>5 DEF Daemon
  <1> QED
    BY <1>6, <1>7, <1>8, <1>9, <1>10 DEF Next

-----------------------------------------------------------------------------
(* The way of a request.                                                   *)

(* The kernel half once more, with what is proved about it.                *)
KP == INSTANCE OdsKernelProofs WITH due <- [d \in Dests |-> Due(d)]

(* The kernel half is used as it assumes.                                  *)
LEMMA Assumptions == KP!KernelAssumption
  BY PathAssumption DEF K!KernelAssumption, KP!KernelAssumption

(* A context that asks holds a packet with a destination.                  *)
LEMMA Asker ==
    ASSUME KP!TypeOK, KP!Control, NEW c \in Contexts \cup {Handler},
           pc[c] = "transmit_rtinfo"
    PROVE  Dst[skb[c]] \in Dests
  BY PathAssumption DEF K!KernelAssumption, KP!TypeOK, KP!Control, KP!Holding, KP!Procs

(* Every step of the path is one of the LA and its peers, or none of them. *)
LEMMA AgentStep ==
    KP!TypeOK /\ KP!Control /\ [PathNext]_pathVars => [Next]_agentVars
  <1> SUFFICES ASSUME KP!TypeOK, KP!Control, [PathNext]_pathVars
               PROVE  [Next]_agentVars
    OBVIOUS
  <1>1. CASE UNCHANGED agentVars
    BY <1>1 DEF agentVars
  <1>2. CASE LaLoop
    BY <1>2 DEF LaLoop, Deliver, Next, Answer
  <1>3. CASE Process
    BY <1>3 DEF Process, Next
  <1>4. ASSUME NEW c \in Contexts \cup {Handler}, SendRequest(c)
        PROVE  [Next]_agentVars
    <2>1. CASE KernelRequest(Dst[skb[c]])
      <3>1. Dst[skb[c]] \in Dests
        BY <1>4, Asker DEF SendRequest
      <3> QED
        BY <2>1, <3>1 DEF Next
    <2> QED
      BY <1>1, <1>4, <2>1 DEF SendRequest
  <1>5. ASSUME NEW c \in Clients, Client(c)
        PROVE  [Next]_agentVars
    BY <1>5 DEF Client, DaemonAnswers, Next, Daemon
  <1> QED
    BY <1>1, <1>2, <1>3, <1>4, <1>5 DEF PathNext, Arrive, Hook, Send, Routes, pathVars

-----------------------------------------------------------------------------
(* The invariant.                                                          *)

(* A destination is lost only while no answer is to come for it.           *)
LostGone == \A d \in lost : Due(d) = 0

(* The promise of the daemons holds until the kernel reads the answer.     *)
Honest ==
    HonestDaemon =>
       /\ \A c \in Clients : \A i \in DOMAIN toLA[c] : \A d \in Dests :
             toLA[c][i] = <<d, "NF_ACCEPT">> => route[d] = "dev"
       /\ \A d \in Dests : held = <<d, "NF_ACCEPT">> => route[d] = "dev"

Sound == Inv /\ KP!TypeOK /\ KP!Control /\ LostGone /\ Honest

(* The answers to come stay within the bound.                              *)
LEMMA InvCounts == Inv => \A x \in Dests : Due(x) \in 0..MaxDue
  <1> SUFFICES ASSUME Inv, NEW x \in Dests
               PROVE  Due(x) \in 0..MaxDue
    OBVIOUS
  <1>1. TypeOK /\ Bounded
    BY DEF Inv
  <1>2. Due(x) \in Nat
    BY <1>1, DueTypes
  <1>3. MaxDue \in Nat
    BY PathAssumption DEF K!KernelAssumption
  <1> QED
    BY <1>1, <1>2, <1>3 DEF Bounded

(* The same, before a step of the path and after it.                       *)
LEMMA Counts ==
    ASSUME Sound, [PathNext]_pathVars, NEW d \in Dests
    PROVE  /\ Due(d) \in 0..MaxDue /\ Due(d)' \in 0..MaxDue
           /\ Inv'
  <1>2. Inv'
    BY AgentStep, InvStep DEF Sound
  <1>3. Inv => \A x \in Dests : Due(x) \in 0..MaxDue
    BY InvCounts
  <1>4. (Inv => \A x \in Dests : Due(x) \in 0..MaxDue)'
    BY InvCounts, PTL
  <1> QED
    BY <1>2, <1>3, <1>4 DEF Sound

-----------------------------------------------------------------------------
(* The kernel half sees a step of its own, or nothing.                     *)

Seen == [KP!Next]_KP!vars

(* The user half does not move: a step of the kernel half.                 *)
LEMMA KernelSteps ==
    ASSUME Sound, [PathNext]_pathVars, UNCHANGED agentVars,
           \/ \E c \in Contexts : Arrive(c)
           \/ \E c \in Contexts \cup {Handler} : Hook(c)
           \/ Send \/ Routes \/ UNCHANGED pathVars
    PROVE  K!Next \/ UNCHANGED K!vars
  <1>1. [d \in Dests |-> Due(d)]' = [d \in Dests |-> Due(d)] /\ la' = la
    BY DEF agentVars, Due, Unread, ToDaemons, WithDaemons, FromDaemons
  <1>2. CASE UNCHANGED pathVars
    BY <1>1, <1>2 DEF pathVars, kernelVars, K!vars
  <1>3. CASE \/ \E c \in Contexts : Arrive(c)
             \/ \E c \in Contexts \cup {Handler} : Hook(c)
             \/ Send \/ Routes
    BY <1>3 DEF Arrive, Hook, Send, Routes, K!Next, K!Procs, K!ReceivePacket, K!Environment
  <1> QED
    BY <1>2, <1>3

(* The user half loses answers, or only moves them on.                     *)
LEMMA LosingSteps ==
    ASSUME Sound, [PathNext]_pathVars, Unseen, UNCHANGED la, la # "down",
           \A d \in Dests : Due(d)' <= Due(d)
    PROVE  Seen
  <1>1. \A d \in Dests : Due(d) \in 0..MaxDue /\ Due(d)' \in 0..MaxDue
    BY Counts
  <1>2. lost \subseteq Dests /\ \A d \in lost : Due(d) = 0
    BY DEF Sound, LostGone, KP!TypeOK
  <1>3. MaxDue \in Nat
    BY PathAssumption DEF K!KernelAssumption
  <1> DEFINE left == [d \in Dests |-> Due(d)']
             due == [d \in Dests |-> Due(d)]
  <1>4. /\ left \in [Dests -> 0..MaxDue]
        /\ \A d \in Dests : left[d] <= due[d]
        /\ \A d \in Dests : due[d] = Due(d) /\ left[d] = Due(d)'
    BY <1>1
  <1>5. CASE left = due
    <2>1. \A d \in Dests : Due(d)' = Due(d)
      BY <1>4, <1>5
    <2>2. lost' = lost
      BY <1>1, <1>2, <2>1 DEF Unseen, Losing
    <2> QED
      BY <1>5, <2>2 DEF Seen, Unseen, KP!vars
  <1>6. CASE left # due
    <2>1. lost' = lost \cup {d \in Dests : due[d] > 0 /\ left[d] = 0}
      <3>1. lost' = {d \in Dests : Due(d)' = 0 /\ (d \in lost \/ Due(d) > 0)}
        BY <1>1 DEF Unseen, Losing
      <3>2. \A d \in lost : Due(d)' = 0
        BY <1>1, <1>2, <1>3
      <3> HIDE DEF left, due
      <3> QED
        BY <1>2, <1>4, <3>1, <3>2
    <2>2. KP!KeepAnswers(left)
      BY <2>1 DEF KP!KeepAnswers
    <2>3. KP!LoseAnswers
      BY <1>4, <1>6, <2>2 DEF Unseen, KP!LoseAnswers, KP!env
    <2> QED
      BY <2>3 DEF Seen, KP!Next, KP!Environment
  <1> QED
    BY <1>5, <1>6

(* The process ends.                                                       *)
LEMMA GoneSteps ==
    ASSUME Sound, [PathNext]_pathVars, Unseen, la # "down", LaReset, pc[Handler] = "idle"
    PROVE  Seen
  <1>1. \A d \in Dests : Due(d) \in 0..MaxDue
    BY Counts
  <1>2. lost \subseteq Dests
    BY DEF Sound, KP!TypeOK
  <1>3. \A d \in Dests : Due(d)' = 0
    BY ResetDue
  <1>4. [d \in Dests |-> Due(d)]' = [d \in Dests |-> 0]
    BY <1>1, <1>3
  <1>5. lost' = lost \cup {d \in Dests : Due(d) > 0}
    BY <1>1, <1>2, <1>3 DEF Unseen, Losing
  <1>6. KP!KeepAnswers([d \in Dests |-> 0])
    BY <1>4, <1>5 DEF KP!KeepAnswers
  <1>7. la' = "down"
    BY DEF LaReset
  <1>8. KP!LaGone
    BY <1>6, <1>7 DEF KP!LaGone, Unseen, KP!env
  <1> QED
    BY <1>8 DEF Seen, KP!Next, KP!Environment

(* A request on its way, or lost at once.                                  *)
LEMMA RequestSteps ==
    ASSUME Sound, [PathNext]_pathVars, NEW c \in Contexts \cup {Handler}, SendRequest(c)
    PROVE  Seen
  <1> DEFINE d == Dst[skb[c]]
  <1>0. /\ pc[c] = "transmit_rtinfo" /\ pc' = [pc EXCEPT ![c] = "packet_enqueue"]
        /\ UNCHANGED <<transmission_flag, queue, skb, reply, arrived, sent,
                       freed, route, losses, exposed>>
    BY DEF SendRequest
  <1>1. \A x \in Dests : Due(x) \in 0..MaxDue
    BY Counts
  <1>2. lost \subseteq Dests /\ \A x \in lost : Due(x) = 0
    BY DEF Sound, LostGone, KP!TypeOK
  <1>3. d \in Dests
    BY <1>0, Asker DEF Sound
  <1>4. MaxDue \in Nat
    BY PathAssumption DEF K!KernelAssumption
  <1> DEFINE due == [x \in Dests |-> Due(x)]
  <1>5. CASE KernelRequest(d) /\ Losing
    <2>1. KernelRequest(d)
      BY <1>5
    <2>2. la = "up" /\ Due(d) < MaxDue /\ la' = la
      BY <2>1 DEF KernelRequest, laVars
    <2>3. TypeOK
      BY DEF Sound, Inv
    <2> HIDE DEF d
    <2>4. \A x \in Dests : Due(x)' = IF x = d THEN Due(x) + 1 ELSE Due(x)
      BY <1>3, <2>1, <2>3, RequestDue
    <2>5. due' = [due EXCEPT ![d] = @ + 1] /\ due[d] < MaxDue
      BY <1>1, <1>3, <2>2, <2>4
    <2>6. lost' = lost \ {d}
      BY <1>1, <1>2, <1>4, <1>5, <2>4 DEF Losing
    <2>7. KP!TransmitRtinfo(c)
      BY <1>0, <2>2, <2>5, <2>6 DEF KP!TransmitRtinfo, KP!Goto, KP!env, d
    <2> QED
      BY <2>7 DEF Seen, KP!Next, KP!Procs, KP!ReceivePacket
  <1>6. CASE /\ UNCHANGED agentVars
             /\ lost' = IF Due(d) = 0 THEN lost \cup {d} ELSE lost
    <2>1. due' = due /\ la' = la
      BY <1>6 DEF agentVars, Due, Unread, ToDaemons, WithDaemons, FromDaemons
    <2>2. due[d] = Due(d)
      BY <1>3
    <2>3. KP!TransmitRtinfo(c)
      BY <1>0, <1>6, <2>1, <2>2 DEF KP!TransmitRtinfo, KP!Goto, KP!env
    <2> QED
      BY <2>3 DEF Seen, KP!Next, KP!Procs, KP!ReceivePacket
  <1> QED
    BY <1>5, <1>6 DEF SendRequest

(* An answer reaches the kernel.                                           *)
LEMMA FeedbackSteps ==
    ASSUME Sound, [PathNext]_pathVars, NEW d \in Dests, NEW v \in Verdicts, Deliver(d, v),
           pc[Handler] = "idle"
    PROVE  Seen
  <1>1. Feedback(d, v) /\ v \in Verdicts
    BY DEF Deliver
  <1>2. /\ reply' = {<<d, v>>} /\ pc' = [pc EXCEPT ![Handler] = "send_packet"]
        /\ UNCHANGED <<transmission_flag, queue, skb, arrived, sent, freed, route,
                       losses, lost, exposed>>
    BY DEF Deliver
  <1>3. la = "up" /\ la' = la /\ held = <<d, v>>
    BY <1>1 DEF Feedback
  <1>4. TypeOK
    BY DEF Sound, Inv
  <1>5. Due(d) > 0 /\ \A x : Due(x)' = IF x = d THEN Due(x) - 1 ELSE Due(x)
    BY <1>1, <1>4, FeedbackDue
  <1>6. HonestDaemon /\ v = "NF_ACCEPT" => route[d] # "mytun"
    BY <1>3 DEF Sound, Honest
  <1> DEFINE due == [x \in Dests |-> Due(x)]
  <1>7. due[d] > 0 /\ due' = [due EXCEPT ![d] = @ - 1]
    BY <1>5, Counts
  <1>8. KP!RecvInfo(d, v)
    BY <1>2, <1>3, <1>6, <1>7 DEF KP!RecvInfo, KP!Goto, KP!env, KP!ghosts
  <1>9. v \in KP!Verdicts
    BY DEF KP!Verdicts, Verdicts
  <1> QED
    BY <1>8, <1>9 DEF Seen, KP!Next

(* An answer nobody asked for.                                             *)
LEMMA VolunteerSteps ==
    ASSUME Sound, [PathNext]_pathVars, NEW c \in Clients, NEW d \in Dests,
           DaemonVolunteers(c, d), Unseen, UNCHANGED la, la # "down"
    PROVE  Seen
  <1>1. \A x \in Dests : Due(x) \in 0..MaxDue
    BY Counts
  <1>2. lost \subseteq Dests /\ \A x \in lost : Due(x) = 0
    BY DEF Sound, LostGone, KP!TypeOK
  <1>3. MaxDue \in Nat
    BY PathAssumption DEF K!KernelAssumption
  <1>4. TypeOK /\ Streams
    BY DEF Sound, Inv
  <1>5. \A x \in Dests : Due(x)' = IF x = d THEN Due(x) + 1 ELSE Due(x)
    BY <1>4, VolunteerDue
  <1>6. Due(d) < MaxDue
    BY DEF DaemonVolunteers
  <1> DEFINE due == [x \in Dests |-> Due(x)]
  <1>7. due' = [due EXCEPT ![d] = @ + 1] /\ due[d] < MaxDue
    BY <1>1, <1>5, <1>6
  <1>8. lost' = lost \ {d}
    BY <1>1, <1>2, <1>3, <1>5 DEF Unseen, Losing
  <1>9. KP!Volunteer(d)
    BY <1>7, <1>8 DEF Unseen, KP!Volunteer, KP!env
  <1> QED
    BY <1>9 DEF Seen, KP!Next, KP!Environment

(* The select loop of the LA.                                              *)
LEMMA LoopSteps ==
    ASSUME Sound, [PathNext]_pathVars, Loop, Unseen, pc[Handler] = "idle"
    PROVE  Seen
  <1>1. TypeOK /\ Streams
    BY DEF Sound, Inv
  <1>2. \A d \in Dests : Due(d) \in 0..MaxDue
    BY Counts
  <1>3. MaxDue \in Nat
    BY PathAssumption DEF K!KernelAssumption
  <1>4. ASSUME UNCHANGED <<netlink, held, toClient, todo, toLA>>, UNCHANGED la, la # "down"
        PROVE  Seen
    <2>1. \A d \in Dests : Due(d)' = Due(d)
      BY <1>4, SameDue
    <2>2. \A d \in Dests : Due(d)' <= Due(d)
      BY <1>2, <1>3, <2>1
    <2> QED
      BY <1>4, <2>2, LosingSteps
  <1>5. CASE Select \/ ScanDone
    BY <1>4, <1>5 DEF Select, ScanDone, streams
  <1>6. ASSUME NEW i \in DOMAIN fd_list, Dispatch(i)
        PROVE  Seen
    <2>1. la = "up"
      BY <1>6 DEF Dispatch, OdsMessage, OdsMessageSigpipe, Accept,
                  ClientMessage, ClientGone, Current
    <2>2. CASE OdsMessage(i)
      <3>1. \A d \in Dests : Due(d)' <= Due(d)
        BY <1>1, <2>2, MessageDue
      <3>2. UNCHANGED la
        BY <2>2 DEF OdsMessage
      <3> QED
        BY <2>1, <3>1, <3>2, LosingSteps
    <2>3. CASE ClientMessage(i)
      <3>1. \A d \in Dests : Due(d)' <= Due(d)
        BY <1>1, <2>3, AnswerReadDue
      <3>2. UNCHANGED la
        BY <2>3 DEF ClientMessage
      <3> QED
        BY <2>1, <3>1, <3>2, LosingSteps
    <2>4. CASE OdsMessageSigpipe(i)
      BY <2>1, <2>4, GoneSteps DEF OdsMessageSigpipe
    <2>5. CASE Accept(i) \/ ClientGone(i)
      BY <1>4, <2>1, <2>5 DEF Accept, ClientGone
    <2> QED
      BY <1>6, <2>2, <2>3, <2>4, <2>5 DEF Dispatch
  <1> QED
    BY <1>5, <1>6 DEF Loop

(* INIT, EXIT and the end of the process.                                  *)
LEMMA ProcessSteps ==
    ASSUME Sound, [PathNext]_pathVars, Process
    PROVE  Seen
  <1>1. CASE Start /\ Flag(TRUE)
    <2>1. [d \in Dests |-> Due(d)]' = [d \in Dests |-> Due(d)]
      BY <1>1, SameDue DEF Start, streams
    <2>2. KP!LaStart
      BY <1>1, <2>1 DEF Start, Flag, KP!LaStart, KP!env, KP!ghosts
    <2> QED
      BY <2>2 DEF Seen, KP!Next, KP!Environment
  <1>2. CASE Exit /\ Flag(FALSE)
    <2>1. [d \in Dests |-> Due(d)]' = [d \in Dests |-> Due(d)]
      BY <1>2, SameDue DEF Exit, streams
    <2>2. KP!LaExit
      BY <1>2, <2>1 DEF Exit, Flag, Process, KP!LaExit, KP!env, KP!ghosts
    <2> QED
      BY <2>2 DEF Seen, KP!Next, KP!Environment
  <1>3. CASE Gone /\ Unseen
    BY <1>3, GoneSteps DEF Gone, Process
  <1> QED
    BY <1>1, <1>2, <1>3 DEF Process

(* The daemons and other clients.                                          *)
LEMMA ClientSteps ==
    ASSUME Sound, [PathNext]_pathVars, NEW c \in Clients, Client(c)
    PROVE  Seen
  <1>1. TypeOK /\ Streams /\ DownClosed
    BY DEF Sound, Inv
  <1>2. \A d \in Dests : Due(d) \in 0..MaxDue
    BY Counts
  <1>3. MaxDue \in Nat
    BY PathAssumption DEF K!KernelAssumption
  <1>4. Unseen /\ UNCHANGED la
    BY DEF Client, DaemonAnswers, Connect, DaemonRecv, ClientClose, DaemonSilent,
           DaemonVolunteers, DaemonAnswer, laVars
  <1>5. CASE Connect(c)
    <2>1. \A d \in Dests : Due(d)' = Due(d)
      BY <1>5, SameDue DEF Connect, laVars
    <2>2. \A d \in Dests : Due(d)' <= Due(d)
      BY <1>2, <1>3, <2>1
    <2>3. la # "down"
      BY <1>5 DEF Connect
    <2> QED
      BY <1>4, <2>2, <2>3, LosingSteps
  <1>6. CASE DaemonRecv(c)
    <2>1. \A d \in Dests : Due(d)' <= Due(d)
      BY <1>1, <1>6, RecvDue
    <2>2. la # "down"
      BY <1>1, <1>6 DEF DaemonRecv, DownClosed
    <2> QED
      BY <1>4, <2>1, <2>2, LosingSteps
  <1>7. ASSUME NEW d \in Dests, NEW v \in Verdicts, DaemonAnswer(c, d, v)
        PROVE  Seen
    <2>1. \A x \in Dests : Due(x)' = Due(x)
      BY <1>1, <1>7, AnswerDue
    <2>2. \A x \in Dests : Due(x)' <= Due(x)
      BY <1>2, <1>3, <2>1
    <2>3. la # "down"
      BY <1>1, <1>7 DEF DaemonAnswer, DownClosed
    <2> QED
      BY <1>4, <2>2, <2>3, LosingSteps
  <1>8. ASSUME NEW d \in Dests, DaemonVolunteers(c, d)
        PROVE  Seen
    <2>1. la # "down"
      BY <1>1, <1>8 DEF DaemonVolunteers, DownClosed
    <2> QED
      BY <1>4, <1>8, <2>1, VolunteerSteps
  <1>9. CASE ClientClose(c) \/ \E d \in Dests : DaemonSilent(c, d)
    <2>1. \A x \in Dests : Due(x)' <= Due(x)
      BY <1>1, <1>9, LossDue
    <2>2. la # "down"
      BY <1>1, <1>9 DEF ClientClose, DaemonSilent, DownClosed, None
    <2> QED
      BY <1>4, <2>1, <2>2, LosingSteps
  <1> QED
    BY <1>5, <1>6, <1>7, <1>8, <1>9 DEF Client, DaemonAnswers

(* Both instances of the kernel half have the same behaviours.             *)
LEMMA SameKernel ==
    /\ K!Init <=> KP!Init
    /\ [K!Next]_K!vars <=> [KP!Next]_KP!vars
    /\ K!WaitsForAnswer <=> KP!WaitsForAnswer
  <1> USE DEF K!Procs, K!Verdicts, K!Pending, K!Answering, K!Goto, K!Return, K!AfterReceive,
              K!Late, K!env, K!ghosts, KP!Procs, KP!Verdicts, KP!Pending, KP!Answering,
              KP!Goto, KP!Return, KP!AfterReceive, KP!Late, KP!env, KP!ghosts
  <1>1. K!Init <=> KP!Init
    BY DEF K!Init, KP!Init
  <1>2. \A c : /\ \A p : /\ K!AcceptPacket(c, p) <=> KP!AcceptPacket(c, p)
                         /\ K!StealPacket(c, p) <=> KP!StealPacket(c, p)
               /\ K!ReceivePacket(c) <=> KP!ReceivePacket(c)
    BY DEF K!AcceptPacket, K!StealPacket, K!ReceivePacket, K!ReadFlag, K!PendingIp,
           K!TransmitRtinfo, K!PacketEnqueue, K!Park,
           KP!AcceptPacket, KP!StealPacket, KP!ReceivePacket, KP!ReadFlag, KP!PendingIp,
           KP!TransmitRtinfo, KP!PacketEnqueue, KP!Park
  <1>3. /\ \A d, v : K!RecvInfo(d, v) <=> KP!RecvInfo(d, v)
        /\ K!SendPacket <=> KP!SendPacket
    BY DEF K!RecvInfo, K!SendPacket, K!ReleaseOne, K!Reroute, K!ReleaseDone, K!Oldest,
           K!RemoveAt, KP!RecvInfo, KP!SendPacket, KP!ReleaseOne, KP!Reroute,
           KP!ReleaseDone, KP!Oldest, KP!RemoveAt
  <1>4. K!Environment <=> KP!Environment
    BY DEF K!Environment, K!LaStart, K!LaExit, K!LaGone, K!LoseAnswers, K!KeepAnswers,
           K!Volunteer, K!RouteFound, K!RouteLost,
           KP!Environment, KP!LaStart, KP!LaExit, KP!LaGone, KP!LoseAnswers,
           KP!KeepAnswers, KP!Volunteer, KP!RouteFound, KP!RouteLost
  <1>5. K!Next <=> KP!Next
    BY <1>2, <1>3, <1>4 DEF K!Next, KP!Next
  <1>6. (UNCHANGED K!vars) <=> (UNCHANGED KP!vars)
    BY DEF K!vars, KP!vars
  <1>7. K!WaitsForAnswer <=> KP!WaitsForAnswer
    BY DEF K!WaitsForAnswer, K!Covered, K!Queued,
           KP!WaitsForAnswer, KP!Covered, KP!Queued
  <1> QED
    BY <1>1, <1>5, <1>6, <1>7

(* Every step of the path is one of the kernel half with its environment.  *)
LEMMA StepMaps == Sound /\ [PathNext]_pathVars => Seen
  <1> SUFFICES ASSUME Sound, [PathNext]_pathVars
               PROVE  Seen
    OBVIOUS
  <1>1. ASSUME NEW c \in Contexts \cup {Handler}, SendRequest(c)
        PROVE  Seen
    BY <1>1, RequestSteps
  <1>2. CASE LaLoop
    <2>1. CASE Loop /\ Unseen
      BY <1>2, <2>1, LoopSteps DEF LaLoop
    <2>2. ASSUME NEW d \in Dests, NEW v \in Verdicts, Deliver(d, v)
          PROVE  Seen
      BY <1>2, <2>2, FeedbackSteps DEF LaLoop
    <2> QED
      BY <1>2, <2>1, <2>2 DEF LaLoop
  <1>3. CASE Process
    BY <1>3, ProcessSteps
  <1>4. ASSUME NEW c \in Clients, Client(c)
        PROVE  Seen
    BY <1>4, ClientSteps
  <1>5. CASE \/ \E c \in Contexts : Arrive(c)
             \/ \E c \in Contexts \cup {Handler} : Hook(c)
             \/ Send \/ Routes \/ UNCHANGED pathVars
    <2>1. UNCHANGED agentVars
      BY <1>5 DEF Arrive, Hook, Send, Routes, pathVars
    <2>2. [K!Next]_K!vars
      BY <1>5, <2>1, KernelSteps
    <2> QED
      BY <2>2, SameKernel DEF Seen
  <1> QED
    BY <1>1, <1>2, <1>3, <1>4, <1>5 DEF PathNext

-----------------------------------------------------------------------------
(* The invariant holds in every state.                                     *)

(* A step that reads or drops answers, or finds a route, breaks no promise *)
LEMMA HonestKept ==
    ASSUME Honest, \A d \in Dests : route[d] = "dev" => route'[d] = "dev",
           held' = held \/ held' = <<>>,
           \A c \in Clients : toLA'[c] = toLA[c] \/ toLA'[c] = <<>>
    PROVE  Honest'
  <1> SUFFICES ASSUME HonestDaemon
               PROVE  /\ \A c \in Clients : \A i \in DOMAIN toLA'[c] : \A d \in Dests :
                            toLA'[c][i] = <<d, "NF_ACCEPT">> => route'[d] = "dev"
                      /\ \A d \in Dests : held' = <<d, "NF_ACCEPT">> => route'[d] = "dev"
    BY DEF Honest
  <1>1. ASSUME NEW c \in Clients, NEW i \in DOMAIN toLA'[c], NEW d \in Dests,
               toLA'[c][i] = <<d, "NF_ACCEPT">>
        PROVE  route'[d] = "dev"
    <2>1. toLA'[c] = toLA[c]
      BY <1>1
    <2> QED
      BY <1>1, <2>1 DEF Honest
  <1>2. ASSUME NEW d \in Dests, held' = <<d, "NF_ACCEPT">>
        PROVE  route'[d] = "dev"
    <2>1. held' = held
      BY <1>2
    <2> QED
      BY <1>2, <2>1 DEF Honest
  <1> QED
    BY <1>1, <1>2

(* An answer that a daemon writes is a promise kept.                       *)
LEMMA HonestAppend ==
    ASSUME Honest, TypeOK, Streams, NEW c \in Clients, NEW d \in Dests,
           NEW v \in Verdicts, Promise(d, v), UNCHANGED <<route, held>>,
           toLA' = [toLA EXCEPT ![c] = Append(@, <<d, v>>)]
    PROVE  Honest'
  <1> SUFFICES ASSUME HonestDaemon, NEW b \in Clients, NEW i \in DOMAIN toLA'[b],
                      NEW x \in Dests, toLA'[b][i] = <<x, "NF_ACCEPT">>
               PROVE  route[x] = "dev"
    BY DEF Honest
  <1>1. CASE b # c
    BY <1>1 DEF Honest, Streams
  <1>2. CASE b = c
    <2>1. toLA[c] \in Seq(Dests \X Verdicts) /\ toLA'[c] = Append(toLA[c], <<d, v>>)
      BY DEF TypeOK, Streams
    <2>2. /\ Len(toLA[c]) \in Nat /\ DOMAIN toLA[c] = 1..Len(toLA[c])
          /\ DOMAIN toLA'[c] = 1..(Len(toLA[c]) + 1)
          /\ toLA'[c][Len(toLA[c]) + 1] = <<d, v>>
          /\ \A j \in 1..Len(toLA[c]) : toLA'[c][j] = toLA[c][j]
      BY <2>1
    <2>3. CASE i = Len(toLA[c]) + 1
      <3>1. d = x /\ v = "NF_ACCEPT"
        BY <1>2, <2>2, <2>3
      <3> QED
        BY <3>1 DEF Promise
    <2>4. CASE i \in DOMAIN toLA[c]
      <3>1. toLA[c][i] = <<x, "NF_ACCEPT">>
        BY <1>2, <2>2, <2>4
      <3> QED
        BY <2>4, <3>1 DEF Honest
    <2> QED
      BY <1>2, <2>2, <2>3, <2>4
  <1> QED
    BY <1>1, <1>2

(* The LA holds an answer that was on a connection.                        *)
LEMMA HonestRead ==
    ASSUME Honest, TypeOK, Streams, NEW i \in DOMAIN fd_list, ClientMessage(i),
           UNCHANGED route
    PROVE  Honest'
  <1> SUFFICES ASSUME HonestDaemon
               PROVE  /\ \A c \in Clients : \A j \in DOMAIN toLA'[c] : \A d \in Dests :
                            toLA'[c][j] = <<d, "NF_ACCEPT">> => route[d] = "dev"
                      /\ \A d \in Dests : held' = <<d, "NF_ACCEPT">> => route[d] = "dev"
    BY DEF Honest
  <1> DEFINE c == fd_list[i]
  <1>1. /\ c \in Clients /\ toLA[c] # <<>> /\ held' = Head(toLA[c])
        /\ toLA' = [toLA EXCEPT ![c] = <<>>]
    BY DEF ClientMessage
  <1> HIDE DEF c
  <1>2. toLA[c] \in Seq(Dests \X Verdicts)
    BY <1>1 DEF TypeOK
  <1>3. 1 \in DOMAIN toLA[c] /\ held' = toLA[c][1]
    BY <1>1, <1>2
  <1>4. \A d \in Dests : held' = <<d, "NF_ACCEPT">> => route[d] = "dev"
    BY <1>1, <1>3 DEF Honest
  <1>5. \A b \in Clients : toLA'[b] = toLA[b] \/ toLA'[b] = <<>>
    BY <1>1 DEF Streams
  <1>6. ASSUME NEW b \in Clients, NEW j \in DOMAIN toLA'[b], NEW d \in Dests,
               toLA'[b][j] = <<d, "NF_ACCEPT">>
        PROVE  route[d] = "dev"
    <2>1. toLA'[b] = toLA[b]
      BY <1>5, <1>6
    <2> QED
      BY <1>6, <2>1 DEF Honest
  <1> QED
    BY <1>4, <1>6

(* Only a route that is lost could break a promise, and none is lost while *)
(* daemons are assumed to keep theirs.                                     *)
LEMMA HonestStep == Sound /\ [PathNext]_pathVars => Honest'
  <1> SUFFICES ASSUME Sound, [PathNext]_pathVars
               PROVE  Honest'
    OBVIOUS
  <1>1. Honest /\ TypeOK /\ Streams
    BY DEF Sound, Inv
  <1>2. ASSUME UNCHANGED <<route, held, toLA>>
        PROVE  Honest'
    BY <1>1, <1>2, HonestKept
  <1>3. ASSUME LaReset, UNCHANGED route
        PROVE  Honest'
    BY <1>1, <1>3, HonestKept DEF LaReset
  <1>4. CASE LaLoop
    <2>1. ASSUME NEW d \in Dests, NEW v \in Verdicts, Deliver(d, v)
          PROVE  Honest'
      BY <1>1, <2>1, HonestKept DEF Deliver, Feedback, streams
    <2>2. CASE Loop /\ Unseen
      <3>1. UNCHANGED route
        BY <2>2 DEF Unseen
      <3>2. CASE Select \/ ScanDone
        BY <1>2, <3>1, <3>2 DEF Select, ScanDone, streams
      <3>3. ASSUME NEW i \in DOMAIN fd_list, Dispatch(i)
            PROVE  Honest'
        <4>1. CASE ClientMessage(i)
          BY <1>1, <3>1, <4>1, HonestRead
        <4>2. CASE OdsMessageSigpipe(i)
          BY <1>3, <3>1, <4>2 DEF OdsMessageSigpipe
        <4>3. CASE OdsMessage(i) \/ Accept(i) \/ ClientGone(i)
          BY <1>2, <3>1, <4>3 DEF OdsMessage, Accept, ClientGone
        <4> QED
          BY <3>3, <4>1, <4>2, <4>3 DEF Dispatch
      <3> QED
        BY <2>2, <3>2, <3>3 DEF Loop
    <2> QED
      BY <1>4, <2>1, <2>2 DEF LaLoop
  <1>5. CASE Process
    <2>1. UNCHANGED route
      BY <1>5 DEF Process, Flag, Unseen
    <2> QED
      BY <1>2, <1>3, <1>5, <2>1
      DEF Process, Start, Exit, Gone, streams
  <1>6. ASSUME NEW c \in Contexts \cup {Handler}, SendRequest(c)
        PROVE  Honest'
    BY <1>2, <1>6 DEF SendRequest, KernelRequest, laVars, streams, agentVars
  <1>7. ASSUME NEW c \in Clients, Client(c)
        PROVE  Honest'
    <2>1. UNCHANGED route
      BY <1>7 DEF Client, DaemonAnswers, Unseen
    <2>2. ASSUME NEW d \in Dests, NEW v \in Verdicts, DaemonAnswer(c, d, v), Promise(d, v)
          PROVE  Honest'
      BY <1>1, <2>1, <2>2, HonestAppend DEF DaemonAnswer, laVars
    <2>3. ASSUME NEW d \in Dests, DaemonVolunteers(c, d), Promise(d, "NF_ACCEPT")
          PROVE  Honest'
      <3>1. "NF_ACCEPT" \in Verdicts
        BY DEF Verdicts
      <3> QED
        BY <1>1, <2>1, <2>3, <3>1, HonestAppend DEF DaemonVolunteers, laVars
    <2>4. CASE \/ Connect(c) \/ DaemonRecv(c) \/ ClientClose(c)
               \/ \E d \in Dests : DaemonSilent(c, d)
      BY <1>2, <2>1, <2>4 DEF Connect, DaemonRecv, ClientClose, DaemonSilent, laVars
    <2> QED
      BY <1>7, <2>2, <2>3, <2>4 DEF Client, DaemonAnswers
  <1>8. ASSUME UNCHANGED agentVars, \A d \in Dests : route[d] = "dev" => route'[d] = "dev"
        PROVE  Honest'
    BY <1>1, <1>8, HonestKept DEF agentVars
  <1>9. CASE Routes
    <2>1. CASE ~HonestDaemon
      BY <2>1 DEF Honest
    <2>2. ASSUME NEW d \in Dests, K!RouteFound(d)
          PROVE  Honest'
      <3>1. \A x \in Dests : route[x] = "dev" => route'[x] = "dev"
        BY <2>2 DEF K!RouteFound, Sound, KP!TypeOK
      <3> QED
        BY <1>8, <1>9, <3>1 DEF Routes
    <2>3. ASSUME HonestDaemon, NEW d \in Dests, K!RouteLost(d)
          PROVE  Honest'
      <3>1. losses \in 0..RouteLosses /\ losses < RouteLosses /\ RouteLosses = 0
        BY <2>3, PathAssumption DEF K!RouteLost, Sound, KP!TypeOK
      <3> QED
        BY <3>1
    <2> QED
      BY <1>9, <2>1, <2>2, <2>3 DEF Routes
  <1>10. ASSUME NEW c \in Contexts, Arrive(c)
         PROVE  Honest'
    BY <1>8, <1>10 DEF Arrive, K!AcceptPacket, K!StealPacket, K!env
  <1>11. ASSUME NEW c \in Contexts \cup {Handler}, Hook(c)
         PROVE  Honest'
    BY <1>8, <1>11 DEF Hook, K!ReadFlag, K!PendingIp, K!PacketEnqueue, K!Park, K!env
  <1>12. CASE Send
    BY <1>8, <1>12 DEF Send, K!SendPacket, K!ReleaseOne, K!Reroute, K!ReleaseDone, K!env
  <1>13. CASE UNCHANGED pathVars
    BY <1>8, <1>13 DEF pathVars, kernelVars
  <1> QED
    BY <1>4, <1>5, <1>6, <1>7, <1>9, <1>10, <1>11, <1>12, <1>13 DEF PathNext

(* The initial state, in which nothing is on its way.                      *)
LEMMA SoundInit == PathInit => Sound /\ K!Init
  <1> SUFFICES ASSUME PathInit
               PROVE  Sound /\ K!Init
    OBVIOUS
  <1>1. Init /\ K!Init /\ KP!Init
    BY SameKernel DEF PathInit
  <1>2. Inv
    BY <1>1, InvInit
  <1>3. KP!TypeOK /\ KP!Control
    BY <1>1, Assumptions, KP!TypeInit
  <1>4. LostGone
    BY <1>1 DEF KP!Init, LostGone
  <1>5. Honest
    BY <1>1 DEF Init, Honest
  <1> QED
    BY <1>1, <1>2, <1>3, <1>4, <1>5 DEF Sound

(* Each half keeps its part of the invariant, and LostGone is the kernel   *)
(* half's in other words.                                                  *)
LEMMA SoundStep == Sound /\ [PathNext]_pathVars => Sound'
  <1> SUFFICES ASSUME Sound, [PathNext]_pathVars
               PROVE  Sound'
    OBVIOUS
  <1>1. Inv'
    BY AgentStep, InvStep DEF Sound
  <1>2. KP!TypeOK' /\ KP!Control'
    BY StepMaps, Assumptions, KP!TypeStep DEF Sound, Seen
  <1>3. LostGone'
    <2>1. KP!LostGone
      BY DEF Sound, LostGone, KP!LostGone, KP!TypeOK
    <2>2. KP!LostGone'
      BY <2>1, StepMaps, Assumptions, KP!LostStep DEF Sound, Seen
    <2>3. lost' \subseteq Dests
      BY <1>2 DEF KP!TypeOK
    <2> QED
      BY <2>2, <2>3 DEF LostGone, KP!LostGone
  <1> QED
    BY <1>1, <1>2, <1>3, HonestStep DEF Sound

-----------------------------------------------------------------------------
(* The environment that the kernel half was checked and proved in, answers *)
(* that come, are lost or come unasked, is what netlink, the LA, TCP and   *)
(* the daemons make of it, for every number of them.                       *)
THEOREM PathImplementsKernel == PathSpec => ImplementsKernel
  <1>1. Sound /\ [PathNext]_pathVars => [K!Next]_K!vars
    BY StepMaps, SameKernel DEF Seen
  <1> QED
    BY <1>1, SoundInit, SoundStep, PTL DEF PathSpec, ImplementsKernel, K!Spec

(* So what is proved of the kernel half holds on the way: a parked packet  *)
(* waits for a request or an answer that some socket or daemon really has, *)
(* unless it was lost or overtaken.                                        *)
THEOREM RequestsTravel == PathSpec => []RequestTravels
  <1>1. KP!Spec => []KP!WaitsForAnswer
    BY Assumptions, KP!Waiting
  <1>2. Sound /\ [PathNext]_pathVars => [KP!Next]_KP!vars
    BY StepMaps DEF Seen
  <1>3. PathInit => KP!Init
    BY SoundInit, SameKernel
  <1>4. KP!WaitsForAnswer => RequestTravels
    BY SameKernel DEF RequestTravels
  <1> QED
    BY <1>1, <1>2, <1>3, <1>4, SoundInit, SoundStep, PTL DEF PathSpec, KP!Spec

-----------------------------------------------------------------------------
(* Without faults, with one destination.                                   *)

(* A request that the socket of the LA does not take has others before it, *)
(* or the LA does not run.                                                 *)
LEMMA RequestKept ==
    ASSUME Faults = {}, \A d, e \in Dests : d = e, Sound, Faultless, [PathNext]_pathVars,
           NEW c \in Contexts \cup {Handler}, SendRequest(c), lost' \ lost # {}
    PROVE  serv = <<>> /\ serv' = <<>>
  <1>1. TypeOK /\ DownClosed /\ KP!TypeOK /\ KP!Control
    BY DEF Sound, Inv
  <1>2. Dst[skb[c]] \in Dests
    BY <1>1, Asker DEF SendRequest
  <1>3. PICK x \in lost' : x \notin lost
    OBVIOUS
  <1>4. CASE KernelRequest(Dst[skb[c]]) /\ Losing
    <2>1. x \in Dests /\ Due(x)' = 0 /\ Due(x) > 0
      BY <1>3, <1>4 DEF Losing
    <2>2. Due(x)' = 0 /\ Due(x) > 0
      BY <2>1
    <2>3. KernelRequest(Dst[skb[c]])
      BY <1>4
    <2>4. Due(x)' = IF x = Dst[skb[c]] THEN Due(x) + 1 ELSE Due(x)
      BY <1>1, <1>2, <2>3, RequestDue
    <2>5. Due(x) \in Nat
      BY <1>1, DueTypes
    <2> QED
      BY <2>2, <2>4, <2>5
  <1>5. CASE /\ la # "up" \/ Len(netlink) = NetlinkMax \/ "alloc" \in Faults
             /\ UNCHANGED agentVars
             /\ lost' = IF Due(Dst[skb[c]]) = 0 THEN lost \cup {Dst[skb[c]]} ELSE lost
    <2>1. serv' = serv
      BY <1>5 DEF agentVars
    <2>2. CASE la # "up"
      <3>1. la = "down"
        BY <1>1, <2>2 DEF TypeOK, Faultless
      <3> QED
        BY <1>1, <2>1, <3>1 DEF DownClosed
    <2>3. CASE Len(netlink) = NetlinkMax
      <3>1. Due(Dst[skb[c]]) = 0
        BY <1>3, <1>5
      <3>2. \A i \in DOMAIN netlink : netlink[i] # Dst[skb[c]]
        BY <1>1, <3>1, NoneDue
      <3>3. netlink \in Seq(Dests) /\ Len(netlink) \in Nat \ {0}
        BY <1>1, <2>3, AgentAssumption DEF TypeOK
      <3>4. 1 \in DOMAIN netlink /\ netlink[1] \in Dests
        BY <3>3
      <3>5. netlink[1] = Dst[skb[c]]
        BY <1>2, <3>4
      <3> QED
        BY <3>2, <3>4, <3>5
    <2> QED
      BY <1>5, <2>2, <2>3
  <1> QED
    BY <1>4, <1>5 DEF SendRequest

(* The last answer to come is lost in no other step either.                *)
LEMMA OnlyBeforeConnect ==
    ASSUME Faults = {}, \A d, e \in Dests : d = e, Sound, Faultless, [PathNext]_pathVars,
           lost' \ lost # {}
    PROVE  serv = <<>> /\ serv' = <<>>
  <1>1. TypeOK /\ TypeOK' /\ Inv
    BY SoundStep DEF Sound, Inv
  <1>2. ASSUME Losing, \A d \in Dests, v \in Verdicts : ~Feedback(d, v)
        PROVE  serv = <<>> /\ serv' = <<>>
    <2>1. PICK x \in Dests : Due(x)' = 0 /\ Due(x) > 0
      BY <1>2 DEF Losing
    <2>2. Due(x)' = 0 /\ Due(x) > 0
      BY <2>1
    <2>3. [Next]_agentVars
      BY AgentStep DEF Sound
    <2> QED
      BY <1>1, <1>2, <2>2, <2>3, LastKept
  <1>3. CASE LaLoop
    <2>1. CASE Loop /\ Unseen
      <3>1. Loop
        BY <2>1
      <3>2. \A d \in Dests, v \in Verdicts : ~Feedback(d, v)
        BY <1>1, <3>1 DEF Loop, Select, ScanDone, Dispatch, OdsMessage,
           OdsMessageSigpipe, Accept, ClientMessage, ClientGone, Current,
           Feedback
      <3> QED
        BY <1>2, <2>1, <3>2 DEF Unseen
    <2> QED
      BY <1>3, <2>1 DEF LaLoop, Deliver
  <1>4. CASE Process
    <2>1. ~Gone
      BY DEF Gone, Faultless
    <2> QED
      BY <1>4, <2>1 DEF Process, Flag
  <1>5. ASSUME NEW c \in Contexts \cup {Handler}, SendRequest(c)
        PROVE  serv = <<>> /\ serv' = <<>>
    BY <1>5, RequestKept
  <1>6. ASSUME NEW c \in Clients, Client(c)
        PROVE  serv = <<>> /\ serv' = <<>>
    <2>1. Losing /\ UNCHANGED laPc
      BY <1>6 DEF Client, DaemonAnswers, Unseen, Connect, DaemonRecv, ClientClose,
                  DaemonSilent, DaemonVolunteers, DaemonAnswer, laVars
    <2>2. \A d \in Dests, v \in Verdicts : ~Feedback(d, v)
      BY <2>1 DEF Feedback
    <2> QED
      BY <1>2, <2>1, <2>2
  <1>7. CASE \/ \E c \in Contexts : Arrive(c)
             \/ \E c \in Contexts \cup {Handler} : Hook(c)
             \/ Send \/ Routes \/ UNCHANGED pathVars
    <2>1. lost' \subseteq lost
      BY <1>7 DEF Arrive, Hook, Send, Routes, K!AcceptPacket, K!StealPacket, K!ReadFlag,
         K!PendingIp, K!PacketEnqueue, K!Park, K!SendPacket, K!ReleaseOne, K!Reroute,
         K!ReleaseDone, K!RouteFound, K!RouteLost, K!env, K!ghosts, pathVars, kernelVars
    <2> QED
      BY <2>1
  <1> QED
    BY <1>3, <1>4, <1>5, <1>6, <1>7 DEF PathNext

(* Without faults, and with one destination, the last answer to come is    *)
(* lost in one way only: the LA reads the request while no daemon has      *)
(* connected.  For any number of packets, contexts and clients: a recv()   *)
(* that returns many messages then still leaves one of them.               *)
THEOREM OneDestinationAnswered ==
    ASSUME Faults = {}, \A d, e \in Dests : d = e
    PROVE  PathSpec => LostOnlyBeforeConnect
  <1>1. PathInit => Faultless
    BY FaultlessInit DEF PathInit
  <1>2. Sound /\ Faultless /\ [PathNext]_pathVars => Faultless'
    BY AgentStep, FaultlessStep DEF Sound, Inv
  <1>3. Sound /\ Faultless /\ [PathNext]_pathVars =>
           [lost' \ lost # {} => serv = <<>> /\ serv' = <<>>]_pathVars
    BY OnlyBeforeConnect
  <1> QED
    BY <1>1, <1>2, <1>3, SoundInit, SoundStep, PTL DEF PathSpec, LostOnlyBeforeConnect
=============================================================================
