------------------------- MODULE NeighborDiscovery -------------------------
(***************************************************************************)
(* The neighbour discovery library of one node (lib/ND): the one-hop list  *)
(* of every interface, the hello timers, and the three flows of control    *)
(* that share them without a lock: the thread of main_loop, which reads    *)
(* hello messages, the SIGALRM handler, and calls of the API.              *)
(*                                                                         *)
(* Times are relative to now: Tick lets all of them go down by one, and    *)
(* SIGALRM comes within the tick in which it is due or in the one after.   *)
(* A list operation, a call of the API and a run of the handler are atomic *)
(* steps; update_info is not: it finds the entry of the neighbour, writes  *)
(* it, removes the old timer and sets the new one, all within a tick.      *)
(***************************************************************************)
EXTENDS Integers, Sequences, SequencesExt, FiniteSets

CONSTANTS
    Nodes,          (* the neighbours                                       *)
    Interfaces,     (* interface_entry_list, in order                       *)
    Link,           (* the interface on which a neighbour is heard          *)
    Periodic,       (* the interfaces configured with a hello_interval # 0  *)
    Tuned,          (* bound: those nd_set_hello_interval is called for     *)
    LiveTime,       (* LIVE_TIME                                            *)
    HelloInterval,  (* that hello_interval                                  *)
    MaxHello,       (* bound: hello timers of an interface                  *)
    Lag             (* bound: timers later than this count as this late     *)

Ifs == ToSet(Interfaces)

(* No SIGALRM comes: setitimer was given 0 or a time far in the future.    *)
Off == 1000

ASSUME DiscoveryAssumption ==
    /\ IsFiniteSet(Nodes) /\ Interfaces \in Seq(Ifs) \ {<<>>}
    /\ IsInjective(Interfaces) /\ Link \in [Nodes -> Ifs]
    /\ Periodic \subseteq Ifs /\ Tuned \subseteq Ifs
    /\ LiveTime \in 1..Off - 1 /\ HelloInterval \in 1..Off - 1
    /\ MaxHello \in Nat \ {0} /\ Lag \in Nat

VARIABLES
    neighbors,  \* one_hop_neighbor_set of each interface: the address of an
                \* entry, and whose message its information was taken from
    hello,      \* whether hello_interval of the interface is not 0
    timerQ,     \* the list of timers
    alarm,      \* time to the next SIGALRM, or Off
    up,         \* between nd_turn_up and nd_turn_down
    inbox,      \* the socket of each interface: whose hello messages wait
    pc,         \* where the thread of main_loop is
    ready,      \* interfaces whose descriptor is still to be looked at
    msg,        \* the hello message that update_info works on
    torn        \* ghost: neighbours whose update another flow cut in on

vars == <<neighbors, hello, timerQ, alarm, up, inbox, pc, ready, msg, torn>>
thread == <<pc, ready, msg>>

Timer(type, data, contain, timeout) ==
    [type |-> type, data |-> data, contain |-> contain, timeout |-> timeout]
NoNode == "none"
NoMsg == [src |-> NoNode, index |-> 0]

EntryTimer(n, i) == Timer("ENTRY", n, i, LiveTime)
HelloTimer(i) == Timer("HELLO", NoNode, i, HelloInterval)

(* The elements of s at the positions in T.                                *)
ElementsAt(s, T) ==
    LET kept[k \in 0..Len(s)] ==
          IF k = 0 THEN <<>>
          ELSE IF k \in T THEN Append(kept[k - 1], s[k]) ELSE kept[k - 1]
    IN kept[Len(s)]

(* timer_add: before the first timer that is not earlier.                  *)
TimerAdd(q, t) ==
    LET pos == {k \in DOMAIN q : q[k].timeout >= t.timeout
                                 /\ \A j \in 1..k - 1 : q[j].timeout < t.timeout}
    IN IF pos = {} THEN Append(q, t)
       ELSE InsertAt(q, CHOOSE k \in pos : TRUE, t)

(* setRealTimer: 0 stops the timer, and a time that has passed wraps round *)
(* in u_int64_t to one that never comes.                                   *)
Arm(interval) == IF interval > 0 THEN interval ELSE Off

(* Seeded fault: the real timer is left as it is.                          *)
SetTimerUnarmed(t) == timerQ' = TimerAdd(timerQ, t) /\ alarm' = alarm

(* set_timer: setLowestTimer arms if the first timeout is the new one.     *)
SetTimer(t) ==
    /\ timerQ' = TimerAdd(timerQ, t)
    /\ alarm' = IF timerQ'[1].timeout = t.timeout THEN t.timeout ELSE alarm

(* send_hello_message sets the next timer while the interval is not 0.     *)
AddHello(q, i) == IF hello[i] THEN TimerAdd(q, HelloTimer(i)) ELSE q

(* start_discovery, for the first interfaces.                              *)
Started ==
    LET q[k \in 0..Len(Interfaces)] ==
          IF k = 0 THEN <<>> ELSE AddHello(q[k - 1], Interfaces[k])
    IN q

(* nd_turn_up: every interface has sent a hello message, and those with an *)
(* interval have set a timer.                                              *)
Init ==
    /\ neighbors = [i \in Ifs |-> <<>>]
    /\ hello = [i \in Ifs |-> i \in Periodic]
    /\ timerQ = Started[Len(Interfaces)]
    /\ alarm = IF timerQ = <<>> THEN Off ELSE HelloInterval
    /\ up = TRUE
    /\ inbox = [i \in Ifs |-> <<>>]
    /\ pc = "select" /\ ready = <<>> /\ msg = NoMsg
    /\ torn = {}

-----------------------------------------------------------------------------
(* The thread of main_loop.                                                *)

(* Seeded fault: only the first entry is looked at.                        *)
FindFirst(n, s) == IF s # <<>> /\ s[1].ip = n THEN 1 ELSE 0

Find(n, s) == IF \E k \in DOMAIN s : s[k].ip = n
              THEN CHOOSE k \in DOMAIN s : s[k].ip = n ELSE 0

(* select() returns with the interfaces on which a message waits.          *)
Select ==
    /\ pc = "select" /\ \E i \in Ifs : inbox[i] # <<>>
    /\ pc' = "read"
    /\ ready' = ElementsAt(Interfaces, {k \in DOMAIN Interfaces : inbox[Interfaces[k]] # <<>>})
    /\ UNCHANGED <<neighbors, hello, timerQ, alarm, up, inbox, msg, torn>>

(* handle_hello_message, and update_info up to the search for the entry.   *)
(* recvmsg() blocks while no message waits on this interface.  Bound: once *)
(* a signal has cut in on an update, no other does.                        *)
ReadHello ==
    LET i == Head(ready) IN
    /\ pc = "read" /\ inbox[i] # <<>>
    /\ torn = {} \/ alarm > 0
    /\ inbox' = [inbox EXCEPT ![i] = Tail(@)]
    /\ msg' = [src |-> Head(inbox[i]), index |-> Find(Head(inbox[i]), neighbors[i])]
    /\ pc' = "apply"
    /\ UNCHANGED <<neighbors, hello, timerQ, alarm, up, ready, torn>>

(* Seeded fault: the search does not keep the index.                       *)
WrittenFirst(s, m) ==
    IF m.index = 0 THEN Append(s, [ip |-> m.src, of |-> m.src])
    ELSE [s EXCEPT ![1].of = m.src]

(* A new entry, or the one at the index that was found is written (local   *)
(* interfaces, two-hop set, status); an index behind the end of the vector *)
(* writes into a destroyed element.                                        *)
Written(s, m) ==
    IF m.index = 0 THEN Append(s, [ip |-> m.src, of |-> m.src])
    ELSE IF m.index \in DOMAIN s THEN [s EXCEPT ![m.index].of = m.src] ELSE s

(* update_info writes the entry.                                           *)
Apply ==
    LET i == Head(ready) IN
    /\ pc = "apply"
    /\ neighbors' = IF up THEN [neighbors EXCEPT ![i] = Written(@, msg)] ELSE neighbors
    /\ pc' = IF msg.index = 0 THEN "set" ELSE "remove"
    /\ UNCHANGED <<hello, timerQ, alarm, up, inbox, ready, msg, torn>>

EntryTimers(n, i) ==
    {k \in DOMAIN timerQ : timerQ[k].type = "ENTRY" /\ timerQ[k].data = n
                           /\ timerQ[k].contain = i}

(* Seeded fault: the old timer is not removed.                             *)
RemoveTimerNever ==
    /\ pc = "remove"
    /\ pc' = "set"
    /\ UNCHANGED <<neighbors, hello, timerQ, alarm, up, inbox, ready, msg, torn>>

(* remove_neighbor_entry_timer.  is_set_now compares the type and the      *)
(* interface of the first timer, and not the neighbour.                    *)
RemoveTimer ==
    LET i == Head(ready)
        old == EntryTimers(msg.src, i)
        k == CHOOSE x \in old : \A y \in old : x <= y
        setNow == timerQ[1].type = "ENTRY" /\ timerQ[1].contain = i
    IN
    /\ pc = "remove"
    /\ \/ old = {} /\ UNCHANGED <<timerQ, alarm>>
       \/ /\ old # {}
          /\ timerQ' = RemoveAt(timerQ, k)
          /\ alarm' = IF setNow /\ k < Len(timerQ) THEN Arm(timerQ[k + 1].timeout) ELSE alarm
    /\ pc' = "set"
    /\ UNCHANGED <<neighbors, hello, up, inbox, ready, msg, torn>>

(* The timer of the entry is set, and the next descriptor is looked at;    *)
(* after pthread_cancel the thread ends in its next system call.           *)
SetEntryTimer ==
    /\ pc = "set"
    /\ SetTimer(EntryTimer(msg.src, Head(ready)))
    /\ ready' = Tail(ready)
    /\ pc' = IF ~up THEN "ended" ELSE IF ready' = <<>> THEN "select" ELSE "read"
    /\ msg' = NoMsg
    /\ UNCHANGED <<neighbors, hello, up, inbox, torn>>

MainLoop == Select \/ ReadHello \/ Apply \/ RemoveTimer \/ SetEntryTimer

-----------------------------------------------------------------------------
(* SIGALRM.                                                                *)

Updating == pc \in {"apply", "remove", "set"}

DueTimers == {k \in DOMAIN timerQ : timerQ[k].timeout <= 0}

(* Seeded fault: the handler of an entry timer erases nothing.             *)
KeptAll(i) == neighbors[i]

(* delete_one_hop_entry, for the entry timers that are due.                *)
Kept(i) ==
    ElementsAt(neighbors[i],
               {j \in DOMAIN neighbors[i] : \A k \in DueTimers :
                  ~(timerQ[k].type = "ENTRY" /\ timerQ[k].data = neighbors[i][j].ip
                    /\ timerQ[k].contain = i)})

(* What the handlers of the first timers add to q.                         *)
Renewed(q) ==
    LET r[k \in 0..Len(timerQ)] ==
          IF k = 0 THEN q
          ELSE IF timerQ[k].type = "HELLO" THEN AddHello(r[k - 1], timerQ[k].contain)
          ELSE r[k - 1]
    IN r

(* The timers after a run of the handler.                                  *)
Left ==
    LET due == Cardinality(DueTimers)
    IN Renewed(SubSeq(timerQ, due + 1, Len(timerQ)))[due]

(* What a run of the handler gets hold of in the middle of update_info:    *)
(* the neighbour of the message, if its entry is deleted, and those whose  *)
(* entries move to or from the position that was found.                    *)
Disturbed ==
    IF pc \notin {"apply", "remove"} \/ msg.index = 0 THEN {}
    ELSE LET i == Head(ready)
             before == {neighbors[i][k].ip : k \in 1..msg.index \cap DOMAIN neighbors[i]}
             after == {Kept(i)[k].ip : k \in DOMAIN Kept(i)}
         IN IF before \subseteq after THEN {}
            ELSE IF pc = "remove" THEN {msg.src} \ after
            ELSE {msg.src} \cup {Kept(i)[k].ip : k \in {msg.index} \cap DOMAIN Kept(i)}

(* Seeded fault: main_loop gives up when select() is interrupted.          *)
ScheduleTimerEnds ==
    /\ alarm <= 0
    /\ neighbors' = [i \in Ifs |-> Kept(i)]
    /\ timerQ' = Left
    /\ alarm' = IF timerQ' = <<>> THEN Off ELSE Arm(timerQ'[1].timeout)
    /\ torn' = torn \cup Disturbed
    /\ pc' = IF pc = "select" THEN "ended" ELSE pc
    /\ UNCHANGED <<hello, up, inbox, ready, msg>>

(* scheduleTimer: the handlers of the due timers run, the timers go, and   *)
(* the real timer is set for the first one left.  A signal that reaches    *)
(* the thread in select() makes it look at every descriptor.               *)
ScheduleTimer ==
    /\ alarm <= 0
    /\ neighbors' = [i \in Ifs |-> Kept(i)]
    /\ timerQ' = Left
    /\ alarm' = IF timerQ' = <<>> THEN Off ELSE Arm(timerQ'[1].timeout)
    /\ torn' = torn \cup Disturbed
    /\ \/ UNCHANGED thread
       \/ pc = "select" /\ pc' = "read" /\ ready' = Interfaces /\ UNCHANGED msg
    /\ UNCHANGED <<hello, up, inbox>>

-----------------------------------------------------------------------------
(* The API, and the world.                                                 *)

HelloTimers(i) == {k \in DOMAIN timerQ : timerQ[k].type = "HELLO" /\ timerQ[k].contain = i}

(* Seeded fault: every change of the interval sends and sets a timer.      *)
SetHelloIntervalSends(i, on) ==
    /\ up
    /\ hello' = [hello EXCEPT ![i] = on]
    /\ IF on
       THEN Cardinality(HelloTimers(i)) < MaxHello /\ SetTimer(HelloTimer(i))
       ELSE UNCHANGED <<timerQ, alarm>>
    /\ UNCHANGED <<neighbors, up, inbox, thread, torn>>

(* nd_set_hello_interval: only an interval that was 0 sends at once.       *)
SetHelloInterval(i, on) ==
    /\ up
    /\ hello' = [hello EXCEPT ![i] = on]
    /\ IF ~hello[i] /\ on
       THEN Cardinality(HelloTimers(i)) < MaxHello /\ SetTimer(HelloTimer(i))
       ELSE UNCHANGED <<timerQ, alarm>>
    /\ UNCHANGED <<neighbors, up, inbox, thread, torn>>

(* nd_turn_down: the thread is cancelled, which it notices in a system     *)
(* call only; descriptors and lists go, the real timer keeps running.      *)
TurnDown ==
    /\ up /\ up' = FALSE
    /\ neighbors' = [i \in Ifs |-> <<>>]
    /\ timerQ' = <<>>
    /\ inbox' = [i \in Ifs |-> <<>>]
    /\ IF ~Updating
       THEN pc' = "ended" /\ ready' = <<>> /\ UNCHANGED torn
       ELSE UNCHANGED <<pc, ready>> /\ torn' = torn \cup {msg.src}
    /\ UNCHANGED <<hello, alarm, msg>>

(* The message of a neighbour is in the socket.                            *)
Waiting(n) == n \in ToSet(inbox[Link[n]])

(* A neighbour sends.                                                      *)
SendHello(n) ==
    /\ up /\ ~Waiting(n)
    /\ inbox' = [inbox EXCEPT ![Link[n]] = Append(@, n)]
    /\ UNCHANGED <<neighbors, hello, timerQ, alarm, up, thread, torn>>

Tick ==
    /\ alarm >= 0 /\ ~Updating
    /\ alarm' = IF alarm = Off THEN Off ELSE alarm - 1
    /\ timerQ' = [k \in DOMAIN timerQ |->
                    [timerQ[k] EXCEPT !.timeout = IF @ > -Lag THEN @ - 1 ELSE @]]
    /\ UNCHANGED <<neighbors, hello, up, inbox, thread, torn>>

Next ==
    \/ MainLoop \/ ScheduleTimer \/ TurnDown \/ Tick
    \/ \E i \in Tuned, on \in BOOLEAN : SetHelloInterval(i, on)
    \/ \E n \in Nodes : SendHello(n)

Spec == Init /\ [][Next]_vars

(* The thread runs while it is not blocked, time passes, and a signal that *)
(* is due comes.                                                           *)
FairSpec ==
    /\ Spec
    /\ SF_vars(MainLoop) /\ WF_vars(ScheduleTimer) /\ SF_vars(Tick)

-----------------------------------------------------------------------------
(* Properties.                                                             *)

TypeOK ==
    /\ DOMAIN neighbors = Ifs
    /\ \A i \in Ifs :
          LET heard == {n \in Nodes : Link[n] = i} IN
          /\ ToSet(neighbors[i]) \subseteq [ip : heard, of : heard]
          /\ Len(neighbors[i]) <= Cardinality(heard)
    /\ hello \in [Ifs -> BOOLEAN]
    /\ \A t \in ToSet(timerQ) :
          /\ t.type \in {"HELLO", "ENTRY"} /\ t.contain \in Ifs
          /\ t.timeout \in -Lag..Off - 1
    /\ alarm \in -1..Off /\ up \in BOOLEAN
    /\ \A i \in Ifs : ToSet(inbox[i]) \subseteq Nodes
    /\ torn \subseteq Nodes
    /\ pc \in {"select", "read", "apply", "remove", "set", "ended"}

Listed(n) == Find(n, neighbors[Link[n]]) # 0
InUpdate(n) == Updating /\ msg.src = n

(* Every entry has a timer that will delete it, and an entry timer is the  *)
(* only one of its neighbour and has an entry, unless SIGALRM or the       *)
(* turn-down came in the middle of an update of that neighbour.            *)
EntryTimed ==
    \A n \in Nodes :
       LET timers == Cardinality(EntryTimers(n, Link[n]))
       IN ~InUpdate(n) =>
             /\ Listed(n) => timers >= 1
             /\ timers = (IF Listed(n) THEN 1 ELSE 0) \/ n \in torn

(* What an entry says of a neighbour was taken from that neighbour's own   *)
(* message, unless SIGALRM came between the search for the entry and the   *)
(* writing: the entry of another neighbour has moved to the index by then. *)
InfoFromItself ==
    \A i \in Ifs : \A e \in ToSet(neighbors[i]) : e.of = e.ip \/ e.ip \in torn

(* The chain of hello timers of an interface is doubled only when its      *)
(* interval, having been 0, is set to another value.                       *)
OneChain ==
    [][\A i \in Ifs : Cardinality(HelloTimers(i)') > Cardinality(HelloTimers(i))
                         => ~hello[i] /\ hello'[i]]_vars

(* The real timer will go off after the first timer is due.                *)
Behind == timerQ # <<>> /\ alarm > 0 /\ alarm > timerQ[1].timeout

(* The real timer gets behind the list in remove_neighbor_entry_timer      *)
(* only: the first timer is that of another neighbour of the interface, or *)
(* the timer behind the removed one is due as well.                        *)
AlarmFallsBehind ==
    [][Behind' => \/ Behind
                  \/ /\ pc = "remove" /\ timerQ[1].type = "ENTRY"
                     /\ timerQ[1].contain = Head(ready)
                     /\ timerQ[1].data # msg.src \/ alarm' = Off]_vars

(* A neighbour that is not heard any more is forgotten, if the real timer  *)
(* never gets behind the list.                                             *)
SilentForgotten ==
    []~Behind => \A n \in Nodes : <>[]~Waiting(n) => <>[]~Listed(n)

(* A hello message that has arrived is read, unless the thread, woken by a *)
(* signal, waits for a message on an interface all of whose neighbours are *)
(* silent.                                                                 *)
HelloRead ==
    \A n \in Nodes : Waiting(n) ~>
       \/ ~Waiting(n)
       \/ pc = "read" /\ \A m \in Nodes : Waiting(m) => Link[m] # Head(ready)
=============================================================================
