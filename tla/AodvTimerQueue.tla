--------------------------- MODULE AodvTimerQueue ---------------------------
(***************************************************************************)
(* The timers of the AODV daemon (timerQueue.cc): a list of timeouts, the  *)
(* earliest first, and one interval timer of the process, whose SIGALRM    *)
(* runs the handlers of all timers that are due.                           *)
(*                                                                         *)
(* Times are relative to now: Tick lets all of them go down by one.  The   *)
(* real timer is set in whole milliseconds, so SIGALRM comes within the    *)
(* tick in which it is due or in the one after.  The signal interrupts the *)
(* main loop; the list operations are taken to be atomic, set_timer, which *)
(* reads the clock twice, is not.                                          *)
(***************************************************************************)
EXTENDS Integers, Sequences, SequencesExt, FiniteSets

CONSTANTS
    Nodes,      (* addresses that timers are about                          *)
    Delay,      (* the intervals that timers of each type are set to        *)
    MaxSearch,  (* bound: RREQ and LR timers per node                       *)
    MaxResets,  (* bound: calls of resetRebootTimer                         *)
    Lag         (* bound: timers later than this count as this late         *)

Types == {"REBOOT", "PERIODIC", "HELLO", "RREQ", "LR", "ACTIVE_ROUTE"}

(* No SIGALRM comes: setitimer was given 0, or a time far in the future.   *)
Off == 1000

ASSUME TimerAssumption ==
    /\ \A t \in Types : Delay[t] # {} /\ Delay[t] \subseteq 1..Off - 1
    /\ \A v, w \in Delay["REBOOT"] : v = w
    /\ MaxSearch \in Nat /\ MaxResets \in Nat /\ Lag \in Nat

VARIABLES
    timerQ,       \* the list of timers: type, data (an address) and timeout
    alarm,        \* time to the next SIGALRM, or Off
    timeVal,      \* the interval of a set_timer in progress, or 0
    duringReboot,
    resets

vars == <<timerQ, alarm, timeVal, duringReboot, resets>>

NoNode == "none"
Timer(type, data, timeout) == [type |-> type, data |-> data, timeout |-> timeout]

(* timer_add: before the first timer that is not earlier.                  *)
Insert(q, t) ==
    LET pos == {i \in DOMAIN q : q[i].timeout >= t.timeout
                                 /\ \A j \in 1..i - 1 : q[j].timeout < t.timeout}
    IN IF pos = {} THEN Append(q, t)
       ELSE InsertAt(q, CHOOSE i \in pos : TRUE, t)

(* setRealTimer: 0 stops the timer; an interval below 0 wraps around in    *)
(* u_int64_t to a time that never comes.                                   *)
Arm(interval) == IF interval > 0 THEN interval ELSE Off

(* set_timer up to timer_add, with the queue as it is after the removals.  *)
BeginSetTimer(q, type, data) ==
    \E v \in Delay[type] : /\ timerQ' = Insert(q, Timer(type, data, v))
                           /\ timeVal' = v

(* aodv_daemon: setRebootTimer and the first half of setPeriodicTimer.     *)
Init ==
    \E v \in Delay["PERIODIC"], r \in Delay["REBOOT"] :
       /\ timerQ = Insert(<<Timer("REBOOT", NoNode, r)>>, Timer("PERIODIC", NoNode, v))
       /\ alarm = r
       /\ timeVal = v
       /\ duringReboot = TRUE
       /\ resets = 0

(* setLowestTimer: arms if the first timer is the new one, provided that   *)
(* the clock has not moved since timer_add.                                *)
SetLowestTimer ==
    /\ timeVal # 0
    /\ alarm' = IF timerQ[1].timeout = timeVal THEN timeVal ELSE alarm
    /\ timeVal' = 0
    /\ UNCHANGED <<timerQ, duringReboot, resets>>

-----------------------------------------------------------------------------
(* The main loop.                                                          *)

Search(n) == {i \in DOMAIN timerQ : timerQ[i].type \in {"RREQ", "LR"}
                                    /\ timerQ[i].data = n}
First(S) == CHOOSE i \in S : \A j \in S : i <= j

(* What is left of a list when the first timer of a kind is removed.       *)
Dropped(q, S) == IF S = {} THEN q ELSE RemoveAt(q, First(S))

(* What removeRREQTimer leaves, and how it arms the real timer if it       *)
(* removes the first timer.                                                *)
Without(n) == Dropped(timerQ, Search(n))

AlarmWithout(n) ==
    IF 1 \in Search(n) /\ Len(timerQ) > 1 THEN Arm(timerQ[2].timeout) ELSE alarm

(* sendRREQ and doLocalRepair set a timer each.                            *)
SendRequest(n, type) ==
    /\ timeVal = 0 /\ ~duringReboot
    /\ Cardinality(Search(n)) < MaxSearch
    /\ BeginSetTimer(timerQ, type, n)
    /\ UNCHANGED <<alarm, duringReboot, resets>>

(* reverseRouteUpdate and forwardRouteUpdate: a route to n is there.       *)
RouteUpdate(n) ==
    /\ timeVal = 0 /\ ~duringReboot
    /\ timerQ' = Without(n)
    /\ alarm' = AlarmWithout(n)
    /\ UNCHANGED <<timeVal, duringReboot, resets>>

(* Seeded fault: the old timer of the neighbour stays.                     *)
NeighborUpdateTwice(n, hello) ==
    /\ timeVal = 0 /\ ~duringReboot
    /\ alarm' = AlarmWithout(n)
    /\ hello
    /\ BeginSetTimer(Without(n), "ACTIVE_ROUTE", n)
    /\ UNCHANGED <<duringReboot, resets>>

(* neighborUpdate, for a hello or another message of the neighbour n.      *)
NeighborUpdate(n, hello) ==
    LET left == Without(n)
        old == {i \in DOMAIN left : left[i].type = "ACTIVE_ROUTE" /\ left[i].data = n}
    IN
    /\ timeVal = 0 /\ ~duringReboot
    /\ alarm' = AlarmWithout(n)
    /\ \/ /\ hello \/ old # {}
          /\ BeginSetTimer(Dropped(left, old), "ACTIVE_ROUTE", n)
       \/ /\ ~hello /\ old = {}
          /\ timerQ' = left
          /\ UNCHANGED timeVal
    /\ UNCHANGED <<duringReboot, resets>>

(* resetRebootTimer, for data of another node during reboot: the timeout   *)
(* changes in place, and setRealTimer is given the absolute time.          *)
ResetRebootTimer ==
    /\ timeVal = 0 /\ duringReboot /\ resets < MaxResets
    /\ resets' = resets + 1
    /\ \E i \in DOMAIN timerQ, v \in Delay["REBOOT"] :
          /\ timerQ[i].type = "REBOOT"
          /\ timerQ' = [timerQ EXCEPT ![i].timeout = v]
          /\ alarm' = IF i = 1 THEN Off ELSE alarm
    /\ UNCHANGED <<timeVal, duringReboot>>

-----------------------------------------------------------------------------
(* The signal handler.                                                     *)

(* Seeded fault: the interval is stored without the current time.          *)
RenewedAtZero(type, data) == {<<Timer(type, data, v - Off)>> : v \in Delay[type]}

(* timer_add, or set_timer, called by a handler.                           *)
Renewed(type, data) == {<<Timer(type, data, v)>> : v \in Delay[type]}

(* What a handler adds: rebootHandler and sendHello the next hello timer,  *)
(* periodicHandler its own, resendRREQ its own until it gives up.          *)
Again(t) ==
    CASE t.type \in {"REBOOT", "HELLO"} -> Renewed("HELLO", NoNode)
      [] t.type = "PERIODIC" -> Renewed("PERIODIC", NoNode)
      [] t.type = "RREQ" -> {<<>>} \cup Renewed("RREQ", t.data)
      [] OTHER -> {<<>>}

(* Seeded fault: only the first timer is handled.                          *)
DueFirst == {i \in DOMAIN timerQ : i = 1 /\ timerQ[1].timeout <= 0}

(* The timers scheduleTimer handles: those in front that are due.          *)
DueTimers == {i \in DOMAIN timerQ : \A j \in 1..i : timerQ[j].timeout <= 0}

(* Seeded fault: the real timer is set for the last timer.                 *)
NextAlarmLast(q) == IF q # <<>> THEN Arm(q[Len(q)].timeout) ELSE Off

NextAlarm(q) == IF q # <<>> THEN Arm(q[1].timeout) ELSE Off

(* The list when the handlers of the first k timers have run, and each of  *)
(* these timers has been erased.                                           *)
Handled(again) ==
    LET due == Cardinality(DueTimers)
        q[k \in 0..due] ==
          IF k = 0 THEN SubSeq(timerQ, due + 1, Len(timerQ))
          ELSE IF again[k] = <<>> THEN q[k - 1] ELSE Insert(q[k - 1], again[k][1])
    IN q

(* scheduleTimer: each handler runs, each timer handled is erased, and the *)
(* real timer is set for the first one that is left.                       *)
ScheduleTimer ==
    /\ alarm <= 0
    /\ \E again \in [DueTimers -> UNION {Again(timerQ[i]) : i \in DueTimers}] :
          /\ \A i \in DueTimers : again[i] \in Again(timerQ[i])
          /\ timerQ' = Handled(again)[Cardinality(DueTimers)]
    /\ alarm' = NextAlarm(timerQ')
    /\ duringReboot' = (duringReboot /\ \A i \in DueTimers : timerQ[i].type # "REBOOT")
    /\ UNCHANGED <<timeVal, resets>>

(* Time passes.                                                            *)
Tick ==
    /\ alarm >= 0
    /\ alarm' = IF alarm = Off THEN Off ELSE alarm - 1
    /\ timerQ' = [i \in DOMAIN timerQ |->
                    [timerQ[i] EXCEPT !.timeout = IF @ > -Lag THEN @ - 1 ELSE @]]
    /\ UNCHANGED <<timeVal, duringReboot, resets>>

Next ==
    \/ SetLowestTimer \/ ResetRebootTimer \/ ScheduleTimer \/ Tick
    \/ \E n \in Nodes :
          \/ RouteUpdate(n)
          \/ \E type \in {"RREQ", "LR"} : SendRequest(n, type)
          \/ \E hello \in BOOLEAN : NeighborUpdate(n, hello)

Spec == Init /\ [][Next]_vars

-----------------------------------------------------------------------------
(* Properties.                                                             *)

Period == CHOOSE v \in Delay["PERIODIC"] : \A w \in Delay["PERIODIC"] : w <= v

TypeOK ==
    /\ \A i \in DOMAIN timerQ :
          /\ timerQ[i].type \in Types
          /\ timerQ[i].data \in Nodes \cup {NoNode}
          /\ timerQ[i].timeout \in -Lag..Off - 1
    /\ alarm \in -1..Off
    /\ timeVal \in 0..Off - 1
    /\ duringReboot \in BOOLEAN
    /\ resets \in 0..MaxResets

Of(type, n) == {i \in DOMAIN timerQ : timerQ[i].type = type /\ timerQ[i].data = n}
Single(S) == S # {} /\ \A i, j \in S : i = j

(* The timers that keep the daemon going are never lost and never          *)
(* doubled, whatever the signal interrupts: one periodic timer always, the *)
(* reboot timer until it has expired and one hello timer from then on, and *)
(* at most one timer for each neighbour.                                   *)
OneOfEach ==
    /\ Single(Of("PERIODIC", NoNode))
    /\ IF duringReboot THEN Single(Of("REBOOT", NoNode)) /\ Of("HELLO", NoNode) = {}
                       ELSE Single(Of("HELLO", NoNode)) /\ Of("REBOOT", NoNode) = {}
    /\ \A n \in Nodes : Of("ACTIVE_ROUTE", n) = {} \/ Single(Of("ACTIVE_ROUTE", n))

(* As long as the real timer runs at all, no timer is handled later than   *)
(* one periodic interval after its time, although set_timer does not arm   *)
(* it if the clock moves at the wrong moment.                              *)
LateByOnePeriod ==
    ~duringReboot /\ alarm # Off =>
       \A i \in DOMAIN timerQ : timerQ[i].timeout >= -Period

(* The real timer stops for good in two ways only: the first timer is      *)
(* removed while the second is due as well, and the reboot timer is reset  *)
(* while it is the first.                                                  *)
AlarmStops ==
    [][alarm # Off /\ alarm' = Off =>
          \/ /\ timerQ[1].type \in {"RREQ", "LR"}
             /\ Len(timerQ) > 1 /\ timerQ[2].timeout <= 0
          \/ resets' > resets /\ timerQ[1].type = "REBOOT"]_vars

(* main.cc: duringReboot "is set if the local node's reboot timer has not  *)
(* expired yet".                                                           *)
RebootEnds ==
    duringReboot => \A i \in Of("REBOOT", NoNode) : timerQ[i].timeout >= -1
=============================================================================
