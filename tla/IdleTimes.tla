----------------------------- MODULE IdleTimes -----------------------------
(***************************************************************************)
(* How long a route has not been used: the list of the kernel module       *)
(* route_check, which its hook writes on every CPU without a lock, the     *)
(* query of lib/FO that reads it from /proc, and refreshEntries of the     *)
(* AODV daemon, which lets a route live on or makes it invalid by it.      *)
(*                                                                         *)
(* Times are milliseconds since a full second, and a second is cut down to *)
(* K of them.  A packet passes the hook within one millisecond.            *)
(***************************************************************************)
EXTENDS Integers, Sequences, SequencesExt, FiniteSetsExt

CONSTANTS
    Cpus,
    Flows,      (* packets: source and destination                          *)
    Order,      (* the destinations in the routing table, in order          *)
    NextHop,    (* the next hop of each: itself, if it is a neighbour       *)
    K,          (* milliseconds of a second                                 *)
    Active,     (* ACTIVE_ROUTE_TIMEOUT                                     *)
    MaxTime,    (* bound: the time ends                                     *)
    MaxNodes    (* bound: entries the hook allocates                        *)

Dests == ToSet(Order)
Keys == {<<f[2], 1>> : f \in Flows} \cup {<<f[1], 0>> : f \in Flows}

ASSUME IdleAssumption ==
    /\ Order \in Seq(Dests) /\ IsInjective(Order) /\ NextHop \in [Dests -> Dests]
    /\ \A d \in Dests : NextHop[NextHop[d]] = NextHop[d]
    /\ K \in Nat \ {0} /\ Active \in Nat \ {0}
    /\ MaxTime \in Nat /\ MaxNodes \in Nat

VARIABLES
    now,        \* milliseconds
    nodes,      \* every entry the hook has allocated: key, last use, next
    head,       \* route_cache: an index into nodes, or 0
    hook,       \* the hook on each CPU
    table,      \* of each destination: whether its route is valid, until when
    used,       \* ghost: when the last packet of a key came, or -1
    raced       \* ghost: keys that insertions at the same time lost or doubled

vars == <<now, nodes, head, hook, table, used, raced>>
cache == <<nodes, head>>

Idle == [pc |-> "idle"]
NoKey == <<"none", 0>>

(* getcurrtime of route_check adds the microseconds of the second to its   *)
(* milliseconds; the one of lib/FO gives milliseconds.                     *)
KernelTime(t) == (t \div K) * K + (t % K) * K

Init ==
    /\ now = 0 /\ nodes = <<>> /\ head = 0
    /\ hook = [c \in Cpus |-> Idle]
    /\ table = [d \in Dests |-> [valid |-> TRUE, life |-> Active]]
    /\ used = [k \in Keys |-> -1]
    /\ raced = {}

-----------------------------------------------------------------------------
(* The hook.                                                               *)

(* What is in the list from an entry on: the least set that has this entry *)
(* and, of each, the next.                                                 *)
Whole(S) == \A i \in S : nodes[i].next \in S \cup {0}

ListFrom(h) ==
    LET lists == {S \in SUBSET DOMAIN nodes : h \in S \cup {0} /\ Whole(S)}
    IN {i \in DOMAIN nodes : \A S \in lists : i \in S}

Cache == ListFrom(head)

(* The entries of a key.  As an entry is linked to an earlier one, the     *)
(* latest of them is the first in the list.                                *)
Entries(k) == {i \in Cache : nodes[i].key = k}

(* input_handler takes the time, and looks for the destination first.      *)
Receive(c, src, dst) ==
    /\ hook[c] = Idle
    /\ hook' = [hook EXCEPT ![c] = [pc |-> "find", key |-> <<dst, 1>>, src |-> src,
                                    time |-> KernelTime(now), link |-> 0]]
    /\ used' = [used EXCEPT ![<<dst, 1>>] = now, ![<<src, 0>>] = now]
    /\ UNCHANGED <<now, cache, table, raced>>

(* The source is looked for next, with flag 0.                             *)
Advance(h) == IF h.key[2] = 1 THEN [h EXCEPT !.pc = "find", !.key = <<h.src, 0>>] ELSE Idle

(* Seeded fault: an entry that was found keeps its time.                   *)
FindOnly(c) ==
    LET h == hook[c]
        found == Entries(h.key)
    IN
    /\ h.pc = "find"
    /\ hook' = [hook EXCEPT ![c] = IF found # {} THEN Advance(h) ELSE [h EXCEPT !.pc = "link"]]
    /\ UNCHANGED <<now, cache, table, used, raced>>

(* find_route_cache_entry, and the update of the entry it returns.         *)
Find(c) ==
    LET h == hook[c]
        found == Entries(h.key)
    IN
    /\ h.pc = "find"
    /\ IF found # {}
       THEN /\ nodes' = [nodes EXCEPT ![Max(found)].time = h.time]
            /\ hook' = [hook EXCEPT ![c] = Advance(h)]
       ELSE /\ hook' = [hook EXCEPT ![c].pc = "link"]
            /\ UNCHANGED nodes
    /\ UNCHANGED <<now, head, table, used, raced>>

(* insert_route_cache_entry reads the head of the list ...                 *)
Link(c) ==
    /\ hook[c].pc = "link"
    /\ hook' = [hook EXCEPT ![c].pc = "publish", ![c].link = head]
    /\ UNCHANGED <<now, cache, table, used, raced>>

(* Seeded fault: the head is moved first, and the entry linked to it.      *)
PublishLoop(c) ==
    LET h == hook[c] IN
    /\ h.pc = "publish" /\ Len(nodes) < MaxNodes
    /\ nodes' = Append(nodes, [key |-> h.key, time |-> h.time, next |-> Len(nodes) + 1])
    /\ head' = Len(nodes')
    /\ hook' = [hook EXCEPT ![c] = Advance(h)]
    /\ UNCHANGED <<now, table, used, raced>>

(* ... and makes the new entry the head.                                   *)
Publish(c) ==
    LET h == hook[c] IN
    /\ h.pc = "publish" /\ Len(nodes) < MaxNodes
    /\ nodes' = Append(nodes, [key |-> h.key, time |-> h.time, next |-> h.link])
    /\ head' = Len(nodes')
    /\ hook' = [hook EXCEPT ![c] = Advance(h)]
    /\ raced' = LET kept == ListFrom(h.link)
                    reached == Cache
                IN raced \cup {nodes[i].key : i \in reached \ kept}
                         \cup ({h.key} \cap {nodes[i].key : i \in reached \cup kept})
    /\ UNCHANGED <<now, table, used>>

Hook(c) == Find(c) \/ Link(c) \/ Publish(c)

-----------------------------------------------------------------------------
(* The daemon.                                                             *)

(* FO_query_route_idle_time reads the whole list: the last match counts.   *)
Query(k) ==
    LET found == Entries(k)
    IN IF found = {} THEN -1 ELSE now - nodes[Min(found)].time

(* Destinations behind a neighbour.                                        *)
Behind(d) == {f \in Dests \ {d} : NextHop[f] = d}

(* Seeded fault: the route itself is asked for with flag 0.                *)
IdleOfReceived(d) ==
    LET own == Query(<<d, 0>>)
        others == {Query(<<f, 0>>) : f \in {g \in Behind(d) : <<g, 0>> \in Keys}} \ {-1}
    IN Min({IF own < 0 THEN 2 * Active ELSE own} \cup others)

(* What refreshEntries takes for the idle time of a route: the time since  *)
(* a packet went to it or, if shorter, since one came from behind it.      *)
IdleOf(d) ==
    LET own == Query(<<d, 1>>)
        others == {Query(<<f, 0>>) : f \in {g \in Behind(d) : <<g, 0>> \in Keys}} \ {-1}
    IN Min({IF own < 0 THEN 2 * Active ELSE own} \cup others)

(* Seeded fault: the lifetime starts again from now.                       *)
RefreshEntryNow(t, d) ==
    IF ~t[d].valid \/ t[d].life > now THEN t
    ELSE IF IdleOf(d) < Active
    THEN [t EXCEPT ![d].life = now + Active, ![NextHop[d]].life = now + Active]
    ELSE [f \in Dests |-> IF f \in {d} \cup Behind(d) THEN [t[f] EXCEPT !.valid = FALSE] ELSE t[f]]

(* refreshEntries for one entry.  An entry that has become invalid stays   *)
(* out of view until a message brings the route back.                      *)
RefreshEntry(t, d) ==
    IF ~t[d].valid \/ t[d].life > now THEN t
    ELSE IF IdleOf(d) < Active
    THEN [t EXCEPT ![d].life = now - IdleOf(d) + Active,
                   ![NextHop[d]].life = now - IdleOf(d) + Active]
    ELSE [f \in Dests |-> IF f \in {d} \cup Behind(d) THEN [t[f] EXCEPT !.valid = FALSE] ELSE t[f]]

(* The table when the first entries have been looked at.                   *)
Refreshed[j \in 0..Len(Order)] ==
    IF j = 0 THEN table ELSE RefreshEntry(Refreshed[j - 1], Order[j])

RefreshEntries ==
    /\ table' = Refreshed[Len(Order)]
    /\ UNCHANGED <<now, cache, hook, used, raced>>

(* A message brings the route, and its next hop, for the usual time.       *)
Learn(d) ==
    /\ table' = [f \in Dests |-> IF f \in {d, NextHop[d]}
                                 THEN [valid |-> TRUE, life |-> now + Active] ELSE table[f]]
    /\ UNCHANGED <<now, cache, hook, used, raced>>

(* No packet is in the hook.                                               *)
Quiet == \A c \in Cpus : hook[c] = Idle

Tick ==
    /\ now < MaxTime /\ Quiet
    /\ now' = now + 1
    /\ UNCHANGED <<cache, hook, table, used, raced>>

Next ==
    \/ \E c \in Cpus : Hook(c) \/ \E f \in Flows : Receive(c, f[1], f[2])
    \/ RefreshEntries \/ Tick
    \/ \E d \in Dests : Learn(d)

Spec == Init /\ [][Next]_vars

-----------------------------------------------------------------------------
(* Properties.                                                             *)

TypeOK ==
    /\ now \in 0..MaxTime /\ Len(nodes) <= MaxNodes /\ head \in 0..Len(nodes)
    /\ \A i \in DOMAIN nodes : nodes[i].key \in Keys /\ nodes[i].next \in 0..i - 1
    /\ used \in [Keys -> -1..MaxTime] /\ raced \subseteq Keys
    /\ \A d \in Dests : table[d].valid \in BOOLEAN /\ table[d].life \in Nat
    /\ \A c \in Cpus : hook[c].pc \in {"idle", "find", "link", "publish"}

(* The list holds every address that a packet has come for or from, once,  *)
(* with the time of the last of them, unless two insertions at the same    *)
(* time have doubled it or one has overtaken the other at its expense.     *)
LastUseRecorded ==
    Quiet =>
       \A k \in Keys \ raced :
          IF used[k] = -1 THEN Entries(k) = {}
          ELSE \E i \in DOMAIN nodes : Entries(k) = {i} /\ nodes[i].time = KernelTime(used[k])

(* A route does not outlive its use: refreshEntries lets it live for the   *)
(* usual time after the noted time of a packet to it or from behind it, or *)
(* to a destination behind it, unless that address was lost or doubled.    *)
LifeEndsWithUse ==
    [][RefreshEntries /\ Quiet => \A d \in Dests : table'[d].life > table[d].life =>
         \E k \in Keys : /\ k = <<d, 1>> \/ k[1] \in Behind(d)
                         /\ \/ k \in raced
                            \/ table'[d].life = KernelTime(used[k]) + Active]_vars

(* A route that was used less than Active ago is made invalid only if the  *)
(* use fell so late into a second that the noted time is still to come, or *)
(* the route of its next hop is made invalid.                              *)
UsedRouteKept ==
    [][\A d \in Dests :
         LET k == <<d, 1>> IN
         table[d].valid /\ ~table'[d].valid /\ Quiet /\ k \in Keys \ raced =>
           \/ used[k] = -1 \/ now - used[k] >= Active
           \/ KernelTime(used[k]) > now
           \/ NextHop[d] # d /\ ~table'[NextHop[d]].valid]_vars
=============================================================================
