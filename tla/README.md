# A formal model of the Unified Routing Framework

This directory holds TLA+ modules for the Unified Routing Framework, TLC
configurations that check them on small instances, and proofs checked by
TLAPS. Paths below are relative to `src/`.

The framework lets a routing protocol in user space discover routes on demand.
A packet whose destination has no route is routed to a tun device; a kernel
module steals it, asks a *Local Agent* (LA) for a route, and parks it until the
answer comes. The LA passes the request to a routing daemon, of which the
repository has one, an AODV implementation.

## 1. Inventory

| part | source | state it keeps | operations |
|---|---|---|---|
| kernel half of the on-demand service | `kernel_module/ODS_kernel/packet_queue.c`, `info_transmission.c`, `packet_judgment.c` | list of parked packets, `transmission_flag`, `user_pid` | hooks (`check_packet`, `receive_packet`), netlink input (`recv_msg`, `send_packet`) |
| load and unload | `kernel_module/ODS_kernel/ODS_kernel_module.c` | which of list, socket, hooks exist | `module_init`, `module_exit` |
| user half of the service | `lib/ODS`, `lib/COMMON` | netlink socket, tun device | `ods_turn_up/down`, `ODS_get_route_request`, `ODS_feedback_route_reply`, wire messages |
| Local Agent | `LA` | `la_serv_list`, `fd_list`, the set given to `select` | accept, client message, client gone, request of the kernel, SIGINT |
| AODV daemon: main loop | `LA_Client_aodv/main.cc`, `aodv.cc`, `aodvSocket.cc` | sockets, reboot flag | `process_asl`, receive, send, hello |
| AODV: route discovery | `aodv.cc`, `rreq.cc`, `rrep.cc`, `rreqPendingList.cc`, `fwRreqList.cc` | pending requests, buffered RREQ ids | `sendRREQ`, `resendRREQ`, `recvRREQ`, `recvRREP` |
| AODV: routing table | `routingTable.cc`, `rtable_entry.cc`, `rerr.cc`, `localRepair.cc` | entries with sequence number, hops, next hop, flags, precursors | neighbour, reverse and forward updates, expiry, RERR |
| AODV: timers | `timerQueue.cc` | sorted list of timers, one `setitimer` | add, remove, expire (SIGALRM) |
| neighbour discovery | `lib/ND` | one-hop lists, timers | hello messages, expiry, `nd_set_hello_interval`, `nd_turn_down` |
| idle times | `kernel_module/route_check`, query of `lib/FO`, `refreshEntries` | list of last uses, written by the hook | packet, query, renewal of routes |
| forwarding operation | `lib/FO` | kernel routes | add; delete and the other queries have no callers |
| copies, tests, demo | `lib/ODS/ODS_kernel`, `lib_code_test`, `*_test`, `LA_Client_router_demo` | none of their own | none |

How they interact:

    packet -> hook -> [list] --request--> netlink -> LA -> TCP -> daemon
                        ^                                          |
       ip_local_out <- send_packet <- netlink <- LA <- TCP <- answer

The hooks and the netlink handler share the list under a spinlock and
`transmission_flag` without one. The netlink handler runs inside the
`sendmsg()` of the LA, so the LA stands still while the kernel handles its
answer. The LA and the daemon share nothing but TCP connections; a request and
an answer are 17 bytes, and both sides parse only the first message that one
`recv()` returns.

What is hard, and what must hold:

* **Kernel half.** `receive_packet` looks for a parked packet of the same
  destination, asks, and parks, each under the lock and all three not. Softirqs
  on several CPUs, process context and the netlink handler interleave. No
  packet may leak or be used after it was freed; packets of one destination
  leave in order; a packet must not wait for an answer that
  nobody will give.
* **Local Agent.** The loop edits `fd_list` while it iterates over it. Every
  descriptor must stay live and be served; a request must reach one daemon.
* **Whole way.** Losses at every station (netlink buffer, coalesced messages,
  no daemon, crash) against packets that wait.
* **AODV.** Retries against answers, an asynchronous SIGALRM handler that edits
  the structures of the main loop between any two steps of a handler, sequence
  numbers that must not go back, loop freedom, routes reported to the LA that are
  not in the kernel.
* **Several AODV nodes.** RREQs, RREPs and hello messages overtake each other;
  three functions write sequence numbers, and a loop of routes needs two nodes
  and several messages.
* **Neighbour discovery.** A receiving thread, SIGALRM and API calls share
  lists without locks. A neighbour that is gone must be forgotten, and what an
  entry says must come from the neighbour itself.
* **Idle times.** The kernel writes a list on several CPUs without a lock, with
  a clock of its own; a route in use must not end by it.

## 2. Modules and plan

| no. | module | models | state |
|---|---|---|---|
| 1 | `OdsKernel`, `MCOdsKernel` | kernel half | done |
| 2 | `OdsKernelProofs` | theorems about it | done |
| 3 | `LocalAgent`, `MCLocalAgent` | LA, its clients | done |
| 4 | `OnDemandPath`, `MCOnDemandPath` | composition of 1 and 3; refines 1 | done |
| 5 | `AodvTimerQueue`, `MCAodvTimerQueue` | timer list and SIGALRM | done |
| 6 | `AodvTable`, `AodvNode`, `MCAodvNode` | discovery, routing table, RERR, local repair and reboot of one node, main loop and SIGALRM, with free messages | done |
| 7 | `AodvNetwork`, `MCAodvNetwork` | the daemons of several nodes, built from the operators of `AodvTable`: messages, sequence numbers, precursors, lossy links | done |
| 8 | `OnDemandPathProofs`, `ListLemmas` | theorems about 3 and 4 | done |
| 9 | `NeighborDiscovery`, `MCNeighborDiscovery` | lists, timers, receiving thread, SIGALRM, API calls | done |
| 10 | `IdleTimes`, `MCIdleTimes` | the list of `route_check`, its query, renewal of routes | done |
| 11 | `AodvNodeProofs` | theorems about 6 | done |
| 12 | `NeighborDiscoveryProofs` | theorems about 9 | done |
| 13 | `AodvTimerQueueProofs` | theorems about 5 | done |
| 14 | `IdleTimesProofs` | theorems about 10 | done |
| 15 | `AodvNetworkProofs` | theorems about 7 | done |

Order: the way of a route request first, since every protocol depends on it;
then the AODV daemon, the largest part; then neighbour discovery and idle
times. Proved so far: the safety invariants of 1 and 3, the refinement of 4 and
`RequestTravels`, the safety invariants and action properties of 5, 6, 7, 9 and
10. Where a module is proved about, it has no RECURSIVE operator.

## 3. The modules

### OdsKernel

State: `queue` is `my_queue_head->list` with the oldest packet first
(`list_add` puts at the head, `packet_dequeue` scans from the tail), `pc` and
`skb` say where each context is in `receive_packet`/`send_packet` and which
packet it holds. `receive_packet` is split into `ReadFlag`, `PendingIp`,
`TransmitRtinfo` and `PacketEnqueue`: between these the code holds no lock. The
test of the list's length and the append are under one lock, so that the bound of
the list is the guard of `PacketEnqueue` and no property of its own. The netlink
handler is one context more (`Handler`): `RecvInfo` starts it, `ReleaseOne` is one
round of the loop of `send_packet`, `Reroute` is `reroute` followed by
`ip_local_out`, after which the packet meets the POST_ROUTING hook again, and
`ReleaseDone` ends the handler. Initialisation messages and EXIT set
`transmission_flag` (`LaStart`, `LaExit`).

Environment: `route` (does the destination's route point to the tun device),
the LA process `la`, and `due[d]`, how many answers for `d` will still come.
`lost` and `exposed` are ghosts: destinations whose last answer to come got
lost, and packets that the answer overtook between `pending_ip` and
`packet_enqueue`.

Not modelled: packet contents, the MAC lookup in `reroute`, the error return of
`ip_route_output`, a protocol filter in the hook; `kmalloc` failure is the free
choice to refuse a packet.

| property | says |
|---|---|
| `OneOwner` | every stolen packet is with one context, or one list entry, or sent, or freed, never two of these, never none |
| `WaitsForAnswer` | a packet waits for an answer to come, or the answer was lost, or it was handled between check and park; there is no third way to strand a packet |
| `AnswerIsLocal` | an answer releases packets of its own destination only, and drops exactly on NF_DROP |
| `FifoPerDestination` | packets of one destination leave the list in order |

### LocalAgent

One action per handler of the select loop: `Select`, `OdsMessage`, `Accept`,
`ClientMessage` (`recv` and `parse_stream`), `Feedback` (the answer written to
netlink), `ClientGone`, `ScanDone`. `ix` is the loop index, `rbits` what
`select` returned. `fd_list` and `serv` are sequences, edited as the vectors
are: an erase at position i moves the next element to i while the loop goes on
at i + 1. Peers: `KernelRequest`; clients connect, read, answer, volunteer,
stay silent and close. `conn` distinguishes a connection that the peer closed
(`half`) from one it reset; `send` on the latter raises SIGPIPE and ends the LA
without EXIT (`OdsMessageSigpipe`).

`Faults` names what may go wrong in a run. The uninitialised `type` of a new
client is a nondeterministic choice when `"type"` is in it. `Due(d)`, the
number of answers for `d` to come, is a ghost: the requests and answers that
lie in the sockets, with the daemons and in the hands of the LA.

| property | says |
|---|---|
| `DescriptorsLive` | `fd_list` and `la_serv_list` name the accepted connections, each once, so `select` never gets a closed descriptor |
| `LossesNamed` | messages are lost only behind another in one `recv()`, when no client is connected, with a client that ended, and all at once by SIGPIPE |
| `ClientsServed` | a closed client is noticed and an answer read, although the scan skips descriptors |
| `RequestForwarded` | *violated*: a request read while a client is connected need not be forwarded |

### OnDemandPath

Extends `LocalAgent`, instantiates `OdsKernel` and composes the two with a
daemon. `SendRequest` puts the request into the LA's
socket, `Deliver` moves the answer into the kernel's handler, and while the
handler is not idle the LA takes no step. `due` is no variable here: it is the
number of requests and answers that the sockets, the LA and the daemons hold
(`Due` of LocalAgent), and `ImplementsKernel` says that with this mapping every
step is a step of OdsKernel or a stutter. So what OdsKernel assumes of its
environment is what the user half does.

| property | says |
|---|---|
| `ImplementsKernel` | every step of the composition is a step of OdsKernel or a stutter |
| `RequestTravels` | a parked packet waits for a message that is under way, was lost, or has overtaken it |
| `LostOnlyBeforeConnect` | without faults, the last answer to come is lost only if the LA reads the request before a daemon has connected |
| `EndToEnd` | without faults, every packet is decided, or its destination is stranded |

The last two are about a single destination without faults: coalescing is then
harmless, since one answer releases all packets. With two destinations it does
lose requests (`LossesNamed`).

### AodvTimerQueue

`timerQ` is the list of `timerQueue.cc` with timeouts relative to now, `alarm`
the time to SIGALRM, `Off` when none will come. One unit is 500 ms in the run,
with the long intervals cut short. `set_timer` takes two steps (`BeginSetTimer`
inside the action that calls it, then `SetLowestTimer`), because it reads the
clock twice: SIGALRM or a tick may come in between. `ScheduleTimer` is the
whole signal handler: it runs the handlers of the timers in front that are due,
whose own timers (`Again`) go into the list (`Handled`, a recursive function over
the due timers), and sets the real timer. The main
loop is interrupted by it and never runs during it. The other actions are the
places of the daemon that touch timers: `SendRequest` (`sendRREQ`,
`doLocalRepair`), `RouteUpdate`, `NeighborUpdate`, `ResetRebootTimer`.

Whether a message comes and a retry is made is free; so is whether
`resendRREQ` gives up. Hello messages are on, as by default.

| property | says |
|---|---|
| `OneOfEach` | the periodic, the reboot and the hello timer and each neighbour's timer are neither lost nor doubled |
| `LateByOnePeriod` | a lost arming in `set_timer` delays a timer by one period at most |
| `AlarmStops` | the real timer dies in two ways only: a removed search in front of a timer that is due, and the reset of the reboot timer |
| `RebootEnds` | *violated*: `duringReboot` stays set after the reboot timer has expired |

### AodvTable and AodvNode

The daemon of one node. `AodvTable` has no variables: it defines the record that
holds what the daemon's globals hold, and what one update, list operation or
timer makes of it. The record has `rtable`, the pending RREQs `rreqL`, the list
`repair`, the reboot flag, the timers as far as they matter here (`search` counts
RREQ and LR timers, `watch` the neighbours with an ACTIVE_ROUTE timer), and the
kernel routes `kroute` that `add_kroute` has made (`del_kroute` works on a socket
that is never opened and deletes nothing). `waiting` is a ghost: whether a
request of the LA is unanswered because of a search, or because a repair is said
to be under way. When the code would follow a null pointer, `down` names the
place and the node stops.

`AodvNode` is the program: two actors on one such record, `node`. SIGALRM is not
blocked in the main loop, so that an action of the main loop is **a step of a
handler between two places where SIGALRM may come in**, and `loop` says which step
is next and what it still needs of the message. A signal handler is one action,
since SIGALRM is blocked while it runs. In the order of the code:

| handler | steps |
|---|---|
| every message, reboot time over | `NeighborUpdate` (test and entry of the neighbour), `RouteFound` (IP_FOUND, `removeRREQTimer`), `RepairEnded` (`deleteFromList`), `TestTimer`, `SetTimer` |
| every message, reboot time | `EnterReboot` (the test), `RebootNeighborUpdate` |
| then RREQ, RREP | `SeenBefore`, or `RouteUpdate` (the test of the entry, and a new entry), `ReplaceActive` (overwriting an active one), `RouteFound`, `RepairEnded` |
| then RERR | `HearOf` (`updateInvalidEntries`), then `Renumber` (N flag), or `LoseRoute` (test, repair list) and `Invalidate` |
| `process_asl` | `ProcessAsl` (flag and route), `Ask` (local packet, or the repair list), `AskForRepair` |
| SIGALRM | `ResendRREQ`, `RepairFailed`, `NeighborTimeout`, `Refresh`, `RebootHandler` |

Finer than that the model does not go. The stores to one entry of the table, with
the look at its flags where the code takes it among them, are one step: the
states between two stores of one entry are left out, and so is an interruption
inside a list operation, which is undefined behaviour. Some steps of the
code are in one action because nothing SIGALRM does can tell:

* The test of `duringReboot` that finds it false comes with the entry of the
  neighbour, since the flag is never set again. The test that finds it true is a
  step of its own (`EnterReboot`), since `rebootHandler` may follow it at once.
* `add_kroute` comes with the entry it is about: no handler but `rebootHandler`
  reads or writes kernel routes, none changes a next hop, and in the branches
  with `add_kroute` the reboot time is over.
* IP_FOUND comes with `removeRREQTimer`: no timer of the destination is less in
  between but by its own handler, which answers as well.
* `set_timer` of a search or a repair comes with what is written before it: a
  timer that does not run yet does nothing. `removeActiveRouteTimer` and
  `set_timer` are one step, `SetTimer`, since SIGALRM cannot see that a timer of
  the neighbour is missing for a moment.
* What a message says is chosen by the step that first looks at it; any content
  can be chosen, whatever has happened since the message was read.

`ReplaceActive` and `Invalidate` assume that the entry is still there, as the code
does: one that `refreshEntries` erases in between takes both its lifetimes to go,
within one handler, and the code would then write to freed memory.

Messages are free, with any sequence number and hop count. A lifetime is `live`
or over, and `Expire` ends it at any time; timers run out at any time. `Refresh`
goes through the table in the order of the map (`Rounds`, a recursive function),
since a round may erase what a later one needs. What only decides which messages
go out (own sequence number, RREQ ids, precursors) is in `AodvNetwork`.

Two ghosts hold what interruptions leave behind: `missed`, the active entries
that the branch for the reboot time wrote after `rebootHandler` had come in on it,
until they end or the kernel is told of them; and `cut`, the broken routes that
the main loop has taken off the repair list, or is about to.

| property | says |
|---|---|
| `StaleNeverWins` | an active route is replaced by another neighbour's offer only if it is fresher, or as fresh and shorter |
| `KernelFollows` | a route that the daemon reports is in the kernel, by the same next hop for destinations behind a neighbour, unless it is `missed` |
| `NeighborTakesRoutes` | whatever ends the route of a neighbour ends the routes behind it, unless a running repair of the way to it is given up |
| `BrokenInRepair` | a broken route is on the repair list, over all ways in and out of both, unless it is `cut` |
| `EntryForTimer` | RREQ timers never outnumber the pending entries of their destination |
| `SearchAnswers` | while a search is unanswered, a timer that will answer it is running |
| `Answered` | every search is answered, unless the daemon ends |

### AodvNetwork

Several daemons, each a value of `nodes` with the operators of `AodvTable`
(`Node`), and what these leave aside: `own` sequence numbers and RREQ ids, the
RREQs `heard`, the precursors `prec`, and `net`, the copies of messages on their
way, one for each receiver. A message may arrive at any time after any other; `Lose`
takes one away. Here an action is a whole handler that
no timer comes in on (interruptions are `AodvNode`'s): `AfterRREQ`, `AfterRREP`, `AfterRERR`,
`AfterRepaired` and `AfterAsl` put the steps of `AodvNode` together, and `RecvRREQ`,
`RecvRREP` and `RecvRERR` add what the node sends: an answer of its own or for another
(`ValidRoute`, which as in the code does not look at the lifetime), a gratuitous
one, or the RREQ itself with one less to live. `Resend` widens the ring,
`Request` starts a search, a repair or a RERR.

| property | says |
|---|---|
| `LoopFree` | active routes for one destination never lead in a circle, unless the number of that destination has failed to tell old from new (`forgot`) |
| `SeqFromOwner` | no active route has a number ahead of its destination's own, although each node that breaks a route counts it on |
| `Found` | a search whose messages get through ends in a route, also through a node that searches or repairs by itself |

### NeighborDiscovery

The one-hop list of each interface (`neighbors`, with the node an entry was
written from), the timer list and real timer as in `AodvTimerQueue`, the
sockets, and the thread of `main_loop`. `update_info` takes three steps after the
search for the entry (`ReadHello`): `Apply`, `RemoveTimer`, `SetEntryTimer`;
`ScheduleTimer`, the signal handler, and the API calls come in between.
`remove_neighbor_entry_timer` takes any entry timer of the interface for the
first one (`is_set_now`). A signal makes `select` fail with EINTR and the thread
read from every interface, readable or not. The recursive functions
`ElementsAt`, `Started` and `Renewed` are the loops over the list, the
interfaces and the due timers. `torn` is a ghost: neighbours whose update was
cut in on.

| property | says |
|---|---|
| `EntryTimed` | each entry has one timer and each entry timer its entry, except for a torn neighbour |
| `InfoFromItself` | an entry holds what its own neighbour said, except for a torn one |
| `OneChain` | only a change of the interval from 0 doubles the chain of hello timers |
| `AlarmFallsBehind` | the real timer gets behind the list only by `is_set_now` or by a timer that is due as well |
| `SilentForgotten` | a neighbour that falls silent is forgotten, if the real timer does not get behind |
| `HelloRead` | a hello message is read, unless the thread waits on an interface of silent neighbours |

### IdleTimes

`nodes` are the entries that the hook of `route_check` has allocated, linked
from `head`; an insertion takes two steps, `Link` and `Publish`, between which
another CPU's may come. What is in the list is the least set that is closed
under the links (`ListFrom`), and a search finds the latest entry of a key,
since links lead to earlier ones. `KernelTime` is the clock of the module, which adds
microseconds to milliseconds. `table` is the routing table as far as
`refreshEntries` uses idle times: valid or not, and until when; `Refreshed` is its loop over the
table.

| property | says |
|---|---|
| `LastUseRecorded` | each address that packets went to or came from is in the list once, with the last use, unless insertions raced |
| `LifeEndsWithUse` | a route is renewed up to its last noted use, never longer |
| `UsedRouteKept` | a route in use ends only by a use noted in the future or with its next hop |

## 4. Runs and bounds

| run | bounds | why they are enough |
|---|---|---|
| `kernel_safety` | 3 packets (two share a destination), 2 destinations, 2 hook contexts, list of 2 | two contexts race for one destination while the handler releases; the third packet finds the list full |
| `agent` | 2 clients, 2 destinations, 1 answer per destination under way, sockets of 2, all faults | an erase before and after another client; one client can hide behind the other in the scan; two messages in one stream coalesce |
| `agent_forward` | 1 client | the smallest instance that shows the violation |
| `path` | 2 packets, 2 destinations, 1 hook context and the handler, 1 client, all faults | the overtaken packet, crash with packets parked, request lost |
| `path_live` | 2 packets, 1 destination, 2 hook contexts, 1 client | coalescing of two requests for one destination |
| `timers` | 1 neighbour, 2 searches for it, 1 reset, timers up to 4 units late | a search in front of and behind each permanent timer; two timers due at once |
| `timers_reboot` | the same | one reset suffices |
| `node_routes` | 2 other nodes, at most 2 hops before the neighbour, sequence numbers 0 and 1, no requests; SIGALRM between any two steps | either node is a neighbour, behind the other, or both in turn; two numbers suffice to be fresher, older and equal. Three nodes are out of TLC's reach; the proofs cover any number |
| `node_search` | 1 neighbour, 3 searches, 3 repairs and 3 pending entries at a time | overlapping searches with different numbers of tries left, and entries that outlive their timer |
| `network` | 3 nodes in a line, a searches the far end, the middle relays and repairs, the far end sends hello messages; 2, 1 and 0 RREQs, 1 fault | two rings, a relay, a repair that crosses a search, one loss, timeout or expiry anywhere; the shortest loop takes no more. `MaxHops` and `MaxSeq` are not met |
| `neighbor` | 2 neighbours on one interface, a second one with nobody, lifetime 2, interval 1, 2 hello timers | one neighbour's entry in front of or behind the other's, both due at once, a second chain of hello timers, an interface where nothing arrives |
| `idle` | 1 flow from behind a neighbour to another, 2 CPUs, seconds of 3 units, 5 entries, time up to 4 | two insertions of one key and of two; a use late in one second and queries in the next |

Bounds that the code does not have: `MaxDue`, `NetlinkMax`, `StreamMax`,
`RouteLosses` (messages and routes under way), `MaxSearch`, `MaxPending`,
`MaxResets`, `MaxHello` (timers and list entries of a kind), `MaxHops`,
`MaxSeq` (where a node that ends a route would count its number beyond it, the
number stays; `network` does not get there), `MaxId` (RREQs each
node sends), `MaxFaults` (losses, timeouts and expiries together), `Lag`
(timers later than this count as this late), `Tuned` (interfaces whose interval
is set), `MaxTime`, `MaxNodes` and `K` (milliseconds in all, entries, and
milliseconds of a second). `MaxLen` is `MAX_PACKET_NUMBER` with a smaller value.
Symmetry is used for safety runs only. Deadlock is checked except where the
system may stop: a daemon that has ended (`node_routes`, `node_search`,
`network`) and the end of time (`idle`).

Fairness. In `path_live`: the kernel runs every context on, the LA runs when a
descriptor is readable, daemons read their connections; answers are handed to
the kernel under strong fairness, since the handler is busy in between, and so
is `SendRequest`, which the bound `MaxDue`, not the code, may block for a while.
That a daemon answers at all, and honestly (`HonestDaemon`), is assumed there
only. In `agent`: the loop runs and a process that has sent EXIT ends. In
`node_search`: SIGALRM runs the handlers of RREQ and LR timers; that it comes is
the subject of `AlarmStops`. In `network`: RREQs and RREPs arrive
and retry timers run out, as long as there has been no fault. In `neighbor`: the thread runs while it is not
blocked (strongly fair, since a signal in an update holds up the next message by
a bound), time passes, a due signal comes.

## 5. What is proved

`OdsKernelProofs`, for any number of packets, destinations and contexts and any
`MaxLen`, from `KernelAssumption`:

* `TypeCorrect`: `TypeOK` with `Control`, which says that a context holds a
  packet exactly when it is not idle (the handler also in `send_packet`), that
  only the handler is in `send_packet`/`reroute`, and that `reply` is one answer
  exactly while the handler is busy. Types alone are not inductive: an action
  that appends `skb[c]` needs that it is a packet.
* `Ownership`: `OneOwner` is inductive relative to `TypeCorrect`. The list
  lemmas (`EnqueueFacts`, `DequeueFacts`, `RemoveAtFacts`) say which packets an
  append and a removal leave.
* `Waiting`: `WaitsForAnswer` is inductive relative to both. The lemmas
  `CoverKept` and `CoverStutter` say when a step keeps the reason a packet
  waits for; `LateStep` that no packet becomes late unnoticed.
* `AnswersAreLocal` and `FifoKept` are action properties of the same invariant.
  `ListStep` gives the only three ways the list changes: as it was, one packet
  behind the last (`ParkStep`), or without the first that the answer is for
  (`ReleaseStep`).

`ListLemmas` says what taking an element out of a sequence leaves, and carries
what recursive functions need: `Least` and `Upward` are induction over a set of
numbers, and `Recursion` says that a recursive function over `0..n` has values.
The prover cannot cite the induction theorems of the library, which take an
operator. All proof modules below use it.

`OnDemandPathProofs`, its first part, about the Local Agent, for any number of
clients, destinations and messages and with every fault, from `AgentAssumption` (finitely many clients, none of them
named like the two permanent descriptors):

* `TypeCorrect` and `DescriptorsStayLive`. The inductive invariant `Inv` adds to
  `TypeOK` and `DescriptorsLive`: `Streams`, that the streams are functions;
  `Once`, that no connection is in `la_serv_list` twice, without which erasing
  the first entry of a descriptor could leave another; `DownClosed`, that a
  process that does not run has no connections, without which a start could meet
  old ones; and `Bounded`, that at most `MaxDue` answers per destination are to
  come, without which the counters of a daemon have no type.
* `DueStep` says, for every step, how the number of answers to come changes: one
  more by a request, never more otherwise. `Due` is a sum of cardinalities, and
  each step adds an element to one set and takes one out of another, or maps
  one into another (`TailCount`).
* `NoOtherLosses`: `LossStep` says of every step that takes one away that it is
  one of those that `LossesNamed` lists. It needs the other bound: a message that
  is read alone moves on (`AnswerReadKept`, `RecvKept`), and so does one that is
  forwarded to an open connection (`MessageKept`).

Its second part, about the way of a request, for all constants and bounds and,
but for the last, with every fault:

* `PathImplementsKernel`. The kernel half is instantiated once more with its
  proof module (`KP`); `SameKernel` says that an action means the same in both
  instances. There is one lemma for each kind of step: steps of the kernel
  half, of the LA, of the daemons and of the processes map to a step of
  OdsKernel or to a stutter (`StepMaps`). What is needed of a state is `Sound`:
  the invariants of both halves, `LostGone` (a destination is lost only while
  nothing is to come for it) and `Honest` (if daemons are honest, a route they
  report is in the kernel until the answer arrives, which is why
  `PathAssumption` has no route losses in that case).
* `RequestsTravel`: `WaitsForAnswer` holds of the composition, by the refinement
  and by `Waiting`, whose proof is thereby used for the real environment.
* `OneDestinationAnswered`, from `Faults = {}` and one destination, which are the
  conditions of the property. `Faultless` is the invariant it adds: every client
  is a daemon with an open connection. Then several messages that one `recv()`
  returns are of one destination, and one of them goes on (`LastKept`); a netlink
  socket that is full holds a request already (`RequestKept`).

`AodvNodeProofs`, for any number of other nodes, any messages and any bounds, with
SIGALRM between any two steps of the main loop, from `TableAssumption` and
`NodeAssumption` (the order is a sequence of addresses, `NoNode` is none of them,
hops stay below `INFINITY_HOPS`):

* The inductive invariant `NodeInv` is `Inv`: the type of `node` with `Sane` of
  each entry, and `Repaired` and `Followed`, which are `BrokenInRepair` and
  `KernelFollows` with their exceptions as parameters. `Sane` is needed since
  types alone would let a route without next hop become active again, or one of
  one hop lead through another node; the first would put a route without gateway
  into the kernel, and with the second the end of a neighbour would take routes
  along that `refreshEntries` does not look at.
* To this come what the main loop knows between two steps: `Placed`, what `loop`
  holds at each place, and `Held`, what of an earlier test is still true however
  often SIGALRM has come. An entry about to be overwritten that is still active
  is still one the message is fresher than, and by the same next hop if the
  kernel is not to be told; one about to be made invalid still leads through the
  sender; one whose search is being ended is broken only if it is `cut`. A
  handler keeps `Held` because it leaves hops, number and next hop of entries that
  stay active as they are (`Quieter`, `TimerKept`).
* What one function does to an entry has a lemma (`Changed`, `QuietEntry`,
  `ResentKeeps`, `GivenUpKeeps`, `TimedOutKeeps`, `RefreshedKeeps`, ...), each
  action one of its own (`NeighborUpdateStep`, `ReplaceActiveStep`, ...). Steps are of
  three kinds (`StepKinds`). One that writes what a message says (`Message`) makes
  of an entry a route of the neighbour that sent it, a better offer, or the end of
  a route through it (`Offered`), and so never ends the route of a neighbour
  itself. Most others (`Calm`) leave active routes as they are, and end none
  without those behind it (`Along`). Giving up a repair is the third kind.
  `BrokenStayInRepair`, `KernelAgrees`, `FresherWins` and `RoutesEndTogether` follow.
* `refreshEntries` is a recursive function over the order of the map. An
  induction theorem of the library would take the statement as an operator,
  so `Upward` makes the induction over a set of numbers; `RoundsDefined` gives the recursion,
  and `RefreshedKeeps` is the induction over the rounds.

* `EveryTimerHasEntry` and `EverySearchHasTimer`. The invariant adds `Backed`
  (timers against the number of entries of a destination) and `Owed` to
  `NodeInv`. A message may end searches whose requests it has answered
  (`Served`), a change of the table leaves searches `Untouched`. The first needs
  that a removal takes one entry of one destination: `RemoveEntries` maps the
  entries that are left into the old ones.

`AodvNetworkProofs`, for any number of nodes, any links, requests and bounds, any
loss, delay and timeout, from `NetworkAssumption` (links join two nodes, and the
assumptions of `AodvTable`):

* The inductive invariant `Inv` says of each active route (`Leads`) and of each
  message on its way (`Offer`) that the number is one that the destination has
  handed out, and that who comes next, or who sent the message, is nearer to the
  destination (`Ahead`): has a later number, or the same and an active route with
  fewer hops. `LoopFree` alone is not inductive, since a message carries what its
  sender had when it was sent, and the sender may have changed since. `StaysAhead`
  is the point of the proof: a node that is ahead stays so, whatever it does to
  its table, unless the step puts the destination into `forgot`.
* What a function of `AodvTable` does to the table is a lemma each (`UpdateFacts`,
  `HeardFacts`, `RERRFacts`, ...). A step either takes no route from a message
  (`NoneNew`) or takes one that the message offers (`Learns`, `HeedsAhead`), and
  what it sends is no better than its table (`ForwardSound`, `AnswersSound`).
* `NumbersFromOwner` is the first part of `Leads`. `RoutesEndAtDestination`: on a
  circle, a node with the latest number and, of these, the fewest hops would have
  a next hop that is nearer (`NoCircle`, with `Least` for both).

`NeighborDiscoveryProofs`, for any number of neighbours and interfaces, any intervals and bounds, from `DiscoveryAssumption` (finitely
many neighbours, each heard on one of the interfaces, which are named once):

* `TypeCorrect`. The inductive invariant `Types` says of each list that no
  neighbour is in it twice (`Listing`), of the timers that they are in order
  (`TimerLists`), and what the thread knows of its message: a neighbour of the
  interface at hand, one that is not in the list if no index was found. Without
  the last, a run of the handler could not be told to leave the next `Apply` a
  list without duplicates. `ElementsAtFacts` says what a deletion leaves, and
  where: nothing moves before the first entry that goes.
* `AlarmIsInTime`, from the order of the timers, a lemma for each step that
  touches the timers or the clock (`SetTimerInTime`, `TickInTime`, ...).
* `ChainsStaySingle`. `RenewedSteps` opens the recursion of the handler, and
  `CountLeft` is the induction over the due timers: what has been added never
  outnumbers what is due so far, and both end with what the list had.
* `InfoIsOwn`: `Own` adds `Aimed`, that the index that was found is of the
  neighbour of the message or of a torn one. `DisturbedFacts` says what a run of
  the handler does to the entries up to that index.
* `EntriesHaveTimers`: `Timed` follows a neighbour through its update
  (`Ongoing`: neither entry nor timer; both, the entry not behind the index; an
  entry without timer) and between updates (`Settled`), and adds that the
  thread has ended once it is idle after the turn-down.

`AodvTimerQueueProofs`, for any nodes, intervals and bounds, from
`TimerAssumption` (intervals are positive and shorter than `Off`; the reboot
timer has one interval, `DELETE_PERIOD`):

* The inductive invariant `IInv` is `Typed`, `Complete` (which timers are there,
  and which once only) and `Punctual`. The last says that the list is in order,
  unless a reset of the reboot timer has stopped the real timer for good; that
  no timer was set more than a period before the periodic one (`InTime`); that
  the alarm comes no later than the periodic timer, once the reboot phase is
  over (`Covers`), during which nothing but these two timers is there (`Early`).
  `OneOfEach` alone is not inductive: without the order, `scheduleTimer` could
  pass a timer by that is due, and a late timer could be later at the next run.
* `NeverLostNorDoubled`, `AtMostOnePeriodLate`, `StopsInTwoWaysOnly`. The lemmas
  `InsertFacts` and `DroppedFacts` say of every kind of timers what an insertion
  and a removal leave; `HandledSteps` opens the recursion of the handler,
  `HandledFacts` and `AddsFacts` are the induction over the due timers: a timer
  erased at the end of its handler has at most one successor of its kind, and
  none of them is due.

`IdleTimesProofs`, for any number of CPUs, packets and destinations, from
`IdleAssumption` (the table is in an order, and a next hop is its own next hop):

* The inductive invariant `IInv` adds to `Typed`, in which entries are linked to
  earlier ones only, that a packet in the hook holds the present time
  (`Timely`), since time passes between packets only; that an address without
  use has no entry (`Unused`); that what the list has lost has raced (`Listed`),
  as has what is there twice (`Once`); and that a use is noted by an entry or
  will be by a packet in the hook (`Noted`). `FromNew` says what an entry that
  becomes the head reaches: itself and what the entry it was linked to reaches,
  so that an insertion in between drops out of the list.
* `UseIsNoted` is the invariant with no packet in the hook. `LivesByItsUse` and
  `EndsForTwoReasons` follow `refreshEntries` over the table (`RefreshedFacts`):
  each round gives a reason for each entry it changes (`Reasoned`), and the
  reason lies in the list, which the rounds leave alone.

Only model-checked: liveness (`ClientsServed`, `EndToEnd`, `Answered`, `Found`,
`SilentForgotten`, `HelloRead`), for which the prover has neither fairness nor
ENABLED. Every other property that a passing run checks is stated by a theorem.

## 6. Findings

* `agent_forward`: the type of an accepted client is uninitialised, so a
  connected daemon may never be forwarded a request, against `LA/common.h:24`.
* `timers_reboot`: `resetRebootTimer` passes an absolute time as an interval, so
  that the reboot never ends, against `LA_Client_aodv/main.cc:42`.

Behaviour the models show that no document denies: packets stranded by the
unlocked check (`WaitsForAnswer`, case `exposed`), packets parked over a
restart of the LA that suppress new requests (case `lost`), a livelock in
`send_packet` if a daemon reports a route that is not in the kernel. The last is
excluded by `HonestDaemon` in `path_live`: `EndToEnd` would not hold with it, and
does not cover it.
In `AodvNetwork`, nodes may route through each other. `LoopFree` therefore
excepts destinations whose number has failed to tell old from new (`Forgets`,
collected in `forgot`), in one of three ways:

* The number went back. TLC finds a circle on the small instance: b knows its
  neighbour c, the link times out and b counts the number on to 1; c answers b's
  repair with 1, and a learns of c by b; a hello message of c that was sent
  before, with number 0, now reaches b, and `neighborUpdate` puts the number
  back; when b loses the link again, a's answer (c behind b, number 1) is the
  fresher one for b. An RERR with the number of a node that has no route, or the
  end of an entry, does the same.
* An active route ended and its number stayed. An entry that is not active takes
  any message with the number it has, also one that others made from the route
  that was. It takes four nodes: simulated instances met it, the run does not.
* An RERR with the N flag raises the number of a repaired route at neighbours
  that keep their hop counts, which then compare with those of others although
  the way has become longer. No instance met a circle of this kind; the invariant
  of the proof does not exclude it.

RFC 3561 has rules against them, but no document of the repository says that
the code follows these.

In `NeighborDiscovery`, a signal in the middle of `update_info` writes one
neighbour's data into the entry of another or leaves an entry without its timer
(cases `torn`), and a signal in `select` lets the thread wait on an interface
where nobody sends (`HelloRead`). In `IdleTimes`, two insertions at once lose an
entry (`raced`), and a use late in a second is noted as one in the future.

In `AodvNode`, interruptions of the main loop leave two things behind:

* `rebootHandler` may come in when `processRREQ`, `processRREP` or `processRERR`
  has found `duringReboot` set. The branch for the reboot time then makes its
  entries active after `addAllValidRoutes`, although that is to "enter all existing
  valid route entries into kernel route table" (`aodv.cc:1468`), and the updates
  that follow find the entry active and do not tell the kernel. The daemon reports
  IP_FOUND for a route that the kernel has not got until that route ends, or moves
  to another neighbour or a shorter way. `KernelFollows` excepts these
  entries as `missed`; without the exception TLC finds one after three steps.
* A neighbour timeout may come in when a message has ended the repair of the same
  route and `deleteFromList` is still to come (`routingTable.cc:658`, 337 and 510): the
  route is broken again and goes on the list, and comes off at once, so that
  `process_asl` gives up a packet for it instead of repairing the route.
  `BrokenInRepair` excepts such routes as `cut`.

An active route may also have a next hop that is itself no neighbour
any more. With three nodes: d is reached by b, b becomes a node behind c, and a
RERR of c ends b's entry; the route to d stays, since neither its hops nor its
next hop are looked at. When b's entry has been erased and d's lifetime ends
while it is in use, `refreshEntries` follows the end of the map
(`routingTable.cc:871`; the daemon ends, `down = "refresh"`).

## 7. Not modelled

Socket set-up, the tun device and `ioctl`s; logging; the copies of the kernel
sources under `lib/` and `lib_code_test/`; test programs and the router demo.
Of the AODV daemon: the blacklist and the timer of RREP_ACK messages, which need
the option `-a 1`, and a restart of one node of a network. A RERR that a node
with one precursor forwards ends the daemon, and one with several goes to an
address that was never set, so that RERRs travel one hop in `AodvNetwork`;
lines of four nodes and rings are out of TLC's reach in it. An RREP with
uninitialised fields ends the model.

A SIGALRM in the middle of a list operation is undefined behaviour and has no
outcomes to choose from; list operations are atomic in `AodvTimerQueue`,
`AodvNode` and `NeighborDiscovery`. Between them SIGALRM does come in, in all
three; what `AodvNode` leaves out is the state between two stores to one entry of
the routing table (section 3). In `AodvNetwork` a handler is one step: with several
nodes, interruptions of each are out of TLC's reach, and the proofs about it are
of handlers that run undisturbed. The buffer that main loop and handlers share
for sending is not modelled.

Undefined as well is a hook that runs on the freed list after the kernel module's exit
function, which is why loading and unloading is not modelled.

Of `lib/ND`, the two-hop sets and states of links, which are written as a whole
with the entry they belong to, and a second `nd_turn_up`. Of `lib/FO`, the
functions without callers. Older copies and demos have nothing of their own.
