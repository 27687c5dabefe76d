\* Two packets for two destinations, one daemon, every fault.
CONSTANTS
    p1 = p1  p2 = p2
    d1 = d1  d2 = d2
    Packets = {p1, p2}
    Dests = {d1, d2}
    Dst <- MCDst
    Contexts = {c1}
    Handler = handler
    NoPacket = NoPacket
    MaxLen = 2
    MaxDue = 1
    RouteLosses = 1
    HonestDaemon = FALSE
    Clients = {k1}
    NetlinkMax = 1
    StreamMax = 2
    Faults = {"exit", "kill", "close", "type", "silent", "alloc"}
SPECIFICATION PathSpec
INVARIANTS RequestTravels
PROPERTIES ImplementsKernel
