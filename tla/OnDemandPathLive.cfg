\* One destination, an honest daemon, no faults.
CONSTANTS
    p1 = p1  p2 = p2
    d1 = d1  d2 = d2
    Packets = {p1, p2}
    Dests = {d1}
    Dst <- MCDstOne
    Contexts = {c1, c2}
    Handler = handler
    NoPacket = NoPacket
    MaxLen = 2
    MaxDue = 2
    RouteLosses = 0
    HonestDaemon = TRUE
    Clients = {k1}
    NetlinkMax = 2
    StreamMax = 2
    Faults = {}
SPECIFICATION PathFairSpec
PROPERTIES LostOnlyBeforeConnect EndToEnd
