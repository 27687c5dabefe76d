\* Two CPUs run the hooks, two packets share a destination, the list has room
\* for two of the three packets.
CONSTANTS
    p1 = p1  p2 = p2  p3 = p3
    d1 = d1  d2 = d2
    Packets = {p1, p2, p3}
    Dests = {d1, d2}
    Dst <- MCDst
    Contexts = {c1, c2}
    Handler = handler
    MaxLen = 2
    MaxDue = 2
    RouteLosses = 1
    HonestDaemon = FALSE
    NoPacket = NoPacket
SPECIFICATION Spec
INVARIANTS TypeOK OneOwner WaitsForAnswer
PROPERTIES AnswerIsLocal FifoPerDestination
SYMMETRY MCSymmetry
