\* Two CPUs and packets from behind one neighbour to another.
CONSTANTS
    e = e  n = n  d = d
    c1 = c1  c2 = c2
    Cpus = {c1, c2}
    Flows <- MCFlows
    Order <- MCOrder
    NextHop <- MCNextHop
    K = 3
    Active = 2
    MaxTime = 4
    MaxNodes = 5
SPECIFICATION Spec
INVARIANTS TypeOK LastUseRecorded
PROPERTIES LifeEndsWithUse UsedRouteKept
SYMMETRY Symmetry
CHECK_DEADLOCK FALSE
