\* Two nodes, each of them a neighbour or behind the other; no requests.
CONSTANTS
    n1 = n1
    n2 = n2
    Order <- MCOrder
    MaxHops = 2
    MaxSeq = 1
    MaxSearch = 0
    MaxPending = 0
SPECIFICATION Spec
INVARIANTS TypeOK BrokenInRepair KernelFollows
PROPERTIES StaleNeverWins NeighborTakesRoutes
CHECK_DEADLOCK FALSE
