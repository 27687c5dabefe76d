\* A line of three: a searches for c behind b, b relays to its neighbour c
\* and repairs the route; one loss, timeout or expiry.  The model ends with
\* a garbled RREP or with all daemons down.
CONSTANTS
    a = a
    b = b
    c = c
    Order <- MCOrder
    Links <- MCLine
    Requests <- MCRelay
    Greeters <- MCGreeters
    Tcp = FALSE
    MaxId <- MCMaxId
    MaxFaults = 1
    MaxHops = 58
    MaxSeq = 100
SPECIFICATION FairSpec
INVARIANTS LoopFree SeqFromOwner
CHECK_DEADLOCK FALSE
PROPERTIES Found
