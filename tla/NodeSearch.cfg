\* One neighbour, three searches and three repairs for it at a time.
CONSTANTS
    n1 = n1
    n2 = n2
    Order <- MCOrderOne
    MaxHops = 1
    MaxSeq = 1
    MaxSearch = 3
    MaxPending = 3
SPECIFICATION FairSpec
INVARIANTS BrokenInRepair EntryForTimer SearchAnswers
PROPERTIES Answered
CHECK_DEADLOCK FALSE
