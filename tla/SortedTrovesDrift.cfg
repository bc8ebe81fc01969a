CONSTANTS
    Ids = {a, b, c, d}
    NULL = NULL
    MaxNICR = 3
    ReordersNICRs = TRUE
SPECIFICATION FairSpec
INVARIANTS EveryNodeReachable WalkStaysInList
PROPERTIES WalkTerminates
