SPECIFICATION MCSpec
CONSTANTS
    n1 = n1
    n2 = n2
    s1 = s1
    s2 = s2
    Sites = {s1, s2}
    NoSite = NoSite
    Numbers = {n1, n2}
    NumItems = 2
    NumFiles = 2
    Limit = 1
    None = None
    MaxQuantity = 2
    MaxExtra = 1
    MaxRequests = 2
INVARIANTS
    TypeOK
    EveryPieceOnce
    WithinLimits
    SourcesInOrder
CHECK_DEADLOCK FALSE
