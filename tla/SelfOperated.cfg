SPECIFICATION FairSpec
CONSTANTS
    w1 = w1
    w2 = w2
    b1 = b1
    b2 = b2
    Batches = {b1}
    SelfOperated = {b1}
    Workers = {w1}
    Queue <- OnlyAll
    MaxAttempts = 2
    MaxRequests <- Three
    MaxCrashes = 1
INVARIANTS
    ExportNeedsResults
PROPERTIES
    WorkSettles
CHECK_DEADLOCK FALSE
