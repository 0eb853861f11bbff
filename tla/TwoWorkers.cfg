SPECIFICATION OneBatchSpec
CONSTANTS
    w1 = w1
    w2 = w2
    b1 = b1
    b2 = b2
    Batches = {b1, b2}
    SelfOperated = {b1}
    Workers = {w1, w2}
    Queue <- AllAndBatch
    MaxAttempts = 2
    MaxRequests <- TwoAndFive
    MaxCrashes = 0
INVARIANTS
    BatchMatchesJobs
    OneOwner
    OwnerReadsCurrent
    RunsBounded
    ResultsOfCurrentInputs
    ExportOfCurrentContent
    ComputedAfterCheck
PROPERTIES
    OnlyRequestsReopen
CHECK_DEADLOCK FALSE
