SPECIFICATION QuarantineSpec
CONSTANTS
    Sources = {f1, f2}
    Workers = {w1, w2}
    MaxAttempts = 2
    MaxClaims = 3
    MaxRequests = 3
    MaxFailures = 1
    MaxCrashes = 1
    MaxManifest = 1
SYMMETRY Symmetry
INVARIANTS
    DownloadsExist
    NothingLeftOutside
    QuarantinedStaysUnnamed
CHECK_DEADLOCK FALSE
