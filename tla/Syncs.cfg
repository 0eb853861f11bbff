SPECIFICATION FairSpec
CONSTANTS
    Syncs = {s1}
    Uploads = {u1}
    Workers = {w1, w2}
    Admins = {a1, a2}
    NoSync = NoSync
    MaxAttempts = 2
    MaxTime = 2
    MaxCrashes = 1
INVARIANTS
    VersionIffSucceeded
    CandidateFiles
    OneActiveVersion
PROPERTIES
    SomeVersionStaysActive
    SyncsSettle
CHECK_DEADLOCK FALSE
