SPECIFICATION Spec
CONSTANTS
    Syncs = {s1}
    Uploads = {}
    Workers = {w1, w2}
    Admins = {}
    NoSync = NoSync
    MaxAttempts = 2
    MaxTime = 1
    MaxCrashes = 0
PROPERTIES
    RemovesOnlyUnreferenced
CHECK_DEADLOCK FALSE
