SPECIFICATION Spec
CONSTANTS
    Versions = {v1, v2, v3}
    FirstVersion = v1
    Drafts = {d1, d2}
    Admins = {a1, a2}
    NoDraft = NoDraft
    NoAdmin = NoAdmin
    CacheSize = 1
    MaxContents = 3
    MaxFailures = 1
SYMMETRY Symmetry
INVARIANTS
    TypeOK
    ChangesBuildOnSeen
    PublishedFiles
    LinearHistory
CHECK_DEADLOCK FALSE
