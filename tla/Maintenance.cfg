SPECIFICATION Spec
CONSTANTS
    w1 = w1
    w2 = w2
    Workers = {w1, w2}
    MaxReleases = 1
    MaxBackups = 2
    Retention = 1
    MaxFailures = 2
    MaxCrashes = 1
SYMMETRY Symmetry
INVARIANTS
    MigratesAlone
    EndsAsReported
    NewestBackupsWhole
PROPERTIES
    OnlyRollbackStopsJobs
CHECK_DEADLOCK FALSE
