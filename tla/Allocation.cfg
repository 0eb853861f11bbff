SPECIFICATION AllocationSpec
CONSTANTS
    Sites = {a, b}
    NoSite = NoSite
    NumLines = 2
    SitesOf <- TwoCountries
    NumWarehouses = 2
    Allowed = {2}
    Scales = {"long", "short"}
    Blank = "blank"
    Limit <- OneAndNothing
    NoRule = NoRule
    MaxHalves = 3
    MaxQuantity = 2
    MaxFiles = 2
SYMMETRY Symmetry
INVARIANTS
    NothingLost
    SourcesInOrder
PROPERTIES
    QuotaKept
CHECK_DEADLOCK FALSE
