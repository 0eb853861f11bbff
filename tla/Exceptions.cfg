SPECIFICATION ExceptionSpec
CONSTANTS
    Sites = {s1, s2}
    Lines = {l1}
    NoSite = NoSite
    MaxQuantity = 2
    MaxComputes = 2
    MaxRequests = 5
SYMMETRY Symmetry
INVARIANTS
    NothingGivenTwice
    StatusTellsTheRest
    SitesKeepInput
PROPERTIES
    TransferredStays
CHECK_DEADLOCK FALSE
