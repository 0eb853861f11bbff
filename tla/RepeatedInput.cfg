SPECIFICATION ExceptionSpec
CONSTANTS
    Sites = {s1}
    Lines = {l1, l2}
    NoSite = NoSite
    MaxQuantity = 2
    MaxComputes = 2
    MaxRequests = 2
PROPERTIES
    InputAppliedOnce
CHECK_DEADLOCK FALSE
