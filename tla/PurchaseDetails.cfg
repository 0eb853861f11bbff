SPECIFICATION Spec
CONSTANTS
    a = a
    b = b
    o1 = o1
    o2 = o2
    erp1 = erp1
    erp2 = erp2
    Syncs = {a, b}
    Orders = {o1, o2}
    Sources = {erp1, erp2}
    MinSample = 1
    MaxSyncs = 4
    MaxChanges = 1
    MaxFaults = 2
    LastDay = 1
SYMMETRY Symmetry
INVARIANTS
    PublishedFresh
    NoForeignDetails
    DetailsOfListedRows
CHECK_DEADLOCK FALSE
