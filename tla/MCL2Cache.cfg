SPECIFICATION L2Spec
CONSTANTS
    m1 = m1
    m2 = m2
    m3 = m3
    Ids = {m1, m2, m3}
    MaxSize = 2
    NoId = NoId
    NoLabel = NoLabel
    Tombstoned = Tombstoned
    Lengths <- MCLengths
    Capacity = 2
    MaxElements = 1
    Headroom = 1
    AdoptsCapacity = TRUE
    K = 1
    Overfetch = 1
    MaxLabel = 2
    MaxCrashes = 1
    MaxFaults = 1
SYMMETRY TinyAlike
INVARIANTS
    TypeOK
    QueryTruthful
    DualStoreInSync
    WithinBudget
    FreshInsertHasSlot
    LabelIsFresh
PROPERTIES
    EvictedIsReturned
