SPECIFICATION L3Spec
CONSTANTS
    m1 = m1
    m2 = m2
    m3 = m3
    Ids = {m1, m2, m3}
    MaxSize = 2
    NoId = NoId
    NoLabel = NoLabel
    Tombstoned = Tombstoned
    Lengths <- MCLengths
    Capacity = 2
    MaxElements = 1
    Headroom = 1
    AdoptsCapacity = FALSE
    K = 1
    Overfetch = 4
    MaxLabel = 2
    MaxCrashes = 0
    MaxFaults = 1
SYMMETRY TinyAlike
INVARIANTS
    DualStoreInSync
    QueryTruthful
    WithinBudget
