SPECIFICATION L2Spec
CONSTANTS
    m1 = m1
    m2 = m2
    m3 = m3
    Ids = {m1, m2, m3}
    MaxSize = 2
    NoId = NoId
    NoLabel = NoLabel
    Tombstoned = Tombstoned
    Lengths <- MCLengths
    Capacity = 2
    MaxElements = 2
    Headroom = 1
    AdoptsCapacity = TRUE
    K = 0
    Overfetch = 1
    MaxLabel = 4
    MaxCrashes = 0
    MaxFaults = 0
PROPERTIES
    UpdateKeepsMemory
