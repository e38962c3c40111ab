SPECIFICATION Spec
CONSTANTS
    l2 = l2
    l3 = l3
    c2 = c2
    c3 = c3
    observer = observer
    Databases = {l2, l3}
    Connections = {c2, c3, observer}
    DbOf <- MCDbOf
    Ids = {m1, m2}
    TierConns <- MCTierConns
    Observers = {observer}
    MaxCrashes = 2
INVARIANTS
    VersionedIsComplete
    MigratedOnce
    ReopenFindsAll
