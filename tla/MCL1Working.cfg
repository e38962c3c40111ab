SPECIFICATION Spec
CONSTANTS
    Ids = {m1, m2, m3}
    MaxSize = 4
    Capacity = 3
    NoId = NoId
INVARIANTS
    TypeOK
    BytesExact
    WithinBudget
    NeverSilentlyDrops
PROPERTIES
    OrderHonest
    AtomicInsert
