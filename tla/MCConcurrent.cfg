SPECIFICATION Spec
CONSTANTS
    m1 = m1
    m2 = m2
    m3 = m3
    t1 = t1
    t2 = t2
    Ids = {m1, m2}
    Threads = {t1, t2}
    MaxSize = 2
    NoId = NoId
    Size <- MCSize
    Cap <- UnitCap
    CallsFail = FALSE
    TopK = 2
SYMMETRY Symmetry
CONSTRAINT DeepQueries
INVARIANTS
    TierBudgets
    NothingVanishes
    NoDuplicateHits
