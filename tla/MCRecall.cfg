CONSTANTS
    t1 = t1  t2 = t2  q1 = q1  q2 = q2  c1 = c1  c2 = c2
    Threads = {t1, t2}
    None = None
    Texts = {q1, q2}
    Contexts = {c1, c2}
    Queries <- MCQueries
    MaxCandidates = 2
SPECIFICATION Spec
INVARIANTS AssertionHolds OwnQueryScored EmbedsQueryOnce
PROPERTIES SessionCreatedOnce RecallReturns
