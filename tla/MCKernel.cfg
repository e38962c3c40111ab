SPECIFICATION Spec
CONSTANTS
    Sizes <- MCSizes
    Requests <- MCRequests
    AutoThreads = 3
    MaxThreads = 5
    Threshold = 2
INVARIANTS
    RaceFree
    ResultComplete
