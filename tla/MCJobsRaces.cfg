\* One job fought over by two workers, two attempts per batch, one retry; no symmetry,
\* since liveness is checked too.
SPECIFICATION FairSpec
CONSTANTS
    Jobs = {j1}
    Workers = {w1, w2}
    Keys = {k1}
    NoJob = NoJob
    Limits = {1, 2}
    MaxBatch = 2
    SweepLimit = 1
    LeaseTicks = 2
INVARIANTS FenceHolds RecordsAgree
PROPERTIES EveryJobSettles HistoryIsFinal FencedInOrder ImplementsContract
