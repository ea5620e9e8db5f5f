\* Two links of one account and two workers that take leases from each other.
SPECIFICATION FairSpec
CONSTANTS
    Resets = {r1, r2}
    Workers = {w1, w2}
    None = None
    BatchLimit = 1
INVARIANTS MaterialUntilSent
PROPERTIES MaterialVanishes
