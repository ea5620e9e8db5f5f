\* Two completion requests against each other, expiry and deletion; two workers that take cleanup
\* leases from each other; listed keys are deleted at any time.
SPECIFICATION Spec
CONSTANTS
    Files = {f1}
    Candidates = {c1, c2}
    Slots = {1, 2}
    Workers = {w1, w2}
    Rescan = Rescan
    None = None
    Uploads = {"good", "bad"}
    BatchLimit = 1
SYMMETRY Interchangeable
ACTION_CONSTRAINT RequestsOrWorkers
INVARIANTS PublicationIsSound DeletedIsScrubbed
PROPERTIES VerdictsAreFinal
