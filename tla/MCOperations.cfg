\* Two files, one of which storage damages; two workers that evaluate over four intervals;
\* three requests of two clients in two windows; leases of up to five seconds; every script;
\* just dev with one container besides postgres, two moves of others and three changes; two
\* edits of a course copy over two releases; two creators of projects in two places with
\* three groups of ports, two of which overlap; one deletion by the developer of an example
\* and two more claims than are shipped; apps of two examples.
SPECIFICATION Spec
CONSTANTS
    Files = {f1, f2}
    MaxDamage = 1
    Evaluators = {e1, e2}
    Durations = {1, 2}
    MaxAge = 2
    MaxGap = 1
    MaxTime = 4
    MaxUpdates = 2
    Requests = {r1, r2}
    Clients = {c1, c2}
    Limit = 2
    FallbackLimit = 1
    Capacity = 1
    MaxWindow = 2
    MaxRequests = 3
    MaxLosses = 1
    MaxLease = 5
    MaxInstant = 12
    Containers = {"postgres", "redis"}
    MaxMoves = 2
    MaxChanges = 3
    MaxEdits = 2
    MaxReleases = 2
    Creators = {k1, k2}
    Places = {d1, d2}
    NoPlace = nowhere
    PortGroups = {{1, 2}, {2, 3}, {4, 5}}
    MaxTaken = 1
    MaxClaims = 5
    CoreRoutes = {jobs}
    OwnRoutes = {notes, knowledge}
    NoPath = NoPath
    MaxExamples = 2
SYMMETRY Interchangeable
ACTION_CONSTRAINT Bounds
VIEW LookedAt
INVARIANTS BackupsHold IncidentIsSustained WithinBudget DroppedInTime
INVARIANTS RigsAreSound DevKeepsToItself CourseIsKept ProductsAreApart
CHECK_DEADLOCK FALSE
