\* Two accounts in one browser, one document, two roles.
SPECIFICATION Spec
CONSTANTS
    Users = {u1, u2}
    Nobody = Nobody
    Roles = {"member", "owner"}
    MaxLogins = 3
    MaxEvents = 4
    Levels = {"reader", "editor"}
    MaxVersion = 3
    MaxSubmits = 2
SYMMETRY Interchangeable
CONSTRAINT Bounds
INVARIANTS CacheIsOfSession CreatedOnce
PROPERTIES SavesWhatWasSeen NeverOlder
