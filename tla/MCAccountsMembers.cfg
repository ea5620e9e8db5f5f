\* Sign-in, password reset and member administration of two members.
SPECIFICATION Spec
CONSTANTS
    Users = {u1, u2}
    Sessions = {s1}
    Links = {l1}
    Keys = {}
    Txs = {t1, t2}
    None = None
    MaxHash = 2
    MaxVersion = 3
SYMMETRY Interchangeable
ACTION_CONSTRAINT OneAtItsMaximum
INVARIANTS AuthorizationHolds LinksAreCurrent OwnerRemains
