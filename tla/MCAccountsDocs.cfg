\* What the documentation says of role changes.
SPECIFICATION Spec
CONSTANTS
    Users = {u1, u2}
    Sessions = {s1, s2}
    Links = {}
    Keys = {}
    Txs = {t1, t2}
    None = None
    MaxHash = 1
    MaxVersion = 2
PROPERTIES RoleChangeRevokesSessions
