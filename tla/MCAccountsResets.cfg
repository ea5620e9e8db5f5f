\* One account: sign-ins, password resets and API keys at once.
SPECIFICATION Spec
CONSTANTS
    Users = {u1}
    Sessions = {s1}
    Links = {l1, l2}
    Keys = {k1}
    Txs = {t1, t2, t3}
    None = None
    MaxHash = 3
    MaxVersion = 1
SYMMETRY Interchangeable
INVARIANTS SessionsAreCurrent ResetsAreOnce
