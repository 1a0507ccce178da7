SPECIFICATION Spec
CONSTANTS
    Users = {u1, u2}
    SetupTokens = {s1, s2}
    Requests = {r1, r2}
    MaxLinks = 2
    RefreshTokens = {t1, t2}
    None = None
    MaxPasswords = 2
SYMMETRY Symmetric
INVARIANTS SetupOnce OnlyTheLastLinkWorks
PROPERTIES DeletionsStand
CHECK_DEADLOCK FALSE
