\* Two nodes, two rows of one name, one key, one token; one connection or call under way.
SPECIFICATION AccessFairSpec
CONSTANTS
    Nodes = {n1, n2}
    Rows = {r1, r2}
    Keys = {k1}
    Tokens = {t1}
    Named <- MCNamed
    Nil = Nil
    MaxUnderway = 1
    MaxAdmin = 2
    MaxFaults = 1
PROPERTIES
    RefusedOnceWithdrawn
    
    OnlyAdminsReactivate
    DeadSessionsEnd
