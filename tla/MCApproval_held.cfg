SPECIFICATION FairSpec
CONSTANTS
    Calls = {c1}
    Nodes = {n1}
    Users = {u1}
    Tools = {t1}
    Configs = {g1, g2}
    None = None
    Gone = Gone
    DbFaults = TRUE
    Panics = TRUE
INVARIANTS
    DestinationIsPinned
    
PROPERTIES
    ImplementsContract
    HoldsProgress
