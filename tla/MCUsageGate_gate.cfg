SPECIFICATION FairSpec
CONSTANTS
    Calls = {c1, c2, c3}
    Limit = 4
    MarginPct = 50
    Costs = {0, 2}
    None = None
    DbFaults = TRUE
    TtlCovers = TRUE
CHECK_DEADLOCK FALSE
INVARIANT OneNearCap
PROPERTY GateOverTime
