SPECIFICATION Spec
CONSTANTS
    Procs = {p1, p2}
    Entries = {e1, e2, e3}
    Orgs = {o1, o2}
    None = None
    MaxClock = 0
    Restarts = TRUE
    Ambiguous = TRUE
    MaxTampering = 1
CHECK_DEADLOCK FALSE
SYMMETRY Symmetry
INVARIANTS HonestVerifies TamperEvident
