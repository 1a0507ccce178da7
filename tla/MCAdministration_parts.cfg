SPECIFICATION Spec
CONSTANTS
    k1 = k1
    k2 = k2
    w1 = w1
    w2 = w2
    u1 = u1
    u2 = u2
    u3 = u3
    s1 = s1
    s2 = s2
    c1 = c1
    c2 = c2
    p1 = p1
    p2 = p2
    Keys = {k1, k2}
    Writers = {w1, w2}
    MaxEvents = 3
    MaxTampering = 2
    People = {u1, u2, u3}
    Spaces = {s1, s2}
    Calls = {c1, c2}
    OrgOf <- MCOrgOf
    OrgAdmins = {u1, u3}
    Names = {"x", "y"}
    Puts = {p1, p2}
    Intervals = {"slow", "fast"}
    DefaultInterval = "usual"
    Buckets = {"ip", "account", "off"}
    Limit <- MCLimit
    Window <- MCWindow
    Routes <- MCRoutes
    NoPromise = NoPromise
SYMMETRY Symmetric
INVARIANTS AuditedOrUndone  MembershipsWithinOrg ConfigKept LimiterFair
CHECK_DEADLOCK FALSE
