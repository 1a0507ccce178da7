SPECIFICATION Spec
CONSTANTS
    p1 = p1
    p2 = p2
    p3 = p3
    o1 = o1
    w1 = w1
    c1 = c1
    c2 = c2
    k2 = k2
    Nodes = {n1}
    Admins = {a1, a2}
    Policies = {p1, p2, p3}
    Orgs = {o1}
    Workspaces = {w1}
    Global = Global
    NoOrg = NoOrg
    OrgOf <- MCOrgOf
    WsOf <- MCWsOf
    Prios = {1, 2}
    Calls = {c1, c2}
    Conditions = {k2}
    Satisfies <- MCSatisfies
    NoCond = NoCond
    NoRow = NoRow
    YamlRules <- MCYaml
    MaxChanges = 2
    MaxFaults = 1
    MaxWsDeletes = 1
CHECK_DEADLOCK FALSE
INVARIANTS FloorHolds UpToDate
