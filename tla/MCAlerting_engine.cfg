\* Two rules, two requests of operators, two faults.
SPECIFICATION FairSpec
CONSTANTS
    Rules = {r1, r2}
    Metrics = {"failed_delivery_count"}
    Values = {0, 1}
    Thresholds = {0}
    HasCollector = TRUE
    MaxEdits = 2
    MaxFaults = 2
INVARIANTS
    OneOpenAlertPerRule
    NotifiedTruthfully
PROPERTIES
    FiringRuleAlerts
