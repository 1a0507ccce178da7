SPECIFICATION Spec
CONSTANTS
    Tools = {"t1", "t2"}
    Names = {"n1", "n2", "n3"}
    InitTools <- TheTools
    Definitions <- TheDefinitions
    Runs = {"r1"}
    MaxSteps = 4
    MaxEdits = 2
    MaxFaults = 1
INVARIANTS
    
    ExtractedFromNamedStep
    
    ProviderGoverned
PROPERTIES
    RunEnds
CHECK_DEADLOCK FALSE
