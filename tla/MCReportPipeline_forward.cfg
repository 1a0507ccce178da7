\* Two agents, one key, no static key; two reports in one batch, one retry.
SPECIFICATION PipelineFairSpec
CONSTANTS
    a1 = a1
    a2 = a2
    Agents <- MCAgents
    AgentOfKey <- MCAgentOfKey
    Keys = {k1}
    NoKey = NoKey
    StaticKey = NoKey
    BatchSize = 2
    MaxAttempts = 1
    MaxReports = 2
    MaxOverlap = 2
    MaxFailures = 1
INVARIANTS
    NothingVanishes
    StoredTruthfully
PROPERTIES
    MetadataKept
    EveryRowLeaves
