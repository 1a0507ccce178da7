\* Three changes on the servers, four faults.
SPECIFICATION FairSpec
CONSTANTS
    Ids = {a1, a2}
    Scanners <- MCScanners
    Paths <- MCPaths
    Sizes = {1, 2, 3}
    Known <- MCKnown
    Configs <- MCConfigs
    Valid <- MCValid
    Legacy <- MCLegacy
    Local <- MCLocal
    Unset = Unset
    None = None
    Bad = Bad
    MaxChanges = 3
    MaxFaults = 4
INVARIANT WithdrawnStaysAway
PROPERTY Converges
