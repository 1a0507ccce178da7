\* Two scanners, two scans, room for one result.
SPECIFICATION ScanFairSpec
CONSTANTS
    Specs <- MCScanners
    DropOrder <- MCDropOrder
    MaxReportSize = 1
    MaxCycles = 2
INVARIANTS
    OkIsTheWholeResult
    OneRunPerScanner
PROPERTIES
    SentReportIsFinal
    EveryScanReports
