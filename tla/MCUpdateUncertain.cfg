SPECIFICATION RequestsSpec
CONSTANTS
    RequestIds = {r1}
    UpdHistory = 2
    MaxUpdSessions = 1
    MaxUpdReports = 1
    MaxUpdCommands = 2
    MaxTroubles = 1
    Publications = 1
    Versions = 1
    CatalogReads = 0
INVARIANT
    ToldIsDurable
CHECK_DEADLOCK FALSE
