SPECIFICATION Spec
CONSTANTS
    \* FeedServing
    Requests = {r1, r2}
    RenderTries = 2
    MaxWithdrawals = 1
    MaxRefreshes = 1
    MaxEncodeFails = 1
    \* AudienceViews
    MaxDynamicViews = 1
    DecodeChannel = 2
    MaxFrames = 2
    MaxPanics = 1
    \* FirmwareUpdates, requests
    RequestIds = {r1, r2}
    UpdHistory = 2
    MaxUpdSessions = 2
    MaxUpdReports = 2
    MaxUpdCommands = 3
    MaxTroubles = 2
    \* FirmwareUpdates, catalog
    Publications = 3
    Versions = 2
    CatalogReads = 1
    \* FleetReports
    ReportBoards = {r1, r2, b3}
    Odd = {b3}
    MaxBoards = 2
    StartDelay = 0
    Jitter = 0
    SampleEvery = 2
    Interval = 3
    FirstRetry = 1
    MaxRetry = 2
    RequestTimeout = 1
    MaxReceipts = 2
    MaxReportRuns = 2
    LastMinute = 3
    \* PreAuth
    Conns = {r1, r2}
    Addresses = {a1, a2}
    PreAuthSlots = 2
    FleetSlots = 1
    PerAddress = 1
    Burst = 1
    Rate = 1
    LogLines = 1
    LogWindow = 2
    MaxTracked = 1
    PreAuthTicks = 2
SYMMETRY Symmetry
INVARIANTS
    ViewsAreSound
    ReportsAreSound
    PreAuthIsSound
PROPERTIES
    FeedIsSound
    UpdatesAreSound
CHECK_DEADLOCK FALSE
