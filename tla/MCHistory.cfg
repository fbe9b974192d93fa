SPECIFICATION StoredSpec
CONSTANTS
    \* ReceiptLedger
    Sources = {"o1", "o2"}
    Keys <- MCKeys
    MaxSessions = 2
    MaxOutstanding = 2
    MaxPerSession = 2
    MaxPerSource = 1
    ResolvedIdle = 0
    HoleAbandonAfter = 1
    PruneEvery = 1
    MaxSeq = 2
    \* HistorianFlush
    Frames <- MCFrames
    KeyOf <- MCKeyOf
    TableOf <- MCTableOf
    Content <- MCContent
    Schema <- SchemaOK
    NoKey = 0
    QueueMax = 2
    BatchSize = 3
    MaxAttempts = 2
    MaxFaults = 1
    MaxUnknown = 0
    \* HistoryReads
    Handlers = {h1}
    HistorySlots = 1
    PerPrincipal = 1
    PageLimit = 2
    PageBytes = 3
    SampleBytes = 2
    MaxOffset = 2
    MaxWindow = 2
    DefaultWindow = 1
    Sinces = {0, 1}
    Untils = {0, 2}
    MaxNow = 2
    MaxRows = 2
    MaxBoundaries = 1
    MaxGrantChanges = 1
    \* StoreSweeps, evidence
    EventTimes = {1, 2}
    PreRoll = 1
    PostRoll = 1
    Horizon = 2
    CaptureBatch = 1
    KeepSamples = 2
    KeepRaw = 3
    EvidencePage = 1
    LastInstant = 4
    \* StoreSweeps, ledger
    Seqs = {1, 2}
    RowRetention = 2
    MaxSessionKeys = 2
INVARIANTS
    TypeOK
    Accounting
    Budgets
    WatermarkBelowOpen
    OneFate
    EvidenceIsComplete
    ReplayIsRecognised
PROPERTIES
    ForgettingNeverAcks
    HistoryIsHonest
CHECK_DEADLOCK FALSE
