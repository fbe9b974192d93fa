SPECIFICATION FairSpec
CONSTANTS
    Sources = {"f", "o"}
    Keys <- OnlyFeeder
    Feeder <- FeederKey
    Conns = {c1}
    NoConn = NoConn
    MaxSessions = 2
    MaxOutstanding = 3
    MaxPerSession = 2
    MaxPerSource = 1
    ResolvedIdle = 0
    HoleAbandonAfter = 0
    PruneEvery = 1
    MaxSeq = 3
    Unpersistable = {}
    Malformed = {}
    Closing = {}
    MaxUnforwarded = 1
    OtherSeq = 1
    MaxInFlight = 2
    QueueMax = 2
    OutMax = 1
    MaxFaults = 2
PROPERTY
    EverythingAcked
CHECK_DEADLOCK FALSE
