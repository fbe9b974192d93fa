SPECIFICATION Spec
CONSTANTS
    Sources = {"f", "o"}
    Keys <- BothKeys
    Feeder <- FeederKey
    Conns = {c1, c2}
    NoConn = NoConn
    MaxSessions = 2
    MaxOutstanding = 2
    MaxPerSession = 2
    MaxPerSource = 1
    ResolvedIdle = 0
    HoleAbandonAfter = 1
    PruneEvery = 1
    MaxSeq = 3
    Unpersistable = {}
    Malformed = {1}
    Closing = {}
    MaxUnforwarded = 2
    OtherSeq = 2
    MaxInFlight = 2
    QueueMax = 1
    OutMax = 1
    MaxFaults = 0
INVARIANT
    AckedIsDurable
