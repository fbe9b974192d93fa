SPECIFICATION Spec
CONSTANTS
    Sources = {"f", "o"}
    Keys <- BothKeys
    Feeder <- FeederKey
    Conns = {c1, c2}
    NoConn = NoConn
    MaxSessions = 1
    MaxOutstanding = 4
    MaxPerSession = 1
    MaxPerSource = 1
    ResolvedIdle = 0
    HoleAbandonAfter = 1
    PruneEvery = 1
    MaxSeq = 3
    Unpersistable = {}
    Malformed = {1}
    Closing = {3}
    MaxUnforwarded = 1
    OtherSeq = 1
    MaxInFlight = 2
    QueueMax = 1
    OutMax = 1
    MaxFaults = 2
SYMMETRY Symmetry
INVARIANTS
    AckedIsDurable
    PathIsSound
PROPERTY
    ImplementsDelivery
