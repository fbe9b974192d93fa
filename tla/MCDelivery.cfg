SPECIFICATION DeliverySpec
CONSTANTS
    \* PushDelivery
    Sources = {"f", "o"}
    Keys <- OnlyFeeder
    Feeder <- FeederKey
    Conns = {c1}
    NoConn = NoConn
    MaxSessions = 2
    MaxOutstanding = 3
    MaxPerSession = 2
    MaxPerSource = 1
    ResolvedIdle = 0
    HoleAbandonAfter = 0
    PruneEvery = 1
    MaxSeq = 5
    Unpersistable = {}
    Malformed = {1}
    Closing = {2}
    MaxUnforwarded = 1
    OtherSeq = 1
    MaxInFlight = 2
    QueueMax = 3
    OutMax = 1
    MaxFaults = 2
    \* EventStream
    Clients = {r1}
    StreamRecentCap = 2
    SseClientBuffer = 1
    SseReplayNoLast = 1
    SseShare = 1
    MaxPublished = 3
    MaxResets = 1
    MaxRestarts = 1
    MaxConnects = 2
INVARIANTS
    HolesCanHeal
PROPERTIES
    PushedIsAckedOrStuck
    StreamIsHonest
    StreamMovesOn
CHECK_DEADLOCK FALSE
