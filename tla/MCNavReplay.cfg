SPECIFICATION NavSpec
CONSTANTS
    Signals <- CnavSignals
    IodSpace = 2
    ClockStale = 1
    TrustAge = 3
    ServeCap = 0
    HalfWeek = 3
INVARIANT
    SetIsRecent
CHECK_DEADLOCK FALSE
