SPECIFICATION Spec
CONSTANTS
    \* EventPipeline
    ScopedModes = {TRUE, FALSE}
    EventPendingMax = 2
    EventAttempts = 2
    SseRecentCap = 1
    MaxEvents = 3
    MaxChanges = 1
    MaxDbFaults = 1
    MaxCrashes = 1
    MaxDisturbances = 2
    \* HardwareTrust
    Boards = {b1}
    TrustSessions = {s1}
    KeepsState = TRUE
    RequireEntry = TRUE
    UnverifiedBound = 1
    MaxEditions = 3
    MaxFileChanges = 2
    MaxStarts = 2
    MaxWriteFaults = 1
    \* NavAssembly
    Signals <- NavSignals
    IodSpace = 2
    ClockStale = 1
    TrustAge = 3
    ServeCap = 0
    HalfWeek = 3
    \* GlonassAssembly
    GloSlack = 0
    GloTrust = 1
    GloMaxTk = 1
    GloCap = 1
    GloTicks = 3
INVARIANTS
    PipelineIsSound
    
PROPERTIES
    TrustIsSound
    GlonassIsSound
CHECK_DEADLOCK FALSE
