SPECIFICATION Spec
CONSTANTS
    \* HistorianFlush
    Frames <- SeqFrames
    KeyOf <- SeqKeyOf
    TableOf <- SeqTableOf
    Content <- SeqContent
    Schema <- SchemaNotNull
    NoKey = 0
    QueueMax = 2
    BatchSize = 2
    MaxAttempts = 2
    MaxFaults = 1
    MaxUnknown = 1
    \* Admission
    Observers = {o1, o2}
    Contexts = {x}
    NoContext = NoContext
    Conns = {c1}
    MaxObjects = 2
    MaxPolicies = 1
    MaxSessions = 1
    OutMax = 1
    MaxChanges = 1
    MaxOutages = 1
PROPERTIES
    StopsCleanly
    WithdrawalTakesEffect
CHECK_DEADLOCK FALSE
