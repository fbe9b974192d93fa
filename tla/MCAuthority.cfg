SPECIFICATION Spec
CONSTANTS
    \* Admission
    Observers = {o1}
    Contexts = {x, y}
    NoContext = NoContext
    Conns = {c1, c2}
    MaxObjects = 1
    MaxPolicies = 1
    MaxSessions = 1
    OutMax = 2
    MaxChanges = 1
    MaxOutages = 0
    \* AuthorizationCache
    Callers = {c1, c2}
    ReadCredentials = {r1}
    ObserverCredentials = {o1}
    GrantTTL = 1
    DenialTTL = 1
    GrantLimit = 1
    DenialLimit = 1
    QuerySlots = 1
    LookupTimeout = 1
    MaxCommits = 1
    MaxListenFaults = 1
    \* ControlPlane
    Operators = {c1, c2}
    BoardStations = {b1}
    SoftStations = {s1}
    Serials = {x1, x2}
    Revisions = {x, y}
    MaxGeneration = 2
    MaxRegistry = 2
    WithdrawnFrom = 2
    MaxEnrollments = 2
    \* ControlPlane, keys
    ControlProcesses = {q1, q2}
    Operationals = {a1, a2}
    Issuers = {k1}
    Manufacturers = {m1}
    ReadDigests = {d1}
    MaxCertified = 1
SYMMETRY Symmetry
INVARIANTS
    MarkersInOrder
PROPERTIES
    StaleLookupNeverWins
    CacheIsSound
    EnrollmentsAreSound
    KeysAreSound
CHECK_DEADLOCK FALSE
