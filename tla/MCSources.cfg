SPECIFICATION Spec
CONSTANTS
    \* EpochChecks
    WeekLength = 10
    EpochGap = 1
    PVWindow = 2
    PVSlack = 0
    DriftWindow = 2
    DriftMinEpochs = 2
    MeanLimit = 1
    ReferenceAge = 3
    SpeedLimit = 1
    SegmentGap = 2
    ClockMinWindow = 2
    ClockMaxWindow = 3
    ClockLimit = 1
    Millisecond = 10
    SurveySpan = 2
    SurveySamples = 3
    Noise = 1
    JumpSize = 7
    MaxSilence = 2
    MaxLate = 2
    MaxBogus = 1
    \* Detector
    Watched = {"health","eph_age","orbit_disco","sisa","wn","bds_integrity","silence","position","xsig","sbas_silence","sbas_health","jamming","antenna","rf_degraded","offline","cap_lost","cap_impossible","spoofing","assurance","environment_health","environment_change","regional_pressure","reference_orbit"}
    Debounce = 3
    StationClearDwell = 5
    MaxElapsed = 2
    MaxLostRounds = 1
    \* Assurance
    FilterM = 2
    FilterN = 3
    RecoveryHold = 5
    StaleAfter = 2
    MaxPause = 3
    FusedChecks <- Checks
    \* FeederSpool
    RingCap = 1
    DiskCap = 2
    MaxReplayFiles = 2
    MaxRecords = 3
    MaxRuns = 3
    MaxSpoolFaults = 1
    \* DialSource
    BackoffMax = 4
    IdleTimeout = 2
    FrameSilence = 3
    UsefulAfter = 2
    DecodeQueue = 1
    DialCap = 6
    \* EnvironmentChecks
    EnvReports <- MCEnvReports
    Departure = 6
    SteepRate = 3
    Disagreement = 4
    BaselineWindow = 2
    BaselineMinAge = 1
    BaselineMinSamples = 2
    PersistenceWindow = 3
    PersistenceMinAge = 2
    RateMin = 1
    RateMax = 1
    FlatlineAfter = 2
    FlatlineMinSamples = 3
    MaxEnvBoots = 2
    LastEnvReport = 5
    \* EnvironmentChecks, pressure
    Stations = {"p", "q", "n"}
    Disturbed = {"n"}
    InRadius <- MCInRadius
    PressureWindow = 1
    MaxTimeSkew = 0
    SampleMaxAge = 1
    SolutionMaxSkew = 1
    MinNeighbours = 2
    RateUnit = 2
    PressureNoise = 0
    HeightNoise = 1
    ModelUncertainty = 1
    RegionalDeparture = 2
    MaxRegionalSpread = 3
    BandSigmas = 3
    BandMin = 4
    BandMax = 12
    Weather = 3
    Disturbances = {0, 5}
    SensorOffset = 20
    Jump = 20
    Tracking = {"p"}
    MaxUpsets = 1
    MaxPressures = 6
    MaxSolutions = 2
    LastPressure = 2
    \* LearnedReferences, power
    PowerSvs = {g1}
    Cn0s = {10, 30}
    PowerHistory = 3
    PowerSupport = 2
    PowerDeviation = 6
    PowerMad = 2
    PassSamples = 2
    MaxPass = 3
    MaxPowerEpoch = 1
    MaxPowerRuns = 2
    \* LearnedReferences, agc
    Clear = 12
    Ramp = 8
    Jam = 0
    LearnBand = 4
    AgcMinute = 1
    MinSamples = 1
    MaxSamples = 1
    Warmup = 2
    AgcWindow = 3
    Drift = 2
    RelearnAfter = 2
    RestoreAge = 2
    AgeCap = 7
    MaxAgcRestarts = 1
    \* ReceptionChecks
    Gnss = {"gps", "gal"}
    PowerEntries = {1, 2}
    PowerGnss = "gps"
    MinExpected = 1
    MinMissing = 1
    MissingPercent = 60
    FcEvery = 2
    FcKeep = 2
    FcLife = 2
    FreshTicks = 1
    AheadTicks = 0
    AlarmDwell = 2
    ClearDwell = 1
    RequestLife = 2
    Ids = {1, 2}
    RcTicks = 3
    RcSessions = 2
INVARIANTS
    EpochsAreSound
    AssuranceIsSound
    DialIsSound
    EnvironmentIsSound
PROPERTIES
    DetectorIsSound
    SpoolIsSound
    ReferencesAreSound
    ReceptionIsSound
CHECK_DEADLOCK FALSE
