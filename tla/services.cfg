SPECIFICATION ServicesSpec
CONSTANTS
    Ids = {i1, i2}
    RingSize = 16
    MaxLines = 6
    Threads = {t1, t2, t3, t4}
    PoolSize = 2
    WaitTicks = 1
    MaxWoken = 1
    Rotators = {r1, r2}
    Requests = {q1}
    Overlap = 1
    MaxKeys = 2
    MaxVersion = 3
    MaxTime = 2
    Images = {m1, m2}
    ImageConfigs <- Configs
    IdleTimeout = 1
    NsfwThreshold = 50
    NsfwOutputs <- Verdicts
    Tiles = 1
    Counters = {n1, n2}
    Profiles = {TRUE, FALSE}
    Prewarm = TRUE
    MaxCount = 2
    Checks = {c1, c2}
    MaxTurns = 2
    MaxStarts = 2
    MaxFailures = 1
    Numbers = {card}
    Names = {ann}
    Merging = TRUE
    MaxTalks = 2
    MaxSize = 2
    MaxRotations = 2
    Memories = {100, 1536, 3584}
    PoolSizes = {0, 2}
INVARIANTS
    ServicesTypeOK
    SessionsConserved
    NoSleeperForgotten
    VersionsNameKeys
    HeldEngineIsKept
    VisibleTextWasRead
    RestartTellsTheTruth
    ConversationHolds
    BackendServes
PROPERTIES
    RestartReportIsTrue
    SkippedMeansFailed
    ModelsAreReleased
    StoppedStaysDisabled
    BeatFollowsProxy
CHECK_DEADLOCK FALSE
