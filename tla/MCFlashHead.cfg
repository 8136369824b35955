SPECIFICATION FairSpec
CONSTANTS
    None = None
    FrameNum = 4
    VaeStride = 1
    Configs <- MCConfigs
    Chunks <- MCChunks
    Pullers = {p1}
    MaxResets = 2
    MaxSequence = 5
    EndsAt = {1, 5}
    ResetMayTimeout = TRUE
    JoinMayTimeout = FALSE
    MayCrash = TRUE
INVARIANTS
    TypeOK
    EpochFidelity
    VideoFollowsAudio
    AudioAccounted
    WaitsAnswered
PROPERTIES
    QuietAfterClose
    CloseStopsWorker
    ResetComesBack
    QueueDrains
    CrashReachesPulls
    KeepsContract
CHECK_DEADLOCK FALSE
