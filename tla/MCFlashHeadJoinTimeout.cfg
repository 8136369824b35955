SPECIFICATION FairSpec
CONSTANTS
    None = None
    FrameNum = 4
    VaeStride = 1
    Configs <- MCConfigs
    Chunks <- MCChunks
    Pullers = {p1}
    MaxResets = 0
    MaxSequence = 4
    EndsAt = {4}
    ResetMayTimeout = FALSE
    JoinMayTimeout = TRUE
    MayCrash = FALSE
PROPERTIES
    CloseStopsWorker
CHECK_DEADLOCK FALSE
