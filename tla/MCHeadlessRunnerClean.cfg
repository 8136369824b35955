SPECIFICATION RunnerSpec
CONSTANTS
    None = None
    FrameNum = 4
    VaeStride = 1
    Configs <- MCConfigs
    Chunks <- MCChunks
    Pullers = {consumer}
    MaxResets = 1
    ResetMayTimeout = FALSE
    JoinMayTimeout = FALSE
    MayCrash = TRUE
    Durations = {40, 60, 90, 120, 140}
    StillFrames = {2, 3}
    ModelType = "pro"
    LateMs = {0, 30, 60}
INVARIANTS
    PassMeansClean
CHECK_DEADLOCK FALSE
