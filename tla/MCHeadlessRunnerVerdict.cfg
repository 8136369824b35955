SPECIFICATION RunnerSpec
CONSTANTS
    None = None
    FrameNum = 4
    VaeStride = 1
    Configs <- MCConfigs
    Chunks <- MCChunks
    Pullers = {consumer}
    MaxResets = 1
    ResetMayTimeout = FALSE
    JoinMayTimeout = FALSE
    MayCrash = FALSE
    Durations = {40, 60, 90, 120, 140}
    StillFrames = {2, 3}
    ModelType = "lite"
    LateMs = {0, 30, 60}
PROPERTIES
    PassExitsZero
CHECK_DEADLOCK FALSE
