SPECIFICATION Spec
CONSTANTS
    None = None
    FrameNum = 4
    VaeStride = 1
    Configs <- MCConfigs
    Chunks <- MCChunks
    Pullers = {p1}
    MaxResets = 2
    MaxSequence = 8
    EndsAt = {}
    ResetMayTimeout = TRUE
    JoinMayTimeout = FALSE
    MayCrash = FALSE
INVARIANTS
    PtsContinuous
CHECK_DEADLOCK FALSE
