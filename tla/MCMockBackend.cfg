SPECIFICATION FairSpec
CONSTANTS
    None = None
    Configs <- MCConfigs
    Chunks <- MCChunks
    Revisions = {1, 2}
    Pullers = {p1, p2}
    MaxEpoch = 1
    MaxSequence = 3
INVARIANTS
    TypeOK
    Lockstep
    QueueTimeline
    ExactlyOnce
    RevisionsFollowFrames
PROPERTIES
    PullsAreFresh
    TimedPullsReturn
    KeepsContract
CHECK_DEADLOCK FALSE
