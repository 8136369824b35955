SPECIFICATION Spec
CONSTANTS
    None = None
    Chunks <- MCChunks
    Controls <- MCControls
    Pullers = {p1, p2}
    Modes = {"timed", "untimed"}
    MaxEpoch = 1
SYMMETRY MCPullerSymmetry
INVARIANTS
    TypeOK
    NumberedInOrder
    RevisionsFollowFrames
    UntimedFidelity
PROPERTIES
    KeepsContract
CHECK_DEADLOCK FALSE
