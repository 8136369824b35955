SPECIFICATION Spec
CONSTANTS
    None = None
    Chunks <- MCChunks
    Controls <- MCControls
    Pullers = {p1, p2}
    Modes = {"timed"}
    MaxEpoch = 1
SYMMETRY MCPullerSymmetry
INVARIANTS
    EpochFidelity
CHECK_DEADLOCK FALSE
