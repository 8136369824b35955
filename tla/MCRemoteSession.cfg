SPECIFICATION Spec
CONSTANTS
    None = None
    Tasks = {t1, t2}
    MaxCalls = 5
    Overlap = FALSE
    Lossy = TRUE
    Late = TRUE
    Paddings = {0, 140}
SYMMETRY MCTaskSymmetry
INVARIANTS
    TypeOK
    InSync
    AcceptedOnce
    ClosedIsClosed
    FramesInOrder
    FramesComplete
PROPERTIES
    KeepsContract
CHECK_DEADLOCK FALSE
