SPECIFICATION Spec
CONSTANTS
    None = None
    Tasks = {t1, t2}
    MaxCalls = 4
    Overlap = TRUE
    Lossy = FALSE
    Late = FALSE
    Paddings = {0, 140}
SYMMETRY MCTaskSymmetry
INVARIANTS
    InSync
CHECK_DEADLOCK FALSE
