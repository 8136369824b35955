SPECIFICATION Spec
CONSTANTS
    None = None
    Clients = {c1, c2}
    Names = {n1, None}
    MaxSessions = 2
    MaxCalls = 5
    Lossy = TRUE
    Late = TRUE
SYMMETRY MCClientSymmetry
INVARIANTS
    TypeOK
    OwnSession
    ActiveBounded
    NoOrphan
CHECK_DEADLOCK FALSE
