SPECIFICATION Spec
CONSTANTS
    Client = {c1}
    RequestID = {q1, q2, q3, q4}
    Capacity = 2
    NotLoading = NotLoading
    FloorReadMayFail = FALSE
    MaxRevision = 4
SYMMETRY Symmetry
INVARIANTS
    TypeOK
    NoSilentGap
    ConnectedMeansComplete
    InOrderOnce
