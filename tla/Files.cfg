SPECIFICATION Spec
CONSTANTS
    Paths = {a}
    BadNames = {b}
    Data = {d1, d2}
    Hole = Hole
    NoFile = NoFile
    NoEntry = NoEntry
    NoJob = NoJob
    Units = 2
    Workers = {w1, w2}
    Coarse = TRUE
    MaxRequests = 3
    MaxEdits = 1
SYMMETRY FileSymmetry
INVARIANTS
    TypeOK
    UncontestedUploadIsIntact
PROPERTY CleanHitIsCurrent
CHECK_DEADLOCK FALSE
