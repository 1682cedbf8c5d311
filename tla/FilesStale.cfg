SPECIFICATION Spec
CONSTANTS
    Paths = {a}
    BadNames = {}
    Data = {d1}
    Hole = Hole
    NoFile = NoFile
    NoEntry = NoEntry
    NoJob = NoJob
    Units = 2
    Workers = {w1, w2}
    Coarse = FALSE
    MaxRequests = 2
    MaxEdits = 0
INVARIANT EntryIsOfItsTime
CHECK_DEADLOCK FALSE
