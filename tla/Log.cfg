SPECIFICATION FairSpec
CONSTANTS
    Threads = {t1, t2}
    Nobody = Nobody
    OpenMayFail = TRUE
    MaxDay = 2
    MaxCalls = 2
INVARIANTS
    TypeOK
    LineInAFileOfItsCall
    LinesInOrder
PROPERTIES
    PastFilesAreClosed
    CallsReturn
CHECK_DEADLOCK FALSE
