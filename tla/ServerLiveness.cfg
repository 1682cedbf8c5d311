SPECIFICATION FairSpec
CONSTANTS
    Clients = {c1, c2}
    Malformed = {c2}
    Workers = {w1}
    Fds = {f1}
    NoFd = NoFd
    NoConn = NoConn
    NoTask = NoTask
    Pieces = 2
    RespSize = 2
    SndCap = 1
INVARIANTS
    NoResponseCut
PROPERTIES
    AnsweredOnce
    EventuallyAnswered
    HungUpIsClosed
CHECK_DEADLOCK FALSE
