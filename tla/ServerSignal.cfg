SPECIFICATION FairSpec
CONSTANTS
    Clients = {c1}
    Malformed = {}
    Workers = {w1}
    Fds = {f1}
    NoFd = NoFd
    NoConn = NoConn
    NoTask = NoTask
    Pieces = 1
    RespSize = 1
    SndCap = 1
PROPERTY SignalStopsServer
CHECK_DEADLOCK FALSE
