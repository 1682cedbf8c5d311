SPECIFICATION Spec
CONSTANTS
    Clients = {c1}
    Malformed = {}
    Workers = {w1}
    Fds = {f1}
    NoFd = NoFd
    NoConn = NoConn
    NoTask = NoTask
    Pieces = 1
    RespSize = 2
    SndCap = 1
INVARIANT PeerFailureContained
CHECK_DEADLOCK FALSE
