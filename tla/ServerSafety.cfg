SPECIFICATION Spec
CONSTANTS
    Clients = {c1, c2}
    Malformed = {}
    Workers = {w1, w2}
    Fds = {f1, f2}
    NoFd = NoFd
    NoConn = NoConn
    NoTask = NoTask
    Pieces = 2
    RespSize = 1
    SndCap = 1
SYMMETRY ServerSymmetry
INVARIANTS
    TypeOK
    OneDriver
    NoConnectionStranded
    DescriptorsOwned
    EventFindsItsConnection
    NoClientForgotten
CHECK_DEADLOCK FALSE
