SPECIFICATION Spec
CONSTANTS
    g = g
    Groups = {g}
    Users <- TwoUsers
    NoUser = NoUser
    Passwords = {p1}
    NoPassword = NoPassword
    SessionIds = {s1, s2}
    NoSession = NoSession
    Workers = {w1, w2}
    Main = Main
    NoJob = NoJob
    TailLength = 135
    OpenMayFail = FALSE
    MaxRequests = 2
    MaxRestarts = 0
INVARIANT QuiescentFileIsCurrent
CHECK_DEADLOCK FALSE
