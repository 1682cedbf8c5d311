SPECIFICATION Spec
CONSTANTS
    g = g
    Groups = {g}
    Users <- TwoUsers
    NoUser = NoUser
    Passwords = {p1, p2}
    NoPassword = NoPassword
    SessionIds = {s1, s2}
    NoSession = NoSession
    Workers = {w1, w2}
    Main = Main
    NoJob = NoJob
    TailLength = 3
    OpenMayFail = TRUE
    MaxRequests = 3
    MaxRestarts = 1
SYMMETRY AccountSymmetry
INVARIANTS
    TypeOK
    SessionsAreOfUsers
    FileWasTrue
    SerialSavesAreComplete
PROPERTIES
    AccountsChangeByTheirPassword
    SessionsEndByTheirCookie
    AccountsAreAStore
CHECK_DEADLOCK FALSE
