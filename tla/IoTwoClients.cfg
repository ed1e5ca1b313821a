CONSTANTS
    Clients = {c1, c2}
    Fds = {f1, f2}
    MaxRequests = 1
    Frags = 1
    QueueCapacity = 1
    MaxClock = 1
    ReadTimeout = 0
    Hangups = {"fin"}
    SlowClients = {}
    AddMayFail = TRUE
    TasksMayFail = TRUE
    Pieces = 1
    NoClient = NoClient
    NoConn = NoConn
    NoReq = NoReq
SPECIFICATION Safety
SYMMETRY Interchangeable
INVARIANTS
    ConnectionTable
    NoForgottenBacklog
    NoUnseenResponse
    AnswersInOrder
    OneShotShield
    TimeoutListExact
PROPERTIES
    ImplementsHttpService
    IdleReaped
    ExecutingKept
