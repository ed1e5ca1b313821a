CONSTANTS
    Clients = {c1}
    Fds = {f1}
    MaxRequests = 2
    Frags = 2
    QueueCapacity = 1
    MaxClock = 0
    ReadTimeout = 0
    Hangups = {"fin", "rst"}
    SlowClients = {c1}
    AddMayFail = FALSE
    TasksMayFail = TRUE
    Pieces = 2
    NoClient = NoClient
    NoConn = NoConn
    NoReq = NoReq
SPECIFICATION Spec
INVARIANTS
    NeverDeaf
    ExemptionEnds
    DrainDelivers
PROPERTIES
    ImplementsHttpService
    RequestAnswered
    ShutdownEnds
