CONSTANTS
    Clients = {c1, c2}
    Fds = {f1}
    MaxRequests = 1
    Frags = 1
    QueueCapacity = 1
    MaxClock = 1
    ReadTimeout = 0
    Hangups = {"fin"}
    SlowClients = {}
    AddMayFail = FALSE
    TasksMayFail = FALSE
    Pieces = 1
    NoClient = NoClient
    NoConn = NoConn
    NoReq = NoReq
SPECIFICATION Safety
INVARIANTS
    NoMovedParserRead
