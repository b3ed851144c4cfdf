\* A request is redirected between the two nodes of a cluster.
SPECIFICATION Spec
CONSTANTS
    c1 = c1
    c2 = c2
    s1 = s1
    s2 = s2
    Client = {c1}
    Server = {s1, s2}
    MaxReq = 1
    Setup = Setup
    PingServ = PingServ
    Asking = Asking
    Handshake <- SetupAndPing
    Cluster = TRUE
    MaxRedirect = 1
    FailureLimit = 1
    ClientTimeout = FALSE
    ServerTimeout = FALSE
SYMMETRY Symmetry
INVARIANTS
    QueuedOnce
    HandshakeFirst
    AskingAdjacent
