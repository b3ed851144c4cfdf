\* One client and one server that may never answer, under fairness.
SPECIFICATION FairSpec
CONSTANTS
    c1 = c1
    c2 = c2
    s1 = s1
    s2 = s2
    Client = {c1}
    Server = {s1}
    MaxReq = 2
    Setup = Setup
    PingServ = PingServ
    Asking = Asking
    Handshake <- PingOnly
    Cluster = FALSE
    MaxRedirect = 1
    FailureLimit = 2
    ClientTimeout = TRUE
    ServerTimeout = TRUE
PROPERTIES
    Answered
    LoopReturns
