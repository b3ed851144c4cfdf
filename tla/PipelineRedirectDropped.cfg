\* A cluster, under fairness: a request that is redirected to a server whose
\* connection has just failed.
SPECIFICATION FairSpec
CONSTANTS
    c1 = c1
    c2 = c2
    s1 = s1
    s2 = s2
    Client = {c1}
    Server = {s1, s2}
    MaxReq = 1
    Setup = Setup
    PingServ = PingServ
    Asking = Asking
    Handshake <- PingOnly
    Cluster = TRUE
    MaxRedirect = 2
    FailureLimit = 1
    ClientTimeout = FALSE
    ServerTimeout = TRUE
PROPERTIES
    Answered
