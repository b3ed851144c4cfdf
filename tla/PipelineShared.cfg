\* Two clients share the connection of one server.
SPECIFICATION Spec
CONSTANTS
    c1 = c1
    c2 = c2
    s1 = s1
    s2 = s2
    Client = {c1, c2}
    Server = {s1}
    MaxReq = 2
    Setup = Setup
    PingServ = PingServ
    Asking = Asking
    Handshake <- PingOnly
    Cluster = FALSE
    MaxRedirect = 1
    FailureLimit = 1
    ClientTimeout = FALSE
    ServerTimeout = FALSE
SYMMETRY Symmetry
INVARIANTS
    InOrder
    Matched
