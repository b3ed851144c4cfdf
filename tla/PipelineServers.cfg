\* One client whose requests go to two servers, which need a password and answer
\* out of step.
SPECIFICATION Spec
CONSTANTS
    c1 = c1
    c2 = c2
    s1 = s1
    s2 = s2
    Client = {c1}
    Server = {s1, s2}
    MaxReq = 2
    Setup = Setup
    PingServ = PingServ
    Asking = Asking
    Handshake <- SetupAndPing
    Cluster = FALSE
    MaxRedirect = 1
    FailureLimit = 1
    ClientTimeout = TRUE
    ServerTimeout = TRUE
SYMMETRY Symmetry
INVARIANTS
    TypeOK
    NotLost
    NoStall
PROPERTIES
    ServiceSpec
