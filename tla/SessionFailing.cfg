\* One client uses all commands; connections fail and commands are refused.
\* The program may crash (PostConnect): then nothing follows.
SPECIFICATION Spec
CONSTANTS
    c1 = c1
    c2 = c2
    c3 = c3
    k1 = k1
    k2 = k2
    Client = {c1}
    Private = {k1, k2}
    Shared = Shared
    None = None
    MaxReq = 3
    MaxMsg = 1
    Uses <- UsesAny
    Refusable = {"get", "blpop", "multi", "exec"}
    Deniable = {"get", "watch", "exec"}
    ServerFails = TRUE
CHECK_DEADLOCK FALSE
SYMMETRY Symmetry
INVARIANTS
    TypeOK
    BlockedByRequest
    NotLost
