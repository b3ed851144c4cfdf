\* Three clients with a blocking command; connections fail.
SPECIFICATION Spec
CONSTANTS
    c1 = c1
    c2 = c2
    c3 = c3
    k1 = k1
    k2 = k2
    Client = {c1, c2, c3}
    Private = {k1, k2}
    Shared = Shared
    None = None
    MaxReq = 3
    MaxMsg = 0
    Uses <- UsesQueue
    Refusable = {}
    Deniable = {}
    ServerFails = TRUE
SYMMETRY Symmetry
INVARIANTS
    OneClient
