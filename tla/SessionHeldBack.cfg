\* One client with blocking commands; nothing fails.
SPECIFICATION Spec
CONSTANTS
    c1 = c1
    c2 = c2
    c3 = c3
    k1 = k1
    k2 = k2
    Client = {c1}
    Private = {k1, k2}
    Shared = Shared
    None = None
    MaxReq = 3
    MaxMsg = 0
    Uses <- UsesBlocking
    Refusable = {}
    Deniable = {}
    ServerFails = FALSE
SYMMETRY Symmetry
INVARIANTS
    HeldBackDelivered
