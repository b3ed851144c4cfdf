\* Two clients take turns with the private connections of a server; the server may
\* refuse a BLPOP, and the proxy an EXEC.
SPECIFICATION Spec
CONSTANTS
    c1 = c1
    c2 = c2
    c3 = c3
    k1 = k1
    k2 = k2
    Client = {c1, c2}
    Private = {k1, k2}
    Shared = Shared
    None = None
    MaxReq = 4
    MaxMsg = 0
    Uses <- UsesDifferent
    Refusable = {"blpop"}
    Deniable = {"exec"}
    ServerFails = FALSE
SYMMETRY Symmetry
INVARIANTS
    Exclusive
    Isolated
    InStep
