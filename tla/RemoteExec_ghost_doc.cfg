SPECIFICATION Spec
CONSTANTS
    c1 = c1  c2 = c2  k1 = k1  k2 = k2
    Anyone = Anyone  Client <- OneClient
    Conns = {c1}  Tui = {c1}
    Calls = {k1, k2}
    Target <- AnyTarget
    Capable <- AllCapable
    Strict = {}
    Streaming = {k1, k2}
    MaxChunks = 1
INVARIANTS SessionsAreActive
CHECK_DEADLOCK FALSE
