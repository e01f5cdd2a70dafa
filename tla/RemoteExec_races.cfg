SPECIFICATION FairSpec
CONSTANTS
    c1 = c1  c2 = c2  k1 = k1  k2 = k2
    Anyone = Anyone  Client <- OneClient
    Conns = {c1, c2}  Tui = {c1}
    Calls = {k1, k2}
    Target <- FirstTarget
    Capable <- SplitCapable
    Strict = {k1}
    Streaming = {k2}
    MaxChunks = 1
INVARIANTS TypeOK SessionOutlivesCall AnsweredRanOnce  AcceptedOutputShown
PROPERTIES CallsReturn DisconnectsFinish
CHECK_DEADLOCK FALSE
