SPECIFICATION FairSpec
CONSTANTS
    a = a  b = b  r1 = r1  m1 = m1  m2 = m2
    None = None
    Agents = {a, b}
    Requests = {r1}
    Admins = {m1, m2}
    Exposed = {a}
    WithMcp = {b}
    MaxDepth = 2
    MaxCalls = 2
INVARIANTS TypeOK CountedAgentsStay  ExposedAgentsListed
PROPERTY AllReturn
CHECK_DEADLOCK FALSE
