SPECIFICATION FairSpec
CONSTANTS
    t1 = t1  t2 = t2  c1 = c1
    main = main  agent = agent
    NoSession = NoSession  None = None
    Turns = {t1, t2}
    Clients = {c1}
    Key <- OneKey
    Agent <- OneAgent
    MaxSessions = 2
    MaxFaults = 1
INVARIANTS TypeOK LimitKept OneSessionPerKey UncontendedKept UncontendedCoherent
PROPERTIES TableSpec RequestsEnd
CHECK_DEADLOCK FALSE
