CONSTANTS
    j1 = j1
    j2 = j2
    c1 = c1
    c2 = c2
    NoJob = NoJob
    None = None
    Jobs = {j1}
    Callers = {c1, c2}
    Schedules <- MCOneShots
    MaxTime = 1
    QueueCap = 1
    MaxCrashes = 1
SPECIFICATION Spec
SYMMETRY CallerSymmetry
INVARIANTS
    TypeOK
    
    OneShotFiresOncePerLife
    
    UncontendedRemovalIsFinal
CHECK_DEADLOCK FALSE
