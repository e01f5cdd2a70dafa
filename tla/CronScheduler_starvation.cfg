CONSTANTS
    j1 = j1
    j2 = j2
    c1 = c1
    c2 = c2
    NoJob = NoJob
    None = None
    Jobs = {j1, j2}
    Callers = {}
    Schedules <- MCWithZero
    MaxTime = 2
    QueueCap = 1
    MaxCrashes = 1
SPECIFICATION LoadedSpec
PROPERTY DueJobsRun
CHECK_DEADLOCK FALSE
