SPECIFICATION FairSpec
CONSTANTS
    Pids = {p1, p2}
    Users = {ann, ftp}
    Foreign = {ftp}
    MaxRuns = 2
    MaxSignals = 1
CHECK_DEADLOCK FALSE
INVARIANTS
    TypeOK
    IdleIdentity
    SessionFifo
    SemaphoreKept
    HomeOnce
PROPERTIES
    StopEndsAll
