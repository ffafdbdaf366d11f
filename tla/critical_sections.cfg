SPECIFICATION FairSpec
CONSTANTS
    u1 = u1
    u2 = u2
    p1 = p1
    p2 = p2
    Users = {u1, u2}
    Pids = {p1, p2}
    NoUser = NoUser
    NoPid = NoPid
    MAX_ENTRIES = 2
    Calls <- AllCalls
    MaxReqs = 2
    MaxKills = 1
CHECK_DEADLOCK FALSE
INVARIANTS
    OneInside
    SemConserved
    KillsCost
PROPERTIES
    SectionsAtomic
    LockGranted
