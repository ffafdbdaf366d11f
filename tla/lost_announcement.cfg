SPECIFICATION Spec
CONSTANTS
    u1 = u1
    u2 = u2
    p1 = p1
    p2 = p2
    p3 = p3
    Users = {u1, u2}
    Pids = {p1, p2}
    NoUser = NoUser
    NoPid = NoPid
    MAX_ENTRIES = 2
    LoginAs <- OneEach
    Issues <- SenderAndReceivers
    FifoCap = 4
    MaxReqs = 1
    MayCrash = FALSE
CHECK_DEADLOCK FALSE
INVARIANTS
    PendingAnnounced
