SPECIFICATION Spec
CONSTANTS
    u1 = u1
    u2 = u2
    p1 = p1
    p2 = p2
    p3 = p3
    Users = {u1, u2}
    Pids = {p1, p2, p3}
    NoUser = NoUser
    NoPid = NoPid
    MAX_ENTRIES = 3
    LoginAs <- TwoOfFirst
    Issues <- Background
    FifoCap = 4
    MaxReqs = 1
    MayCrash = FALSE
CHECK_DEADLOCK FALSE
INVARIANTS
    WaiterHasHope
