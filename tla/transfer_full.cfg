SPECIFICATION Spec
CONSTANTS
    u1 = u1
    u2 = u2
    p1 = p1
    p2 = p2
    p3 = p3
    Users = {u1, u2}
    Pids = {p1, p2}
    NoUser = NoUser
    NoPid = NoPid
    MAX_ENTRIES = 1
    LoginAs <- OneEach
    Issues <- SenderAndReceivers
    FifoCap = 1
    MaxReqs = 3
    MayCrash = TRUE
CHECK_DEADLOCK FALSE
INVARIANTS
    TypeOK
    UniqueIds
    TransferInv
PROPERTIES
    RequestLife
    PromiseKept
