SPECIFICATION FairSpec
CONSTANTS
    Procs = {q1, q2}
    Paths = {a, b}
    Kinds = {"read", "upload", "write_at", "delete", "move", "move_into", "create", "copy"}
    Chunks = 2
    MaxOps = 2
    MaxInodes = 6
CHECK_DEADLOCK FALSE
INVARIANTS
    TypeOK
    ReaderStable
    CopyFaithful
    VisibleWhole
    IdleHoldsNothing
PROPERTIES
    OperationEnds
