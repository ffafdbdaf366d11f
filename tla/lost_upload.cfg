SPECIFICATION Spec
CONSTANTS
    Procs = {q1, q2}
    Paths = {a}
    Kinds = {"upload"}
    Chunks = 1
    MaxOps = 2
    MaxInodes = 5
CHECK_DEADLOCK FALSE
PROPERTIES
    VanishOnRequest
