SPECIFICATION Spec
CONSTANTS
    MaxCmds = 3
    MaxData = 2
    MaxNotes = 2
    ChanCap = 2
    NotifyFails = TRUE
    Strangers = TRUE
    Lines <- WithOverseek
CHECK_DEADLOCK FALSE
INVARIANTS
    InStep
