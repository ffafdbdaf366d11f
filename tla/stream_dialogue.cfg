SPECIFICATION FairSpec
CONSTANTS
    MaxCmds = 3
    MaxData = 2
    MaxNotes = 1
    ChanCap = 2
    NotifyFails = TRUE
    Strangers = TRUE
    Lines <- SomeLines
CHECK_DEADLOCK FALSE
INVARIANTS
    InStep
    SuccessIsWhole
PROPERTIES
    Answered
    GoneClosed
