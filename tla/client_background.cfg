SPECIFICATION FairSpec
CONSTANTS
    Kids = {k1, k2, k3}
    PipeCap = 2
    MaxKeys = 4
    MaxFrames = 1
    NameLens = {8, 4000}
CHECK_DEADLOCK FALSE
INVARIANTS
    TypeOK
    Counted
    ExitMeansDone
PROPERTIES
    ExitPermitted
    KidEnds
    KidReaped
