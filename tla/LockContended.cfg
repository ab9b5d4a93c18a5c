SPECIFICATION FairSpec
CONSTANTS
    p1 = p1
    p2 = p2
    p3 = p3
    Procs <- ThreeProcs
    Overlap = TRUE
    MayAge = TRUE
INVARIANTS
    FreshLockIsHeld
PROPERTIES
    AcquisitionEnds
CHECK_DEADLOCK FALSE
