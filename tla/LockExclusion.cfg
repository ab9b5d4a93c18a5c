SPECIFICATION Spec
CONSTANTS
    p1 = p1
    p2 = p2
    p3 = p3
    Procs <- TwoProcs
    Overlap = TRUE
    MayAge = FALSE
INVARIANTS
    MutualExclusion
CHECK_DEADLOCK FALSE
