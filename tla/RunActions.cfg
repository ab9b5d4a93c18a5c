SPECIFICATION RunSpec
CONSTANTS
    p1 = p1
    p2 = p2
    earlier = earlier
    none = none
    Procs <- TwoProcs
    Overlap = FALSE
    MayAge = FALSE
    Catalogs <- SdlcCatalogs
    RunDefId = "sdlc"
    RegisteredGates <- Gates
    ReviewGates <- CodeReviewGates
    Earlier = earlier
    NoRecovery = none
    SinkMayFail = TRUE
INVARIANTS
    EndedRunHoldsNothing
    OneResult
    WorkingStateIsValid
    CompiledFitsTheRunner
PROPERTIES
    RefusalIsJustified
    NoLostUpdate
    PassedIsDurable
    ShapeIsKept
SYMMETRY Symmetry
CHECK_DEADLOCK FALSE
