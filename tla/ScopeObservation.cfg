SPECIFICATION Spec
CONSTANTS
    Paths <- SourceAndNotes
    DocPaths = {"notes"}
    OwnPaths = {}
    Contents <- SourceContents
    Alike <- SameContent
    BaseTrees <- SourceTrees
    MaxEdits = 4
    MaxAttestations = 2
INVARIANTS
    BaseWasSynchronized
    AbsentScopeIsWhole
    StaleBaseIsReal
    QuietAnswer
CHECK_DEADLOCK FALSE
