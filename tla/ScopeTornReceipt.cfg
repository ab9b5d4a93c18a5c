SPECIFICATION Spec
CONSTANTS
    Paths <- SourceAndState
    DocPaths = {}
    OwnPaths = {"state"}
    Contents <- StateContents
    Alike <- SameContent
    BaseTrees <- StateTrees
    MaxEdits = 3
    MaxAttestations = 2
INVARIANTS
    ReceiptCoversScope
CHECK_DEADLOCK FALSE
