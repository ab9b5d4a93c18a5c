SPECIFICATION FairSpec
CONSTANTS
    h = h
    Helpers <- OneHelper
INVARIANTS
    UnflaggedIsUntouched
    TerminatedIsNoVerdict
    OutputIsComplete
PROPERTIES
    GroupIsKilled
    ExecutionSettles
CHECK_DEADLOCK FALSE
