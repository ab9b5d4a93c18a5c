SPECIFICATION Spec
CONSTANTS
    StageDefs <- DevReviewVerify
    Results <- AllResults
    Ceilings = {1}
    RunBudgets <- NoRunBudget
    Reasons = {1}
    MaxRuns = 2
    Trees <- OneTree
    Versions = {1, 3}
    Interruptions <- EveryInterruption
PROPERTIES
    InheritedReviewIsRerun
CHECK_DEADLOCK FALSE
