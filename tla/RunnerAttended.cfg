SPECIFICATION FairSpec
CONSTANTS
    StageDefs <- DevReviewVerify
    Results <- Conclusive
    Ceilings = {1}
    RunBudgets <- NoRunBudget
    Reasons = {1}
    MaxRuns = 2
    Trees <- BaseTrees
    Versions = {1, 2, 3}
    Interruptions = {}
INVARIANTS
    ReceiptCoversExaminedCode
PROPERTIES
    RegressionsAreEarned
    ApprovalLossIsCharged
    RunsEnd
CHECK_DEADLOCK FALSE
