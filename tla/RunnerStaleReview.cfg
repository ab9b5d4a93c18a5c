SPECIFICATION Spec
CONSTANTS
    StageDefs <- DevReviewVerify
    Results <- AllResults
    Ceilings = {1}
    RunBudgets <- NoRunBudget
    Reasons = {1}
    MaxRuns = 2
    Trees <- CodeTrees
    Versions = {3}
    Interruptions = {"abort"}
INVARIANTS
    ReceiptCoversExaminedCode
CHECK_DEADLOCK FALSE
