SPECIFICATION Spec
CONSTANTS
    StageDefs <- MeteredDevReviewVerify
    Results <- Metered
    Ceilings = {1}
    RunBudgets <- RunBudget
    Reasons = {1}
    MaxRuns = 2
    Trees <- CodeTrees
    Versions = {1, 2, 3}
    Interruptions <- EveryInterruption
INVARIANTS
    TypeOK
    InSync
    ApprovalCoversPrefix
    NoSaveRefused
    LedgerConsistent
    RejectionIsExplained
    BackfillIsPossible
    NoSpendingPastBudget
PROPERTIES
    EvidenceIsAppendOnly
CHECK_DEADLOCK FALSE
