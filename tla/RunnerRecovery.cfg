SPECIFICATION Spec
CONSTANTS
    StageDefs <- DevReviewVerifyDocs
    Results <- Conclusive
    Ceilings = {1}
    RunBudgets <- NoRunBudget
    Reasons = {1, 2}
    MaxRuns = 3
    Trees <- DocsTrees
    Versions = {3}
    Interruptions = {"die"}
INVARIANTS
    RecoveryIsRecorded
    CorrectionReruns
PROPERTIES
    SupersedeIsGuarded
    ImplementsLedger
CHECK_DEADLOCK FALSE
