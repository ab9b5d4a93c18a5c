SPECIFICATION Spec
CONSTANTS
    StageDefs <- Stages
    Lines <- SomeLines
    MaxLines = 3
INVARIANTS
    ParsingIsIncremental
    LastOwnOutputDecides
    UsageIsWhole
    PassedReviewIsClean
CHECK_DEADLOCK FALSE
