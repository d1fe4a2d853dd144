\* One handler: reviews of a pull request never overlap.
SPECIFICATION Spec
CHECK_DEADLOCK FALSE
CONSTANTS
    Runs <- MCRuns
    ManualRuns <- MCManual
    Concurrency = 1
    MaxFaults = 2
    MaxDeletes = 2
    MaxQuotes = 1
INVARIANTS
    TypeOK
    OneSummaryUnlessDeleted
    SucceededReviewIsMapped
PROPERTY
    OthersCommentsStay
