\* The default concurrency of two, nothing failing, nothing deleted.
SPECIFICATION Spec
CHECK_DEADLOCK FALSE
CONSTANTS
    Runs <- MCRuns
    ManualRuns <- MCManual
    Concurrency = 2
    MaxFaults = 0
    MaxDeletes = 0
    MaxQuotes = 0
INVARIANT OneSummaryComment
