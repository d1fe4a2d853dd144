\* Every mode, up to three rounds, one line out of the ordinary.
SPECIFICATION DeliverySpec
CHECK_DEADLOCK FALSE
CONSTANTS
    Vulns <- MCVulns
    Paths <- MCPaths
    Trees <- MCTrees
    MaxRounds = 3
    MaxOdd = 1
    DeniedPaths <- MCDenied
    Wild <- MCWild
    Binary <- MCBinary
    Quoted <- MCQuoted
    Field <- MCField
    Braced <- MCBraced
    MaxFiles = 2
    MaxDiffLines = 4
INVARIANTS
    DeliveryTypeOK
    CleanPullRequestIsVerified
    ReportIsCurrent
    PromptsBounded
    NobodyWaitsInVain
    PushedIsWhatWasChecked
    DeniedPathsStayOut
PROPERTIES
    ReturnedTreeIsFrozen
    SessionEnds
