\* An agent that commits its own report.
SPECIFICATION DeliverySpec
CHECK_DEADLOCK FALSE
CONSTANTS
    Vulns <- MCVulns
    Paths <- MCPaths
    Trees <- MCCommittedReport
    MaxRounds = 2
    MaxOdd = 0
    DeniedPaths <- MCDenied
    Wild <- MCWild
    Binary <- MCBinary
    Quoted <- MCQuoted
    Field <- MCField
    Braced <- MCBraced
    MaxFiles = 2
    MaxDiffLines = 4
INVARIANT BookkeepingStaysHome
