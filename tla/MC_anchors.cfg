\* A pull request that replaces the last line of a file without a final newline.
SPECIFICATION Spec
CHECK_DEADLOCK FALSE
CONSTANTS
    Diffs <- NoEol
    Newer <- MCNewer
    Reviews <- MCReviews
    Paths <- MCPaths
    DeniedFiles <- MCDenied
    Manifests <- MCManifests
    Lockfiles <- MCLockfiles
    Configs <- MCConfigs
    Packages <- MCPackages
    Advisories <- MCAdvisories
    MaxComments = 4
INVARIANT DeletedLinesDoNotAdvance
