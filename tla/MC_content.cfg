\* Every small diff, a limit of four comments.
SPECIFICATION Spec
CHECK_DEADLOCK FALSE
CONSTANTS
    Diffs <- MCDiffs
    Newer <- MCNewer
    Reviews <- MCReviews
    Paths <- MCPaths
    DeniedFiles <- MCDenied
    Manifests <- MCManifests
    Lockfiles <- MCLockfiles
    Configs <- MCConfigs
    Packages <- MCPackages
    Advisories <- MCAdvisories
    MaxComments = 4
INVARIANTS
    TypeOK
    MergedReviewIsAccepted
    VerifiedIsFoundInGrantedCommit
    FindingsOutrankOpinions
    SecretsAreFoundInPlace
