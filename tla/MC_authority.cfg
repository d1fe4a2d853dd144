SPECIFICATION Spec
CHECK_DEADLOCK FALSE
CONSTANTS
    Actors <- MCActors
    Labels <- MCLabels
    Numbers <- MCNumbers
    WebhookTTL = 2
    UpgradeTTL = 1
    Events <- MCEvents
    RuleSets <- MCRuleSets
    MaxAge = 3
INVARIANTS
    TypeOK
    AcceptedWriteIsWarranted
    ReviewsNeverUseContentsWrite
    GrantedKindsAreUsable
