\* One run, two handlers: slow handlers, rescues, a crash and a ledger error.
SPECIFICATION Spec
CONSTANTS
    RunIds = {r1}
    Workers = {w1, w2}
    Schedulers = {s1}
    Payloads = {p1, p2}
    Deliveries <- EveryDelivery
    Webhook <- MCWebhookAll
    Actors <- MCActors
    Labels <- MCLabels
    Numbers <- MCNumbers
    WebhookTTL = 2
    UpgradeTTL = 1
    RescueAfter = 2
    Horizon = 3
    MaxAttempts = 3
    MaxCrashes = 1
    MaxDbErrors = 1
    ShutdownAllowed = TRUE
    SlowHandlers = TRUE
INVARIANTS
    TypeOK
    AtMostOneResult
    
    AttemptDiscipline
PROPERTY
    ImplementsRunEffect
