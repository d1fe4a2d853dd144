\* SIGTERM while a run is in progress.
SPECIFICATION Spec
CONSTANTS
    RunIds = {r1}
    Workers = {w1}
    Schedulers = {s1}
    Payloads = {p1}
    Deliveries <- IssueOnly
    Webhook <- MCWebhookIssue
    Actors <- MCActors
    Labels <- MCLabels
    Numbers <- MCNumbers
    WebhookTTL = 2
    UpgradeTTL = 1
    RescueAfter = 2
    Horizon = 3
    MaxAttempts = 3
    MaxCrashes = 0
    MaxDbErrors = 0
    ShutdownAllowed = TRUE
    SlowHandlers = TRUE
INVARIANT SettledRunIsTerminal
