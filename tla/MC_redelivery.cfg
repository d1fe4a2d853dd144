\* The same labeled-issue delivery twice.
SPECIFICATION Spec
CONSTANTS
    RunIds = {r1, r2}
    Workers = {w1}
    Schedulers = {}
    Payloads = {p1}
    Deliveries <- IssueOnly
    Webhook <- MCWebhookIssue
    Actors <- MCActors
    Labels <- MCLabels
    Numbers <- MCNumbers
    WebhookTTL = 2
    UpgradeTTL = 1
    RescueAfter = 2
    Horizon = 3
    MaxAttempts = 3
    MaxCrashes = 0
    MaxDbErrors = 0
    ShutdownAllowed = FALSE
    SlowHandlers = TRUE
INVARIANT OnePullRequestPerDelivery
