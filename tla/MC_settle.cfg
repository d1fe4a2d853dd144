\* A crash and one failing ledger call, and grants that outlive River's rescue age:
\* every queued run settles, and the idempotency ledger works on its own.
SPECIFICATION FairSpec
CONSTANTS
    RunIds = {r1}
    Workers = {w1, w2}
    Schedulers = {s1}
    Payloads = {p1, p2}
    Deliveries <- EveryDelivery
    Webhook <- MCWebhookAll
    Actors <- MCActors
    Labels <- MCLabels
    Numbers <- MCNumbers
    WebhookTTL = 3
    UpgradeTTL = 1
    RescueAfter = 2
    Horizon = 4
    MaxAttempts = 3
    MaxCrashes = 1
    MaxDbErrors = 1
    ShutdownAllowed = FALSE
    SlowHandlers = FALSE
INVARIANT SettledRunIsTerminal
PROPERTIES
    RunsSettle
    RecordedWriteNotRepeated
    SettledByOneAttempt
