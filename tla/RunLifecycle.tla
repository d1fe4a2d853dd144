---------------------------- MODULE RunLifecycle ----------------------------
(***************************************************************************)
(* A run from dispatch to its terminal status: the gateway and the upgrade *)
(* scheduler insert it (ledger row and River job in one transaction), a    *)
(* worker's handler drives one of the three pipelines of internal/runpipe, *)
(* the executor performs the GitHub write, and the ledger records both.    *)
(*                                                                         *)
(* Every call that leaves the process (Postgres, GitHub, the agent) is one *)
(* step and may fail.  A failing write may or may not have landed.  The    *)
(* worker process can crash or be told to shut down between any two steps, *)
(* and River (external) hands a job out again once its last attempt is     *)
(* older than RescueAfter, whether or not that attempt is still alive.     *)
(***************************************************************************)
EXTENDS Grants

CONSTANTS RunIds,        \* ids newRunID / newID can draw; always a fresh one
          Workers,       \* handler goroutines of the worker process
          Schedulers,    \* bothos-upgrade processes
          Payloads,      \* what an agent can come back with (branch, title, body)
          Deliveries,    \* webhook deliveries GitHub can make, and make again
          Webhook,       \* [Deliveries -> what the gateway sees of each]
          RescueAfter,   \* River: age at which a running job is rescued
          Horizon,       \* ages saturate here, past every ttl and RescueAfter
          MaxAttempts,   \* River: attempts of a job
          MaxCrashes,    \* bound: crashes of the worker process
          MaxDbErrors,   \* bound: failed ledger calls
          ShutdownAllowed, \* whether SIGTERM can reach the worker
          SlowHandlers   \* whether a handler can outlive RescueAfter

ASSUME BoundsAssumption ==
    /\ RescueAfter \in Nat /\ MaxAttempts \in Nat
    /\ MaxCrashes \in Nat /\ MaxDbErrors \in Nat
    /\ Horizon \in Nat
    /\ Horizon > RescueAfter /\ Horizon > WebhookTTL /\ Horizon > UpgradeTTL
ASSUME FlagsAssumption == ShutdownAllowed \in BOOLEAN /\ SlowHandlers \in BOOLEAN
ASSUME WebhookAssumption ==
    Webhook \in [Deliveries -> [event: Event, canWrite: BOOLEAN, rules: Rules]]
ASSUME NamesAssumption == "none" \notin RunIds \cup Deliveries

Terminal == {"succeeded", "failed", "denied", "needs_input"}
Statuses == {"none", "queued", "running"} \cup Terminal
JobStates == {"none", "available", "running", "completed", "discarded"}

\* The writes that are a run's result, and the ones that only prepare it.
Results == {"open_pr", "post_comment", "post_review"}
Effects == Results \cup {"push", "inline", "ack"}

PCs == {"idle", "start", "mark", "gate", "ack", "agent", "execute", "prepare",
        "write", "upsert", "record", "ref", "finish", "standDown",
        "fail", "failReason", "failRun", "complete"}

NoEnv == [kind |-> "none", body |-> "none"]
Envs == [kind: Results, body: Payloads]

VARIABLES
    status,    \* runs.status per run; "none": no such row
    grant,     \* runs.grant, written once at dispatch
    source,    \* the webhook delivery a run came from
    reason,    \* runs.failure_reason is set
    ref,       \* runs.github_ref is set
    intents,   \* idempotency keys in the intents table
    job,       \* state of the run's River job
    attempts,  \* its attempt counter
    since,     \* ticks since its last attempt began
    age,       \* ticks since the grant was issued
    gh,        \* GitHub: how often each effect of a run has happened
    pc, at, env, \* per worker: next step, its run, the envelope to execute
    sched,     \* per bothos-upgrade process: between its check and its insert?
    cancelled, \* the worker's context is cancelled (SIGTERM)
    crashes, dbErrors \* how much of the fault bounds is used up

ledgerVars == <<status, reason, ref, intents>>
dispatchVars == <<grant, source>>
queueVars == <<job, attempts, since>>
workerVars == <<pc, at, env>>
faultVars == <<cancelled, crashes, dbErrors>>
vars == <<ledgerVars, dispatchVars, queueVars, age, gh, workerVars, sched, faultVars>>

TypeOK ==
    /\ status \in [RunIds -> Statuses]
    /\ grant \in [RunIds -> Grant]
    /\ source \in [RunIds -> Deliveries \cup {"none"}]
    /\ reason \in [RunIds -> BOOLEAN]
    /\ ref \in [RunIds -> BOOLEAN]
    /\ intents \subseteq RunIds \X Results \X Payloads
    /\ job \in [RunIds -> JobStates]
    /\ attempts \in [RunIds -> Nat]
    /\ since \in [RunIds -> 0..Horizon]
    /\ age \in [RunIds -> 0..Horizon]
    /\ gh \in [RunIds -> [Effects -> Nat]]
    /\ pc \in [Workers -> PCs]
    /\ at \in [Workers -> RunIds \cup {"none"}]
    /\ env \in [Workers -> Envs \cup {NoEnv}]
    /\ sched \in [Schedulers -> {"idle", "insert"}]
    /\ cancelled \in BOOLEAN
    /\ crashes \in 0..MaxCrashes
    /\ dbErrors \in 0..MaxDbErrors

Init ==
    /\ status = [r \in RunIds |-> "none"]
    /\ grant = [r \in RunIds |-> NoGrant]
    /\ source = [r \in RunIds |-> "none"]
    /\ reason = [r \in RunIds |-> FALSE]
    /\ ref = [r \in RunIds |-> FALSE]
    /\ intents = {}
    /\ job = [r \in RunIds |-> "none"]
    /\ attempts = [r \in RunIds |-> 0]
    /\ since = [r \in RunIds |-> 0]
    /\ age = [r \in RunIds |-> 0]
    /\ gh = [r \in RunIds |-> [x \in Effects |-> 0]]
    /\ pc = [w \in Workers |-> "idle"]
    /\ at = [w \in Workers |-> "none"]
    /\ env = [w \in Workers |-> NoEnv]
    /\ sched = [s \in Schedulers |-> "idle"]
    /\ cancelled = FALSE /\ crashes = 0 /\ dbErrors = 0

-----------------------------------------------------------------------------
(* Dispatch: the gateway and the scheduler.  A delivery that errors before   *)
(* its insert commits (rules, pull-request load, transaction) changes        *)
(* nothing, and an event that is not Handled changes nothing either.         *)

\* InsertRunTx and EnqueueTx commit together; a denied run gets no job.
InsertRun(r, g, d) ==
    /\ status' = [status EXCEPT ![r] = IF g = NoGrant THEN "denied" ELSE "queued"]
    /\ grant' = [grant EXCEPT ![r] = g]
    /\ source' = [source EXCEPT ![r] = d]
    /\ job' = [job EXCEPT ![r] = IF g = NoGrant THEN "none" ELSE "available"]

HandleEvent(r, d) ==
    /\ status[r] = "none"
    /\ Handled(Webhook[d].event)
    /\ InsertRun(r, Decide(triggerFromEvent(Webhook[d].event, Webhook[d].canWrite),
                           Webhook[d].rules), d)
    /\ UNCHANGED <<reason, ref, intents, attempts, since, age, gh, workerVars, sched, faultVars>>

alreadyScheduled ==
    \E r \in RunIds : grant[r].trigger = "upgrade" /\ status[r] \in {"queued", "running"}

ScheduleCheck(s) ==
    /\ sched[s] = "idle"
    /\ ~alreadyScheduled
    /\ sched' = [sched EXCEPT ![s] = "insert"]
    /\ UNCHANGED <<ledgerVars, dispatchVars, queueVars, age, gh, workerVars, faultVars>>

ScheduleInsert(s, r) ==
    /\ sched[s] = "insert"
    /\ status[r] = "none"
    /\ InsertRun(r, GrantForUpgrade, "none")
    /\ sched' = [sched EXCEPT ![s] = "idle"]
    /\ UNCHANGED <<reason, ref, intents, attempts, since, age, gh, workerVars, faultVars>>

\* The default branch cannot be resolved, or the transaction fails.
ScheduleError(s) ==
    /\ sched[s] = "insert"
    /\ sched' = [sched EXCEPT ![s] = "idle"]
    /\ UNCHANGED <<ledgerVars, dispatchVars, queueVars, age, gh, workerVars, faultVars>>

-----------------------------------------------------------------------------
(* Steps of a handler.  Goto moves the worker on; LedgerCall is one SQL      *)
(* statement whose effect on the ledger is A, GitHubCall one API call.       *)

Goto(w, next) == pc' = [pc EXCEPT ![w] = next] /\ UNCHANGED at

DbOk == ~cancelled /\ UNCHANGED faultVars

DbError ==
    /\ cancelled \/ dbErrors < MaxDbErrors
    /\ dbErrors' = IF cancelled THEN dbErrors ELSE dbErrors + 1
    /\ UNCHANGED <<cancelled, crashes>>

LedgerCall(w, A, ok, err) ==
    /\ \/ DbOk /\ A /\ Goto(w, ok)
       \/ DbError /\ ~cancelled /\ A /\ Goto(w, err)
       \/ DbError /\ UNCHANGED ledgerVars /\ Goto(w, err)
    /\ UNCHANGED <<dispatchVars, queueVars, age, gh, env, sched>>

GitHubCall(w, x, ok, err) ==
    /\ \/ /\ ~cancelled
          /\ gh' = [gh EXCEPT ![at[w]][x] = @ + 1]
          /\ \/ Goto(w, ok)
             \/ Goto(w, err)
       \/ UNCHANGED gh /\ Goto(w, err)
    /\ UNCHANGED <<ledgerVars, dispatchVars, queueVars, age, env, sched, faultVars>>

SetRunStatus(r, s) == status' = [status EXCEPT ![r] = s] /\ UNCHANGED <<reason, ref, intents>>

\* Variant: the agent's word for it instead of a ledger status.
SetRunReasonVerdict(r, s) ==
    /\ status' = [status EXCEPT ![r] = IF s = "needs_input" THEN "blocked" ELSE s]
    /\ reason' = [reason EXCEPT ![r] = TRUE]
    /\ UNCHANGED <<ref, intents>>

\* SetRunFailure and SetRunNeedsInput: status and failure_reason in one UPDATE.
SetRunReason(r, s) ==
    /\ status' = [status EXCEPT ![r] = s]
    /\ reason' = [reason EXCEPT ![r] = TRUE]
    /\ UNCHANGED <<ref, intents>>

SetRunRef(r) == ref' = [ref EXCEPT ![r] = TRUE] /\ UNCHANGED <<status, reason, intents>>

Record(key) == intents' = intents \cup {key} /\ UNCHANGED <<status, reason, ref>>

IdempotencyKey(w) == <<at[w], env[w].kind, env[w].body>>

IsReview(w) == grant[at[w]].trigger = "webhook_pull_request"

\* River fetches an available job and calls the handler.
Fetch(w, r) ==
    /\ pc[w] = "idle" /\ ~cancelled
    /\ job[r] = "available"
    /\ job' = [job EXCEPT ![r] = "running"]
    /\ attempts' = [attempts EXCEPT ![r] = @ + 1]
    /\ since' = [since EXCEPT ![r] = 0]
    /\ pc' = [pc EXCEPT ![w] = "start"]
    /\ at' = [at EXCEPT ![w] = r]
    /\ UNCHANGED <<ledgerVars, dispatchVars, age, gh, env, sched, faultVars>>

Release(w) ==
    /\ pc' = [pc EXCEPT ![w] = "idle"]
    /\ at' = [at EXCEPT ![w] = "none"]
    /\ env' = [env EXCEPT ![w] = NoEnv]

\* An error the handler returns makes River retry the job while attempts last.
RetryState(r) == IF attempts[r] < MaxAttempts THEN "available" ELSE "discarded"

\* The handler's own RunByID; only its error is returned to River.
StartError(w) ==
    /\ pc[w] = "start"
    /\ DbError
    /\ job' = [job EXCEPT ![at[w]] = IF @ = "running" THEN RetryState(at[w]) ELSE @]
    /\ since' = [since EXCEPT ![at[w]] = 0]
    /\ Release(w)
    /\ UNCHANGED <<ledgerVars, dispatchVars, attempts, age, gh, sched>>

\* Handler and pipeline both load the run; a failed second load goes straight to
\* failRun.  (runtime.New cannot fail for the registered "pi" runtime, and only
\* the three known triggers are ever enqueued.)
Start(w) ==
    /\ pc[w] = "start"
    /\ \/ DbOk /\ Goto(w, "mark")
       \/ DbError /\ Goto(w, "failRun")
    /\ UNCHANGED <<ledgerVars, dispatchVars, queueVars, age, gh, env, sched>>

MarkRunning(w) ==
    pc[w] = "mark" /\ LedgerCall(w, SetRunStatus(at[w], "running"), "gate", "failRun")

\* The grant has the shape the pipeline requires.
WellScoped(g) ==
    /\ g.trigger = "webhook_issue_labeled" => g.scope = "issue" /\ g.number > 0
    /\ g.trigger = "webhook_pull_request" => g.scope = "pull_request" /\ g.number # 0 /\ g.shas

Gate(w) ==
    /\ pc[w] = "gate"
    /\ LET g == grant[at[w]] IN
         Goto(w, IF ~WellScoped(g) \/ Expired(g, age[at[w]]) THEN "fail"
                 ELSE IF IsReview(w) /\ g.manual THEN "ack" ELSE "agent")
    /\ UNCHANGED <<ledgerVars, dispatchVars, queueVars, age, gh, env, sched, faultVars>>

\* A manual review posts (or finds) its placeholder; failure is only logged.
Acknowledge(w) == pc[w] = "ack" /\ GitHubCall(w, "ack", "agent", "agent")

\* Sandbox, deterministic checks, agent session, read-only check of the worktree.
AgentFails(w) ==
    /\ pc[w] = "agent"
    /\ Goto(w, "fail")
    /\ UNCHANGED <<ledgerVars, dispatchVars, queueVars, age, gh, env, sched, faultVars>>

Proposes(w, kind, next) ==
    /\ pc[w] = "agent" /\ ~cancelled
    /\ \E b \in Payloads : env' = [env EXCEPT ![w] = [kind |-> kind, body |-> b]]
    /\ Goto(w, next)
    /\ UNCHANGED <<ledgerVars, dispatchVars, queueVars, age, gh, sched, faultVars>>

AgentDone(w) == Proposes(w, IF IsReview(w) THEN "post_review" ELSE "open_pr", "execute")

\* An issue run hands off with a comment the pipeline writes itself ...
AgentBlockedIssue(w) ==
    /\ pc[w] = "agent" /\ grant[at[w]].trigger = "webhook_issue_labeled"
    /\ Proposes(w, "post_comment", "execute")

\* ... an upgrade run stands down.
AgentBlockedUpgrade(w) ==
    /\ pc[w] = "agent" /\ ~cancelled
    /\ grant[at[w]].trigger = "upgrade"
    /\ Goto(w, "standDown")
    /\ UNCHANGED <<ledgerVars, dispatchVars, queueVars, age, gh, env, sched, faultVars>>

StandDown(w) ==
    pc[w] = "standDown" /\ LedgerCall(w, SetRunReason(at[w], "failed"), "complete", "failRun")

-----------------------------------------------------------------------------
(* executor.Execute.  Where its error goes depends on the caller: the         *)
(* pipelines call fail(), recordBlocked returns it as it is.                  *)

ExecuteError(w) == IF env[w].kind = "post_comment" THEN "failRun" ELSE "fail"

Valid(w) ==
    Validate([version |-> TRUE, own |-> TRUE, kind |-> env[w].kind, wellFormed |-> TRUE],
             grant[at[w]], age[at[w]])

\* Validation, the ledger lookups, the credential or the diff refuse the write.
ExecuteRefused(w) ==
    /\ pc[w] = "execute"
    /\ \/ UNCHANGED faultVars
       \/ DbError
    /\ Goto(w, ExecuteError(w))
    /\ UNCHANGED <<ledgerVars, dispatchVars, queueVars, age, gh, env, sched>>

ExecuteDeduped(w) ==
    /\ pc[w] = "execute"
    /\ Valid(w) /\ DbOk
    /\ IdempotencyKey(w) \in intents
    /\ Goto(w, "ref")
    /\ UNCHANGED <<ledgerVars, dispatchVars, queueVars, age, gh, env, sched>>

\* Variant: the lookup is made and its answer ignored.
ExecuteUnlooked(w) ==
    /\ pc[w] = "execute"
    /\ Valid(w) /\ DbOk
    /\ Goto(w, IF env[w].kind = "post_comment" THEN "write" ELSE "prepare")
    /\ UNCHANGED <<ledgerVars, dispatchVars, queueVars, age, gh, env, sched>>

ExecuteFresh(w) ==
    /\ pc[w] = "execute"
    /\ Valid(w) /\ DbOk
    /\ IdempotencyKey(w) \notin intents
    /\ Goto(w, IF env[w].kind = "post_comment" THEN "write" ELSE "prepare")
    /\ UNCHANGED <<ledgerVars, dispatchVars, queueVars, age, gh, env, sched>>

\* PushBranch before OpenPR, the inline comments before the review summary.
Prepare(w) ==
    pc[w] = "prepare" /\ GitHubCall(w, IF IsReview(w) THEN "inline" ELSE "push", "write", "fail")

\* Variant: the write is tried again when its reply is lost.
WriteResultRetried(w) ==
    pc[w] = "write" /\ GitHubCall(w, env[w].kind, IF IsReview(w) THEN "upsert" ELSE "record", "write")

\* OpenPR, PostReview or PostComment.
WriteResult(w) ==
    pc[w] = "write" /\ GitHubCall(w, env[w].kind, IF IsReview(w) THEN "upsert" ELSE "record",
                                  ExecuteError(w))

\* UpsertReviewComment: the mapping itself is not part of this module's state.
UpsertReviewComment(w) ==
    pc[w] = "upsert" /\ LedgerCall(w, UNCHANGED ledgerVars, "record", "fail")

\* Variant: an error of Record is ignored.
RecordIntentIgnored(w) ==
    pc[w] = "record" /\ LedgerCall(w, Record(IdempotencyKey(w)), "ref", "ref")

RecordIntent(w) ==
    pc[w] = "record" /\ LedgerCall(w, Record(IdempotencyKey(w)), "ref", ExecuteError(w))

RecordRef(w) ==
    pc[w] = "ref" /\ LedgerCall(w, SetRunRef(at[w]), "finish", IF IsReview(w) THEN "fail" ELSE "failRun")

\* Variant: the hand-off returns its blocker as an error.
FinishBlockedAsError(w) ==
    /\ pc[w] = "finish"
    /\ LedgerCall(w, IF env[w].kind = "post_comment" THEN SetRunReason(at[w], "needs_input")
                     ELSE SetRunStatus(at[w], "succeeded"),
                  IF env[w].kind = "post_comment" THEN "failRun" ELSE "complete", "failRun")

Finish(w) ==
    /\ pc[w] = "finish"
    /\ LedgerCall(w, IF env[w].kind = "post_comment" THEN SetRunReason(at[w], "needs_input")
                     ELSE SetRunStatus(at[w], "succeeded"), "complete", "failRun")

-----------------------------------------------------------------------------
(* The failure path: fail() in the pipeline ignores both errors, failRun in  *)
(* the handler ignores its own, and the handler then returns nil.            *)

FailStatus(w) ==
    pc[w] = "fail" /\ LedgerCall(w, SetRunStatus(at[w], "failed"), "failReason", "failReason")

FailReason(w) ==
    pc[w] = "failReason" /\ LedgerCall(w, SetRunReason(at[w], "failed"), "failRun", "failRun")

\* Variant: the handler relies on the pipeline having closed the row.
FailRunSkipped(w) ==
    pc[w] = "failRun" /\ LedgerCall(w, UNCHANGED ledgerVars, "complete", "complete")

FailRun(w) ==
    pc[w] = "failRun" /\ LedgerCall(w, SetRunStatus(at[w], "failed"), "complete", "complete")

\* The handler returns nil; River completes the job if it still counts as running.
Complete(w) ==
    /\ pc[w] = "complete"
    /\ job' = [job EXCEPT ![at[w]] = IF @ = "running" THEN "completed" ELSE @]
    /\ since' = [since EXCEPT ![at[w]] = 0]
    /\ Release(w)
    /\ UNCHANGED <<ledgerVars, dispatchVars, attempts, age, gh, sched, faultVars>>

-----------------------------------------------------------------------------
(* The environment: time, River's rescuer, crashes and shutdown. *)

Older(n) == IF n < Horizon THEN n + 1 ELSE n

Tick ==
    /\ age' = [r \in RunIds |-> IF status[r] = "none" THEN age[r] ELSE Older(age[r])]
    /\ since' = [r \in RunIds |-> IF job[r] = "running" THEN Older(since[r]) ELSE since[r]]
    /\ UNCHANGED <<ledgerVars, dispatchVars, job, attempts, gh, workerVars, sched, faultVars>>

\* Variant: jobs without a timeout are never rescued.
RescueIgnored(r) == job[r] = "running" /\ since[r] > RescueAfter /\ FALSE /\ UNCHANGED vars

Rescue(r) ==
    /\ job[r] = "running"
    /\ since[r] > RescueAfter
    /\ SlowHandlers \/ \A w \in Workers : at[w] # r
    /\ job' = [job EXCEPT ![r] = RetryState(r)]
    /\ since' = [since EXCEPT ![r] = 0]
    /\ UNCHANGED <<ledgerVars, dispatchVars, attempts, age, gh, workerVars, sched, faultVars>>

\* Every handler of the process is gone; the restarted process fetches again.
Crash ==
    /\ crashes < MaxCrashes
    /\ \E w \in Workers : pc[w] # "idle"
    /\ crashes' = crashes + 1
    /\ pc' = [w \in Workers |-> "idle"]
    /\ at' = [w \in Workers |-> "none"]
    /\ env' = [w \in Workers |-> NoEnv]
    /\ cancelled' = FALSE
    /\ UNCHANGED <<ledgerVars, dispatchVars, queueVars, age, gh, sched, dbErrors>>

\* SIGTERM cancels the context that Start(ctx) hands to every job.
Shutdown ==
    /\ ShutdownAllowed /\ ~cancelled
    /\ cancelled' = TRUE
    /\ UNCHANGED <<ledgerVars, dispatchVars, queueVars, age, gh, workerVars, sched, crashes, dbErrors>>

\* Stop waits for the handlers to return; then a new process starts.
Restart ==
    /\ cancelled
    /\ \A w \in Workers : pc[w] = "idle"
    /\ cancelled' = FALSE
    /\ UNCHANGED <<ledgerVars, dispatchVars, queueVars, age, gh, workerVars, sched, crashes, dbErrors>>

-----------------------------------------------------------------------------
Step(w) ==
    \/ StartError(w) \/ Start(w) \/ MarkRunning(w) \/ Gate(w) \/ Acknowledge(w)
    \/ AgentFails(w) \/ AgentDone(w) \/ AgentBlockedIssue(w)
    \/ AgentBlockedUpgrade(w) \/ StandDown(w)
    \/ ExecuteRefused(w) \/ ExecuteDeduped(w) \/ ExecuteFresh(w)
    \/ Prepare(w) \/ WriteResult(w) \/ UpsertReviewComment(w)
    \/ RecordIntent(w) \/ RecordRef(w) \/ Finish(w)
    \/ FailStatus(w) \/ FailReason(w) \/ FailRun(w) \/ Complete(w)

Next ==
    \/ \E r \in RunIds, d \in Deliveries : HandleEvent(r, d)
    \/ \E s \in Schedulers : ScheduleCheck(s) \/ ScheduleError(s)
    \/ \E s \in Schedulers, r \in RunIds : ScheduleInsert(s, r)
    \/ \E w \in Workers, r \in RunIds : Fetch(w, r)
    \/ \E w \in Workers : Step(w)
    \/ Tick
    \/ \E r \in RunIds : Rescue(r)
    \/ Crash \/ Shutdown \/ Restart

Spec == Init /\ [][Next]_vars

(***************************************************************************)
(* Fairness.  A handler's calls return (the agent has its wall cap, SQL    *)
(* and HTTP calls fail rather than hang), River keeps fetching, rescuing   *)
(* and restarting, and time passes.  Nothing is assumed of deliveries,     *)
(* schedules, crashes or shutdowns.                                        *)
(***************************************************************************)
Fairness ==
    /\ \A w \in Workers : WF_vars(Step(w))
    /\ \A r \in RunIds : WF_vars(\E w \in Workers : Fetch(w, r))
    /\ \A r \in RunIds : WF_vars(Rescue(r))
    /\ WF_vars(Tick) /\ WF_vars(Restart)

FairSpec == Spec /\ Fairness

-----------------------------------------------------------------------------
(* Properties *)

Untouched(r) == \A x \in Results : gh[r][x] = 0

\* A run leaves at most one result on GitHub (one pull request, one review or
\* one hand-off comment), whatever crashes, lost replies, rescues and slow
\* handlers do.  Nothing deduplicates across attempts by itself: a retried agent
\* comes back with another payload, hence another idempotency key.  What holds
\* the property together is that the grant expires before River hands the job
\* out again, and that both the pipeline and Execute check the expiry.
AtMostOneResult ==
    \A r \in RunIds, x, y \in Results :
        gh[r][x] > 0 /\ gh[r][y] > 0 => x = y /\ gh[r][x] = 1

\* No run writes beyond its grant: every result on GitHub is of a kind policy
\* granted to that run at dispatch, so a denied run never has one.
ResultsAreGranted ==
    \A r \in RunIds, x \in Results : gh[r][x] > 0 => x \in grant[r].kinds

\* What the ledger reports is what happened on GitHub.  A succeeded run has its
\* pull request or review, the reference to it and the idempotency record; a
\* needs_input run has its hand-off comment, a reason, and no pull request, which
\* is what the comment tells the maintainer ("No pull request was opened").
LedgerTellsTheTruth ==
    \A r \in RunIds :
        /\ status[r] = "succeeded" =>
              /\ ref[r]
              /\ \E x \in {"open_pr", "post_review"}, b \in Payloads :
                    gh[r][x] = 1 /\ <<r, x, b>> \in intents
        /\ status[r] = "needs_input" =>
              /\ ref[r] /\ reason[r]
              /\ gh[r]["post_comment"] = 1 /\ gh[r]["open_pr"] = 0

\* An issue run's blocked hand-off skips fail(): failRun's one UPDATE is all that
\* closes the row, so a single failing ledger call can leave it open.
HandoffExposed(r) == grant[r].trigger = "webhook_issue_labeled" /\ dbErrors > 0

\* Once River is done with a job and no handler works on it, nobody will touch
\* the run again, so its status must be terminal: a run left "running" would
\* show as in progress for ever and keep alreadyScheduled true for its repository.
\* A crash and one failing ledger call are survived, the latter not by issue runs.
SettledRunIsTerminal ==
    \A r \in RunIds :
        job[r] \in {"completed", "discarded"} /\ (\A w \in Workers : at[w] # r)
            => status[r] \in Terminal \/ HandoffExposed(r)

\* Execute never repeats a write whose idempotency key is in the ledger.
RecordedWriteNotRepeated ==
    [][\A w \in Workers :
          pc[w] = "write" /\ gh' # gh /\ gh'[at[w]] # gh[at[w]] =>
              IdempotencyKey(w) \notin intents]_vars

\* Every queued run reaches a terminal status and from then on keeps one: the
\* handler's error paths, River's retry and its rescue leave no run behind.
RunsSettle ==
    \A r \in RunIds :
        status[r] = "queued" ~> [](status[r] \in Terminal \/ HandoffExposed(r))

\* A terminal status is only ever overwritten by a later attempt of the same job
\* (the handler died between SetRunStatus and River's completion) or after a ledger
\* call whose answer was lost: no handler reopens or re-judges a run it settled.
SettledByOneAttempt ==
    [][\A r \in RunIds :
          status[r] \in Terminal /\ status'[r] # status[r] => attempts[r] > 1 \/ dbErrors > 0]_vars

\* One webhook delivery, however often GitHub repeats it, opens one pull request.
OnePullRequestPerDelivery ==
    \A r, q \in RunIds :
        source[r] = source[q] /\ source[r] # "none"
        /\ gh[r]["open_pr"] > 0 /\ gh[q]["open_pr"] > 0 => r = q

-----------------------------------------------------------------------------
(* Why AtMostOneResult holds: the strengthening the proofs carry along. *)

\* River hands a job out again only when no grant can still be alive.
RescueAfterExpiry == RescueAfter >= WebhookTTL /\ RescueAfter >= UpgradeTTL

Stale(r) == Expired(grant[r], age[r])
BeforeCheck == {"start", "mark", "gate", "ack", "agent", "execute"}
Writing == {"prepare", "write"}
Written == {"upsert", "record", "ref", "finish"}

WorkersHoldRuns ==
    \A w \in Workers : IF pc[w] = "idle" THEN at[w] = "none"
                       ELSE at[w] \in RunIds /\ status[at[w]] # "none"
EnvelopesAreSet ==
    \A w \in Workers : pc[w] \in {"execute"} \cup Writing \cup Written => env[w] \in Envs
JobsHaveRuns == \A r \in RunIds : status[r] = "none" => job[r] = "none"
UndispatchedIsClean ==
    \A r \in RunIds : status[r] = "none" => grant[r] = NoGrant /\ Untouched(r)
AttemptsAreYounger == \A r \in RunIds : since[r] <= age[r]
AvailableIsFresh ==
    \A r \in RunIds : job[r] = "available" /\ ~Stale(r) =>
        Untouched(r) /\ \A w \in Workers : at[w] # r
LiveGrantHasOneHandler ==
    \A w, v \in Workers : w # v /\ pc[w] # "idle" /\ at[w] = at[v] => Stale(at[w])
UncheckedHasNotWritten ==
    \A w \in Workers : pc[w] \in BeforeCheck /\ ~Stale(at[w]) => Untouched(at[w])
OneWriter ==
    \A w \in Workers : pc[w] \in Writing =>
        /\ Untouched(at[w])
        /\ env[w].kind \in grant[at[w]].kinds
        /\ \A v \in Workers : v # w /\ at[v] = at[w] => pc[v] \notin Writing

\* While a run's grant is alive, one handler at most works on the run and it has
\* written nothing it could repeat; only that handler passes Execute's check, and
\* once the grant is dead nobody does.
AttemptDiscipline ==
    /\ WorkersHoldRuns /\ EnvelopesAreSet /\ JobsHaveRuns /\ UndispatchedIsClean
    /\ AttemptsAreYounger /\ AvailableIsFresh /\ LiveGrantHasOneHandler
    /\ UncheckedHasNotWritten /\ OneWriter

\* Records follow writes: behind each ledger entry there is the GitHub write.
RecordDiscipline ==
    /\ \A w \in Workers : pc[w] \in Written => gh[at[w]][env[w].kind] = 1
    /\ \A r \in RunIds, x \in Results, b \in Payloads : <<r, x, b>> \in intents => gh[r][x] = 1
    /\ \A w \in Workers : pc[w] \in {"ref", "finish"} => IdempotencyKey(w) \in intents
    /\ \A w \in Workers : pc[w] = "finish" => ref[at[w]]

-----------------------------------------------------------------------------
(* What the machinery above amounts to, seen from the repository. *)
Effect == INSTANCE RunEffect
            WITH authority <- [r \in RunIds |-> grant[r].kinds],
                 performed <- [r \in RunIds |-> [x \in Results |-> gh[r][x]]]

\* Every behaviour of queue, handlers and executor is one in which policy gives
\* each run its authority once and the run uses it for at most one result.
ImplementsRunEffect == Effect!Spec
=============================================================================
