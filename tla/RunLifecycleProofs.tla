------------------------- MODULE RunLifecycleProofs -------------------------
(***************************************************************************)
(* Proofs about RunLifecycle, for every number of runs, handlers,          *)
(* schedulers, payloads and deliveries and for every fault bound.  Part    *)
(* one: types.  Part two: a run leaves at most one result on GitHub, and   *)
(* only one it was granted.                                                *)
(***************************************************************************)
EXTENDS RunLifecycle, TLAPS

-----------------------------------------------------------------------------
(* The grants that dispatch can store *)

\* Policy always answers with a grant of the right shape, denied or not.
LEMMA DecideType ==
    ASSUME NEW e \in Event, NEW canWrite \in BOOLEAN, NEW rules \in Rules
    PROVE  Decide(triggerFromEvent(e, canWrite), rules) \in Grant
<1> DEFINE t == triggerFromEvent(e, canWrite)
<1>1. /\ t.kind \in {"webhook_pull_request", "webhook_issue_labeled"}
      /\ t.number \in Numbers /\ t.manual \in BOOLEAN /\ t.shas \in BOOLEAN
  BY DEF triggerFromEvent, ManualReview, Event
<1>2. NoGrant \in Grant
  BY DEF NoGrant, Grant
<1>3. ReviewGrant(t) \in Grant
  BY <1>1 DEF ReviewGrant, Grant, TriggerNames, Scopes, Kinds, Tokens
<1>4. IssueGrant(t) \in Grant
  BY <1>1 DEF IssueGrant, Grant, TriggerNames, Scopes, Kinds, Tokens
<1> QED
  BY <1>2, <1>3, <1>4 DEF Decide

\* The same for the grant of a scheduled upgrade, and for no grant at all.
LEMMA OtherGrantsType == GrantForUpgrade \in Grant /\ NoGrant \in Grant
  BY DEF GrantForUpgrade, NoGrant, Grant, TriggerNames, Scopes, Kinds, Tokens

-----------------------------------------------------------------------------
(* Type correctness *)

\* The initial ledger, queue and workers are of their types.
LEMMA InitType == Init => TypeOK
<1> SUFFICES ASSUME Init PROVE TypeOK
  OBVIOUS
<1>1. /\ status \in [RunIds -> Statuses] /\ job \in [RunIds -> JobStates]
      /\ pc \in [Workers -> PCs] /\ at \in [Workers -> RunIds \cup {"none"}]
      /\ sched \in [Schedulers -> {"idle", "insert"}]
      /\ source \in [RunIds -> Deliveries \cup {"none"}]
  BY DEF Init, Statuses, JobStates, PCs
<1>2. /\ reason \in [RunIds -> BOOLEAN] /\ ref \in [RunIds -> BOOLEAN]
      /\ intents \subseteq RunIds \X Results \X Payloads
      /\ env \in [Workers -> Envs \cup {NoEnv}]
  BY DEF Init
<1>3. grant \in [RunIds -> Grant]
  BY OtherGrantsType DEF Init
<1>4. /\ attempts \in [RunIds -> Nat]
      /\ since \in [RunIds -> 0..Horizon] /\ age \in [RunIds -> 0..Horizon]
      /\ crashes \in 0..MaxCrashes /\ dbErrors \in 0..MaxDbErrors
  BY BoundsAssumption DEF Init
<1>5. gh \in [RunIds -> [Effects -> Nat]]
  BY DEF Init
<1>6. cancelled \in BOOLEAN
  BY DEF Init
<1> QED
  BY <1>1, <1>2, <1>3, <1>4, <1>5, <1>6 DEF TypeOK

\* TypeOK is not inductive by itself: what Record adds to the intents table is of
\* its type because a handler past the agent holds a run and an envelope, and what
\* a handler fetches is a run that has been dispatched.
TypeInv == TypeOK /\ WorkersHoldRuns /\ EnvelopesAreSet /\ JobsHaveRuns

HasEnvelope == {"execute"} \cup Writing \cup Written

\* A ledger call keeps the types, and the two facts with them, if what it writes
\* is well-typed and it does not step to where an envelope is needed without one.
LEMMA LedgerCallType ==
    ASSUME TypeInv, NEW w \in Workers, pc[w] # "idle",
           NEW ok \in PCs \ {"idle"}, NEW err \in PCs \ {"idle"},
           ok \in HasEnvelope => pc[w] \in HasEnvelope,
           err \in HasEnvelope => pc[w] \in HasEnvelope,
           NEW ACTION A, LedgerCall(w, A, ok, err),
           A => /\ status' \in [RunIds -> Statuses]
                /\ \A r \in RunIds : status[r] # "none" => status'[r] # "none"
                /\ reason' \in [RunIds -> BOOLEAN]
                /\ ref' \in [RunIds -> BOOLEAN]
                /\ intents' \subseteq RunIds \X Results \X Payloads
    PROVE  TypeInv'
<1>0. TypeOK
  BY DEF TypeInv
<1>a. dbErrors' \in 0..MaxDbErrors /\ crashes' = crashes
  BY <1>0, BoundsAssumption DEF TypeOK, LedgerCall, DbOk, DbError, faultVars
<1>b. cancelled' = cancelled
  BY DEF LedgerCall, DbOk, DbError, faultVars
<1>c. /\ status' \in [RunIds -> Statuses] /\ reason' \in [RunIds -> BOOLEAN]
      /\ ref' \in [RunIds -> BOOLEAN] /\ intents' \subseteq RunIds \X Results \X Payloads
  BY <1>0, Zenon DEF TypeOK, LedgerCall, ledgerVars
<1>d. pc' \in [Workers -> PCs] /\ at' = at
  BY <1>0 DEF TypeOK, LedgerCall, Goto
<1>1. TypeOK'
  BY <1>0, <1>a, <1>b, <1>c, <1>d DEF TypeOK, LedgerCall, dispatchVars, queueVars
<1>2. WorkersHoldRuns'
  BY DEF TypeInv, TypeOK, WorkersHoldRuns, LedgerCall, Goto, ledgerVars
<1>3. EnvelopesAreSet'
  BY DEF TypeInv, TypeOK, EnvelopesAreSet, LedgerCall, Goto, HasEnvelope
<1>4. JobsHaveRuns'
  BY DEF TypeInv, JobsHaveRuns, LedgerCall, ledgerVars, queueVars
<1> QED
  BY <1>1, <1>2, <1>3, <1>4 DEF TypeInv

\* The same for a call to GitHub.
LEMMA GitHubCallType ==
    ASSUME TypeInv, NEW w \in Workers, pc[w] # "idle",
           NEW ok \in PCs \ {"idle"}, NEW err \in PCs \ {"idle"}, NEW x \in Effects,
           ok \in HasEnvelope => pc[w] \in HasEnvelope,
           err \in HasEnvelope => pc[w] \in HasEnvelope,
           GitHubCall(w, x, ok, err)
    PROVE  TypeInv'
<1>0. gh \in [RunIds -> [Effects -> Nat]] /\ at[w] \in RunIds
  BY DEF TypeInv, TypeOK, WorkersHoldRuns
<1>a. [gh EXCEPT ![at[w]][x] = @ + 1] \in [RunIds -> [Effects -> Nat]]
  <2>1. gh[at[w]] \in [Effects -> Nat]
    BY <1>0
  <2>2. [gh[at[w]] EXCEPT ![x] = @ + 1] \in [Effects -> Nat]
    BY <2>1
  <2> QED
    BY <1>0, <2>2
<1>1. gh' \in [RunIds -> [Effects -> Nat]]
  BY <1>0, <1>a DEF GitHubCall
<1>2. TypeOK'
  BY <1>1 DEF TypeInv, TypeOK, GitHubCall, Goto, ledgerVars, dispatchVars, queueVars, faultVars
<1>3. WorkersHoldRuns'
  BY DEF TypeInv, TypeOK, WorkersHoldRuns, GitHubCall, Goto, ledgerVars
<1>4. EnvelopesAreSet'
  BY DEF TypeInv, TypeOK, EnvelopesAreSet, GitHubCall, Goto, HasEnvelope
<1>5. JobsHaveRuns'
  BY DEF TypeInv, JobsHaveRuns, GitHubCall, ledgerVars, queueVars
<1> QED
  BY <1>2, <1>3, <1>4, <1>5 DEF TypeInv

\* Each of the ledger's statements, used as a LedgerCall's effect, is well-typed.
LEMMA StatementTypes ==
    ASSUME TypeInv, NEW r \in RunIds
    PROVE  /\ \A s \in Statuses \ {"none"} :
                SetRunStatus(r, s) \/ SetRunReason(r, s) =>
                /\ status' \in [RunIds -> Statuses]
                /\ \A q \in RunIds : status[q] # "none" => status'[q] # "none"
                /\ reason' \in [RunIds -> BOOLEAN]
                /\ ref' \in [RunIds -> BOOLEAN]
                /\ intents' \subseteq RunIds \X Results \X Payloads
           /\ SetRunRef(r) =>
                /\ status' \in [RunIds -> Statuses]
                /\ \A q \in RunIds : status[q] # "none" => status'[q] # "none"
                /\ reason' \in [RunIds -> BOOLEAN]
                /\ ref' \in [RunIds -> BOOLEAN]
                /\ intents' \subseteq RunIds \X Results \X Payloads
<1>1. /\ status \in [RunIds -> Statuses] /\ reason \in [RunIds -> BOOLEAN]
      /\ ref \in [RunIds -> BOOLEAN] /\ intents \subseteq RunIds \X Results \X Payloads
  BY DEF TypeInv, TypeOK
<1> QED
  BY <1>1 DEF SetRunStatus, SetRunReason, SetRunRef

\* Every step of a handler keeps the types.
LEMMA StepType ==
    ASSUME TypeInv, NEW w \in Workers, Step(w)
    PROVE  TypeInv'
<1>0. TypeOK /\ WorkersHoldRuns /\ EnvelopesAreSet /\ JobsHaveRuns
  BY DEF TypeInv
<1>h. pc[w] # "idle" => at[w] \in RunIds
  BY <1>0 DEF WorkersHoldRuns
<1>s. {"queued", "running", "succeeded", "failed", "needs_input"} \subseteq Statuses \ {"none"}
  BY DEF Statuses, Terminal
<1>r. CASE StartError(w) \/ Complete(w)
  <2>a. job' \in [RunIds -> JobStates]
    <3>1. job \in [RunIds -> JobStates] /\ RetryState(at[w]) \in JobStates /\ "completed" \in JobStates
      BY <1>0 DEF TypeOK, RetryState, JobStates
    <3> QED
      BY <1>r, <3>1 DEF StartError, Complete
  <2>b. since' \in [RunIds -> 0..Horizon]
    <3>1. since \in [RunIds -> 0..Horizon] /\ 0 \in 0..Horizon
      BY <1>0, BoundsAssumption DEF TypeOK
    <3> QED
      BY <1>r, <3>1 DEF StartError, Complete
  <2>2. pc' \in [Workers -> PCs] /\ at' \in [Workers -> RunIds \cup {"none"}]
    BY <1>0, <1>r DEF TypeOK, StartError, Complete, Release, PCs
  <2>3. env' \in [Workers -> Envs \cup {NoEnv}]
    BY <1>0, <1>r DEF TypeOK, StartError, Complete, Release
  <2>4. dbErrors' \in 0..MaxDbErrors /\ crashes' = crashes
    BY <1>0, <1>r, BoundsAssumption DEF TypeOK, StartError, Complete, DbError, faultVars
  <2>5. cancelled' = cancelled
    BY <1>r DEF StartError, Complete, DbError, faultVars
  <2>6. TypeOK'
    BY <1>0, <1>r, <2>a, <2>b, <2>2, <2>3, <2>4, <2>5
       DEF TypeOK, StartError, Complete, ledgerVars, dispatchVars
  <2>c. Release(w) /\ status' = status /\ pc[w] # "idle"
    BY <1>r DEF StartError, Complete, ledgerVars
  <2>d. /\ \A u \in Workers : u # w => pc'[u] = pc[u] /\ at'[u] = at[u] /\ env'[u] = env[u]
        /\ pc'[w] = "idle" /\ at'[w] = "none"
    BY <1>0, <2>c DEF TypeOK, Release
  <2>7. WorkersHoldRuns'
    BY <1>0, <2>c, <2>d DEF WorkersHoldRuns
  <2>8. EnvelopesAreSet'
    BY <1>0, <2>d DEF EnvelopesAreSet, Writing, Written
  <2>e. \A r \in RunIds : r # at[w] => job'[r] = job[r]
    BY <1>0, <1>r DEF TypeOK, StartError, Complete
  <2>9. JobsHaveRuns'
    BY <1>0, <1>h, <2>c, <2>e DEF JobsHaveRuns, WorkersHoldRuns
  <2> QED
    BY <2>6, <2>7, <2>8, <2>9 DEF TypeInv
<1>p. CASE AgentDone(w) \/ AgentBlockedIssue(w)
  <2>1. PICK k \in Results : Proposes(w, k, "execute")
    BY <1>p DEF AgentDone, AgentBlockedIssue, Results
  <2>2. PICK b \in Payloads : env' = [env EXCEPT ![w] = [kind |-> k, body |-> b]]
    BY <2>1 DEF Proposes
  <2>3. env' \in [Workers -> Envs \cup {NoEnv}] /\ env'[w] \in Envs
    BY <1>0, <2>2 DEF TypeOK, Envs
  <2>4. pc' \in [Workers -> PCs] /\ at' = at
    BY <1>0, <2>1 DEF TypeOK, Proposes, Goto, PCs
  <2>5. TypeOK'
    BY <1>0, <2>1, <2>3, <2>4
       DEF TypeOK, Proposes, ledgerVars, dispatchVars, queueVars, faultVars
  <2>6. WorkersHoldRuns'
    BY <1>0, <2>1 DEF TypeOK, WorkersHoldRuns, Proposes, Goto, ledgerVars
  <2>7. EnvelopesAreSet'
    BY <1>0, <2>1, <2>2, <2>3 DEF TypeOK, EnvelopesAreSet, Proposes, Goto
  <2> QED
    BY <1>0, <2>1, <2>5, <2>6, <2>7 DEF TypeInv, JobsHaveRuns, Proposes, ledgerVars, queueVars
<1>q. CASE Start(w) \/ Gate(w) \/ AgentFails(w) \/ AgentBlockedUpgrade(w)
           \/ ExecuteRefused(w) \/ ExecuteDeduped(w) \/ ExecuteFresh(w)
  <2>1. PICK next \in PCs \ {"idle"} :
          /\ Goto(w, next) /\ pc[w] # "idle"
          /\ next \in HasEnvelope => pc[w] = "execute"
    BY <1>q DEF Start, Gate, AgentFails, AgentBlockedUpgrade, ExecuteRefused, ExecuteError,
                ExecuteDeduped, ExecuteFresh, PCs, HasEnvelope, Writing, Written
  <2>2. UNCHANGED <<ledgerVars, dispatchVars, queueVars, age, gh, env, sched>>
    BY <1>q DEF Start, Gate, AgentFails, AgentBlockedUpgrade, ExecuteRefused,
                ExecuteDeduped, ExecuteFresh
  <2>3. dbErrors' \in 0..MaxDbErrors /\ crashes' = crashes
    BY <1>0, <1>q, BoundsAssumption
       DEF TypeOK, Start, Gate, AgentFails, AgentBlockedUpgrade, ExecuteRefused,
           ExecuteDeduped, ExecuteFresh, DbOk, DbError, faultVars
  <2>4. cancelled' = cancelled
    BY <1>q DEF Start, Gate, AgentFails, AgentBlockedUpgrade, ExecuteRefused,
                ExecuteDeduped, ExecuteFresh, DbOk, DbError, faultVars
  <2>5. TypeOK'
    BY <1>0, <2>1, <2>2, <2>3, <2>4 DEF TypeOK, Goto, ledgerVars, dispatchVars, queueVars
  <2>6. WorkersHoldRuns'
    BY <1>0, <2>1, <2>2 DEF TypeOK, WorkersHoldRuns, Goto, ledgerVars
  <2>7. EnvelopesAreSet'
    BY <1>0, <2>1, <2>2 DEF TypeOK, EnvelopesAreSet, Goto, HasEnvelope
  <2> QED
    BY <1>0, <2>2, <2>5, <2>6, <2>7 DEF TypeInv, JobsHaveRuns, ledgerVars, queueVars
<1>g. CASE Acknowledge(w) \/ Prepare(w) \/ WriteResult(w)
  <2>1. PICK x \in Effects, ok \in PCs \ {"idle"}, err \in PCs \ {"idle"} :
          /\ GitHubCall(w, x, ok, err) /\ pc[w] # "idle"
          /\ ok \in HasEnvelope => pc[w] \in HasEnvelope
          /\ err \in HasEnvelope => pc[w] \in HasEnvelope
    <3>1. CASE Acknowledge(w)
      BY <3>1 DEF Acknowledge, Effects, PCs, HasEnvelope, Writing, Written
    <3>2. CASE Prepare(w)
      BY <3>2 DEF Prepare, Effects, PCs, HasEnvelope, Writing, Written
    <3>3. CASE WriteResult(w)
      <4>1. env[w].kind \in Effects
        BY <1>0, <3>3 DEF EnvelopesAreSet, Envs, Effects, Writing, WriteResult
      <4> QED
        BY <3>3, <4>1 DEF WriteResult, ExecuteError, PCs, HasEnvelope, Writing, Written
    <3> QED
      BY <1>g, <3>1, <3>2, <3>3
  <2> QED
    BY <2>1, GitHubCallType
<1>1. CASE MarkRunning(w)
  BY <1>1, <1>h, <1>s, StatementTypes, LedgerCallType DEF MarkRunning, PCs, HasEnvelope, Writing, Written
<1>2. CASE StandDown(w)
  BY <1>2, <1>h, <1>s, StatementTypes, LedgerCallType DEF StandDown, PCs, HasEnvelope, Writing, Written
<1>3. CASE UpsertReviewComment(w)
  BY <1>3, <1>0, LedgerCallType DEF UpsertReviewComment, PCs, HasEnvelope, Writing, Written, TypeOK, ledgerVars
<1>4. CASE RecordIntent(w)
  <2>1. IdempotencyKey(w) \in RunIds \X Results \X Payloads
    BY <1>0, <1>4, <1>h DEF RecordIntent, EnvelopesAreSet, Envs, Written, IdempotencyKey
  <2> QED
    BY <1>4, <1>0, <2>1, LedgerCallType
       DEF RecordIntent, Record, ExecuteError, PCs, HasEnvelope, Writing, Written, TypeOK
<1>5. CASE RecordRef(w)
  BY <1>5, <1>h, StatementTypes, LedgerCallType DEF RecordRef, PCs, HasEnvelope, Writing, Written
<1>6. CASE Finish(w)
  BY <1>6, <1>h, <1>s, StatementTypes, LedgerCallType DEF Finish, PCs, HasEnvelope, Writing, Written
<1>7. CASE FailStatus(w)
  BY <1>7, <1>h, <1>s, StatementTypes, LedgerCallType DEF FailStatus, PCs, HasEnvelope, Writing, Written
<1>8. CASE FailReason(w)
  BY <1>8, <1>h, <1>s, StatementTypes, LedgerCallType DEF FailReason, PCs, HasEnvelope, Writing, Written
<1>9. CASE FailRun(w)
  BY <1>9, <1>h, <1>s, StatementTypes, LedgerCallType DEF FailRun, PCs, HasEnvelope, Writing, Written
<1> QED
  BY <1>r, <1>p, <1>q, <1>g, <1>1, <1>2, <1>3, <1>4, <1>5, <1>6, <1>7, <1>8, <1>9 DEF Step

\* Inserting a run, with or without its job, keeps the types.
LEMMA InsertType ==
    ASSUME TypeInv, NEW r \in RunIds, NEW g \in Grant, NEW d \in Deliveries \cup {"none"},
           InsertRun(r, g, d)
    PROVE  /\ status' \in [RunIds -> Statuses]
           /\ \A q \in RunIds : status[q] # "none" => status'[q] # "none"
           /\ grant' \in [RunIds -> Grant]
           /\ source' \in [RunIds -> Deliveries \cup {"none"}]
           /\ job' \in [RunIds -> JobStates]
           /\ \A q \in RunIds : status'[q] = "none" => job'[q] = "none"
<1>1. /\ status \in [RunIds -> Statuses] /\ grant \in [RunIds -> Grant]
      /\ source \in [RunIds -> Deliveries \cup {"none"}] /\ job \in [RunIds -> JobStates]
      /\ JobsHaveRuns
  BY DEF TypeInv, TypeOK
<1>2. {"denied", "queued"} \subseteq Statuses \ {"none"} /\ {"none", "available"} \subseteq JobStates
  BY DEF Statuses, Terminal, JobStates
<1> QED
  BY <1>1, <1>2 DEF InsertRun, JobsHaveRuns

\* Dispatch, the scheduler, River and the environment keep the types.
LEMMA OtherStepsType ==
    ASSUME TypeInv, Next, ~\E w \in Workers : Step(w)
    PROVE  TypeInv'
<1>0. TypeOK /\ WorkersHoldRuns /\ EnvelopesAreSet /\ JobsHaveRuns
  BY DEF TypeInv
<1>1. ASSUME NEW r \in RunIds, NEW d \in Deliveries, HandleEvent(r, d)
      PROVE  TypeInv'
  <2>1. Decide(triggerFromEvent(Webhook[d].event, Webhook[d].canWrite), Webhook[d].rules) \in Grant
    BY WebhookAssumption, DecideType
  <2>2. /\ status' \in [RunIds -> Statuses] /\ grant' \in [RunIds -> Grant]
        /\ \A q \in RunIds : status[q] # "none" => status'[q] # "none"
        /\ source' \in [RunIds -> Deliveries \cup {"none"}] /\ job' \in [RunIds -> JobStates]
        /\ \A q \in RunIds : status'[q] = "none" => job'[q] = "none"
    BY <1>1, <2>1, InsertType DEF HandleEvent
  <2>3. UNCHANGED <<reason, ref, intents, attempts, since, age, gh, workerVars, sched, faultVars>>
    BY <1>1 DEF HandleEvent
  <2>4. TypeOK'
    BY <1>0, <2>2, <2>3 DEF TypeOK, workerVars, faultVars
  <2> QED
    BY <1>0, <2>2, <2>3, <2>4 DEF TypeInv, WorkersHoldRuns, EnvelopesAreSet, JobsHaveRuns, TypeOK, workerVars
<1>2. ASSUME NEW s \in Schedulers, NEW r \in RunIds, ScheduleInsert(s, r)
      PROVE  TypeInv'
  <2>2. /\ status' \in [RunIds -> Statuses] /\ grant' \in [RunIds -> Grant]
        /\ \A q \in RunIds : status[q] # "none" => status'[q] # "none"
        /\ source' \in [RunIds -> Deliveries \cup {"none"}] /\ job' \in [RunIds -> JobStates]
        /\ \A q \in RunIds : status'[q] = "none" => job'[q] = "none"
    BY <1>2, InsertType, OtherGrantsType DEF ScheduleInsert
  <2>3. UNCHANGED <<reason, ref, intents, attempts, since, age, gh, workerVars, faultVars>>
    BY <1>2 DEF ScheduleInsert
  <2>4. sched' \in [Schedulers -> {"idle", "insert"}]
    BY <1>0, <1>2 DEF TypeOK, ScheduleInsert
  <2>5. TypeOK'
    BY <1>0, <2>2, <2>3, <2>4 DEF TypeOK, workerVars, faultVars
  <2> QED
    BY <1>0, <2>2, <2>3, <2>5 DEF TypeInv, WorkersHoldRuns, EnvelopesAreSet, JobsHaveRuns, TypeOK, workerVars
<1>3. ASSUME NEW s \in Schedulers, ScheduleCheck(s) \/ ScheduleError(s)
      PROVE  TypeInv'
  <2>1. sched' \in [Schedulers -> {"idle", "insert"}]
    BY <1>0, <1>3 DEF TypeOK, ScheduleCheck, ScheduleError
  <2>2. UNCHANGED <<ledgerVars, dispatchVars, queueVars, age, gh, workerVars, faultVars>>
    BY <1>3 DEF ScheduleCheck, ScheduleError
  <2> QED
    BY <1>0, <2>1, <2>2 DEF TypeInv, TypeOK, WorkersHoldRuns, EnvelopesAreSet, JobsHaveRuns,
       ledgerVars, dispatchVars, queueVars, workerVars, faultVars
<1>4. ASSUME NEW w \in Workers, NEW r \in RunIds, Fetch(w, r)
      PROVE  TypeInv'
  <2>1. /\ job' \in [RunIds -> JobStates] /\ pc' \in [Workers -> PCs]
        /\ at' \in [Workers -> RunIds \cup {"none"}]
    BY <1>0, <1>4 DEF TypeOK, Fetch, JobStates, PCs
  <2>2. attempts' \in [RunIds -> Nat] /\ since' \in [RunIds -> 0..Horizon]
    BY <1>0, <1>4, BoundsAssumption DEF TypeOK, Fetch
  <2>3. UNCHANGED <<ledgerVars, dispatchVars, age, gh, env, sched, faultVars>>
    BY <1>4 DEF Fetch
  <2>4. TypeOK'
    BY <1>0, <2>1, <2>2, <2>3 DEF TypeOK, ledgerVars, dispatchVars, faultVars
  <2>5. status[r] # "none"
    BY <1>0, <1>4 DEF JobsHaveRuns, Fetch
  <2>6. WorkersHoldRuns'
    BY <1>0, <1>4, <2>3, <2>5, NamesAssumption DEF TypeOK, WorkersHoldRuns, Fetch, ledgerVars
  <2>7. EnvelopesAreSet'
    BY <1>0, <1>4, <2>3 DEF TypeOK, EnvelopesAreSet, Fetch, Writing, Written
  <2>8. JobsHaveRuns'
    BY <1>0, <1>4, <2>3, <2>5 DEF TypeOK, JobsHaveRuns, Fetch, ledgerVars
  <2> QED
    BY <2>4, <2>6, <2>7, <2>8 DEF TypeInv
<1>5. CASE Tick
  <2>1. \A n \in 0..Horizon : Older(n) \in 0..Horizon
    BY BoundsAssumption DEF Older
  <2>2. age' \in [RunIds -> 0..Horizon] /\ since' \in [RunIds -> 0..Horizon]
    BY <1>0, <1>5, <2>1 DEF TypeOK, Tick
  <2>3. UNCHANGED <<ledgerVars, dispatchVars, job, attempts, gh, workerVars, sched, faultVars>>
    BY <1>5 DEF Tick
  <2> QED
    BY <1>0, <2>2, <2>3 DEF TypeInv, TypeOK, WorkersHoldRuns, EnvelopesAreSet, JobsHaveRuns,
       ledgerVars, dispatchVars, workerVars, faultVars
<1>6. ASSUME NEW r \in RunIds, Rescue(r)
      PROVE  TypeInv'
  <2>1. job' \in [RunIds -> JobStates]
    BY <1>0, <1>6 DEF TypeOK, Rescue, RetryState, JobStates
  <2>2. since' \in [RunIds -> 0..Horizon]
    BY <1>0, <1>6, BoundsAssumption DEF TypeOK, Rescue
  <2>3. UNCHANGED <<ledgerVars, dispatchVars, attempts, age, gh, workerVars, sched, faultVars>>
    BY <1>6 DEF Rescue
  <2>4. TypeOK'
    BY <1>0, <2>1, <2>2, <2>3 DEF TypeOK, ledgerVars, dispatchVars, workerVars, faultVars
  <2>5. JobsHaveRuns'
    BY <1>0, <1>6, <2>3 DEF TypeOK, JobsHaveRuns, Rescue, ledgerVars
  <2> QED
    BY <1>0, <2>3, <2>4, <2>5 DEF TypeInv, WorkersHoldRuns, EnvelopesAreSet, TypeOK, ledgerVars, workerVars
<1>7. CASE Crash
  <2>1. /\ pc' \in [Workers -> PCs] /\ at' \in [Workers -> RunIds \cup {"none"}]
        /\ env' \in [Workers -> Envs \cup {NoEnv}]
    BY <1>7 DEF Crash, PCs
  <2>2. crashes' \in 0..MaxCrashes
    BY <1>0, <1>7, BoundsAssumption DEF TypeOK, Crash
  <2>3. cancelled' \in BOOLEAN
    BY <1>7 DEF Crash
  <2>4. UNCHANGED <<ledgerVars, dispatchVars, queueVars, age, gh, sched, dbErrors>>
    BY <1>7 DEF Crash
  <2>5. TypeOK'
    BY <1>0, <2>1, <2>2, <2>3, <2>4 DEF TypeOK, ledgerVars, dispatchVars, queueVars
  <2>6. WorkersHoldRuns' /\ EnvelopesAreSet'
    BY <1>7 DEF Crash, WorkersHoldRuns, EnvelopesAreSet, Writing, Written
  <2> QED
    BY <1>0, <2>4, <2>5, <2>6 DEF TypeInv, JobsHaveRuns, ledgerVars, queueVars
<1>8. CASE Shutdown \/ Restart
  <2>1. cancelled' \in BOOLEAN
    BY <1>8 DEF Shutdown, Restart
  <2>2. UNCHANGED <<ledgerVars, dispatchVars, queueVars, age, gh, workerVars, sched, crashes, dbErrors>>
    BY <1>8 DEF Shutdown, Restart
  <2> QED
    BY <1>0, <2>1, <2>2 DEF TypeInv, TypeOK, WorkersHoldRuns, EnvelopesAreSet, JobsHaveRuns,
       ledgerVars, dispatchVars, queueVars, workerVars
<1> QED
  BY <1>1, <1>2, <1>3, <1>4, <1>5, <1>6, <1>7, <1>8 DEF Next

\* What every proof below starts from.
LEMMA TypeInvStep ==
    ASSUME TypeInv, [Next]_vars
    PROVE  TypeInv'
<1>1. CASE UNCHANGED vars
  BY <1>1 DEF TypeInv, TypeOK, WorkersHoldRuns, EnvelopesAreSet, JobsHaveRuns,
     vars, ledgerVars, dispatchVars, queueVars, workerVars, faultVars
<1>2. CASE \E w \in Workers : Step(w)
  BY <1>2, StepType
<1>3. CASE Next /\ ~\E w \in Workers : Step(w)
  BY <1>3, OtherStepsType
<1> QED
  BY <1>1, <1>2, <1>3

\* The ledger, the queue, the handlers and the executor keep every variable in
\* its type: in particular every status is one of the schema's and every recorded
\* key names a run, a kind of write and a payload.
THEOREM TypeCorrect == Spec => []TypeOK
<1>1. Init => TypeInv
  <2>1. Init => WorkersHoldRuns /\ EnvelopesAreSet /\ JobsHaveRuns
    BY DEF Init, WorkersHoldRuns, EnvelopesAreSet, JobsHaveRuns, Writing, Written
  <2> QED
    BY <2>1, InitType DEF TypeInv
<1>2. TypeInv /\ [Next]_vars => TypeInv'
  BY TypeInvStep
<1>3. TypeInv => TypeOK
  BY DEF TypeInv
<1> QED
  BY <1>1, <1>2, <1>3, PTL DEF Spec

-----------------------------------------------------------------------------
(***************************************************************************)
(* Part two.  Proved from RescueAfterExpiry: River does not hand a job out *)
(* a second time, after an attempt that never reported back, before every  *)
(* grant issued with it has expired.  The inductive invariant is           *)
(* AttemptDiscipline together with the types.                              *)
(***************************************************************************)

AttemptInv == TypeOK /\ AttemptDiscipline

\* The part of AttemptDiscipline that type correctness has not settled already.
Discipline ==
    /\ UndispatchedIsClean /\ AttemptsAreYounger /\ AvailableIsFresh
    /\ LiveGrantHasOneHandler /\ UncheckedHasNotWritten /\ OneWriter

\* AttemptInv is TypeInv and the rest.
LEMMA AttemptInvParts == AttemptInv <=> TypeInv /\ Discipline
  BY DEF AttemptInv, AttemptDiscipline, TypeInv, Discipline

-----------------------------------------------------------------------------
(* Handler steps *)

\* A step of handler w that neither passes Execute's check nor writes a result,
\* and keeps its job.
Quiet(w, next) ==
    /\ pc[w] # "idle" /\ next # "idle"
    /\ pc' = [pc EXCEPT ![w] = next] /\ at' = at
    /\ next \in BeforeCheck => pc[w] \in BeforeCheck
    /\ next \in Writing => pc[w] \in Writing /\ env' = env
    /\ \A v \in Workers : v # w => env'[v] = env[v]
    /\ \A r \in RunIds, x \in Results : gh'[r][x] = gh[r][x]
    /\ \A r \in RunIds : status'[r] = "none" => status[r] = "none"
    /\ UNCHANGED <<grant, age, job, since>>

\* A quiet step keeps the discipline.
LEMMA QuietKeeps ==
    ASSUME AttemptInv, NEW w \in Workers, NEW next \in PCs, Quiet(w, next)
    PROVE  Discipline'
<1>0. TypeInv /\ Discipline
  BY AttemptInvParts
<1>1. pc \in [Workers -> PCs] /\ at' = at /\ WorkersHoldRuns
  BY <1>0 DEF TypeInv, TypeOK, Quiet
<1>2. \A r \in RunIds : (Untouched(r) <=> Untouched(r)') /\ (Stale(r) <=> Stale(r)')
  BY DEF Untouched, Stale, Expired, Quiet
<1>3. \A v \in Workers : pc[v] # "idle" => at[v] \in RunIds
  BY <1>1 DEF WorkersHoldRuns
<1>4. \A v \in Workers : pc'[v] = IF v = w THEN next ELSE pc[v]
  BY <1>1 DEF Quiet
<1>5. UndispatchedIsClean' /\ AttemptsAreYounger'
  BY <1>0, <1>2 DEF Discipline, UndispatchedIsClean, AttemptsAreYounger, Quiet
<1>6. AvailableIsFresh'
  BY <1>0, <1>2 DEF Discipline, AvailableIsFresh, Quiet
<1>7. LiveGrantHasOneHandler'
  BY <1>0, <1>1, <1>2, <1>3, <1>4 DEF Discipline, LiveGrantHasOneHandler, Quiet
<1>8. UncheckedHasNotWritten'
  BY <1>0, <1>1, <1>2, <1>3, <1>4 DEF Discipline, UncheckedHasNotWritten, BeforeCheck, Quiet
<1>9. OneWriter'
  <2> SUFFICES ASSUME NEW v \in Workers, pc'[v] \in Writing
               PROVE  /\ Untouched(at[v])' /\ env'[v].kind \in grant'[at[v]].kinds
                      /\ \A u \in Workers : u # v /\ at[u] = at[v] => pc'[u] \notin Writing
    BY <1>1 DEF OneWriter
  <2>1. pc[v] \in Writing /\ pc[v] # "idle" /\ env'[v] = env[v]
    BY <1>4 DEF Writing, Quiet
  <2>2. /\ Untouched(at[v]) /\ env[v].kind \in grant[at[v]].kinds
        /\ \A u \in Workers : u # v /\ at[u] = at[v] => pc[u] \notin Writing
    BY <1>0, <2>1 DEF Discipline, OneWriter
  <2>3. \A u \in Workers : pc'[u] \in Writing => pc[u] \in Writing
    BY <1>4 DEF Writing, Quiet
  <2> QED
    BY <1>2, <1>3, <2>1, <2>2, <2>3 DEF Quiet
<1> QED
  BY <1>5, <1>6, <1>7, <1>8, <1>9 DEF Discipline

\* Every handler step is quiet, passes the check, writes, or gives the job back.
LEMMA StepKinds ==
    ASSUME AttemptInv, NEW w \in Workers, Step(w)
    PROVE  \/ \E next \in PCs : Quiet(w, next)
           \/ ExecuteFresh(w) \/ WriteResult(w) \/ StartError(w) \/ Complete(w)
<1>0. TypeInv /\ Discipline
  BY AttemptInvParts
<1>t. /\ status \in [RunIds -> Statuses] /\ gh \in [RunIds -> [Effects -> Nat]]
      /\ env \in [Workers -> Envs \cup {NoEnv}]
      /\ pc[w] # "idle" => at[w] \in RunIds
  BY <1>0 DEF TypeInv, TypeOK, WorkersHoldRuns
\* A ledger call that leaves every dispatched run dispatched is quiet.
<1>l. ASSUME NEW ok \in PCs \ ({"idle"} \cup BeforeCheck \cup Writing),
             NEW err \in PCs \ ({"idle"} \cup BeforeCheck \cup Writing),
             NEW ACTION A, LedgerCall(w, A, ok, err), pc[w] # "idle",
             A => \A r \in RunIds : status'[r] = "none" => status[r] = "none"
      PROVE  \E next \in PCs : Quiet(w, next)
  BY <1>l DEF LedgerCall, Goto, Quiet, ledgerVars, dispatchVars, queueVars
<1>s. \A s \in Statuses \ {"none"} : SetRunStatus(at[w], s) \/ SetRunReason(at[w], s) =>
          \A r \in RunIds : status'[r] = "none" => status[r] = "none"
  BY <1>t DEF SetRunStatus, SetRunReason
<1>c. /\ {"queued", "running", "succeeded", "failed", "needs_input"} \subseteq Statuses \ {"none"}
      /\ {"upsert", "record", "ref", "finish", "standDown", "fail", "failReason", "failRun", "complete"}
           \subseteq PCs \ ({"idle"} \cup BeforeCheck \cup Writing)
  BY DEF Statuses, Terminal, PCs, BeforeCheck, Writing
<1>q. CASE Start(w) \/ Gate(w) \/ AgentFails(w) \/ AgentBlockedUpgrade(w)
           \/ ExecuteRefused(w) \/ ExecuteDeduped(w)
  <2>1. PICK next \in PCs \ ({"idle"} \cup Writing) :
          /\ Goto(w, next) /\ pc[w] # "idle"
          /\ next \in BeforeCheck => pc[w] \in BeforeCheck
    BY <1>q DEF Start, Gate, AgentFails, AgentBlockedUpgrade, ExecuteRefused, ExecuteError,
                ExecuteDeduped, PCs, BeforeCheck, Writing
  <2>2. UNCHANGED <<ledgerVars, dispatchVars, queueVars, age, gh, env, sched>>
    BY <1>q DEF Start, Gate, AgentFails, AgentBlockedUpgrade, ExecuteRefused, ExecuteDeduped
  <2> QED
    BY <2>1, <2>2 DEF Goto, Quiet, ledgerVars, dispatchVars, queueVars
<1>p. CASE AgentDone(w) \/ AgentBlockedIssue(w)
  <2>1. PICK k \in Results : Proposes(w, k, "execute")
    BY <1>p DEF AgentDone, AgentBlockedIssue, Results
  <2>2. PICK b \in Payloads : env' = [env EXCEPT ![w] = [kind |-> k, body |-> b]]
    BY <2>1 DEF Proposes
  <2>3. \A v \in Workers : v # w => env'[v] = env[v]
    BY <1>t, <2>2
  <2>4. Quiet(w, "execute") /\ "execute" \in PCs
    BY <2>1, <2>3 DEF Proposes, Goto, Quiet, BeforeCheck, Writing, PCs, ledgerVars, dispatchVars, queueVars
  <2> QED
    BY <2>4
<1>g. CASE Acknowledge(w) \/ Prepare(w)
  <2>1. PICK x \in Effects \ Results, ok \in PCs, err \in PCs :
          /\ GitHubCall(w, x, ok, err) /\ pc[w] # "idle"
          /\ ok # "idle" /\ err # "idle"
          /\ ok \in BeforeCheck => pc[w] \in BeforeCheck
          /\ err \in BeforeCheck => pc[w] \in BeforeCheck
          /\ ok \in Writing => pc[w] \in Writing
          /\ err \in Writing => pc[w] \in Writing
    <3>1. CASE Acknowledge(w)
      BY <3>1 DEF Acknowledge, Effects, Results, PCs, BeforeCheck, Writing
    <3>2. CASE Prepare(w)
      BY <3>2 DEF Prepare, Effects, Results, PCs, BeforeCheck, Writing
    <3> QED
      BY <1>g, <3>1, <3>2
  <2>2. \A r \in RunIds, y \in Results : gh'[r][y] = gh[r][y]
    <3>1. gh[at[w]] \in [Effects -> Nat]
      BY <1>t, <2>1
    <3>2. \A y \in Results : [gh[at[w]] EXCEPT ![x] = @ + 1][y] = gh[at[w]][y]
      BY <2>1, <3>1 DEF Effects
    <3> QED
      BY <1>t, <2>1, <3>2 DEF GitHubCall
  <2>3. PICK next \in {ok, err} : Goto(w, next)
    BY <2>1 DEF GitHubCall
  <2>4. Quiet(w, next)
    BY <2>1, <2>2, <2>3 DEF GitHubCall, Goto, Quiet, ledgerVars, dispatchVars, queueVars
  <2> QED
    BY <2>3, <2>4
<1>1. CASE MarkRunning(w)
  <2>1. PICK next \in {"gate", "failRun"} : Goto(w, next)
    BY <1>1 DEF MarkRunning, LedgerCall
  <2>2. \A r \in RunIds : status'[r] = "none" => status[r] = "none"
    BY <1>1, <1>s, <1>c DEF MarkRunning, LedgerCall, ledgerVars
  <2>3. Quiet(w, next) /\ next \in PCs
    BY <1>1, <2>1, <2>2
       DEF MarkRunning, LedgerCall, Goto, Quiet, BeforeCheck, Writing, PCs, dispatchVars, queueVars
  <2> QED
    BY <2>3
<1>2. CASE StandDown(w)
  BY <1>2, <1>s, <1>c, <1>l DEF StandDown
<1>3. CASE UpsertReviewComment(w)
  BY <1>3, <1>c, <1>l DEF UpsertReviewComment, ledgerVars
<1>4. CASE RecordIntent(w)
  BY <1>4, <1>c, <1>l DEF RecordIntent, Record, ExecuteError
<1>5. CASE RecordRef(w)
  BY <1>5, <1>c, <1>l DEF RecordRef, SetRunRef
<1>6. CASE Finish(w)
  BY <1>6, <1>s, <1>c, <1>l DEF Finish
<1>7. CASE FailStatus(w)
  BY <1>7, <1>s, <1>c, <1>l DEF FailStatus
<1>8. CASE FailReason(w)
  BY <1>8, <1>s, <1>c, <1>l DEF FailReason
<1>9. CASE FailRun(w)
  BY <1>9, <1>s, <1>c, <1>l DEF FailRun
<1> QED
  BY <1>q, <1>p, <1>g, <1>1, <1>2, <1>3, <1>4, <1>5, <1>6, <1>7, <1>8, <1>9 DEF Step

\* Passing Execute's check: the grant is alive, so nobody else is at the run and
\* nothing has been written for it.
LEMMA ExecuteFreshKeeps ==
    ASSUME AttemptInv, NEW w \in Workers, ExecuteFresh(w)
    PROVE  Discipline'
<1>0. TypeInv /\ Discipline
  BY AttemptInvParts
<1>1. /\ pc \in [Workers -> PCs] /\ pc[w] = "execute" /\ at[w] \in RunIds
      /\ \A v \in Workers : pc[v] # "idle" => at[v] \in RunIds
  BY <1>0 DEF TypeInv, TypeOK, WorkersHoldRuns, ExecuteFresh
<1>2. UNCHANGED <<grant, age, job, since, status, gh, at, env>>
  BY DEF ExecuteFresh, Goto, ledgerVars, dispatchVars, queueVars
<1>3. PICK next \in Writing : \A v \in Workers : pc'[v] = IF v = w THEN next ELSE pc[v]
  BY <1>1 DEF ExecuteFresh, Goto, Writing
<1>4. ~Stale(at[w]) /\ env[w].kind \in grant[at[w]].kinds
  BY DEF ExecuteFresh, Valid, Validate, Stale
<1>5. Untouched(at[w]) /\ \A v \in Workers : v # w => at[v] # at[w]
  BY <1>0, <1>1, <1>4 DEF Discipline, UncheckedHasNotWritten, LiveGrantHasOneHandler, BeforeCheck
<1>6. \A r \in RunIds : (Untouched(r) <=> Untouched(r)') /\ (Stale(r) <=> Stale(r)')
  BY <1>2 DEF Untouched, Stale, Expired
<1>7. UndispatchedIsClean' /\ AttemptsAreYounger' /\ AvailableIsFresh'
  BY <1>0, <1>2, <1>6 DEF Discipline, UndispatchedIsClean, AttemptsAreYounger, AvailableIsFresh
<1>8. LiveGrantHasOneHandler'
  BY <1>0, <1>1, <1>2, <1>3, <1>5, <1>6 DEF Discipline, LiveGrantHasOneHandler
<1>9. UncheckedHasNotWritten'
  BY <1>0, <1>1, <1>2, <1>3, <1>6 DEF Discipline, UncheckedHasNotWritten, BeforeCheck, Writing
<1>10. OneWriter'
  BY <1>0, <1>1, <1>2, <1>3, <1>4, <1>5, <1>6 DEF Discipline, OneWriter, Writing
<1> QED
  BY <1>7, <1>8, <1>9, <1>10 DEF Discipline

\* The write itself touches only the writer's run, of which it is the one writer.
LEMMA WriteResultKeeps ==
    ASSUME AttemptInv, NEW w \in Workers, WriteResult(w)
    PROVE  Discipline'
<1>0. TypeInv /\ Discipline
  BY AttemptInvParts
<1>1. /\ pc \in [Workers -> PCs] /\ pc[w] = "write" /\ at[w] \in RunIds
      /\ gh \in [RunIds -> [Effects -> Nat]] /\ status[at[w]] # "none"
      /\ \A v \in Workers : pc[v] # "idle" => at[v] \in RunIds
  BY <1>0 DEF TypeInv, TypeOK, WorkersHoldRuns, WriteResult
<1>2. UNCHANGED <<grant, age, job, since, status, at, env>>
  BY DEF WriteResult, GitHubCall, Goto, ledgerVars, dispatchVars, queueVars
<1>3. PICK next : /\ next \notin BeforeCheck \cup Writing \cup {"idle"}
                  /\ \A v \in Workers : pc'[v] = IF v = w THEN next ELSE pc[v]
  BY <1>1 DEF WriteResult, GitHubCall, ExecuteError, Goto, Writing, BeforeCheck
<1>4. \A r \in RunIds : r # at[w] => gh'[r] = gh[r]
  BY <1>1 DEF WriteResult, GitHubCall
<1>5. \A r \in RunIds : r # at[w] => (Untouched(r) <=> Untouched(r)')
  BY <1>4 DEF Untouched
<1>6. \A r \in RunIds : Stale(r) <=> Stale(r)'
  BY <1>2 DEF Stale, Expired
<1>7. UndispatchedIsClean' /\ AttemptsAreYounger' /\ AvailableIsFresh'
  BY <1>0, <1>1, <1>2, <1>5, <1>6
     DEF Discipline, UndispatchedIsClean, AttemptsAreYounger, AvailableIsFresh
<1>8. LiveGrantHasOneHandler'
  BY <1>0, <1>1, <1>2, <1>3, <1>6 DEF Discipline, LiveGrantHasOneHandler
<1>9. UncheckedHasNotWritten'
  BY <1>0, <1>1, <1>2, <1>3, <1>5, <1>6
     DEF Discipline, UncheckedHasNotWritten, LiveGrantHasOneHandler, BeforeCheck
<1>10. OneWriter'
  BY <1>0, <1>1, <1>2, <1>3, <1>5 DEF Discipline, OneWriter, Writing
<1> QED
  BY <1>7, <1>8, <1>9, <1>10 DEF Discipline

\* A handler that gives its job back before or after the check leaves a fresh job
\* behind only if it was alone and has written nothing.
LEMMA ReleaseKeeps ==
    ASSUME AttemptInv, NEW w \in Workers, StartError(w) \/ Complete(w)
    PROVE  Discipline'
<1>0. TypeInv /\ Discipline
  BY AttemptInvParts
<1>1. /\ pc \in [Workers -> PCs] /\ pc[w] \in {"start", "complete"} /\ at[w] \in RunIds
      /\ at \in [Workers -> RunIds \cup {"none"}] /\ env \in [Workers -> Envs \cup {NoEnv}]
      /\ job \in [RunIds -> JobStates] /\ since \in [RunIds -> 0..Horizon]
      /\ age \in [RunIds -> 0..Horizon]
      /\ \A v \in Workers : pc[v] # "idle" => at[v] \in RunIds
  BY <1>0 DEF TypeInv, TypeOK, WorkersHoldRuns, StartError, Complete
<1>2. UNCHANGED <<grant, age, status, gh>>
  BY DEF StartError, Complete, ledgerVars, dispatchVars
<1>3. \A v \in Workers : /\ pc'[v] = IF v = w THEN "idle" ELSE pc[v]
                         /\ at'[v] = IF v = w THEN "none" ELSE at[v]
                         /\ v # w => env'[v] = env[v]
  BY <1>1 DEF StartError, Complete, Release
<1>4. \A r \in RunIds : (Untouched(r) <=> Untouched(r)') /\ (Stale(r) <=> Stale(r)')
  BY <1>2 DEF Untouched, Stale, Expired
<1>5. \A r \in RunIds : job'[r] = "available" => job[r] = "available" \/ (r = at[w] /\ pc[w] = "start")
  BY <1>1 DEF StartError, Complete
<1>6. \A r \in RunIds : since'[r] <= since[r]
  BY <1>1, BoundsAssumption DEF StartError, Complete
<1>7. UndispatchedIsClean'
  BY <1>0, <1>2, <1>4 DEF Discipline, UndispatchedIsClean
<1>8. AttemptsAreYounger'
  <2>1. \A r \in RunIds : since'[r] \in 0..Horizon /\ since[r] \in 0..Horizon /\ age[r] \in 0..Horizon
    BY <1>1, BoundsAssumption DEF StartError, Complete
  <2> QED
    BY <1>0, <1>2, <1>6, <2>1, BoundsAssumption DEF Discipline, AttemptsAreYounger
<1>9. AvailableIsFresh'
  <2> SUFFICES ASSUME NEW r \in RunIds, job'[r] = "available", ~Stale(r)
               PROVE  Untouched(r) /\ \A v \in Workers : at'[v] # r
    BY <1>4 DEF AvailableIsFresh
  <2>1. CASE job[r] = "available"
    BY <1>0, <1>3, <2>1, NamesAssumption DEF Discipline, AvailableIsFresh
  <2>2. CASE r = at[w] /\ pc[w] = "start"
    BY <1>0, <1>1, <1>3, <2>2, NamesAssumption
       DEF Discipline, UncheckedHasNotWritten, LiveGrantHasOneHandler, BeforeCheck
  <2> QED
    BY <1>5, <2>1, <2>2
<1>10. LiveGrantHasOneHandler'
  BY <1>0, <1>1, <1>3, <1>4, NamesAssumption DEF Discipline, LiveGrantHasOneHandler
<1>11. UncheckedHasNotWritten'
  BY <1>0, <1>1, <1>3, <1>4 DEF Discipline, UncheckedHasNotWritten, BeforeCheck
<1>12. OneWriter'
  BY <1>0, <1>1, <1>2, <1>3, <1>4 DEF Discipline, OneWriter, Writing
<1> QED
  BY <1>7, <1>8, <1>9, <1>10, <1>11, <1>12 DEF Discipline

-----------------------------------------------------------------------------
(* Dispatch, River, time and the process *)

\* A new run is at no handler and has nothing on GitHub.
LEMMA InsertKeeps ==
    ASSUME AttemptInv, NEW r \in RunIds, NEW g \in Grant, NEW d, status[r] = "none",
           InsertRun(r, g, d), UNCHANGED <<since, age, gh, workerVars>>
    PROVE  Discipline'
<1>0. TypeInv /\ Discipline
  BY AttemptInvParts
<1>1. /\ status \in [RunIds -> Statuses] /\ grant \in [RunIds -> Grant]
      /\ job \in [RunIds -> JobStates]
      /\ \A v \in Workers : pc[v] # "idle" => at[v] \in RunIds
      /\ \A v \in Workers : pc[v] = "idle" => at[v] = "none"
      /\ \A v \in Workers : pc[v] # "idle" => status[at[v]] # "none"
  BY <1>0 DEF TypeInv, TypeOK, WorkersHoldRuns
<1>2. Untouched(r) /\ \A v \in Workers : at[v] # r
  BY <1>0, <1>1, NamesAssumption DEF Discipline, UndispatchedIsClean
<1>3. \A q \in RunIds : q # r => grant'[q] = grant[q] /\ job'[q] = job[q] /\ status'[q] = status[q]
  BY <1>1 DEF InsertRun
<1>4. UNCHANGED <<pc, at, env>> /\ UNCHANGED <<since, age, gh>> /\ status'[r] # "none"
  BY <1>1 DEF workerVars, InsertRun
<1>5. \A q \in RunIds : (Untouched(q) <=> Untouched(q)') /\ (q # r => (Stale(q) <=> Stale(q)'))
  BY <1>3, <1>4 DEF Untouched, Stale, Expired
<1>6. UndispatchedIsClean' /\ AttemptsAreYounger' /\ AvailableIsFresh'
  BY <1>0, <1>2, <1>3, <1>4, <1>5
     DEF Discipline, UndispatchedIsClean, AttemptsAreYounger, AvailableIsFresh
<1>7. LiveGrantHasOneHandler'
  BY <1>0, <1>1, <1>2, <1>4, <1>5 DEF Discipline, LiveGrantHasOneHandler
<1>8. UncheckedHasNotWritten'
  BY <1>0, <1>1, <1>2, <1>4, <1>5 DEF Discipline, UncheckedHasNotWritten, BeforeCheck
<1>9. OneWriter'
  BY <1>0, <1>1, <1>2, <1>3, <1>4, <1>5 DEF Discipline, OneWriter, Writing
<1> QED
  BY <1>6, <1>7, <1>8, <1>9 DEF Discipline

\* A fetched job whose grant is alive has not been attempted before.
LEMMA FetchKeeps ==
    ASSUME AttemptInv, NEW w \in Workers, NEW r \in RunIds, Fetch(w, r)
    PROVE  Discipline'
<1>0. TypeInv /\ Discipline
  BY AttemptInvParts
<1>1. /\ pc \in [Workers -> PCs] /\ at \in [Workers -> RunIds \cup {"none"}]
      /\ job \in [RunIds -> JobStates] /\ since \in [RunIds -> 0..Horizon]
      /\ age \in [RunIds -> 0..Horizon]
      /\ \A v \in Workers : pc[v] # "idle" => at[v] \in RunIds
  BY <1>0 DEF TypeInv, TypeOK, WorkersHoldRuns
<1>2. UNCHANGED <<grant, age, status, gh, env>>
  BY DEF Fetch, ledgerVars, dispatchVars
<1>3. \A v \in Workers : /\ pc'[v] = IF v = w THEN "start" ELSE pc[v]
                         /\ at'[v] = IF v = w THEN r ELSE at[v]
  BY <1>1 DEF Fetch
<1>4. \A q \in RunIds : (Untouched(q) <=> Untouched(q)') /\ (Stale(q) <=> Stale(q)')
  BY <1>2 DEF Untouched, Stale, Expired
<1>5. ~Stale(r) => Untouched(r) /\ \A v \in Workers : at[v] # r
  BY <1>0 DEF Discipline, AvailableIsFresh, Fetch
<1>6. \A q \in RunIds : job'[q] = "available" => q # r /\ job[q] = "available"
  BY <1>1 DEF Fetch
<1>7. UndispatchedIsClean' /\ AvailableIsFresh'
  BY <1>0, <1>2, <1>3, <1>4, <1>6 DEF Discipline, UndispatchedIsClean, AvailableIsFresh
<1>8. AttemptsAreYounger'
  <2>1. \A q \in RunIds : since'[q] = IF q = r THEN 0 ELSE since[q]
    BY <1>1 DEF Fetch
  <2>2. \A q \in RunIds : age[q] \in 0..Horizon /\ since[q] <= age[q]
    BY <1>0, <1>1 DEF Discipline, AttemptsAreYounger
  <2> QED
    BY <1>2, <2>1, <2>2, BoundsAssumption DEF AttemptsAreYounger
<1>9. LiveGrantHasOneHandler'
  BY <1>0, <1>1, <1>3, <1>4, <1>5 DEF Discipline, LiveGrantHasOneHandler
<1>10. UncheckedHasNotWritten'
  BY <1>0, <1>1, <1>3, <1>4, <1>5 DEF Discipline, UncheckedHasNotWritten, BeforeCheck
<1>11. OneWriter'
  BY <1>0, <1>1, <1>2, <1>3, <1>4 DEF Discipline, OneWriter, Writing
<1> QED
  BY <1>7, <1>8, <1>9, <1>10, <1>11 DEF Discipline

\* Time only makes grants staler, and an attempt ages no faster than its grant.
LEMMA TickKeeps ==
    ASSUME AttemptInv, Tick
    PROVE  Discipline'
<1>0. TypeInv /\ Discipline
  BY AttemptInvParts
<1>1. /\ since \in [RunIds -> 0..Horizon] /\ age \in [RunIds -> 0..Horizon]
      /\ grant \in [RunIds -> Grant] /\ JobsHaveRuns
      /\ \A v \in Workers : pc[v] # "idle" => at[v] \in RunIds
  BY <1>0 DEF TypeInv, TypeOK, WorkersHoldRuns
<1>2. UNCHANGED <<grant, status, gh, pc, at, env, job>>
  BY DEF Tick, ledgerVars, dispatchVars, workerVars
<1>3. \A r \in RunIds : age'[r] \in 0..Horizon /\ age'[r] >= age[r]
  BY <1>1, BoundsAssumption DEF Tick, Older
<1>4. \A r \in RunIds : (Untouched(r) <=> Untouched(r)') /\ (Stale(r) => Stale(r)')
  <2>1. \A r \in RunIds : grant[r].ttl \in Int
    BY <1>1, TTLAssumption DEF Grant
  <2> QED
    BY <1>1, <1>2, <1>3, <2>1, BoundsAssumption DEF Untouched, Stale, Expired
<1>5. UndispatchedIsClean' /\ AvailableIsFresh'
  BY <1>0, <1>2, <1>4 DEF Discipline, UndispatchedIsClean, AvailableIsFresh
<1>6. AttemptsAreYounger'
  BY <1>0, <1>1, BoundsAssumption DEF Discipline, AttemptsAreYounger, JobsHaveRuns, Tick, Older
<1>7. LiveGrantHasOneHandler'
  BY <1>0, <1>1, <1>2, <1>4 DEF Discipline, LiveGrantHasOneHandler
<1>8. UncheckedHasNotWritten'
  BY <1>0, <1>1, <1>2, <1>4 DEF Discipline, UncheckedHasNotWritten, BeforeCheck
<1>9. OneWriter'
  BY <1>0, <1>1, <1>2, <1>4 DEF Discipline, OneWriter, Writing
<1> QED
  BY <1>5, <1>6, <1>7, <1>8, <1>9 DEF Discipline

\* A rescued job's grant has expired: its attempt alone is older than any ttl.
LEMMA RescueKeeps ==
    ASSUME RescueAfterExpiry, AttemptInv, NEW r \in RunIds, Rescue(r)
    PROVE  Discipline'
<1>0. TypeInv /\ Discipline
  BY AttemptInvParts
<1>1. /\ since \in [RunIds -> 0..Horizon] /\ age \in [RunIds -> 0..Horizon]
      /\ grant \in [RunIds -> Grant] /\ job \in [RunIds -> JobStates]
      /\ \A v \in Workers : pc[v] # "idle" => at[v] \in RunIds
  BY <1>0 DEF TypeInv, TypeOK, WorkersHoldRuns
<1>2. UNCHANGED <<grant, status, gh, pc, at, env, age>>
  BY DEF Rescue, ledgerVars, dispatchVars, workerVars
<1>3. Stale(r)
  <2>1. grant[r].ttl \in {0, WebhookTTL, UpgradeTTL} /\ age[r] \in 0..Horizon /\ since[r] \in 0..Horizon
    BY <1>1 DEF Grant
  <2>2. since[r] <= age[r] /\ since[r] > RescueAfter
    BY <1>0 DEF Discipline, AttemptsAreYounger, Rescue
  <2> QED
    BY <2>1, <2>2, BoundsAssumption, TTLAssumption DEF Stale, Expired, RescueAfterExpiry
<1>4. \A q \in RunIds : (Untouched(q) <=> Untouched(q)') /\ (Stale(q) <=> Stale(q)')
  BY <1>2 DEF Untouched, Stale, Expired
<1>5. \A q \in RunIds : q # r => job'[q] = job[q]
  BY <1>1 DEF Rescue
<1>6. UndispatchedIsClean' /\ AvailableIsFresh'
  BY <1>0, <1>2, <1>3, <1>4, <1>5 DEF Discipline, UndispatchedIsClean, AvailableIsFresh
<1>7. AttemptsAreYounger'
  <2>1. \A q \in RunIds : since'[q] = IF q = r THEN 0 ELSE since[q]
    BY <1>1 DEF Rescue
  <2>2. \A q \in RunIds : age[q] \in 0..Horizon /\ since[q] <= age[q]
    BY <1>0, <1>1 DEF Discipline, AttemptsAreYounger
  <2> QED
    BY <1>2, <2>1, <2>2, BoundsAssumption DEF AttemptsAreYounger
<1>8. LiveGrantHasOneHandler'
  BY <1>0, <1>1, <1>2, <1>4 DEF Discipline, LiveGrantHasOneHandler
<1>9. UncheckedHasNotWritten'
  BY <1>0, <1>1, <1>2, <1>4 DEF Discipline, UncheckedHasNotWritten, BeforeCheck
<1>10. OneWriter'
  BY <1>0, <1>1, <1>2, <1>4 DEF Discipline, OneWriter, Writing
<1> QED
  BY <1>6, <1>7, <1>8, <1>9, <1>10 DEF Discipline

\* A crash empties the handlers and leaves everything else as it is.
LEMMA CrashKeeps ==
    ASSUME AttemptInv, Crash
    PROVE  Discipline'
<1>0. Discipline
  BY AttemptInvParts
<1>1. UNCHANGED <<grant, status, gh, job, since, age>>
  BY DEF Crash, ledgerVars, dispatchVars, queueVars
<1>2. \A v \in Workers : pc'[v] = "idle" /\ at'[v] = "none"
  BY DEF Crash
<1>3. \A q \in RunIds : (Untouched(q) <=> Untouched(q)') /\ (Stale(q) <=> Stale(q)')
  BY <1>1 DEF Untouched, Stale, Expired
<1>4. UndispatchedIsClean' /\ AttemptsAreYounger'
  BY <1>0, <1>1, <1>3 DEF Discipline, UndispatchedIsClean, AttemptsAreYounger
<1>5. AvailableIsFresh'
  BY <1>0, <1>1, <1>2, <1>3, NamesAssumption DEF Discipline, AvailableIsFresh
<1>6. LiveGrantHasOneHandler' /\ UncheckedHasNotWritten' /\ OneWriter'
  BY <1>2 DEF LiveGrantHasOneHandler, UncheckedHasNotWritten, OneWriter, BeforeCheck, Writing
<1> QED
  BY <1>4, <1>5, <1>6 DEF Discipline

\* Steps that leave runs, jobs, clocks and handlers alone.
LEMMA IdleKeeps ==
    ASSUME AttemptInv, UNCHANGED <<grant, status, gh, job, since, age, pc, at, env>>
    PROVE  Discipline'
<1>0. Discipline
  BY AttemptInvParts
<1>1. \A q \in RunIds : (Untouched(q) <=> Untouched(q)') /\ (Stale(q) <=> Stale(q)')
  BY DEF Untouched, Stale, Expired
<1>2. UndispatchedIsClean' /\ AttemptsAreYounger' /\ AvailableIsFresh'
  BY <1>0, <1>1 DEF Discipline, UndispatchedIsClean, AttemptsAreYounger, AvailableIsFresh
<1>3. LiveGrantHasOneHandler' /\ UncheckedHasNotWritten' /\ OneWriter'
  BY <1>0 DEF Discipline, LiveGrantHasOneHandler, UncheckedHasNotWritten, OneWriter,
              BeforeCheck, Writing, Untouched, Stale, Expired
<1> QED
  BY <1>2, <1>3 DEF Discipline

-----------------------------------------------------------------------------
(* The theorems *)

\* The discipline is inductive.
LEMMA AttemptInvStep ==
    ASSUME RescueAfterExpiry, AttemptInv, [Next]_vars
    PROVE  AttemptInv'
<1>0. TypeInv'
  BY AttemptInvParts, TypeInvStep
<1>1. UNCHANGED vars => Discipline'
  BY IdleKeeps DEF vars, ledgerVars, dispatchVars, queueVars, workerVars
<1>2. ASSUME NEW w \in Workers, Step(w)
      PROVE  Discipline'
  BY <1>2, StepKinds, QuietKeeps, ExecuteFreshKeeps, WriteResultKeeps, ReleaseKeeps
<1>3. ASSUME NEW r \in RunIds, NEW d \in Deliveries, HandleEvent(r, d)
      PROVE  Discipline'
  BY <1>3, InsertKeeps, DecideType, WebhookAssumption DEF HandleEvent
<1>4. ASSUME NEW s \in Schedulers, NEW r \in RunIds, ScheduleInsert(s, r)
      PROVE  Discipline'
  BY <1>4, InsertKeeps, OtherGrantsType DEF ScheduleInsert
<1>5. ASSUME NEW s \in Schedulers, ScheduleCheck(s) \/ ScheduleError(s)
      PROVE  Discipline'
  BY <1>5, IdleKeeps DEF ScheduleCheck, ScheduleError, ledgerVars, dispatchVars, queueVars, workerVars
<1>6. Shutdown \/ Restart => Discipline'
  BY IdleKeeps DEF Shutdown, Restart, ledgerVars, dispatchVars, queueVars, workerVars
<1>7. Discipline'
  BY <1>1, <1>2, <1>3, <1>4, <1>5, <1>6, FetchKeeps, TickKeeps, RescueKeeps, CrashKeeps DEF Next
<1> QED
  BY <1>0, <1>7 DEF AttemptInv, AttemptDiscipline, TypeInv, Discipline

\* The invariant holds at the start.
LEMMA AttemptInvInit == Init => AttemptInv
<1> SUFFICES ASSUME Init PROVE AttemptInv
  OBVIOUS
<1>1. WorkersHoldRuns /\ EnvelopesAreSet /\ JobsHaveRuns
  BY DEF Init, WorkersHoldRuns, EnvelopesAreSet, JobsHaveRuns, Writing, Written
<1>2. \A r \in RunIds : Untouched(r)
  BY DEF Init, Untouched, Results, Effects
<1>3. UndispatchedIsClean /\ AttemptsAreYounger /\ AvailableIsFresh
  BY <1>2 DEF Init, UndispatchedIsClean, AttemptsAreYounger, AvailableIsFresh
<1>4. LiveGrantHasOneHandler /\ UncheckedHasNotWritten /\ OneWriter
  BY DEF Init, LiveGrantHasOneHandler, UncheckedHasNotWritten, OneWriter, BeforeCheck, Writing
<1> QED
  BY InitType, <1>1, <1>3, <1>4 DEF AttemptInv, AttemptDiscipline

\* While a grant is alive its run has one handler, which has written nothing it
\* could repeat, whatever fails, crashes or is rescued.
THEOREM AttemptsAreDisciplined ==
    ASSUME RescueAfterExpiry
    PROVE  Spec => []AttemptDiscipline
<1>1. Init => AttemptInv
  BY AttemptInvInit
<1>2. AttemptInv /\ [Next]_vars => AttemptInv'
  BY AttemptInvStep
<1>3. AttemptInv => AttemptDiscipline
  BY DEF AttemptInv
<1> QED
  BY <1>1, <1>2, <1>3, PTL DEF Spec

-----------------------------------------------------------------------------
(* What a step can change of what others see *)

\* No result is written; at most a run that has none receives its grant.
NoResult ==
    /\ \A r \in RunIds, x \in Results : gh'[r][x] = gh[r][x]
    /\ \/ grant' = grant
       \/ \E r \in RunIds, g \in Grant :
            grant[r] = NoGrant /\ Untouched(r) /\ grant' = [grant EXCEPT ![r] = g]

\* Run r gets its first result, x, which its grant allows.
OneResult(r, x) ==
    /\ grant' = grant
    /\ x \in grant[r].kinds /\ Untouched(r)
    /\ \A q \in RunIds, y \in Results :
          gh'[q][y] = IF q = r /\ y = x THEN gh[q][y] + 1 ELSE gh[q][y]

\* Every step is one or the other.
LEMMA StepEffects ==
    ASSUME AttemptInv, [Next]_vars
    PROVE  NoResult \/ \E r \in RunIds, x \in Results : OneResult(r, x)
<1>0. TypeInv /\ Discipline
  BY AttemptInvParts
<1>1. UNCHANGED vars => NoResult
  BY DEF vars, dispatchVars, NoResult
<1>2. ASSUME NEW w \in Workers, Step(w)
      PROVE  NoResult \/ \E r \in RunIds, x \in Results : OneResult(r, x)
  <2>1. CASE \E next \in PCs : Quiet(w, next)
    BY <2>1 DEF Quiet, NoResult
  <2>2. CASE ExecuteFresh(w) \/ StartError(w) \/ Complete(w)
    BY <2>2 DEF ExecuteFresh, StartError, Complete, dispatchVars, NoResult
  <2>3. CASE WriteResult(w)
    <3>1. /\ at[w] \in RunIds /\ env[w].kind \in Results
          /\ gh \in [RunIds -> [Effects -> Nat]]
      BY <1>0, <2>3 DEF WriteResult, TypeInv, TypeOK, WorkersHoldRuns, EnvelopesAreSet, Envs, Writing
    <3>2. env[w].kind \in grant[at[w]].kinds /\ Untouched(at[w]) /\ grant' = grant
      BY <1>0, <2>3 DEF WriteResult, GitHubCall, Discipline, OneWriter, Writing, dispatchVars
    <3>3. CASE gh' = gh
      BY <3>2, <3>3 DEF NoResult
    <3>4. CASE gh' = [gh EXCEPT ![at[w]][env[w].kind] = @ + 1]
      <4>1. gh[at[w]] \in [Effects -> Nat] /\ Results \subseteq Effects
        BY <3>1 DEF Effects
      <4>2. \A y \in Results : [gh[at[w]] EXCEPT ![env[w].kind] = @ + 1][y] =
                IF y = env[w].kind THEN gh[at[w]][y] + 1 ELSE gh[at[w]][y]
        BY <3>1, <4>1
      <4>3. OneResult(at[w], env[w].kind)
        BY <3>1, <3>2, <3>4, <4>2 DEF OneResult
      <4> QED
        BY <3>1, <4>3
    <3> QED
      BY <2>3, <3>3, <3>4 DEF WriteResult, GitHubCall
  <2> QED
    BY <1>2, <2>1, <2>2, <2>3, StepKinds
<1>3. ASSUME NEW r \in RunIds, NEW g \in Grant, NEW d, status[r] = "none",
             InsertRun(r, g, d), gh' = gh
      PROVE  NoResult
  BY <1>0, <1>3 DEF Discipline, UndispatchedIsClean, InsertRun, NoResult
<1>4. ASSUME NEW r \in RunIds, NEW d \in Deliveries, HandleEvent(r, d)
      PROVE  NoResult
  BY <1>3, <1>4, DecideType, WebhookAssumption DEF HandleEvent
<1>5. ASSUME NEW s \in Schedulers, NEW r \in RunIds, ScheduleInsert(s, r)
      PROVE  NoResult
  BY <1>3, <1>5, OtherGrantsType DEF ScheduleInsert
<1>6. ASSUME NEW s \in Schedulers, ScheduleCheck(s) \/ ScheduleError(s)
      PROVE  NoResult
  BY <1>6 DEF ScheduleCheck, ScheduleError, dispatchVars, NoResult
<1>7. ASSUME NEW w \in Workers, NEW r \in RunIds, Fetch(w, r)
      PROVE  NoResult
  BY <1>7 DEF Fetch, dispatchVars, NoResult
<1>8. Tick \/ Crash \/ Shutdown \/ Restart => NoResult
  BY DEF Tick, Crash, Shutdown, Restart, dispatchVars, NoResult
<1>9. ASSUME NEW r \in RunIds, Rescue(r)
      PROVE  NoResult
  BY <1>9 DEF Rescue, dispatchVars, NoResult
<1> QED
  BY <1>1, <1>2, <1>4, <1>5, <1>6, <1>7, <1>8, <1>9 DEF Next

\* Nothing written twice stays nothing written twice.
LEMMA OneResultStep ==
    ASSUME AttemptInv, AtMostOneResult, [Next]_vars
    PROVE  AtMostOneResult'
<1>t. \A r \in RunIds, x \in Results : gh[r][x] \in Nat
  BY DEF AttemptInv, TypeOK, Effects
<1>1. CASE NoResult
  BY <1>1 DEF AtMostOneResult, NoResult
<1>2. ASSUME NEW r \in RunIds, NEW x \in Results, OneResult(r, x)
      PROVE  AtMostOneResult'
  <2>1. \A y \in Results : gh'[r][y] = IF y = x THEN 1 ELSE 0
    BY <1>t, <1>2 DEF OneResult, Untouched
  <2>2. \A q \in RunIds, y \in Results : q # r => gh'[q][y] = gh[q][y]
    BY <1>2 DEF OneResult
  <2> QED
    BY <2>1, <2>2 DEF AtMostOneResult
<1> QED
  BY <1>1, <1>2, StepEffects

\* What is granted stays granted once something has been written.
LEMMA GrantedStep ==
    ASSUME AttemptInv, ResultsAreGranted, [Next]_vars
    PROVE  ResultsAreGranted'
<1>t. /\ grant \in [RunIds -> Grant]
      /\ \A r \in RunIds, x \in Results : gh[r][x] \in Nat
  BY DEF AttemptInv, TypeOK, Effects
<1>1. CASE NoResult
  BY <1>1, <1>t DEF ResultsAreGranted, Untouched, NoResult
<1>2. ASSUME NEW r \in RunIds, NEW x \in Results, OneResult(r, x)
      PROVE  ResultsAreGranted'
  BY <1>2, <1>t DEF ResultsAreGranted, OneResult, Untouched
<1> QED
  BY <1>1, <1>2, StepEffects

\* A run leaves at most one result on GitHub, whatever crashes, lost replies,
\* ledger errors, shutdowns, rescues and slow handlers do.
THEOREM OneResultPerRun ==
    ASSUME RescueAfterExpiry
    PROVE  Spec => []AtMostOneResult
<1>1. Init => AttemptInv /\ AtMostOneResult
  BY AttemptInvInit DEF Init, AtMostOneResult, Results, Effects
<1>2. (AttemptInv /\ AtMostOneResult) /\ [Next]_vars => (AttemptInv /\ AtMostOneResult)'
  BY AttemptInvStep, OneResultStep
<1> QED
  BY <1>1, <1>2, PTL DEF Spec

\* No run writes beyond its grant; a denied run has no result at all.
THEOREM GrantedResults ==
    ASSUME RescueAfterExpiry
    PROVE  Spec => []ResultsAreGranted
<1>1. Init => AttemptInv /\ ResultsAreGranted
  BY AttemptInvInit DEF Init, ResultsAreGranted, Results, Effects
<1>2. (AttemptInv /\ ResultsAreGranted) /\ [Next]_vars => (AttemptInv /\ ResultsAreGranted)'
  BY AttemptInvStep, GrantedStep
<1> QED
  BY <1>1, <1>2, PTL DEF Spec

\* Queue, handlers and executor implement the abstract run: authority once, then
\* at most one use of it.
THEOREM Refinement ==
    ASSUME RescueAfterExpiry
    PROVE  Spec => ImplementsRunEffect
<1>1. Init => Effect!Init
  BY DEF Init, Effect!Init, NoGrant, Results, Effects
<1>2. AttemptInv /\ [Next]_vars => [Effect!Next]_<<[r \in RunIds |-> grant[r].kinds],
                              [r \in RunIds |-> [x \in Results |-> gh[r][x]]]>>
  <2> SUFFICES ASSUME AttemptInv, [Next]_vars
               PROVE  [Effect!Next]_<<[r \in RunIds |-> grant[r].kinds],
                              [r \in RunIds |-> [x \in Results |-> gh[r][x]]]>>
    OBVIOUS
  <2> DEFINE authority == [r \in RunIds |-> grant[r].kinds]
             performed == [r \in RunIds |-> [x \in Results |-> gh[r][x]]]
  <2>t. grant \in [RunIds -> Grant]
    BY DEF AttemptInv, TypeOK
  <2>1. CASE NoResult
    <3>1. performed' = performed
      BY <2>1 DEF NoResult
    <3>2. CASE grant' = grant
      BY <3>1, <3>2
    <3>3. ASSUME NEW r \in RunIds, NEW g \in Grant,
                 grant[r] = NoGrant, Untouched(r), grant' = [grant EXCEPT ![r] = g]
          PROVE  Effect!Next
      <4>1. g.kinds \in SUBSET Kinds
        BY DEF Grant
      <4>2. authority' = [authority EXCEPT ![r] = g.kinds] /\ authority[r] = {}
        <5>1. authority[r] = {}
          BY <3>3 DEF NoGrant
        <5>2. \A q \in RunIds : grant'[q] = IF q = r THEN g ELSE grant[q]
          BY <2>t, <3>3
        <5>3. authority' = [q \in RunIds |-> IF q = r THEN g.kinds ELSE authority[q]]
          BY <5>2
        <5> QED
          BY <5>1, <5>3
      <4>3. \A x \in Results : performed[r][x] = 0
        BY <3>3 DEF Untouched
      <4>4. Effect!Authorise(r, g.kinds)
        BY <3>1, <4>2, <4>3 DEF Effect!Authorise
      <4> QED
        BY <4>1, <4>4 DEF Effect!Next
    <3> QED
      BY <2>1, <3>2, <3>3 DEF NoResult
  <2>2. ASSUME NEW r \in RunIds, NEW x \in Results, OneResult(r, x)
        PROVE  Effect!Next
    <3>1. authority' = authority /\ x \in authority[r]
      BY <2>2 DEF OneResult
    <3>2. \A y \in Results : performed[r][y] = 0
      BY <2>2 DEF OneResult, Untouched
    <3>3. performed' = [performed EXCEPT ![r][x] = @ + 1]
      <4>1. \A y \in Results : gh'[r][y] = [performed[r] EXCEPT ![x] = @ + 1][y]
        BY <2>2 DEF OneResult
      <4>2. [y \in Results |-> gh'[r][y]] = [performed[r] EXCEPT ![x] = @ + 1]
        BY <4>1
      <4>3. \A q \in RunIds : q # r => [y \in Results |-> gh'[q][y]] = performed[q]
        BY <2>2 DEF OneResult
      <4>4. \A q \in RunIds : performed'[q] =
                IF q = r THEN [performed[r] EXCEPT ![x] = @ + 1] ELSE performed[q]
        BY <4>2, <4>3
      <4> QED
        BY <4>4
    <3>4. Effect!Perform(r, x)
      BY <3>1, <3>2, <3>3 DEF Effect!Perform
    <3> QED
      BY <3>4 DEF Effect!Next
  <2> QED
    BY <2>1, <2>2, StepEffects
<1>3. AttemptInv /\ [Next]_vars => AttemptInv'
  BY AttemptInvStep
<1> QED
  BY <1>1, <1>2, <1>3, AttemptInvInit, PTL DEF Spec, ImplementsRunEffect, Effect!Spec

=============================================================================
