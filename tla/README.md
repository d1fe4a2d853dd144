# Bothos in TLA+

Bothos is a bot that reviews pull requests, works on labeled issues and proposes
security upgrades. A language-model agent does the work in a throw-away clone and
is not trusted: it holds no write credential, and everything it proposes passes
through a grant that policy fixed before the agent started. This directory models
that machinery, model-checks it with TLC on small instances and proves its central
properties with TLAPS for all instances.

## The system and its parts

| Part (source) | State it keeps | Operations | What makes it correct |
|---|---|---|---|
| Gateway (`cmd/gateway`) | none | check the signature, parse, ask GitHub for the sender's permission and the PR's SHAs | only confirmed writers start manual reviews and issue runs |
| Dispatcher (`internal/dispatch`) | none | `HandleEvent`: trigger, rules, decision, one transaction for run row and job | row and job together; a denied run has no job |
| Policy (`internal/policy`) | none | `Decide` | the grant is no wider than the trigger warrants |
| Intent gate (`internal/intent`) | none | `Validate`, `ValidateDiff`, `IdempotencyKey` | nothing outside the grant is accepted; what is granted is usable |
| Ledger (`internal/ledger`) | `runs`, `intents`, `review_comments`, `repo_config`, findings | single SQL statements | it reports what happened |
| Queue (`internal/queue`, River) | one job per run: state, attempts, start of the last attempt | enqueue, fetch, complete, retry, rescue | every run is finished by somebody |
| Worker (`cmd/worker`) | handler goroutines, the process context | handler per job, `failRun`, SIGTERM | a run it drops ends in a terminal status |
| Pipelines (`internal/runpipe`) | local | `Pipeline`, `IssuePipeline`, `ReviewPipeline`: load, mark, gate, agent, execute, record | one result per run; status, reference and result agree |
| Executor, GitHub writer (`internal/executor`) | none (GitHub has it) | `Execute`, `AcknowledgeReview`, push, PR, comment, summary | right credential, no repeated write, one summary comment |
| Agent session (`internal/agent`) | child process, line stream, worktree, verdict | `RPC.Run` | what is shipped was verified and is what the agent last reported; it ends unless the verifier hangs |
| Verifier (`internal/verifier`) | none | `Verify`, `Signature` | see agent session |
| Scheduler (`internal/upgrade`, `cmd/upgrade`) | none | `Schedule` | one outstanding upgrade run per repository |
| Worktree diff (`internal/upgrade/diff.go`) | none | `FromWorktree`, `BaseBranch`, `CurrentBranch` | what the gate judges is what is pushed |
| Review checks (`internal/review`) | none | `All`: parse the diff, denied paths, secrets, dependency and OSV deltas | findings stand at the right lines of the granted commit and survive the merge |
| Scan job (`cmd/scan`, `internal/scanjob`, `internal/scan`) | the findings table | `Run`, `UpsertFindings`, `ActionableCandidates` | every row is attributable; a succeeded scan is in the table |
| Graph cache, credential store, logging | | | not modelled or only touched, see below |

Parts meet in four places: the run row and job (dispatcher and scheduler write
them, workers read them), the grant inside the row (policy writes it, pipelines and
gate check it), GitHub (the executor writes, people change it at the same time),
and the worktree (the agent writes, verifier and executor read).

What is hard to test here: a worker dying or being stopped between any two calls;
River handing a job out again while its first handler still runs; calls that fail
after having taken effect; redelivered webhooks; two schedulers or two reviews at
once; an agent process that talks over one pipe across several turns and whose files
are read at different moments; a diff judged in one place and commits shipped from
another; line numbers counted through a patch; an author who pushes while a review is
queued; scans that overlap. `PROJECT.json` lists these as hazards, each at its
line, with the properties aimed at it.

## Modules

* **Grants** — pure operators, used by the next two: `triggerFromEvent`, `Decide`,
  `GrantForUpgrade`, `Validate` and its tables, `CredentialScope`. Owner and
  repository are fixed; the base and head SHAs are one Boolean; a time is an age in
  ticks since the grant was issued; a payload decodes or does not. `Decide`'s
  scheduled branch has no caller and is left out.
* **Authority** — one run's authority end to end: an event with the authorizer's
  answer and the rules (`HandleEvent`), or the schedule, then time, then envelopes of
  any shape (`Execute`). The untrusted agent is the quantifier over envelopes.
* **RunLifecycle** — the core. Ledger rows (`status`, `reason`, `ref`, `intents`), the
  River job (`job`, `attempts`, `since`), GitHub (`gh` counts each effect of a run),
  handlers (`pc`, `at`, `env`), schedulers, clock, faults. One step per call that
  leaves the process; `LedgerCall` and `GitHubCall` give each call its three
  outcomes (done, failed, failed but done). The three pipelines share their steps
  and differ where the code differs: the acknowledgement, the hand-off, the
  stand-down, and which errors pass through `fail()` before `failRun`.
  `Rescue`, `Fetch`, `Complete` and `RetryState` are River as `queue.Open` configures it.
* **RunEffect** — what all of that promises a repository: authority is given once
  and used for at most one result. RunLifecycle's `Effect` is the refinement mapping.
* **ReviewSummary** — the summary comment of one pull request: GitHub's comment
  list, the `review_comments` row, and reviews that acknowledge, look up, find, edit,
  create and map, each call a step that can fail. People delete and quote comments.
* **AgentSession** — `RPC.Run`: configuration, prompts, the line stream, verdict,
  nudge, verification rounds, review output, clean-up, exit. The `pi` process is
  external: it changes the worktree while it works, may refuse a prompt, retry, print
  a line too long for the scanner, exit, or do nothing for ever. It ends a turn with
  `agent_settled` (newer builds), with `agent_end` (older ones) or with both, and may
  print a settle line after a refusal as well, as `testdata/fake_pi.sh` does; `odd`
  counts what is out of the ordinary. Two history variables: `doubled`, the child printed a
  settle line too many, and `ahead`, the harness stopped waiting while the agent was at
  work. The worktree (`tree`) has the files of the last
  commit, the tracked files as they lie there, the renames git sees in them, strays, and
  what the scanner, the tests and the two report files would say. `Verify` gives a set
  of failures; `Signature` digests their details too, so that an equal set may be a
  stall or not (`MayStall`, `MayGoOn`).
* **Delivery** — extends AgentSession by what Execute does with its worktree: the diff
  gate reads the worktree (`FromWorktree`, `ValidateDiff`, `globMatch` on sequences of
  names), `Push` ships the commits, `OpenPR` opens the pull request. `FromWorktree` gives
  the names the code takes from git's numstat lines: the third field, which for a
  rename is its compact form cut at the first blank (`Shown`: `.github/{workflows`) and
  for an unusual name the quoted one (`Field`).
* **ReviewContent** — a review's content from sandbox to inline comments: the head
  fetched by number and compared, `parseDiff` line by line over what git prints
  (`Render`), the four checks, the model's remarks, the merge and its limit, the
  executor's second validation, the remarks posted one by one. Paths, packages and
  advisories are numbers in the order of their names; a text is one of five classes.
* **ScanLedger** — overlapping scans of one repository and the findings table:
  `InsertRun`, clone, `ParseOSV`, the upsert batch (one implicit transaction), status,
  candidates, each with its failures. The branch and the advisories change at any time.
  osv-scanner answers 0, 1 or, when a clone has nothing to scan, 128, which the code
  takes for an error.
* **MC_…** — constants for TLC. **…Proofs** — theorems.

Definitions called *Variant* are plausible wrong versions of the definition they
precede. They are used by no specification; each property is known to fail when one
of them takes the place of the original (`mutants` in `PROJECT.json`).

## Runs

| Run | Shows |
|---|---|
| `faults` | one run of any kind, two handlers, slow handlers, rescue, crash, SIGTERM, one failing ledger call: `AtMostOneResult`, `LedgerTellsTheTruth`, the inductive `AttemptDiscipline`, refinement of `RunEffect` |
| `settle` | no SIGTERM, grants that outlive the rescue age, so that a second attempt may write: `SettledRunIsTerminal`, `SettledByOneAttempt`, a recorded write is not repeated, and `RunsSettle` under fairness |
| `authority` | every event case, permission answer and rule set over two actors and two labels, any envelope, before and after expiry |
| `review` | three reviews in sequence, two failed calls, two deleted comments, one quoted marker |
| `session` | all modes, three rounds, one line out of the ordinary (a retried turn, a settle line too many, a line too long), worktrees over nine files that differ in everything `Run`, the verifier, the diff gate and the push look at, then their delivery: the properties of a clean pull request, `NobodyWaitsInVain`, `PromptsBounded`, `ReturnedTreeIsFrozen`, and `SessionEnds` under fairness |
| `content` | every one-hunk diff of a workflow and of a source file (up to two added lines of five classes, a deletion, both end-of-file markers), larger diffs for the other checks, six reviews, a push in between |
| `scan` | two scans, five states of the repository (one with nothing to scan), two failing calls each, crashes |
| `shutdown`, `redelivery`, `overlap`, `bookkeeping`, `anchors` | disagreements between documents or comments and code, below |

**Bounds.** Runs do not share state except through `alreadyScheduled`, deliveries
and the summary comment, so one run id is enough for the run's own properties and two
for those that compare runs. Two handlers are what a rescue needs; a third adds no new
overlap, because a job in the hands of two handlers is not handed out again before the
grant is dead. Times: `WebhookTTL` 2, `UpgradeTTL` 1 and `RescueAfter` 2 keep the real
order (1 h, 45 min, River's 1 h) and the equality that makes strict comparison matter;
ages saturate at `Horizon`, past all three. Two payloads let a retried agent come back
with the same or another key. `MaxCrashes`, `MaxDbErrors`, `MaxFaults`, `MaxDeletes`,
`MaxQuotes` and `MaxOdd` cap the environment; every one is at least as
large as the counterexamples of the variants need. In `settle` the bound on ledger
errors is part of the claim: fail() and failRun make three calls, so one failing call
is survived, except by an issue run's hand-off (`HandoffExposed`), which makes one.
In `review` the concurrency is 1; `overlap` shows why. In `session` the worktrees
are a list (`MCTrees`) of the cases in which commits, worktree, names, report and grade
differ; two files and four changed lines are the limits they are held against; one odd
line is enough to put harness and agent out of step for the rest of a session. In
`content` a limit of four comments is one less than the largest review and less than
the findings of the larger diffs. Two scans are all that a row of the findings table
can tell apart: the one that wrote it last and any other.

**Fairness.** RunLifecycle: weak fairness for each handler's steps (the agent has a wall
cap, SQL and HTTP calls return or fail), for River's fetch and rescue, for time and
for the restart after a stop (`restart: unless-stopped` in the compose file). Nothing
is assumed of deliveries, schedules, crashes or SIGTERM. `RunsSettle` takes handlers to
be shorter than the rescue age; the safety run does not. That is an assumption: the
job's context has no deadline (`JobTimeout: -1`, `queue.go:66`), and only the
acknowledgement and the agent have time limits of their own. A handler that hangs is not
one `RunsSettle` speaks of; River would rescue its job after an hour. AgentSession: the
harness's steps, the passing of the deadline, and the exit of a child that has had its
SIGTERM (`WaitDelay` kills it otherwise). Nothing is assumed of the agent's work, and
nothing of `VerifyRound`: the test command (`verifier.go:116-119`) has neither process
group nor `WaitDelay`, so a process it leaves behind can hold up the round for ever.
`SessionEnds` therefore says that a session returns or stays in verification. Delivery,
ReviewContent and ScanLedger have no fairness: git, scanner and HTTP calls run under a
context without deadline (`queue.go:66`, `run.go:50`), and may hang for ever.

**Deadlock** is checked in the RunLifecycle runs (time can always pass). The others
may really stop: a run is over, a session has returned.

## Disagreements found

* `shutdown`: SIGTERM cancels the context that `fail()` and `failRun` use. The
  handler returns nil, River completes the job and the row stays `queued` or
  `running`; for an upgrade run that also blocks every later one.
* `redelivery`: run ids are per delivery and part of the idempotency key, so a
  redelivered event is a new run with a new pull request.
* `overlap`: two first reviews at once leave two summary comments.
* `bookkeeping`: a file the agent commits under `.bothos/` reaches the pull request.
  The clean-up removes the worktree's copy, the verifier passes over such entries, and
  the gate looks at the worktree.
* `anchors`: git's marker "\ No newline at end of file" after a deleted last line
  advances the line number of `parseDiff`; the findings of that hunk are one line off.

Known from the models and not the subject of a run: a crash between a terminal status
and River's completion lets the rescued job judge a `needs_input` or `succeeded` run
again (`SettledByOneAttempt` names that case); two scheduler processes both pass
`alreadyScheduled`, which is outside the insert's transaction; the hand-off comment is
written with the contents-write token, where the compose file reserves comments for the
comment token; the findings table keeps what a later scan no longer finds; a build of `pi`
that prints `agent_end` and `agent_settled` for one turn, which `awaitSettled`'s comment calls
equivalent, leaves one of them in the stream, and the next wait ends with it while the
agent works (`ahead`); of a workflow moved to the directory beside its own the diff gate
sees `.github/{workflows` and no denied path, where `docs/DESIGN.md` promises to reject such
a change (`Disguised`).

Six more cases are exceptions named inside properties that otherwise hold: the
issue hand-off (`HandoffExposed`); a mapping that points to a deleted comment
(`OneSummaryUnlessDeleted`); the mapping of a pull request with two summaries, which an
acknowledgement takes back to the first one, deleted in its turn
(`SucceededReviewIsMapped`: two deletions and a failed call); a settle line too many, or a
line too long for the scanner, after which the harness may go on while the agent works
(`InStep` in `CleanPullRequestIsVerified`, `ReportIsCurrent`, `PushedIsWhatWasChecked` and
`DeniedPathsStayOut`, which do not hold then); files the diff gate sees under another name
(`Disguised` in `DeniedPathsStayOut`); and a verification round that never ends
(`SessionEnds`).

## Proofs

All theorems are about the specifications TLC checks, for every value of the
constants that satisfies the modules' named assumptions. Most of these type the
constants. Six say more. `NamesAssumption`: the word for "no run" is not a run's id.
`SessionAssumption`: a branch without commits of the agent's is the base branch, the
verifier's own words (`git`, `tests`, ...) name no vulnerability, and a path has at least
one part. `DeliveryAssumption`: so has a pattern, and the old name of a rename is without
blanks or in quotes. `ScanAssumption`: an advisory is one document of the OSV database, so
within one report its events are the same for every lockfile that has the package.
`ListsAssumption`: a manifest changes finitely many versions and a scan reports finitely
many advisories, so there is a sorted list of findings. `FilesAssumption`: git lists a
file once in a diff. Of git, the type `Hunk` says that
lines are numbered from 1: a header that names line 0 is one of a hunk without additions.
Every invariant was checked by TLC before it was proved.

**RunLifecycleProofs.** `TypeCorrect`: `TypeOK` with who holds which run is inductive;
one step per action. `AttemptsAreDisciplined`, `OneResultPerRun`, `GrantedResults` and
`Refinement` assume `RescueAfterExpiry`: River's rescue age is at least every grant's
lifetime. The code satisfies it with equality (1 h and 1 h) and nothing in it says so.
`AtMostOneResult` is not inductive. What has to be carried along is who may still
write: `AttemptDiscipline` says that while a grant is alive at most one handler holds the
run and has written nothing before Execute's check, that a job waiting to be fetched
has nothing written, that an attempt is no older than its grant, and that two handlers
of one run are never both between check and write. `Rescue` and `Fetch` keep it
because a rescued job's grant is dead (attempts are younger than grants, rescue ages
longer); `ExecuteFresh` keeps it because a live grant has one handler. The refinement
follows from the same invariant: each step that changes `gh` on a result is `Perform`,
each dispatch is `Authorise`, all others stutter.

**LedgerProofs**, in two parts.
* `LedgerIsTruthful`, under the same assumption, from `AttemptDiscipline` and
  `RecordDiscipline` (records follow writes, and what the handler is about to put into
  the row is already true).
* How runs end. `SettledOnce` has no hypothesis: on a first attempt with no failed
  ledger call there is one handler (`OneAttemptInv`), and it settles the row last.
  `RecordedWritesAreNotRepeated` needs either `RescueAfterExpiry`, and then a second
  writer has no live grant, or handlers shorter than the rescue age, and then
  `ExclusiveInv` (a run has one handler at a time) makes Execute's look-up still true
  when it writes (`FreshInv`). `SettledRunsAreTerminal` takes handlers to be shorter than
  the rescue age, no SIGTERM (run `shutdown` shows why), one failing ledger call at most
  and fewer crashes and failed calls than the job has attempts (`FewFaults`, which the
  constants of `settle` satisfy). `SettleInv` then says, by program counter, who will
  still close the row: the handler on it, or River by another attempt, of which enough
  are left because each attempt that ended without a status has cost a fault.

**AuthorityProofs**: `AuthorityTypeCorrect`, `WritesAreWarranted`, `ReviewCredential`,
`GrantsAreUsable`. The invariant says that the grant is the one `Decide` gives for the
recorded cause.

**SessionProofs**, for AgentSession and Delivery: for every set of worktrees, mode, number
of rounds and behaviour of the child. `SessionInv` has, besides the types: the prompts
sent so far by program counter and round; no result while the session runs, and the
child over once the harness has waited for it, so that nobody works on a returned tree
(`ResultIsLast`); whose turn it is (`TurnsAreOver`): an orderly child's stream holds at most
the current turn, and a harness that was never ahead does not act while the agent
works; the verdict held is the one in the worktree at clean-up (`VerdictIsHeld`), and a
passing grade still describes it (`GradeStands`), both as long as the two are in step.
From it follow `SessionTypeCorrect`, `CleanPullRequests`, `ReportsAreCurrent`,
`PromptsAreBounded` and `ReturnedTreesAreFrozen`. `NobodyWaits` is inductive with the types
and needs no orderly child. `DeliveryRunsSessions` makes them theorems about deliveries.
`PushedWhatWasChecked` adds that a clean upgrade's commits equal its worktree.
`DeniedFilesStayOut` carries `GateHolds`: behind the gate no file that numstat shows under its
own name matches a denied pattern by `globMatch`. What that says of the pattern's meaning
rests on `SupportedPatternsMatch`: for every path and every pattern of a supported form, what
`globMatch` computes by recursion is that the path can be cut as `GlobMeans` says. That is no induction over the pattern: a
plain pattern, a leading and a trailing `**` each let the recursive definition be
followed by its defining equation, and what is needed of every position follows from
there being no least position where it fails.

**ScanProofs**, for any number of overlapping scans and any repository contents.
`ScanInv` says of each scan, by program counter, what of its clone is in hand or in the
table and what its run row says, and that every row of the table was stamped by a scan
in `upserts` with what `ParseOSV` made of that scan's clone. `ParseOSV`'s three nested
loops are folds; `SequenceFacts` gives what a fold over a sequence collects. Theorems:
`ScanTypeCorrect`, `RowsAreAttributable`, `SucceededScansAreRecorded`,
`FixesReachTheList`, the last with the exact version `fixedVersionFromRanges` picks
(`FixedVersionIsLastFix`).

**ReviewSummaryProofs.** `SummaryTypeCorrect` and `UsersCommentsStay` hold for any number
of handlers: a comment a review is about to edit was bothos's own when the review
found or created it, and comments change no owner. `OneSummaryPerPullRequest` and
`SucceededReviewsAreMapped` take `Concurrency = 1`, the condition under which the code
promises them (run `overlap` shows two first reviews at once). Their invariant relates
the mapping, the comment in hand and GitHub's list: until something was deleted *and*
something failed, a review that is about to create a comment has seen that there is none.

**ReviewContentProofs**, for every diff git can print, every list the model may write and
every limit. `ContentInv`: behind the sandbox the fetched head is the granted one; the
parser's state is the one after the lines read so far (`After(Render(diff))`), an added
line is read under a hunk header and so has a number from 1; from the checks on
`findings` is what `All` makes of the whole diff; the merged review is findings, then
opinions, up to the limit. `Sorted` is a list of the set it sorts because `Before` is a
strict total order on findings. From it follow `ContentTypeCorrect`,
`MergedReviewsAreAccepted`, `VerifiedRemarksAreFound` and `FindingsComeFirst`.
Part two is `SecretsFoundInPlace`. `Reads(s, ls, t)` says that reading the lines `ls` takes
parseDiff's loop from `s` to `t`; it splits along concatenations, so that each part of the
patch has a lemma of its own: deletions leave everything as it is, a marker at most
advances the number, the additions of a hunk are marked from the line its header names,
the hunks of a file add up (`HunksRead`), the files of a diff line up with what was read
(`DiffRead`, `FileIs`). Where the patch is not faithfully read, `FileIs` says what is left: the
name is the file's own, none, or the one an added text pretends. None of those is the
name of another file, so the exceptions of the property spoil no ordinary file.

**SequenceFacts**: induction over numbers by the least counterexample, and what folds, concatenations and selections of sequences return, cited by
the modules above.

Only model-checked:
* liveness (`RunsSettle`, `SessionEnds`): the prover has no rule for ENABLED, so none for
  fairness.

## Not modelled

The trivy, govulncheck and Renovate parsers and the updates table (no command runs
them), graph cache (called by no process), prompts, rendering and sanitising of texts,
usage figures, capability gaps, the clone of an agent's sandbox other than its failure,
HTTP signatures, migrations. `update_pr` and `set_labels` are granted to no run and
appear in the validation tables only. Worker and database share one clock.

Of pi: the child is the process with the tools it waits for. A tool it leaves running
outlives it, since `cmd.Wait` waits for pi alone and the group is signalled only when the
context ends; `ReturnedTreeIsFrozen` says nothing of such a tool, and the end of pi's output is
taken to be the end of pi.

Of git: a file's content is its number of changed lines; the old name of a rename has no
blank unless it is quoted; what numstat prints for renames and unusual names is modelled
(`Shown`, `Field`), and `DeniedPathsStayOut` is about the other files; the test command
leaves tracked files alone. Added lines that begin with `++` look like diff headers to `parseDiff`; files
with such a line are an exception of `SecretsAreFoundInPlace`. Patterns like
`**/secrets/**` and `**/*.pem` are outside the forms `globMatch` is written for and
outside `DeniedPathsStayOut`. `PushedIsWhatWasChecked` is about upgrade pull requests
without known failures: an issue run has no verification round, and one that gave up
ships what it has and says so.

## Plan

Done: Grants and Authority; RunLifecycle with RunEffect; ReviewSummary; AgentSession and
Delivery; ReviewContent; ScanLedger; the proofs above. Next, in this order:

1. Compose Delivery's outcome with RunLifecycle's agent step by refinement, and prove it.
2. The hazards of `PROJECT.json` that no property covers yet.
