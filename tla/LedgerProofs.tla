---------------------------- MODULE LedgerProofs ----------------------------
(***************************************************************************)
(* What the ledger says of a run.  Part one: it tells the truth; behind    *)
(* every succeeded and needs_input run there is the write on GitHub that   *)
(* it claims.  The inductive invariant adds RecordDiscipline (records      *)
(* follow writes) to AttemptDiscipline.  Part two, how runs end: a run is  *)
(* settled by one attempt, a recorded write is not repeated, a settled run *)
(* is terminal.                                                            *)
(***************************************************************************)
EXTENDS RunLifecycleProofs

-----------------------------------------------------------------------------
(* What a step may do to the ledger *)

\* Keys, references and reasons stay; a key is added by a handler at "record",
\* a successful status by one at "finish".
LedgerGrows ==
    /\ intents \subseteq intents'
    /\ \A r \in RunIds : (ref[r] => ref'[r]) /\ (reason[r] => reason'[r])
    /\ \A k \in intents' : k \in intents \/ \E w \in Workers : pc[w] = "record" /\ k = IdempotencyKey(w)
    /\ \A r \in RunIds : status'[r] = "succeeded" =>
          \/ status[r] = "succeeded"
          \/ \E w \in Workers : pc[w] = "finish" /\ at[w] = r /\ env[w].kind # "post_comment"
    /\ \A r \in RunIds : status'[r] = "needs_input" =>
          \/ status[r] = "needs_input"
          \/ reason'[r] /\ \E w \in Workers : pc[w] = "finish" /\ at[w] = r /\ env[w].kind = "post_comment"

\* A handler is in its bookkeeping because it was there before, because Execute
\* found the key, or because the write has just succeeded; and it gets to "ref"
\* and "finish" only with the key and the reference stored.
Enters(w) ==
    pc'[w] \in Written =>
        /\ at'[w] = at[w] /\ env'[w] = env[w]
        /\ \/ pc[w] \in Written
           \/ pc[w] = "execute" /\ pc'[w] = "ref" /\ IdempotencyKey(w) \in intents
           \/ /\ pc[w] = "write" /\ pc'[w] \in {"upsert", "record"}
              /\ gh' = [gh EXCEPT ![at[w]][env[w].kind] = @ + 1]
        /\ pc'[w] \in {"ref", "finish"} =>
              pc[w] \in {"ref", "finish", "execute"} \/ IdempotencyKey(w) \in intents'
        /\ pc'[w] = "finish" => pc[w] = "finish" \/ ref'[at[w]]

Bookkeeping == LedgerGrows /\ \A w \in Workers : Enters(w)

\* Steps that leave the ledger alone and bring nobody to the bookkeeping.
LEMMA Silent ==
    ASSUME UNCHANGED ledgerVars,
           \A v \in Workers : pc'[v] \in Written =>
               pc'[v] = pc[v] /\ at'[v] = at[v] /\ env'[v] = env[v]
    PROVE  Bookkeeping
<1>1. LedgerGrows
  BY DEF LedgerGrows, ledgerVars
<1>2. \A w \in Workers : Enters(w)
  BY DEF Enters, Written
<1> QED
  BY <1>1, <1>2 DEF Bookkeeping

\* A statement of the ledger made by a handler that stays out of the bookkeeping:
\* it can only make a status "running" or "failed".
LEMMA StatusOnly ==
    ASSUME TypeInv, NEW w \in Workers, NEW s \in {"running", "failed"},
           NEW ok \in PCs \ Written, NEW err \in PCs \ Written,
           LedgerCall(w, SetRunStatus(at[w], s), ok, err)
             \/ LedgerCall(w, SetRunReason(at[w], s), ok, err),
           at[w] \in RunIds
    PROVE  Bookkeeping
<1>0. /\ status \in [RunIds -> Statuses] /\ pc \in [Workers -> PCs]
      /\ reason \in [RunIds -> BOOLEAN] /\ ref \in [RunIds -> BOOLEAN]
  BY DEF TypeInv, TypeOK
<1>1. \/ UNCHANGED ledgerVars
      \/ SetRunStatus(at[w], s)
      \/ SetRunReason(at[w], s)
  BY DEF LedgerCall
<1>2. LedgerGrows
  <2>1. intents' = intents /\ ref' = ref
    BY <1>1 DEF SetRunStatus, SetRunReason, ledgerVars
  <2>2. \A r \in RunIds : reason[r] => reason'[r]
    BY <1>0, <1>1 DEF SetRunStatus, SetRunReason, ledgerVars
  <2>3. \A r \in RunIds : status'[r] = status[r] \/ status'[r] = s
    BY <1>0, <1>1 DEF SetRunStatus, SetRunReason, ledgerVars
  <2> QED
    BY <2>1, <2>2, <2>3 DEF LedgerGrows
<1>3. \A v \in Workers : Enters(v)
  BY <1>0 DEF LedgerCall, Goto, Enters
<1> QED
  BY <1>2, <1>3 DEF Bookkeeping

\* Every step of a handler keeps the books.
LEMMA StepBookkeeping ==
    ASSUME TypeInv, NEW w \in Workers, Step(w)
    PROVE  Bookkeeping
<1>0. /\ status \in [RunIds -> Statuses] /\ pc \in [Workers -> PCs]
      /\ at \in [Workers -> RunIds \cup {"none"}]
      /\ reason \in [RunIds -> BOOLEAN] /\ ref \in [RunIds -> BOOLEAN]
      /\ env \in [Workers -> Envs \cup {NoEnv}]
      /\ pc[w] # "idle" => at[w] \in RunIds
  BY DEF TypeInv, TypeOK, WorkersHoldRuns
<1>c. {"idle", "gate", "complete", "failRun", "failReason", "fail"} \subseteq PCs \ Written
  BY DEF PCs, Written
<1>q. CASE Start(w) \/ Gate(w) \/ AgentFails(w) \/ AgentBlockedUpgrade(w)
           \/ ExecuteRefused(w) \/ ExecuteFresh(w)
  <2>1. /\ UNCHANGED ledgerVars /\ UNCHANGED <<at, env>>
        /\ \E next \in PCs \ Written : pc' = [pc EXCEPT ![w] = next]
    BY <1>q DEF Start, Gate, AgentFails, AgentBlockedUpgrade, ExecuteRefused, ExecuteFresh,
                ExecuteError, Goto, PCs, Written
  <2> QED
    BY <1>0, <2>1, Silent
<1>r. CASE StartError(w) \/ Complete(w)
  <2>1. /\ UNCHANGED ledgerVars
        /\ \A v \in Workers : v # w => pc'[v] = pc[v] /\ at'[v] = at[v] /\ env'[v] = env[v]
        /\ pc'[w] = "idle"
    BY <1>0, <1>r DEF StartError, Complete, Release
  <2> QED
    BY <2>1, Silent DEF Written
<1>p. CASE AgentDone(w) \/ AgentBlockedIssue(w)
  <2>1. /\ UNCHANGED ledgerVars
        /\ \A v \in Workers : v # w => pc'[v] = pc[v] /\ at'[v] = at[v] /\ env'[v] = env[v]
        /\ pc'[w] = "execute"
    BY <1>0, <1>p DEF AgentDone, AgentBlockedIssue, Proposes, Goto
  <2> QED
    BY <2>1, Silent DEF Written
<1>g. CASE Acknowledge(w) \/ Prepare(w)
  <2>1. /\ UNCHANGED ledgerVars /\ UNCHANGED <<at, env>>
        /\ \E next \in PCs \ Written : pc' = [pc EXCEPT ![w] = next]
    BY <1>g DEF Acknowledge, Prepare, GitHubCall, Goto, PCs, Written
  <2> QED
    BY <1>0, <2>1, Silent
<1>d. CASE ExecuteDeduped(w)
  <2>1. LedgerGrows
    BY <1>d DEF ExecuteDeduped, LedgerGrows, ledgerVars
  <2>2. \A v \in Workers : Enters(v)
    BY <1>0, <1>d DEF ExecuteDeduped, Goto, Enters, Written
  <2> QED
    BY <2>1, <2>2 DEF Bookkeeping
<1>w. CASE WriteResult(w)
  <2>1. LedgerGrows
    BY <1>w DEF WriteResult, GitHubCall, LedgerGrows, ledgerVars
  <2>2. \A v \in Workers : Enters(v)
    <3>1. \A v \in Workers : v # w => pc'[v] = pc[v] /\ at'[v] = at[v] /\ env'[v] = env[v]
      BY <1>0, <1>w DEF WriteResult, GitHubCall, Goto
    <3>2. Enters(w)
      BY <1>0, <1>w DEF WriteResult, GitHubCall, ExecuteError, Goto, Enters, Written
    <3> QED
      BY <3>1, <3>2 DEF Enters, Written
  <2> QED
    BY <2>1, <2>2 DEF Bookkeeping
<1>1. CASE MarkRunning(w)
  BY <1>0, <1>1, <1>c, StatusOnly DEF MarkRunning
<1>2. CASE StandDown(w)
  BY <1>0, <1>2, <1>c, StatusOnly DEF StandDown
<1>7. CASE FailStatus(w)
  BY <1>0, <1>7, <1>c, StatusOnly DEF FailStatus
<1>8. CASE FailReason(w)
  BY <1>0, <1>8, <1>c, StatusOnly DEF FailReason
<1>9. CASE FailRun(w)
  BY <1>0, <1>9, <1>c, StatusOnly DEF FailRun
<1>3. CASE UpsertReviewComment(w)
  <2>1. LedgerGrows
    BY <1>3 DEF UpsertReviewComment, LedgerCall, LedgerGrows, ledgerVars
  <2>2. \A v \in Workers : Enters(v)
    BY <1>0, <1>3 DEF UpsertReviewComment, LedgerCall, Goto, Enters, Written
  <2> QED
    BY <2>1, <2>2 DEF Bookkeeping
<1>4. CASE RecordIntent(w)
  <2>1. LedgerGrows
    BY <1>4 DEF RecordIntent, Record, LedgerCall, LedgerGrows, ledgerVars
  <2>2. \A v \in Workers : v # w => Enters(v)
    BY <1>0, <1>4 DEF RecordIntent, LedgerCall, Goto, Enters, Written
  <2>3. Enters(w)
    BY <1>0, <1>4 DEF RecordIntent, Record, ExecuteError, LedgerCall, Goto, Enters, Written
  <2> QED
    BY <2>1, <2>2, <2>3 DEF Bookkeeping
<1>5. CASE RecordRef(w)
  <2>1. LedgerGrows
    BY <1>0, <1>5 DEF RecordRef, SetRunRef, LedgerCall, LedgerGrows, ledgerVars
  <2>2. \A v \in Workers : v # w => Enters(v)
    BY <1>0, <1>5 DEF RecordRef, LedgerCall, Goto, Enters, Written
  <2>3. pc'[w] = "finish" => ref'[at[w]]
    BY <1>0, <1>5 DEF RecordRef, SetRunRef, LedgerCall, Goto
  <2>4. Enters(w)
    BY <1>0, <1>5, <2>3 DEF RecordRef, LedgerCall, Goto, Enters, Written
  <2> QED
    BY <2>1, <2>2, <2>4 DEF Bookkeeping
<1>6. CASE Finish(w)
  <2>1. \/ UNCHANGED ledgerVars
        \/ SetRunReason(at[w], "needs_input") /\ env[w].kind = "post_comment"
        \/ SetRunStatus(at[w], "succeeded") /\ env[w].kind # "post_comment"
    BY <1>6 DEF Finish, LedgerCall
  <2>2. /\ intents' = intents /\ ref' = ref /\ pc[w] = "finish" /\ at[w] \in RunIds
        /\ \A r \in RunIds : reason[r] => reason'[r]
    BY <1>0, <1>6, <2>1 DEF Finish, SetRunReason, SetRunStatus, ledgerVars
  <2>3. \A r \in RunIds :
          \/ status'[r] = status[r]
          \/ r = at[w] /\ status'[r] = "needs_input" /\ env[w].kind = "post_comment" /\ reason'[r]
          \/ r = at[w] /\ status'[r] = "succeeded" /\ env[w].kind # "post_comment"
    BY <1>0, <2>1, <2>2 DEF SetRunReason, SetRunStatus, ledgerVars
  <2>4. LedgerGrows
    BY <2>2, <2>3 DEF LedgerGrows
  <2>5. \A v \in Workers : Enters(v)
    BY <1>0, <1>6 DEF Finish, LedgerCall, Goto, Enters, Written
  <2> QED
    BY <2>4, <2>5 DEF Bookkeeping
<1> QED
  BY <1>q, <1>r, <1>p, <1>g, <1>d, <1>w, <1>1, <1>2, <1>3, <1>4, <1>5, <1>6, <1>7, <1>8, <1>9 DEF Step

\* So does everything else.
LEMMA BooksAreKept ==
    ASSUME TypeInv, [Next]_vars
    PROVE  Bookkeeping
<1>0. /\ status \in [RunIds -> Statuses] /\ pc \in [Workers -> PCs]
      /\ at \in [Workers -> RunIds \cup {"none"}]
  BY DEF TypeInv, TypeOK
<1>1. UNCHANGED <<ledgerVars, workerVars>> => Bookkeeping
  BY Silent DEF workerVars
<1>2. ASSUME NEW r \in RunIds, NEW g, NEW d,
             InsertRun(r, g, d), UNCHANGED <<reason, ref, intents, workerVars>>
      PROVE  Bookkeeping
  <2>1. \A q \in RunIds : status'[q] = status[q] \/ status'[q] \in {"denied", "queued"}
    BY <1>0, <1>2 DEF InsertRun
  <2>2. LedgerGrows
    BY <1>2, <2>1 DEF LedgerGrows
  <2>3. \A w \in Workers : Enters(w)
    BY <1>2 DEF Enters, Written, workerVars
  <2> QED
    BY <2>2, <2>3 DEF Bookkeeping
<1>3. ASSUME NEW r \in RunIds, NEW d \in Deliveries, HandleEvent(r, d)
      PROVE  Bookkeeping
  BY <1>2, <1>3 DEF HandleEvent
<1>4. ASSUME NEW s \in Schedulers, NEW r \in RunIds, ScheduleInsert(s, r)
      PROVE  Bookkeeping
  BY <1>2, <1>4 DEF ScheduleInsert
<1>5. ASSUME NEW w \in Workers, NEW r \in RunIds, Fetch(w, r)
      PROVE  Bookkeeping
  <2>1. /\ UNCHANGED ledgerVars
        /\ \A v \in Workers : v # w => pc'[v] = pc[v] /\ at'[v] = at[v] /\ env'[v] = env[v]
        /\ pc'[w] = "start"
    BY <1>0, <1>5 DEF Fetch
  <2> QED
    BY <2>1, Silent DEF Written
<1>6. Crash => Bookkeeping
  BY Silent DEF Crash, Written
<1>7. ASSUME NEW s \in Schedulers, ScheduleCheck(s) \/ ScheduleError(s)
      PROVE  Bookkeeping
  BY <1>1, <1>7 DEF ScheduleCheck, ScheduleError
<1>8. ASSUME NEW r \in RunIds, Rescue(r)
      PROVE  Bookkeeping
  BY <1>1, <1>8 DEF Rescue
<1>9. Tick \/ Shutdown \/ Restart \/ UNCHANGED vars => Bookkeeping
  BY <1>1 DEF Tick, Shutdown, Restart, vars
<1> QED
  BY <1>3, <1>4, <1>5, <1>6, <1>7, <1>8, <1>9, StepBookkeeping DEF Next

-----------------------------------------------------------------------------
(* The theorem *)

RecordInv == AttemptInv /\ AtMostOneResult /\ RecordDiscipline /\ LedgerTellsTheTruth

\* A result that is there once stays there once.
LEMMA ResultsStay ==
    ASSUME AttemptInv, [Next]_vars
    PROVE  \A r \in RunIds, x \in Results : gh[r][x] = 1 =>
              /\ gh'[r][x] = 1
              /\ \A y \in Results : gh'[r][y] = gh[r][y]
  BY StepEffects DEF NoResult, OneResult, Untouched

\* The books are inductive.
LEMMA RecordInvStep ==
    ASSUME RescueAfterExpiry, RecordInv, [Next]_vars
    PROVE  RecordDiscipline' /\ LedgerTellsTheTruth'
<1>0. TypeInv /\ Discipline /\ RecordDiscipline /\ LedgerTellsTheTruth /\ AtMostOneResult /\ AttemptInv
  BY AttemptInvParts DEF RecordInv
<1>t. /\ gh \in [RunIds -> [Effects -> Nat]]
      /\ \A w \in Workers : pc[w] # "idle" => at[w] \in RunIds
      /\ \A w \in Workers : pc[w] \in HasEnvelope =>
             env[w].kind \in Results /\ env[w].body \in Payloads
      /\ intents \subseteq RunIds \X Results \X Payloads
  BY <1>0 DEF TypeInv, TypeOK, WorkersHoldRuns, EnvelopesAreSet, Envs, HasEnvelope
<1>b. LedgerGrows /\ \A w \in Workers : Enters(w)
  BY <1>0, BooksAreKept DEF Bookkeeping
<1>m. \A r \in RunIds, x \in Results : gh[r][x] = 1 =>
              gh'[r][x] = 1 /\ \A y \in Results : gh'[r][y] = gh[r][y]
  BY <1>0, ResultsStay
<1>k. \A r \in RunIds, x \in Results, b \in Payloads : <<r, x, b>> \in intents => gh[r][x] = 1
  BY <1>0 DEF RecordDiscipline
<1>1. ASSUME NEW w \in Workers, pc'[w] \in Written
      PROVE  gh'[at[w]][env[w].kind] = 1 /\ at'[w] = at[w] /\ env'[w] = env[w]
  <2>0. at'[w] = at[w] /\ env'[w] = env[w]
    BY <1>b, <1>1 DEF Enters
  <2>1. CASE pc[w] \in Written
    BY <1>0, <1>t, <1>m, <2>0, <2>1 DEF RecordDiscipline, Written, HasEnvelope
  <2>2. CASE pc[w] = "execute" /\ IdempotencyKey(w) \in intents
    BY <1>k, <1>t, <1>m, <2>0, <2>2 DEF IdempotencyKey, HasEnvelope
  <2>3. CASE pc[w] = "write" /\ gh' = [gh EXCEPT ![at[w]][env[w].kind] = @ + 1]
    <3>1. Untouched(at[w]) /\ at[w] \in RunIds /\ env[w].kind \in Results
      BY <1>0, <1>t, <2>3 DEF Discipline, OneWriter, Writing, HasEnvelope
    <3>2. gh[at[w]] \in [Effects -> Nat] /\ gh[at[w]][env[w].kind] = 0
      BY <1>t, <3>1 DEF Untouched
    <3>3. env[w].kind \in Effects
      BY <3>1 DEF Effects
    <3> QED
      BY <1>t, <2>0, <2>3, <3>1, <3>2, <3>3
  <2> QED
    BY <1>b, <1>1, <2>0, <2>1, <2>2, <2>3 DEF Enters
<1>2. \A r \in RunIds, x \in Results, b \in Payloads : <<r, x, b>> \in intents' => gh'[r][x] = 1
  <2> SUFFICES ASSUME NEW r \in RunIds, NEW x \in Results, NEW b \in Payloads, <<r, x, b>> \in intents'
               PROVE  gh'[r][x] = 1
    OBVIOUS
  <2>1. CASE <<r, x, b>> \in intents
    BY <1>k, <1>m, <2>1
  <2>2. ASSUME NEW w \in Workers, pc[w] = "record", <<r, x, b>> = IdempotencyKey(w)
        PROVE  gh[r][x] = 1
    BY <1>0, <2>2 DEF RecordDiscipline, IdempotencyKey, Written
  <2> QED
    BY <1>b, <1>m, <2>1, <2>2 DEF LedgerGrows
<1>3. ASSUME NEW w \in Workers, pc'[w] \in {"ref", "finish"}
      PROVE  IdempotencyKey(w)' \in intents'
  <2>1. at'[w] = at[w] /\ env'[w] = env[w]
    BY <1>1, <1>3 DEF Written
  <2>2. IdempotencyKey(w) \in intents \/ IdempotencyKey(w) \in intents'
    BY <1>0, <1>b, <1>3 DEF Enters, Written, RecordDiscipline
  <2> QED
    BY <1>b, <2>1, <2>2 DEF LedgerGrows, IdempotencyKey
<1>4. ASSUME NEW w \in Workers, pc'[w] = "finish"
      PROVE  ref'[at'[w]]
  <2>1. at'[w] = at[w] /\ (pc[w] = "finish" \/ ref'[at[w]])
    BY <1>b, <1>4 DEF Enters, Written
  <2> QED
    BY <1>0, <1>t, <1>b, <2>1 DEF RecordDiscipline, LedgerGrows
<1>5. RecordDiscipline'
  BY <1>1, <1>2, <1>3, <1>4 DEF RecordDiscipline
\* What a handler at "finish" has in hand.
<1>f. ASSUME NEW w \in Workers, pc[w] = "finish"
      PROVE  /\ at[w] \in RunIds /\ env[w].kind \in Results /\ env[w].body \in Payloads
             /\ ref[at[w]] /\ gh[at[w]][env[w].kind] = 1
             /\ <<at[w], env[w].kind, env[w].body>> \in intents
  BY <1>0, <1>t, <1>f DEF RecordDiscipline, IdempotencyKey, Written, HasEnvelope
<1>6. ASSUME NEW r \in RunIds, status'[r] = "succeeded"
      PROVE  /\ ref'[r]
             /\ \E x \in {"open_pr", "post_review"}, b \in Payloads :
                   gh'[r][x] = 1 /\ <<r, x, b>> \in intents'
  <2>1. /\ ref[r]
        /\ \E x \in {"open_pr", "post_review"}, b \in Payloads : gh[r][x] = 1 /\ <<r, x, b>> \in intents
    <3>1. CASE status[r] = "succeeded"
      BY <1>0, <3>1 DEF LedgerTellsTheTruth
    <3>2. ASSUME NEW w \in Workers, pc[w] = "finish", at[w] = r, env[w].kind # "post_comment"
          PROVE  /\ ref[r]
                 /\ \E x \in {"open_pr", "post_review"}, b \in Payloads :
                       gh[r][x] = 1 /\ <<r, x, b>> \in intents
      BY <1>f, <3>2 DEF Results
    <3> QED
      BY <1>6, <1>b, <3>1, <3>2 DEF LedgerGrows
  <2>2. ref'[r]
    BY <1>b, <2>1 DEF LedgerGrows
  <2> QED
    BY <1>b, <1>m, <2>1, <2>2 DEF LedgerGrows, Results
<1>7. ASSUME NEW r \in RunIds, status'[r] = "needs_input"
      PROVE  ref'[r] /\ reason'[r] /\ gh'[r]["post_comment"] = 1 /\ gh'[r]["open_pr"] = 0
  <2>1. CASE status[r] = "needs_input"
    <3>1. ref[r] /\ reason[r] /\ gh[r]["post_comment"] = 1 /\ gh[r]["open_pr"] = 0
      BY <1>0, <2>1 DEF LedgerTellsTheTruth
    <3>2. ref'[r] /\ reason'[r]
      BY <1>b, <3>1 DEF LedgerGrows
    <3> QED
      BY <1>m, <3>1, <3>2 DEF Results
  <2>2. ASSUME NEW w \in Workers, pc[w] = "finish", at[w] = r, env[w].kind = "post_comment", reason'[r]
        PROVE  ref'[r] /\ reason'[r] /\ gh'[r]["post_comment"] = 1 /\ gh'[r]["open_pr"] = 0
    <3>1. ref[r] /\ gh[r]["post_comment"] = 1
      BY <1>f, <2>2
    <3>2. gh[r]["open_pr"] = 0
      <4>1. gh[r]["open_pr"] \in Nat
        BY <1>t DEF Effects, Results
      <4> QED
        BY <1>0, <3>1, <4>1 DEF AtMostOneResult, Results
    <3>3. ref'[r]
      BY <1>b, <3>1 DEF LedgerGrows
    <3> QED
      BY <1>m, <2>2, <3>1, <3>2, <3>3 DEF Results
  <2> QED
    BY <1>7, <1>b, <2>1, <2>2 DEF LedgerGrows
<1>8. LedgerTellsTheTruth'
  BY <1>6, <1>7 DEF LedgerTellsTheTruth
<1> QED
  BY <1>5, <1>8

LEMMA RecordsAreKept ==
    ASSUME RescueAfterExpiry
    PROVE  Spec => []RecordInv
<1>1. Init => RecordInv
  <2>1. Init => AtMostOneResult /\ RecordDiscipline /\ LedgerTellsTheTruth
    BY DEF Init, AtMostOneResult, RecordDiscipline, LedgerTellsTheTruth, Results, Effects, Written
  <2> QED
    BY <2>1, AttemptInvInit DEF RecordInv
<1>2. RecordInv /\ [Next]_vars => RecordInv'
  <2> SUFFICES ASSUME RecordInv, [Next]_vars PROVE RecordInv'
    OBVIOUS
  <2>1. AttemptInv'
    BY AttemptInvStep DEF RecordInv
  <2>2. AtMostOneResult'
    BY OneResultStep DEF RecordInv
  <2> QED
    BY <2>1, <2>2, RecordInvStep DEF RecordInv
<1> QED
  BY <1>1, <1>2, PTL DEF Spec

\* A succeeded run has its pull request or review, its reference and its record;
\* a needs_input run has its hand-off comment and reason, and no pull request.
THEOREM LedgerIsTruthful ==
    ASSUME RescueAfterExpiry
    PROVE  Spec => []LedgerTellsTheTruth
<1>1. RecordInv => LedgerTellsTheTruth
  BY DEF RecordInv
<1> QED
  BY <1>1, RecordsAreKept, PTL

-----------------------------------------------------------------------------
(***************************************************************************)
(* Part two: how runs end.                                                 *)
(***************************************************************************)

(* How runs are closed *)

\* A handler returns: with nil, or with the error of its first call.
Returns(w) ==
    /\ pc'[w] = "idle" /\ at'[w] = "none"
    /\ \/ /\ pc[w] = "complete"
          /\ job'[at[w]] = IF job[at[w]] = "running" THEN "completed" ELSE job[at[w]]
       \/ /\ pc[w] = "start" /\ (cancelled \/ dbErrors' > dbErrors)
          /\ job'[at[w]] = IF job[at[w]] = "running" THEN RetryState(at[w]) ELSE job[at[w]]

\* A handler's step touches its own program counter, run and job only.
OwnBusiness(w) ==
    /\ pc[w] # "idle" /\ at[w] \in RunIds
    /\ \A v \in Workers : v # w => pc'[v] = pc[v] /\ at'[v] = at[v] /\ env'[v] = env[v]
    /\ \/ Returns(w)
       \/ pc'[w] # "idle" /\ at'[w] = at[w] /\ job' = job
    /\ \A q \in RunIds : q # at[w] => status'[q] = status[q] /\ job'[q] = job[q]
    /\ UNCHANGED <<grant, attempts, crashes, cancelled>>
    /\ dbErrors' \in Nat /\ dbErrors' >= dbErrors

\* What a handler's step does to the status, and how it gets to the last steps of
\* its failure path and to its return.
Closing(w) ==
    LET before == status[at[w]]
        after == status'[at[w]]
        erred == dbErrors' > dbErrors IN
    /\ after # before =>
          \/ after = "running" /\ pc[w] = "mark"
          \/ after = "failed" /\ pc'[w] \in {"failReason", "failRun"}
          \/ after \in {"succeeded", "failed", "needs_input"} /\ (pc'[w] = "complete" \/ erred)
    /\ pc[w] \in {"failReason", "failRun"} => after \in {before, "failed"}
    /\ pc[w] = "complete" => after = before
    /\ pc'[w] = "failReason" => pc[w] = "fail" /\ (cancelled \/ erred \/ after = "failed")
    /\ pc'[w] = "failRun" =>
          \/ cancelled \/ erred
          \/ pc[w] = "failReason" /\ after = "failed"
          \/ pc[w] \in {"execute", "write"} /\ env[w].kind = "post_comment"
    /\ pc'[w] = "complete" =>
          \/ after \in Terminal
          \/ pc[w] = "failRun" /\ after = before /\ (cancelled \/ erred)
    /\ pc[w] = "failReason" => pc'[w] = "failRun"
    /\ pc[w] = "failRun" => pc'[w] = "complete"
    /\ pc[w] = "complete" => pc'[w] = "idle"

\* One statement about the handler's own run, and its three outcomes.
Statement(w, s, ok, err) ==
    \/ LedgerCall(w, SetRunStatus(at[w], s), ok, err)
    \/ LedgerCall(w, SetRunReason(at[w], s), ok, err)

Outcome(w, s, ok, err) ==
    \/ pc'[w] = ok /\ ~cancelled /\ status'[at[w]] = s /\ dbErrors' = dbErrors
    \/ pc'[w] = err /\ dbErrors' > dbErrors /\ status'[at[w]] \in {s, status[at[w]]}
    \/ pc'[w] = err /\ cancelled /\ status'[at[w]] = status[at[w]] /\ dbErrors' = dbErrors

LEMMA StatementOutcomes ==
    ASSUME TypeInv, NEW w \in Workers, pc[w] # "idle", NEW s \in Statuses,
           NEW ok \in PCs \ {"idle"}, NEW err \in PCs \ {"idle"},
           Statement(w, s, ok, err)
    PROVE  OwnBusiness(w) /\ Outcome(w, s, ok, err)
<1>0. /\ status \in [RunIds -> Statuses] /\ pc \in [Workers -> PCs]
      /\ at[w] \in RunIds /\ dbErrors \in Nat
  BY DEF TypeInv, TypeOK, WorkersHoldRuns
<1>1. /\ \/ DbOk /\ Goto(w, ok)
         \/ DbError /\ Goto(w, err)
      /\ UNCHANGED <<dispatchVars, queueVars, age, gh, env, sched>>
  BY DEF Statement, LedgerCall
<1>2. \/ status' = status
      \/ status' = [status EXCEPT ![at[w]] = s]
  BY DEF Statement, LedgerCall, SetRunStatus, SetRunReason, ledgerVars
<1>3. OwnBusiness(w)
  BY <1>0, <1>1, <1>2 DEF OwnBusiness, DbOk, DbError, Goto, dispatchVars, queueVars, faultVars
<1>4. \/ DbOk /\ status' = [status EXCEPT ![at[w]] = s] /\ Goto(w, ok)
      \/ DbError /\ ~cancelled /\ Goto(w, err)
      \/ DbError /\ status' = status /\ Goto(w, err)
  BY DEF Statement, LedgerCall, SetRunStatus, SetRunReason, ledgerVars
<1> QED
  BY <1>0, <1>2, <1>3, <1>4 DEF Outcome, DbOk, DbError, Goto, faultVars

\* A step that leaves every status alone.
LEMMA OtherOutcomes ==
    ASSUME TypeInv, NEW w \in Workers, pc[w] # "idle", NEW next \in PCs \ {"idle"},
           Goto(w, next), status' = status,
           UNCHANGED <<grant, job, attempts, crashes, cancelled>>,
           \A v \in Workers : v # w => env'[v] = env[v],
           dbErrors' = dbErrors \/ DbError
    PROVE  OwnBusiness(w) /\ pc'[w] = next
<1>0. /\ pc \in [Workers -> PCs] /\ at[w] \in RunIds /\ dbErrors \in Nat
  BY DEF TypeInv, TypeOK, WorkersHoldRuns
<1> QED
  BY <1>0 DEF OwnBusiness, Goto, DbError

\* Every step of a handler minds its own business and closes its run in order.
LEMMA StepCloses ==
    ASSUME TypeInv, NEW w \in Workers, Step(w)
    PROVE  OwnBusiness(w) /\ Closing(w)
<1>0. /\ status \in [RunIds -> Statuses] /\ pc \in [Workers -> PCs]
      /\ env \in [Workers -> Envs \cup {NoEnv}]
      /\ at \in [Workers -> RunIds \cup {"none"}] /\ dbErrors \in Nat
      /\ pc[w] # "idle" => at[w] \in RunIds
  BY DEF TypeInv, TypeOK, WorkersHoldRuns
<1>c. /\ {"running", "failed", "succeeded", "needs_input"} \subseteq Statuses
      /\ {"gate", "failRun", "complete", "failReason"} \subseteq PCs \ {"idle"}
      /\ PCs \ {"idle"} = {"start", "mark", "gate", "ack", "agent", "execute", "prepare",
                           "write", "upsert", "record", "ref", "finish", "standDown",
                           "fail", "failReason", "failRun", "complete"}
  BY DEF Statuses, Terminal, PCs
<1>1. CASE MarkRunning(w)
  <2>1. pc[w] = "mark" /\ Statement(w, "running", "gate", "failRun")
    BY <1>1 DEF MarkRunning, Statement
  <2>2. pc[w] # "idle"
    BY <2>1
  <2>3. OwnBusiness(w) /\ Outcome(w, "running", "gate", "failRun")
    BY <2>1, <2>2, <1>c, StatementOutcomes
  <2> QED
    BY <2>1, <2>3 DEF Outcome, Closing, Terminal
<1>2. CASE StandDown(w)
  <2>1. pc[w] = "standDown" /\ Statement(w, "failed", "complete", "failRun")
    BY <1>2 DEF StandDown, Statement
  <2>2. pc[w] # "idle"
    BY <2>1
  <2>3. OwnBusiness(w) /\ Outcome(w, "failed", "complete", "failRun")
    BY <2>1, <2>2, <1>c, StatementOutcomes
  <2> QED
    BY <2>1, <2>3 DEF Outcome, Closing, Terminal
<1>3. CASE FailStatus(w)
  <2>1. pc[w] = "fail" /\ Statement(w, "failed", "failReason", "failReason")
    BY <1>3 DEF FailStatus, Statement
  <2>2. pc[w] # "idle"
    BY <2>1
  <2>3. OwnBusiness(w) /\ Outcome(w, "failed", "failReason", "failReason")
    BY <2>1, <2>2, <1>c, StatementOutcomes
  <2> QED
    BY <2>1, <2>3 DEF Outcome, Closing, Terminal
<1>4. CASE FailReason(w)
  <2>1. pc[w] = "failReason" /\ Statement(w, "failed", "failRun", "failRun")
    BY <1>4 DEF FailReason, Statement
  <2>2. pc[w] # "idle"
    BY <2>1
  <2>3. OwnBusiness(w) /\ Outcome(w, "failed", "failRun", "failRun")
    BY <2>1, <2>2, <1>c, StatementOutcomes
  <2> QED
    BY <2>1, <2>3 DEF Outcome, Closing, Terminal
<1>5. CASE FailRun(w)
  <2>1. pc[w] = "failRun" /\ Statement(w, "failed", "complete", "complete")
    BY <1>5 DEF FailRun, Statement
  <2>2. pc[w] # "idle"
    BY <2>1
  <2>3. OwnBusiness(w) /\ Outcome(w, "failed", "complete", "complete")
    BY <2>1, <2>2, <1>c, StatementOutcomes
  <2> QED
    BY <2>1, <2>3 DEF Outcome, Closing, Terminal
<1>6. CASE Finish(w)
  <2>1. /\ pc[w] = "finish"
        /\ \/ Statement(w, "needs_input", "complete", "failRun")
           \/ Statement(w, "succeeded", "complete", "failRun")
    <3>1. CASE env[w].kind = "post_comment"
      BY <1>6, <3>1 DEF Finish, Statement
    <3>2. CASE env[w].kind # "post_comment"
      BY <1>6, <3>2 DEF Finish, Statement
    <3> QED
      BY <3>1, <3>2
  <2>2. pc[w] # "idle"
    BY <2>1
  <2>3. /\ OwnBusiness(w)
        /\ \/ Outcome(w, "needs_input", "complete", "failRun")
           \/ Outcome(w, "succeeded", "complete", "failRun")
    BY <2>1, <2>2, <1>c, StatementOutcomes
  <2> QED
    BY <2>1, <2>3 DEF Outcome, Closing, Terminal
<1>r. CASE StartError(w) \/ Complete(w)
  <2>0. pc[w] # "idle" /\ pc[w] \in {"start", "complete"} /\ Release(w) /\ status' = status
    BY <1>r DEF StartError, Complete, ledgerVars
  <2>1. UNCHANGED <<grant, attempts, crashes, cancelled>> /\ (dbErrors' = dbErrors \/ DbError)
    BY <1>r DEF StartError, Complete, DbError, dispatchVars, faultVars
  <2>2. at[w] \in RunIds /\ job \in [RunIds -> JobStates]
    BY <1>0, <2>0 DEF TypeInv, TypeOK
  <2>3. /\ \A v \in Workers : v # w => pc'[v] = pc[v] /\ at'[v] = at[v] /\ env'[v] = env[v]
        /\ pc'[w] = "idle" /\ at'[w] = "none"
    BY <1>0, <2>0 DEF Release
  <2>4. \A q \in RunIds : q # at[w] => status'[q] = status[q] /\ job'[q] = job[q]
    BY <1>r, <2>0, <2>2 DEF StartError, Complete
  <2>8. pc[w] # "idle"
    BY <2>0
  <2>9. at[w] \in RunIds
    BY <2>2
  <2>5. dbErrors' \in Nat /\ dbErrors' >= dbErrors
    BY <1>0, <2>1 DEF DbError
  <2>6. Returns(w)
    <3>1. CASE StartError(w)
      <4>1. cancelled \/ dbErrors' > dbErrors
        BY <1>0, <3>1 DEF StartError, DbError
      <4>2. job'[at[w]] = IF job[at[w]] = "running" THEN RetryState(at[w]) ELSE job[at[w]]
        BY <2>2, <3>1 DEF StartError
      <4> QED
        BY <2>3, <3>1, <4>1, <4>2 DEF Returns, StartError
    <3>2. CASE Complete(w)
      BY <2>2, <2>3, <3>2 DEF Returns, Complete
    <3> QED
      BY <1>r, <3>1, <3>2
  <2>7. OwnBusiness(w)
    BY <2>1, <2>3, <2>4, <2>5, <2>6, <2>8, <2>9 DEF OwnBusiness
  <2> QED
    BY <2>0, <2>3, <2>7 DEF Closing
<1>o. ASSUME NEW next \in PCs \ {"idle"}, Goto(w, next), status' = status,
             pc[w] \notin {"idle", "fail", "failReason", "failRun", "complete"},
             next \notin {"failReason", "complete"},
             next = "failRun" =>
                \/ dbErrors' > dbErrors
                \/ cancelled
                \/ pc[w] \in {"execute", "write"} /\ env[w].kind = "post_comment",
             UNCHANGED <<grant, job, attempts, crashes, cancelled>>,
             \A v \in Workers : v # w => env'[v] = env[v],
             dbErrors' = dbErrors \/ DbError
      PROVE  OwnBusiness(w) /\ Closing(w)
  <2>1. OwnBusiness(w) /\ pc'[w] = next
    BY <1>o, OtherOutcomes
  <2> QED
    BY <1>o, <2>1 DEF Closing
<1>q. CASE Gate(w) \/ AgentFails(w) \/ AgentBlockedUpgrade(w) \/ ExecuteDeduped(w) \/ ExecuteFresh(w)
  <2>1. PICK next \in {"fail", "ack", "agent", "standDown", "ref", "write", "prepare"} :
          Goto(w, next) /\ pc[w] \in {"gate", "agent", "execute"}
    BY <1>q DEF Gate, AgentFails, AgentBlockedUpgrade, ExecuteDeduped, ExecuteFresh
  <2>2. UNCHANGED <<status, env, grant, job, attempts, crashes, cancelled, dbErrors>>
    BY <1>q DEF Gate, AgentFails, AgentBlockedUpgrade, ExecuteDeduped, ExecuteFresh, DbOk,
                ledgerVars, dispatchVars, queueVars, faultVars
  <2> QED
    BY <2>1, <2>2, <1>c, <1>o
<1>s. CASE Start(w)
  <2>1. PICK next \in {"mark", "failRun"} :
          /\ Goto(w, next) /\ pc[w] = "start"
          /\ dbErrors' = dbErrors \/ DbError
          /\ next = "failRun" => dbErrors' > dbErrors \/ cancelled
    BY <1>0, <1>s DEF Start, DbOk, DbError, faultVars
  <2>2. UNCHANGED <<status, env, grant, job, attempts, crashes, cancelled>>
    BY <1>s DEF Start, DbOk, DbError, ledgerVars, dispatchVars, queueVars, faultVars
  <2> QED
    BY <2>1, <2>2, <1>c, <1>o
<1>x. CASE ExecuteRefused(w)
  <2>1. PICK next \in {"fail", "failRun"} :
          /\ Goto(w, next) /\ pc[w] = "execute"
          /\ dbErrors' = dbErrors \/ DbError
          /\ next = "failRun" => env[w].kind = "post_comment"
    BY <1>x DEF ExecuteRefused, ExecuteError, faultVars
  <2>2. UNCHANGED <<status, env, grant, job, attempts, crashes, cancelled>>
    BY <1>x DEF ExecuteRefused, DbError, ledgerVars, dispatchVars, queueVars, faultVars
  <2> QED
    BY <2>1, <2>2, <1>c, <1>o
<1>p. CASE AgentDone(w) \/ AgentBlockedIssue(w)
  <2>1. PICK k \in Results : Proposes(w, k, "execute")
    BY <1>p DEF AgentDone, AgentBlockedIssue, Results
  <2>2. /\ Goto(w, "execute") /\ pc[w] = "agent"
        /\ \A v \in Workers : v # w => env'[v] = env[v]
    BY <1>0, <2>1 DEF Proposes
  <2>3. UNCHANGED <<status, grant, job, attempts, crashes, cancelled, dbErrors>>
    BY <2>1 DEF Proposes, ledgerVars, dispatchVars, queueVars, faultVars
  <2> QED
    BY <2>2, <2>3, <1>c, <1>o
<1>g. CASE Acknowledge(w) \/ Prepare(w) \/ WriteResult(w)
  <2>1. PICK next \in {"agent", "write", "fail", "upsert", "record", "failRun"} :
          /\ Goto(w, next) /\ pc[w] \in {"ack", "prepare", "write"}
          /\ next = "failRun" => pc[w] = "write" /\ env[w].kind = "post_comment"
    <3>1. CASE Acknowledge(w)
      BY <3>1 DEF Acknowledge, GitHubCall
    <3>2. CASE Prepare(w)
      BY <3>2 DEF Prepare, GitHubCall
    <3>3. CASE WriteResult(w)
      BY <3>3 DEF WriteResult, ExecuteError, GitHubCall
    <3> QED
      BY <1>g, <3>1, <3>2, <3>3
  <2>2. UNCHANGED <<status, env, grant, job, attempts, crashes, cancelled, dbErrors>>
    BY <1>g DEF Acknowledge, Prepare, WriteResult, GitHubCall,
                ledgerVars, dispatchVars, queueVars, faultVars
  <2> QED
    BY <2>1, <2>2, <1>c, <1>o
<1>l. CASE UpsertReviewComment(w) \/ RecordIntent(w) \/ RecordRef(w)
  <2>1. PICK next \in {"record", "fail", "ref", "failRun", "finish"} :
          /\ Goto(w, next) /\ pc[w] \in {"upsert", "record", "ref"}
          /\ next = "failRun" => dbErrors' > dbErrors \/ cancelled
          /\ dbErrors' = dbErrors \/ DbError
    <3>1. \E next \in {"record", "fail", "ref", "failRun", "finish"} :
            /\ pc[w] \in {"upsert", "record", "ref"}
            /\ \/ DbOk /\ Goto(w, next) /\ next # "failRun"
               \/ DbError /\ Goto(w, next)
      <4>1. CASE UpsertReviewComment(w)
        BY <4>1 DEF UpsertReviewComment, LedgerCall
      <4>2. CASE RecordIntent(w)
        BY <4>2 DEF RecordIntent, ExecuteError, LedgerCall
      <4>3. CASE RecordRef(w)
        BY <4>3 DEF RecordRef, LedgerCall
      <4> QED
        BY <1>l, <4>1, <4>2, <4>3
    <3> QED
      BY <1>0, <3>1 DEF DbOk, DbError, faultVars
  <2>2. UNCHANGED <<status, env, grant, job, attempts, crashes, cancelled>>
    BY <1>l DEF UpsertReviewComment, RecordIntent, RecordRef, Record, SetRunRef, LedgerCall, DbOk,
                DbError, ledgerVars, dispatchVars, queueVars, faultVars
  <2> QED
    BY <2>1, <2>2, <1>c, <1>o
<1> QED
  BY <1>1, <1>2, <1>3, <1>4, <1>5, <1>6, <1>r, <1>q, <1>s, <1>x, <1>p, <1>g, <1>l DEF Step

-----------------------------------------------------------------------------
(* A status is settled by one attempt *)

\* While a job has been handed out once at most, there is one handler at most, and
\* in a run without ledger errors that handler has settled the status last.
OneAttemptInv ==
    /\ \A r \in RunIds : job[r] = "none" => attempts[r] = 0
    /\ \A r \in RunIds : status[r] = "denied" => job[r] = "none"
    /\ \A r \in RunIds : attempts[r] = 0 =>
          status[r] \in {"none", "queued", "denied"} /\ \A w \in Workers : at[w] # r
    /\ \A w, v \in Workers : w # v /\ at[w] = at[v] /\ at[w] # "none" => attempts[at[w]] > 1
    /\ \A w \in Workers :
          /\ at[w] # "none" /\ attempts[at[w]] <= 1 /\ dbErrors = 0
          /\ status[at[w]] \in Terminal
          => \/ pc[w] = "complete"
             \/ pc[w] \in {"failReason", "failRun"} /\ status[at[w]] = "failed"

LEMMA OneAttemptStep ==
    ASSUME TypeInv, OneAttemptInv, NEW w \in Workers, Step(w)
    PROVE  /\ OneAttemptInv'
           /\ \A r \in RunIds : status[r] \in Terminal /\ status'[r] # status[r]
                => attempts[r] > 1 \/ dbErrors > 0
<1>0. /\ status \in [RunIds -> Statuses] /\ pc \in [Workers -> PCs] /\ dbErrors \in Nat
      /\ job \in [RunIds -> JobStates] /\ attempts \in [RunIds -> Nat]
      /\ \A v \in Workers : at[v] # "none" => at[v] \in RunIds
      /\ "none" \notin RunIds
  BY NamesAssumption DEF TypeInv, TypeOK, WorkersHoldRuns
<1>1. OwnBusiness(w) /\ Closing(w)
  BY StepCloses
<1>2. /\ pc[w] # "idle" /\ at[w] \in RunIds /\ at[w] # "none"
      /\ \A v \in Workers : v # w => pc'[v] = pc[v] /\ at'[v] = at[v]
      /\ attempts' = attempts /\ dbErrors' \in Nat /\ dbErrors' >= dbErrors
      /\ \A q \in RunIds : q # at[w] => status'[q] = status[q] /\ job'[q] = job[q]
      /\ \/ pc'[w] = "idle" /\ at'[w] = "none"
         \/ pc'[w] # "idle" /\ at'[w] = at[w]
      /\ job'[at[w]] = job[at[w]] \/ job'[at[w]] # "none"
  BY <1>0, <1>1 DEF OwnBusiness, Returns, RetryState
<1>3. attempts[at[w]] # 0 /\ attempts[at[w]] \in Nat
  BY <1>0, <1>2 DEF OneAttemptInv
<1>4. job[at[w]] # "none" /\ status[at[w]] # "denied"
  BY <1>2, <1>3 DEF OneAttemptInv
<1>5. status'[at[w]] # "denied"
  BY <1>1, <1>4 DEF Closing
<1>6. \A r \in RunIds : job'[r] = "none" => attempts'[r] = 0
  BY <1>2, <1>4 DEF OneAttemptInv
<1>7. \A r \in RunIds : status'[r] = "denied" => job'[r] = "none"
  BY <1>2, <1>5 DEF OneAttemptInv
<1>8. \A r \in RunIds : attempts'[r] = 0 =>
          status'[r] \in {"none", "queued", "denied"} /\ \A v \in Workers : at'[v] # r
  BY <1>2, <1>3, <1>0 DEF OneAttemptInv
<1>9. \A u, v \in Workers : u # v /\ at'[u] = at'[v] /\ at'[u] # "none" => attempts'[at'[u]] > 1
  BY <1>2 DEF OneAttemptInv
\* The status of the handler's own run, in its only attempt and without errors.
<1>a. ASSUME attempts[at[w]] <= 1, dbErrors' = 0, status'[at[w]] \in Terminal, at'[w] # "none"
      PROVE  \/ pc'[w] = "complete"
             \/ pc'[w] \in {"failReason", "failRun"} /\ status'[at[w]] = "failed"
  <2>1. dbErrors = 0 /\ ~(dbErrors' > dbErrors) /\ pc'[w] # "idle"
    BY <1>0, <1>2, <1>a
  <2>2. CASE status'[at[w]] # status[at[w]]
    BY <1>1, <1>a, <2>1, <2>2 DEF Closing, Terminal
  <2>3. CASE status'[at[w]] = status[at[w]]
    <3>1. \/ pc[w] = "complete"
          \/ pc[w] \in {"failReason", "failRun"} /\ status[at[w]] = "failed"
      BY <1>2, <1>a, <2>1, <2>3 DEF OneAttemptInv
    <3> QED
      BY <1>1, <2>1, <2>3, <3>1 DEF Closing
  <2> QED
    BY <2>2, <2>3
<1>b. ASSUME NEW v \in Workers, at'[v] # "none", attempts'[at'[v]] <= 1, dbErrors' = 0,
             status'[at'[v]] \in Terminal
      PROVE  \/ pc'[v] = "complete"
             \/ pc'[v] \in {"failReason", "failRun"} /\ status'[at'[v]] = "failed"
  <2>1. CASE v = w
    BY <1>2, <1>a, <1>b, <2>1
  <2>2. CASE v # w
    <3>1. at'[v] = at[v] /\ pc'[v] = pc[v] /\ dbErrors = 0 /\ at[v] \in RunIds
          /\ attempts[at[v]] \in Nat
      BY <1>0, <1>2, <1>b, <2>2
    <3>2. at[v] # at[w]
      BY <1>2, <1>3, <1>b, <2>2, <3>1 DEF OneAttemptInv
    <3> QED
      BY <1>2, <1>b, <3>1, <3>2 DEF OneAttemptInv
  <2> QED
    BY <2>1, <2>2
<1>c. OneAttemptInv'
  BY <1>6, <1>7, <1>8, <1>9, <1>b DEF OneAttemptInv
<1>d. ASSUME NEW r \in RunIds, status[r] \in Terminal, status'[r] # status[r]
      PROVE  attempts[r] > 1 \/ dbErrors > 0
  <2>1. r = at[w]
    BY <1>2, <1>d
  <2>2. SUFFICES ASSUME attempts[r] <= 1, dbErrors = 0 PROVE FALSE
    BY <1>0, <1>d, <2>1
  <2>3. \/ pc[w] = "complete"
        \/ pc[w] \in {"failReason", "failRun"} /\ status[r] = "failed"
    BY <1>2, <1>d, <2>1, <2>2 DEF OneAttemptInv
  <2> QED
    BY <1>1, <1>d, <2>1, <2>3 DEF Closing
<1> QED
  BY <1>c, <1>d

\* What is not a handler's step: a dispatch, River's fetch and rescue, a crash, and
\* steps that leave runs, jobs and handlers alone.
Inserts(r) ==
    /\ status[r] = "none"
    /\ \/ status'[r] = "denied" /\ job'[r] = "none"
       \/ status'[r] = "queued" /\ job'[r] = "available"
    /\ \A q \in RunIds : q # r => status'[q] = status[q] /\ job'[q] = job[q] /\ grant'[q] = grant[q]
    /\ UNCHANGED <<intents, attempts, gh, pc, at, env, cancelled, crashes, dbErrors>>

Bystanding ==
    /\ UNCHANGED <<status, intents, grant, job, attempts, gh, pc, at, env, crashes, dbErrors>>
    /\ cancelled' => cancelled \/ ShutdownAllowed

LEMMA NextKinds ==
    ASSUME TypeInv, [Next]_vars
    PROVE  \/ \E w \in Workers : Step(w)
           \/ \E r \in RunIds : Inserts(r) \/ Rescue(r)
           \/ \E w \in Workers, r \in RunIds : Fetch(w, r)
           \/ Crash \/ Bystanding
<1>0. /\ status \in [RunIds -> Statuses] /\ job \in [RunIds -> JobStates]
      /\ grant \in [RunIds -> Grant]
  BY DEF TypeInv, TypeOK
<1>1. ASSUME NEW r \in RunIds, NEW g, NEW d, status[r] = "none", InsertRun(r, g, d),
             UNCHANGED <<reason, ref, intents, attempts, since, age, gh, workerVars, faultVars>>
      PROVE  Inserts(r)
  BY <1>0, <1>1 DEF InsertRun, Inserts, workerVars, faultVars
<1>2. ASSUME NEW r \in RunIds, NEW d \in Deliveries, HandleEvent(r, d)
      PROVE  Inserts(r)
  BY <1>1, <1>2 DEF HandleEvent
<1>3. ASSUME NEW s \in Schedulers, NEW r \in RunIds, ScheduleInsert(s, r)
      PROVE  Inserts(r)
  BY <1>1, <1>3 DEF ScheduleInsert
<1>4. ASSUME NEW s \in Schedulers, ScheduleCheck(s) \/ ScheduleError(s)
      PROVE  Bystanding
  BY <1>4 DEF ScheduleCheck, ScheduleError, Bystanding, ledgerVars, dispatchVars, queueVars,
              workerVars, faultVars
<1>5. Tick \/ Shutdown \/ Restart \/ UNCHANGED vars => Bystanding
  BY DEF Tick, Shutdown, Restart, vars, Bystanding, ledgerVars, dispatchVars, queueVars,
         workerVars, faultVars
<1> QED
  BY <1>2, <1>3, <1>4, <1>5 DEF Next

LEMMA OneAttemptInvStep == TypeInv /\ OneAttemptInv /\ [Next]_vars => OneAttemptInv'
<1> SUFFICES ASSUME TypeInv, OneAttemptInv, [Next]_vars PROVE OneAttemptInv'
  OBVIOUS
<1>0. /\ status \in [RunIds -> Statuses] /\ pc \in [Workers -> PCs]
      /\ at \in [Workers -> RunIds \cup {"none"}]
      /\ job \in [RunIds -> JobStates] /\ attempts \in [RunIds -> Nat]
      /\ \A v \in Workers : at[v] # "none" => at[v] \in RunIds /\ status[at[v]] # "none"
      /\ \A r \in RunIds : status[r] = "none" => job[r] = "none"
      /\ "none" \notin RunIds
  BY NamesAssumption DEF TypeInv, TypeOK, WorkersHoldRuns, JobsHaveRuns
<1>1. ASSUME NEW r \in RunIds, Inserts(r) PROVE OneAttemptInv'
  BY <1>0, <1>1 DEF OneAttemptInv, Inserts, Terminal
<1>2. ASSUME NEW w \in Workers, NEW r \in RunIds, Fetch(w, r) PROVE OneAttemptInv'
  <2>1. /\ pc[w] = "idle" /\ job[r] = "available"
        /\ job' = [job EXCEPT ![r] = "running"] /\ attempts' = [attempts EXCEPT ![r] = @ + 1]
        /\ pc' = [pc EXCEPT ![w] = "start"] /\ at' = [at EXCEPT ![w] = r]
        /\ status' = status /\ dbErrors' = dbErrors
    BY <1>2 DEF Fetch, ledgerVars, faultVars
  <2>2. at[w] = "none" /\ status[r] # "none" /\ status[r] # "denied"
    BY <1>0, <2>1 DEF TypeInv, WorkersHoldRuns, OneAttemptInv
  <2>3. attempts'[r] = 1 => status[r] = "queued" /\ \A v \in Workers : at[v] # r
    BY <1>0, <2>1, <2>2 DEF OneAttemptInv
  <2>4. \A q \in RunIds : q # r => job'[q] = job[q] /\ attempts'[q] = attempts[q]
    BY <1>0, <2>1
  <2>5. job'[r] = "running" /\ attempts'[r] = attempts[r] + 1 /\ attempts[r] \in Nat
    BY <1>0, <2>1
  <2>6. /\ pc'[w] = "start" /\ at'[w] = r
        /\ \A v \in Workers : v # w => pc'[v] = pc[v] /\ at'[v] = at[v]
    BY <1>0, <2>1
  <2>7. \A q \in RunIds : attempts'[q] = 0 =>
            status'[q] \in {"none", "queued", "denied"} /\ \A v \in Workers : at'[v] # q
    BY <2>1, <2>4, <2>5, <2>6 DEF OneAttemptInv
  <2>8. ASSUME NEW u \in Workers, NEW v \in Workers, u # v, at'[u] = at'[v], at'[u] # "none"
        PROVE  attempts'[at'[u]] > 1
    <3>1. CASE at'[u] = r
      <4>1. \E x \in Workers : at[x] = r
        BY <2>6, <2>8, <3>1
      <4>2. attempts[r] # 0
        BY <4>1 DEF OneAttemptInv
      <4> QED
        BY <2>5, <3>1, <4>2
    <3>2. CASE at'[u] # r
      BY <1>0, <2>4, <2>6, <2>8, <3>2 DEF OneAttemptInv
    <3> QED
      BY <3>1, <3>2
  <2>9. ASSUME NEW v \in Workers, at'[v] # "none", attempts'[at'[v]] <= 1, dbErrors' = 0,
               status'[at'[v]] \in Terminal
        PROVE  \/ pc'[v] = "complete"
               \/ pc'[v] \in {"failReason", "failRun"} /\ status'[at'[v]] = "failed"
    <3>1. at'[v] # r
      <4>1. attempts'[r] <= 1 => status'[r] = "queued"
        BY <2>1, <2>3, <2>5
      <4> QED
        BY <2>9, <4>1 DEF Terminal
    <3> QED
      BY <1>0, <2>1, <2>4, <2>6, <2>9, <3>1 DEF OneAttemptInv
  <2>a. \A q \in RunIds : /\ job'[q] = "none" => attempts'[q] = 0
                          /\ status'[q] = "denied" => job'[q] = "none"
    BY <2>1, <2>2, <2>4, <2>5 DEF OneAttemptInv
  <2> QED
    BY <2>7, <2>8, <2>9, <2>a DEF OneAttemptInv
<1>3. ASSUME NEW r \in RunIds, Rescue(r) PROVE OneAttemptInv'
  <2>1. /\ \A q \in RunIds : job'[q] = "none" <=> job[q] = "none"
        /\ UNCHANGED <<status, attempts, pc, at, dbErrors>>
    BY <1>0, <1>3 DEF Rescue, RetryState, ledgerVars, workerVars, faultVars
  <2> QED
    BY <2>1 DEF OneAttemptInv
<1>4. ASSUME Crash PROVE OneAttemptInv'
  <2>1. \A w \in Workers : at'[w] = "none"
    BY <1>4 DEF Crash
  <2>2. UNCHANGED <<status, job, attempts>>
    BY <1>4 DEF Crash, ledgerVars, queueVars
  <2>3. \A r \in RunIds, w \in Workers : at'[w] # r
    BY <1>0, <2>1
  <2> QED
    BY <2>1, <2>2, <2>3 DEF OneAttemptInv
<1>5. Bystanding => OneAttemptInv'
  BY DEF Bystanding, OneAttemptInv
<1>6. ASSUME NEW w \in Workers, Step(w) PROVE OneAttemptInv'
  BY <1>6, OneAttemptStep
<1> QED
  BY <1>1, <1>2, <1>3, <1>4, <1>5, <1>6, NextKinds

\* A terminal status is only overwritten by a later attempt or after a ledger call
\* whose answer was an error.
THEOREM SettledOnce == Spec => SettledByOneAttempt
<1>1. Init => TypeInv /\ OneAttemptInv
  <2>1. Init => WorkersHoldRuns /\ EnvelopesAreSet /\ JobsHaveRuns
    BY DEF Init, WorkersHoldRuns, EnvelopesAreSet, JobsHaveRuns, Writing, Written
  <2>2. Init => OneAttemptInv
    BY NamesAssumption DEF Init, OneAttemptInv
  <2> QED
    BY <2>1, <2>2, InitType DEF TypeInv
<1>2. TypeInv /\ OneAttemptInv /\ [Next]_vars => TypeInv' /\ OneAttemptInv'
  BY TypeInvStep, OneAttemptInvStep
<1>3. TypeInv /\ OneAttemptInv /\ [Next]_vars =>
        [\A r \in RunIds :
          status[r] \in Terminal /\ status'[r] # status[r] => attempts[r] > 1 \/ dbErrors > 0]_vars
  <2> SUFFICES ASSUME TypeInv, OneAttemptInv, [Next]_vars,
                      NEW r \in RunIds, status[r] \in Terminal, status'[r] # status[r]
               PROVE  attempts[r] > 1 \/ dbErrors > 0
    OBVIOUS
  <2>1. ASSUME NEW q \in RunIds, Inserts(q) PROVE FALSE
    BY <2>1 DEF Inserts, Terminal
  <2>2. (\E q \in RunIds : Rescue(q)) \/ Crash \/ Bystanding => FALSE
    BY DEF Rescue, Crash, Bystanding, ledgerVars
  <2>3. ASSUME NEW w \in Workers, NEW q \in RunIds, Fetch(w, q) PROVE FALSE
    BY <2>3 DEF Fetch, ledgerVars
  <2>4. ASSUME NEW w \in Workers, Step(w) PROVE attempts[r] > 1 \/ dbErrors > 0
    BY <2>4, OneAttemptStep
  <2> QED
    BY <2>1, <2>2, <2>3, <2>4, NextKinds
<1> QED
  BY <1>1, <1>2, <1>3, PTL DEF Spec, SettledByOneAttempt

-----------------------------------------------------------------------------
(* Handlers that do not outlive the rescue age *)

\* A handler holds its job alone, and River counts that job as running.
ExclusiveInv ==
    /\ \A w \in Workers : pc[w] # "idle" => job[at[w]] = "running"
    /\ \A w, v \in Workers : w # v /\ at[w] = at[v] => at[w] = "none"

\* What a handler is about to write has no record.
FreshInv == \A w \in Workers : pc[w] \in Writing => IdempotencyKey(w) \notin intents

\* The run is closed, or it is an issue run and a ledger call has failed.
Closed(r) == status[r] \in Terminal \/ HandoffExposed(r)

\* Every attempt but the one under way has been paid for by a crash or a failed
\* ledger call, and a job is only completed when its run is closed.
RunSettles(r) ==
    /\ job[r] # "discarded"
    /\ job[r] = "completed" => Closed(r)
    /\ attempts[r] <= crashes + dbErrors + 1
    /\ (\A w \in Workers : at[w] # r) /\ job[r] # "completed" => attempts[r] <= crashes + dbErrors

\* The handler's failure path has closed the run by its last step, or will.
HandlerSettles(w, r) ==
    /\ pc[w] = "failReason" => dbErrors > 0 \/ status[r] = "failed"
    /\ pc[w] = "failRun" =>
          dbErrors > 0 \/ status[r] = "failed" \/ grant[r].trigger = "webhook_issue_labeled"
    /\ pc[w] = "complete" => Closed(r)
    /\ pc[w] \in HasEnvelope /\ env[w].kind = "post_comment" =>
          grant[r].trigger = "webhook_issue_labeled"

SettleInv ==
    /\ ~cancelled
    /\ \A r \in RunIds : RunSettles(r)
    /\ \A w \in Workers : HandlerSettles(w, at[w])

\* Faults that the attempts of a job outlast, none of them a SIGTERM.
FewFaults == ~ShutdownAllowed /\ MaxDbErrors <= 1 /\ MaxCrashes + MaxDbErrors < MaxAttempts

LEMMA ExclusiveInvStep == ~SlowHandlers /\ TypeInv /\ ExclusiveInv /\ [Next]_vars => ExclusiveInv'
<1> SUFFICES ASSUME ~SlowHandlers, TypeInv, ExclusiveInv, [Next]_vars PROVE ExclusiveInv'
  OBVIOUS
<1>0. /\ pc \in [Workers -> PCs] /\ at \in [Workers -> RunIds \cup {"none"}]
      /\ job \in [RunIds -> JobStates]
      /\ \A v \in Workers : pc[v] = "idle" => at[v] = "none"
      /\ \A v \in Workers : pc[v] # "idle" => at[v] \in RunIds /\ status[at[v]] # "none"
      /\ "none" \notin RunIds
  BY NamesAssumption DEF TypeInv, TypeOK, WorkersHoldRuns
<1>1. ASSUME NEW r \in RunIds, Inserts(r) PROVE ExclusiveInv'
  BY <1>0, <1>1 DEF ExclusiveInv, Inserts
<1>2. ASSUME NEW w \in Workers, NEW r \in RunIds, Fetch(w, r) PROVE ExclusiveInv'
  <2>1. /\ job[r] = "available" /\ job' = [job EXCEPT ![r] = "running"]
        /\ pc' = [pc EXCEPT ![w] = "start"] /\ at' = [at EXCEPT ![w] = r]
    BY <1>2 DEF Fetch
  <2>2. \A v \in Workers : at[v] # r
    BY <1>0, <2>1 DEF ExclusiveInv
  <2> QED
    BY <1>0, <2>1, <2>2 DEF ExclusiveInv
<1>3. ASSUME NEW r \in RunIds, Rescue(r) PROVE ExclusiveInv'
  <2>1. /\ \A v \in Workers : at[v] # r
        /\ \A q \in RunIds : q # r => job'[q] = job[q]
        /\ UNCHANGED <<pc, at>>
    BY <1>0, <1>3 DEF Rescue, workerVars
  <2> QED
    BY <1>0, <2>1 DEF ExclusiveInv
<1>4. Crash => ExclusiveInv'
  BY DEF Crash, ExclusiveInv
<1>5. Bystanding => ExclusiveInv'
  BY DEF Bystanding, ExclusiveInv
<1>6. ASSUME NEW w \in Workers, Step(w) PROVE ExclusiveInv'
  <2>1. OwnBusiness(w)
    BY <1>6, StepCloses
  <2>2. \A v \in Workers : v # w => at[v] # at[w]
    BY <1>0, <2>1 DEF OwnBusiness, ExclusiveInv
  <2>3. ASSUME NEW v \in Workers, pc'[v] # "idle" PROVE job'[at'[v]] = "running"
    <3>1. CASE v = w
      BY <2>1, <2>3, <3>1 DEF OwnBusiness, Returns, ExclusiveInv
    <3>2. CASE v # w
      BY <1>0, <2>1, <2>2, <2>3, <3>2 DEF OwnBusiness, ExclusiveInv
    <3> QED
      BY <3>1, <3>2
  <2>4. ASSUME NEW u \in Workers, NEW v \in Workers, u # v, at'[u] = at'[v] PROVE at'[u] = "none"
    BY <2>1, <2>2, <2>4 DEF OwnBusiness, Returns, ExclusiveInv
  <2> QED
    BY <2>3, <2>4 DEF ExclusiveInv
<1> QED
  BY <1>1, <1>2, <1>3, <1>4, <1>5, <1>6, NextKinds

LEMMA ExclusiveInvInit == Init => TypeInv /\ ExclusiveInv
<1>1. Init => WorkersHoldRuns /\ EnvelopesAreSet /\ JobsHaveRuns
  BY DEF Init, WorkersHoldRuns, EnvelopesAreSet, JobsHaveRuns, Writing, Written
<1>2. Init => ExclusiveInv
  BY DEF Init, ExclusiveInv
<1> QED
  BY <1>1, <1>2, InitType DEF TypeInv

\* How a handler comes to be writing.
Writes(w) ==
    pc'[w] \in Writing =>
        /\ at'[w] = at[w] /\ env'[w] = env[w]
        /\ \/ pc[w] \in Writing
           \/ pc[w] = "execute" /\ IdempotencyKey(w) \notin intents

LEMMA StepWrites ==
    ASSUME TypeInv, NEW w \in Workers, Step(w)
    PROVE  Writes(w)
<1>0. pc \in [Workers -> PCs]
  BY DEF TypeInv, TypeOK
<1>1. ASSUME NEW next \in PCs \ Writing, Goto(w, next) PROVE Writes(w)
  BY <1>0, <1>1 DEF Goto, Writes
<1>c. PCs \ Writing = {"idle", "start", "mark", "gate", "ack", "agent", "execute", "upsert", "record",
                       "ref", "finish", "standDown", "fail", "failReason", "failRun", "complete"}
  BY DEF PCs, Writing
<1>2. CASE StartError(w) \/ Complete(w)
  BY <1>0, <1>2 DEF StartError, Complete, Release, Writes, Writing
<1>3. CASE \/ Start(w) \/ MarkRunning(w) \/ Gate(w) \/ Acknowledge(w) \/ AgentFails(w)
           \/ AgentBlockedUpgrade(w) \/ StandDown(w) \/ ExecuteRefused(w) \/ ExecuteDeduped(w)
  <2>1. \E next \in PCs \ Writing : Goto(w, next)
    BY <1>3, <1>c DEF Start, MarkRunning, Gate, Acknowledge, AgentFails, AgentBlockedUpgrade, StandDown,
                      ExecuteRefused, ExecuteError, ExecuteDeduped, LedgerCall, GitHubCall
  <2> QED
    BY <1>1, <2>1
<1>4. CASE AgentDone(w) \/ AgentBlockedIssue(w)
  <2>1. Goto(w, "execute")
    BY <1>4 DEF AgentDone, AgentBlockedIssue, Proposes
  <2> QED
    BY <1>1, <1>c, <2>1
<1>5. CASE \/ WriteResult(w) \/ UpsertReviewComment(w) \/ RecordIntent(w) \/ RecordRef(w) \/ Finish(w)
           \/ FailStatus(w) \/ FailReason(w) \/ FailRun(w)
  <2>1. \E next \in PCs \ Writing : Goto(w, next)
    BY <1>5, <1>c DEF WriteResult, UpsertReviewComment, RecordIntent, RecordRef, Finish, FailStatus,
                      FailReason, FailRun, ExecuteError, LedgerCall, GitHubCall
  <2> QED
    BY <1>1, <2>1
<1>6. CASE ExecuteFresh(w)
  BY <1>6 DEF ExecuteFresh, Goto, Writes
<1>7. CASE Prepare(w)
  <2>1. pc[w] = "prepare" /\ (Goto(w, "write") \/ Goto(w, "fail")) /\ env' = env
    BY <1>7 DEF Prepare, GitHubCall
  <2> QED
    BY <1>0, <2>1 DEF Goto, Writes, Writing
<1> QED
  BY <1>2, <1>3, <1>4, <1>5, <1>6, <1>7 DEF Step

LEMMA FreshInvStep == TypeInv /\ ExclusiveInv /\ FreshInv /\ [Next]_vars => FreshInv'
<1> SUFFICES ASSUME TypeInv, ExclusiveInv, FreshInv, [Next]_vars,
                    NEW v \in Workers, pc'[v] \in Writing
             PROVE  IdempotencyKey(v)' \notin intents'
  BY DEF FreshInv
<1>0. pc \in [Workers -> PCs] /\ \A w \in Workers : pc[w] # "idle" => at[w] # "none"
  BY NamesAssumption DEF TypeInv, TypeOK, WorkersHoldRuns
<1>1. /\ at'[v] = at[v] /\ env'[v] = env[v]
      /\ (pc[v] \in Writing \/ pc[v] = "execute")
      /\ IdempotencyKey(v) \notin intents
  <2>1. CASE pc'[v] = pc[v] /\ at'[v] = at[v] /\ env'[v] = env[v]
    BY <2>1 DEF FreshInv
  <2>2. ASSUME NEW w \in Workers, Step(w)
        PROVE  \/ pc'[v] = pc[v] /\ at'[v] = at[v] /\ env'[v] = env[v]
               \/ v = w /\ Writes(v)
    BY <2>2, StepCloses, StepWrites DEF OwnBusiness
  <2>3. CASE Writes(v)
    BY <2>3 DEF Writes, FreshInv
  <2>4. ASSUME NEW r \in RunIds, Inserts(r) \/ Rescue(r)
        PROVE  pc'[v] = pc[v] /\ at'[v] = at[v] /\ env'[v] = env[v]
    BY <2>4 DEF Inserts, Rescue, workerVars
  <2>5. ASSUME NEW w \in Workers, NEW r \in RunIds, Fetch(w, r)
        PROVE  pc'[v] = pc[v] /\ at'[v] = at[v] /\ env'[v] = env[v]
    <3>1. pc' = [pc EXCEPT ![w] = "start"] /\ at' = [at EXCEPT ![w] = r] /\ env' = env
      BY <2>5 DEF Fetch
    <3>2. v # w
      BY <1>0, <3>1 DEF Writing
    <3>3. at \in [Workers -> RunIds \cup {"none"}]
      BY DEF TypeInv, TypeOK
    <3> QED
      BY <1>0, <3>1, <3>2, <3>3
  <2>6. ~Crash
    BY DEF Crash, Writing
  <2>7. Bystanding => pc'[v] = pc[v] /\ at'[v] = at[v] /\ env'[v] = env[v]
    BY DEF Bystanding
  <2> QED
    BY <2>1, <2>2, <2>3, <2>4, <2>5, <2>6, <2>7, NextKinds
\* A record that appears is that of a handler at "record", which has another run.
<1>2. SUFFICES ASSUME NEW w \in Workers, pc[w] = "record", IdempotencyKey(v) = IdempotencyKey(w)
               PROVE  FALSE
  <2>1. IdempotencyKey(v)' = IdempotencyKey(v)
    BY <1>1 DEF IdempotencyKey
  <2>2. LedgerGrows
    BY BooksAreKept DEF Bookkeeping
  <2> QED
    BY <1>1, <2>1, <2>2 DEF LedgerGrows
<1>3. w # v /\ pc[v] # "idle"
  BY <1>1, <1>2 DEF Writing
<1>4. at[v] = at[w]
  BY <1>2 DEF IdempotencyKey
<1> QED
  BY <1>0, <1>3, <1>4 DEF ExclusiveInv

\* Execute writes nothing whose key the ledger has: because the handler has its run
\* to itself, or else because whoever could write again would have no live grant.
THEOREM RecordedWritesAreNotRepeated ==
    ASSUME RescueAfterExpiry \/ ~SlowHandlers
    PROVE  Spec => RecordedWriteNotRepeated
<1>1. FreshInv /\ [Next]_vars =>
        [\A w \in Workers :
          pc[w] = "write" /\ gh' # gh /\ gh'[at[w]] # gh[at[w]] =>
              IdempotencyKey(w) \notin intents]_vars
  BY DEF FreshInv, Writing
<1>2. CASE RescueAfterExpiry
  <2>1. RecordInv => FreshInv
    <3> SUFFICES ASSUME RecordInv, NEW w \in Workers, pc[w] \in Writing
                 PROVE  IdempotencyKey(w) \notin intents
      BY DEF FreshInv
    <3>1. Untouched(at[w]) /\ RecordDiscipline
      BY AttemptInvParts DEF RecordInv, Discipline, OneWriter
    <3>2. at[w] \in RunIds /\ env[w].kind \in Results /\ env[w].body \in Payloads
      BY DEF RecordInv, AttemptInv, AttemptDiscipline, WorkersHoldRuns, EnvelopesAreSet, Envs, Writing
    <3> QED
      BY <3>1, <3>2 DEF RecordDiscipline, Untouched, IdempotencyKey
  <2>2. Spec => []RecordInv
    BY <1>2, RecordsAreKept
  <2> QED
    BY <1>1, <2>1, <2>2, PTL DEF Spec, RecordedWriteNotRepeated
<1>3. CASE ~SlowHandlers
  <2>1. TypeInv /\ ExclusiveInv /\ FreshInv /\ [Next]_vars => (TypeInv /\ ExclusiveInv /\ FreshInv)'
    BY <1>3, TypeInvStep, ExclusiveInvStep, FreshInvStep
  <2>2. Init => TypeInv /\ ExclusiveInv /\ FreshInv
    BY ExclusiveInvInit DEF Init, FreshInv, Writing
  <2> QED
    BY <1>1, <2>1, <2>2, PTL DEF Spec, RecordedWriteNotRepeated
<1> QED
  BY <1>2, <1>3

-----------------------------------------------------------------------------
(* Every run is closed *)

\* An envelope is carried on, or it is the agent's; a hand-off is an issue run's.
LEMMA StepEnvelopes ==
    ASSUME TypeInv, NEW w \in Workers, Step(w), pc'[w] \in HasEnvelope
    PROVE  \/ pc[w] \in HasEnvelope /\ env'[w] = env[w]
           \/ env'[w].kind = "post_comment" => grant[at[w]].trigger = "webhook_issue_labeled"
<1>0. pc \in [Workers -> PCs] /\ env \in [Workers -> Envs \cup {NoEnv}]
  BY DEF TypeInv, TypeOK
<1>c. HasEnvelope = {"execute", "prepare", "write", "upsert", "record", "ref", "finish"}
  BY DEF HasEnvelope, Writing, Written
<1>1. ASSUME NEW next \in PCs \ HasEnvelope, Goto(w, next) PROVE FALSE
  BY <1>0, <1>1 DEF Goto
<1>d. PCs \ HasEnvelope = {"idle", "start", "mark", "gate", "ack", "agent", "standDown", "fail",
                           "failReason", "failRun", "complete"}
  BY <1>c DEF PCs
<1>2. CASE StartError(w) \/ Complete(w)
  BY <1>0, <1>c, <1>2 DEF StartError, Complete, Release
<1>3. CASE \/ Start(w) \/ MarkRunning(w) \/ Gate(w) \/ Acknowledge(w) \/ AgentFails(w)
           \/ AgentBlockedUpgrade(w) \/ StandDown(w) \/ ExecuteRefused(w)
           \/ FailStatus(w) \/ FailReason(w) \/ FailRun(w) \/ Finish(w)
  <2>1. \E next \in PCs \ HasEnvelope : Goto(w, next)
    BY <1>3, <1>d DEF Start, MarkRunning, Gate, Acknowledge, AgentFails, AgentBlockedUpgrade, StandDown,
                      ExecuteRefused, ExecuteError, FailStatus, FailReason, FailRun, Finish,
                      LedgerCall, GitHubCall
  <2> QED
    BY <1>1, <2>1
<1>4. CASE AgentDone(w)
  BY <1>0, <1>4 DEF AgentDone, Proposes
<1>5. CASE AgentBlockedIssue(w)
  BY <1>5 DEF AgentBlockedIssue
<1>6. CASE ExecuteDeduped(w) \/ ExecuteFresh(w)
  BY <1>c, <1>6 DEF ExecuteDeduped, ExecuteFresh
<1>7. CASE Prepare(w) \/ WriteResult(w)
  <2>1. env' = env /\ pc[w] \in {"prepare", "write"}
    BY <1>7 DEF Prepare, WriteResult, GitHubCall
  <2> QED
    BY <1>c, <2>1
<1>8. CASE UpsertReviewComment(w) \/ RecordIntent(w) \/ RecordRef(w)
  <2>1. env' = env /\ pc[w] \in {"upsert", "record", "ref"}
    BY <1>8 DEF UpsertReviewComment, RecordIntent, RecordRef, LedgerCall
  <2> QED
    BY <1>c, <2>1
<1> QED
  BY <1>2, <1>3, <1>4, <1>5, <1>6, <1>7, <1>8 DEF Step

\* A run once closed stays closed, whatever any step but its own handler's does.
LEMMA ClosedStays ==
    ASSUME NEW r \in RunIds, Closed(r), status'[r] = status[r], grant'[r] = grant[r],
           dbErrors \in Nat, dbErrors' \in Nat, dbErrors' >= dbErrors
    PROVE  Closed(r)'
  BY DEF Closed, HandoffExposed

LEMMA SettleStep ==
    ASSUME FewFaults, TypeInv, dbErrors' <= MaxDbErrors, ExclusiveInv, SettleInv,
           NEW w \in Workers, Step(w)
    PROVE  SettleInv'
<1>0. /\ crashes \in Nat /\ crashes <= MaxCrashes /\ dbErrors \in Nat
      /\ MaxCrashes \in Nat /\ MaxDbErrors \in Nat /\ MaxAttempts \in Nat
      /\ attempts \in [RunIds -> Nat]
      /\ \A v \in Workers : pc[v] = "idle" => at[v] = "none"
      /\ \A v \in Workers : pc[v] # "idle" => at[v] \in RunIds
      /\ "none" \notin RunIds
  BY NamesAssumption, BoundsAssumption DEF TypeInv, TypeOK, WorkersHoldRuns
<1>1. OwnBusiness(w) /\ Closing(w)
  BY StepCloses
<1>r. PICK r \in RunIds : r = at[w]
  BY <1>1 DEF OwnBusiness
<1>2. /\ pc[w] # "idle" /\ job[r] = "running"
      /\ \A v \in Workers : v # w => pc'[v] = pc[v] /\ at'[v] = at[v] /\ env'[v] = env[v]
      /\ \A v \in Workers : v # w => at[v] # r
      /\ \A q \in RunIds : q # r => status'[q] = status[q] /\ job'[q] = job[q]
      /\ grant' = grant /\ attempts' = attempts /\ crashes' = crashes /\ ~cancelled'
      /\ dbErrors' \in Nat /\ dbErrors' >= dbErrors
  BY <1>0, <1>1, <1>r DEF OwnBusiness, ExclusiveInv, SettleInv
<1>3. /\ ~cancelled
      /\ dbErrors' > dbErrors => dbErrors = 0 /\ dbErrors' > 0
  BY <1>0, <1>2 DEF FewFaults, SettleInv
<1>4. \A q \in RunIds : q # r /\ Closed(q) => Closed(q)'
  BY <1>0, <1>2, ClosedStays
<1>i. /\ RunSettles(r) /\ \A q \in RunIds : RunSettles(q)
      /\ HandlerSettles(w, r) /\ \A v \in Workers : HandlerSettles(v, at[v])
  BY <1>r DEF SettleInv
\* The handler's own run.
<1>5. pc'[w] = "complete" => Closed(r)'
  <2> SUFFICES ASSUME pc'[w] = "complete", status'[r] \notin Terminal PROVE HandoffExposed(r)'
    BY DEF Closed
  <2>1. pc[w] = "failRun" /\ status'[r] = status[r] /\ dbErrors' > dbErrors
    BY <1>1, <1>3, <1>r DEF Closing
  <2>2. grant[r].trigger = "webhook_issue_labeled"
    BY <1>3, <1>i, <2>1 DEF HandlerSettles, Terminal
  <2> QED
    BY <1>2, <1>3, <2>1, <2>2 DEF HandoffExposed
<1>6. pc'[w] = "failReason" => dbErrors' > 0 \/ status'[r] = "failed"
  BY <1>1, <1>3, <1>r DEF Closing
<1>7. pc'[w] = "failRun" =>
          dbErrors' > 0 \/ status'[r] = "failed" \/ grant[r].trigger = "webhook_issue_labeled"
  <2>1. pc[w] \in {"execute", "write"} /\ env[w].kind = "post_comment" =>
            grant[r].trigger = "webhook_issue_labeled"
    BY <1>i DEF HandlerSettles, HasEnvelope, Writing
  <2> QED
    BY <1>1, <1>3, <1>r, <2>1 DEF Closing
<1>8. pc'[w] \in HasEnvelope /\ env'[w].kind = "post_comment" =>
          grant[r].trigger = "webhook_issue_labeled"
  BY <1>i, <1>r, StepEnvelopes DEF HandlerSettles
<1>h. HandlerSettles(w, r)'
  BY <1>2, <1>5, <1>6, <1>7, <1>8 DEF HandlerSettles
<1>9. \/ pc'[w] # "idle" /\ at'[w] = r /\ job'[r] = job[r]
      \/ at'[w] = "none" /\ job'[r] = "completed" /\ Closed(r)'
      \/ at'[w] = "none" /\ job'[r] = RetryState(r) /\ attempts[r] <= crashes + dbErrors'
  <2>1. CASE pc'[w] # "idle" /\ at'[w] = at[w] /\ job' = job
    BY <1>r, <2>1
  <2>2. CASE at'[w] = "none" /\ pc[w] = "complete" /\ job'[r] = "completed"
    <3>1. Closed(r) /\ status'[r] = status[r]
      BY <1>1, <1>i, <1>r, <2>2 DEF Closing, HandlerSettles
    <3>2. Closed(r)'
      BY <1>0, <1>2, <3>1, ClosedStays
    <3> QED
      BY <2>2, <3>2
  <2>3. CASE at'[w] = "none" /\ dbErrors' > dbErrors /\ job'[r] = RetryState(r)
    <3>1. attempts[r] <= crashes + dbErrors + 1 /\ attempts[r] \in Nat
      BY <1>0, <1>i DEF RunSettles
    <3> QED
      BY <1>0, <1>2, <2>3, <3>1
  <2> QED
    BY <1>1, <1>2, <1>3, <1>r, <2>1, <2>2, <2>3 DEF OwnBusiness, Returns
<1>a. attempts[r] <= crashes + dbErrors' => RetryState(r) = "available"
  BY <1>0, <1>2 DEF RetryState, FewFaults
<1>b. RunSettles(r)'
  <2>1. CASE pc'[w] # "idle" /\ at'[w] = r /\ job'[r] = job[r]
    BY <1>0, <1>2, <1>i, <2>1 DEF RunSettles
  <2>2. CASE at'[w] = "none" /\ job'[r] = "completed" /\ Closed(r)'
    BY <1>0, <1>2, <1>i, <2>2 DEF RunSettles
  <2>3. CASE at'[w] = "none" /\ job'[r] = RetryState(r) /\ attempts[r] <= crashes + dbErrors'
    BY <1>0, <1>2, <1>a, <2>3 DEF RunSettles
  <2> QED
    BY <1>9, <2>1, <2>2, <2>3
\* The other runs and the other handlers.
<1>c. ASSUME NEW q \in RunIds, q # r PROVE RunSettles(q)'
  <2>1. (\A v \in Workers : at'[v] # q) => \A v \in Workers : at[v] # q
    BY <1>2, <1>c, <1>r
  <2>2. job'[q] = job[q] /\ attempts'[q] = attempts[q] /\ attempts[q] \in Nat
    BY <1>0, <1>2, <1>c
  <2>3. RunSettles(q) /\ (Closed(q) => Closed(q)')
    BY <1>4, <1>c, <1>i
  <2> QED
    BY <1>0, <1>2, <2>1, <2>2, <2>3 DEF RunSettles
<1>d. ASSUME NEW v \in Workers, v # w PROVE HandlerSettles(v, at[v])'
  <2>1. CASE pc[v] = "idle"
    BY <1>2, <1>d, <2>1 DEF HandlerSettles, HasEnvelope, Writing, Written
  <2>2. CASE pc[v] # "idle"
    <3>1. PICK q \in RunIds : q = at[v] /\ q # r
      BY <1>0, <1>2, <1>d, <2>2
    <3>2. HandlerSettles(v, q) /\ (Closed(q) => Closed(q)')
      BY <1>4, <1>i, <3>1
    <3>3. pc'[v] = pc[v] /\ at'[v] = q /\ env'[v] = env[v] /\ status'[q] = status[q]
      BY <1>2, <1>d, <3>1
    <3>4. HandlerSettles(v, q)'
      BY <1>0, <1>2, <3>2, <3>3 DEF HandlerSettles
    <3> QED
      BY <3>3, <3>4 DEF HandlerSettles, Closed, HandoffExposed
  <2> QED
    BY <2>1, <2>2
<1>e. HandlerSettles(w, at[w])'
  <2>1. CASE pc'[w] = "idle"
    BY <2>1 DEF HandlerSettles, HasEnvelope, Writing, Written
  <2>2. CASE pc'[w] # "idle"
    <3>1. at'[w] = r
      BY <1>1, <1>r, <2>2 DEF OwnBusiness, Returns
    <3> QED
      BY <1>h, <3>1 DEF HandlerSettles, Closed, HandoffExposed
  <2> QED
    BY <2>1, <2>2
<1>f. (\A q \in RunIds : RunSettles(q)') /\ (\A v \in Workers : HandlerSettles(v, at[v])')
  BY <1>b, <1>c, <1>d, <1>e
<1> QED
  BY <1>2, <1>f DEF SettleInv

LEMMA SettleInvStep ==
    ASSUME FewFaults, ~SlowHandlers
    PROVE  TypeInv /\ TypeInv' /\ ExclusiveInv /\ SettleInv /\ [Next]_vars => SettleInv'
<1> SUFFICES ASSUME TypeInv, TypeInv', ExclusiveInv, SettleInv, [Next]_vars PROVE SettleInv'
  OBVIOUS
<1>0. /\ crashes \in Nat /\ crashes <= MaxCrashes /\ dbErrors \in Nat
      /\ dbErrors <= MaxDbErrors /\ dbErrors' <= MaxDbErrors
      /\ MaxCrashes \in Nat /\ MaxDbErrors \in Nat /\ MaxAttempts \in Nat
      /\ attempts \in [RunIds -> Nat] /\ job \in [RunIds -> JobStates]
      /\ pc \in [Workers -> PCs] /\ at \in [Workers -> RunIds \cup {"none"}]
      /\ \A v \in Workers : pc[v] = "idle" => at[v] = "none"
      /\ \A v \in Workers : pc[v] # "idle" => at[v] \in RunIds /\ status[at[v]] # "none"
      /\ \A q \in RunIds : status[q] = "none" => job[q] = "none"
      /\ "none" \notin RunIds
  BY NamesAssumption, BoundsAssumption DEF TypeInv, TypeOK, WorkersHoldRuns, JobsHaveRuns
<1>i. /\ \A q \in RunIds : RunSettles(q) /\ attempts[q] \in Nat
      /\ \A v \in Workers : HandlerSettles(v, at[v])
      /\ ~cancelled
  BY <1>0 DEF SettleInv
<1>1. ASSUME NEW r \in RunIds, Inserts(r) PROVE SettleInv'
  <2>1. job[r] = "none" /\ job'[r] \in {"none", "available"}
    BY <1>0, <1>1 DEF Inserts
  <2>2. /\ UNCHANGED <<attempts, pc, at, env, cancelled, crashes, dbErrors>>
        /\ \A q \in RunIds : q # r => status'[q] = status[q] /\ job'[q] = job[q] /\ grant'[q] = grant[q]
    BY <1>1 DEF Inserts
  <2>3. ASSUME NEW q \in RunIds, q # r PROVE Closed(q) => Closed(q)'
    BY <2>2, <2>3 DEF Closed, HandoffExposed
  <2>4. ASSUME NEW q \in RunIds PROVE RunSettles(q)'
    BY <1>i, <2>1, <2>2, <2>3 DEF RunSettles
  <2>5. ASSUME NEW v \in Workers PROVE HandlerSettles(v, at[v])'
    <3>1. CASE pc[v] = "idle"
      BY <2>2, <3>1 DEF HandlerSettles, HasEnvelope, Writing, Written
    <3>2. CASE pc[v] # "idle"
      <4>1. PICK q \in RunIds : q = at[v] /\ q # r
        BY <1>0, <1>1, <3>2 DEF Inserts
      <4>2. HandlerSettles(v, q) /\ (Closed(q) => Closed(q)')
        BY <1>i, <2>3, <4>1
      <4>3. HandlerSettles(v, q)' /\ at'[v] = q
        BY <2>2, <4>1, <4>2 DEF HandlerSettles
      <4> QED
        BY <4>3 DEF HandlerSettles, Closed, HandoffExposed
    <3> QED
      BY <3>1, <3>2
  <2> QED
    BY <1>i, <2>2, <2>4, <2>5 DEF SettleInv
<1>2. ASSUME NEW w \in Workers, NEW r \in RunIds, Fetch(w, r) PROVE SettleInv'
  <2>1. /\ pc[w] = "idle" /\ job[r] = "available"
        /\ job' = [job EXCEPT ![r] = "running"] /\ attempts' = [attempts EXCEPT ![r] = @ + 1]
        /\ pc' = [pc EXCEPT ![w] = "start"] /\ at' = [at EXCEPT ![w] = r]
        /\ UNCHANGED <<status, grant, env, cancelled, crashes, dbErrors>>
    BY <1>2 DEF Fetch, ledgerVars, dispatchVars, faultVars
  <2>2. \A v \in Workers : at[v] # r
    BY <1>0, <2>1 DEF ExclusiveInv
  <2>3. ASSUME NEW q \in RunIds PROVE Closed(q) => Closed(q)'
    BY <2>1 DEF Closed, HandoffExposed
  <2>4. RunSettles(r)'
    <3>1. attempts[r] <= crashes + dbErrors
      BY <1>i, <2>1, <2>2 DEF RunSettles
    <3>2. attempts'[r] = attempts[r] + 1 /\ job'[r] = "running" /\ at'[w] = r
      BY <1>0, <2>1
    <3> QED
      BY <1>0, <1>i, <2>1, <3>1, <3>2 DEF RunSettles
  <2>5. ASSUME NEW q \in RunIds, q # r PROVE RunSettles(q)'
    <3>1. attempts'[q] = attempts[q] /\ job'[q] = job[q]
      BY <1>0, <2>1, <2>5
    <3>2. (\A v \in Workers : at'[v] # q) => \A v \in Workers : at[v] # q
      BY <1>0, <2>1
    <3> QED
      BY <1>i, <2>1, <2>3, <3>1, <3>2 DEF RunSettles
  <2>6. ASSUME NEW v \in Workers PROVE HandlerSettles(v, at[v])'
    <3>1. CASE v = w
      BY <1>0, <2>1, <3>1 DEF HandlerSettles, HasEnvelope, Writing, Written
    <3>2. CASE v # w
      <4>1. pc'[v] = pc[v] /\ at'[v] = at[v]
        BY <1>0, <2>1, <3>2
      <4> QED
        BY <1>i, <2>1, <4>1 DEF HandlerSettles, Closed, HandoffExposed
    <3> QED
      BY <3>1, <3>2
  <2> QED
    BY <1>i, <2>1, <2>4, <2>5, <2>6 DEF SettleInv
<1>3. ASSUME NEW r \in RunIds, Rescue(r) PROVE SettleInv'
  <2>1. /\ \A v \in Workers : at[v] # r
        /\ job[r] = "running" /\ job' = [job EXCEPT ![r] = RetryState(r)]
        /\ UNCHANGED <<status, grant, attempts, pc, at, env, cancelled, crashes, dbErrors>>
    BY <1>3 DEF Rescue, ledgerVars, dispatchVars, workerVars, faultVars
  <2>2. RetryState(r) = "available"
    <3>1. attempts[r] <= crashes + dbErrors
      BY <1>i, <2>1 DEF RunSettles
    <3> QED
      BY <1>0, <1>i, <3>1 DEF RetryState, FewFaults
  <2>3. \A q \in RunIds : job'[q] = job[q] \/ (q = r /\ job'[q] = "available" /\ job[q] = "running")
    BY <1>0, <2>1, <2>2
  <2>4. ASSUME NEW q \in RunIds PROVE RunSettles(q)'
    BY <1>i, <2>1, <2>3 DEF RunSettles, Closed, HandoffExposed
  <2>5. ASSUME NEW v \in Workers PROVE HandlerSettles(v, at[v])'
    BY <1>i, <2>1 DEF HandlerSettles, Closed, HandoffExposed
  <2> QED
    BY <1>i, <2>1, <2>4, <2>5 DEF SettleInv
<1>4. ASSUME Crash PROVE SettleInv'
  <2>1. /\ crashes' = crashes + 1 /\ ~cancelled'
        /\ \A v \in Workers : pc'[v] = "idle"
        /\ UNCHANGED <<status, grant, job, attempts, dbErrors>>
    BY <1>4 DEF Crash, ledgerVars, dispatchVars, queueVars
  <2>2. ASSUME NEW q \in RunIds PROVE RunSettles(q)'
    BY <1>0, <1>i, <2>1 DEF RunSettles, Closed, HandoffExposed
  <2>3. ASSUME NEW v \in Workers PROVE HandlerSettles(v, at[v])'
    BY <2>1 DEF HandlerSettles, HasEnvelope, Writing, Written
  <2> QED
    BY <2>1, <2>2, <2>3 DEF SettleInv
<1>5. ASSUME Bystanding PROVE SettleInv'
  <2>1. ~cancelled'
    BY <1>5, <1>i DEF Bystanding, FewFaults
  <2>2. ASSUME NEW q \in RunIds PROVE RunSettles(q)'
    BY <1>5, <1>i DEF Bystanding, RunSettles, Closed, HandoffExposed
  <2>3. ASSUME NEW v \in Workers PROVE HandlerSettles(v, at[v])'
    BY <1>5, <1>i DEF Bystanding, HandlerSettles, Closed, HandoffExposed
  <2> QED
    BY <2>1, <2>2, <2>3 DEF SettleInv
<1>6. ASSUME NEW w \in Workers, Step(w) PROVE SettleInv'
  BY <1>0, <1>6, SettleStep
<1> QED
  BY <1>1, <1>2, <1>3, <1>4, <1>5, <1>6, NextKinds

\* While a job has more attempts than there are crashes and failing ledger calls, of
\* which one at most, and nobody stops the worker, a run whose job is done and whose
\* handler is gone has a terminal status; a failed hand-off is the exception.
THEOREM SettledRunsAreTerminal ==
    ASSUME FewFaults, ~SlowHandlers
    PROVE  Spec => []SettledRunIsTerminal
<1>1. Init => TypeInv /\ ExclusiveInv /\ SettleInv
  <2>1. Init => SettleInv
    <3> SUFFICES ASSUME Init PROVE SettleInv
      OBVIOUS
    <3>1. ASSUME NEW r \in RunIds PROVE RunSettles(r)
      BY DEF Init, RunSettles
    <3>2. ASSUME NEW w \in Workers PROVE HandlerSettles(w, at[w])
      BY DEF Init, HandlerSettles, HasEnvelope, Writing, Written
    <3> QED
      BY <3>1, <3>2 DEF Init, SettleInv
  <2> QED
    BY <2>1, ExclusiveInvInit
<1>2. TypeInv /\ ExclusiveInv /\ SettleInv /\ [Next]_vars =>
        (TypeInv /\ ExclusiveInv /\ SettleInv)'
  BY TypeInvStep, ExclusiveInvStep, SettleInvStep
<1>3. SettleInv => SettledRunIsTerminal
  BY DEF SettleInv, RunSettles, Closed, SettledRunIsTerminal
<1> QED
  BY <1>1, <1>2, <1>3, PTL DEF Spec

=============================================================================
