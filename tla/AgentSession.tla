---------------------------- MODULE AgentSession ----------------------------
(***************************************************************************)
(* One agent session (internal/agent, RPC.Run): the harness drives a       *)
(* `pi --mode rpc` child over its stdin, reads its event lines in order    *)
(* from one scanner, reads the verdict the agent leaves in the worktree,   *)
(* lets the external verifier grade it, and feeds findings back.           *)
(*                                                                         *)
(* The child is external and untrusted: while it works it changes the      *)
(* worktree at will, it may never settle, and it may exit at any time.  It *)
(* ends a turn with agent_settled, with agent_end, or with both, and may   *)
(* print agent_settled after a refusal too.  Lines that steer nothing      *)
(* (tool events, diagnostics, session statistics) are left out.            *)
(*                                                                         *)
(* The child is pi together with the tools it waits for: when it exits,    *)
(* its output ends and its work is done.  A tool left running behind it is *)
(* outside the model (cmd.Wait waits for pi alone, and the group is        *)
(* signalled only when the context ends).                                  *)
(***************************************************************************)
EXTENDS Naturals, Sequences

CONSTANTS Vulns,      \* findings a verdict can claim to have fixed
          Paths,      \* files of the repository, each a sequence of names
          Trees,      \* worktrees the agent can produce
          MaxRounds,  \* verification rounds
          MaxOdd      \* bound: settle lines beyond the first of a turn, ends with
                      \* willRetry, and lines longer than the scanner's buffer

Modes == {"upgrade", "issue", "review"}
Reports == {"done", "done_unverified", "blocked"}
Verdict == [status: Reports \cup {"absent", "invalid"}, claims: SUBSET Vulns]

\* A version of every file, as the number of lines it differs in from origin/HEAD.
Files == [Paths -> Nat]
Untouched == [p \in Paths |-> 0]
Bookkeeping(p) == p[1] = ".bothos"

\* commits: HEAD is ahead of origin/HEAD; head, work: the files of HEAD and the
\* tracked files of the worktree; renamed: the files git takes for moved, with the
\* lines they differ in; stray: untracked files; named: the branch is bot/<runID>-*.
Rename == [from: Paths, to: Paths, lines: Nat]
Tree == [commits: BOOLEAN, head: Files, work: Files, renamed: SUBSET Rename, stray: BOOLEAN,
         named: BOOLEAN, failing: BOOLEAN, present: SUBSET Vulns, verdict: Verdict,
         review: BOOLEAN]
Failures == Vulns \cup {"git", "uncommitted", "scanner", "tests"}
Lines == {"agent_settled", "agent_end", "agent_end_retry", "rejected", "long"}
NoVerdict == [status |-> "absent", claims |-> {}]
Fresh == [commits |-> FALSE, head |-> Untouched, work |-> Untouched, renamed |-> {},
          stray |-> FALSE, named |-> FALSE, failing |-> FALSE, present |-> Vulns,
          verdict |-> NoVerdict, review |-> FALSE]

ASSUME SessionAssumption ==
    /\ Paths \subseteq Seq(STRING) \ {<<>>}
    /\ Trees \subseteq Tree /\ MaxRounds \in Nat \ {0}
    /\ \A t \in Trees : t.commits \/ t.head = Untouched
    /\ MaxOdd \in Nat
    /\ Vulns \cap {"git", "uncommitted", "scanner", "tests"} = {}

VARIABLES mode,
          tree,      \* the worktree and its repository, .bothos/ included
          agent,     \* the child: "idle", "working", "exited"
          clean,     \* it exited with status 0
          out,       \* lines on its stdout the scanner has not consumed
          dead,      \* the scanner hit a line too long and reads no more
          pc, v, vr, round, prevSig, settleErr, reviewErr, \* RPC.Run's own
          prompts,   \* prompts written so far
          expired,   \* the wall cap (or the worker's context) has ended
          result,
          odd,       \* lines counted against MaxOdd
          doubled,   \* history: a settle line beyond the first of a turn
          ahead      \* history: the harness stopped waiting for an agent at work

harness == <<v, vr, round, prevSig, settleErr, reviewErr, prompts, result>>
counts == <<odd, doubled>>
child == <<tree, agent, clean, counts>>
vars == <<mode, pc, out, dead, expired, ahead, harness, child>>

PCs == {"config", "prompt", "settle", "verdict", "nudged", "reread", "verify", "feedback",
        "refresh", "review", "cleanup", "wait", "returned"}

TypeOK ==
    /\ mode \in Modes
    /\ tree \in Tree
    /\ agent \in {"idle", "working", "exited"} /\ clean \in BOOLEAN
    /\ out \in Seq(Lines) /\ dead \in BOOLEAN
    /\ pc \in PCs
    /\ v.status \in Reports \cup {"absent"} /\ v.claims \subseteq Vulns
    /\ vr \subseteq Failures /\ prevSig \subseteq Failures
    /\ round \in 0..MaxRounds
    /\ settleErr \in BOOLEAN /\ reviewErr \in BOOLEAN /\ expired \in BOOLEAN
    /\ prompts \in Nat
    /\ result \in {"none", "error", "review", "blocked", "pr", "pr_known_failures"}
    /\ odd \in 0..MaxOdd /\ doubled \in BOOLEAN /\ ahead \in BOOLEAN

Init ==
    /\ mode \in Modes
    /\ tree = Fresh /\ agent = "idle" /\ clean = FALSE
    /\ out = <<>> /\ dead = FALSE
    /\ pc = "config" /\ v = NoVerdict
    /\ vr = {} /\ prevSig = {} /\ round = 0
    /\ settleErr = FALSE /\ reviewErr = FALSE /\ expired = FALSE
    /\ prompts = 0 /\ result = "none"
    /\ odd = 0 /\ doubled = FALSE /\ ahead = FALSE

-----------------------------------------------------------------------------
(* The child *)

Works ==
    /\ agent = "working"
    /\ tree' \in Trees
    /\ UNCHANGED <<mode, pc, out, dead, expired, ahead, harness, agent, clean, counts>>

\* Nobody reads what is printed after the scanner has given up.
Emits(lines) == out' = IF dead THEN out ELSE out \o lines

\* One line more than the harness needs to learn that a turn, or a prompt, is over.
EmitsExtra(line) ==
    /\ odd < MaxOdd
    /\ odd' = odd + 1 /\ doubled' = TRUE
    /\ Emits(<<line, "agent_settled">>)

Settles ==
    /\ agent = "working"
    /\ agent' = "idle"
    /\ \/ (Emits(<<"agent_settled">>) \/ Emits(<<"agent_end">>)) /\ UNCHANGED counts
       \/ EmitsExtra("agent_end")
    /\ UNCHANGED <<mode, pc, dead, expired, ahead, harness, tree, clean>>

\* The turn is over for now, the agent says, and tries again by itself.
EndsToRetry ==
    /\ agent = "working" /\ odd < MaxOdd
    /\ Emits(<<"agent_end_retry">>)
    /\ odd' = odd + 1
    /\ UNCHANGED <<mode, pc, dead, expired, ahead, harness, tree, agent, clean, doubled>>

PrintsLong ==
    /\ agent = "working" /\ odd < MaxOdd
    /\ Emits(<<"long">>)
    /\ odd' = odd + 1
    /\ UNCHANGED <<mode, pc, dead, expired, ahead, harness, tree, agent, clean, doubled>>

\* pi exits, and with it the tools it was waiting for.
Exits ==
    /\ agent # "exited"
    /\ agent' = "exited" /\ clean' \in BOOLEAN
    /\ UNCHANGED <<mode, pc, out, dead, expired, ahead, harness, tree, counts>>

-----------------------------------------------------------------------------
(* The harness *)

Return(r) == pc' = "returned" /\ result' = r

\* A prompt reaches a living child, which starts a turn or refuses it.
Prompt(next) ==
    /\ agent # "exited"
    /\ \/ agent' = "working" /\ UNCHANGED <<out, counts>>
       \/ Emits(<<"rejected">>) /\ UNCHANGED <<agent, counts>>
       \/ EmitsExtra("rejected") /\ UNCHANGED agent
    /\ prompts' = prompts + 1
    /\ pc' = next

\* Both config commands are acknowledged, or one is rejected, times out or never
\* answered: then the child is killed and the run is over.
Configure ==
    /\ pc = "config"
    /\ \/ agent = "idle" /\ pc' = "prompt" /\ UNCHANGED <<agent, clean, result>>
       \/ agent' = "exited" /\ clean' = FALSE /\ Return("error")
    /\ UNCHANGED <<mode, tree, out, dead, ahead, v, vr, round, prevSig, settleErr, reviewErr,
                   prompts, expired, counts>>

SendPrompt ==
    /\ pc = "prompt"
    /\ \/ Prompt("settle") /\ UNCHANGED <<clean, result>>
       \/ /\ agent = "exited" /\ Return("error")
          /\ UNCHANGED <<agent, clean, out, prompts, counts>>
    /\ UNCHANGED <<mode, tree, dead, ahead, v, vr, round, prevSig, settleErr, reviewErr,
                   expired>>

\* Variant: willRetry is not looked at.
SettledByAnyEnd(line) == line \in {"agent_settled", "agent_end", "agent_end_retry"}

\* Variant: agent_end, which older builds print instead, is not looked at.
SettledByNewBuilds(line) == line = "agent_settled"

Settled(line) == line \in {"agent_settled", "agent_end"}

\* awaitSettled returns, with an error or without; only the first call's error is kept,
\* after a later one the verdict file governs.
Awaited(next, error) ==
    /\ pc' = next
    /\ settleErr' = (settleErr \/ error)
    /\ ahead' = (ahead \/ agent = "working")

\* awaitSettled: one line, or the end of the stream.
awaitSettled(next, first) ==
    /\ \/ /\ ~dead /\ out # <<>>
          /\ out' = IF Head(out) = "long" THEN <<>> ELSE Tail(out)
          /\ dead' = (Head(out) = "long")
          /\ \/ Settled(Head(out)) /\ Awaited(next, FALSE)
             \/ Head(out) \in {"rejected", "long"} /\ Awaited(next, first)
             \/ /\ ~Settled(Head(out)) /\ Head(out) \notin {"rejected", "long"}
                /\ UNCHANGED <<pc, settleErr, ahead>>
       \/ /\ dead \/ (out = <<>> /\ agent = "exited")
          /\ Awaited(next, first)
          /\ UNCHANGED <<out, dead>>
    /\ UNCHANGED <<mode, expired, child, v, vr, round, prevSig, reviewErr, prompts, result>>

AwaitSettle == pc = "settle" /\ awaitSettled("verdict", TRUE)
AwaitNudge == pc = "nudged" /\ awaitSettled("reread", FALSE)
AwaitFeedback == pc = "feedback" /\ awaitSettled("refresh", FALSE)

\* Variant: any status the file carries is passed on.
readVerdictUnchecked == tree.verdict

\* Absent, unparsable and unknown are all "no verdict".
readVerdict == IF tree.verdict.status \in Reports THEN tree.verdict ELSE NoVerdict

\* A blocked report skips verification; only upgrade runs are verified.
AfterVerdict(w) ==
    IF mode = "upgrade" /\ w.status # "blocked" THEN "verify"
    ELSE IF mode = "review" THEN "review" ELSE "cleanup"

\* First read, and the one nudge if there is nothing to read.
ReadVerdict ==
    /\ pc = "verdict"
    /\ \/ /\ settleErr \/ mode = "review"
          /\ pc' = AfterVerdict(v) /\ UNCHANGED <<v, agent, out, prompts, counts>>
       \/ /\ ~settleErr /\ mode # "review"
          /\ v' = readVerdict
          /\ \/ /\ readVerdict # NoVerdict \/ agent = "exited"
                /\ pc' = AfterVerdict(readVerdict) /\ UNCHANGED <<agent, out, prompts, counts>>
             \/ readVerdict = NoVerdict /\ Prompt("nudged")
    /\ UNCHANGED <<mode, tree, clean, dead, ahead, vr, round, prevSig, settleErr, reviewErr,
                   expired, result>>

RereadVerdict ==
    /\ pc = "reread"
    /\ v' = readVerdict /\ pc' = AfterVerdict(readVerdict)
    /\ UNCHANGED <<mode, out, dead, expired, ahead, child, vr, round, prevSig, settleErr, reviewErr,
                   prompts, result>>

\* Variant: the report of a feedback round is not read.
RefreshSkipped ==
    /\ pc = "refresh"
    /\ pc' = "verify"
    /\ UNCHANGED <<mode, out, dead, expired, ahead, child, harness>>

\* After a feedback round an unreadable verdict leaves the last one standing.
RefreshVerdict ==
    /\ pc = "refresh"
    /\ v' = IF readVerdict # NoVerdict THEN readVerdict ELSE v
    /\ pc' = "verify"
    /\ UNCHANGED <<mode, out, dead, expired, ahead, child, vr, round, prevSig, settleErr, reviewErr,
                   prompts, result>>

\* git status, less the entries under .bothos/.
Dirty == tree.stray \/ \E p \in Paths : ~Bookkeeping(p) /\ tree.head[p] # tree.work[p]

\* Variant: whatever is not committed is passed over.
VerifyUncommitted ==
    {s \cup t : s \in {v.claims \cap tree.present, {"scanner"}},
                t \in {IF tree.failing THEN {"tests"} ELSE {}}}

\* Verify: uncommitted changes, claimed fixes a new scan still finds, failing tests;
\* git and the scanner may fail themselves, and all three do once the context has
\* ended.  (The test command is taken to leave tracked files alone.)
Verify ==
    IF expired THEN {{"git", "scanner", "tests"}}
    ELSE {g \cup s \cup t :
             g \in {IF Dirty THEN {"uncommitted"} ELSE {}, {"git"}},
             s \in {v.claims \cap tree.present, {"scanner"}},
             t \in {IF tree.failing THEN {"tests"} ELSE {}}}

\* Variant: only a stall ends the loop.
LastRoundIgnored(n) == FALSE

LastRound(n) == n = MaxRounds

\* Signature compares rules and details.  Two equal sets of failures may still differ
\* there (an error's text, a version, another test command), unless the one failure
\* is "uncommitted", whose detail is fixed.
MayStall(failures) == failures = prevSig
MayGoOn(failures) == failures # prevSig \/ failures # {"uncommitted"}

\* One round: grade the worktree; stop on a pass, a stall, the last round or a
\* child that is gone; otherwise send the findings back.
VerifyRound ==
    /\ pc = "verify"
    /\ round' = round + 1
    /\ vr' \in Verify
    /\ \/ /\ vr' = {} \/ LastRound(round + 1) \/ MayStall(vr')
          /\ pc' = "cleanup" /\ UNCHANGED <<prevSig, agent, out, prompts, counts>>
       \/ /\ vr' # {} /\ ~LastRound(round + 1) /\ MayGoOn(vr')
          /\ prevSig' = vr'
          /\ \/ Prompt("feedback")
             \/ /\ agent = "exited" /\ pc' = "cleanup"
                /\ UNCHANGED <<agent, out, prompts, counts>>
    /\ UNCHANGED <<mode, tree, clean, dead, ahead, v, settleErr, reviewErr, expired, result>>

ReadReviewIntent ==
    /\ pc = "review"
    /\ reviewErr' = (~settleErr /\ ~tree.review)
    /\ pc' = "cleanup"
    /\ UNCHANGED <<mode, out, dead, expired, ahead, child, v, vr, round, prevSig, settleErr,
                   prompts, result>>

\* Session statistics drain the stream; .bothos/ is removed; stdin is closed.
Cleanup ==
    /\ pc = "cleanup"
    /\ out' = <<>>
    /\ tree' = [tree EXCEPT !.verdict = NoVerdict, !.review = FALSE,
                   !.work = [p \in Paths |-> IF Bookkeeping(p) THEN 0 ELSE @[p]]]
    /\ pc' = "wait"
    /\ UNCHANGED <<mode, dead, expired, ahead, harness, agent, clean, counts>>

Outcome ==
    IF settleErr THEN "error"
    ELSE IF mode = "review" THEN (IF reviewErr THEN "error" ELSE "review")
    ELSE IF v.status = "blocked" THEN "blocked"
    ELSE IF ~tree.commits THEN (IF mode = "issue" /\ v = NoVerdict THEN "blocked" ELSE "error")
    ELSE IF vr # {} THEN "pr_known_failures" ELSE "pr"

\* Variant: the exit of the child is not waited for.
WaitSkipped ==
    /\ pc = "wait"
    /\ Return(Outcome)
    /\ UNCHANGED <<mode, out, dead, expired, ahead, child, v, vr, round, prevSig, settleErr,
                   reviewErr, prompts>>

\* Wait, and what Run makes of the session.
Wait ==
    /\ pc = "wait" /\ agent = "exited"
    /\ Return(IF clean /\ ~expired THEN Outcome ELSE "error")
    /\ UNCHANGED <<mode, out, dead, expired, ahead, child, v, vr, round, prevSig, settleErr,
                   reviewErr, prompts>>

\* Variant: no deadline.
WallCapIgnored == pc # "returned" /\ expired /\ UNCHANGED vars

\* The deadline passes: SIGTERM to the child's process group.
WallCap ==
    /\ pc # "returned" /\ ~expired
    /\ expired' = TRUE
    /\ UNCHANGED <<mode, pc, out, dead, ahead, harness, child>>

\* Everything the harness does but run the verifier.
Proceeds ==
    \/ Configure \/ SendPrompt \/ AwaitSettle \/ ReadVerdict \/ AwaitNudge \/ RereadVerdict
    \/ AwaitFeedback \/ RefreshVerdict \/ ReadReviewIntent \/ Cleanup \/ Wait

Harness == Proceeds \/ VerifyRound

Next == Harness \/ WallCap \/ Works \/ Settles \/ EndsToRetry \/ PrintsLong \/ Exits

\* The harness goes on, the deadline passes, and a child that got SIGTERM exits (by
\* itself or killed after WaitDelay).  Nothing else is assumed of the child, and
\* nothing of the verifier: its test command has no process group and no WaitDelay,
\* so whatever holds that command's output holds up the round, deadline or not.
Fairness == WF_vars(Proceeds) /\ WF_vars(WallCap) /\ WF_vars(expired /\ Exits)

Spec == Init /\ [][Next]_vars /\ Fairness

-----------------------------------------------------------------------------
(* Properties *)

\* The child printed one settle line for each turn, none for a prompt it refused, and
\* no line too long for the scanner.
Orderly == ~doubled /\ ~dead

\* The harness and the agent take turns.  Only a child that is not orderly can make the
\* harness go on while the agent is at work; then what it reads is out of date.
InStep == Orderly \/ ~ahead

\* An upgrade pull request without a known-failures note was graded as it stands:
\* the worktree about to be pushed is clean, its tests pass, and no fix the pull
\* request claims is still open.
CleanPullRequestIsVerified ==
    result = "pr" /\ mode = "upgrade" /\ InStep =>
        ~Dirty /\ ~tree.failing /\ v.claims \cap tree.present = {}

\* What the harness reports is the agent's last word: when .bothos/ is removed, a
\* verdict that can be read is the one the harness holds, so a late "blocked" or a
\* changed claim is never lost to an earlier reading.
ReportIsCurrent ==
    pc = "cleanup" /\ mode # "review" /\ ~settleErr /\ InStep /\ readVerdict # NoVerdict
        => v = readVerdict

\* A session costs at most one prompt, one nudge and MaxRounds - 1 feedbacks.
PromptsBounded == prompts <= MaxRounds + 1

Waiting == pc \in {"settle", "nudged", "feedback"}

\* The harness never waits for an agent that waits for the harness: an agent that is
\* idle has left a line that ends the waiting, whatever builds of pi print, extra
\* lines and refusals included.
NobodyWaitsInVain ==
    Waiting /\ ~dead /\ agent = "idle" =>
        \E i \in 1..Len(out) : out[i] \in {"agent_settled", "agent_end", "rejected", "long"}

\* Once Run has returned a result, neither the harness nor the child changes the
\* worktree the executor is about to check and push.  (The child is pi and the tools it
\* waits for; a tool it leaves running is not in the model.)
ReturnedTreeIsFrozen == [][result \notin {"none", "error"} => tree' = tree]_vars

\* Whatever the child does, silence included, the session returns, unless a round of
\* verification never does.
SessionEnds == <>(pc = "returned") \/ <>[](pc = "verify")
=============================================================================
