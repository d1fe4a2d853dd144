---------------------------- MODULE SessionProofs ----------------------------
(***************************************************************************)
(* Proofs about AgentSession and Delivery, for every set of findings,      *)
(* files, patterns and worktrees and every bound on rounds and lines.      *)
(***************************************************************************)
EXTENDS Delivery, SequenceFacts

-----------------------------------------------------------------------------
(* The invariant of a session *)

Verdicts == [status: Reports \cup {"absent"}, claims: SUBSET Vulns]

Typed == TypeOK /\ v \in Verdicts

\* While the harness waits the stream holds what one turn has printed so far: any
\* number of retried ends, then the line that ends the turn, if there is one yet.
\* Behind a line too long nothing matters.
TurnOf(s, a) ==
    \E n \in 0..Len(s) :
        /\ \A i \in 1..n : s[i] = "agent_end_retry"
        /\ \/ n = Len(s) /\ a # "idle"
           \/ /\ n + 1 = Len(s) /\ a # "working"
              /\ s[n + 1] \in {"agent_settled", "agent_end", "rejected"}
           \/ n < Len(s) /\ s[n + 1] = "long"

\* A child that is orderly prints one turn at a time, and has ended it when the harness
\* goes on; a harness that has never got ahead of the agent is not ahead now.
TurnsAreOver ==
    /\ Orderly => ~ahead
    /\ Orderly => IF Waiting THEN TurnOf(out, agent) ELSE out = <<>>
    /\ ~ahead /\ ~Waiting => agent # "working"

\* A prompt for every round begun, after the first prompt and the nudge.
PromptsCounted ==
    /\ pc \in {"config", "prompt"} => prompts = 0
    /\ pc \in {"settle", "verdict"} => prompts <= 1
    /\ pc \in {"config", "prompt", "settle", "verdict", "nudged", "reread"} => round = 0 /\ prompts <= 2
    /\ pc \in {"verify", "feedback", "refresh"} => round < MaxRounds /\ prompts <= round + 2
    /\ prompts <= MaxRounds + 1

\* A result is returned once, and by Wait only if the child has exited.
ResultIsLast ==
    /\ pc = "returned" <=> result # "none"
    /\ result \notin {"none", "error"} => agent = "exited"
    /\ result = "pr" => vr = {} /\ v.status # "blocked"

\* An idle agent has left a line that ends the waiting, be its child orderly or not.
EndsWaiting(s) ==
    \E i \in 1..Len(s) : s[i] \in {"agent_settled", "agent_end", "rejected", "long"}

\* From the last reading of the verdict on, nobody but the harness touches it.
VerdictIsHeld ==
    mode # "review" /\ ~settleErr /\ InStep /\ pc \in {"verify", "review", "cleanup"}
            /\ readVerdict # NoVerdict
        => v = readVerdict

Graded == ~Dirty /\ ~tree.failing /\ v.claims \cap tree.present = {}

\* An upgrade that is not blocked leaves the loop with no failures only when the
\* worktree passes, and the worktree stays as it was.
GradeStands ==
    /\ pc = "review" => mode = "review"
    /\ mode = "upgrade" /\ InStep /\ vr = {} /\ v.status # "blocked"
               /\ (pc \in {"cleanup", "wait"} \/ result = "pr")
           => Graded

SessionInv ==
    /\ Typed /\ TurnsAreOver /\ NobodyWaitsInVain /\ PromptsCounted /\ ResultIsLast
    /\ VerdictIsHeld /\ GradeStands

-----------------------------------------------------------------------------
(* Types *)

LEMMA FreshType == Fresh \in Tree
  BY DEF Fresh, Tree, Files, Untouched, Rename, Verdict, NoVerdict

\* Whatever the file holds, the harness gets a report or none.
LEMMA ReadVerdictType == tree \in Tree => readVerdict \in Verdicts
  BY DEF readVerdict, Verdicts, NoVerdict, Tree, Verdict

LEMMA VerifyType ==
    ASSUME tree \in Tree, v \in Verdicts, NEW f \in Verify
    PROVE  f \subseteq Failures
<1>1. v.claims \cap tree.present \subseteq Vulns
  BY DEF Verdicts
<1> QED
  BY <1>1 DEF Verify, Failures

LEMMA TypedInit == Init => Typed
<1> SUFFICES ASSUME Init PROVE Typed
  OBVIOUS
<1>1. v \in Verdicts
  BY DEF Init, Verdicts, NoVerdict
<1>2. round \in 0..MaxRounds /\ odd \in 0..MaxOdd
  BY SessionAssumption DEF Init
<1>3. out \in Seq(Lines) /\ tree \in Tree
  BY FreshType DEF Init
<1>4. /\ mode \in Modes /\ pc \in PCs /\ agent \in {"idle", "working", "exited"}
      /\ v.status \in Reports \cup {"absent"} /\ v.claims \subseteq Vulns
      /\ vr \subseteq Failures /\ prevSig \subseteq Failures
      /\ result \in {"none", "error", "review", "blocked", "pr", "pr_known_failures"}
  BY DEF Init, PCs, NoVerdict
<1>5. /\ settleErr \in BOOLEAN /\ reviewErr \in BOOLEAN /\ expired \in BOOLEAN
      /\ clean \in BOOLEAN /\ dead \in BOOLEAN /\ ahead \in BOOLEAN /\ doubled \in BOOLEAN /\ prompts \in Nat
  BY DEF Init
<1> QED
  BY <1>1, <1>2, <1>3, <1>4, <1>5 DEF Typed, TypeOK

\* Lines on the stream keep it a stream.
LEMMA EmitsType ==
    ASSUME out \in Seq(Lines), NEW lines \in Seq(Lines), Emits(lines)
    PROVE  out' \in Seq(Lines)
  BY DEF Emits

LEMMA LinesOnTheStream ==
    ASSUME NEW line \in Lines
    PROVE  <<line>> \in Seq(Lines) /\ <<line, "agent_settled">> \in Seq(Lines)
<1>1. "agent_settled" \in Lines
  BY DEF Lines
<1> QED
  BY <1>1

LEMMA EmitsExtraType ==
    ASSUME Typed, NEW line \in Lines, EmitsExtra(line)
    PROVE  out' \in Seq(Lines) /\ odd' \in 0..MaxOdd /\ doubled' \in BOOLEAN
<1>1. out' \in Seq(Lines)
  BY LinesOnTheStream, EmitsType DEF EmitsExtra, Typed, TypeOK
<1> QED
  BY <1>1, SessionAssumption DEF EmitsExtra, Typed, TypeOK

LEMMA PromptType ==
    ASSUME Typed, NEW next \in PCs, Prompt(next)
    PROVE  /\ out' \in Seq(Lines) /\ agent' \in {"idle", "working", "exited"}
           /\ prompts' \in Nat /\ pc' \in PCs /\ odd' \in 0..MaxOdd /\ doubled' \in BOOLEAN
<1>1. "rejected" \in Lines
  BY DEF Lines
<1>2. out' \in Seq(Lines) /\ odd' \in 0..MaxOdd /\ doubled' \in BOOLEAN
  BY <1>1, LinesOnTheStream, EmitsType, EmitsExtraType DEF Prompt, Typed, TypeOK, counts
<1> QED
  BY <1>2 DEF Prompt, Typed, TypeOK

LEMMA AwaitType ==
    ASSUME Typed, NEW next \in PCs, NEW first \in BOOLEAN, awaitSettled(next, first)
    PROVE  Typed'
<1>1. UNCHANGED <<mode, expired, tree, agent, clean, counts, v, vr, round, prevSig,
                  reviewErr, prompts, result>>
  BY DEF awaitSettled, child, counts
<1>2. out' \in Seq(Lines)
  <2>1. /\ out \in Seq(Lines) /\ <<>> \in Seq(Lines)
        /\ out # <<>> => Tail(out) \in Seq(Lines)
    BY DEF Typed, TypeOK
  <2>2. out' = <<>> \/ out' = out \/ (out # <<>> /\ out' = Tail(out))
    BY DEF awaitSettled
  <2> QED
    BY <2>1, <2>2, Zenon
<1>3. /\ dead' \in BOOLEAN /\ settleErr' \in BOOLEAN /\ ahead' \in BOOLEAN
      /\ pc' \in PCs
  BY DEF awaitSettled, Awaited, Typed, TypeOK
<1> QED
  BY <1>1, <1>2, <1>3 DEF Typed, TypeOK, Verdicts, counts

LEMMA TypedStep == Typed /\ PromptsCounted /\ [Next]_vars => Typed'
<1> SUFFICES ASSUME Typed, PromptsCounted, [Next]_vars PROVE Typed'
  OBVIOUS
<1> USE DEF harness, child, counts
<1>0. TypeOK /\ v \in Verdicts
  BY DEF Typed
<1>1. CASE UNCHANGED vars
  BY <1>0, <1>1 DEF Typed, TypeOK, vars
<1>2. CASE Configure
  BY <1>0, <1>2 DEF Typed, TypeOK, Configure, Return, PCs
<1>3. CASE SendPrompt
  <2>1. CASE Prompt("settle") /\ UNCHANGED <<clean, result>>
    <3>1. "settle" \in PCs
      BY DEF PCs
    <3>2. /\ out' \in Seq(Lines) /\ agent' \in {"idle", "working", "exited"}
          /\ prompts' \in Nat /\ pc' \in PCs /\ odd' \in 0..MaxOdd /\ doubled' \in BOOLEAN
      BY <2>1, <3>1, PromptType
    <3> QED
      BY <1>0, <1>3, <2>1, <3>2 DEF SendPrompt, Typed, TypeOK
  <2>2. CASE agent = "exited" /\ Return("error") /\ UNCHANGED <<agent, clean, out, prompts, counts>>
    BY <1>0, <1>3, <2>2 DEF SendPrompt, Return, Typed, TypeOK, PCs
  <2> QED
    BY <1>3, <2>1, <2>2 DEF SendPrompt
<1>4. CASE AwaitSettle
  BY <1>4, AwaitType DEF AwaitSettle, PCs
<1>5. CASE AwaitNudge
  BY <1>5, AwaitType DEF AwaitNudge, PCs
<1>6. CASE AwaitFeedback
  BY <1>6, AwaitType DEF AwaitFeedback, PCs
<1>7. CASE ReadVerdict
  <2>0. AfterVerdict(v) \in PCs /\ AfterVerdict(readVerdict) \in PCs /\ "nudged" \in PCs
    BY DEF AfterVerdict, PCs
  <2>1. readVerdict \in Verdicts
    BY <1>0, ReadVerdictType DEF TypeOK
  <2>2. v' \in Verdicts
    BY <1>0, <1>7, <2>1 DEF ReadVerdict
  <2>3. /\ out' \in Seq(Lines) /\ agent' \in {"idle", "working", "exited"}
        /\ prompts' \in Nat /\ pc' \in PCs /\ odd' \in 0..MaxOdd /\ doubled' \in BOOLEAN
    <3>1. CASE Prompt("nudged")
      BY <2>0, <3>1, PromptType
    <3>2. CASE UNCHANGED <<agent, out, prompts, counts>> /\ pc' \in {AfterVerdict(v), AfterVerdict(readVerdict)}
      BY <1>0, <2>0, <3>2 DEF TypeOK
    <3> QED
      BY <1>7, <3>1, <3>2 DEF ReadVerdict
  <2> QED
    BY <1>0, <1>7, <2>2, <2>3 DEF ReadVerdict, Typed, TypeOK, Verdicts
<1>8. CASE RereadVerdict
  <2>1. readVerdict \in Verdicts /\ AfterVerdict(readVerdict) \in PCs
    BY <1>0, ReadVerdictType DEF TypeOK, AfterVerdict, PCs
  <2> QED
    BY <1>0, <1>8, <2>1 DEF RereadVerdict, Typed, TypeOK, Verdicts
<1>9. CASE RefreshVerdict
  <2>1. readVerdict \in Verdicts /\ "verify" \in PCs
    BY <1>0, ReadVerdictType DEF TypeOK, PCs
  <2> QED
    BY <1>0, <1>9, <2>1 DEF RefreshVerdict, Typed, TypeOK, Verdicts
<1>10. CASE VerifyRound
  <2>1. vr' \subseteq Failures /\ prevSig' \subseteq Failures
    BY <1>0, <1>10, VerifyType DEF VerifyRound, TypeOK
  <2>2. round' \in 0..MaxRounds
    BY <1>0, <1>10, SessionAssumption DEF VerifyRound, TypeOK, PromptsCounted
  <2>3. /\ out' \in Seq(Lines) /\ agent' \in {"idle", "working", "exited"}
        /\ prompts' \in Nat /\ pc' \in PCs /\ odd' \in 0..MaxOdd /\ doubled' \in BOOLEAN
    <3>0. "feedback" \in PCs /\ "cleanup" \in PCs
      BY DEF PCs
    <3>1. CASE Prompt("feedback")
      BY <3>0, <3>1, PromptType
    <3>2. CASE UNCHANGED <<agent, out, prompts, counts>> /\ pc' = "cleanup"
      BY <1>0, <3>0, <3>2 DEF TypeOK
    <3> QED
      BY <1>10, <3>1, <3>2 DEF VerifyRound
  <2> QED
    BY <1>0, <1>10, <2>1, <2>2, <2>3 DEF VerifyRound, Typed, TypeOK
<1>11. CASE ReadReviewIntent
  BY <1>0, <1>11 DEF ReadReviewIntent, Typed, TypeOK, PCs
<1>12. CASE Cleanup
  <2>1. tree' \in Tree
    BY <1>0, <1>12 DEF Cleanup, TypeOK, Tree, Files, Verdict, NoVerdict
  <2> QED
    BY <1>0, <1>12, <2>1 DEF Cleanup, Typed, TypeOK, PCs
<1>13. CASE Wait
  <2>1. Outcome \in {"error", "review", "blocked", "pr", "pr_known_failures"}
    BY DEF Outcome
  <2> QED
    BY <1>0, <1>13, <2>1 DEF Wait, Return, Typed, TypeOK, PCs
<1>14. CASE WallCap
  BY <1>0, <1>14 DEF WallCap, Typed, TypeOK
<1>15. CASE Works
  BY <1>0, <1>15, SessionAssumption DEF Works, Typed, TypeOK
<1>16. CASE Settles
  <2>1. out' \in Seq(Lines) /\ odd' \in 0..MaxOdd /\ doubled' \in BOOLEAN
    <3>1. "agent_settled" \in Lines /\ "agent_end" \in Lines
      BY DEF Lines
    <3> QED
      BY <1>0, <1>16, <3>1, LinesOnTheStream, EmitsType, EmitsExtraType DEF Settles, TypeOK
  <2> QED
    BY <1>0, <1>16, <2>1 DEF Settles, Typed, TypeOK
<1>17. CASE EndsToRetry
  <2>1. out' \in Seq(Lines)
    <3>1. "agent_end_retry" \in Lines
      BY DEF Lines
    <3> QED
      BY <1>0, <1>17, <3>1, LinesOnTheStream, EmitsType DEF EndsToRetry, TypeOK
  <2> QED
    BY <1>0, <1>17, <2>1, SessionAssumption DEF EndsToRetry, Typed, TypeOK
<1>18. CASE PrintsLong
  <2>1. out' \in Seq(Lines)
    <3>1. "long" \in Lines
      BY DEF Lines
    <3> QED
      BY <1>0, <1>18, <3>1, LinesOnTheStream, EmitsType DEF PrintsLong, TypeOK
  <2> QED
    BY <1>0, <1>18, <2>1, SessionAssumption DEF PrintsLong, Typed, TypeOK
<1>19. CASE Exits
  BY <1>0, <1>19 DEF Exits, Typed, TypeOK
<1> QED
  BY <1>1, <1>2, <1>3, <1>4, <1>5, <1>6, <1>7, <1>8, <1>9, <1>10, <1>11, <1>12, <1>13,
     <1>14, <1>15, <1>16, <1>17, <1>18, <1>19 DEF Next, Harness, Proceeds

-----------------------------------------------------------------------------
(* Counting prompts, and the end *)

LEMMA PromptsCountedStep == Typed /\ PromptsCounted /\ [Next]_vars => PromptsCounted'
<1> SUFFICES ASSUME Typed, PromptsCounted, [Next]_vars PROVE PromptsCounted'
  OBVIOUS
<1> USE DEF PromptsCounted, harness, child, counts
<1>0. prompts \in Nat /\ round \in Nat /\ MaxRounds \in Nat \ {0}
  BY SessionAssumption DEF Typed, TypeOK
<1>1. CASE UNCHANGED vars
  BY <1>1 DEF vars
<1>2. CASE Configure
  BY <1>0, <1>2 DEF Configure, Return
<1>3. CASE SendPrompt
  BY <1>0, <1>3 DEF SendPrompt, Prompt, Return
<1>4. CASE AwaitSettle \/ AwaitNudge \/ AwaitFeedback
  BY <1>0, <1>4 DEF AwaitSettle, AwaitNudge, AwaitFeedback, awaitSettled, Awaited
<1>5. CASE ReadVerdict
  BY <1>0, <1>5 DEF ReadVerdict, Prompt, AfterVerdict
<1>6. CASE RereadVerdict
  BY <1>0, <1>6 DEF RereadVerdict, AfterVerdict
<1>7. CASE RefreshVerdict
  BY <1>0, <1>7 DEF RefreshVerdict
<1>8. CASE VerifyRound
  BY <1>0, <1>8 DEF VerifyRound, Prompt, LastRound
<1>9. CASE ReadReviewIntent \/ Cleanup \/ Wait
  BY <1>0, <1>9 DEF ReadReviewIntent, Cleanup, Wait, Return
<1>10. CASE WallCap \/ Works \/ Settles \/ EndsToRetry \/ PrintsLong \/ Exits
  BY <1>10 DEF WallCap, Works, Settles, EndsToRetry, PrintsLong, Exits
<1> QED
  BY <1>1, <1>2, <1>3, <1>4, <1>5, <1>6, <1>7, <1>8, <1>9, <1>10 DEF Next, Harness, Proceeds

LEMMA ResultIsLastStep == Typed /\ ResultIsLast /\ [Next]_vars => ResultIsLast'
<1> SUFFICES ASSUME Typed, ResultIsLast, [Next]_vars PROVE ResultIsLast'
  OBVIOUS
<1> USE DEF ResultIsLast, harness, child, counts
<1>1. CASE UNCHANGED vars
  BY <1>1 DEF vars
<1>2. CASE Configure
  BY <1>2 DEF Configure, Return
<1>3. CASE SendPrompt
  BY <1>3 DEF SendPrompt, Prompt, Return
<1>4. CASE AwaitSettle \/ AwaitNudge \/ AwaitFeedback
  BY <1>4 DEF AwaitSettle, AwaitNudge, AwaitFeedback, awaitSettled, Awaited
<1>5. CASE ReadVerdict
  BY <1>5 DEF ReadVerdict, Prompt, AfterVerdict
<1>6. CASE RereadVerdict
  BY <1>6 DEF RereadVerdict, AfterVerdict
<1>7. CASE RefreshVerdict
  BY <1>7 DEF RefreshVerdict
<1>8. CASE VerifyRound
  BY <1>8 DEF VerifyRound, Prompt
<1>9. CASE ReadReviewIntent \/ Cleanup
  BY <1>9 DEF ReadReviewIntent, Cleanup
<1>10. CASE Wait
  BY <1>10 DEF Wait, Return, Outcome
<1>11. CASE WallCap \/ Works \/ Settles \/ EndsToRetry \/ PrintsLong \/ Exits
  BY <1>11 DEF WallCap, Works, Settles, EndsToRetry, PrintsLong, Exits
<1> QED
  BY <1>1, <1>2, <1>3, <1>4, <1>5, <1>6, <1>7, <1>8, <1>9, <1>10, <1>11 DEF Next, Harness, Proceeds

-----------------------------------------------------------------------------
(* Turns *)

\* What a working child prints leaves a turn in progress.
LEMMA TurnGoesOn ==
    ASSUME NEW s \in Seq(Lines), TurnOf(s, "working"), NEW line \in Lines \ {"rejected"}
    PROVE  TurnOf(Append(s, line), IF line \in {"agent_settled", "agent_end"} THEN "idle" ELSE "working")
<1> DEFINE a == IF line \in {"agent_settled", "agent_end"} THEN "idle" ELSE "working"
<1>1. PICK n \in 0..Len(s) :
        /\ \A i \in 1..n : s[i] = "agent_end_retry"
        /\ n = Len(s) \/ (n < Len(s) /\ s[n + 1] = "long")
  BY DEF TurnOf
<1>2. PICK t : t = Append(s, line)
  OBVIOUS
<1>3. /\ Len(t) = Len(s) + 1 /\ Len(s) \in Nat /\ t[Len(s) + 1] = line
      /\ \A i \in 1..Len(s) : t[i] = s[i]
  BY <1>2
<1>4. CASE n < Len(s)
  <2>1. /\ n \in 0..Len(t) /\ n < Len(t) /\ t[n + 1] = "long"
        /\ \A i \in 1..n : t[i] = "agent_end_retry"
    BY <1>1, <1>3, <1>4
  <2> QED
    BY <1>2, <2>1 DEF TurnOf
<1>5. CASE n = Len(s) /\ line = "agent_end_retry"
  <2>1. /\ n + 1 \in 0..Len(t) /\ n + 1 = Len(t)
        /\ \A i \in 1..(n + 1) : t[i] = "agent_end_retry"
    BY <1>1, <1>3, <1>5
  <2> QED
    BY <1>2, <1>5, <2>1 DEF TurnOf
<1>6. CASE n = Len(s) /\ line # "agent_end_retry"
  <2>1. /\ n \in 0..Len(t) /\ n + 1 = Len(t) /\ t[n + 1] = line /\ n < Len(t)
        /\ \A i \in 1..n : t[i] = "agent_end_retry"
    BY <1>1, <1>3, <1>6
  <2>2. line = "long" \/ (line \in {"agent_settled", "agent_end"} /\ a = "idle")
    BY <1>6 DEF Lines
  <2> QED
    BY <1>2, <2>1, <2>2 DEF TurnOf
<1> QED
  BY <1>1, <1>4, <1>5, <1>6

\* A child that exits prints nothing more.
LEMMA TurnBreaksOff ==
    ASSUME NEW s, NEW a, TurnOf(s, a) PROVE TurnOf(s, "exited")
  BY DEF TurnOf

\* The line that ends a turn is the last one; a retried end is taken off in front.
LEMMA TurnIsRead ==
    ASSUME NEW s \in Seq(Lines), NEW a, TurnOf(s, a), s # <<>>, Head(s) # "long"
    PROVE  \/ Tail(s) = <<>> /\ a # "working" /\ Head(s) # "agent_end_retry"
           \/ TurnOf(Tail(s), a) /\ Head(s) = "agent_end_retry"
<1>1. PICK n \in 0..Len(s) :
        /\ \A i \in 1..n : s[i] = "agent_end_retry"
        /\ \/ n = Len(s) /\ a # "idle"
           \/ /\ n + 1 = Len(s) /\ a # "working"
              /\ s[n + 1] \in {"agent_settled", "agent_end", "rejected"}
           \/ n < Len(s) /\ s[n + 1] = "long"
  BY DEF TurnOf
<1>2. PICK t : t = Tail(s)
  OBVIOUS
<1>3. /\ Len(s) \in Nat \ {0} /\ t \in Seq(Lines) /\ Len(t) = Len(s) - 1
      /\ \A i \in 1..Len(t) : t[i] = s[i + 1]
      /\ Head(s) = s[1]
  BY <1>2
<1>4. CASE n = 0
  <2>1. Len(s) = 1 /\ a # "working" /\ Head(s) \in {"agent_settled", "agent_end", "rejected"}
    BY <1>1, <1>3, <1>4
  <2>2. t = <<>>
    BY <1>3, <2>1
  <2> QED
    BY <1>2, <2>1, <2>2
<1>5. CASE n # 0
  <2>1. Head(s) = "agent_end_retry" /\ n - 1 \in 0..Len(t)
    BY <1>1, <1>3, <1>5
  <2>2. \A i \in 1..(n - 1) : t[i] = "agent_end_retry"
    BY <1>1, <1>3, <1>5
  <2>3. \/ n - 1 = Len(t) /\ a # "idle"
        \/ /\ (n - 1) + 1 = Len(t) /\ a # "working"
           /\ t[(n - 1) + 1] \in {"agent_settled", "agent_end", "rejected"}
        \/ n - 1 < Len(t) /\ t[(n - 1) + 1] = "long"
    BY <1>1, <1>3, <1>5
  <2> QED
    BY <1>2, <2>1, <2>2, <2>3 DEF TurnOf
<1> QED
  BY <1>4, <1>5

\* What has been printed stays printed, and a harness that got ahead stays so.
LEMMA OrderIsNotRestored ==
    Typed /\ [Next]_vars => (Orderly' => Orderly) /\ (InStep' => InStep)
<1> SUFFICES ASSUME Typed, [Next]_vars PROVE (Orderly' => Orderly) /\ (InStep' => InStep)
  OBVIOUS
<1>1. doubled' = doubled \/ doubled' = TRUE
  BY DEF Next, Harness, Proceeds, vars, harness, child, counts, Configure, SendPrompt, AwaitSettle,
     AwaitNudge, AwaitFeedback, awaitSettled, ReadVerdict, RereadVerdict, RefreshVerdict, VerifyRound,
     ReadReviewIntent, Cleanup, Wait, WallCap, Works, Settles, EndsToRetry, PrintsLong, Exits, Prompt,
     EmitsExtra
<1>3. (dead => dead') /\ (ahead => ahead')
  <2> USE DEF harness, child, counts
  <2>1. CASE AwaitSettle \/ AwaitNudge \/ AwaitFeedback
    <3>1. dead => dead' = dead
      BY <2>1 DEF AwaitSettle, AwaitNudge, AwaitFeedback, awaitSettled
    <3>2. ahead' = ahead \/ ahead' = (ahead \/ agent = "working")
      BY <2>1 DEF AwaitSettle, AwaitNudge, AwaitFeedback, awaitSettled, Awaited
    <3>3. dead => dead'
      BY <3>1, Zenon
    <3>4. ahead => ahead'
      BY <3>2, Zenon
    <3> QED
      BY <3>3, <3>4
  <2>2. CASE UNCHANGED <<dead, ahead>>
    BY <2>2
  <2> QED
    BY <2>1, <2>2 DEF Next, Harness, Proceeds, vars, Configure, SendPrompt, ReadVerdict, RereadVerdict,
       RefreshVerdict, VerifyRound, ReadReviewIntent, Cleanup, Wait, WallCap, Works, Settles, EndsToRetry,
       PrintsLong, Exits
<1>2. doubled => doubled'
  BY <1>1, Zenon
<1> QED
  BY <1>2, <1>3 DEF Orderly, InStep

LEMMA PromptStartsTurn ==
    ASSUME Typed, TurnsAreOver, ~Waiting, NEW next \in {"settle", "nudged", "feedback"},
           Prompt(next), UNCHANGED <<dead, ahead>>, Orderly' => Orderly
    PROVE  TurnsAreOver'
<1>1. Waiting' /\ (Orderly' => ~ahead')
  BY DEF TurnsAreOver, Waiting, Prompt
<1>2. ASSUME Orderly' PROVE TurnOf(out', agent')
  <2>1. out = <<>> /\ ~dead /\ ~doubled' /\ ~doubled /\ agent # "working"
    BY <1>2 DEF TurnsAreOver, Orderly
  <2>2. CASE agent' = "working" /\ out' = <<>>
    BY <2>2 DEF TurnOf
  <2>3. CASE agent' = agent /\ out' = <<"rejected">>
    <3>1. Len(out') = 1 /\ out'[1] = "rejected"
      BY <2>3
    <3> QED
      BY <2>1, <2>3, <3>1 DEF TurnOf
  <2>4. ~EmitsExtra("rejected")
    BY <2>1 DEF EmitsExtra
  <2> QED
    BY <2>1, <2>2, <2>3, <2>4 DEF Prompt, Emits
<1> QED
  BY <1>1, <1>2 DEF TurnsAreOver

LEMMA AwaitEndsTurn ==
    ASSUME Typed, TurnsAreOver, Waiting, NEW next \in PCs \ {"settle", "nudged", "feedback"},
           NEW first, awaitSettled(next, first), Orderly' => Orderly
    PROVE  TurnsAreOver'
<1>0. out \in Seq(Lines) /\ UNCHANGED agent
  BY DEF awaitSettled, Typed, TypeOK, child
<1>1. ~Waiting' => (ahead' <=> ahead \/ agent = "working")
  BY DEF awaitSettled, Awaited, Waiting
<1>2. Waiting' => (ahead' <=> ahead)
  BY DEF awaitSettled, Awaited, Waiting
<1>3. ASSUME Orderly'
      PROVE  ~ahead' /\ IF Waiting' THEN TurnOf(out', agent') ELSE out' = <<>>
  <2>1. ~dead /\ ~dead' /\ ~ahead /\ TurnOf(out, agent)
    BY <1>3 DEF TurnsAreOver, Orderly
  <2>2. CASE out = <<>>
    <3>1. ~Waiting' /\ out' = out /\ agent = "exited"
      BY <2>1, <2>2 DEF awaitSettled, Awaited, Waiting
    <3> QED
      BY <1>1, <2>1, <2>2, <3>1
  <2>3. CASE out # <<>>
    <3>1. Head(out) # "long" /\ out' = Tail(out)
      BY <2>1, <2>3 DEF awaitSettled
    <3>2. CASE Tail(out) = <<>> /\ agent # "working" /\ Head(out) # "agent_end_retry"
      <4>1. Head(out) \in Lines
        BY <1>0, <2>3
      <4>2. ~Waiting'
        BY <2>1, <2>3, <3>2, <4>1 DEF awaitSettled, Awaited, Waiting, Settled, Lines
      <4> QED
        BY <1>1, <2>1, <3>1, <3>2, <4>2
    <3>3. CASE TurnOf(Tail(out), agent) /\ Head(out) = "agent_end_retry"
      <4>1. Waiting'
        BY <2>1, <2>3, <3>3 DEF awaitSettled, Waiting, Settled
      <4> QED
        BY <1>0, <1>2, <2>1, <3>1, <3>3, <4>1
    <3> QED
      BY <1>0, <2>1, <2>3, <3>1, <3>2, <3>3, TurnIsRead
  <2> QED
    BY <2>2, <2>3
<1> QED
  BY <1>0, <1>1, <1>2, <1>3 DEF TurnsAreOver

LEMMA ChildPrints ==
    ASSUME Typed, TurnsAreOver, agent = "working", UNCHANGED <<pc, dead, ahead, doubled>>,
           NEW line \in Lines \ {"rejected"}, Emits(<<line>>),
           agent' = IF line \in {"agent_settled", "agent_end"} THEN "idle" ELSE "working"
    PROVE  TurnsAreOver'
<1>1. ASSUME Orderly' PROVE TurnOf(out', agent') /\ Waiting' /\ ~ahead'
  <2>1. Orderly /\ ~dead /\ ~ahead /\ out \in Seq(Lines)
    BY <1>1 DEF TurnsAreOver, Orderly, Typed, TypeOK
  <2>2. Waiting /\ Waiting'
    BY <2>1 DEF TurnsAreOver, Waiting
  <2>3. TurnOf(out, "working")
    BY <2>1, <2>2 DEF TurnsAreOver
  <2>4. out' = Append(out, line)
    BY <2>1 DEF Emits
  <2> QED
    BY <2>1, <2>2, <2>3, <2>4, TurnGoesOn
<1>2. ASSUME ~ahead', ~Waiting' PROVE FALSE
  BY <1>2 DEF TurnsAreOver, Waiting
<1> QED
  BY <1>1, <1>2 DEF TurnsAreOver

LEMMA TurnsAreOverStep == Typed /\ TurnsAreOver /\ [Next]_vars => TurnsAreOver'
<1> SUFFICES ASSUME Typed, TurnsAreOver, [Next]_vars PROVE TurnsAreOver'
  OBVIOUS
<1>0. Orderly' => Orderly
  BY OrderIsNotRestored
<1> USE DEF harness, child, counts
<1>1. CASE UNCHANGED vars
  BY <1>1 DEF vars, TurnsAreOver, Waiting, Orderly
<1>2. CASE Configure
  BY <1>2 DEF Configure, Return, TurnsAreOver, Waiting, Orderly
<1>3. CASE SendPrompt
  <2>1. ~Waiting /\ UNCHANGED <<dead, ahead>>
    BY <1>3 DEF SendPrompt, Waiting
  <2>2. CASE Prompt("settle")
    BY <1>0, <2>1, <2>2, PromptStartsTurn
  <2>3. CASE Return("error") /\ UNCHANGED <<agent, out, counts>>
    BY <2>1, <2>3 DEF Return, TurnsAreOver, Waiting, Orderly
  <2> QED
    BY <1>3, <2>2, <2>3 DEF SendPrompt
<1>4. CASE AwaitSettle
  BY <1>0, <1>4, AwaitEndsTurn DEF AwaitSettle, Waiting, PCs
<1>5. CASE AwaitNudge
  BY <1>0, <1>5, AwaitEndsTurn DEF AwaitNudge, Waiting, PCs
<1>6. CASE AwaitFeedback
  BY <1>0, <1>6, AwaitEndsTurn DEF AwaitFeedback, Waiting, PCs
<1>7. CASE ReadVerdict
  <2>1. ~Waiting /\ UNCHANGED <<dead, ahead>>
    BY <1>7 DEF ReadVerdict, Waiting
  <2>2. CASE Prompt("nudged")
    BY <1>0, <2>1, <2>2, PromptStartsTurn
  <2>3. CASE pc' \in {"verify", "review", "cleanup"} /\ UNCHANGED <<agent, out, counts>>
    BY <2>1, <2>3 DEF TurnsAreOver, Waiting, Orderly
  <2> QED
    BY <1>7, <2>2, <2>3 DEF ReadVerdict, AfterVerdict
<1>8. CASE VerifyRound
  <2>1. ~Waiting /\ UNCHANGED <<dead, ahead>>
    BY <1>8 DEF VerifyRound, Waiting
  <2>2. CASE Prompt("feedback")
    BY <1>0, <2>1, <2>2, PromptStartsTurn
  <2>3. CASE pc' = "cleanup" /\ UNCHANGED <<agent, out, counts>>
    BY <2>1, <2>3 DEF TurnsAreOver, Waiting, Orderly
  <2> QED
    BY <1>8, <2>2, <2>3 DEF VerifyRound
<1>9. CASE RereadVerdict \/ RefreshVerdict \/ ReadReviewIntent \/ Cleanup \/ Wait
  BY <1>9 DEF RereadVerdict, RefreshVerdict, ReadReviewIntent, Cleanup, Wait, Return,
              AfterVerdict, TurnsAreOver, Waiting, Orderly
<1>10. CASE WallCap \/ Works
  BY <1>10 DEF WallCap, Works, TurnsAreOver, Waiting, Orderly
<1>11. CASE Settles
  <2>1. /\ agent = "working" /\ agent' = "idle" /\ UNCHANGED <<pc, dead, ahead>>
        /\ "agent_settled" \in Lines /\ "agent_end" \in Lines
    BY <1>11 DEF Settles, Lines
  <2>2. CASE Emits(<<"agent_settled">>) /\ UNCHANGED counts
    BY <2>1, <2>2, ChildPrints
  <2>3. CASE Emits(<<"agent_end">>) /\ UNCHANGED counts
    BY <2>1, <2>3, ChildPrints
  <2>4. CASE EmitsExtra("agent_end")
    <3>1. ~Orderly'
      BY <2>4, SessionAssumption DEF EmitsExtra, Orderly, Typed, TypeOK
    <3> QED
      BY <2>1, <3>1 DEF TurnsAreOver, Waiting
  <2> QED
    BY <1>11, <2>2, <2>3, <2>4 DEF Settles
<1>12. CASE EndsToRetry
  BY <1>12, ChildPrints DEF EndsToRetry, Lines
<1>13. CASE PrintsLong
  BY <1>13, ChildPrints DEF PrintsLong, Lines
<1>14. CASE Exits
  BY <1>14, TurnBreaksOff DEF Exits, TurnsAreOver, Waiting, Orderly
<1> QED
  BY <1>1, <1>2, <1>3, <1>4, <1>5, <1>6, <1>7, <1>8, <1>9, <1>10, <1>11, <1>12, <1>13, <1>14
     DEF Next, Harness, Proceeds

-----------------------------------------------------------------------------
(* Waiting *)

\* A line that ends the waiting stays on the stream until it is read.
LEMMA EndingPrinted ==
    ASSUME NEW s \in Seq(Lines), NEW t \in Seq(Lines), EndsWaiting(s) \/ EndsWaiting(t)
    PROVE  EndsWaiting(s \o t)
<1>1. PICK u : u = s \o t
  OBVIOUS
<1>2. /\ Len(s) \in Nat /\ Len(t) \in Nat /\ Len(u) = Len(s) + Len(t)
      /\ \A i \in 1..Len(s) : u[i] = s[i]
      /\ \A i \in 1..Len(t) : u[Len(s) + i] = t[i]
  BY <1>1
<1>3. CASE EndsWaiting(s)
  <2>1. PICK i \in 1..Len(s) : s[i] \in {"agent_settled", "agent_end", "rejected", "long"}
    BY <1>3 DEF EndsWaiting
  <2>2. i \in 1..Len(u) /\ u[i] = s[i]
    BY <1>2
  <2> QED
    BY <1>1, <2>1, <2>2 DEF EndsWaiting
<1>4. CASE EndsWaiting(t)
  <2>1. PICK i \in 1..Len(t) : t[i] \in {"agent_settled", "agent_end", "rejected", "long"}
    BY <1>4 DEF EndsWaiting
  <2>2. Len(s) + i \in 1..Len(u) /\ u[Len(s) + i] = t[i]
    BY <1>2
  <2> QED
    BY <1>1, <2>1, <2>2 DEF EndsWaiting
<1> QED
  BY <1>3, <1>4

LEMMA EndingLine ==
    ASSUME NEW line \in {"agent_settled", "agent_end", "rejected", "long"}
    PROVE  EndsWaiting(<<line>>) /\ EndsWaiting(<<line, "agent_settled">>)
<1>1. Len(<<line>>) = 1 /\ <<line>>[1] = line
  OBVIOUS
<1>2. Len(<<line, "agent_settled">>) = 2 /\ <<line, "agent_settled">>[1] = line
  OBVIOUS
<1>3. 1 \in 1..1 /\ 1 \in 1..2
  OBVIOUS
<1> QED
  BY <1>1, <1>2, <1>3 DEF EndsWaiting

LEMMA EndingRead ==
    ASSUME NEW s \in Seq(Lines), EndsWaiting(s), Head(s) = "agent_end_retry"
    PROVE  EndsWaiting(Tail(s))
<1>1. PICK i \in 1..Len(s) : s[i] \in {"agent_settled", "agent_end", "rejected", "long"}
  BY DEF EndsWaiting
<1>2. PICK t : t = Tail(s)
  OBVIOUS
<1>3. /\ Len(s) \in Nat \ {0} /\ Len(t) = Len(s) - 1 /\ Head(s) = s[1]
      /\ \A j \in 1..Len(t) : t[j] = s[j + 1]
  BY <1>1, <1>2
<1>4. i # 1 /\ i - 1 \in 1..Len(t) /\ t[i - 1] = s[i]
  BY <1>1, <1>3
<1> QED
  BY <1>1, <1>2, <1>4 DEF EndsWaiting

\* What a turn, or a refusal, leaves on the stream.
LEMMA EndingEmitted ==
    ASSUME Typed, ~dead, NEW line \in {"agent_settled", "agent_end", "rejected", "long"},
           Emits(<<line>>) \/ Emits(<<line, "agent_settled">>)
    PROVE  EndsWaiting(out')
<1>1. out \in Seq(Lines) /\ line \in Lines
  BY DEF Typed, TypeOK, Lines
<1>2. <<line>> \in Seq(Lines) /\ <<line, "agent_settled">> \in Seq(Lines)
  BY <1>1, LinesOnTheStream
<1> QED
  BY <1>1, <1>2, EndingLine, EndingPrinted DEF Emits

LEMMA PromptIsAnswered ==
    ASSUME Typed, NEW next \in PCs, Prompt(next), UNCHANGED dead
    PROVE  ~dead' /\ agent' = "idle" => EndsWaiting(out')
<1> SUFFICES ASSUME ~dead, agent' = "idle" PROVE EndsWaiting(out')
  OBVIOUS
<1>1. Emits(<<"rejected">>) \/ Emits(<<"rejected", "agent_settled">>)
  BY DEF Prompt, EmitsExtra
<1> QED
  BY <1>1, EndingEmitted

LEMMA AwaitGoesOn ==
    ASSUME Typed, NobodyWaitsInVain, Waiting,
           NEW next \in PCs \ {"settle", "nudged", "feedback"}, NEW first, awaitSettled(next, first)
    PROVE  NobodyWaitsInVain'
<1> SUFFICES ASSUME Waiting', ~dead', agent' = "idle" PROVE EndsWaiting(out')
  BY DEF NobodyWaitsInVain, EndsWaiting
<1>1. /\ ~dead /\ out # <<>> /\ Head(out) # "long" /\ out' = Tail(out)
      /\ Head(out) \notin {"agent_settled", "agent_end", "rejected"}
  BY DEF awaitSettled, Awaited, Waiting, Settled
<1>2. out \in Seq(Lines) /\ Head(out) = "agent_end_retry" /\ agent = "idle"
  BY <1>1 DEF awaitSettled, child, Typed, TypeOK, Lines
<1>3. EndsWaiting(out)
  BY <1>1, <1>2 DEF NobodyWaitsInVain, EndsWaiting
<1> QED
  BY <1>1, <1>2, <1>3, EndingRead

LEMMA NobodyWaitsInVainStep ==
    Typed /\ NobodyWaitsInVain /\ [Next]_vars => NobodyWaitsInVain'
<1> SUFFICES ASSUME Typed, NobodyWaitsInVain, [Next]_vars PROVE NobodyWaitsInVain'
  OBVIOUS
<1> USE DEF harness, child, counts
<1>1. CASE UNCHANGED vars
  BY <1>1 DEF vars, NobodyWaitsInVain, Waiting
<1>2. CASE Configure \/ RereadVerdict \/ RefreshVerdict \/ ReadReviewIntent \/ Cleanup \/ Wait
  <2>1. ~Waiting'
    BY <1>2 DEF Configure, RereadVerdict, RefreshVerdict, ReadReviewIntent, Cleanup, Wait, Return,
                AfterVerdict, Waiting
  <2> QED
    BY <2>1 DEF NobodyWaitsInVain
<1>3. CASE SendPrompt \/ ReadVerdict \/ VerifyRound
  <2>1. UNCHANGED dead /\ {"settle", "nudged", "feedback"} \subseteq PCs
    BY <1>3 DEF SendPrompt, ReadVerdict, VerifyRound, PCs
  <2>2. Prompt("settle") \/ Prompt("nudged") \/ Prompt("feedback") \/ ~Waiting'
    BY <1>3 DEF SendPrompt, ReadVerdict, VerifyRound, Return, AfterVerdict, Waiting
  <2>3. CASE ~Waiting'
    BY <2>3 DEF NobodyWaitsInVain
  <2>4. CASE Prompt("settle") \/ Prompt("nudged") \/ Prompt("feedback")
    <3>1. ~dead' /\ agent' = "idle" => EndsWaiting(out')
      BY <2>1, <2>4, PromptIsAnswered
    <3> QED
      BY <3>1 DEF NobodyWaitsInVain, EndsWaiting
  <2> QED
    BY <2>2, <2>3, <2>4
<1>4. CASE AwaitSettle \/ AwaitNudge \/ AwaitFeedback
  BY <1>4, AwaitGoesOn DEF AwaitSettle, AwaitNudge, AwaitFeedback, Waiting, PCs
<1>5. CASE Settles
  <2>1. UNCHANGED <<pc, dead>>
    BY <1>5 DEF Settles
  <2>2. \/ Emits(<<"agent_settled">>) \/ Emits(<<"agent_end">>)
        \/ Emits(<<"agent_end", "agent_settled">>)
    BY <1>5 DEF Settles, EmitsExtra
  <2>3. ~dead => EndsWaiting(out')
    BY <2>2, EndingEmitted
  <2> QED
    BY <2>1, <2>3 DEF NobodyWaitsInVain, EndsWaiting
<1>6. CASE WallCap
  BY <1>6 DEF WallCap, NobodyWaitsInVain, Waiting
<1>7. CASE Works \/ EndsToRetry \/ PrintsLong \/ Exits
  <2>1. agent' # "idle"
    BY <1>7 DEF Works, EndsToRetry, PrintsLong, Exits
  <2> QED
    BY <2>1 DEF NobodyWaitsInVain
<1> QED
  BY <1>1, <1>2, <1>3, <1>4, <1>5, <1>6, <1>7 DEF Next, Harness, Proceeds

-----------------------------------------------------------------------------
(* What the harness holds, and what it graded *)

\* A harness in step decides while the agent is idle.
LEMMA NobodyWorks == TurnsAreOver /\ InStep /\ ~Waiting => agent # "working"
  BY DEF TurnsAreOver, InStep

LEMMA VerdictIsHeldStep == Typed /\ TurnsAreOver /\ VerdictIsHeld /\ [Next]_vars => VerdictIsHeld'
<1> SUFFICES ASSUME Typed, TurnsAreOver, VerdictIsHeld, [Next]_vars PROVE VerdictIsHeld'
  OBVIOUS
<1>0. InStep' => InStep
  BY OrderIsNotRestored
<1> USE DEF VerdictIsHeld, harness, child, counts
<1>1. CASE UNCHANGED vars
  BY <1>0, <1>1 DEF vars, readVerdict
<1>2. CASE Configure \/ SendPrompt
  BY <1>0, <1>2 DEF Configure, SendPrompt, Prompt, Return
<1>3. CASE AwaitSettle \/ AwaitNudge \/ AwaitFeedback
  BY <1>0, <1>3 DEF AwaitSettle, AwaitNudge, AwaitFeedback, awaitSettled, Awaited
<1>4. CASE ReadVerdict
  <2>1. UNCHANGED <<mode, tree, settleErr>> /\ readVerdict' = readVerdict
    BY <1>0, <1>4 DEF ReadVerdict, readVerdict
  <2> QED
    BY <1>0, <1>4, <2>1 DEF ReadVerdict, Prompt
<1>5. CASE RereadVerdict
  <2>1. UNCHANGED <<mode, tree, settleErr>> /\ readVerdict' = readVerdict
    BY <1>0, <1>5 DEF RereadVerdict, readVerdict
  <2> QED
    BY <1>0, <1>5, <2>1 DEF RereadVerdict
<1>6. CASE RefreshVerdict
  <2>1. UNCHANGED <<mode, tree, settleErr>> /\ readVerdict' = readVerdict
    BY <1>0, <1>6 DEF RefreshVerdict, readVerdict
  <2> QED
    BY <1>0, <1>6, <2>1 DEF RefreshVerdict
<1>7. CASE VerifyRound
  <2>1. UNCHANGED <<mode, tree, settleErr, v>> /\ readVerdict' = readVerdict /\ pc = "verify"
    BY <1>0, <1>7 DEF VerifyRound, readVerdict
  <2> QED
    BY <1>0, <2>1
<1>8. CASE ReadReviewIntent \/ Cleanup \/ Wait
  BY <1>0, <1>8 DEF ReadReviewIntent, Cleanup, Wait, Return, readVerdict
<1>9. CASE Works
  BY <1>0, <1>9, NobodyWorks DEF Works, Waiting
<1>10. CASE WallCap \/ Settles \/ EndsToRetry \/ PrintsLong \/ Exits
  BY <1>0, <1>10 DEF WallCap, Settles, EndsToRetry, PrintsLong, Exits, readVerdict
<1> QED
  BY <1>0, <1>1, <1>2, <1>3, <1>4, <1>5, <1>6, <1>7, <1>8, <1>9, <1>10 DEF Next, Harness, Proceeds

LEMMA GradeStandsStep ==
    Typed /\ TurnsAreOver /\ ResultIsLast /\ GradeStands /\ [Next]_vars => GradeStands'
<1> SUFFICES ASSUME Typed, TurnsAreOver, ResultIsLast, GradeStands, [Next]_vars PROVE GradeStands'
  OBVIOUS
<1>0. InStep' => InStep
  BY OrderIsNotRestored
<1> USE DEF GradeStands, harness, child, counts
<1>1. CASE UNCHANGED vars
  BY <1>0, <1>1 DEF vars, Graded, Dirty
<1>2. CASE Configure \/ SendPrompt
  BY <1>0, <1>2 DEF Configure, SendPrompt, Prompt, Return, ResultIsLast
<1>3. CASE AwaitSettle \/ AwaitNudge \/ AwaitFeedback
  BY <1>0, <1>3 DEF AwaitSettle, AwaitNudge, AwaitFeedback, awaitSettled, Awaited, ResultIsLast
<1>4. CASE ReadVerdict
  BY <1>0, <1>4 DEF ReadVerdict, Prompt, AfterVerdict, ResultIsLast
<1>5. CASE RereadVerdict
  BY <1>0, <1>5 DEF RereadVerdict, AfterVerdict, ResultIsLast
<1>6. CASE RefreshVerdict
  BY <1>0, <1>6 DEF RefreshVerdict, ResultIsLast
<1>7. CASE VerifyRound
  <2>1. /\ UNCHANGED <<tree, v, result, mode>> /\ pc = "verify" /\ vr' \in Verify
        /\ pc' # "review"
    BY <1>0, <1>7 DEF VerifyRound, Prompt
  <2>2. vr' = {} => Graded
    BY <2>1 DEF Verify, Graded
  <2>3. Graded => Graded'
    BY <2>1 DEF Graded, Dirty
  <2> QED
    BY <1>0, <2>1, <2>2, <2>3, <1>7
<1>8. CASE ReadReviewIntent
  BY <1>0, <1>8 DEF ReadReviewIntent, Graded, Dirty, ResultIsLast
<1>9. CASE Cleanup
  <2>1. /\ UNCHANGED <<mode, v, vr, result>> /\ pc = "cleanup" /\ pc' = "wait"
        /\ tree'.stray = tree.stray /\ tree'.failing = tree.failing
        /\ tree'.present = tree.present /\ tree'.head = tree.head
        /\ \A p \in Paths : ~Bookkeeping(p) => tree'.work[p] = tree.work[p]
    BY <1>0, <1>9 DEF Cleanup, Typed, TypeOK, Tree, Files
  <2>2. Graded => Graded'
    BY <2>1 DEF Graded, Dirty
  <2> QED
    BY <1>0, <2>1, <2>2
<1>10. CASE Wait
  BY <1>0, <1>10 DEF Wait, Return, Outcome, Graded, Dirty
<1>11. CASE Works
  BY <1>0, <1>11, NobodyWorks DEF Works, Waiting, ResultIsLast
<1>12. CASE WallCap \/ Settles \/ EndsToRetry \/ PrintsLong \/ Exits
  BY <1>0, <1>12 DEF WallCap, Settles, EndsToRetry, PrintsLong, Exits, Graded, Dirty
<1> QED
  BY <1>0, <1>1, <1>2, <1>3, <1>4, <1>5, <1>6, <1>7, <1>8, <1>9, <1>10, <1>11, <1>12 DEF Next, Harness, Proceeds

-----------------------------------------------------------------------------
(* The theorems about a session *)

LEMMA SessionInvInit == Init => SessionInv
<1> SUFFICES ASSUME Init PROVE SessionInv
  OBVIOUS
<1>1. Typed
  BY TypedInit
<1>2. TurnsAreOver
  BY DEF Init, TurnsAreOver, Waiting, Orderly
<1>3. PromptsCounted /\ NobodyWaitsInVain
  BY SessionAssumption DEF Init, PromptsCounted, NobodyWaitsInVain, Waiting
<1>4. ResultIsLast /\ VerdictIsHeld /\ GradeStands
  BY DEF Init, ResultIsLast, VerdictIsHeld, GradeStands
<1> QED
  BY <1>1, <1>2, <1>3, <1>4 DEF SessionInv

LEMMA SessionInvStep == SessionInv /\ [Next]_vars => SessionInv'
  BY TypedStep, TurnsAreOverStep, NobodyWaitsInVainStep, PromptsCountedStep, ResultIsLastStep,
     VerdictIsHeldStep, GradeStandsStep DEF SessionInv

LEMMA SessionInvariant == Spec => []SessionInv
  BY SessionInvInit, SessionInvStep, PTL DEF Spec

\* RPC.Run's variables, the stream and the worktree stay in their types.
THEOREM SessionTypeCorrect == Spec => []TypeOK
<1>1. SessionInv => TypeOK
  BY DEF SessionInv, Typed
<1> QED
  BY <1>1, SessionInvariant, PTL

\* An upgrade pull request without a known-failures note was graded as it stands, unless
\* the harness went on while the agent was still at work, which takes a child that prints
\* a settle line too many or a line too long.
THEOREM CleanPullRequests == Spec => []CleanPullRequestIsVerified
<1>1. SessionInv => CleanPullRequestIsVerified
  BY DEF SessionInv, ResultIsLast, GradeStands, Graded, CleanPullRequestIsVerified
<1> QED
  BY <1>1, SessionInvariant, PTL

\* What the harness reports is the agent's last readable verdict, with that same exception.
THEOREM ReportsAreCurrent == Spec => []ReportIsCurrent
<1>1. SessionInv => ReportIsCurrent
  BY DEF SessionInv, VerdictIsHeld, ReportIsCurrent
<1> QED
  BY <1>1, SessionInvariant, PTL

\* One prompt, one nudge and a feedback for every round but the last.
THEOREM PromptsAreBounded == Spec => []PromptsBounded
<1>1. SessionInv => PromptsBounded
  BY DEF SessionInv, PromptsCounted, PromptsBounded
<1> QED
  BY <1>1, SessionInvariant, PTL

\* The harness never waits for an agent that waits for it, whatever lines the child adds
\* to its turns and refusals: no two of them wait for each other until the wall cap.
THEOREM NobodyWaits == Spec => []NobodyWaitsInVain
<1>1. SessionInv => NobodyWaitsInVain
  BY DEF SessionInv
<1> QED
  BY <1>1, SessionInvariant, PTL

\* A returned worktree changes no more.
LEMMA ReturnedTree ==
    SessionInv /\ [Next]_vars =>
        (result \notin {"none", "error"} => UNCHANGED <<tree, result, v, mode, pc>>)
<1> SUFFICES ASSUME SessionInv, [Next]_vars, result \notin {"none", "error"}
             PROVE  UNCHANGED <<tree, result, v, mode, pc>>
  OBVIOUS
<1>1. pc = "returned" /\ agent = "exited"
  BY DEF SessionInv, ResultIsLast
<1>2. ~Harness
  BY <1>1 DEF Harness, Proceeds, Configure, SendPrompt, AwaitSettle, ReadVerdict, AwaitNudge, RereadVerdict,
     VerifyRound, AwaitFeedback, RefreshVerdict, ReadReviewIntent, Cleanup, Wait
<1>3. ~(WallCap \/ Works \/ Settles \/ EndsToRetry \/ PrintsLong \/ Exits)
  BY <1>1 DEF WallCap, Works, Settles, EndsToRetry, PrintsLong, Exits
<1> QED
  BY <1>2, <1>3 DEF Next, vars, harness, child, counts

\* Nobody changes the worktree a session has returned.
THEOREM ReturnedTreesAreFrozen == Spec => ReturnedTreeIsFrozen
<1>1. SessionInv /\ [Next]_vars => [result \notin {"none", "error"} => tree' = tree]_vars
  BY ReturnedTree
<1> QED
  BY <1>1, SessionInvariant, PTL DEF Spec, ReturnedTreeIsFrozen

-----------------------------------------------------------------------------
(* Patterns *)

\* Parts of a pattern without ** take one name each.
LEMMA CutsAdvance ==
    ASSUME NEW n \in Nat, NEW m \in Nat, NEW cut \in [0..n -> 0..m],
           NEW lo \in 0..n, NEW hi \in 0..n,
           \A i \in (lo + 1)..hi : cut[i] = cut[i - 1] + 1
    PROVE  \A i \in lo..hi : cut[i] = cut[lo] + (i - lo)
<1> DEFINE Bad == {i \in lo..hi : cut[i] # cut[lo] + (i - lo)}
<1>1. SUFFICES ASSUME Bad # {} PROVE FALSE
  OBVIOUS
<1>2. Bad \in SUBSET Nat
  OBVIOUS
<1>3. PICK b \in Bad : \A i \in Bad : b <= i
  BY <1>1, <1>2, LeastNatural
<1>4. b # lo /\ b \in (lo + 1)..hi /\ b - 1 \in lo..hi
  BY <1>3
<1>5. b - 1 \notin Bad
  BY <1>3, <1>4
<1>6. cut[b - 1] = cut[lo] + (b - 1 - lo)
  BY <1>4, <1>5
<1>7. cut[b] = cut[b - 1] + 1 /\ cut[lo] \in Nat
  BY <1>4
<1>8. cut[b] = cut[lo] + (b - lo)
  BY <1>4, <1>6, <1>7
<1> QED
  BY <1>3, <1>8

\* All names, those of defaultDeniedPaths spelled out: the provers do not know that a
\* literal is a string.
Names ==
    STRING \cup {".github", "workflows", "actions", "**", ".git", "CODEOWNERS", "docs",
                 ".gitattributes", ".npmrc", ".pypirc", ".bot"}

Words == Seq(Names) \ {<<>>}

\* Every path and every pattern of a grant is a word list.
LEMMA StringsAreNames == Seq(STRING) \ {<<>>} \subseteq Words
<1>1. \A S, T : S \subseteq T => Seq(S) \subseteq Seq(T)
  OBVIOUS
<1>2. Seq(STRING) \subseteq Seq(Names)
  <2>1. STRING \subseteq Names
    BY DEF Names
  <2> QED
    BY <1>1, <2>1, Zenon
<1> QED
  BY <1>2, Zenon DEF Words

LEMMA PrefixElements ==
    ASSUME NEW s \in Seq(Names), NEW t \in Seq(Names)
    PROVE  IsPrefix(s, t) <=> Len(s) <= Len(t) /\ \A i \in 1..Len(s) : s[i] = t[i]
<1>1. CASE Len(s) <= Len(t)
  <2>1. /\ SubSeq(s, 1, Len(s)) = [i \in 1..Len(s) |-> s[i]]
        /\ SubSeq(t, 1, Len(s)) = [i \in 1..Len(s) |-> t[i]]
    BY <1>1
  <2> QED
    BY <1>1, <2>1 DEF IsPrefix
<1>2. CASE ~(Len(s) <= Len(t))
  BY <1>2 DEF IsPrefix
<1> QED
  BY <1>1, <1>2

LEMMA SuffixElements ==
    ASSUME NEW s \in Seq(Names), NEW t \in Seq(Names)
    PROVE  IsSuffix(s, t) <=> Len(s) <= Len(t) /\ \A i \in 1..Len(s) : s[i] = t[Len(t) - Len(s) + i]
<1>1. /\ Reverse(s) \in Seq(Names) /\ Len(Reverse(s)) = Len(s)
      /\ \A i \in 1..Len(s) : Reverse(s)[i] = s[Len(s) - i + 1]
  BY DEF Reverse
<1>2. /\ Reverse(t) \in Seq(Names) /\ Len(Reverse(t)) = Len(t)
      /\ \A i \in 1..Len(t) : Reverse(t)[i] = t[Len(t) - i + 1]
  BY DEF Reverse
<1>3. IsSuffix(s, t) <=> Len(s) <= Len(t) /\ \A i \in 1..Len(s) : s[Len(s) - i + 1] = t[Len(t) - i + 1]
  BY <1>1, <1>2, PrefixElements DEF IsSuffix
<1>4. ASSUME Len(s) <= Len(t)
      PROVE  (\A i \in 1..Len(s) : s[Len(s) - i + 1] = t[Len(t) - i + 1])
                <=> \A i \in 1..Len(s) : s[i] = t[Len(t) - Len(s) + i]
  <2>1. ASSUME \A i \in 1..Len(s) : s[Len(s) - i + 1] = t[Len(t) - i + 1], NEW i \in 1..Len(s)
        PROVE  s[i] = t[Len(t) - Len(s) + i]
    <3>1. Len(s) - i + 1 \in 1..Len(s)
      OBVIOUS
    <3>2. Len(s) - (Len(s) - i + 1) + 1 = i /\ Len(t) - (Len(s) - i + 1) + 1 = Len(t) - Len(s) + i
      OBVIOUS
    <3> QED
      BY <2>1, <3>1, <3>2
  <2>2. ASSUME \A i \in 1..Len(s) : s[i] = t[Len(t) - Len(s) + i], NEW i \in 1..Len(s)
        PROVE  s[Len(s) - i + 1] = t[Len(t) - i + 1]
    <3>1. Len(s) - i + 1 \in 1..Len(s)
      OBVIOUS
    <3>2. Len(t) - Len(s) + (Len(s) - i + 1) = Len(t) - i + 1
      OBVIOUS
    <3> QED
      BY <2>2, <3>1, <3>2
  <2> QED
    BY <2>1, <2>2
<1> QED
  BY <1>3, <1>4

\* A pattern of a supported form has no **, or one ** at its end, or one in front,
\* and then no wildcard beside it.
LEMMA SupportedForms ==
    ASSUME NEW pat \in Words, Supported(pat)
    PROVE  \/ \A i \in 1..Len(pat) : pat[i] # "**"
           \/ /\ Len(pat) > 1 /\ pat[Len(pat)] = "**"
              /\ \A i \in 1..Len(pat) : \A w \in Wild : w[1] # pat[i]
              /\ \A i \in 1..(Len(pat) - 1) : pat[i] # "**"
           \/ /\ Len(pat) > 1 /\ pat[1] = "**"
              /\ \A i \in 1..Len(pat) : \A w \in Wild : w[1] # pat[i]
              /\ \A i \in 2..Len(pat) : pat[i] # "**"
<1> DEFINE stars == {i \in 1..Len(pat) : pat[i] = "**"}
<1>1. CASE stars = {}
  BY <1>1
<1>2. CASE /\ stars \in {{1}, {Len(pat)}} /\ Len(pat) > 1
           /\ \A i \in 1..Len(pat) : ~\E w \in Wild : w[1] = pat[i]
  <2>1. CASE stars = {1}
    BY <1>2, <2>1
  <2>2. CASE stars = {Len(pat)}
    BY <1>2, <2>2
  <2> QED
    BY <1>2, <2>1, <2>2
<1> QED
  BY <1>1, <1>2 DEF Supported

LEMMA LiteralMatch ==
    ASSUME NEW q, \A w \in Wild : w[1] # q
    PROVE  \A name : NameMatch(q, name) <=> q = name
<1>1. ASSUME NEW name, <<q, name>> \in Wild PROVE FALSE
  <2>1. <<q, name>>[1] # q
    BY <1>1
  <2> QED
    BY <2>1
<1> QED
  BY <1>1 DEF NameMatch

LEMMA PlainPattern ==
    ASSUME NEW pat \in Words, NEW p \in Words, \A i \in 1..Len(pat) : pat[i] # "**"
    PROVE  globMatch(pat, p) <=> GlobMeans(pat, p)
<1>0. Len(pat) \in Nat \ {0} /\ Len(p) \in Nat \ {0}
  BY DEF Words
<1>1. globMatch(pat, p) <=> Len(p) = Len(pat) /\ \A i \in 1..Len(pat) : NameMatch(pat[i], p[i])
  <2>1. Last(pat) # "**" /\ Head(pat) # "**"
    BY <1>0 DEF Last, Words
  <2> QED
    BY <2>1 DEF globMatch
<1>2. ASSUME GlobMeans(pat, p)
      PROVE  Len(p) = Len(pat) /\ \A i \in 1..Len(pat) : NameMatch(pat[i], p[i])
  <2>1. PICK cut \in [0..Len(pat) -> 0..Len(p)] :
          /\ cut[0] = 0 /\ cut[Len(pat)] = Len(p)
          /\ \A i \in 1..Len(pat) : cut[i] = cut[i - 1] + 1 /\ NameMatch(pat[i], p[cut[i]])
    BY <1>2 DEF GlobMeans
  <2>2. \A i \in 0..Len(pat) : cut[i] = i
    <3>1. 0 \in 0..Len(pat) /\ Len(pat) \in 0..Len(pat)
      BY <1>0
    <3>2. \A i \in (0 + 1)..Len(pat) : cut[i] = cut[i - 1] + 1
      BY <2>1
    <3>3. \A i \in 0..Len(pat) : cut[i] = cut[0] + (i - 0)
      BY <1>0, <3>1, <3>2, CutsAdvance
    <3> QED
      BY <1>0, <2>1, <3>3
  <2>3. Len(p) = Len(pat)
    BY <1>0, <2>1, <2>2
  <2>4. \A i \in 1..Len(pat) : NameMatch(pat[i], p[i])
    <3> TAKE i \in 1..Len(pat)
    <3>1. NameMatch(pat[i], p[cut[i]]) /\ cut[i] = i
      BY <2>1, <2>2
    <3> QED
      BY <3>1
  <2> QED
    BY <2>3, <2>4
<1>3. ASSUME Len(p) = Len(pat), \A i \in 1..Len(pat) : NameMatch(pat[i], p[i])
      PROVE  GlobMeans(pat, p)
  <2> DEFINE cut == [i \in 0..Len(pat) |-> i]
  <2>1. cut \in [0..Len(pat) -> 0..Len(p)] /\ cut[0] = 0 /\ cut[Len(pat)] = Len(p)
    BY <1>0, <1>3
  <2>2. \A i \in 1..Len(pat) : cut[i] = cut[i - 1] + 1 /\ NameMatch(pat[i], p[cut[i]])
    BY <1>0, <1>3
  <2> HIDE DEF cut
  <2> QED
    BY <2>1, <2>2 DEF GlobMeans
<1> QED
  BY <1>1, <1>2, <1>3

LEMMA TrailingPattern ==
    ASSUME NEW pat \in Words, NEW p \in Words, Len(pat) > 1, pat[Len(pat)] = "**",
           \A i \in 1..Len(pat) : \A w \in Wild : w[1] # pat[i],
           \A i \in 1..(Len(pat) - 1) : pat[i] # "**"
    PROVE  globMatch(pat, p) <=> GlobMeans(pat, p)
<1> DEFINE n == Len(pat)
           Below == n - 1 < Len(p) /\ \A i \in 1..(n - 1) : pat[i] = p[i]
<1>0. n \in Nat /\ n > 1 /\ Len(p) \in Nat \ {0}
  BY DEF Words
<1>1. globMatch(pat, p) <=> Below
  <2>0. PICK s : s = Front(pat)
    OBVIOUS
  <2>1. /\ s \in Seq(Names) /\ Len(s) = n - 1 /\ p \in Seq(Names)
        /\ \A i \in 1..(n - 1) : s[i] = pat[i]
    BY <1>0, <2>0 DEF Front, Words
  <2>2. globMatch(pat, p) <=> IsPrefix(s, p) /\ s # p
    BY <2>0 DEF globMatch, Last, IsStrictPrefix
  <2>3. IsPrefix(s, p) <=> Len(s) <= Len(p) /\ \A i \in 1..Len(s) : s[i] = p[i]
    BY <2>1, PrefixElements
  <2>4. ASSUME n - 1 = Len(p), \A i \in 1..(n - 1) : pat[i] = p[i] PROVE s = p
    BY <2>1, <2>4
  <2>5. s = p => n - 1 = Len(p)
    BY <2>1
  <2>6. IsPrefix(s, p) <=> n - 1 <= Len(p) /\ \A i \in 1..(n - 1) : pat[i] = p[i]
    BY <1>0, <2>1, <2>3
  <2> QED
    BY <1>0, <2>2, <2>4, <2>5, <2>6
<1>2. ASSUME GlobMeans(pat, p) PROVE Below
  <2>0. PICK cut \in [0..n -> 0..Len(p)] :
          /\ cut[0] = 0 /\ cut[n] = Len(p)
          /\ \A i \in 1..n :
                IF pat[i] = "**" THEN cut[i - 1] <= cut[i] /\ (i = n => cut[i - 1] < cut[i])
                ELSE cut[i] = cut[i - 1] + 1 /\ NameMatch(pat[i], p[cut[i]])
    BY <1>2 DEF GlobMeans
  <2>1. /\ \A i \in 1..(n - 1) : cut[i] = cut[i - 1] + 1 /\ NameMatch(pat[i], p[cut[i]])
        /\ cut[n - 1] < cut[n]
    BY <1>0, <2>0
  <2>3. \A i \in 0..(n - 1) : cut[i] = i
    <3>1. n \in Nat /\ Len(p) \in Nat /\ 0 \in 0..n /\ n - 1 \in 0..n
      BY <1>0
    <3>2. \A i \in (0 + 1)..(n - 1) : cut[i] = cut[i - 1] + 1
      BY <2>1
    <3>3. \A i \in 0..(n - 1) : cut[i] = cut[0] + (i - 0)
      BY <3>1, <3>2, CutsAdvance, Zenon
    <3> QED
      BY <1>0, <2>0, <3>3
  <2>4. n - 1 < Len(p)
    BY <1>0, <2>0, <2>1, <2>3
  <2>5. ASSUME NEW i \in 1..(n - 1) PROVE pat[i] = p[i]
    <3>1. NameMatch(pat[i], p[i])
      BY <1>0, <2>1, <2>3
    <3>2. \A w \in Wild : w[1] # pat[i]
      BY <1>0
    <3> QED
      BY <3>1, <3>2, LiteralMatch
  <2> QED
    BY <2>4, <2>5
<1>3. ASSUME Below PROVE GlobMeans(pat, p)
  <2> DEFINE cut == [i \in 0..n |-> IF i = n THEN Len(p) ELSE i]
  <2>1. cut \in [0..n -> 0..Len(p)] /\ cut[0] = 0 /\ cut[n] = Len(p) /\ cut[n - 1] < cut[n]
    BY <1>0, <1>3
  <2>2. \A i \in 1..(n - 1) : cut[i] = cut[i - 1] + 1 /\ NameMatch(pat[i], p[cut[i]])
    BY <1>0, <1>3 DEF NameMatch
  <2>3. cut[n - 1] <= cut[n]
    BY <1>0, <1>3
  <2> HIDE DEF cut
  <2>4. \A i \in 1..n :
          IF pat[i] = "**" THEN cut[i - 1] <= cut[i] /\ (i = n => cut[i - 1] < cut[i])
          ELSE cut[i] = cut[i - 1] + 1 /\ NameMatch(pat[i], p[cut[i]])
    <3> TAKE i \in 1..n
    <3>1. i = n \/ i \in 1..(n - 1)
      BY <1>0
    <3> QED
      BY <2>1, <2>2, <2>3, <3>1
  <2> QED
    BY <2>1, <2>4 DEF GlobMeans
<1> QED
  BY <1>1, <1>2, <1>3

LEMMA LeadingPattern ==
    ASSUME NEW pat \in Words, NEW p \in Words, Len(pat) > 1, pat[1] = "**",
           \A i \in 1..Len(pat) : \A w \in Wild : w[1] # pat[i],
           \A i \in 2..Len(pat) : pat[i] # "**"
    PROVE  globMatch(pat, p) <=> GlobMeans(pat, p)
<1> DEFINE n == Len(pat)
           Ends == n - 1 <= Len(p) /\ \A i \in 2..n : pat[i] = p[Len(p) - n + i]
<1>0. n \in Nat /\ n > 1 /\ Len(p) \in Nat \ {0}
  BY DEF Words
<1>1. globMatch(pat, p) <=> Ends
  <2>1. PICK s : s = Tail(pat)
    OBVIOUS
  <2>2. /\ s \in Seq(Names) /\ Len(s) = n - 1
        /\ \A i \in 1..(n - 1) : s[i] = pat[i + 1]
    BY <1>0, <2>1 DEF Words
  <2>3. globMatch(pat, p) <=> IsSuffix(s, p)
    <3>1. Last(pat) # "**" /\ Head(pat) = "**"
      BY <1>0 DEF Last, Words
    <3> QED
      BY <2>1, <3>1 DEF globMatch
  <2>4. IsSuffix(s, p) <=> n - 1 <= Len(p) /\ \A i \in 1..(n - 1) : pat[i + 1] = p[Len(p) - (n - 1) + i]
    <3>1. p \in Seq(Names)
      BY DEF Words
    <3>2. IsSuffix(s, p) <=> Len(s) <= Len(p) /\ \A i \in 1..Len(s) : s[i] = p[Len(p) - Len(s) + i]
      BY <2>2, <3>1, SuffixElements
    <3> QED
      BY <2>2, <3>2
  <2>5. (\A i \in 1..(n - 1) : pat[i + 1] = p[Len(p) - (n - 1) + i])
            <=> \A i \in 2..n : pat[i] = p[Len(p) - n + i]
    <3>1. ASSUME \A i \in 1..(n - 1) : pat[i + 1] = p[Len(p) - (n - 1) + i], NEW i \in 2..n
          PROVE  pat[i] = p[Len(p) - n + i]
      <4>1. i - 1 \in 1..(n - 1) /\ (i - 1) + 1 = i /\ Len(p) - (n - 1) + (i - 1) = Len(p) - n + i
        BY <1>0
      <4> QED
        BY <3>1, <4>1
    <3>2. ASSUME \A i \in 2..n : pat[i] = p[Len(p) - n + i], NEW i \in 1..(n - 1)
          PROVE  pat[i + 1] = p[Len(p) - (n - 1) + i]
      <4>1. i + 1 \in 2..n /\ Len(p) - n + (i + 1) = Len(p) - (n - 1) + i
        BY <1>0
      <4> QED
        BY <3>2, <4>1
    <3> QED
      BY <3>1, <3>2
  <2> QED
    BY <2>3, <2>4, <2>5
<1>2. ASSUME GlobMeans(pat, p) PROVE Ends
  <2>1. PICK cut \in [0..n -> 0..Len(p)] :
          /\ cut[n] = Len(p)
          /\ \A i \in 2..n : cut[i] = cut[i - 1] + 1 /\ NameMatch(pat[i], p[cut[i]])
    BY <1>0, <1>2 DEF GlobMeans
  <2>2. \A i \in 1..n : cut[i] = cut[1] + (i - 1)
    <3>1. n \in Nat /\ Len(p) \in Nat /\ 1 \in 0..n /\ n \in 0..n
      BY <1>0
    <3>2. \A i \in (1 + 1)..n : cut[i] = cut[i - 1] + 1
      BY <2>1
    <3> QED
      BY <3>1, <3>2, CutsAdvance, Zenon
  <2>3. cut[1] \in Nat /\ cut[1] = Len(p) - (n - 1)
    BY <1>0, <2>1, <2>2
  <2>4. \A i \in 2..n : cut[i] = Len(p) - n + i
    BY <1>0, <2>2, <2>3
  <2>5. ASSUME NEW i \in 2..n PROVE pat[i] = p[Len(p) - n + i]
    <3>1. NameMatch(pat[i], p[Len(p) - n + i])
      BY <1>0, <2>1, <2>4
    <3>2. \A w \in Wild : w[1] # pat[i]
      BY <1>0
    <3> QED
      BY <3>1, <3>2, LiteralMatch
  <2> QED
    BY <1>0, <2>3, <2>5
<1>3. ASSUME Ends PROVE GlobMeans(pat, p)
  <2> DEFINE cut == [i \in 0..n |-> IF i = 0 THEN 0 ELSE Len(p) - n + i]
  <2>1. /\ cut \in [0..n -> 0..Len(p)] /\ cut[0] = 0 /\ cut[n] = Len(p)
        /\ cut[0] <= cut[1]
    BY <1>0, <1>3
  <2>2. \A i \in 2..n : cut[i] = cut[i - 1] + 1 /\ NameMatch(pat[i], p[cut[i]])
    BY <1>0, <1>3 DEF NameMatch
  <2> HIDE DEF cut
  <2> QED
    BY <1>0, <2>1, <2>2 DEF GlobMeans
<1> QED
  BY <1>1, <1>2, <1>3

\* globMatch decides the patterns of the forms it is written for.
THEOREM SupportedPatternsMatch ==
    ASSUME NEW pat \in Words, NEW p \in Words, Supported(pat)
    PROVE  globMatch(pat, p) <=> GlobMeans(pat, p)
  BY SupportedForms, PlainPattern, TrailingPattern, LeadingPattern

-----------------------------------------------------------------------------
(* The delivery *)

\* A file that the gate saw under its own name matches no denied pattern.
GateHolds == \A p \in Changed(tree.work) \ Disguised, pat \in Denied : ~globMatch(pat, p)

LEMMA GateKeepsOut == ValidateDiff(FromWorktree) => GateHolds
<1> SUFFICES ASSUME ValidateDiff(FromWorktree), NEW p \in Changed(tree.work) \ Disguised,
                    NEW pat \in Denied
             PROVE  ~globMatch(pat, p)
  BY DEF GateHolds
<1> DEFINE others == Changed(tree.work) \ UNION {{r.from, r.to} : r \in Renames}
<1>0. FromWorktree.files = {Field[q] : q \in others} \cup {Shown(r) : r \in Renames}
  BY DEF FromWorktree
<1>1. Field[p] = p /\ \A r \in Renames : p # r.to /\ (p = r.from => Shown(r) = p)
  BY DEF Changed, Disguised
<1>2. p \in FromWorktree.files
  <2>1. CASE p \in others
    BY <1>0, <1>1, <2>1
  <2>2. CASE p \notin others
    <3>1. PICK r \in Renames : p \in {r.from, r.to}
      BY <2>2
    <3> QED
      BY <1>0, <1>1, <3>1
  <2> QED
    BY <2>1, <2>2
<1> QED
  BY <1>2 DEF ValidateDiff

\* A delivery goes on from a returned session; past the gate its answer still holds
\* of the worktree, and past the push the branch holds the commits.
DeliveryStands ==
    /\ stage \in {"gate", "push", "open", "failed", "opened"} /\ pushed \in Files
    /\ stage # "gate" => result \in {"pr", "pr_known_failures"}
    /\ stage \in {"push", "open", "opened"} => GateHolds
    /\ stage \in {"open", "opened"} => pushed = tree.head

DeliveryInv == SessionInv /\ DeliveryStands

LEMMA DeliveryInvInit == DeliveryInit => DeliveryInv
<1> SUFFICES ASSUME DeliveryInit PROVE DeliveryInv
  OBVIOUS
<1>1. Untouched \in Files
  BY DEF Untouched, Files
<1> QED
  BY <1>1, SessionInvInit DEF DeliveryInit, DeliveryInv, DeliveryStands

LEMMA DeliveryStandsStep ==
    DeliveryInv /\ [DeliveryNext]_<<vars, delivery>> => DeliveryStands'
<1> SUFFICES ASSUME DeliveryInv, [DeliveryNext]_<<vars, delivery>> PROVE DeliveryStands'
  OBVIOUS
<1>0. SessionInv /\ DeliveryStands /\ TypeOK
  BY DEF DeliveryInv, SessionInv, Typed
<1>1. CASE [Next]_vars /\ UNCHANGED delivery
  <2>1. CASE stage = "gate"
    BY <1>0, <1>1, <2>1 DEF DeliveryStands, delivery
  <2>2. CASE stage # "gate"
    <3>1. UNCHANGED <<tree, result>>
      BY <1>0, <1>1, <2>2, ReturnedTree DEF DeliveryStands
    <3> QED
      BY <1>0, <1>1, <3>1 DEF DeliveryStands, delivery, GateHolds, Changed, Disguised, Renames
  <2> QED
    BY <2>1, <2>2
<1>2. CASE Deliver /\ UNCHANGED vars
  <2>1. UNCHANGED <<tree, result>>
    BY <1>2 DEF vars, child, harness
  <2>2. GateHolds' <=> GateHolds
    BY <2>1 DEF GateHolds, Changed, Disguised, Renames
  <2>3. CASE CheckWorktreeDiff
    BY <1>0, <2>1, <2>2, <2>3, GateKeepsOut DEF DeliveryStands, CheckWorktreeDiff
  <2>4. CASE DeliveryFails
    BY <1>0, <2>1, <2>4 DEF DeliveryStands, DeliveryFails
  <2>5. CASE Push
    <3>1. tree.head \in Files
      BY <1>0 DEF TypeOK, Tree
    <3> QED
      BY <1>0, <2>1, <2>2, <2>5, <3>1 DEF DeliveryStands, Push
  <2>6. CASE OpenPR
    BY <1>0, <2>1, <2>2, <2>6 DEF DeliveryStands, OpenPR
  <2> QED
    BY <1>2, <2>3, <2>4, <2>5, <2>6 DEF Deliver
<1>3. CASE UNCHANGED <<vars, delivery>>
  BY <1>1, <1>3
<1> QED
  BY <1>1, <1>2, <1>3 DEF DeliveryNext

LEMMA DeliveryInvStep == DeliveryInv /\ [DeliveryNext]_<<vars, delivery>> => DeliveryInv'
<1>1. [DeliveryNext]_<<vars, delivery>> => [Next]_vars
  BY DEF DeliveryNext
<1> QED
  BY <1>1, SessionInvStep, DeliveryStandsStep DEF DeliveryInv

LEMMA DeliveryInvariant == DeliverySpec => []DeliveryInv
  BY DeliveryInvInit, DeliveryInvStep, PTL DEF DeliverySpec

\* Delivering what a session returns changes nothing in how sessions run: every
\* theorem about Spec holds of deliveries too.
THEOREM DeliveryRunsSessions == DeliverySpec => Spec
<1>1. DeliveryInit => Init
  BY DEF DeliveryInit
<1>2. [DeliveryNext]_<<vars, delivery>> => [Next]_vars
  BY DEF DeliveryNext
<1> QED
  BY <1>1, <1>2, PTL DEF DeliverySpec, Spec

\* Types of a session's delivery: its stage, and the files that were pushed.
THEOREM DeliveryTypeCorrect == DeliverySpec => []DeliveryTypeOK
<1>1. DeliveryInv => DeliveryTypeOK
  BY DEF DeliveryInv, SessionInv, Typed, DeliveryStands, DeliveryTypeOK
<1> QED
  BY <1>1, DeliveryInvariant, PTL

LEMMA PushedFiles ==
    DeliveryInv /\ CleanUpgrade /\ stage \in {"open", "opened"} =>
        \A p \in Paths : ~Bookkeeping(p) => pushed[p] = tree.work[p]
<1> SUFFICES ASSUME DeliveryInv, CleanUpgrade, stage \in {"open", "opened"}, NEW p \in Paths,
                    ~Bookkeeping(p)
             PROVE  pushed[p] = tree.work[p]
  OBVIOUS
<1>1. ~Dirty
  BY DEF DeliveryInv, SessionInv, CleanUpgrade, ResultIsLast, GradeStands, Graded
<1> QED
  BY <1>1 DEF Dirty, DeliveryInv, DeliveryStands

\* What goes out is what was tested, scanned and held against the grant.
THEOREM PushedWhatWasChecked == DeliverySpec => []PushedIsWhatWasChecked
<1>1. DeliveryInv => PushedIsWhatWasChecked
  BY PushedFiles DEF PushedIsWhatWasChecked
<1> QED
  BY <1>1, DeliveryInvariant, PTL

\* Every pattern that denies is a word list.
LEMMA DeniedAreWords == Denied \subseteq Words
<1>1. DeniedPaths \subseteq Words
  BY DeliveryAssumption, StringsAreNames
<1>2. \A S : \A a, b, c \in S : {<<a>>, <<a, b>>, <<a, b, c>>} \subseteq Seq(S) \ {<<>>}
  OBVIOUS
<1>3. defaultDeniedPaths \subseteq Words
  <2>1. {".github", "workflows", "actions", "**", ".git", "CODEOWNERS", "docs",
         ".gitattributes", ".npmrc", ".pypirc", ".bot"} \subseteq Names
    BY DEF Names
  <2>2. \A a, b, c \in Names : {<<a>>, <<a, b>>, <<a, b, c>>} \subseteq Words
    BY <1>2 DEF Words
  <2> HIDE DEF Names
  <2>3. /\ <<".github", "workflows", "**">> \in Words /\ <<".github", "actions", "**">> \in Words
        /\ <<".git", "**">> \in Words /\ <<"CODEOWNERS">> \in Words
        /\ <<".github", "CODEOWNERS">> \in Words /\ <<"docs", "CODEOWNERS">> \in Words
        /\ <<".gitattributes">> \in Words /\ <<"**", ".npmrc">> \in Words
        /\ <<"**", ".pypirc">> \in Words /\ <<".bot", "**">> \in Words
    BY <2>1, <2>2
  <2> QED
    BY <2>3, Zenon DEF defaultDeniedPaths
<1> QED
  BY <1>1, <1>3 DEF Denied

\* No denied file that the gate sees under its own name is in a clean upgrade pull request.
THEOREM DeniedFilesStayOut == DeliverySpec => []DeniedPathsStayOut
<1>1. DeliveryInv => DeniedPathsStayOut
  <2> SUFFICES ASSUME DeliveryInv, CleanUpgrade, stage \in {"open", "opened"},
                      NEW p \in Changed(pushed), NEW pat \in Denied,
                      ~Bookkeeping(p), p \notin Disguised, Supported(pat)
               PROVE  ~GlobMeans(pat, p)
    BY DEF DeniedPathsStayOut
  <2>1. p \in Paths /\ pushed[p] # 0
    BY DEF Changed
  <2>2. p \in Changed(tree.work)
    BY <2>1, PushedFiles DEF Changed
  <2>3. ~globMatch(pat, p)
    BY <2>2 DEF DeliveryInv, DeliveryStands, GateHolds
  <2>4. pat \in Words /\ p \in Words
    BY <2>1, DeniedAreWords, StringsAreNames, SessionAssumption
  <2> QED
    BY <2>3, <2>4, SupportedPatternsMatch
<1> QED
  BY <1>1, DeliveryInvariant, PTL
=============================================================================
