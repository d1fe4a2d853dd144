------------------------------ MODULE Delivery ------------------------------
(***************************************************************************)
(* What becomes of the worktree an agent session returns: the open_pr path *)
(* of Executor.Execute.  The diff gate reads the worktree                  *)
(* (GitDiff.FromWorktree, intent.ValidateDiff), git push ships the commits *)
(* of the branch, and a pull request is opened for it.                     *)
(*                                                                         *)
(* Composes AgentSession; what Execute does before (grant, idempotency     *)
(* key, credential) and after (the ledger) is in RunLifecycle.             *)
(***************************************************************************)
EXTENDS AgentSession, SequencesExt

CONSTANTS DeniedPaths,  \* patterns of the grant, each a sequence of names
          Wild,         \* pairs of a wildcard and a name path.Match accepts for it
          Binary,       \* files numstat gives no line counts for
          Quoted,       \* files whose name git prints in quotes
          Field,        \* a file's name as numstat prints it, up to the first blank
          Braced,       \* a name with a brace before it
          MaxFiles, MaxDiffLines

ASSUME DeliveryAssumption ==
    /\ DeniedPaths \subseteq Seq(STRING) \ {<<>>} /\ Wild \subseteq STRING \X STRING
    /\ Binary \subseteq Paths /\ MaxFiles \in Nat /\ MaxDiffLines \in Nat
    /\ Quoted \subseteq Paths /\ Field \in [Paths -> Seq(STRING)]
    /\ \A t \in Trees : \A r \in t.renamed : r.from \in Quoted \/ Field[r.from] = r.from

VARIABLES stage,   \* of the delivery
          pushed   \* the files on the remote branch; Untouched when there is none

delivery == <<stage, pushed>>

DeliveryTypeOK ==
    /\ TypeOK
    /\ stage \in {"gate", "push", "open", "failed", "opened"}
    /\ pushed \in Files

DeliveryInit == Init /\ stage = "gate" /\ pushed = Untouched

-----------------------------------------------------------------------------
(* The diff gate *)

\* defaultDeniedPaths applies to every run.
defaultDeniedPaths ==
    {<<".github", "workflows", "**">>, <<".github", "actions", "**">>, <<".git", "**">>,
     <<"CODEOWNERS">>, <<".github", "CODEOWNERS">>, <<"docs", "CODEOWNERS">>,
     <<".gitattributes">>, <<"**", ".npmrc">>, <<"**", ".pypirc">>, <<".bot", "**">>}

Denied == defaultDeniedPaths \cup DeniedPaths

\* path.Match on one name.
NameMatch(pat, name) == pat = name \/ <<pat, name>> \in Wild

\* Variant: the directory itself and nothing below it.
globMatchShallow(pat, p) ==
    Len(p) = Len(pat) /\ \A i \in 1..Len(p) : NameMatch(pat[i], p[i])

\* A trailing /** is a literal prefix, a leading **/ a literal suffix.
globMatch(pat, p) ==
    IF Len(pat) > 1 /\ Last(pat) = "**" THEN IsStrictPrefix(Front(pat), p)
    ELSE IF Len(pat) > 1 /\ Head(pat) = "**" THEN IsSuffix(Tail(pat), p)
    ELSE Len(p) = Len(pat) /\ \A i \in 1..Len(p) : NameMatch(pat[i], p[i])

Changed(files) == {p \in Paths : files[p] # 0}

Renames == {r \in tree.renamed : {r.from, r.to} \subseteq Changed(tree.work)}

\* The third field of a rename's numstat line.  git prints "old => new" if one of the
\* names needs quotes or they share no directory and no last names, and otherwise
\* "shared/{old => new}/shared", of which the field ends behind the old part.
Shown(r) ==
    LET lead == Len(LongestCommonPrefix({Front(r.from), Front(r.to)}))
        Back(p) == Reverse(SubSeq(p, Max({lead, 1}) + 1, Len(p)))
        trail == Len(LongestCommonPrefix({Back(r.from), Back(r.to)}))
        old == SubSeq(r.from, lead + 1, Len(r.from) - trail)
    IN  IF {r.from, r.to} \cap Quoted # {} THEN Field[r.from]
        ELSE IF lead + trail = 0 THEN r.from
        ELSE SubSeq(r.from, 1, lead) \o
             (IF old = <<>> THEN <<"{">> ELSE <<Braced[Head(old)]>> \o Tail(old))

\* git diff --numstat origin/HEAD: the tracked files of the worktree.  A rename is one
\* line; a binary file counts no lines.
FromWorktree ==
    LET others == Changed(tree.work) \ UNION {{r.from, r.to} : r \in Renames}
    IN  [files |-> {Field[p] : p \in others} \cup {Shown(r) : r \in Renames},
         count |-> Cardinality(others) + Cardinality(Renames),
         lines |-> MapThenSumSet(LAMBDA p : tree.work[p], others \ Binary)
                   + MapThenSumSet(LAMBDA r : r.lines, Renames)]

ValidateDiff(d) ==
    /\ d.count # 0
    /\ d.count <= MaxFiles
    /\ d.lines <= MaxDiffLines
    /\ \A f \in d.files, pat \in Denied : ~globMatch(pat, f)

-----------------------------------------------------------------------------
(* The delivery *)

CheckWorktreeDiff ==
    /\ pc = "returned" /\ result \in {"pr", "pr_known_failures"}
    /\ stage = "gate"
    /\ stage' = IF ValidateDiff(FromWorktree) THEN "push" ELSE "failed"
    /\ UNCHANGED pushed

\* git, the context or GitHub fails the step in hand.
DeliveryFails ==
    /\ pc = "returned" /\ result \in {"pr", "pr_known_failures"}
    /\ stage \in {"gate", "push", "open"}
    /\ stage' = "failed"
    /\ UNCHANGED pushed

\* CurrentBranch, BaseBranch and PushBranch; the push may succeed and its answer
\* be lost.
Push ==
    /\ stage = "push"
    /\ \/ ~tree.named /\ stage' = "failed" /\ UNCHANGED pushed
       \/ tree.named /\ stage' \in {"open", "failed"} /\ pushed' = tree.head

OpenPR == stage = "open" /\ stage' = "opened" /\ UNCHANGED pushed

Deliver == CheckWorktreeDiff \/ DeliveryFails \/ Push \/ OpenPR

DeliveryNext ==
    \/ Next /\ UNCHANGED delivery
    \/ Deliver /\ UNCHANGED vars

\* Nothing is assumed of git's and GitHub's answers: they are awaited without a deadline.
DeliverySpec == DeliveryInit /\ [][DeliveryNext]_<<vars, delivery>> /\ Fairness

-----------------------------------------------------------------------------
(* Properties *)

CleanUpgrade == result = "pr" /\ mode = "upgrade" /\ InStep

\* The gate judges the worktree and git push ships the commits.  For an upgrade
\* pull request that claims no failures they are the same files, .bothos/ aside:
\* what was tested, scanned and held against the grant is what goes out.
PushedIsWhatWasChecked ==
    CleanUpgrade /\ stage \in {"open", "opened"} =>
        \A p \in Paths : Bookkeeping(p) \/ pushed[p] = tree.work[p]

\* What ** and the wildcards of a gitignore-style pattern stand for: the path is cut
\* so that a ** takes any number of names (the last one at least one) and everything
\* else takes one.
GlobMeans(pat, p) ==
    \E cut \in [0..Len(pat) -> 0..Len(p)] :
        /\ cut[0] = 0 /\ cut[Len(pat)] = Len(p)
        /\ \A i \in 1..Len(pat) :
              IF pat[i] = "**" THEN cut[i - 1] <= cut[i] /\ (i = Len(pat) => cut[i - 1] < cut[i])
              ELSE cut[i] = cut[i - 1] + 1 /\ NameMatch(pat[i], p[cut[i]])

\* The forms globMatch is documented for: one ** at one end, no wildcard beside it.
Supported(pat) ==
    LET stars == {i \in 1..Len(pat) : pat[i] = "**"}
    IN  stars = {} \/ (/\ stars \in {{1}, {Len(pat)}} /\ Len(pat) > 1
                       /\ \A i \in 1..Len(pat) : ~\E w \in Wild : w[1] = pat[i])

\* Files that the diff gate sees under another name or under none: both ends of a
\* rename, unless the old name stands there in full, and names in quotes or with a blank.
Disguised ==
    {p \in Paths : Field[p] # p} \cup {r.to : r \in Renames}
        \cup {r.from : r \in {q \in Renames : Shown(q) # q.from}}

\* No such pull request changes a file that a denied pattern of a supported form covers,
\* whatever was done to it in the worktree, as long as the gate sees its name.
DeniedPathsStayOut ==
    CleanUpgrade /\ stage \in {"open", "opened"} =>
        \A p \in Changed(pushed) \ Disguised, pat \in Denied :
            Bookkeeping(p) \/ ~Supported(pat) \/ ~GlobMeans(pat, p)

\* Harness bookkeeping never reaches the pull request, the comment above its
\* removal says.
BookkeepingStaysHome == \A p \in Changed(pushed) : ~Bookkeeping(p)
=============================================================================
