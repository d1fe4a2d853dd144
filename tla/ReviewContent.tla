---------------------------- MODULE ReviewContent ----------------------------
(***************************************************************************)
(* What a review says and where it says it: the sandbox of a review run    *)
(* (cmd/worker), the deterministic checks on the pull request's diff       *)
(* (internal/review), the merge of their findings with the model's remarks *)
(* (ReviewPipeline.Run), and the posting of the remarks one by one.        *)
(*                                                                         *)
(* Paths, packages and advisories are numbers in the order of their names; *)
(* a diff is the list of its files and hunks, which Render prints line by  *)
(* line as `git diff --unified=0` does and parseDiff reads back.  How the  *)
(* summary comment gets there is in ReviewSummary.                         *)
(***************************************************************************)
EXTENDS Integers, SequencesExt, FiniteSets

CONSTANTS Diffs,       \* diffs of the pull request as it was granted
          Newer,       \* its diff after the author has pushed again
          Reviews,     \* comment lists the model may write
          Paths, DeniedFiles, Manifests, Lockfiles, Configs,
          Packages, Advisories,
          MaxComments  \* of the grant

NoPath == 0      \* the empty string
SomePath == 100  \* what an added text of the form "++ b/..." names

Texts == {"plain", "secret", "http", "plus", "header"}
\* git numbers lines from 1; a hunk whose header names line 0 adds nothing.
Hunk == {h \in [start: Nat, dels: Nat, oldNoEol: BOOLEAN, adds: Seq(Texts), newNoEol: BOOLEAN] :
            h.adds # <<>> => h.start > 0}
File == [path: Paths, quoted: BOOLEAN, deleted: BOOLEAN, hunks: Seq(Hunk)]
Versions == [Packages -> Nat]    \* 0: the package is not listed
Manifest == [old: Versions, new: Versions, broken: BOOLEAN]
Diff == [files: Seq(File), deps: [Manifests -> Manifest],
         base: SUBSET Advisories, head: SUBSET Advisories]
Remark == [path: Nat, line: Int, verified: BOOLEAN, evidence: BOOLEAN, origin: Nat]

ASSUME ContentAssumption ==
    /\ Paths \subseteq Nat \ {NoPath, SomePath}
    /\ DeniedFiles \subseteq Paths /\ Configs \subseteq Paths
    /\ Manifests \subseteq Paths /\ Lockfiles \subseteq Paths \ Manifests
    /\ Packages \subseteq Nat \ {0} /\ Advisories \subseteq Nat \ {0}
    /\ Diffs \subseteq Diff /\ Newer \in Diff
    /\ \A r \in Reviews : r \in Seq(Remark)
    /\ MaxComments \in Nat
\* git lists a file once.
ASSUME FilesAssumption ==
    \A d \in Diffs : \A i, j \in DOMAIN d.files : d.files[i].path = d.files[j].path => i = j
\* A manifest changes finitely many versions, a scan reports finitely many advisories.
ASSUME ListsAssumption ==
    \A d \in Diffs :
        /\ IsFiniteSet(d.head)
        /\ \A p \in Manifests : IsFiniteSet({k \in Packages : d.deps[p].old[k] # d.deps[p].new[k]})

VARIABLES diff,      \* the granted diff
          moved,     \* the author has pushed since
          fetched,   \* the sandbox holds the granted head, or the newer one
          pc,
          lines,     \* of the diff, not parsed yet
          parsed,    \* parseDiff's files and newLine
          findings,  \* of the deterministic checks, in order
          model,     \* the model's remarks, validated
          comments,  \* the merged review
          next,      \* remarks dealt with inline
          posted     \* indices of the remarks GitHub accepted

parsing == <<lines, parsed>>
vars == <<diff, moved, fetched, pc, lines, parsed, findings, model, comments, next, posted>>

-----------------------------------------------------------------------------
(* git diff --unified=0 refs/bothos/base..HEAD *)

Line(t, n) == [t |-> t, n |-> n]

\* A text that starts with "++" prints as "+++..."; "++ b/x" as a file header.
Added(text) ==
    CASE text = "plus" -> [t |-> "other", n |-> 0]
      [] text = "header" -> [t |-> "path", n |-> SomePath]
      [] OTHER -> [t |-> text, n |-> 0]

\* The marker "\ No newline at end of file" follows the line it is about.
Marker(noEol) == IF noEol THEN <<Line("other", 0)>> ELSE <<>>

RenderHunk(h) ==
    <<Line("hunk", h.start)>> \o [i \in 1..h.dels |-> Line("del", 0)] \o Marker(h.oldNoEol)
        \o [i \in 1..Len(h.adds) |-> Added(h.adds[i])] \o Marker(h.newNoEol)

\* A quoted name has no " b/"; a deleted file's new name is /dev/null; a file without
\* hunks (binary, mode change) has no header lines but the first.
RenderFile(f) ==
    <<Line("file", IF f.quoted THEN NoPath ELSE f.path), Line("other", 0)>>
        \o (IF f.hunks = <<>> THEN <<>>
            ELSE <<Line("del", 0), IF f.quoted \/ f.deleted THEN Line("other", 0)
                                   ELSE Line("path", f.path)>>)
        \o FlattenSeq([i \in 1..Len(f.hunks) |-> RenderHunk(f.hunks[i])])

Render(d) == FlattenSeq([i \in 1..Len(d.files) |-> RenderFile(d.files[i])])

-----------------------------------------------------------------------------
(* internal/review *)

\* Variant: a deleted line advances the number too.
AdvancesOnDelete(t) == t \in {"del", "other"}

\* Lines that are neither added nor deleted count as lines of the head.
Advances(t) == t = "other"

\* One turn of the loop of parseDiff, once there is a current file.
parseInFile(s, l) ==
    LET last == Len(s.files) IN
    CASE l.t = "path" -> [s EXCEPT !.files[last].path = l.n]
      [] l.t = "hunk" -> [s EXCEPT !.newLine = l.n]
      [] l.t \in {"plain", "secret", "http"} ->
            [s EXCEPT !.files[last].added = Append(@, [line |-> s.newLine, text |-> l.t]),
                      !.newLine = @ + 1]
      [] OTHER -> [s EXCEPT !.newLine = IF Advances(l.t) /\ @ > 0 THEN @ + 1 ELSE @]

parseLine(s, l) ==
    IF l.t = "file" THEN [files |-> Append(s.files, [path |-> l.n, added |-> <<>>]), newLine |-> 0]
    ELSE IF s.files = <<>> THEN s
    ELSE parseInFile(s, l)

NothingParsed == [files |-> <<>>, newLine |-> 0]

\* The loop's state after each of its lines, and what it returns.
After(ls) ==
    LET after[k \in 0..Len(ls)] == IF k = 0 THEN NothingParsed ELSE parseLine(after[k - 1], ls[k])
    IN  after
Parsed(ls) == After(ls)[Len(ls)]

Finding(rule, path, line, detail) ==
    [rule |-> rule, path |-> path, line |-> line, detail |-> detail]

\* Variant: a file without added lines has no line.
firstLineOrZero(f) == IF f.added = <<>> THEN 0 ELSE f.added[1].line

firstLine(f) == IF f.added = <<>> THEN 1 ELSE f.added[1].line

deniedPathFindings(fs) ==
    {Finding("denied_path", f.path, firstLine(f), 0) : f \in {g \in fs : g.path \in DeniedFiles}}

Leaks(text, path) == text = "secret" \/ (text = "http" /\ path \in Configs)

secretFindings(fs) ==
    UNION {{Finding("secret", f.path, a.line, IF a.text = "http" THEN 1 ELSE 2) :
               a \in {b \in Range(f.added) : Leaks(b.text, f.path)}} : f \in fs}

dependencyDetails(m) == {k \in Packages : m.old[k] # m.new[k]}

\* Sorted manifests before sorted lockfiles; the first one carries what has no line.
FirstInput(fs) ==
    LET manifests == {f.path : f \in fs} \cap Manifests
        lockfiles == {f.path : f \in fs} \cap Lockfiles
        least(S) == CHOOSE p \in S : \A q \in S : p <= q
    IN  IF manifests # {} THEN least(manifests) ELSE least(lockfiles)

HasInputs(fs) == \E f \in fs : f.path \in Manifests \cup Lockfiles

dependencyDeltaFindings(d, fs) ==
    LET manifests == {f \in fs : f.path \in Manifests}
    IN  IF manifests = {}
        THEN {Finding("lockfile_only", f.path, firstLine(f), 0) :
                 f \in {g \in fs : HasInputs(fs) /\ g.path = FirstInput(fs)}}
        ELSE UNION {{Finding("dependency_delta", f.path, firstLine(f), k) :
                        k \in dependencyDetails(d.deps[f.path])} : f \in manifests}

osvDeltaFindings(d, fs) ==
    IF HasInputs(fs) THEN {Finding("osv_delta", FirstInput(fs), 1, a) : a \in d.head \ d.base}
    ELSE {}

Rank == [denied_path |-> 1, dependency_delta |-> 2, lockfile_only |-> 3, osv_delta |-> 4,
         secret |-> 5]

\* By rule, path, line and detail.
Before(f, g) ==
    \/ Rank[f.rule] < Rank[g.rule]
    \/ /\ f.rule = g.rule
       /\ \/ f.path < g.path
          \/ f.path = g.path /\ f.line < g.line
          \/ f.path = g.path /\ f.line = g.line /\ f.detail < g.detail

Sorted(S) ==
    [i \in 1..Cardinality(S) |-> CHOOSE f \in S : Cardinality({g \in S : Before(g, f)}) = i - 1]

\* All fails on a file without a path and on a manifest it cannot parse.
Unreadable(d, fs) ==
    \/ \E f \in fs : f.path = NoPath
    \/ \E f \in fs : f.path \in Manifests /\ d.deps[f.path].broken

All(d, fs) ==
    Sorted(deniedPathFindings(fs) \cup secretFindings(fs)
             \cup dependencyDeltaFindings(d, fs) \cup osvDeltaFindings(d, fs))

-----------------------------------------------------------------------------
(* ReviewPipeline.Run from the sandbox on *)

TypeOK ==
    /\ diff \in Diffs /\ moved \in BOOLEAN /\ fetched \in {"none", "granted", "newer"}
    /\ pc \in {"sandbox", "load", "parse", "agent", "merge", "execute", "inline", "summary",
               "succeeded", "failed"}
    /\ parsed.newLine \in Nat /\ \A f \in Range(parsed.files) : f.path \in Nat
    /\ \A f \in Range(findings) : f.rule \in DOMAIN Rank /\ f.path \in Nat /\ f.line \in Nat \ {0}
    /\ model \in Seq(Remark) /\ comments \in Seq(Remark)
    /\ next \in 0..Len(comments) /\ posted \subseteq 1..next

Init ==
    /\ diff \in Diffs /\ moved = FALSE /\ fetched = "none"
    /\ pc = "sandbox"
    /\ lines = <<>> /\ parsed = NothingParsed
    /\ findings = <<>> /\ model = <<>> /\ comments = <<>>
    /\ next = 0 /\ posted = {}

\* The author pushes while the run is queued or in progress.
Push ==
    /\ ~moved /\ moved' = TRUE
    /\ UNCHANGED <<diff, parsing, fetched, pc, findings, model, comments, next, posted>>

\* git, a scanner, the agent, the grant's expiry or GitHub fails the step in hand.
Fail ==
    /\ pc \notin {"succeeded", "failed"}
    /\ pc' = "failed"
    /\ UNCHANGED <<diff, parsing, moved, fetched, findings, model, comments, next, posted>>

\* Variant: whatever the pull request's head is by now gets reviewed.
SandboxUnchecked ==
    /\ pc = "sandbox"
    /\ fetched' = IF moved THEN "newer" ELSE "granted"
    /\ pc' = "load"
    /\ UNCHANGED <<diff, parsing, moved, findings, model, comments, next, posted>>

\* The head is fetched by the number of the pull request and must be the granted one.
Sandbox ==
    /\ pc = "sandbox"
    /\ fetched' = IF moved THEN "newer" ELSE "granted"
    /\ pc' = IF fetched' = "granted" THEN "load" ELSE "failed"
    /\ UNCHANGED <<diff, parsing, moved, findings, model, comments, next, posted>>

Fetched == IF fetched = "granted" THEN diff ELSE Newer

loadDiff ==
    /\ pc = "load"
    /\ lines' = Render(Fetched) /\ parsed' = NothingParsed
    /\ pc' = "parse"
    /\ UNCHANGED <<diff, moved, fetched, findings, model, comments, next, posted>>

parseDiff ==
    /\ pc = "parse" /\ lines # <<>>
    /\ parsed' = parseLine(parsed, Head(lines)) /\ lines' = Tail(lines)
    /\ UNCHANGED <<diff, moved, fetched, pc, findings, model, comments, next, posted>>

Checks ==
    /\ pc = "parse" /\ lines = <<>>
    /\ LET fs == Range(parsed.files)
       IN \/ Unreadable(Fetched, fs) /\ pc' = "failed" /\ UNCHANGED findings
          \/ ~Unreadable(Fetched, fs) /\ pc' = "agent" /\ findings' = All(Fetched, fs)
    /\ UNCHANGED <<diff, moved, fetched, lines, parsed, model, comments, next, posted>>

\* intent.Validate on a review: the number of comments, their lines, and evidence
\* for what claims to be verified.
Validate(rs) ==
    /\ Len(rs) <= MaxComments
    /\ \A i \in 1..Len(rs) : rs[i].line >= 1 /\ (rs[i].verified => rs[i].evidence)

\* One review of a clean worktree at the granted head; anything else fails the run.
Agent ==
    /\ pc = "agent"
    /\ \E r \in Reviews :
          \/ Validate(r) /\ model' = r /\ pc' = "merge"
          \/ ~Validate(r) /\ pc' = "failed" /\ UNCHANGED model
    /\ UNCHANGED <<diff, parsing, moved, fetched, findings, comments, next, posted>>

\* The model's remarks are opinions, whatever they say of themselves.
AsOpinion(r) == [r EXCEPT !.verified = FALSE, !.evidence = FALSE]

AsRemark(i) ==
    [path |-> findings[i].path, line |-> findings[i].line, verified |-> TRUE, evidence |-> TRUE,
     origin |-> i]

\* Variant: opinions come first.
MergedOpinionsFirst ==
    [i \in 1..Len(model) |-> AsOpinion(model[i])] \o [i \in 1..Len(findings) |-> AsRemark(i)]

Merged ==
    [i \in 1..Len(findings) |-> AsRemark(i)] \o [i \in 1..Len(model) |-> AsOpinion(model[i])]

\* Variant: nothing is cut off.
Untruncated(rs) == rs

Truncated(rs) == IF Len(rs) > MaxComments THEN SubSeq(rs, 1, MaxComments) ELSE rs

Merge ==
    /\ pc = "merge"
    /\ comments' = Truncated(Merged)
    /\ pc' = "execute"
    /\ UNCHANGED <<diff, parsing, moved, fetched, findings, model, next, posted>>

\* Execute validates what the pipeline merged as if an agent had written it.
Execute ==
    /\ pc = "execute"
    /\ pc' = IF Validate(comments) THEN "inline" ELSE "failed"
    /\ UNCHANGED <<diff, parsing, moved, fetched, findings, model, comments, next, posted>>

\* One remark: nothing to anchor, accepted, or outside the diff (422).
PostInline ==
    /\ pc = "inline" /\ next < Len(comments)
    /\ next' = next + 1
    /\ \/ comments[next + 1].path # NoPath /\ posted' = posted \cup {next + 1}
       \/ UNCHANGED posted
    /\ UNCHANGED <<diff, parsing, moved, fetched, pc, findings, model, comments>>

InlineDone ==
    /\ pc = "inline" /\ next = Len(comments)
    /\ pc' = "summary"
    /\ UNCHANGED <<diff, parsing, moved, fetched, findings, model, comments, next, posted>>

Summarise ==
    /\ pc = "summary"
    /\ pc' = "succeeded"
    /\ UNCHANGED <<diff, parsing, moved, fetched, findings, model, comments, next, posted>>

Pipeline ==
    \/ Sandbox \/ loadDiff \/ parseDiff \/ Checks \/ Agent
    \/ Merge \/ Execute \/ PostInline \/ InlineDone \/ Summarise

Next == Pipeline \/ Fail \/ Push

\* Nothing is assumed of git, the scanner and GitHub: the handler awaits them without a
\* deadline.
Spec == Init /\ [][Next]_vars

-----------------------------------------------------------------------------
(* Properties *)

\* The second validation, in the executor, never turns down what the pipeline made
\* of findings and opinions that passed the first: no diff, however odd its hunks,
\* yields a finding that would sink the review of its pull request.
MergedReviewIsAccepted == pc = "execute" => Validate(comments)

\* "[verified]" is the harness's word: every remark posted under it is a finding of
\* the deterministic checks on the commit that was granted, although the author may
\* push at any time and the model may claim what it likes.
VerifiedIsFoundInGrantedCommit ==
    \A i \in posted : comments[i].verified =>
        LET granted == All(diff, Range(Parsed(Render(diff)).files))
            k == comments[i].origin
        IN  /\ k \in 1..Len(granted)
            /\ comments[i].path = granted[k].path /\ comments[i].line = granted[k].line

\* The comment limit never costs a finding its place to an opinion.
FindingsOutrankOpinions ==
    pc = "execute" /\ (\E i \in 1..Len(comments) : ~comments[i].verified) =>
        \A k \in 1..Len(findings) : \E i \in 1..Len(comments) : comments[i].origin = k

\* Where the added lines of a file really are: a hunk's first added line is at the
\* line its header names.
Places(f) ==
    UNION {{[line |-> h.start + i - 1, text |-> h.adds[i]] : i \in 1..Len(h.adds)} :
           h \in Range(f.hunks)}

SecretPlaces(d, files(_)) ==
    UNION {{<<f.path, a.line>> : a \in {b \in Places(f) : Leaks(b.text, f.path)}} :
           f \in {g \in Range(d.files) : files(g)}}

SecretRemarks(fs, paths) ==
    {<<f.path, f.line>> : f \in {g \in Range(fs) : g.rule = "secret" /\ g.path \in paths}}

\* No added text that starts with "++".
PlainTexts(f) ==
    \A h \in Range(f.hunks) : \A i \in 1..Len(h.adds) : h.adds[i] \notin {"plus", "header"}

\* No hunk deletes a last line that had no newline.
WholeLines(f) == \A h \in Range(f.hunks) : ~h.oldNoEol

Checked == pc \in {"agent", "merge", "execute", "inline", "summary", "succeeded"}

FoundInPlace(ordinary(_)) ==
    Checked /\ fetched = "granted" =>
        SecretRemarks(findings, {f.path : f \in {g \in Range(diff.files) : ordinary(g)}})
            = SecretPlaces(diff, ordinary)

\* The secret findings are the lines that leak, each under its own line number in the
\* head, over any mix of files and hunks: none is missed, moved or made up.  (Files
\* with an added text that looks like a diff header, or with a hunk that deletes a
\* last line without newline, are left out.)
SecretsAreFoundInPlace == FoundInPlace(LAMBDA f : PlainTexts(f) /\ WholeLines(f))

\* The same of hunks that delete a last line without newline: "Deleted lines do not
\* advance the head line number."
DeletedLinesDoNotAdvance == FoundInPlace(PlainTexts)
=============================================================================
