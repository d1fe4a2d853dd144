---------------------------- MODULE MC_Delivery ----------------------------
(* One finding, nine files, and worktrees that differ in every respect the *)
(* harness, the verifier, the diff gate and the push look at.              *)
EXTENDS Delivery

MCVulns == {"cve"}

GoMod == <<"go.mod">>
Npmrc == <<"web", ".npmrc">>
Flow == <<".github", "workflows", "ci.yml">>
Key == <<"deploy", "id.key">>
Report == <<".bothos", "verdict.json">>
Parked == <<".github", "parked", "ci.yml">>
Top == <<"ci.yml">>
Readme == <<"deploy", "README">>
Odd == <<".github", "workflows", "odd.yml">>
MCPaths == {GoMod, Npmrc, Flow, Key, Report, Parked, Top, Readme, Odd}
MCDenied == {<<"**", "*.key">>, <<"deploy", "*.key">>}
MCWild == {<<"*.key", "id.key">>, <<"*.key", "{id.key">>}
MCBinary == {Key}

\* odd.yml has a letter that git escapes.
MCQuoted == {Odd}
MCField == [p \in MCPaths |-> IF p = Odd THEN <<"\".github", "workflows", "odd.yml\"">> ELSE p]
MCBraced == "workflows" :> "{workflows" @@ "id.key" :> "{id.key"

With(files, p, n) == [files EXCEPT ![p] = n]
Edited(n) == With(Untouched, GoMod, n)
Claim(status, claims) == [status |-> status, claims |-> claims]
Holding(t, files) == [t EXCEPT !.head = files, !.work = files]
Committed == [Holding(Fresh, Edited(1)) EXCEPT !.commits = TRUE, !.named = TRUE]
Done == [Committed EXCEPT !.verdict = Claim("done", MCVulns), !.present = {}]

\* An invalid report beside an untracked file, on a branch of another name; blocked with
\* commits, and without them beside a review.  (An agent may also leave all as it was.)
Unfinished ==
    {[Committed EXCEPT !.verdict = Claim("invalid", {}), !.stray = TRUE, !.named = FALSE],
     [Committed EXCEPT !.verdict = Claim("blocked", {})],
     [Fresh EXCEPT !.verdict = Claim("blocked", {}), !.review = TRUE]}

\* A claimed fix that is there; one that is not, in too many lines; failing tests and too
\* many files, two of them denied; a denied file committed and taken back in the worktree
\* only; a report that was committed; a denied file.
Finished ==
    {Done, [Holding(Done, Edited(9)) EXCEPT !.present = MCVulns],
     [Holding(Done, With(With(Edited(1), Key, 9), Flow, 1)) EXCEPT !.failing = TRUE],
     [Done EXCEPT !.head = With(@, Flow, 1), !.work = Edited(2)],
     Holding(Done, With(Edited(1), Report, 1)), Holding(Done, With(Edited(1), Npmrc, 1))}

\* A denied file moved to the directory beside its own, out of all directories, and under
\* another name; one whose name is quoted.
Moved(from, to, lines) ==
    [Holding(Done, With(With(Untouched, from, 3), to, 3)) EXCEPT
        !.renamed = {[from |-> from, to |-> to, lines |-> lines]}]
Renamed ==
    {Moved(Flow, Parked, 0), Moved(Flow, Top, 1), Moved(Key, Readme, 0),
     Holding(Done, With(Edited(1), Odd, 1))}

MCTrees == Unfinished \cup Finished \cup Renamed
MCCommittedReport == {Holding(Done, With(Edited(1), Report, 1))}
=============================================================================
