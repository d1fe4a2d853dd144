-------------------------- MODULE MC_ReviewContent --------------------------
(* Every one-hunk change of every kind of file, and a few larger diffs.     *)
EXTENDS ReviewContent

\* Names in order: a workflow, a configuration, go.mod, go.sum, package.json, source.
Workflow == 1
Conf == 2
GoMod == 3
GoSum == 4
PackageJson == 5
Source == 6
MCPaths == 1..6
MCDenied == {Workflow}
MCManifests == {GoMod, PackageJson}
MCLockfiles == {GoSum}
MCConfigs == {Workflow, Conf, PackageJson}
MCPackages == {1, 2}
MCAdvisories == {1, 2}

Steady == [old |-> [k \in MCPackages |-> 1], new |-> [k \in MCPackages |-> 1], broken |-> FALSE]
Bumped == [Steady EXCEPT !.new = [k \in MCPackages |-> IF k = 1 THEN 2 ELSE 0]]
Deps(m) == [p \in MCManifests |-> m]

Change(files, m, introduced) ==
    [files |-> files, deps |-> Deps(m), base |-> {1}, head |-> {1} \cup introduced]
Plain(path, hunks) == [path |-> path, quoted |-> FALSE, deleted |-> FALSE, hunks |-> hunks]
H(start, dels, oldNoEol, adds, newNoEol) ==
    [start |-> start, dels |-> dels, oldNoEol |-> oldNoEol, adds |-> adds, newNoEol |-> newNoEol]

AddLists(n) == UNION {[1..k -> Texts] : k \in 0..n}

\* A marker follows a line there is.
Hunks ==
    {h \in {H(s, d, o, a, e) : s \in {1, 3}, d \in 0..1, o \in BOOLEAN,
                              a \in AddLists(2), e \in BOOLEAN} :
        (h.oldNoEol => h.dels > 0) /\ (h.newNoEol => h.adds # <<>>)}

\* One file of each kind with one hunk of any shape.
Small == {Change(<<Plain(p, <<h>>)>>, Steady, {}) : p \in {Workflow, Source}, h \in Hunks}

Leak == H(2, 1, FALSE, <<"plain", "secret", "http">>, FALSE)
Tail2 == H(7, 2, FALSE, <<"http">>, TRUE)
Gone == H(0, 3, FALSE, <<>>, FALSE)

\* Two hunks, deletions only, a binary file, a quoted name, manifests and lockfiles
\* together and alone, an introduced advisory, a manifest that does not parse.
Large ==
    {Change(<<Plain(Conf, <<Leak, Tail2>>), Plain(Source, <<Leak, Tail2>>)>>, Steady, {}),
     Change(<<[Plain(Workflow, <<Gone>>) EXCEPT !.deleted = TRUE], Plain(Source, <<>>)>>, Steady, {}),
     Change(<<[Plain(Source, <<Leak>>) EXCEPT !.quoted = TRUE]>>, Steady, {}),
     Change(<<Plain(GoMod, <<Leak>>), Plain(GoSum, <<Tail2>>)>>, Bumped, {2}),
     Change(<<Plain(GoSum, <<Tail2>>), Plain(Source, <<Leak>>)>>, Steady, {2}),
     Change(<<Plain(GoMod, <<Tail2>>), Plain(PackageJson, <<Leak, Tail2>>)>>, Bumped, {}),
     Change(<<Plain(PackageJson, <<Tail2>>)>>, [Steady EXCEPT !.broken = TRUE], {})}

MCNewer == Change(<<Plain(Conf, <<H(9, 0, FALSE, <<"secret">>, FALSE)>>)>>, Steady, {})

\* The last line of a file without a final newline is replaced.
NoEol == {Change(<<Plain(Source, <<H(4, 1, TRUE, <<"secret">>, FALSE)>>)>>, Steady, {})}

Says(line, verified, evidence) ==
    [path |-> Source, line |-> line, verified |-> verified, evidence |-> evidence, origin |-> 0]

\* No remark; one that claims to be verified, with and without evidence; one without a
\* line; one that names no file beside a second; one too many.
MCReviews ==
    {<<>>, <<Says(3, TRUE, TRUE)>>, <<Says(3, TRUE, FALSE)>>, <<Says(0, FALSE, FALSE)>>,
     <<[Says(1, FALSE, FALSE) EXCEPT !.path = NoPath], Says(2, FALSE, FALSE)>>,
     [i \in 1..5 |-> Says(1, FALSE, FALSE)]}

MCDiffs == Small \cup Large
=============================================================================
