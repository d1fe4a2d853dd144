--------------------------- MODULE MC_ScanLedger ---------------------------
(* Two overlapping scans of a repository that changes in between.          *)
EXTENDS ScanLedger

MCPackages == {1, 2}
MCAdvisories == {1, 2}
MCVersions == 1..4

Pkg(name, version, vulns) == [name |-> name, version |-> version, vulns |-> vulns]
Vuln(id, fixed) == [id |-> id, fixed |-> fixed]

\* Nothing to scan; one package with a fix and an open range after it; one package in two
\* lockfiles; vulnerabilities without a fix beside one with; a package without any.
MCReports ==
    {<<>>,
     <<Pkg(1, 1, <<Vuln(1, <<0, 2, 0>>)>>)>>,
     <<Pkg(1, 1, <<Vuln(1, <<0, 2, 0, 4>>)>>), Pkg(1, 3, <<Vuln(1, <<0, 2, 0, 4>>)>>)>>,
     <<Pkg(1, 3, <<Vuln(1, <<0>>), Vuln(2, <<0, 4>>)>>), Pkg(2, 1, <<Vuln(1, <<0>>)>>)>>,
     <<Pkg(2, 2, <<>>)>>}
=============================================================================
