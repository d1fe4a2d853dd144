----------------------------- MODULE ScanLedger -----------------------------
(***************************************************************************)
(* The scan job (cmd/scan, internal/scanjob, scan.Run with osv-scanner)    *)
(* and the findings table it shares with every other scan of the same      *)
(* repository.  Each scan is a process of its own: it records a run,       *)
(* clones, scans, upserts, sets the run's status and lists the candidates; *)
(* any call may fail, a ledger call also after it took effect, and the     *)
(* process may die anywhere.  The clone is old by the time it is stored.   *)
(*                                                                         *)
(* One repository and one scanner, so a row's key is package and advisory. *)
(* 0 is the empty string.                                                  *)
(***************************************************************************)
EXTENDS Integers, SequencesExt

CONSTANTS Scans, Packages, Advisories, Versions,
          Reports,     \* what osv-scanner may report of the default branch
          MaxFaults    \* failing calls per scan

Empty == 0
Optional == Versions \cup {Empty}

\* What there is to scan, its packages with their advisories (osvRoot): the events of all
\* ranges in order, of which only "fixed" matters.  The advisory's other text is left out.
Vulnerability == [id: Advisories, fixed: Seq(Optional)]
Report == Seq([name: Packages, version: Versions, vulns: Seq(Vulnerability)])

Finding == [package: Packages, advisory: Advisories, current: Versions, target: Optional]
Keys == Packages \X Advisories
NoRow == [run |-> Empty]
Row == [run: Scans, finding: Finding]
NotListed == {NoRow}

ASSUME ScanAssumption ==
    /\ Empty \notin Scans /\ Versions \subseteq Nat \ {Empty}
    /\ Reports \subseteq Report
    \* An advisory is one document: in whatever lockfile a package is found, its events are the same.
    /\ \A report \in Reports : \A p, q \in Range(report) : \A v \in Range(p.vulns), w \in Range(q.vulns) :
          p.name = q.name /\ v.id = w.id => v.fixed = w.fixed
    /\ MaxFaults \in Nat

VARIABLES repo,      \* what a scanner would report of the default branch now
          runs,      \* status of each scan's row in runs
          findings,  \* the findings table
          pc,
          clone,     \* what the scan cloned
          found,     \* what it parsed out of the scanner's output
          listed,    \* the candidates it printed
          faults,    \* failing calls it met
          upserts    \* scans in the order of their upserts

process == <<pc, clone, found, listed, faults>>
vars == <<repo, runs, findings, pc, clone, found, listed, faults, upserts>>

\* Type correctness; a candidate has a version to upgrade to.
TypeOK ==
    /\ repo \in Reports
    /\ runs \in [Scans -> {"none", "running", "succeeded", "failed"}]
    /\ findings \in [Keys -> Row \cup {NoRow}]
    /\ pc \in [Scans -> {"start", "clone", "scan", "upsert", "fail", "succeed", "list",
                         "done", "fatal", "dead"}]
    /\ clone \in [Scans -> Reports]
    /\ found \in [Scans -> Seq(Finding)]
    /\ listed \in [Scans -> (SUBSET {f \in Finding : f.target # Empty}) \cup {NotListed}]
    /\ faults \in [Scans -> 0..MaxFaults]
    /\ upserts \in Seq(Scans)

Init ==
    /\ repo \in Reports
    /\ runs = [s \in Scans |-> "none"]
    /\ findings = [k \in Keys |-> NoRow]
    /\ pc = [s \in Scans |-> "start"]
    /\ clone = [s \in Scans |-> repo]
    /\ found = [s \in Scans |-> <<>>]
    /\ listed = [s \in Scans |-> NotListed]
    /\ faults = [s \in Scans |-> 0]
    /\ upserts = <<>>

-----------------------------------------------------------------------------
(* osv-scanner and its parser *)

\* osv-scanner's exit code when nothing went wrong: 128 is a repository without a
\* package, one with packages exits with 1 if there is an advisory for one of them.
ExitCode(report) ==
    IF report = <<>> THEN 128
    ELSE IF \E i \in DOMAIN report : report[i].vulns # <<>> THEN 1 ELSE 0

exitOK(code) == code \in {0, 1}

\* Variant: the first fix.
fixedVersionFirst(events) ==
    LET fixed == {i \in DOMAIN events : events[i] # Empty}
    IN  IF fixed = {} THEN Empty ELSE events[Min(fixed)]

fixedVersionFromRanges(events) ==
    LET fixed == {i \in DOMAIN events : events[i] # Empty}
    IN  IF fixed = {} THEN Empty ELSE events[Max(fixed)]

ParseOSV(report) ==
    FlattenSeq([i \in DOMAIN report |->
        [j \in DOMAIN report[i].vulns |->
            [package |-> report[i].name, advisory |-> report[i].vulns[j].id,
             current |-> report[i].version,
             target |-> fixedVersionFromRanges(report[i].vulns[j].fixed)]]])

-----------------------------------------------------------------------------
(* the findings table *)

Key(f) == <<f.package, f.advisory>>

\* One batch, one implicit transaction: of two findings with one key the last stays.
LastOf(fs, k) == fs[CHOOSE i \in DOMAIN fs :
                       Key(fs[i]) = k /\ \A j \in DOMAIN fs : Key(fs[j]) = k => j <= i]

\* Variant: the update of an existing row forgets current_version.
UpsertFindingsKeepVersion(s, fs) ==
    [k \in Keys |->
        IF k \in {Key(fs[i]) : i \in DOMAIN fs}
        THEN [run |-> s,
              finding |-> [LastOf(fs, k) EXCEPT !.current =
                              IF findings[k] = NoRow THEN @ ELSE findings[k].finding.current]]
        ELSE findings[k]]

UpsertFindings(s, fs) ==
    [k \in Keys |->
        IF k \in {Key(fs[i]) : i \in DOMAIN fs}
        THEN [run |-> s, finding |-> LastOf(fs, k)]
        ELSE findings[k]]

StoredFindings == {findings[k].finding : k \in {q \in Keys : findings[q] # NoRow}}

\* Variant: without the condition on target_version.
AnyCandidates == StoredFindings

ActionableCandidates == {f \in StoredFindings : f.target # Empty}

-----------------------------------------------------------------------------
(* one scan process *)

At(s, from, to) == pc[s] = from /\ pc' = [pc EXCEPT ![s] = to]
Fault(s) == faults[s] < MaxFaults /\ faults' = [faults EXCEPT ![s] = @ + 1]
NoFault == UNCHANGED faults
Status(s, status) == runs' = [runs EXCEPT ![s] = status]

InsertRun(s) ==
    /\ \/ At(s, "start", "clone") /\ Status(s, "running") /\ NoFault
       \/ /\ At(s, "start", "fatal") /\ Fault(s)
          /\ Status(s, "running") \/ UNCHANGED runs
    /\ UNCHANGED <<repo, findings, clone, found, listed, upserts>>

ShallowClone(s) ==
    /\ \/ At(s, "clone", "scan") /\ clone' = [clone EXCEPT ![s] = repo] /\ NoFault
       \/ At(s, "clone", "fail") /\ Fault(s) /\ UNCHANGED clone
    /\ UNCHANGED <<repo, runs, findings, found, listed, upserts>>

\* The tool runs, exits with a code and its output is parsed.  An exit code that is not
\* OK fails the scan, that of a repository with nothing to scan included; the fault is a
\* tool that does not run or breaks down.
RunTools(s) ==
    /\ \/ /\ exitOK(ExitCode(clone[s]))
          /\ At(s, "scan", "upsert") /\ NoFault
          /\ found' = [found EXCEPT ![s] = ParseOSV(clone[s])]
       \/ /\ ~exitOK(ExitCode(clone[s]))
          /\ At(s, "scan", "fail") /\ NoFault /\ UNCHANGED found
       \/ At(s, "scan", "fail") /\ Fault(s) /\ UNCHANGED found
    /\ UNCHANGED <<repo, runs, findings, clone, listed, upserts>>

Stored(s) ==
    /\ findings' = UpsertFindings(s, found[s])
    /\ upserts' = Append(upserts, s)

\* Without findings there is no call that could fail.
UpsertSkipped(s) ==
    /\ found[s] = <<>>
    /\ At(s, "upsert", "succeed")
    /\ UNCHANGED <<repo, runs, findings, clone, found, listed, faults, upserts>>

Upsert(s) ==
    /\ found[s] # <<>>
    /\ At(s, "upsert", "succeed") /\ Stored(s)
    /\ UNCHANGED <<repo, runs, clone, found, listed, faults>>

\* Variant: the error is dropped.
UpsertErrorDropped(s) ==
    /\ found[s] # <<>>
    /\ At(s, "upsert", "succeed") /\ Fault(s)
    /\ Stored(s) \/ UNCHANGED <<findings, upserts>>
    /\ UNCHANGED <<repo, runs, clone, found, listed>>

UpsertFails(s) ==
    /\ found[s] # <<>>
    /\ At(s, "upsert", "fail") /\ Fault(s)
    /\ Stored(s) \/ UNCHANGED <<findings, upserts>>
    /\ UNCHANGED <<repo, runs, clone, found, listed>>

\* The error of the status update is ignored.
SetRunFailed(s) ==
    /\ At(s, "fail", "fatal")
    /\ \/ Status(s, "failed") /\ NoFault
       \/ Fault(s) /\ (Status(s, "failed") \/ UNCHANGED runs)
    /\ UNCHANGED <<repo, findings, clone, found, listed, upserts>>

SetRunSucceeded(s) ==
    /\ \/ At(s, "succeed", "list") /\ Status(s, "succeeded") /\ NoFault
       \/ /\ At(s, "succeed", "fatal") /\ Fault(s)
          /\ Status(s, "succeeded") \/ UNCHANGED runs
    /\ UNCHANGED <<repo, findings, clone, found, listed, upserts>>

\* A failing query is logged and that is all.
ListCandidates(s) ==
    /\ At(s, "list", "done")
    /\ \/ listed' = [listed EXCEPT ![s] = ActionableCandidates] /\ NoFault
       \/ UNCHANGED listed /\ Fault(s)
    /\ UNCHANGED <<repo, runs, findings, clone, found, upserts>>

-----------------------------------------------------------------------------
(* around the scans *)

Crash(s) ==
    /\ pc[s] \notin {"start", "done", "fatal", "dead"}
    /\ pc' = [pc EXCEPT ![s] = "dead"]
    /\ UNCHANGED <<repo, runs, findings, clone, found, listed, faults, upserts>>

\* Somebody changes the default branch, or the advisory database changes.
RepoChanges ==
    /\ repo' \in Reports \ {repo}
    /\ UNCHANGED <<runs, findings, process, upserts>>

Next ==
    \/ \E s \in Scans :
        \/ InsertRun(s) \/ ShallowClone(s) \/ RunTools(s)
        \/ UpsertSkipped(s) \/ Upsert(s) \/ UpsertFails(s)
        \/ SetRunFailed(s) \/ SetRunSucceeded(s) \/ ListCandidates(s)
        \/ Crash(s)
    \/ RepoChanges

Spec == Init /\ [][Next]_vars

-----------------------------------------------------------------------------
(* properties *)

\* The version of the last fix among the events, "" if there is none.
IsLastFix(version, events) ==
    \/ version = Empty /\ \A i \in DOMAIN events : events[i] = Empty
    \/ \E i \in DOMAIN events : /\ events[i] = version /\ version # Empty
                               /\ \A j \in DOMAIN events : j > i => events[j] = Empty

\* A finding says of a package and an advisory what the report says of them.
SaysOf(f, report) ==
    \E p \in Range(report) : \E v \in Range(p.vulns) :
        /\ f.package = p.name /\ f.current = p.version /\ f.advisory = v.id
        /\ IsLastFix(f.target, v.fixed)

\* Every row is attributable (scanjob.go's stamp, the run_id of the upsert): the run it names
\* has a row in runs, and the row says what that run saw in its clone, however scans overlap.
RowsAreWhatTheirScanSaw ==
    \A k \in Keys : findings[k] # NoRow =>
        /\ runs[findings[k].run] # "none"
        /\ SaysOf(findings[k].finding, clone[findings[k].run])
        /\ Key(findings[k].finding) = k

\* A scan whose run succeeded is in the table: whatever its clone had is there, from itself or
\* from a scan that stored after it, and a process that ended well has set the status.  A failed
\* upsert or status call never leads there.
SucceededScanIsRecorded ==
    \A s \in Scans :
        /\ pc[s] = "done" => runs[s] = "succeeded"
        /\ runs[s] = "succeeded" =>
            \A p \in Range(clone[s]) : \A v \in Range(p.vulns) :
                LET row == findings[<<p.name, v.id>>]
                IN  /\ row # NoRow
                    /\ row.run = s \/ \E i, j \in DOMAIN upserts :
                                        i < j /\ upserts[i] = s /\ upserts[j] = row.run

\* The list a scan prints names every package with a fix in its clone, with the version of
\* the last one, unless another scan has stored since: neither a range without a fix nor a
\* second lockfile hides it.
FixesAreListed ==
    \A s \in Scans :
        listed[s] # NotListed /\ upserts # <<>> /\ Last(upserts) = s =>
            \A p \in Range(clone[s]) : \A v \in Range(p.vulns) :
                (Range(v.fixed) \ {Empty} # {}) =>
                    \E f \in listed[s] : Key(f) = <<p.name, v.id>> /\ SaysOf(f, clone[s])
=============================================================================
