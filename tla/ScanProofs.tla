----------------------------- MODULE ScanProofs -----------------------------
(***************************************************************************)
(* Theorems about ScanLedger: what the findings table holds, whichever     *)
(* scans overlap, fail or die.                                             *)
(***************************************************************************)
EXTENDS ScanLedger, SequenceFacts

\* What a scan would store of its clone, as a set.
Seen(s) == Range(ParseOSV(clone[s]))

\* The clone is made and the upsert has been tried.
Tried(s) == pc[s] \in {"fail", "succeed", "list", "done", "fatal", "dead"}

\* A scan carries the findings of its own clone, and its run is in the ledger.
Carried ==
    \A s \in Scans :
        /\ pc[s] \in {"clone", "scan", "upsert", "fail", "succeed"} => runs[s] = "running"
        /\ pc[s] \in {"upsert", "succeed"} => found[s] = ParseOSV(clone[s])
        /\ pc[s] \in {"list", "done"} => runs[s] = "succeeded"

\* Who has stored is past its upsert; nobody stores twice.
UpsertedOnce == \A i \in DOMAIN upserts : Tried(upserts[i]) /\ runs[upserts[i]] # "none"

\* A row is one of the findings of the scan it names, which has stored.
RowsAttributed ==
    \A k \in Keys : findings[k] # NoRow =>
        /\ findings[k].run \in Range(upserts)
        /\ findings[k].finding \in Seen(findings[k].run)
        /\ Key(findings[k].finding) = k

\* What the scan saw is there, from itself or from one that stored after it.
Recorded(s) ==
    \A f \in Seen(s) :
        /\ findings[Key(f)] # NoRow
        /\ s \in Range(upserts)
        /\ \/ findings[Key(f)].run = s
           \/ \E i, j \in DOMAIN upserts : i < j /\ upserts[i] = s /\ upserts[j] = findings[Key(f)].run

SucceededRecorded ==
    \A s \in Scans :
        /\ runs[s] = "succeeded" => pc[s] \in {"list", "done", "fatal", "dead"}
        /\ pc[s] = "succeed" \/ runs[s] = "succeeded" => Recorded(s)

\* Nothing has touched what the last upsert stored.
LastStored ==
    upserts # <<>> =>
        \A f \in Seen(Last(upserts)) :
            findings[Key(f)] = [run |-> Last(upserts),
                                finding |-> LastOf(ParseOSV(clone[Last(upserts)]), Key(f))]

\* A scan lists at its end, after its upsert.
ListedIsStored ==
    \A s \in Scans : listed[s] # NotListed =>
        /\ pc[s] = "done"
        /\ upserts # <<>> /\ Last(upserts) = s =>
              \A f \in Seen(s) : LET g == LastOf(ParseOSV(clone[s]), Key(f))
                                 IN  g.target # Empty => g \in listed[s]

ScanInv ==
    /\ TypeOK
    /\ Carried /\ UpsertedOnce /\ RowsAttributed
    /\ SucceededRecorded /\ LastStored /\ ListedIsStored

-----------------------------------------------------------------------------
(* operators *)

\* The version is that of the last fix, and there is one when any event is a fix.
LEMMA FixedVersionIsLastFix ==
    ASSUME ScanAssumption, NEW events \in Seq(Optional)
    PROVE  /\ IsLastFix(fixedVersionFromRanges(events), events)
           /\ fixedVersionFromRanges(events) \in Optional
           /\ (Range(events) \ {Empty} # {}) => fixedVersionFromRanges(events) # Empty
<1> DEFINE fixed == {i \in DOMAIN events : events[i] # Empty}
<1>1. CASE fixed = {}
  BY <1>1 DEF fixedVersionFromRanges, IsLastFix, Range, Optional
<1>2. CASE fixed # {}
  <2>1. fixed \in SUBSET (1..Len(events)) /\ Len(events) \in Nat
    OBVIOUS
  <2>2. \E m \in fixed : \A k \in fixed : k <= m
    BY <1>2, <2>1, LastIndex
  <2>3. \A m, k \in fixed : k <= m <=> m >= k
    OBVIOUS
  <2>4. Max(fixed) \in fixed /\ \A k \in fixed : k <= Max(fixed)
    BY <2>2, <2>3 DEF Max
  <2>5. fixedVersionFromRanges(events) = events[Max(fixed)]
    BY <1>2 DEF fixedVersionFromRanges
  <2>6. \A i \in DOMAIN events : events[i] \in Optional
    OBVIOUS
  <2>7. ASSUME NEW j \in DOMAIN events, j > Max(fixed) PROVE events[j] = Empty
    BY <2>1, <2>4, <2>7
  <2> QED
    BY <2>4, <2>5, <2>6, <2>7 DEF IsLastFix
<1> QED
  BY <1>1, <1>2

\* The finding osv-scanner's j-th vulnerability of the i-th package becomes.
FindingOf(report, i, j) ==
    [package |-> report[i].name, advisory |-> report[i].vulns[j].id,
     current |-> report[i].version, target |-> fixedVersionFromRanges(report[i].vulns[j].fixed)]

LEMMA FindingTyped ==
    ASSUME ScanAssumption, NEW report \in Reports,
           NEW i \in DOMAIN report, NEW j \in DOMAIN report[i].vulns
    PROVE  /\ report[i].vulns[j] \in Vulnerability
           /\ FindingOf(report, i, j) \in Finding
           /\ Key(FindingOf(report, i, j)) = <<report[i].name, report[i].vulns[j].id>>
           /\ <<report[i].name, report[i].vulns[j].id>> \in Keys
<1>1. report \in Report
  BY DEF ScanAssumption
<1>2. report[i] \in [name: Packages, version: Versions, vulns: Seq(Vulnerability)]
  BY <1>1, ElementTyped DEF Report
<1>3. report[i].vulns[j] \in Vulnerability
  BY <1>2
<1>4. fixedVersionFromRanges(report[i].vulns[j].fixed) \in Optional
  BY <1>3, FixedVersionIsLastFix DEF Vulnerability
<1>5. report[i].vulns[j].id \in Advisories
  BY <1>3 DEF Vulnerability
<1> QED
  BY <1>2, <1>3, <1>4, <1>5 DEF FindingOf, Finding, Key, Keys

\* ParseOSV's findings are the reported vulnerabilities, one each.
LEMMA ParsedAreReported ==
    ASSUME ScanAssumption, NEW report \in Reports
    PROVE  /\ ParseOSV(report) \in Seq(Finding)
           /\ \A f : f \in Range(ParseOSV(report)) <=>
                        \E i \in DOMAIN report : \E j \in DOMAIN report[i].vulns : f = FindingOf(report, i, j)
<1> DEFINE ss == [i \in DOMAIN report |-> [j \in DOMAIN report[i].vulns |-> FindingOf(report, i, j)]]
<1>1. report \in Report
  BY DEF ScanAssumption
<1>2. Len(report) \in Nat /\ DOMAIN report = 1..Len(report)
  BY <1>1 DEF Report
<1>3. ASSUME NEW i \in DOMAIN report PROVE ss[i] \in Seq(Finding) /\ DOMAIN ss[i] = DOMAIN report[i].vulns
  <2>1. report[i].vulns \in Seq(Vulnerability)
    <3>1. report[i] \in [name: Packages, version: Versions, vulns: Seq(Vulnerability)]
      BY <1>1, ElementTyped DEF Report
    <3> QED
      BY <3>1
  <2>2. Len(report[i].vulns) \in Nat /\ DOMAIN report[i].vulns = 1..Len(report[i].vulns)
    BY <2>1
  <2>3. \A j \in 1..Len(report[i].vulns) : FindingOf(report, i, j) \in Finding
    BY <2>2, FindingTyped
  <2>4. ss[i] = [j \in 1..Len(report[i].vulns) |-> FindingOf(report, i, j)]
    BY <2>2
  <2> QED
    BY <2>2, <2>3, <2>4
<1>4. ss \in Seq(Seq(Finding)) /\ DOMAIN ss = DOMAIN report
  BY <1>2, <1>3
<1>5. ParseOSV(report) = FlattenSeq(ss)
  BY DEF ParseOSV, FindingOf
<1>6. ASSUME NEW f
      PROVE  (\E i \in DOMAIN ss : f \in Range(ss[i])) <=>
             \E i \in DOMAIN report : \E j \in DOMAIN report[i].vulns : f = FindingOf(report, i, j)
  BY <1>3, <1>4 DEF Range
<1> HIDE DEF ss
<1> QED
  BY <1>4, <1>5, <1>6, FlattenContains

\* The last finding with a key is one of the findings with that key.
LEMMA LastOfIsThere ==
    ASSUME NEW fs \in Seq(Finding), NEW i \in DOMAIN fs
    PROVE  LastOf(fs, Key(fs[i])) \in Range(fs) /\ Key(LastOf(fs, Key(fs[i]))) = Key(fs[i])
<1> DEFINE k == Key(fs[i])
           S == {j \in DOMAIN fs : Key(fs[j]) = k}
           IsLast(m) == Key(fs[m]) = k /\ \A j \in DOMAIN fs : Key(fs[j]) = k => j <= m
<1>1. S \in SUBSET (1..Len(fs)) /\ Len(fs) \in Nat /\ S # {}
  OBVIOUS
<1>2. \E m \in S : \A j \in S : j <= m
  BY <1>1, LastIndex
<1>3. \E m \in DOMAIN fs : IsLast(m)
  BY <1>2
<1>4. LastOf(fs, k) = fs[CHOOSE m \in DOMAIN fs : IsLast(m)]
  BY DEF LastOf
<1>5. (CHOOSE m \in DOMAIN fs : IsLast(m)) \in DOMAIN fs /\ IsLast(CHOOSE m \in DOMAIN fs : IsLast(m))
  BY <1>3
<1> QED
  BY <1>4, <1>5 DEF Range

-----------------------------------------------------------------------------
(* types *)

\* The findings of one scan, keyed: the row its upsert writes is one of them.
LEMMA UpsertWritesItsFindings ==
    ASSUME NEW s \in Scans, NEW fs \in Seq(Finding), NEW k \in Keys
    PROVE  \/ /\ UpsertFindings(s, fs)[k] = [run |-> s, finding |-> LastOf(fs, k)]
              /\ LastOf(fs, k) \in Range(fs) /\ Key(LastOf(fs, k)) = k
              /\ \E i \in DOMAIN fs : Key(fs[i]) = k
           \/ /\ UpsertFindings(s, fs)[k] = findings[k]
              /\ \A i \in DOMAIN fs : Key(fs[i]) # k
<1>1. CASE \E i \in DOMAIN fs : Key(fs[i]) = k
  <2>1. PICK i \in DOMAIN fs : Key(fs[i]) = k
    BY <1>1
  <2>2. k \in {Key(fs[j]) : j \in DOMAIN fs}
    BY <2>1
  <2>3. LastOf(fs, k) \in Range(fs) /\ Key(LastOf(fs, k)) = k
    BY <2>1, LastOfIsThere
  <2>4. UpsertFindings(s, fs)[k] = [run |-> s, finding |-> LastOf(fs, k)]
    BY <2>2 DEF UpsertFindings
  <2> QED
    BY <1>1, <2>3, <2>4
<1>2. CASE \A i \in DOMAIN fs : Key(fs[i]) # k
  <2>1. k \notin {Key(fs[j]) : j \in DOMAIN fs}
    BY <1>2
  <2> QED
    BY <1>2, <2>1 DEF UpsertFindings
<1> QED
  BY <1>1, <1>2

LEMMA SeenTyped ==
    ASSUME ScanAssumption, TypeOK, NEW s \in Scans
    PROVE  /\ Seen(s) \subseteq Finding
           /\ \A f \in Seen(s) : Key(f) \in Keys
<1>1. ParseOSV(clone[s]) \in Seq(Finding)
  BY ParsedAreReported DEF TypeOK
<1>2. Seen(s) \subseteq Finding
  BY <1>1, ElementTyped DEF Seen, Range
<1> QED
  BY <1>2 DEF Finding, Key, Keys

LEMMA StoredTyped ==
    ASSUME TypeOK, NEW s \in Scans, Stored(s)
    PROVE  findings' \in [Keys -> Row \cup {NoRow}] /\ upserts' \in Seq(Scans)
<1>1. found[s] \in Seq(Finding)
  BY DEF TypeOK
<1>2. ASSUME NEW k \in Keys PROVE UpsertFindings(s, found[s])[k] \in Row \cup {NoRow}
  <2>1. CASE UpsertFindings(s, found[s])[k] = findings[k]
    BY <2>1 DEF TypeOK
  <2>2. CASE /\ UpsertFindings(s, found[s])[k] = [run |-> s, finding |-> LastOf(found[s], k)]
             /\ LastOf(found[s], k) \in Range(found[s])
    <3>1. LastOf(found[s], k) \in Finding
      BY <1>1, <2>2, ElementTyped DEF Range
    <3> QED
      BY <2>2, <3>1 DEF Row
  <2> QED
    BY <1>1, <2>1, <2>2, UpsertWritesItsFindings
<1>3. UpsertFindings(s, found[s]) = [k \in Keys |-> UpsertFindings(s, found[s])[k]]
  BY DEF UpsertFindings
<1>4. findings' = UpsertFindings(s, found[s]) /\ upserts' = Append(upserts, s)
  BY DEF Stored
<1>5. UpsertFindings(s, found[s]) \in [Keys -> Row \cup {NoRow}]
  BY <1>2, <1>3
<1> QED
  BY <1>4, <1>5 DEF TypeOK

LEMMA CandidatesTyped ==
    ASSUME TypeOK
    PROVE  ActionableCandidates \subseteq {f \in Finding : f.target # Empty}
<1>1. ASSUME NEW k \in Keys, findings[k] # NoRow PROVE findings[k].finding \in Finding
  BY <1>1 DEF TypeOK, Row
<1> QED
  BY <1>1 DEF ActionableCandidates, StoredFindings

LEMMA FaultsCounted ==
    ASSUME ScanAssumption, TypeOK, NEW s \in Scans, Fault(s) \/ NoFault
    PROVE  faults' \in [Scans -> 0..MaxFaults]
<1>1. MaxFaults \in Nat /\ faults \in [Scans -> 0..MaxFaults]
  BY DEF ScanAssumption, TypeOK
<1>2. CASE Fault(s)
  <2>1. faults[s] \in 0..MaxFaults /\ faults[s] < MaxFaults /\ faults' = [faults EXCEPT ![s] = @ + 1]
    BY <1>1, <1>2 DEF Fault
  <2>2. faults[s] + 1 \in 0..MaxFaults
    BY <1>1, <2>1
  <2> QED
    BY <1>1, <2>1, <2>2
<1>3. CASE NoFault
  BY <1>1, <1>3 DEF NoFault
<1> QED
  BY <1>2, <1>3

LEMMA TypeStep == ScanAssumption /\ TypeOK /\ [Next]_vars => TypeOK'
<1> SUFFICES ASSUME ScanAssumption, TypeOK, [Next]_vars PROVE TypeOK'
  OBVIOUS
<1> USE DEF TypeOK, At, Status
<1>1. ASSUME NEW s \in Scans, InsertRun(s) PROVE TypeOK'
  <2>1. faults' \in [Scans -> 0..MaxFaults]
    BY <1>1, FaultsCounted DEF InsertRun
  <2> QED
    BY <1>1, <2>1 DEF InsertRun
<1>2. ASSUME NEW s \in Scans, ShallowClone(s) PROVE TypeOK'
  <2>1. faults' \in [Scans -> 0..MaxFaults]
    BY <1>2, FaultsCounted DEF ShallowClone
  <2>2. clone' \in [Scans -> Reports]
    BY <1>2 DEF ShallowClone
  <2>3. pc' \in [Scans -> {"start", "clone", "scan", "upsert", "fail", "succeed", "list",
                          "done", "fatal", "dead"}]
    BY <1>2 DEF ShallowClone
  <2> QED
    BY <1>2, <2>1, <2>2, <2>3 DEF ShallowClone
<1>3. ASSUME NEW s \in Scans, RunTools(s) PROVE TypeOK'
  <2>1. ParseOSV(clone[s]) \in Seq(Finding)
    BY ParsedAreReported
  <2>2. faults' \in [Scans -> 0..MaxFaults]
    BY <1>3, FaultsCounted DEF RunTools
  <2> QED
    BY <1>3, <2>1, <2>2 DEF RunTools
<1>4. ASSUME NEW s \in Scans, UpsertSkipped(s) PROVE TypeOK'
  BY <1>4 DEF UpsertSkipped
<1>5. ASSUME NEW s \in Scans, Upsert(s) PROVE TypeOK'
  <2>1. findings' \in [Keys -> Row \cup {NoRow}] /\ upserts' \in Seq(Scans)
    BY <1>5, StoredTyped DEF Upsert
  <2> QED
    BY <1>5, <2>1 DEF Upsert, NoFault
<1>6. ASSUME NEW s \in Scans, UpsertFails(s) PROVE TypeOK'
  <2>1. findings' \in [Keys -> Row \cup {NoRow}] /\ upserts' \in Seq(Scans)
    BY <1>6, StoredTyped DEF UpsertFails
  <2>2. faults' \in [Scans -> 0..MaxFaults]
    BY <1>6, FaultsCounted DEF UpsertFails
  <2> QED
    BY <1>6, <2>1, <2>2 DEF UpsertFails
<1>7. ASSUME NEW s \in Scans, SetRunFailed(s) PROVE TypeOK'
  <2>1. faults' \in [Scans -> 0..MaxFaults]
    BY <1>7, FaultsCounted DEF SetRunFailed
  <2> QED
    BY <1>7, <2>1 DEF SetRunFailed
<1>8. ASSUME NEW s \in Scans, SetRunSucceeded(s) PROVE TypeOK'
  <2>1. faults' \in [Scans -> 0..MaxFaults]
    BY <1>8, FaultsCounted DEF SetRunSucceeded
  <2> QED
    BY <1>8, <2>1 DEF SetRunSucceeded
<1>9. ASSUME NEW s \in Scans, ListCandidates(s) PROVE TypeOK'
  <2>1. faults' \in [Scans -> 0..MaxFaults]
    BY <1>9, FaultsCounted DEF ListCandidates
  <2> QED
    BY <1>9, <2>1, CandidatesTyped DEF ListCandidates
<1>10. ASSUME NEW s \in Scans, Crash(s) PROVE TypeOK'
  BY <1>10 DEF Crash
<1>11. CASE RepoChanges
  BY <1>11 DEF RepoChanges, process
<1>12. CASE UNCHANGED vars
  BY <1>12 DEF vars, process
<1> QED
  BY <1>1, <1>2, <1>3, <1>4, <1>5, <1>6, <1>7, <1>8, <1>9, <1>10, <1>11, <1>12 DEF Next

-----------------------------------------------------------------------------
(* steps that store nothing *)

\* A step that leaves the table and every clone that has been stored alone.
Quiet ==
    /\ UNCHANGED <<findings, upserts>>
    /\ \A t \in Scans : Tried(t) => Tried(t)' /\ clone'[t] = clone[t]
    /\ \A t \in Scans : runs[t] # "none" => runs'[t] # "none"

LEMMA UpserterIsScan ==
    ASSUME TypeOK
    PROVE  /\ \A i \in DOMAIN upserts : upserts[i] \in Scans
           /\ Range(upserts) \subseteq Scans
           /\ upserts # <<>> => Len(upserts) \in DOMAIN upserts /\ Last(upserts) = upserts[Len(upserts)]
<1>1. upserts \in Seq(Scans)
  BY DEF TypeOK
<1>2. \A i \in DOMAIN upserts : upserts[i] \in Scans
  BY <1>1, ElementTyped
<1>3. upserts # <<>> => Len(upserts) \in DOMAIN upserts
  BY <1>1
<1> QED
  BY <1>2, <1>3 DEF Range, Last

LEMMA QuietStep ==
    ASSUME ScanInv, Quiet
    PROVE  UpsertedOnce' /\ RowsAttributed' /\ LastStored'
<1>1. TypeOK /\ UpsertedOnce /\ RowsAttributed /\ LastStored
  BY DEF ScanInv
<1>2. \A t \in Range(upserts) : t \in Scans /\ Tried(t) /\ Tried(t)' /\ clone'[t] = clone[t] /\ runs'[t] # "none"
  <2>1. \A t \in Range(upserts) : t \in Scans /\ Tried(t) /\ runs[t] # "none"
    BY <1>1, UpserterIsScan DEF UpsertedOnce, Range
  <2> QED
    BY <2>1 DEF Quiet
<1>3. \A t \in Range(upserts) : Seen(t)' = Seen(t)
  BY <1>2 DEF Seen
<1>4. upserts' = upserts /\ findings' = findings
  BY DEF Quiet
<1>5. UpsertedOnce'
  BY <1>2, <1>4 DEF UpsertedOnce, Range
<1>6. RowsAttributed'
  BY <1>1, <1>3, <1>4 DEF RowsAttributed
<1>7. LastStored'
  <2>1. CASE upserts = <<>>
    BY <2>1, <1>4 DEF LastStored
  <2>2. CASE upserts # <<>>
    <3>1. Last(upserts) \in Range(upserts) /\ Last(upserts') = Last(upserts)
      BY <2>2, <1>1, <1>4, UpserterIsScan DEF Range
    <3>2. clone'[Last(upserts)] = clone[Last(upserts)] /\ Seen(Last(upserts))' = Seen(Last(upserts))
      BY <3>1, <1>2, <1>4 DEF Seen
    <3> QED
      BY <3>1, <3>2, <1>1, <1>4, <2>2 DEF LastStored
  <2> QED
    BY <2>1, <2>2
<1> QED
  BY <1>5, <1>6, <1>7

LEMMA QuietRecorded ==
    ASSUME Quiet, NEW t \in Scans, Recorded(t), clone'[t] = clone[t]
    PROVE  Recorded(t)'
<1>1. upserts' = upserts /\ findings' = findings /\ Seen(t)' = Seen(t)
  BY DEF Quiet, Seen
<1> QED
  BY <1>1 DEF Recorded

\* Of what its invariant says of processes, a quiet step has to keep this.
LEMMA QuietListed ==
    ASSUME ScanInv, Quiet,
           \A t \in Scans : listed'[t] = listed[t] /\ (pc[t] = "done" => pc'[t] = "done")
    PROVE  ListedIsStored'
<1> SUFFICES ASSUME NEW t \in Scans, listed'[t] # NotListed
             PROVE  /\ pc'[t] = "done"
                    /\ upserts' # <<>> /\ Last(upserts') = t =>
                          \A f \in Seen(t)' : LET g == LastOf(ParseOSV(clone'[t]), Key(f))
                                              IN  g.target # Empty => g \in listed'[t]
  BY DEF ListedIsStored
<1>1. listed[t] # NotListed /\ pc[t] = "done" /\ pc'[t] = "done"
  BY DEF ScanInv, ListedIsStored
<1>2. clone'[t] = clone[t] /\ Seen(t)' = Seen(t) /\ upserts' = upserts
  BY <1>1 DEF Quiet, Tried, Seen
<1> QED
  BY <1>1, <1>2 DEF ScanInv, ListedIsStored

LEMMA QuietSucceeded ==
    ASSUME ScanInv, Quiet,
           \A t \in Scans : /\ runs'[t] = "succeeded" => pc'[t] \in {"list", "done", "fatal", "dead"}
                            /\ pc'[t] = "succeed" \/ runs'[t] = "succeeded" =>
                                  \/ (pc[t] = "succeed" \/ runs[t] = "succeeded") /\ clone'[t] = clone[t]
                                  \/ Recorded(t) /\ clone'[t] = clone[t]
    PROVE  SucceededRecorded'
<1>1. \A t \in Scans : pc[t] = "succeed" \/ runs[t] = "succeeded" => Recorded(t)
  BY DEF ScanInv, SucceededRecorded
<1>2. \A t \in Scans : Recorded(t) /\ clone'[t] = clone[t] => Recorded(t)'
  BY QuietRecorded
<1> QED
  BY <1>1, <1>2 DEF SucceededRecorded


-----------------------------------------------------------------------------
(* one action at a time *)

\* The invariant without the types.
Disciplined ==
    /\ Carried /\ UpsertedOnce /\ RowsAttributed
    /\ SucceededRecorded /\ LastStored /\ ListedIsStored

LEMMA InsertRunStep == ASSUME ScanInv, NEW s \in Scans, InsertRun(s) PROVE Disciplined'
<1> USE DEF InsertRun, At, Fault, NoFault, Status
<1>1. TypeOK /\ Carried /\ SucceededRecorded /\ ListedIsStored
  BY DEF ScanInv
<1>2. Quiet
  BY <1>1 DEF Quiet, Tried, TypeOK
<1>3. Carried'
  BY <1>1 DEF Carried, TypeOK
<1>4. SucceededRecorded'
  BY <1>1, <1>2, QuietSucceeded DEF SucceededRecorded, Carried, TypeOK
<1>5. ListedIsStored'
  BY <1>1, <1>2, QuietListed DEF TypeOK
<1> QED
  BY <1>2, <1>3, <1>4, <1>5, QuietStep DEF Disciplined

LEMMA ShallowCloneStep == ASSUME ScanInv, NEW s \in Scans, ShallowClone(s) PROVE Disciplined'
<1> USE DEF ShallowClone, At, Fault, NoFault
<1>1. TypeOK /\ Carried /\ SucceededRecorded /\ ListedIsStored
  BY DEF ScanInv
<1>2. Quiet
  BY <1>1 DEF Quiet, Tried, TypeOK
<1>3. Carried'
  BY <1>1 DEF Carried, TypeOK
<1>4. SucceededRecorded'
  BY <1>1, <1>2, QuietSucceeded DEF SucceededRecorded, Carried, TypeOK
<1>5. ListedIsStored'
  BY <1>1, <1>2, QuietListed DEF TypeOK
<1> QED
  BY <1>2, <1>3, <1>4, <1>5, QuietStep DEF Disciplined

LEMMA RunToolsStep == ASSUME ScanInv, NEW s \in Scans, RunTools(s) PROVE Disciplined'
<1> USE DEF RunTools, At, Fault, NoFault
<1>1. TypeOK /\ Carried /\ SucceededRecorded /\ ListedIsStored
  BY DEF ScanInv
<1>2. Quiet
  BY <1>1 DEF Quiet, Tried, TypeOK
<1>3. Carried'
  BY <1>1 DEF Carried, TypeOK
<1>4. SucceededRecorded'
  BY <1>1, <1>2, QuietSucceeded DEF SucceededRecorded, Carried, TypeOK
<1>5. ListedIsStored'
  BY <1>1, <1>2, QuietListed DEF TypeOK
<1> QED
  BY <1>2, <1>3, <1>4, <1>5, QuietStep DEF Disciplined

LEMMA SetRunFailedStep == ASSUME ScanInv, NEW s \in Scans, SetRunFailed(s) PROVE Disciplined'
<1> USE DEF SetRunFailed, At, Fault, NoFault, Status
<1>1. TypeOK /\ Carried /\ SucceededRecorded /\ ListedIsStored
  BY DEF ScanInv
<1>2. Quiet
  BY <1>1 DEF Quiet, Tried, TypeOK
<1>3. Carried'
  BY <1>1 DEF Carried, TypeOK
<1>4. SucceededRecorded'
  BY <1>1, <1>2, QuietSucceeded DEF SucceededRecorded, Carried, TypeOK
<1>5. ListedIsStored'
  BY <1>1, <1>2, QuietListed DEF TypeOK
<1> QED
  BY <1>2, <1>3, <1>4, <1>5, QuietStep DEF Disciplined

LEMMA SetRunSucceededStep == ASSUME ScanInv, NEW s \in Scans, SetRunSucceeded(s) PROVE Disciplined'
<1> USE DEF SetRunSucceeded, At, Fault, NoFault, Status
<1>1. TypeOK /\ Carried /\ SucceededRecorded /\ ListedIsStored
  BY DEF ScanInv
<1>2. Quiet
  BY <1>1 DEF Quiet, Tried, TypeOK
<1>3. Carried'
  BY <1>1 DEF Carried, TypeOK
<1>4. SucceededRecorded'
  BY <1>1, <1>2, QuietSucceeded DEF SucceededRecorded, Carried, TypeOK
<1>5. ListedIsStored'
  BY <1>1, <1>2, QuietListed DEF TypeOK
<1> QED
  BY <1>2, <1>3, <1>4, <1>5, QuietStep DEF Disciplined

LEMMA CrashStep == ASSUME ScanInv, NEW s \in Scans, Crash(s) PROVE Disciplined'
<1> USE DEF Crash
<1>1. TypeOK /\ Carried /\ SucceededRecorded /\ ListedIsStored
  BY DEF ScanInv
<1>2. Quiet
  BY <1>1 DEF Quiet, Tried, TypeOK
<1>3. Carried'
  BY <1>1 DEF Carried, TypeOK
<1>4. SucceededRecorded'
  BY <1>1, <1>2, QuietSucceeded DEF SucceededRecorded, Carried, TypeOK
<1>5. ListedIsStored'
  BY <1>1, <1>2, QuietListed DEF TypeOK
<1> QED
  BY <1>2, <1>3, <1>4, <1>5, QuietStep DEF Disciplined

\* Nothing parsed is nothing to record.
LEMMA UpsertSkippedStep == ASSUME ScanInv, NEW s \in Scans, UpsertSkipped(s) PROVE Disciplined'
<1> USE DEF UpsertSkipped, At
<1>1. TypeOK /\ Carried /\ SucceededRecorded /\ ListedIsStored
  BY DEF ScanInv
<1>2. Quiet
  BY <1>1 DEF Quiet, Tried, TypeOK
<1>3. Carried'
  BY <1>1 DEF Carried, TypeOK
<1>4. Recorded(s)
  <2>1. ParseOSV(clone[s]) = <<>>
    BY <1>1 DEF Carried
  <2>2. Seen(s) = {}
    BY <2>1 DEF Seen, Range
  <2> QED
    BY <2>2 DEF Recorded
<1>5. SucceededRecorded'
  BY <1>1, <1>2, <1>4, QuietSucceeded DEF SucceededRecorded, TypeOK
<1>6. ListedIsStored'
  BY <1>1, <1>2, QuietListed DEF TypeOK
<1> QED
  BY <1>2, <1>3, <1>5, <1>6, QuietStep DEF Disciplined

\* The list is what the table holds at that moment.
LEMMA ListCandidatesStep ==
    ASSUME ScanAssumption, ScanInv, NEW s \in Scans, ListCandidates(s)
    PROVE  Disciplined'
<1> USE DEF ListCandidates, At, Fault, NoFault
<1>1. TypeOK /\ Carried /\ SucceededRecorded /\ ListedIsStored /\ LastStored
  BY DEF ScanInv
<1>2. Quiet
  BY <1>1 DEF Quiet, Tried, TypeOK
<1>3. Carried'
  BY <1>1 DEF Carried, TypeOK
<1>4. SucceededRecorded'
  BY <1>1, <1>2, QuietSucceeded DEF SucceededRecorded, TypeOK
<1>5. ListedIsStored'
  <2> SUFFICES ASSUME NEW t \in Scans, listed'[t] # NotListed
               PROVE  /\ pc'[t] = "done"
                      /\ upserts' # <<>> /\ Last(upserts') = t =>
                            \A f \in Seen(t)' : LET g == LastOf(ParseOSV(clone'[t]), Key(f))
                                                IN  g.target # Empty => g \in listed'[t]
    BY DEF ListedIsStored
  <2>1. clone'[t] = clone[t] /\ Seen(t)' = Seen(t) /\ upserts' = upserts
    BY DEF Seen
  <2>2. CASE listed'[t] = listed[t]
    BY <1>1, <2>1, <2>2 DEF ListedIsStored, TypeOK
  <2>3. CASE t = s /\ listed'[s] = ActionableCandidates
    <3>1. pc'[t] = "done"
      BY <1>1, <2>3 DEF TypeOK
    <3>2. ASSUME upserts # <<>>, Last(upserts) = t, NEW f \in Seen(t),
                 LastOf(ParseOSV(clone[t]), Key(f)).target # Empty
          PROVE  LastOf(ParseOSV(clone[t]), Key(f)) \in ActionableCandidates
      <4> DEFINE g == LastOf(ParseOSV(clone[t]), Key(f))
      <4>1. findings[Key(f)] = [run |-> t, finding |-> g]
        BY <1>1, <3>2 DEF LastStored
      <4>2. Key(f) \in Keys
        BY <1>1, SeenTyped
      <4>3. findings[Key(f)] # NoRow /\ findings[Key(f)].finding = g
        BY <4>1 DEF NoRow, ScanAssumption
      <4> HIDE DEF g
      <4>4. g \in StoredFindings
        BY <4>2, <4>3 DEF StoredFindings
      <4> QED
        BY <4>4, <3>2 DEF ActionableCandidates, g
    <3> QED
      BY <2>1, <2>3, <3>1, <3>2
  <2> QED
    BY <1>1, <2>2, <2>3 DEF TypeOK
<1> QED
  BY <1>2, <1>3, <1>4, <1>5, QuietStep DEF Disciplined

LEMMA RepoChangesStep == ASSUME ScanInv, RepoChanges \/ UNCHANGED vars PROVE Disciplined'
<1> USE DEF RepoChanges, vars, process
<1>1. TypeOK /\ Carried /\ SucceededRecorded /\ ListedIsStored
  BY DEF ScanInv
<1>2. Quiet
  BY <1>1 DEF Quiet, Tried, TypeOK
<1>3. Carried'
  BY <1>1 DEF Carried, TypeOK
<1>4. SucceededRecorded'
  BY <1>1, <1>2, QuietSucceeded DEF SucceededRecorded, TypeOK
<1>5. ListedIsStored'
  BY <1>1, <1>2, QuietListed DEF TypeOK
<1> QED
  BY <1>2, <1>3, <1>4, <1>5, QuietStep DEF Disciplined

-----------------------------------------------------------------------------
(* the step that stores *)

\* An upsert makes the scan the last of upserts and its findings the rows of their keys.
LEMMA StoreStep ==
    ASSUME ScanAssumption, ScanInv, NEW s \in Scans, pc[s] = "upsert", Stored(s),
           \A t \in Scans \ {s} : pc'[t] = pc[t], pc'[s] \in {"succeed", "fail"},
           UNCHANGED <<runs, clone, listed>>
    PROVE  /\ UpsertedOnce' /\ RowsAttributed' /\ LastStored' /\ ListedIsStored'
           /\ \A t \in Scans : t = s \/ Recorded(t) => Recorded(t)'
<1>1. /\ TypeOK /\ Carried /\ UpsertedOnce /\ RowsAttributed
      /\ SucceededRecorded /\ LastStored /\ ListedIsStored
  BY DEF ScanInv
<1> DEFINE n == Len(upserts)
<1>2. /\ upserts \in Seq(Scans) /\ n \in Nat /\ DOMAIN upserts = 1..n
      /\ upserts' = Append(upserts, s) /\ upserts' \in Seq(Scans)
  BY <1>1 DEF Stored, TypeOK
<1>3. /\ DOMAIN upserts' = 1..(n + 1) /\ Len(upserts') = n + 1 /\ upserts' # <<>>
      /\ upserts'[n + 1] = s
      /\ \A i \in 1..n : i \in DOMAIN upserts' /\ upserts'[i] = upserts[i]
  BY <1>2
<1>4. Last(upserts') = s
  BY <1>3 DEF Last
<1>5. Range(upserts') = Range(upserts) \cup {s} /\ Range(upserts) \subseteq Scans
  <2>1. 1..(n + 1) = 1..n \cup {n + 1}
    BY <1>2
  <2>2. Range(upserts') \subseteq Range(upserts) \cup {s}
    BY <1>2, <1>3, <2>1 DEF Range
  <2>3. Range(upserts) \cup {s} \subseteq Range(upserts')
    BY <1>2, <1>3, <2>1 DEF Range
  <2> QED
    BY <1>1, <2>2, <2>3, UpserterIsScan
<1>6. s \notin Range(upserts) /\ \A t \in Range(upserts) : Tried(t) /\ runs[t] # "none"
  BY <1>1 DEF UpsertedOnce, Range, Tried
<1>7. runs[s] = "running" /\ found[s] = ParseOSV(clone[s]) /\ ParseOSV(clone[s]) \in Seq(Finding)
  BY <1>1, ParsedAreReported DEF Carried, TypeOK
<1>8. \A t : Seen(t)' = Seen(t)
  BY DEF Seen
<1>9. ASSUME NEW k \in Keys
      PROVE  \/ /\ findings'[k] = [run |-> s, finding |-> LastOf(ParseOSV(clone[s]), k)]
                /\ LastOf(ParseOSV(clone[s]), k) \in Seen(s) /\ Key(LastOf(ParseOSV(clone[s]), k)) = k
             \/ /\ findings'[k] = findings[k]
                /\ \A f \in Seen(s) : Key(f) # k
  <2>1. findings'[k] = UpsertFindings(s, ParseOSV(clone[s]))[k]
    BY <1>7 DEF Stored
  <2>2. ASSUME \A i \in DOMAIN ParseOSV(clone[s]) : Key(ParseOSV(clone[s])[i]) # k
        PROVE  \A f \in Seen(s) : Key(f) # k
    BY <2>2 DEF Seen, Range
  <2> QED
    BY <1>7, <2>1, <2>2, UpsertWritesItsFindings DEF Seen
<1>10. s # Empty /\ \A g : [run |-> s, finding |-> g] # NoRow /\ [run |-> s, finding |-> g].run = s
  BY DEF NoRow, ScanAssumption
<1>11. \A f \in Seen(s) : Key(f) \in Keys
  BY <1>1, SeenTyped
<1>12. \A f \in Seen(s) : findings'[Key(f)] = [run |-> s, finding |-> LastOf(ParseOSV(clone[s]), Key(f))]
  BY <1>9, <1>11
<1> HIDE DEF n
<1>13. UpsertedOnce'
  <2>1. \A t \in Range(upserts') : Tried(t)' /\ runs'[t] # "none"
    BY <1>5, <1>6, <1>7 DEF Tried
  <2> QED
    BY <2>1 DEF UpsertedOnce, Range
<1>14. RowsAttributed'
  <2> SUFFICES ASSUME NEW k \in Keys, findings'[k] # NoRow
               PROVE  /\ findings'[k].run \in Range(upserts')
                      /\ findings'[k].finding \in Seen(findings'[k].run)
                      /\ Key(findings'[k].finding) = k
    BY <1>8 DEF RowsAttributed
  <2>1. CASE findings'[k] = findings[k]
    BY <1>1, <1>5, <2>1 DEF RowsAttributed
  <2>2. CASE /\ findings'[k] = [run |-> s, finding |-> LastOf(ParseOSV(clone[s]), k)]
             /\ LastOf(ParseOSV(clone[s]), k) \in Seen(s) /\ Key(LastOf(ParseOSV(clone[s]), k)) = k
    BY <1>5, <2>2
  <2> QED
    BY <1>9, <2>1, <2>2
<1>15. LastStored'
  BY <1>4, <1>8, <1>12 DEF LastStored
<1>16. ListedIsStored'
  <2> SUFFICES ASSUME NEW t \in Scans, listed[t] # NotListed
               PROVE  pc'[t] = "done" /\ t # s
    BY <1>4 DEF ListedIsStored
  <2> QED
    BY <1>1 DEF ListedIsStored
<1>17. Recorded(s)'
  <2> SUFFICES ASSUME NEW f \in Seen(s)
               PROVE  /\ findings'[Key(f)] # NoRow
                      /\ s \in Range(upserts')
                      /\ findings'[Key(f)].run = s
    BY <1>8 DEF Recorded
  <2> QED
    BY <1>5, <1>10, <1>12
<1>18. ASSUME NEW t \in Scans, t # s, Recorded(t) PROVE Recorded(t)'
  <2> SUFFICES ASSUME NEW f \in Seen(t)
               PROVE  /\ findings'[Key(f)] # NoRow
                      /\ t \in Range(upserts')
                      /\ \/ findings'[Key(f)].run = t
                         \/ \E i, j \in DOMAIN upserts' :
                              i < j /\ upserts'[i] = t /\ upserts'[j] = findings'[Key(f)].run
    BY <1>8 DEF Recorded
  <2>1. t \in Range(upserts) /\ Key(f) \in Keys
    BY <1>1, <1>18, SeenTyped DEF Recorded
  <2>2. CASE findings'[Key(f)] = [run |-> s, finding |-> LastOf(ParseOSV(clone[s]), Key(f))]
    <3>1. PICK i \in 1..n : upserts[i] = t
      BY <1>2, <2>1 DEF Range
    <3>2. i < n + 1 /\ i \in DOMAIN upserts' /\ n + 1 \in DOMAIN upserts'
      BY <1>2, <1>3, <3>1
    <3> QED
      BY <1>3, <1>5, <1>10, <2>1, <2>2, <3>1, <3>2 DEF NoRow
  <2>3. CASE findings'[Key(f)] = findings[Key(f)]
    BY <1>2, <1>3, <1>5, <1>18, <2>1, <2>3 DEF Recorded
  <2> QED
    BY <1>9, <2>1, <2>2, <2>3
<1> QED
  BY <1>13, <1>14, <1>15, <1>16, <1>17, <1>18

LEMMA UpsertStep == ASSUME ScanAssumption, ScanInv, NEW s \in Scans, Upsert(s) PROVE Disciplined'
<1> USE DEF Upsert, At
<1>1. TypeOK /\ Carried /\ SucceededRecorded
  BY DEF ScanInv
<1>2. /\ UpsertedOnce' /\ RowsAttributed' /\ LastStored' /\ ListedIsStored'
      /\ \A t \in Scans : t = s \/ Recorded(t) => Recorded(t)'
  BY <1>1, StoreStep DEF TypeOK
<1>3. Carried'
  BY <1>1 DEF Carried, TypeOK
<1>4. SucceededRecorded'
  BY <1>1, <1>2 DEF SucceededRecorded, TypeOK
<1> QED
  BY <1>2, <1>3, <1>4 DEF Disciplined

LEMMA UpsertFailsStep == ASSUME ScanAssumption, ScanInv, NEW s \in Scans, UpsertFails(s) PROVE Disciplined'
<1> USE DEF UpsertFails, At, Fault
<1>1. TypeOK /\ Carried /\ SucceededRecorded /\ ListedIsStored
  BY DEF ScanInv
<1>2. Carried'
  BY <1>1 DEF Carried, TypeOK
<1>3. CASE Stored(s)
  <2>1. /\ UpsertedOnce' /\ RowsAttributed' /\ LastStored' /\ ListedIsStored'
        /\ \A t \in Scans : t = s \/ Recorded(t) => Recorded(t)'
    BY <1>1, <1>3, StoreStep DEF TypeOK
  <2>2. SucceededRecorded'
    BY <1>1, <2>1 DEF SucceededRecorded, TypeOK
  <2> QED
    BY <1>2, <2>1, <2>2 DEF Disciplined
<1>4. CASE UNCHANGED <<findings, upserts>>
  <2>1. Quiet
    BY <1>1, <1>4 DEF Quiet, Tried, TypeOK
  <2>2. SucceededRecorded'
    BY <1>1, <2>1, QuietSucceeded DEF SucceededRecorded, TypeOK
  <2>3. ListedIsStored'
    BY <1>1, <2>1, QuietListed DEF TypeOK
  <2> QED
    BY <1>2, <2>1, <2>2, <2>3, QuietStep DEF Disciplined
<1> QED
  BY <1>3, <1>4

-----------------------------------------------------------------------------
(* theorems *)

\* The invariant holds of a ledger without findings and every step keeps it.
LEMMA ScanInvariant == Spec => []ScanInv
<1>1. Init => ScanInv
  <2> SUFFICES ASSUME Init PROVE ScanInv
    OBVIOUS
  <2>1. TypeOK
    <3>1. MaxFaults \in Nat /\ 0 \in 0..MaxFaults
      BY ScanAssumption DEF ScanAssumption
    <3>2. <<>> \in Seq(Scans) /\ <<>> \in Seq(Finding)
      OBVIOUS
    <3>3. /\ upserts \in Seq(Scans) /\ found \in [Scans -> Seq(Finding)]
          /\ faults \in [Scans -> 0..MaxFaults]
      BY <3>1, <3>2 DEF Init
    <3>4. /\ listed \in [Scans -> (SUBSET {f \in Finding : f.target # Empty}) \cup {NotListed}]
          /\ findings \in [Keys -> Row \cup {NoRow}]
      BY DEF Init
    <3>5. repo \in Reports /\ clone \in [Scans -> Reports]
      BY DEF Init
    <3>6. /\ runs \in [Scans -> {"none", "running", "succeeded", "failed"}]
          /\ pc \in [Scans -> {"start", "clone", "scan", "upsert", "fail", "succeed", "list",
                               "done", "fatal", "dead"}]
      BY DEF Init
    <3> QED
      BY <3>3, <3>4, <3>5, <3>6 DEF TypeOK
  <2>2. UpsertedOnce /\ LastStored
    BY DEF Init, UpsertedOnce, LastStored
  <2>3. RowsAttributed /\ Carried /\ ListedIsStored /\ SucceededRecorded
    BY DEF Init, RowsAttributed, Carried, ListedIsStored, SucceededRecorded
  <2> QED
    BY <2>1, <2>2, <2>3 DEF ScanInv
<1>2. ScanInv /\ [Next]_vars => ScanInv'
  <2> SUFFICES ASSUME ScanInv, [Next]_vars PROVE ScanInv'
    OBVIOUS
  <2>1. TypeOK'
    BY ScanAssumption, TypeStep DEF ScanInv
  <2>2. ASSUME NEW s \in Scans, InsertRun(s) \/ ShallowClone(s) \/ RunTools(s) \/ UpsertSkipped(s)
        PROVE  Disciplined'
    BY <2>2, InsertRunStep, ShallowCloneStep, RunToolsStep, UpsertSkippedStep
  <2>3. ASSUME NEW s \in Scans, Upsert(s) \/ UpsertFails(s) \/ ListCandidates(s) PROVE Disciplined'
    BY <2>3, ScanAssumption, UpsertStep, UpsertFailsStep, ListCandidatesStep
  <2>4. ASSUME NEW s \in Scans, SetRunFailed(s) \/ SetRunSucceeded(s) \/ Crash(s) PROVE Disciplined'
    BY <2>4, SetRunFailedStep, SetRunSucceededStep, CrashStep
  <2>5. Disciplined'
    BY <2>2, <2>3, <2>4, RepoChangesStep DEF Next
  <2> QED
    BY <2>1, <2>5 DEF ScanInv, Disciplined
<1> QED
  BY <1>1, <1>2, PTL DEF Spec

\* Types: among others, a listed candidate always has a version to upgrade to.
THEOREM ScanTypeCorrect == Spec => []TypeOK
BY ScanInvariant, PTL DEF ScanInv

\* What ParseOSV makes of a report, the report says.
LEMMA SeenIsSaid ==
    ASSUME ScanAssumption, TypeOK, NEW s \in Scans, NEW f \in Seen(s)
    PROVE  SaysOf(f, clone[s])
<1>1. clone[s] \in Reports /\ clone[s] \in Report
  BY DEF TypeOK, ScanAssumption
<1>2. PICK i \in DOMAIN clone[s] : \E j \in DOMAIN clone[s][i].vulns : f = FindingOf(clone[s], i, j)
  BY <1>1, ParsedAreReported DEF Seen
<1>3. PICK j \in DOMAIN clone[s][i].vulns : f = FindingOf(clone[s], i, j)
  BY <1>2
<1> DEFINE p == clone[s][i]
           v == p.vulns[j]
<1>4. p \in Range(clone[s]) /\ v \in Range(p.vulns)
  BY DEF Range
<1>5. v \in Vulnerability
  BY <1>1, FindingTyped
<1>6. v.fixed \in Seq(Optional)
  BY <1>5 DEF Vulnerability
<1>7. IsLastFix(fixedVersionFromRanges(v.fixed), v.fixed)
  BY <1>6, FixedVersionIsLastFix
<1>8. /\ f.package = p.name /\ f.current = p.version /\ f.advisory = v.id
      /\ f.target = fixedVersionFromRanges(v.fixed)
  BY <1>3 DEF FindingOf
<1> HIDE DEF p, v
<1> QED
  BY <1>4, <1>7, <1>8 DEF SaysOf

\* And every vulnerability of the report is among what is made of it.
LEMMA ReportedIsSeen ==
    ASSUME ScanAssumption, TypeOK, NEW s \in Scans,
           NEW p \in Range(clone[s]), NEW v \in Range(p.vulns)
    PROVE  \E f \in Seen(s) : Key(f) = <<p.name, v.id>>
<1>1. clone[s] \in Reports
  BY DEF TypeOK
<1>2. PICK i \in DOMAIN clone[s] : p = clone[s][i]
  BY DEF Range
<1>3. PICK j \in DOMAIN clone[s][i].vulns : v = clone[s][i].vulns[j]
  BY <1>2 DEF Range
<1>4. FindingOf(clone[s], i, j) \in Seen(s)
  BY <1>1, ParsedAreReported DEF Seen
<1>5. Key(FindingOf(clone[s], i, j)) = <<p.name, v.id>>
  BY <1>1, <1>2, <1>3, FindingTyped
<1> QED
  BY <1>4, <1>5

\* Every row of the findings table names a scan in runs and says what that scan found in its
\* clone, for any number of scans, however they overlap.
THEOREM RowsAreAttributable == Spec => []RowsAreWhatTheirScanSaw
<1>1. ScanInv => RowsAreWhatTheirScanSaw
  <2> SUFFICES ASSUME ScanInv, NEW k \in Keys, findings[k] # NoRow
               PROVE  /\ runs[findings[k].run] # "none"
                      /\ SaysOf(findings[k].finding, clone[findings[k].run])
                      /\ Key(findings[k].finding) = k
    BY DEF RowsAreWhatTheirScanSaw
  <2>1. TypeOK /\ UpsertedOnce /\ RowsAttributed
    BY DEF ScanInv
  <2>2. findings[k].run \in Range(upserts) /\ findings[k].finding \in Seen(findings[k].run)
    BY <2>1 DEF RowsAttributed
  <2>3. findings[k].run \in Scans /\ runs[findings[k].run] # "none"
    BY <2>1, <2>2, UpserterIsScan DEF UpsertedOnce, Range
  <2> QED
    BY <2>1, <2>2, <2>3, ScanAssumption, SeenIsSaid DEF RowsAttributed
<1> QED
  BY <1>1, ScanInvariant, PTL

\* A scan whose run the ledger calls succeeded has its findings in the table.
THEOREM SucceededScansAreRecorded == Spec => []SucceededScanIsRecorded
<1>1. ScanInv => SucceededScanIsRecorded
  <2> SUFFICES ASSUME ScanInv, NEW s \in Scans
               PROVE  /\ pc[s] = "done" => runs[s] = "succeeded"
                      /\ runs[s] = "succeeded" =>
                          \A p \in Range(clone[s]) : \A v \in Range(p.vulns) :
                              LET row == findings[<<p.name, v.id>>]
                              IN  /\ row # NoRow
                                  /\ row.run = s \/ \E i, j \in DOMAIN upserts :
                                                      i < j /\ upserts[i] = s /\ upserts[j] = row.run
    BY DEF SucceededScanIsRecorded
  <2>1. TypeOK /\ Carried /\ SucceededRecorded
    BY DEF ScanInv
  <2>2. ASSUME runs[s] = "succeeded", NEW p \in Range(clone[s]), NEW v \in Range(p.vulns)
        PROVE  /\ findings[<<p.name, v.id>>] # NoRow
               /\ \/ findings[<<p.name, v.id>>].run = s
                  \/ \E i, j \in DOMAIN upserts :
                        i < j /\ upserts[i] = s /\ upserts[j] = findings[<<p.name, v.id>>].run
    <3>1. PICK f \in Seen(s) : Key(f) = <<p.name, v.id>>
      BY <2>1, ScanAssumption, ReportedIsSeen
    <3>2. Recorded(s)
      BY <2>1, <2>2 DEF SucceededRecorded
    <3> QED
      BY <3>1, <3>2 DEF Recorded
  <2> QED
    BY <2>1, <2>2 DEF Carried
<1> QED
  BY <1>1, ScanInvariant, PTL

\* Every package with a fix in the clone is on the list the scan prints, with the version
\* of the last one, if no other scan stored since.
THEOREM FixesReachTheList == Spec => []FixesAreListed
<1>1. ScanInv => FixesAreListed
  <2> SUFFICES ASSUME ScanInv, NEW s \in Scans, listed[s] # NotListed,
                      upserts # <<>>, Last(upserts) = s,
                      NEW p \in Range(clone[s]), NEW v \in Range(p.vulns), Range(v.fixed) \ {Empty} # {}
               PROVE  \E f \in listed[s] : Key(f) = <<p.name, v.id>> /\ SaysOf(f, clone[s])
    BY DEF FixesAreListed
  <2>1. TypeOK /\ ListedIsStored
    BY DEF ScanInv
  <2>2. PICK f \in Seen(s) : Key(f) = <<p.name, v.id>>
    BY <2>1, ScanAssumption, ReportedIsSeen
  <2> DEFINE g == LastOf(ParseOSV(clone[s]), Key(f))
  <2>3. clone[s] \in Reports /\ clone[s] \in Report /\ ParseOSV(clone[s]) \in Seq(Finding)
    BY <2>1, ScanAssumption, ParsedAreReported DEF TypeOK, ScanAssumption
  <2>4. PICK n \in DOMAIN ParseOSV(clone[s]) : f = ParseOSV(clone[s])[n]
    BY DEF Seen, Range
  <2>5. g \in Seen(s) /\ Key(g) = <<p.name, v.id>>
    BY <2>2, <2>3, <2>4, LastOfIsThere DEF Seen
  <2>6. g.target # Empty
    <3>1. PICK i \in DOMAIN clone[s] : \E j \in DOMAIN clone[s][i].vulns : g = FindingOf(clone[s], i, j)
      BY <2>3, <2>5, ScanAssumption, ParsedAreReported DEF Seen
    <3>2. PICK j \in DOMAIN clone[s][i].vulns : g = FindingOf(clone[s], i, j)
      BY <3>1
    <3> DEFINE q == clone[s][i]
               w == q.vulns[j]
    <3>3. q \in Range(clone[s]) /\ w \in Range(q.vulns)
      BY DEF Range
    <3>4. Key(g) = <<q.name, w.id>> /\ w \in Vulnerability
      <4>1. Key(FindingOf(clone[s], i, j)) = <<q.name, w.id>> /\ w \in Vulnerability
        BY <2>3, ScanAssumption, FindingTyped
      <4> HIDE DEF g
      <4> QED
        BY <3>2, <4>1
    <3>5. p.name = q.name /\ v.id = w.id
      BY <2>5, <3>4
    <3>6. w.fixed = v.fixed
      BY <2>3, <3>3, <3>5, ScanAssumption DEF ScanAssumption
    <3>7. w.fixed \in Seq(Optional) /\ g.target = fixedVersionFromRanges(w.fixed)
      BY <3>2, <3>4 DEF Vulnerability, FindingOf
    <3> HIDE DEF w, q
    <3> QED
      BY <3>6, <3>7, ScanAssumption, FixedVersionIsLastFix
  <2>7. g \in listed[s]
    BY <2>1, <2>6 DEF ListedIsStored
  <2>8. SaysOf(g, clone[s])
    BY <2>1, <2>5, ScanAssumption, SeenIsSaid
  <2> HIDE DEF g
  <2> QED
    BY <2>5, <2>7, <2>8
<1> QED
  BY <1>1, ScanInvariant, PTL
=============================================================================
