--------------------- MODULE FindingVerification_proofs ---------------------
(***************************************************************************)
(* Proofs about FindingVerification, for any findings, scans, jobs and     *)
(* limits.                                                                 *)
(***************************************************************************)
EXTENDS FindingVerification, TLAPS

(* decide always answers with one of the four outcomes.                    *)
LEMMA DecideType ==
    ASSUME NEW st, NEW f, NEW rep
    PROVE  Decide(st, f, rep) \in Outcome
BY DEF Decide, Outcome

(* An uploaded scan yields a well-formed report.                           *)
LEMMA ReportFromScanType ==
    ASSUME NEW artifact \in Artifacts
    PROVE  ReportFromScan(artifact) \in Report
<1>1. Unreachable \in HostCoverage
  BY DEF Unreachable, HostCoverage
<1>2. Examined(artifact.ports_requested) \in HostCoverage
  BY DEF Examined, HostCoverage, Artifacts
<1>3. ASSUME NEW h \in Host
      PROVE  (IF h \notin Assets(artifact) THEN None
              ELSE IF FirstEntry(artifact, h).status = "down" THEN Unreachable
              ELSE Examined(artifact.ports_requested)) \in HostCoverage \cup {None}
  BY <1>1, <1>2
<1>4. {f.candidate : f \in artifact.findings} \ {None} \in SUBSET Candidate
  BY DEF Artifacts, Shapes
<1>5. QED
  BY <1>3, <1>4 DEF ReportFromScan, Report

(* So is every answer of the ai.engine, and the empty report.              *)
LEMMA EngineReportType ==
    ASSUME NEW findings \in SUBSET Shapes, NEW answer \in EngineReports(findings)
    PROVE  answer \in Report
<1>1. /\ Unavailable \in HostCoverage
      /\ Unreachable \in HostCoverage
  BY DEF Unavailable, Unreachable, HostCoverage
<1>2. ASSUME NEW h \in Host, NEW entry \in EngineEntries(findings, h)
      PROVE  entry \in HostCoverage \cup {None}
  <2>1. TargetPorts(findings, h) \in SUBSET Port
    BY DEF TargetPorts, Shapes
  <2>2. Examined(TargetPorts(findings, h)) \in HostCoverage
    BY <2>1 DEF Examined, HostCoverage
  <2>3. QED
    BY <1>1, <2>2 DEF EngineEntries
<1>3. /\ answer \in [coverage : [Host -> UNION {EngineEntries(findings, h) : h \in Host}],
                     observed : SUBSET Candidate]
      /\ \A h \in Host : answer.coverage[h] \in EngineEntries(findings, h)
  BY DEF EngineReports
<1>4. answer.coverage \in [Host -> HostCoverage \cup {None}]
  BY <1>2, <1>3
<1>5. QED
  BY <1>3, <1>4 DEF Report

(* The report of a pass that has nothing to scan is a report.              *)
LEMMA EmptyReportType == EmptyReport \in Report
BY DEF EmptyReport, Report

(* Reading rows that are open yields snapshots of them.                    *)
LEMMA ReadType ==
    ASSUME TypeOK, NEW R \in SUBSET Row, \A r \in R : status[r] # None
    PROVE  /\ DOMAIN Read(R) = R
           /\ Read(R) \in [R -> Snapshots]
<1>1. ASSUME NEW r \in R
      PROVE  [status |-> status[r], history |-> history[r]] \in Snapshots
  BY DEF TypeOK, Snapshots
<1>2. QED
  BY <1>1 DEF Read

(* An open finding is a stored one.                                        *)
LEMMA OpenStored == \A r \in Open : status[r] # None
BY NoneIsFresh DEF Open, FindingStatus

-----------------------------------------------------------------------------
(* Type correctness, action by action.                                     *)

(* The variables have their types initially,                               *)
LEMMA InitType == Init => TypeOK
BY EmptyReportType, LimitAssumption
DEF Init, TypeOK, Phases, Pass, Snapshots, NothingLoaded

(* after an agent or an analyst wrote a row,                               *)
LEMMA RowStepsType ==
    ASSUME TypeOK,
           \/ \E run \in Run, shape \in Shape : AgentReports(run, shape)
           \/ \E row \in Row, new \in FindingStatus : Analyst(row, new)
    PROVE  TypeOK'
<1>1. status' \in [Row -> FindingStatus \cup {None}]
  BY DEF TypeOK, AgentReports, Analyst, FindingStatus, OpenStatuses
<1>2. UNCHANGED <<history, phase, tries, ids, loaded, report>>
  BY DEF AgentReports, Analyst, jobs
<1>3. QED
  BY <1>1, <1>2 DEF TypeOK

(* A pass that comes to its end keeps no rows.                             *)
LEMMA NothingLoadedType ==
    ASSUME TypeOK, NEW p \in Pass, loaded' = [loaded EXCEPT ![p] = NothingLoaded]
    PROVE  /\ DOMAIN loaded' = Pass
           /\ \A q \in Pass : /\ DOMAIN loaded'[q] \subseteq Row
                              /\ loaded'[q] \in [DOMAIN loaded'[q] -> Snapshots]
BY DEF TypeOK, NothingLoaded

(* and a pass that read a set of open rows holds their snapshots.          *)
LEMMA LoadedType ==
    ASSUME TypeOK, NEW p \in Pass, NEW R \in SUBSET Open,
           loaded' = [loaded EXCEPT ![p] = Read(R)]
    PROVE  /\ DOMAIN loaded' = Pass
           /\ \A q \in Pass : /\ DOMAIN loaded'[q] \subseteq Row
                              /\ loaded'[q] \in [DOMAIN loaded'[q] -> Snapshots]
<1>1. R \in SUBSET Row /\ \A r \in R : status[r] # None
  BY OpenStored DEF Open
<1>2. DOMAIN Read(R) = R /\ Read(R) \in [R -> Snapshots]
  BY <1>1, ReadType
<1>3. QED
  BY <1>1, <1>2 DEF TypeOK

(* The commit, the end and the interruption of a pass keep the types,      *)
LEMMA PassStepsType ==
    ASSUME TypeOK, NEW p \in Pass, Commit(p) \/ Finish(p) \/ Crash(p)
    PROVE  TypeOK'
<1>1. CASE Commit(p)
  <2>1. status' \in [Row -> FindingStatus \cup {None}]
    BY <1>1 DEF Commit, ApplyVerification, TypeOK, FindingStatus
  <2>2. ASSUME NEW r \in DOMAIN loaded[p]
        PROVE  NewHistory(p, r) \in Seq(Entries)
    <3>1. loaded[p][r].history \in Seq(Entries)
      BY DEF TypeOK, Snapshots
    <3>2. [outcome |-> Judge(p, r), source |-> p] \in Entries
      BY DecideType DEF Judge, Entries, Pass
    <3>3. QED
      BY <3>1, <3>2 DEF NewHistory
  <2>3. history' \in [Row -> Seq(Entries)]
    BY <1>1, <2>2 DEF Commit, ApplyVerification, TypeOK
  <2>4. phase' \in [Pass -> Phases]
    BY <1>1 DEF Commit, TypeOK, Phases
  <2>5. QED
    BY <1>1, <2>1, <2>3, <2>4 DEF Commit, TypeOK
<1>2. CASE Finish(p)
  <2>1. phase' \in [Pass -> Phases]
    BY <1>2 DEF Finish, TypeOK, Phases
  <2>2. QED
    BY <1>2, <2>1, NothingLoadedType DEF Finish, TypeOK, rows
<1>3. CASE Crash(p)
  <2>1. phase' \in [Pass -> Phases]
    BY <1>3 DEF Crash, TypeOK, Phases
  <2>2. tries' \in [Pass -> 1 .. MaxTries]
    BY <1>3, LimitAssumption DEF Crash, TypeOK
  <2>3. QED
    BY <1>3, <2>1, <2>2, NothingLoadedType DEF Crash, TypeOK, rows
<1>4. QED
  BY <1>1, <1>2, <1>3

(* and so do the other steps of an upload,                                 *)
LEMMA ScanStepsType ==
    ASSUME TypeOK, NEW s \in Scan, ScanPersist(s) \/ ScanFails(s) \/ ScanSelect(s)
    PROVE  TypeOK'
<1>0. s \in Pass
  BY DEF Pass
<1>1. phase' \in [Pass -> Phases]
  BY <1>0 DEF ScanPersist, ScanFails, ScanSelect, TypeOK, Phases
<1>2. CASE ScanPersist(s)
  <2>1. status' \in [Row -> FindingStatus \cup {None}]
    BY <1>2 DEF ScanPersist, TypeOK, FindingStatus, OpenStatuses
  <2>2. QED
    BY <1>1, <1>2, <2>1 DEF ScanPersist, TypeOK
<1>3. CASE ScanFails(s)
  BY <1>1, <1>3 DEF ScanFails, TypeOK, rows
<1>4. CASE ScanSelect(s)
  <2>1. CASE UNCHANGED <<loaded, report>>
    BY <1>1, <1>4, <2>1 DEF ScanSelect, TypeOK, rows
  <2>2. CASE /\ loaded' = [loaded EXCEPT ![s] = Read(Prior(s))]
             /\ report' = [report EXCEPT ![s] = ReportFromScan(Artifact[s])]
    <3>1. ReportFromScan(Artifact[s]) \in Report
      BY ArtifactAssumption, ReportFromScanType
    <3>2. report' \in [Pass -> Report]
      BY <2>2, <3>1 DEF TypeOK
    <3>3. Prior(s) \in SUBSET Open
      BY DEF Prior
    <3>4. QED
      BY <1>0, <1>1, <1>4, <2>2, <3>2, <3>3, LoadedType DEF ScanSelect, TypeOK, rows
  <2>3. QED
    BY <1>4, <2>1, <2>2 DEF ScanSelect
<1>5. QED
  BY <1>2, <1>3, <1>4

(* The findings of rows have shapes, so the ai.engine's answers about them *)
(* are reports.                                                            *)
LEMMA FindingType == \A r \in Row : Finding(r) \in Shapes
BY ShapeAssumption DEF Finding, Row

(* of a recheck job,                                                       *)
LEMMA JobStepsType ==
    ASSUME TypeOK, NEW j \in Job,
           \/ \E asked \in SUBSET Row : RequestRecheck(j, asked)
           \/ \E kept \in Kept(j) : RecheckLoad(j, kept)
           \/ EngineAnswers(j)
           \/ EngineFails(j)
    PROVE  TypeOK'
<1>0. j \in Pass
  BY DEF Pass
<1>1. phase' \in [Pass -> Phases]
  BY <1>0 DEF RequestRecheck, RecheckLoad, EngineAnswers, EngineFails, TypeOK, Phases
<1>2. ASSUME NEW asked \in SUBSET Row, RequestRecheck(j, asked)
      PROVE  TypeOK'
  <2>1. ids' \in [Job -> SUBSET Row]
    BY <1>2 DEF RequestRecheck, TypeOK
  <2>2. QED
    BY <1>1, <1>2, <2>1 DEF RequestRecheck, TypeOK, rows
<1>3. ASSUME NEW kept \in Kept(j), RecheckLoad(j, kept)
      PROVE  TypeOK'
  <2>1. PICK R \in SUBSET Open : loaded' = [loaded EXCEPT ![j] = Read(R)]
    BY <1>3 DEF RecheckLoad
  <2>2. report' \in [Pass -> Report]
    BY <1>3, EmptyReportType DEF RecheckLoad, TypeOK
  <2>3. QED
    BY <1>0, <1>1, <1>3, <2>1, <2>2, LoadedType DEF RecheckLoad, TypeOK, rows
<1>4. CASE EngineAnswers(j)
  <2>1. {Finding(r) : r \in DOMAIN loaded[j]} \in SUBSET Shapes
    BY <1>0, FindingType DEF TypeOK
  <2>2. report' \in [Pass -> Report]
    BY <1>4, <2>1, EngineReportType DEF EngineAnswers, TypeOK
  <2>3. QED
    BY <1>1, <1>4, <2>2 DEF EngineAnswers, TypeOK, rows
<1>5. CASE EngineFails(j)
  BY <1>0, <1>1, <1>5, NothingLoadedType DEF EngineFails, TypeOK, rows
<1>6. QED
  BY <1>2, <1>3, <1>4, <1>5

(* hence every step.                                                       *)
LEMMA StepType == TypeOK /\ [Next]_vars => TypeOK'
<1>1. SUFFICES ASSUME TypeOK, [Next]_vars PROVE TypeOK'
  OBVIOUS
<1>2. CASE UNCHANGED vars
  BY <1>1, <1>2 DEF vars, TypeOK
<1>3. CASE Next
  BY <1>1, <1>3, RowStepsType, PassStepsType, ScanStepsType, JobStepsType
  DEF Next, ScanStep, JobStep, Pass
<1>4. QED
  BY <1>1, <1>2, <1>3

(* The variables have their types in every reachable state.                *)
THEOREM TypeCorrect == Spec => []TypeOK
BY InitType, StepType, PTL DEF Spec

-----------------------------------------------------------------------------
(* The inductive invariant behind OwnFindingsNotJudged and                 *)
(* HistoryIsVerifiable.  Neither is inductive: a commit writes back        *)
(* histories that were read earlier, so what is true of the table must     *)
(* also be true of every snapshot in flight, and a pass must have loaded   *)
(* only rows it may judge.                                                 *)
Honest(row, entries) ==
    \A i \in DOMAIN entries :
        /\ entries[i].source # RawReference(row)
        /\ Finding(row).candidate # None
        /\ entries[i].outcome # "unverifiable" =>
              Finding(row).port # None /\ Finding(row).asset # None

RowsHonest == \A r \in Row : Honest(r, history[r])

SnapshotsHonest ==
    \A p \in Pass : \A r \in DOMAIN loaded[p] :
        /\ Honest(r, loaded[p][r].history)
        /\ Finding(r).candidate # None
        /\ RawReference(r) # p

HonestInv == TypeOK /\ RowsHonest /\ SnapshotsHonest

(* Reading rows whose histories are honest gives honest snapshots.         *)
LEMMA ReadHonest ==
    ASSUME HonestInv, NEW p \in Pass, NEW R \in SUBSET Open,
           \A r \in R : Finding(r).candidate # None /\ RawReference(r) # p,
           loaded' = [loaded EXCEPT ![p] = Read(R)]
    PROVE  SnapshotsHonest'
<1>1. ASSUME NEW q \in Pass, NEW r \in DOMAIN loaded'[q]
      PROVE  /\ Honest(r, loaded'[q][r].history)
             /\ Finding(r).candidate # None
             /\ RawReference(r) # q
  <2>1. CASE q = p
    <3>1. loaded'[q] = Read(R)
      BY <2>1 DEF HonestInv, TypeOK
    <3>2. r \in R /\ r \in Row /\ loaded'[q][r].history = history[r]
      BY <3>1 DEF Read, Open
    <3>3. QED
      BY <2>1, <3>2 DEF HonestInv, RowsHonest
  <2>2. CASE q # p
    <3>1. loaded'[q] = loaded[q]
      BY <2>2 DEF HonestInv, TypeOK
    <3>2. QED
      BY <3>1 DEF HonestInv, SnapshotsHonest
  <2>3. QED
    BY <2>1, <2>2
<1>2. QED
  BY <1>1 DEF SnapshotsHonest, Honest, Finding, RawReference, Pass

(* Nothing can be wrong with snapshots a pass no longer has.               *)
LEMMA NothingLoadedHonest ==
    ASSUME HonestInv, NEW p \in Pass, loaded' = [loaded EXCEPT ![p] = NothingLoaded]
    PROVE  SnapshotsHonest'
BY DEF HonestInv, TypeOK, SnapshotsHonest, NothingLoaded, Honest, Finding, RawReference, Pass

(* What a pass appends is honest, because of what it loaded.               *)
LEMMA CommitHonest ==
    ASSUME HonestInv, NEW p \in Pass, ApplyVerification(p)
    PROVE  RowsHonest'
<1>1. ASSUME NEW r \in Row PROVE Honest(r, history'[r])
  <2>1. CASE r \notin DOMAIN loaded[p]
    BY <2>1 DEF ApplyVerification, HonestInv, RowsHonest
  <2>2. CASE r \in DOMAIN loaded[p]
    <3>1. history'[r] = NewHistory(p, r)
      BY <2>2 DEF ApplyVerification
    <3>2. /\ Honest(r, loaded[p][r].history)
          /\ Finding(r).candidate # None
          /\ RawReference(r) # p
      BY <2>2 DEF HonestInv, SnapshotsHonest
    <3>3. loaded[p][r].history \in Seq(Entries)
      BY <2>2 DEF HonestInv, TypeOK, Snapshots
    <3>4. Judge(p, r) # "unverifiable" => Finding(r).port # None /\ Finding(r).asset # None
      BY DEF Judge, Decide, Verifiable
    <3>5. ASSUME NEW i \in DOMAIN NewHistory(p, r)
          PROVE  \/ /\ i \in DOMAIN loaded[p][r].history
                    /\ NewHistory(p, r)[i] = loaded[p][r].history[i]
                 \/ NewHistory(p, r)[i] = [outcome |-> Judge(p, r), source |-> p]
      BY <3>3 DEF NewHistory
    <3>6. QED
      BY <3>1, <3>2, <3>4, <3>5 DEF Honest
  <2>3. QED
    BY <2>1, <2>2
<1>2. QED
  BY <1>1 DEF RowsHonest, Honest, Finding, RawReference, Row

(* Every step keeps the invariant.                                         *)
LEMMA StepHonest == HonestInv /\ [Next]_vars => HonestInv'
<1>1. SUFFICES ASSUME HonestInv, [Next]_vars PROVE RowsHonest' /\ SnapshotsHonest'
  <2>1. TypeOK /\ [Next]_vars => TypeOK'
    BY StepType
  <2>2. QED
    BY <2>1 DEF HonestInv
<1>2. CASE UNCHANGED <<history, loaded>>
  BY <1>1, <1>2
  DEF HonestInv, RowsHonest, SnapshotsHonest, Honest, Finding, RawReference, Row, Pass
<1>3. ASSUME UNCHANGED history PROVE RowsHonest'
  BY <1>1, <1>3 DEF HonestInv, RowsHonest, Honest, Finding, RawReference, Row
<1>4. ASSUME UNCHANGED loaded PROVE SnapshotsHonest'
  BY <1>1, <1>4 DEF HonestInv, SnapshotsHonest, Honest, Finding, RawReference, Pass
<1>5. ASSUME NEW p \in Pass, Commit(p) PROVE RowsHonest' /\ SnapshotsHonest'
  BY <1>1, <1>4, <1>5, CommitHonest DEF Commit
<1>6. ASSUME NEW p \in Pass, Finish(p) \/ Crash(p) PROVE RowsHonest' /\ SnapshotsHonest'
  BY <1>1, <1>3, <1>6, NothingLoadedHonest DEF Finish, Crash, rows
<1>7. ASSUME NEW s \in Scan, ScanSelect(s) PROVE RowsHonest' /\ SnapshotsHonest'
  <2>1. s \in Pass /\ UNCHANGED history
    BY <1>7 DEF ScanSelect, Pass, rows
  <2>2. CASE UNCHANGED <<loaded, report>>
    BY <1>3, <1>4, <2>1, <2>2
  <2>3. CASE loaded' = [loaded EXCEPT ![s] = Read(Prior(s))]
    <3>1. Prior(s) \in SUBSET Open
      BY DEF Prior
    <3>2. \A r \in Prior(s) : Finding(r).candidate # None /\ RawReference(r) # s
      BY DEF Prior
    <3>3. QED
      BY <1>1, <1>3, <2>1, <2>3, <3>1, <3>2, ReadHonest
  <2>4. QED
    BY <1>7, <2>2, <2>3 DEF ScanSelect
<1>8. ASSUME NEW j \in Job, NEW kept \in Kept(j), RecheckLoad(j, kept)
      PROVE  RowsHonest' /\ SnapshotsHonest'
  <2>1. j \in Pass /\ UNCHANGED history
    BY <1>8 DEF RecheckLoad, Pass, rows
  <2>2. PICK R \in SUBSET Open : /\ \A r \in R : Finding(r).candidate # None
                                /\ loaded' = [loaded EXCEPT ![j] = Read(R)]
    BY <1>8 DEF RecheckLoad
  <2>3. \A r \in R : RawReference(r) # j
    BY NamesAssumption DEF Open, Row, Source, RawReference
  <2>4. QED
    BY <1>1, <1>3, <2>1, <2>2, <2>3, ReadHonest
<1>9. ASSUME NEW j \in Job, EngineFails(j) PROVE RowsHonest' /\ SnapshotsHonest'
  BY <1>1, <1>3, <1>9, NothingLoadedHonest DEF EngineFails, Pass, rows
<1>10. ASSUME NEW s \in Scan, ScanPersist(s) \/ ScanFails(s)
       PROVE  RowsHonest' /\ SnapshotsHonest'
  BY <1>3, <1>4, <1>10 DEF ScanPersist, ScanFails, rows
<1>11. ASSUME NEW j \in Job, (\E asked \in SUBSET Row : RequestRecheck(j, asked)) \/ EngineAnswers(j)
       PROVE  RowsHonest' /\ SnapshotsHonest'
  BY <1>3, <1>4, <1>11 DEF RequestRecheck, EngineAnswers, rows
<1>12. CASE \/ \E run \in Run, shape \in Shape : AgentReports(run, shape)
            \/ \E row \in Row, new \in FindingStatus : Analyst(row, new)
  BY <1>3, <1>4, <1>12 DEF AgentReports, Analyst, jobs
<1>13. CASE UNCHANGED vars
  BY <1>3, <1>4, <1>13 DEF vars
<1>14. QED
  BY <1>1, <1>5, <1>6, <1>7, <1>8, <1>9, <1>10, <1>11, <1>12, <1>13
  DEF Next, ScanStep, JobStep, Pass

(* It holds of an empty table,                                             *)
LEMMA InitHonest == Init => HonestInv
<1>1. SUFFICES ASSUME Init PROVE RowsHonest /\ SnapshotsHonest
  BY InitType DEF HonestInv
<1>2. RowsHonest
  BY <1>1 DEF Init, RowsHonest, Honest
<1>3. SnapshotsHonest
  BY <1>1 DEF Init, SnapshotsHonest, NothingLoaded
<1>4. QED
  BY <1>2, <1>3

(* and therefore always.                                                   *)
LEMMA AlwaysHonest == Spec => []HonestInv
BY InitHonest, StepHonest, PTL DEF Spec

(* A scan is never evidence about the findings it reported itself, however *)
(* often its job is tried and whatever else runs meanwhile.                *)
THEOREM ScansDoNotJudgeThemselves == Spec => []OwnFindingsNotJudged
<1>1. HonestInv => OwnFindingsNotJudged
  BY DEF HonestInv, RowsHonest, Honest, OwnFindingsNotJudged
<1>2. QED
  BY <1>1, AlwaysHonest, PTL

(* Only what a network scan can show is ever recorded as judged.           *)
THEOREM OnlyVerifiableIsJudged == Spec => []HistoryIsVerifiable
<1>1. HonestInv => HistoryIsVerifiable
  BY DEF HonestInv, RowsHonest, Honest, HistoryIsVerifiable
<1>2. QED
  BY <1>1, AlwaysHonest, PTL

-----------------------------------------------------------------------------
(* What a step may do to the status of a finding that exists.              *)

(* A worker only ever closes: whatever pass is applied, on whatever        *)
(* snapshot, statuses change to resolved or not at all.                    *)
THEOREM WorkersOnlyClose == Spec => PlatformOnlyCloses
<1>1. TypeOK /\ [Next]_vars =>
         [\A r \in Row : status[r] # None /\ status'[r] # status[r] =>
             UNCHANGED jobs \/ status'[r] = "resolved"]_vars
  <2>1. SUFFICES ASSUME TypeOK, Next, NEW r \in Row,
                        status[r] # None, status'[r] # status[r]
                 PROVE  UNCHANGED jobs \/ status'[r] = "resolved"
    OBVIOUS
  <2>2. CASE \/ \E run \in Run, shape \in Shape : AgentReports(run, shape)
             \/ \E row \in Row, new \in FindingStatus : Analyst(row, new)
    BY <2>2 DEF AgentReports, Analyst
  <2>3. ASSUME NEW p \in Pass, Commit(p) \/ Finish(p) \/ Crash(p)
        PROVE  status'[r] = "resolved"
    BY <2>1, <2>3 DEF Commit, ApplyVerification, Finish, Crash, rows
  <2>4. ASSUME NEW s \in Scan, ScanPersist(s) \/ ScanFails(s) \/ ScanSelect(s)
        PROVE  FALSE
    BY <2>1, <2>4 DEF ScanPersist, ScanFails, ScanSelect, rows
  <2>5. ASSUME NEW j \in Job,
               \/ \E asked \in SUBSET Row : RequestRecheck(j, asked)
               \/ \E kept \in Kept(j) : RecheckLoad(j, kept)
               \/ EngineAnswers(j) \/ EngineFails(j)
        PROVE  FALSE
    BY <2>1, <2>5 DEF RequestRecheck, RecheckLoad, EngineAnswers, EngineFails, rows
  <2>6. QED
    BY <2>1, <2>2, <2>3, <2>4, <2>5 DEF Next, ScanStep, JobStep, Pass
<1>2. QED
  BY <1>1, TypeCorrect, PTL DEF Spec, PlatformOnlyCloses

(* A pass resolves only what its own report covers and did not observe.    *)
THEOREM ResolutionNeedsCoverage == Spec => ResolvedOnlyByCoverage
<1>1. TypeOK /\ [Next]_vars =>
         [\A r \in Row : status[r] # "resolved" /\ status'[r] = "resolved" =>
             \/ UNCHANGED jobs
             \/ \E p \in Pass :
                   /\ Commits(p)
                   /\ Covered(report[p], Finding(r))
                   /\ Finding(r).candidate \notin report[p].observed]_vars
  <2>1. SUFFICES ASSUME TypeOK, Next, NEW r \in Row,
                        status[r] # "resolved", status'[r] = "resolved"
                 PROVE  \/ UNCHANGED jobs
                        \/ \E p \in Pass :
                              /\ Commits(p)
                              /\ Covered(report[p], Finding(r))
                              /\ Finding(r).candidate \notin report[p].observed
    OBVIOUS
  <2>2. CASE \/ \E run \in Run, shape \in Shape : AgentReports(run, shape)
             \/ \E row \in Row, new \in FindingStatus : Analyst(row, new)
    BY <2>2 DEF AgentReports, Analyst
  <2>3. ASSUME NEW p \in Pass, Commit(p)
        PROVE  /\ Commits(p)
               /\ Covered(report[p], Finding(r))
               /\ Finding(r).candidate \notin report[p].observed
    <3>1. Judge(p, r) = "resolved"
      BY <2>1, <2>3 DEF Commit, ApplyVerification, Resolves
    <3>2. Commits(p)
      BY <2>1, <2>3 DEF Commit, Commits, TypeOK
    <3>3. QED
      BY <3>1, <3>2 DEF Judge, Decide
  <2>4. ASSUME NEW s \in Scan, ScanPersist(s) \/ ScanFails(s) \/ ScanSelect(s)
        PROVE  FALSE
    BY <2>1, <2>4 DEF ScanPersist, ScanFails, ScanSelect, rows
  <2>5. ASSUME NEW p \in Pass, Finish(p) \/ Crash(p)
        PROVE  FALSE
    BY <2>1, <2>5 DEF Finish, Crash, rows
  <2>6. ASSUME NEW j \in Job,
               \/ \E asked \in SUBSET Row : RequestRecheck(j, asked)
               \/ \E kept \in Kept(j) : RecheckLoad(j, kept)
               \/ EngineAnswers(j) \/ EngineFails(j)
        PROVE  FALSE
    BY <2>1, <2>6 DEF RequestRecheck, RecheckLoad, EngineAnswers, EngineFails, rows
  <2>7. QED
    BY <2>1, <2>2, <2>3, <2>4, <2>5, <2>6 DEF Next, ScanStep, JobStep, Pass
<1>2. QED
  BY <1>1, TypeCorrect, PTL DEF Spec, ResolvedOnlyByCoverage
=============================================================================
