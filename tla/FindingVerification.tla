------------------------ MODULE FindingVerification ------------------------
(***************************************************************************)
(* The findings table and everything that writes a finding's status or its *)
(* verification history: agents that report findings, the tail of          *)
(* analyze_scan (persist a batch, then verify prior findings against the   *)
(* uploaded scan), the recheck_findings job, and analysts.                 *)
(*                                                                         *)
(* A verification pass works on ORM rows it read earlier.  The session is  *)
(* READ COMMITTED, rows carry no version column, and only the columns a    *)
(* pass assigned are written back, so a pass is modelled as a read of a    *)
(* snapshot (`loaded'), a report, and a later commit computed from that    *)
(* snapshot: the interval in between is the ai.engine call of a re-check   *)
(* (minutes) or the gap between SELECT and COMMIT of an upload.            *)
(***************************************************************************)
EXTENDS Coverage

CONSTANTS Shape,                 \* the finding shapes in play
          Scan,                  \* uploaded scans
          Run,                   \* runs of an agent that reports findings
          Job,                   \* recheck jobs, by arq job id
          Artifact,              \* what each scan's artifact parses to
          MaxFindingsPerRecheck, \* MAX_FINDINGS_PER_RECHECK
          MaxTries               \* arq's max_tries: how often a job is started

ASSUME ShapeAssumption == Shape \subseteq Shapes
ASSUME ArtifactAssumption ==
    /\ Artifact \in [Scan -> Artifacts]
    /\ \A s \in Scan : Artifact[s].findings \subseteq Shape
ASSUME NamesAssumption ==
    /\ Scan \cap Run = {} /\ Scan \cap Job = {} /\ Run \cap Job = {}
ASSUME LimitAssumption == MaxTries \in Nat \ {0} /\ MaxFindingsPerRecheck \in Nat

Source == Scan \cup Run

(* One row per observation and producer: dedupe_key contains the run or    *)
(* scan id, so a producer stores one observation at most once.             *)
Row == Source \X Shape
Finding(row) == row[2]
RawReference(row) == row[1]

Entries == [outcome : Outcome, source : Scan \cup Job]
Snapshots == [status : FindingStatus, history : Seq(Entries)]

VARIABLES
    status,     \* Row -> finding.status, None while there is no such row
    history,    \* Row -> evidence["verification"]
    phase,      \* Pass -> how far the worker has got with that job
    tries,      \* Pass -> how often the job was started (arq's job_try)
    ids,        \* Job -> the rows it was queued for, its argument
    loaded,     \* Pass -> the rows it works on, as it read them
    report      \* Pass -> the report it judges them by

Pass == Scan \cup Job
rows == <<status, history>>
jobs == <<phase, tries, ids, loaded, report>>
vars == <<status, history, phase, tries, ids, loaded, report>>

Phases == {"idle", "queued", "persisted", "loaded", "answered", "committed", "done"}

TypeOK ==
    /\ status \in [Row -> FindingStatus \cup {None}]
    /\ history \in [Row -> Seq(Entries)]
    /\ phase \in [Pass -> Phases]
    /\ tries \in [Pass -> 1 .. MaxTries]
    /\ ids \in [Job -> SUBSET Row]
    /\ DOMAIN loaded = Pass
    /\ \A p \in Pass : /\ DOMAIN loaded[p] \subseteq Row
                        /\ loaded[p] \in [DOMAIN loaded[p] -> Snapshots]
    /\ report \in [Pass -> Report]

NothingLoaded == [r \in {} |-> None]

Init ==
    /\ status = [r \in Row |-> None]
    /\ history = [r \in Row |-> <<>>]
    /\ phase = [p \in Pass |-> IF p \in Scan THEN "queued" ELSE "idle"]
    /\ tries = [p \in Pass |-> 1]
    /\ ids = [j \in Job |-> {}]
    /\ loaded = [p \in Pass |-> NothingLoaded]
    /\ report = [p \in Pass |-> EmptyReport]

Open == {r \in Row : status[r] \in OpenStatuses}

(* The rows as the session reads them now.                                 *)
Read(R) == [r \in R |-> [status |-> status[r], history |-> history[r]]]

-----------------------------------------------------------------------------
(* An agent run reports a finding (POST /findings, run_agent).             *)
AgentReports(run, shape) ==
    /\ status[<<run, shape>>] = None
    /\ status' = [status EXCEPT ![<<run, shape>>] = "new"]
    /\ UNCHANGED <<history, jobs>>

(* An analyst triages, resolves, re-opens (PATCH) or dismisses (DELETE) a  *)
(* finding: any status, at any time, written over whatever is there.       *)
Analyst(row, new) ==
    /\ status[row] # None
    /\ status' = [status EXCEPT ![row] = new]
    /\ UNCHANGED <<history, jobs>>

-----------------------------------------------------------------------------
(* apply_verification: every loaded row gets an entry appended to the      *)
(* history that was loaded, and a row judged resolved gets that status.    *)
(* One commit writes the rows back: the whole evidence of each, and the    *)
(* status of the resolved ones only.                                       *)
Judge(p, row) == Decide(loaded[p][row].status, Finding(row), report[p])

Resolves(p, row) == row \in DOMAIN loaded[p] /\ Judge(p, row) = "resolved"

NewHistory(p, row) ==
    Append(loaded[p][row].history, [outcome |-> Judge(p, row), source |-> p])

(* Mutants: the outcome itself is written as the status; the status of     *)
(* every loaded row is written back, changed or not.                       *)
ApplyOutcomes(p) ==
    /\ status' = [r \in Row |-> IF r \in DOMAIN loaded[p] THEN Judge(p, r) ELSE status[r]]
    /\ history' = [r \in Row |->
                      IF r \in DOMAIN loaded[p] THEN NewHistory(p, r) ELSE history[r]]

ApplyWholeRows(p) ==
    /\ status' = [r \in Row |-> IF Resolves(p, r) THEN "resolved"
                               ELSE IF r \in DOMAIN loaded[p] THEN loaded[p][r].status
                               ELSE status[r]]
    /\ history' = [r \in Row |->
                      IF r \in DOMAIN loaded[p] THEN NewHistory(p, r) ELSE history[r]]

ApplyVerification(p) ==
    /\ status' = [r \in Row |-> IF Resolves(p, r) THEN "resolved" ELSE status[r]]
    /\ history' = [r \in Row |->
                      IF r \in DOMAIN loaded[p] THEN NewHistory(p, r) ELSE history[r]]

Commit(p) ==
    /\ phase[p] = "answered"
    /\ ApplyVerification(p)
    /\ phase' = [phase EXCEPT ![p] = "committed"]
    /\ UNCHANGED <<tries, ids, loaded, report>>

(* The job returns and arq records its result: it will not run again.      *)
Finish(p) ==
    /\ phase[p] = "committed"
    /\ phase' = [phase EXCEPT ![p] = "done"]
    /\ loaded' = [loaded EXCEPT ![p] = NothingLoaded]
    /\ UNCHANGED <<rows, tries, ids, report>>

(* The worker dies or is stopped with the job in hand, and arq hands the   *)
(* job out again, at most MaxTries times in all.  Or the job is over: it   *)
(* has been tried that often, or it ran into job_timeout.                  *)
Crash(p) ==
    /\ phase[p] \notin {"idle", "queued", "done"}
    /\ \/ /\ tries[p] < MaxTries
          /\ phase' = [phase EXCEPT ![p] = "queued"]
          /\ tries' = [tries EXCEPT ![p] = @ + 1]
       \/ /\ phase' = [phase EXCEPT ![p] = "done"]
          /\ UNCHANGED tries
    /\ loaded' = [loaded EXCEPT ![p] = NothingLoaded]
    /\ UNCHANGED <<rows, ids, report>>

-----------------------------------------------------------------------------
(* analyze_scan up to the commit that completes the scan: the batch is     *)
(* stored, minus what an earlier try of this scan stored already.          *)
ScanPersist(s) ==
    /\ phase[s] = "queued"
    /\ status' = [r \in Row |->
                     IF /\ RawReference(r) = s
                        /\ Finding(r) \in Artifact[s].findings
                        /\ status[r] = None
                     THEN "new" ELSE status[r]]
    /\ phase' = [phase EXCEPT ![s] = "persisted"]
    /\ UNCHANGED <<history, tries, ids, loaded, report>>

(* The artifact cannot be parsed or the ai.engine cannot assess it: this   *)
(* try stores no finding and verifies none.                                *)
ScanFails(s) ==
    /\ phase[s] = "queued"
    /\ phase' = [phase EXCEPT ![s] = "done"]
    /\ UNCHANGED <<rows, tries, ids, loaded, report>>

(* Mutant of the prior findings: with the scan's own.                      *)
PriorWithOwn(s) ==
    {r \in Open : /\ Finding(r).asset \in Assets(Artifact[s])
                  /\ Finding(r).candidate # None}

(* The prior open findings an upload is verified against: on the scan's    *)
(* hosts, from a rule engine, and not reported by this very scan.          *)
Prior(s) ==
    {r \in Open : /\ Finding(r).asset \in Assets(Artifact[s])
                  /\ Finding(r).candidate # None
                  /\ RawReference(r) # s}

(* Mutant: a scan with nothing to judge is left where it is.               *)
ScanSelectSome(s) ==
    /\ phase[s] = "persisted"
    /\ Prior(s) # {}
    /\ phase' = [phase EXCEPT ![s] = "answered"]
    /\ loaded' = [loaded EXCEPT ![s] = Read(Prior(s))]
    /\ report' = [report EXCEPT ![s] = ReportFromScan(Artifact[s])]
    /\ UNCHANGED <<rows, tries, ids>>

(* verify_from_scan: nothing to do for a scan without hosts; otherwise     *)
(* read the prior findings and build the report from the artifact.         *)
ScanSelect(s) ==
    /\ phase[s] = "persisted"
    /\ \/ /\ Artifact[s].hosts = <<>>
          /\ phase' = [phase EXCEPT ![s] = "committed"]
          /\ UNCHANGED <<loaded, report>>
       \/ /\ Artifact[s].hosts # <<>>
          /\ phase' = [phase EXCEPT ![s] = "answered"]
          /\ loaded' = [loaded EXCEPT ![s] = Read(Prior(s))]
          /\ report' = [report EXCEPT ![s] = ReportFromScan(Artifact[s])]
    /\ UNCHANGED <<rows, tries, ids>>

-----------------------------------------------------------------------------
(* POST /findings/verify queues the open ones of the findings asked for.   *)
RequestRecheck(j, asked) ==
    /\ phase[j] = "idle"
    /\ asked \cap Open # {}
    /\ phase' = [phase EXCEPT ![j] = "queued"]
    /\ ids' = [ids EXCEPT ![j] = asked \cap Open]
    /\ UNCHANGED <<rows, tries, loaded, report>>

(* The ids the job keeps: at most MAX_FINDINGS_PER_RECHECK of them.  A     *)
(* request by asset lists them in no particular order.                     *)
Kept(j) ==
    {K \in SUBSET ids[j] :
        \/ K = ids[j] /\ Cardinality(K) <= MaxFindingsPerRecheck
        \/ Cardinality(K) = MaxFindingsPerRecheck}

(* recheck_findings up to the ai.engine call: read the rows, keep the open *)
(* ones a rule engine produced.  None left ends the job.  With no port to  *)
(* scan the pass goes on with an empty report and no call is made.         *)
RecheckLoad(j, kept) ==
    LET found == {r \in kept \cap Open : Finding(r).candidate # None}
        targets == TargetHosts({Finding(r) : r \in found})
    IN  /\ phase[j] = "queued"
        /\ phase' = [phase EXCEPT ![j] =
               IF found = {} THEN "done" ELSE IF targets = {} THEN "answered" ELSE "loaded"]
        /\ loaded' = [loaded EXCEPT ![j] = Read(found)]
        /\ report' = [report EXCEPT ![j] = EmptyReport]
        /\ UNCHANGED <<rows, tries, ids>>

(* The ai.engine has re-scanned the targets and answers.                   *)
EngineAnswers(j) ==
    /\ phase[j] = "loaded"
    /\ phase' = [phase EXCEPT ![j] = "answered"]
    /\ \E answer \in EngineReports({Finding(r) : r \in DOMAIN loaded[j]}) :
           report' = [report EXCEPT ![j] = answer]
    /\ UNCHANGED <<rows, tries, ids, loaded>>

(* The call fails: AiEngineError is returned as the job's result.          *)
EngineFails(j) ==
    /\ phase[j] = "loaded"
    /\ phase' = [phase EXCEPT ![j] = "done"]
    /\ loaded' = [loaded EXCEPT ![j] = NothingLoaded]
    /\ UNCHANGED <<rows, tries, ids, report>>

-----------------------------------------------------------------------------
ScanStep(s) == ScanPersist(s) \/ ScanFails(s) \/ ScanSelect(s) \/ Commit(s) \/ Finish(s)

JobStep(j) ==
    \/ \E kept \in Kept(j) : RecheckLoad(j, kept)
    \/ EngineAnswers(j)
    \/ EngineFails(j)
    \/ Commit(j)
    \/ Finish(j)

Next ==
    \/ \E run \in Run, shape \in Shape : AgentReports(run, shape)
    \/ \E row \in Row, new \in FindingStatus : Analyst(row, new)
    \/ \E s \in Scan : ScanStep(s) \/ Crash(s)
    \/ \E j \in Job : (\E asked \in SUBSET Row : RequestRecheck(j, asked)) \/ JobStep(j) \/ Crash(j)

Spec == Init /\ [][Next]_vars

(* The worker keeps taking jobs and a pass it runs makes progress.  No     *)
(* fairness for analysts, agents or requests, and none for crashes.        *)
Fairness ==
    /\ \A s \in Scan : WF_vars(ScanStep(s))
    /\ \A j \in Job : WF_vars(JobStep(j))

FairSpec == Spec /\ Fairness

-----------------------------------------------------------------------------
(* The pass that commits in this step, if any.                             *)
Commits(p) == phase[p] = "answered" /\ phase'[p] = "committed"

(* "A finding may only be resolved when coverage proves it was genuinely   *)
(* re-checked": a status becomes resolved only by an analyst, or in the    *)
(* commit of a pass whose report covers the finding's host and port and    *)
(* does not observe its candidate.                                         *)
ResolvedOnlyByCoverage ==
    [][\A r \in Row : status[r] # "resolved" /\ status'[r] = "resolved" =>
          \/ UNCHANGED jobs
          \/ \E p \in Pass :
                /\ Commits(p)
                /\ Covered(report[p], Finding(r))
                /\ Finding(r).candidate \notin report[p].observed]_vars

(* The platform never undoes triage: a step of a worker changes the status *)
(* of a stored finding only to resolved.  Neither a pass working on stale  *)
(* rows nor the second try of a scan that was already stored re-opens a    *)
(* finding an analyst closed, or resets one an analyst triaged.            *)
PlatformOnlyCloses ==
    [][\A r \in Row : status[r] # None /\ status'[r] # status[r] =>
          UNCHANGED jobs \/ status'[r] = "resolved"]_vars

(* A scan is no evidence about the findings it reported itself, on no try  *)
(* of its job: their history never names that scan.                        *)
OwnFindingsNotJudged ==
    \A r \in Row : \A i \in DOMAIN history[r] : history[r][i].source # RawReference(r)

(* No history ever claims more than a network scan can show: a finding     *)
(* without a candidate id is never judged at all, and one without a port   *)
(* or an asset is never covered, observed or resolved.                     *)
HistoryIsVerifiable ==
    \A r \in Row : \A i \in DOMAIN history[r] :
        /\ Finding(r).candidate # None
        /\ history[r][i].outcome \notin {"unverifiable"} =>
              Finding(r).port # None /\ Finding(r).asset # None

(* Every job that is queued comes to an end, whatever crashes in between:  *)
(* it commits its outcomes, has nothing to verify, fails or is given up.   *)
EveryPassEnds ==
    \A p \in Pass : phase[p] = "queued" ~> phase[p] = "done"

-----------------------------------------------------------------------------
(* What the documentation promises and the interleavings refute.           *)

(* verification.py: OPEN_STATUSES are the "statuses a verification pass is *)
(* allowed to look at".  A pass never changes the status of a finding that *)
(* is not open.                                                            *)
PassLeavesClosedAlone ==
    [][\A r \in Row : status[r] \in FindingStatus \ OpenStatuses =>
          UNCHANGED jobs \/ status'[r] = status[r]]_vars
=============================================================================
