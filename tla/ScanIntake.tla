----------------------------- MODULE ScanIntake -----------------------------
(***************************************************************************)
(* An uploaded scan from POST /scans to its last status: upload_scan       *)
(* stores the row and queues the job, and the worker's analyze_scan takes  *)
(* it through parsing, assessment by the ai.engine, and persistence, with  *)
(* a commit after each stage.  Between any two commits the worker may die  *)
(* and the job start over, or be cut off for good by job_timeout.          *)
(*                                                                         *)
(* Verification of earlier findings, the last thing the job does, is       *)
(* FindingVerification's; here it is the interval between the commit that  *)
(* completes the scan and the return of the job.                           *)
(***************************************************************************)
EXTENDS ArqQueue, FiniteSets

CONSTANTS Unparseable,  \* items whose artifact the parser rejects
          Key,          \* dedupe keys: one observation in one wording
          Batches       \* Item -> the batches the ai.engine may answer with

(* The wording comes from a model, so two tries over one artifact may      *)
(* bring different batches.                                                *)
ASSUME BatchesAssumption ==
    /\ Batches \in [Item -> SUBSET SUBSET Key]
    /\ IsFiniteSet(Key)

VARIABLES
    status,   \* Item -> scans.status, "absent" before the upload
    count,    \* Item -> scans.finding_count
    stored,   \* Item -> keys of the findings rows with this scan_id
    at,       \* Item -> where analyze_scan stands
    batch,    \* Item -> the batch it received last
    added     \* Item -> rows its last persist_findings inserted

vars == <<job, tries, status, count, stored, at, batch, added>>

Places == {"idle", "start", "parsing", "analyzing", "assessed", "persisted", "closed"}

TypeOK ==
    /\ QueueTypeOK
    /\ status \in [Item -> {"absent", "pending", "parsing", "analyzing", "completed", "failed"}]
    /\ count \in [Item -> Nat]
    /\ stored \in [Item -> SUBSET Key]
    /\ at \in [Item -> Places]
    /\ batch \in [Item -> SUBSET Key]
    /\ added \in [Item -> Nat]

Init ==
    /\ QueueInit
    /\ status = [s \in Item |-> "absent"]
    /\ count = [s \in Item |-> 0]
    /\ stored = [s \in Item |-> {}]
    /\ at = [s \in Item |-> "idle"]
    /\ batch = [s \in Item |-> {}]
    /\ added = [s \in Item |-> 0]

-----------------------------------------------------------------------------
(* upload_scan: the row is committed first, then the job is queued.        *)
Upload(s) ==
    /\ status[s] = "absent"
    /\ status' = [status EXCEPT ![s] = "pending"]
    /\ UNCHANGED <<job, tries, count, stored, at, batch, added>>

Submit(s) ==
    /\ status[s] = "pending"
    /\ Enqueue(s) \/ EnqueueFails(s)
    /\ UNCHANGED <<status, count, stored, at, batch, added>>

-----------------------------------------------------------------------------
(* analyze_scan.  `Goes' moves the task on; a try starts from the row that *)
(* earlier tries have left.                                                *)
Goes(s, from, to) ==
    /\ job[s] = "running"
    /\ at[s] = from
    /\ at' = [at EXCEPT ![s] = to]

Start(s) ==
    /\ Take(s)
    /\ at' = [at EXCEPT ![s] = "start"]
    /\ UNCHANGED <<status, count, stored, batch, added>>

(* Mutant: the scan is marked with the word the runs use.                  *)
MarkRunning(s) ==
    /\ Goes(s, "start", "parsing")
    /\ status' = [status EXCEPT ![s] = "running"]
    /\ UNCHANGED <<job, tries, count, stored, batch, added>>

MarkParsing(s) ==
    /\ Goes(s, "start", "parsing")
    /\ status' = [status EXCEPT ![s] = "parsing"]
    /\ UNCHANGED <<job, tries, count, stored, batch, added>>

(* Mutant: the change to `analyzing' is not committed.                     *)
ParseUncommitted(s) ==
    /\ s \notin Unparseable
    /\ Goes(s, "parsing", "analyzing")
    /\ UNCHANGED <<job, tries, status, count, stored, batch, added>>

Parse(s) ==
    /\ s \notin Unparseable
    /\ Goes(s, "parsing", "analyzing")
    /\ status' = [status EXCEPT ![s] = "analyzing"]
    /\ UNCHANGED <<job, tries, count, stored, batch, added>>

(* Mutant: an error after the batch was stored fails the scan as well.     *)
FailLate(s) ==
    /\ \/ s \in Unparseable /\ Goes(s, "parsing", "closed")
       \/ Goes(s, "analyzing", "closed")
       \/ Goes(s, "persisted", "closed")
    /\ status' = [status EXCEPT ![s] = "failed"]
    /\ UNCHANGED <<job, tries, count, stored, batch, added>>

(* _fail: the artifact is rejected or the ai.engine reports an error.      *)
Fail(s) ==
    /\ \/ s \in Unparseable /\ Goes(s, "parsing", "closed")
       \/ Goes(s, "analyzing", "closed")
    /\ status' = [status EXCEPT ![s] = "failed"]
    /\ UNCHANGED <<job, tries, count, stored, batch, added>>

Assess(s) ==
    /\ Goes(s, "analyzing", "assessed")
    /\ \E answer \in Batches[s] : batch' = [batch EXCEPT ![s] = answer]
    /\ UNCHANGED <<job, tries, status, count, stored, added>>

(* Mutant: a scan that has findings is not given any more.                 *)
PersistOnce(s) ==
    /\ Goes(s, "assessed", "persisted")
    /\ stored' = [stored EXCEPT ![s] = IF @ = {} THEN batch[s] ELSE @]
    /\ added' = [added EXCEPT ![s] = Cardinality(batch[s] \ stored[s])]
    /\ UNCHANGED <<job, tries, status, count, batch>>

(* persist_findings: the keys that are not in the table yet, one commit.   *)
Persist(s) ==
    /\ Goes(s, "assessed", "persisted")
    /\ stored' = [stored EXCEPT ![s] = @ \cup batch[s]]
    /\ added' = [added EXCEPT ![s] = Cardinality(batch[s] \ stored[s])]
    /\ UNCHANGED <<job, tries, status, count, batch>>

Complete(s) ==
    /\ Goes(s, "persisted", "closed")
    /\ status' = [status EXCEPT ![s] = "completed"]
    /\ count' = [count EXCEPT ![s] = added[s]]
    /\ UNCHANGED <<job, tries, stored, batch, added>>

(* Mutant: a task that failed its scan does not return.                    *)
FinishCompleted(s) ==
    /\ at[s] = "closed"
    /\ status[s] = "completed"
    /\ Return(s)
    /\ at' = [at EXCEPT ![s] = "idle"]
    /\ UNCHANGED <<status, count, stored, batch, added>>

(* The task returns, after verification if it completed the scan.          *)
Finish(s) ==
    /\ at[s] = "closed"
    /\ Return(s)
    /\ at' = [at EXCEPT ![s] = "idle"]
    /\ UNCHANGED <<status, count, stored, batch, added>>

-----------------------------------------------------------------------------
(* The worker is killed or stopped: arq will hand the job out again.       *)
Interrupt(s) ==
    /\ Requeue(s)
    /\ at' = [at EXCEPT ![s] = "idle"]
    /\ UNCHANGED <<status, count, stored, batch, added>>

(* job_timeout (300 s) cuts the task off while it waits for the ai.engine, *)
(* which is given 420 s, or while it verifies, or it raises something it   *)
(* does not handle: the job is over and the row stays as it is.            *)
Abort(s) ==
    /\ Return(s)
    /\ at[s] # "closed" \/ status[s] = "completed"
    /\ at' = [at EXCEPT ![s] = "idle"]
    /\ UNCHANGED <<status, count, stored, batch, added>>

Abandon(s) ==
    /\ GiveUp(s)
    /\ UNCHANGED <<status, count, stored, at, batch, added>>

-----------------------------------------------------------------------------
TaskStep(s) ==
    \/ MarkParsing(s) \/ Parse(s) \/ Fail(s) \/ Assess(s)
    \/ Persist(s) \/ Complete(s) \/ Finish(s)

WorkerStep(s) == Start(s) \/ TaskStep(s) \/ Abandon(s)

Next ==
    \E s \in Item : Upload(s) \/ Submit(s) \/ WorkerStep(s) \/ Interrupt(s) \/ Abort(s)

Spec == Init /\ [][Next]_vars

(* The worker keeps polling the queue and every step of a task ends; that  *)
(* is all.  No upload is bound to happen.                                  *)
FairSpec == Spec /\ \A s \in Item : WF_vars(WorkerStep(s)) /\ WF_vars(Submit(s))

-----------------------------------------------------------------------------
(* Polling clients are shown a lifecycle, whatever is interrupted: no      *)
(* stage is skipped, and findings appear only while the scan is analyzed.  *)
Lifecycle == INSTANCE IntakeLifecycle WITH shown <- status, findings <- stored
FollowsLifecycle == Lifecycle!Spec

(* Whoever sees a completed scan sees all of its findings: every key of    *)
(* the batch that completed it is stored, also when rows of an earlier try *)
(* were in the table already.                                              *)
CompletedHasItsFindings == \A s \in Item : status[s] = "completed" => batch[s] \subseteq stored[s]

(* Without an interruption the row is exact: it fails with no findings     *)
(* stored, or completes with finding_count the number of them.             *)
FirstTryIsExact ==
    \A s \in Item : tries[s] <= 1 =>
        /\ status[s] = "failed" => stored[s] = {}
        /\ status[s] = "completed" => count[s] = Cardinality(stored[s])

(* Every job that is queued is over some day: interruptions hand it out    *)
(* again only so often.                                                    *)
EveryJobEnds == \A s \in Item : job[s] = "queued" ~> job[s] = "over"
=============================================================================
