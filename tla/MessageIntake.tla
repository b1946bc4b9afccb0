--------------------------- MODULE MessageIntake ---------------------------
(***************************************************************************)
(* A submitted e-mail or URL from POST /messages to its last status:       *)
(* upload_message and submit_url store the row and queue the job, and      *)
(* analyze_message takes it through parsing (a URL needs none), assessment *)
(* and persistence.  The same tries as an uploaded scan, and one thing     *)
(* more: the headline verdict, kept on the row beside the findings it is   *)
(* derived from.                                                           *)
(***************************************************************************)
EXTENDS ArqQueue, FiniteSets

CONSTANTS Url,          \* the items that are bare URLs
          Unparseable,  \* the e-mails the MIME parser rejects
          Key,          \* dedupe keys: one observation in one wording
          Batches,      \* Item -> the batches the ai.engine may answer with
          None          \* SQL NULL: no verdict

Severity == {"info", "low", "medium", "high", "critical"}
Verdict == {"clean", "suspicious", "phishing"}

(* A batch rates every observation it contains once.  Neither wording nor  *)
(* severity is the same on every try: a model may rate above the rules.    *)
Ratings == [key : Key, severity : Severity]

ASSUME MessageAssumption ==
    /\ Url \subseteq Item /\ Unparseable \subseteq Item \ Url
    /\ Batches \in [Item -> SUBSET SUBSET Ratings]
    /\ \A m \in Item : \A b \in Batches[m] :
           /\ IsFiniteSet(b)
           /\ \A f, g \in b : f.key = g.key => f = g
    /\ None \notin Verdict

VARIABLES
    status,   \* Item -> messages.status, "absent" before the submission
    verdict,  \* Item -> messages.verdict
    count,    \* Item -> messages.finding_count
    stored,   \* Item -> the findings rows with this message_id
    at,       \* Item -> where analyze_message stands
    batch,    \* Item -> the batch it received last
    added     \* Item -> rows its last persist_findings inserted

row == <<status, verdict, count>>
vars == <<job, tries, status, verdict, count, stored, at, batch, added>>

Places == {"idle", "start", "parsing", "analyzing", "assessed", "persisted", "closed"}

TypeOK ==
    /\ QueueTypeOK
    /\ status \in [Item -> {"absent", "pending", "parsing", "analyzing", "completed", "failed"}]
    /\ verdict \in [Item -> Verdict \cup {None}]
    /\ count \in [Item -> Nat]
    /\ stored \in [Item -> SUBSET Ratings]
    /\ at \in [Item -> Places]
    /\ batch \in [Item -> SUBSET Ratings]
    /\ added \in [Item -> Nat]

Init ==
    /\ QueueInit
    /\ status = [m \in Item |-> "absent"]
    /\ verdict = [m \in Item |-> None]
    /\ count = [m \in Item |-> 0]
    /\ stored = [m \in Item |-> {}]
    /\ at = [m \in Item |-> "idle"]
    /\ batch = [m \in Item |-> {}]
    /\ added = [m \in Item |-> 0]

(* Mutant: a message nobody would call phishing is given no verdict of the *)
(* enumeration but its severity.                                           *)
VerdictOrSeverity(findings) ==
    LET rated == {f.severity : f \in findings}
    IN  IF rated \cap {"critical", "high"} # {} THEN "phishing"
        ELSE IF rated \cap {"medium", "low"} # {} THEN "suspicious"
        ELSE "info"

(* verdict_for: the verdict of the most severe finding, clean if there is  *)
(* none.                                                                   *)
VerdictFor(findings) ==
    LET rated == {f.severity : f \in findings}
    IN  IF rated \cap {"critical", "high"} # {} THEN "phishing"
        ELSE IF rated \cap {"medium", "low"} # {} THEN "suspicious"
        ELSE "clean"

-----------------------------------------------------------------------------
(* upload_message and submit_url: the row is committed, then the job is    *)
(* queued.                                                                 *)
Upload(m) ==
    /\ status[m] = "absent"
    /\ status' = [status EXCEPT ![m] = "pending"]
    /\ UNCHANGED <<job, tries, verdict, count, stored, at, batch, added>>

Submit(m) ==
    /\ status[m] = "pending"
    /\ Enqueue(m) \/ EnqueueFails(m)
    /\ UNCHANGED <<row, stored, at, batch, added>>

-----------------------------------------------------------------------------
(* analyze_message.                                                        *)
Goes(m, from, to) ==
    /\ job[m] = "running"
    /\ at[m] = from
    /\ at' = [at EXCEPT ![m] = to]

Start(m) ==
    /\ Take(m)
    /\ at' = [at EXCEPT ![m] = "start"]
    /\ UNCHANGED <<row, stored, batch, added>>

MarkParsing(m) ==
    /\ Goes(m, "start", "parsing")
    /\ status' = [status EXCEPT ![m] = "parsing"]
    /\ UNCHANGED <<job, tries, verdict, count, stored, batch, added>>

(* Mutant: a URL, which needs no parsing, stays shown as `parsing'.        *)
ParseEmailOnly(m) ==
    /\ m \notin Unparseable
    /\ Goes(m, "parsing", "analyzing")
    /\ status' = IF m \in Url THEN status ELSE [status EXCEPT ![m] = "analyzing"]
    /\ UNCHANGED <<job, tries, verdict, count, stored, batch, added>>

(* A URL is wrapped, an e-mail parsed; both are then `analyzing'.          *)
Parse(m) ==
    /\ m \notin Unparseable
    /\ Goes(m, "parsing", "analyzing")
    /\ status' = [status EXCEPT ![m] = "analyzing"]
    /\ UNCHANGED <<job, tries, verdict, count, stored, batch, added>>

(* Mutant: a verdict of an earlier try survives the failure.               *)
FailKeepsVerdict(m) ==
    /\ \/ m \in Unparseable /\ Goes(m, "parsing", "closed")
       \/ Goes(m, "analyzing", "closed")
    /\ status' = [status EXCEPT ![m] = "failed"]
    /\ UNCHANGED <<job, tries, verdict, count, stored, batch, added>>

(* _fail: the e-mail is rejected or the ai.engine reports an error.  The   *)
(* verdict is taken back.                                                  *)
Fail(m) ==
    /\ \/ m \in Unparseable /\ Goes(m, "parsing", "closed")
       \/ Goes(m, "analyzing", "closed")
    /\ status' = [status EXCEPT ![m] = "failed"]
    /\ verdict' = [verdict EXCEPT ![m] = None]
    /\ UNCHANGED <<job, tries, count, stored, batch, added>>

Assess(m) ==
    /\ Goes(m, "analyzing", "assessed")
    /\ \E answer \in Batches[m] : batch' = [batch EXCEPT ![m] = answer]
    /\ UNCHANGED <<job, tries, row, stored, added>>

(* persist_findings: a key that is in the table keeps the row it has.      *)
New(m) == {f \in batch[m] : \A g \in stored[m] : g.key # f.key}

Persist(m) ==
    /\ Goes(m, "assessed", "persisted")
    /\ stored' = [stored EXCEPT ![m] = @ \cup New(m)]
    /\ added' = [added EXCEPT ![m] = Cardinality(New(m))]
    /\ UNCHANGED <<job, tries, row, batch>>

(* Mutant: one threshold for the verdict, so a mild finding reads as clean.*)
CompleteTwoValued(m) ==
    /\ Goes(m, "persisted", "closed")
    /\ status' = [status EXCEPT ![m] = "completed"]
    /\ count' = [count EXCEPT ![m] = added[m]]
    /\ verdict' = [verdict EXCEPT ![m] =
                      IF VerdictFor(batch[m]) = "phishing" THEN "phishing" ELSE "clean"]
    /\ UNCHANGED <<job, tries, stored, batch, added>>

(* The count is of the rows inserted, the verdict of the batch received.   *)
Complete(m) ==
    /\ Goes(m, "persisted", "closed")
    /\ status' = [status EXCEPT ![m] = "completed"]
    /\ count' = [count EXCEPT ![m] = added[m]]
    /\ verdict' = [verdict EXCEPT ![m] = VerdictFor(batch[m])]
    /\ UNCHANGED <<job, tries, stored, batch, added>>

Finish(m) ==
    /\ at[m] = "closed"
    /\ Return(m)
    /\ at' = [at EXCEPT ![m] = "idle"]
    /\ UNCHANGED <<row, stored, batch, added>>

-----------------------------------------------------------------------------
(* The worker dies or is stopped; the task is cut off by job_timeout or    *)
(* raises; the job has been handed out too often.                          *)
Interrupt(m) ==
    /\ Requeue(m)
    /\ at' = [at EXCEPT ![m] = "idle"]
    /\ UNCHANGED <<row, stored, batch, added>>

Abort(m) ==
    /\ Return(m)
    /\ at[m] # "closed"
    /\ at' = [at EXCEPT ![m] = "idle"]
    /\ UNCHANGED <<row, stored, batch, added>>

Abandon(m) ==
    /\ GiveUp(m)
    /\ UNCHANGED <<row, stored, at, batch, added>>

-----------------------------------------------------------------------------
TaskStep(m) ==
    \/ MarkParsing(m) \/ Parse(m) \/ Fail(m) \/ Assess(m)
    \/ Persist(m) \/ Complete(m) \/ Finish(m)

Next ==
    \E m \in Item :
        \/ Upload(m) \/ Submit(m) \/ Start(m) \/ TaskStep(m)
        \/ Interrupt(m) \/ Abort(m) \/ Abandon(m)

Spec == Init /\ [][Next]_vars

-----------------------------------------------------------------------------
(* Polling clients are shown a lifecycle: no stage is skipped, and the     *)
(* keys of a message's findings appear only while it is analyzed.          *)
Lifecycle == INSTANCE IntakeLifecycle
    WITH shown <- status, findings <- [m \in Item |-> {f.key : f \in stored[m]}]
FollowsLifecycle == Lifecycle!Spec

(* "An unanalysed or failed message has no verdict - which is deliberately *)
(* different from a verdict of clean": none before the first completion    *)
(* and none once it failed, on whatever try; a completed message has one.  *)
VerdictOnlyIfAnalysed ==
    \A m \in Item :
        /\ status[m] \in {"absent", "pending", "failed"} => verdict[m] = None
        /\ tries[m] <= 1 /\ status[m] # "completed" => verdict[m] = None
        /\ status[m] = "completed" => verdict[m] # None

(* No severe finding is hidden behind a milder verdict by a first try: the *)
(* verdict and the count are those of the rows stored.                     *)
FirstTryVerdictIsExact ==
    \A m \in Item : tries[m] <= 1 /\ status[m] = "completed" =>
        verdict[m] = VerdictFor(stored[m]) /\ count[m] = Cardinality(stored[m])
=============================================================================
