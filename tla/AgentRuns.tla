------------------------------ MODULE AgentRuns ------------------------------
(* One run of the Run Agent page: its row in the runs table, the agents working
   on it, and the findings they store.

   The page creates the run, asks the backend for each agent it selected and
   waits (inline); other clients have agents run in the background by the worker, or
   push findings.  agent_statuses has two writers over one column: the
   page, which PATCHes its whole map and neither waits for the answer nor tries
   again, and the worker, which reads the map, merges its agent and writes it
   back.  Findings are stored after a look-up of the keys that exist, with no
   constraint in the table behind it.  Every await is a step.

   All of it happens within one DEDUPE_WINDOW, the day after which a key is
   forgotten.  Left out: the discovery report, which nothing reads back, the wording of
   errors, and runs other than this one. *)
EXTENDS ArqQueue, Sequences, FiniteSets

CONSTANTS None,
          Agent,         \* agents of the run
          PageTask,      \* the page's inline requests, one per agent
          PageAgent,     \* which agent each of them is for
          Client,        \* requests of other clients
          Request,       \* what they may ask: an agent, whether for this run, whether to persist
          Observation,   \* what an agent may find
          Batch          \* the answers the ai.engine may give

ASSUME RunAssumption ==
  /\ PageAgent \in [PageTask -> Agent]
  /\ Request \subseteq [agent : Agent, named : BOOLEAN, persist : BOOLEAN]
  /\ Batch \subseteq Seq(Observation)
  /\ Item = Client
  /\ PageTask \cap Client = {}
  /\ None \notin Agent

Task == PageTask \cup Client

VARIABLES run,      \* the row: status, whether finished_at is set, agent_statuses
          patches,  \* PATCHes of the page on their way; one that is lost never arrives
          page,     \* the page: its stage and the map it shows
          task,     \* requests being worked on
          stored,   \* scope and agent -> how often each observation is stored
          told,     \* history: what a job last recorded of each agent
          spoiled,  \* history: agents whose record somebody wrote over since
          raced     \* history: scopes and agents whose writers overlapped

taskVars == <<job, tries, task>>
runVars == <<run, patches, page>>
history == <<told, spoiled, raced>>
vars == <<taskVars, runVars, stored, history>>

----------------------------------------------------------------------------
(* The row and what it is told. *)

Snapshot(state, count) == [state |-> state, count |-> count]
States == {"pending", "running", "skipped", "done", "error"}
\* Mutant: the word an earlier worker used, which the page does not know.
AnsweredCompleted(count) == Snapshot("completed", count)
Answered(count) == Snapshot("done", count)
NoStatuses == [a \in Agent |-> None]
RunStatus == {"none", "running", "completed", "completed_with_errors"}

\* What the worker writes back: the map it loaded with its own agent replaced.
\* Mutant: the agent's entry is all there is.
MergedAlone(statuses, agent, snapshot) == [NoStatuses EXCEPT ![agent] = snapshot]
Merged(statuses, agent, snapshot) == [statuses EXCEPT ![agent] = snapshot]

\* update_run: what the PATCH carries is set, and finished_at only once.
Patched(row, patch) ==
  [status |-> IF patch.status = None THEN row.status ELSE patch.status,
   finished |-> IF patch.status = None THEN row.finished
                ELSE IF patch.status = "running" THEN FALSE ELSE TRUE,
   statuses |-> IF patch.statuses = None THEN row.statuses ELSE patch.statuses]

StatusesPatch(statuses) == [status |-> None, statuses |-> statuses]
StatusPatch(status) == [status |-> status, statuses |-> None]

Deliver(patch) ==
  /\ patch \in patches
  /\ patches' = patches \ {patch}
  /\ run' = Patched(run, patch)
  /\ spoiled' = IF patch.statuses = None THEN spoiled ELSE Agent
  /\ UNCHANGED <<taskVars, page, stored, told, raced>>

----------------------------------------------------------------------------
(* Requests.  `agent', `named' (run_id is given) and `persist' are the request;
   `missed' are the scopes and agents others wrote about since this one read. *)

\* Work on a request just begun, or just carried on: nothing is read yet.
Working(phase, request, batch, say) ==
  [phase |-> phase, agent |-> request.agent, named |-> request.named,
   persist |-> request.persist, batch |-> batch, say |-> say,
   seen |-> {}, loaded |-> None, missed |-> {}]

Inline(agent) == [agent |-> agent, named |-> TRUE, persist |-> TRUE]
NoTask == Working("idle", Inline(None), <<>>, None)

\* The key of a finding has the agent and the run.
Scope(t) == <<task[t].agent, task[t].named>>
Scopes == Agent \X BOOLEAN

\* The request as it was made, with nothing of the work on it.
Asking(t, phase) == Working(phase, task[t], <<>>, None)
Go(t, phase) == task' = [task EXCEPT ![t] = Asking(t, phase)]

\* Those that are in `phase', having read and not yet written, miss what t writes.
Noticed(t, phase, next) ==
  [u \in Task |-> IF u = t THEN next
                  ELSE IF task[u].phase = phase
                    THEN [task[u] EXCEPT !.missed = @ \cup {Scope(t)}]
                    ELSE task[u]]

\* client.analyze: findings, in any number and with repeats, or an error.
Answers(t) ==
  /\ task[t].phase = "analyzing"
  /\ \E batch \in Batch :
       task' = [task EXCEPT ![t] =
         IF task[t].persist
           THEN Working("answered", task[t], batch, None)
           ELSE Working("stored", task[t], <<>>, Answered(Len(batch)))]
  /\ UNCHANGED <<job, tries, runVars, stored, history>>

\* persist_findings looks up which keys exist; nothing to store, nothing to look up.
LookUp(t) ==
  /\ task[t].phase = "answered"
  /\ task' = [task EXCEPT ![t].phase = "looked", ![t].missed = {},
       ![t].seen = {o \in Observation : stored[Scope(t)][o] > 0}]
  /\ UNCHANGED <<job, tries, runVars, stored, history>>

\* The positions of a batch that are stored: not seen before, nor earlier in it.
\* Mutant: the batch is not compared with itself.
FreshAgainstTable(batch, seen) == {i \in DOMAIN batch : batch[i] \notin seen}
FreshIn(batch, seen) ==
  {i \in DOMAIN batch : /\ batch[i] \notin seen
                        /\ \A j \in 1 .. i - 1 : batch[j] # batch[i]}

\* How many findings the agent is said to have produced: the rows, not the batch.
RowCountOfBatch(batch, seen) == Len(batch)
RowCount(batch, seen) == Cardinality(FreshIn(batch, seen))

AddedRows(batch, seen, o) == Cardinality({i \in FreshIn(batch, seen) : batch[i] = o})

Store(t) ==
  /\ task[t].phase = "looked"
  /\ LET fresh == FreshIn(task[t].batch, task[t].seen)
         next == Working("stored", task[t], <<>>,
                         Answered(RowCount(task[t].batch, task[t].seen)))
     IN  /\ stored' = [stored EXCEPT ![Scope(t)] =
                         [o \in Observation |-> @[o] + AddedRows(task[t].batch, task[t].seen, o)]]
         /\ task' = IF fresh = {} THEN [task EXCEPT ![t] = next]
                                  ELSE Noticed(t, "looked", next)
  /\ raced' = IF Scope(t) \in task[t].missed THEN raced \cup {Scope(t)} ELSE raced
  /\ UNCHANGED <<job, tries, runVars, told, spoiled>>

----------------------------------------------------------------------------
(* Background: the worker's agent_run. *)

\* POST /agents/{agent}/run with background: queued, or Redis is away.
Asked(c, request, phase, batch) ==
  /\ task[c].phase = "idle"
  /\ request.named => run.status # "none"
  /\ task' = [task EXCEPT ![c] = Working(phase, request, batch, None)]

Submit(c, request) ==
  /\ Asked(c, request, "queued", <<>>)
  /\ Enqueue(c) \/ EnqueueFails(c)
  /\ UNCHANGED <<runVars, stored, history>>

\* POST /findings and /findings/batch: the findings are given.  A single one
\* that is a duplicate stores nothing and its response fails.
Push(c, request, batch) ==
  /\ request.persist
  /\ Asked(c, request, "answered", batch)
  /\ UNCHANGED <<job, tries, runVars, stored, history>>

\* A request that names no run has nowhere to record its state.
Says(t, snapshot) ==
  IF task[t].named THEN Working("loading", task[t], <<>>, snapshot)
                   ELSE Asking(t, IF snapshot.state = "running" THEN "analyzing" ELSE "recorded")

Start(c) ==
  /\ Take(c)
  /\ task' = [task EXCEPT ![c] = Says(c, Snapshot("running", 0))]
  /\ UNCHANGED <<runVars, stored, history>>

\* _record_agent_status: load, merge, commit.
RecordLoad(t) ==
  /\ task[t].phase = "loading"
  /\ task' = [task EXCEPT ![t].phase = "recording", ![t].loaded = run.statuses,
                          ![t].missed = {}]
  /\ UNCHANGED <<job, tries, runVars, stored, history>>

Recorded(t) ==
  Asking(t, IF task[t].say.state = "running" THEN "analyzing" ELSE "recorded")

\* A map that equals the loaded one is not written.
RecordCommit(t) ==
  /\ task[t].phase = "recording"
  /\ LET agent == task[t].agent
         statuses == Merged(task[t].loaded, agent, task[t].say)
         lost == {scope[1] : scope \in task[t].missed}
     IN  /\ \/ /\ statuses = task[t].loaded
              /\ spoiled' = spoiled \cup (lost \cap {agent})
              /\ task' = [task EXCEPT ![t] = Recorded(t)]
              /\ UNCHANGED run
           \/ /\ statuses # task[t].loaded
              /\ spoiled' = (spoiled \cup lost) \ {agent}
              /\ task' = Noticed(t, "recording", Recorded(t))
              /\ run' = [run EXCEPT !.statuses = statuses]
         /\ told' = [told EXCEPT ![agent] = task[t].say]
  /\ UNCHANGED <<job, tries, patches, page, stored, raced>>

\* The rows are stored, and the count goes onto the run.
RecordDone(c) ==
  /\ task[c].phase = "stored"
  /\ job[c] = "running"
  /\ task' = [task EXCEPT ![c] = Says(c, task[c].say)]
  /\ UNCHANGED <<job, tries, runVars, stored, history>>

\* AiEngineError: recorded in a session of its own, and the job ends.
RecordError(c) ==
  /\ task[c].phase = "analyzing"
  /\ job[c] = "running"
  /\ task' = [task EXCEPT ![c] = Says(c, Snapshot("error", 0))]
  /\ UNCHANGED <<job, tries, runVars, stored, history>>

Ends(c) ==
  /\ task[c].phase = "recorded"
  /\ Return(c)
  /\ Go(c, "over")
  /\ UNCHANGED <<runVars, stored, history>>

\* The worker dies or shuts down: the job is handed out again from its start.
Interrupt(c) ==
  /\ Requeue(c)
  /\ Go(c, "queued")
  /\ UNCHANGED <<runVars, stored, history>>

\* job_timeout cuts the job off wherever it is, and nothing is recorded.
TimesOut(c) ==
  /\ Return(c)
  /\ Go(c, "over")
  /\ UNCHANGED <<runVars, stored, history>>

Abandon(c) ==
  /\ GiveUp(c)
  /\ Go(c, "over")
  /\ UNCHANGED <<runVars, stored, history>>

----------------------------------------------------------------------------
(* The page. *)

Initial(selected) == [a \in Agent |-> Snapshot(IF a \in selected THEN "pending" ELSE "skipped", 0)]
WithRunning(statuses) ==
  [a \in Agent |-> IF statuses[a].state = "pending" THEN Snapshot("running", 0) ELSE statuses[a]]

Shows(stage, statuses) == page' = [stage |-> stage, shown |-> statuses]

\* create_run, and the first PATCH; discovery follows and may fail.
PageCreates(selected) ==
  /\ page.stage = "idle"
  /\ run' = [status |-> "running", finished |-> FALSE, statuses |-> NoStatuses]
  /\ Shows("discovering", Initial(selected))
  /\ patches' = {StatusesPatch(Initial(selected))}
  /\ UNCHANGED <<taskVars, stored, history>>

\* Every selected agent is asked at once.
PageFansOut ==
  /\ page.stage = "discovering"
  /\ Shows("waiting", WithRunning(page.shown))
  /\ patches' = patches \cup {StatusesPatch(WithRunning(page.shown))}
  /\ task' = [t \in Task |-> IF t \in PageTask /\ page.shown[PageAgent[t]].state = "pending"
                               THEN Working("analyzing", Inline(PageAgent[t]), <<>>, None)
                               ELSE task[t]]
  /\ UNCHANGED <<job, tries, run, stored, history>>

\* An answer, a 502, or a response that never comes while the backend works on.
PageSettles(t, snapshot) ==
  /\ page.stage = "waiting"
  /\ page.shown[PageAgent[t]].state = "running"
  /\ \/ task[t].phase = "stored" /\ snapshot = task[t].say
     \/ snapshot = Snapshot("error", 0)
  /\ LET shown == [page.shown EXCEPT ![PageAgent[t]] = snapshot]
     IN  /\ Shows("waiting", shown)
         /\ patches' = patches \cup {StatusesPatch(shown)}
  /\ UNCHANGED <<taskVars, run, stored, history>>

\* The ai.engine failed: nothing is stored.
InlineFails(t) ==
  /\ t \in PageTask
  /\ task[t].phase = "analyzing"
  /\ Go(t, "failed")
  /\ UNCHANGED <<job, tries, runVars, stored, history>>

Outcome(shown) ==
  IF \E a \in Agent : shown[a].state = "error" THEN "completed_with_errors" ELSE "completed"

PageFinishes ==
  /\ page.stage = "waiting"
  /\ \A a \in Agent : page.shown[a].state # "running"
  /\ Shows("finished", page.shown)
  /\ patches' = patches \cup {StatusPatch(Outcome(page.shown))}
  /\ UNCHANGED <<taskVars, run, stored, history>>

\* The tab is closed: what it sent may still arrive, and its requests go on.
PageCloses ==
  /\ page.stage \in {"discovering", "waiting"}
  /\ Shows("closed", NoStatuses)
  /\ UNCHANGED <<taskVars, run, patches, stored, history>>

----------------------------------------------------------------------------
Init ==
  /\ QueueInit
  /\ run = [status |-> "none", finished |-> FALSE, statuses |-> NoStatuses]
  /\ patches = {}
  /\ page = [stage |-> "idle", shown |-> NoStatuses]
  /\ task = [t \in Task |-> NoTask]
  /\ stored = [scope \in Scopes |-> [o \in Observation |-> 0]]
  /\ told = NoStatuses
  /\ spoiled = {}
  /\ raced = {}

TaskNext ==
  \/ \E t \in Task : Answers(t) \/ LookUp(t) \/ Store(t)
  \/ \E t \in PageTask : InlineFails(t)
  \/ \E c \in Client :
       \/ \E request \in Request : Submit(c, request)
       \/ \E request \in Request, batch \in Batch \ {<<>>} : Push(c, request, batch)
       \/ Start(c) \/ RecordLoad(c) \/ RecordCommit(c) \/ RecordDone(c) \/ RecordError(c)
       \/ Ends(c) \/ Interrupt(c) \/ TimesOut(c) \/ Abandon(c)

PageNext ==
  \/ \E selected \in SUBSET {PageAgent[t] : t \in PageTask} :
       selected # {} /\ PageCreates(selected)
  \/ PageFansOut
  \/ \E t \in PageTask : \E snapshot \in {task[t].say, Snapshot("error", 0)} :
       PageSettles(t, snapshot)
  \/ PageFinishes
  \/ PageCloses
  \/ \E patch \in patches : Deliver(patch)

Next == TaskNext \/ PageNext

Spec == Init /\ [][Next]_vars

----------------------------------------------------------------------------
(* What the rows may be relied on for. *)

\* Every agent state a writer may leave is one the page can show.
Snapshots == {None} \cup [state : States, count : Nat]
Maps == [Agent -> Snapshots]
Patches == [status : {None} \cup (RunStatus \ {"none"}), statuses : {None} \cup Maps]
Phases == {"idle", "queued", "analyzing", "answered", "looked", "stored", "loading",
           "recording", "recorded", "failed", "over"}
Handling == [phase : Phases, agent : {None} \cup Agent, named : BOOLEAN, persist : BOOLEAN,
             batch : Seq(Observation), seen : SUBSET Observation,
             loaded : {None} \cup Maps, say : Snapshots, missed : SUBSET Scopes]
TypeOK ==
  /\ QueueTypeOK
  /\ run \in [status : RunStatus, finished : BOOLEAN, statuses : Maps]
  /\ patches \subseteq Patches
  /\ page \in [stage : {"idle", "discovering", "waiting", "finished", "closed"}, shown : Maps]
  /\ task \in [Task -> Handling]
  /\ stored \in [Scopes -> [Observation -> Nat]]
  /\ told \in Maps /\ spoiled \subseteq Agent /\ raced \subseteq Scopes

\* An observation of an agent in a run is one row, however often a job is tried
\* and whoever else reports it - unless two writers looked before either stored,
\* which no constraint of the table prevents.
OneRowPerObservation ==
  \A scope \in Scopes, o \in Observation : stored[scope][o] > 1 => scope \in raced

\* An agent shown as done has at least as many rows as are claimed for it, when
\* its findings were meant to be kept.
KeptFor(agent) == \A t \in Task : task[t].agent = agent /\ task[t].named => task[t].persist
TableRows(counts) == UNION {{o} \X (1 .. counts[o]) : o \in Observation}
Rows(agent) == TableRows(stored[<<agent, TRUE>>])
RowsOf(agent) == Cardinality(Rows(agent))
DoneIsBacked ==
  \A a \in Agent :
    run.statuses[a] # None /\ run.statuses[a].state = "done" /\ KeptFor(a) =>
      run.statuses[a].count <= RowsOf(a)

\* What the worker recorded of an agent stands until the page's map arrives or
\* a job records in between another's load and commit: the other agents' jobs,
\* tried again or one after the other, do not take it away.
LastRecordStands ==
  \A a \in Agent : told[a] # None /\ a \notin spoiled => run.statuses[a] = told[a]

=============================================================================
