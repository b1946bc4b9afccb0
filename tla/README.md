# A verification project for cyber_agents

TLA+ models of the parts of cyber_agents that decide what may be scanned and
what an operator is told about a finding: which findings exist, how severe and
how urgent they are, and when one is declared fixed.  TLC checks every model on
small instances; TLAPS proves the most important properties for any number of
findings, scans, scope entries, jobs and retries.  Paths below are relative to the repository.

## 1. The system

Four services and a shared package:

| Service | Where | State |
|---|---|---|
| Frontend (Next.js, :3000) | `cyber.frontend` | none of its own; polls the backend, and finishes agent runs with a PATCH |
| Backend (FastAPI, :8000) and its arq worker | `cyber.backend` | PostgreSQL: findings, scans, messages, runs, scope; Redis: the job queue |
| ai.engine (FastAPI + LangGraph, :8003) | `cyber.ai.engine` | none between requests; one graph state per request |
| MCP tool server (:8004) | `cyber.mcp.server` | none; runs Nmap, fetches URLs, looks up CVEs |
| Contracts | `cyber.contracts` | the Pydantic types all of them exchange |

A request travels frontend -> backend -> queue -> worker -> ai.engine -> MCP
server -> Nmap or the network, over HTTP at every hop, and each hop has a
timeout of its own.  The database is the only place where the services'
activities meet: nothing locks a row, rows have no version column, and the
isolation level is READ COMMITTED.

### Components, their operations, and what makes them correct

**Findings and verification** (`services/verification.py`,
`tasks/verification_tasks.py`, `endpoints/findings.py`, `crud_finding.py`).
State: the findings table, with a status (`new`, `triaged`, `resolved`,
`false_positive`) and a verification history inside the JSON column
`evidence`.  Operations: agents and scans add findings; analysts set any
status; an uploaded scan is compared with the open findings on its hosts; a
re-check job asks the ai.engine to scan again.  Hard: a pass reads its rows,
waits minutes for a scan, and writes the rows back, while everybody else
writes to them; its job may be run again from the start.  Correct when a
finding is closed only on evidence, triage is never undone, and no history
claims what the scan could not show.

**Verification contract** (`cyber_contracts/verification.py`).  What a pass
covered and observed.  No state.  Correct when "not seen" and "not looked at"
stay apart.

**ai.engine re-check** (`agents/vulnerability/verify.py`, `mcp/client.py`).
State: one pass.  Operations: open an MCP session, scan up to `MAX_TARGETS`
targets concurrently, assemble a report.  Hard: some of the scans fail, raise
or time out; ports are firewalled; hosts change while the pass runs.  Correct
when one failure does not sink the others and the report is true of what was
scanned.

**Scan intake** and **message intake** (`endpoints/scans.py`,
`tasks/scan_tasks.py`; `endpoints/messages.py`, `tasks/message_tasks.py`).
State: a row with a status and a count (for messages also a verdict), the
findings stored for it, and its job.  Operations: submit, and a task that
parses, has the ai.engine assess, stores the findings and completes the row,
with a commit after each stage.  Hard: the worker dies between any two
commits and the job starts over; the job times out; Redis is away.  Correct
when clients see a lifecycle, a completed row has its findings, and a message
without an analysis has no verdict.

**Worker and queue** (`tasks/worker.py`, arq).  At-least-once jobs with a
limit on tries and a `job_timeout`.

**Vulnerability pipeline** (`agents/vulnerability/`).  State: the state of a
graph run.  Operations: obtain an artifact (given, pasted, scanned, or swept
from a range), derive candidates by rule, look up hosts and CVEs, rank, have a
model write them up, emit findings.  Hard: any of the look-ups fails, the scan
covers a part of the range, the model answers about candidates in any order,
twice, or about none that exist.  Correct when detection, order and severity
come from the rules and the look-ups whatever the model says, and a scan that
failed is never presented as a clean one.

**Agent runs** (`endpoints/runs.py`, `endpoints/agents.py`,
`services/orchestration.py`, `scan_tasks._record_agent_status`, `frontend
app/run/page.tsx`).  State: `runs.status`, the map `agent_statuses`, and the
findings stored for the run.  Operations: the page creates a run, asks for
every selected agent at once and PATCHes the run; the worker runs an agent in
the background and records its state; others push findings.  Hard: the browser
and the worker both read, change and write the whole map; PATCHes overtake each
other or get lost; duplicates are looked up before an insert that nothing
constrains; a job is tried again after it stored.  Correct when an observation
is one row, a recorded state stands, and `done` claims no more than is stored.

**Scope and scan targets** (`endpoints/scope.py`, `cyber_contracts/scope.py`,
MCP `server.py`, `tools/targets.py`, `tools/scope.py`, `tools/scanning.py`,
`tools/fetch.py`).  State: the scan_scope table.  Operations: operators add and
revoke networks and names; scan tools read the scope, vet their targets and
start Nmap; `fetch_url` follows redirects under the opposite policy.  Hard:
requests that load a row before another commits; a name that resolves
differently the next time; an entry revoked while a scan is under way; ranges
that straddle what is allowed.  Correct when nothing is reached without an
authorisation and a revocation that was answered holds.

**Phishing pipeline** (`services/ingestion/email.py`, `agents/phishing/`).
State: the state of a graph run.  Operations: parse a message or wrap a URL,
detect indicators by rule, look up and fetch, score, have a model explain,
emit findings and a verdict.  Hard: the same URL shown several ways, confusable
and nested host names, look-ups that fail, more indicators than the cap, text
addressed to the model.  Correct when the evidence shown is what the rules and
look-ups established, and severity is never talked down.

**Network and web application agents** (`agents/network`, `agents/webapp`).
Thresholds over one batch of records, and a model; no state.

**XML parsers** (`parsers/nmap.py`, `services/ingestion`).  Pure conversions.

**Other MCP tools, LLM access, discovery, frontend views.**  Calls to the
outside and presentation.

The list of hazards, each at the line where it bites, is in `PROJECT.json`.

## 2. Modules

```
Coverage                 contract + decide()         Priority     scores, ranks
   |        \                                           |
FindingVerification   EngineVerify               VulnerabilityGraph
   |                      |                            |
FindingVerification_proofs  EngineVerify_proofs  VulnerabilityGraph_proofs

ArqQueue  <--  AgentRuns  <--  AgentRuns_proofs
   ^
   +---------  ScanIntake     --implements-->  IntakeLifecycle
   |              |                                   ^
   |           ScanIntake_proofs                      |
   +---------  MessageIntake  --implements------------+
                  |
               MessageIntake_proofs

Lookalike  <--  EmailMessage  <--  PhishingRules  <--  PhishingAgent
brand names     MIME, links        rule families       graph, verdict
                                                           |
                                                       PhishingAgent_proofs

TargetPolicy  <--  ScanScope  <--  ScanTools  <--  ScanTools_proofs
two policies       operators       MCP tools
```

Modules named `MC...` give the constants values for TLC.  `map` in
`PROJECT.json` names the lines behind every definition.

**Coverage** has no state: coverage, observation and `decide`, the targets of
a re-check, the report an uploaded scan amounts to, and the set
`EngineReports` of answers the backend may get from the ai.engine.

**FindingVerification** models every writer of a finding's status.  A row is
a pair of a producer (scan or agent run) and a shape (asset, port, candidate
id, each optional), which is what `dedupe_key` makes unique.  A pass is a job
that reads rows (`ScanSelect`, `RecheckLoad`), receives a report
(`EngineAnswers`), and commits (`Commit`).  Between the read and the commit it
holds a snapshot in `loaded`, because that is what SQLAlchemy does: the commit
writes the whole new `evidence` computed from the snapshot, and `status` only
where it was assigned.  `Analyst` and `AgentReports` come in between at any
time, `Crash` starts the job over or ends it.

**EngineVerify** models one re-check and the world it looks at: candidates
that are true of a host now, and ports that do not answer now, both changing
at any time.  `seen` says how a candidate comes about: from its open port, once
for a host (`_injection_candidates` names a host with the first port that shows
instructions, `Derivable`), or only by the scanner that asserted it.  `scanned`
remembers the world each scan met, so that the report can be compared with the
truth of that moment.  Its property
`AnswerIsEngineReport` is what links it to FindingVerification: every answer
is one of `Coverage!EngineReports`, the set `EngineAnswers` draws from.

**ArqQueue**, **ScanIntake**, **MessageIntake**: the queue, and the two tasks
on top of it, one action per commit.  `Interrupt` is a killed worker, `Abort`
the job timeout or an unhandled exception, `EnqueueFails` a Redis outage after
the row was committed.  A batch may differ from try to try since a model words
it.  **IntakeLifecycle** is the abstract specification of both: what a client
that polls the status and the findings may be shown.

**VulnerabilityGraph** is one assessment, one action per node and outcome,
with **Priority**'s scores.  The rules' knowledge (which banner matches which
entry) is data: a fact is one firing of a rule.  A sweep asks for the live hosts
up to `MaxSweepHosts`, and the scanner may refuse some of them (`refused`, the
`hosts_refused` of the MCP tool), since scope can change after discovery.

**AgentRuns** is one run: its row, the page, the PATCHes on their way, and the
requests being worked on, inline or in the background.  Every `await` between a
read and the write that rests on it is a step: `LookUp` and `Store` of
`persist_findings`, `RecordLoad` and `RecordCommit` of
`_record_agent_status`.  `patches` is a set the page adds to and `Deliver`
takes from in any order; a lost PATCH is one never delivered.  `Interrupt`,
`TimesOut` and `Abandon` are the queue's.  The variables `told`, `spoiled` and
`raced` are history: they note what was recorded last and whose writers
overlapped, and no action's guard reads them.

**TargetPolicy** has the two policies of `targets.py` as operators: only what
the allowlist covers may be scanned, only what is public may be fetched.
**ScanScope** is the table behind the allowlist, with the operators' requests:
a request loads its rows and commits later, and writes `active` only where it
differs from what was loaded, as the ORM does.  **ScanTools** composes both with
the tools that reach other hosts: `ReadScope`, `VetService`, `VetRange` or
`VetSweep`, `StartScanner` are separate steps, with revocations and DNS changes
between any two of them.  `entitled` is history: the addresses that were in
scope at some moment since the call.

**Lookalike** decides whether a host imitates a brand: registrable domains,
confusable characters, an edit distance with swapped letters, as a table with
one cell for each pair of beginnings of the two texts.  **EmailMessage** is the conversion of a MIME
tree or a URL into a NormalizedMessage, with the order in which links are
recorded and the caps.  The two paths take a host from a URL in different ways:
a mail's links by `urlsplit`, a submitted URL by cutting it at "/" and "@".  A
URL therefore has a `tail`, what is written of its query or fragment before the
next slash, which `SplitHost` leaves glued to the host, or takes for it.  `Those` is what a comprehension with a condition
leaves of a list, in its order.  **PhishingRules** has the rule families, their
order (`Sorted`) and the score, whose categories are added up one by one as the
code's loop does, and
**PhishingAgent** the graph: parsing, `DetectIndicators` with its cap, `Enrich`
with every combination of failed and answered look-ups, score and floor, the
model's answer, `Reconcile`, and the verdict.

### What is abstracted

* Free text (descriptions, notes, details, explanations), timestamps,
  confidence, tags, pagination and filters: nothing that is checked depends
  on them.
* The dedupe key is the producer and the shape, or for the intake modules a
  key that includes the wording.  The look-up of duplicates reaches back one
  day; the models assume that the tries of one job lie within it.
* A transaction that only reads, or that reads and writes without an `await`
  to another service between, is one step, except where a pass holds rows
  over a call.
* Hosts are addresses.  Matching assets by other names is left out.
* IPv6 literals, letter case and trailing dots of hosts are left out: a host is
  a sequence of labels.  A URL is one of six schemes, with or without user,
  port and tail.
* A pass skips findings whose candidate id is NULL in the query and empty ones
  later; both are one case, a row without candidate id.
* `update_run` has no `await` to another service between its load and its
  commit: `Deliver` is one step.  A PATCH that changes nothing is not written
  by the ORM, and leaves the row as it is either way.
* Business criticality is one setting of an assessment and adds the same to
  every score.

## 3. Runs

Runs expected to pass:

| Run | Instance | Shows |
|---|---|---|
| `recheck_races` | 2 re-check jobs, 1 agent run, analysts; an exposed service and a package without port; at most 1 finding per job | `ResolvedOnlyByCoverage`, `PlatformOnlyCloses`, `HistoryIsVerifiable`: workers only close, only on coverage, whatever was read before the scan |
| `upload_retries` | 2 uploads of one host, 2 tries each, analysts; 3 shapes, one without candidate id; fair workers | `OwnFindingsNotJudged`: a scan is no evidence about its own findings, retries included; `EveryPassEnds`: every queued pass ends |
| `engine_rechecks` | 3 hosts, 2 scanned; 3 ports, 2 asked for at most, two of them longer than the argument may be; two marked banners of one host and a service of another; hosts that change and fall silent; fair pass | `AnswerIsEngineReport`, `OnlyReadScansCover`, `ScannedPortsAreReportedTruly`, `EveryRequestEnds` |
| `scan_tries` | 2 uploads (one unparseable), 3 tries, 2 possible batches, fair worker | `CompletedHasItsFindings`, `FirstTryIsExact`, `EveryJobEnds`, and the refinement `FollowsLifecycle` |
| `message_tries` | a URL and an unparseable e-mail, 3 tries, answers of different severity | `VerdictOnlyIfAnalysed`, `FirstTryVerdictIsExact`, and the refinement |
| `assessments` | 5 facts on 2 of 3 hosts, two of them with one id, one a marker in raw text; limits of 2 for sweeps and 1 for host and CVE look-ups; every answer of up to 2 write-ups | `OneFindingPerId`, `RankedByUrgency`, `SeverityIsAccountedFor`, `CleanMeansExamined` |
| `phishing` | 62 messages (4 unparsable) and 13 URLs (2 refused) over 20 hosts, 3 domains of 2 brands, with or without fetching; every outcome of the look-ups; 4 answers of the model; caps of 4 indicators and 2 URLs | `EvidenceIsExact`, `EnrichmentOnlyAdds`, `SeverityMatchesEvidence`, `InjectionIsReported`, `NothingShownIsLost`, `LookalikesAreImitations` |
| `scan_policy` | 6 addresses in 4 networks, 2 operator requests, 1 call with 2 of 11 requests to tools in turn, a name with 4 answers, 1 redirect | `NothingUnauthorisedIsReached`, `RevocationHolds`, `ForbiddenStaysOut`, `FetchesStayOutside`, and in `TypeOK` that Nmap is given addresses and local names only |
| `agent_runs` | 2 agents, the page and 2 clients, 2 requests at a time, 2 tries, answers that repeat an observation | `OneRowPerObservation`, `LastRecordStands`, `DoneIsBacked`; `TypeOK` says that every recorded state is one the page knows |

### Bounds, and why they are enough

* Two passes over one row are the smallest case of every race on it; a third
  would only meet a snapshot that one of the two could have held as well.
  Both kinds of pass are run, and the proofs cover any number.
* Two tries show what a retry does to what the first try left, three show a
  retry of a retry and the end of the tries.
* One finding per re-check with two findings asked for, two hosts swept of three,
  one look-up of two, two targets of three, two ports of three: every limit of
  the code is exceeded by one in some run.
* Three shapes: verifiable, without port, without candidate id: one for every
  refusal of `decide` that the shape decides.  (A shape without asset is
  refused at the same point as one without port.)
* `recheck_races` uses one try per job and `upload_retries` no re-check: crash
  and race together are in the theorems, which cover any mix of passes, and
  whether a re-check job ends is argued like that of an upload but not run.
* `agent_runs`: `AtMostTwo` keeps the requests of a state to two (a writer
  that overlaps another needs two), `MaxTries` 2 is a try and a retry of it,
  and the two clients are interchangeable (symmetry, sound for invariants).
  The whole run lies within one `DEDUPE_WINDOW`.
* `scan_policy`: two operator requests overlap in every way (add with add, add
  with revoke); two requests of one call in turn show that nothing of the first
  is used for the second.  Calls share only the table, so one is enough; the
  theorems cover any number, and all limits.
* `engine_rechecks`: a host answers on all ports, on all but one, or not at all
  (`Silences`); the theorems cover any sets.  Two marked banners are the least in
  which one hides the other.
* `phishing`: the messages are chosen one by one, so that each rule family
  fires alone and with others; most exceed one of the caps by one.

Deadlock is not checked where the system may stop: when every upload is final
and nobody acts, when an assessment has returned, when the requests of a run or
of the scope are spent.  `recheck_races`, where an
analyst can always act, and `engine_rechecks`, where the hosts always may
change, check it.

### Fairness

Only the platform's own steps are fair, weakly, and one job at a time: the
worker keeps polling, and every wait of a task ends because each has a timeout
(Nmap's `--host-timeout`, the MCP server's scan timeout, the read timeouts of
the MCP and ai.engine clients, arq's `job_timeout`).  Analysts, agents,
uploads, requests and crashes are not fair; crashes are bounded by
`max_tries`, as in arq.  In `EngineVerify` the steps of the calls are fair and
the failure of the session is not: nothing makes it happen, and `CloseFails` may
come with calls outstanding.  In `ScanIntake`, `Submit` is fair since it is the
second half of a request that has begun; that it may be `EnqueueFails` is part
of the model.

### Runs expected to fail

Each of these checks one statement of the repository about itself.

* **`stale_recheck`** — the statuses `OPEN_STATUSES` are those "a verification
  pass is allowed to look at".  A re-check decides on the status it read
  before the scan: a finding dismissed as a false positive meanwhile is set to
  `resolved`.
* **`asserted_findings`** — "a finding may only be resolved when coverage
  proves it was genuinely re-checked".  What OpenVAS asserted, Nmap cannot
  assert again; the finding is closed though nothing changed.
* **`genuine_domains`** — "If the domain genuinely belongs to a brand,
  find_lookalike is silent by design".  It is silent about the domain it is
  compared with and goes on to the next: `amazonses.com` is two edits from
  `amazonaws.com`, both are listed as Amazon's, and mail from either is told as
  a typosquat of the other.

### Properties that are weaker than one might wish

The properties that pass are worded around what the code does not do:

* Two passes that overlap each append to the history they read; the later
  commit drops the other's entry.  Nothing checked says that histories grow.
* Uploads judge in the order they are processed, not the order they were
  taken.
* "Each layer must outlive the one it is waiting on" (`core/config.py:59` of the
  ai.engine), but `job_timeout` is 300 s and the ai.engine is given 420 s: arq
  cuts `analyze_scan` off in its wait (`Abort`), does not try it again, and the
  scan stays `analyzing`.  Hence `EveryJobEnds` is about jobs and not about
  the rows they work on.
* After a retry a scan can be `failed` with findings, or `completed` with a
  count that omits those of the earlier try; hence `tries <= 1` in
  `FirstTryIsExact`.  A final status may be followed by `parsing` again; hence
  `Begin` from any stage in IntakeLifecycle.  While a message is tried again
  its verdict is that of the last try.
* A port that does not answer is covered and not observed: `-Pn` makes a
  silent host look up, and the parser keeps open ports only.  Hence
  `ScannedPortsAreReportedTruly` speaks of ports that answered.
* Instructions in banners are one candidate per host, with the id of the first
  port that has some.  When an earlier port is marked as well, the finding of the
  later one is covered, not observed, and resolved though the banner is still
  there.  `ScannedPortsAreReportedTruly` says of these only that nothing is
  observed that is not there, and something if anything is.
* When closing the MCP session fails, or a model returns nothing, an
  assessment raises and what the rules found is lost; hence "an assessment
  that returns" in `OneFindingPerId`.  Of two facts with one id the first
  derived is kept, not the most severe.
* The port argument of a re-check is cut to 64 ports and the report is not:
  a finding on a port that was cut off counts as covered (`verify.py:45`,
  kept in EngineVerify).  That a sweep was cut short or refused hosts is
  said only by a report without findings (`nodes.py:230`, `739`); `truncated`
  counts live hosts against the limit, so `CleanMeansExamined` asks for it or for
  the names of the hosts that were refused.
* Records and rows of a run are lost or doubled where writers overlap: the
  worker writes back a map it loaded before another's commit, a PATCH carries
  the page's whole map and may be overtaken, `persist_findings` looks up keys
  that nothing makes unique.  `LastRecordStands` and `OneRowPerObservation`
  except exactly those (`spoiled`, `raced`), and the mutants show that they
  except no more.
* Only the page finishes a run.  When its tab is closed, the run stays
  `running`; when `job_timeout` cuts a background job off, its agent does.
  There is no liveness property of a run to check.
* The default networks of a deployment include 169.254.0.0/16, so a scan of
  one host in it passes `check_target`; grants and ping sweeps refuse it.
  `ForbiddenStaysOut` is about those two.  Local names (`localhost`, `*.local`)
  pass without being resolved; `NothingUnauthorisedIsReached` leaves them out.
* "A revoked authorisation stops working the moment it is revoked"
  (`tools/scope.py:24`) for calls that read the scope after it.  A call that read
  it before goes on, so `NothingUnauthorisedIsReached` says "in scope at some
  moment since the call", which is weaker than those words.
* "Who authorised" is answered by an entry, but adding an entry again
  overwrites who did.
* `fetch_url` vets an answer of the resolver and then connects by name: the
  second answer is beyond `FetchesStayOutside`.
* The cap on indicators is by weight: a light one with a high floor can be
  dropped, floor included.  `EvidenceIsExact` says that it is counted.
* `LookalikesAreImitations` does not say that a host told as an imitation is
  nobody's: `genuine_domains` refutes that.  It asks that the host's domain is
  not the very one named, and that the imitation can be seen: within two edits,
  or the brand's name as a label, and without an edit exactly if it is told as a
  homoglyph.  That what is one edit away is told is said of senders and of links
  whose host the message has right.
* "The URL rules are the same code in both paths rather than a second
  implementation that drifts" (`message_tasks.py:79`).  The rules are, the host
  they look at is not: `https://host?query` is submitted with the host
  `host?query`, and with what follows an "@" in the query for a host, while the
  same link in a mail has its own.  The imitation then goes untold, or one is
  told of a link that leads elsewhere.
* `InjectionIsReported` is about the texts the rule reads: subject, body text,
  names of attachments and labels of links.  Display names, URLs and an HTML
  part beside a plain one are not read (`injection.py:129`).
* A submitted URL has no headers, and the rule for missing authentication
  results fires on every one, although `message_tasks.py:77` expects the
  authentication rules to find nothing.

## 4. Proofs

Eight modules prove, for all values of the constants, what the runs check on
small ones: one for each module with a specification of its own.  Every safety
property of a passing run is the statement of a theorem.

### FindingVerification

Assumed: the assumptions of `Coverage` and `FindingVerification` — `None` is
no host, port, candidate or status; scans, runs and jobs have different names;
an artifact's findings have shapes in play; limits are numbers.

* `TypeCorrect`: `Spec => []TypeOK`.
* `ScansDoNotJudgeThemselves` and `OnlyVerifiableIsJudged`:
  `[]OwnFindingsNotJudged` and `[]HistoryIsVerifiable`.  Neither is inductive:
  a commit writes a history that was read earlier, so what is true of the
  table must be true of every snapshot in flight too.  The inductive
  invariant is

      HonestInv == TypeOK /\ RowsHonest /\ SnapshotsHonest

  `RowsHonest` says it of the rows; `SnapshotsHonest` says it of the
  snapshots, and that a pass has loaded only rows from a rule engine, and a
  scan none of its own.  Loading establishes the second from the first
  (`ReadHonest`), committing the first from the second (`CommitHonest`).
* `WorkersOnlyClose` and `ResolutionNeedsCoverage`: the action properties
  `PlatformOnlyCloses` and `ResolvedOnlyByCoverage`, by cases on the action;
  they need only the types, since the decision is taken and written in one
  step, and `decide` returns `resolved` only when covered and not observed.

### ScanIntake

Assumed: `MaxTries` is positive, the keys are finitely many, and `Batches`
gives sets of keys.

* `IntakeTypeCorrect`, `CompletedScansAreComplete`, `FirstTriesAreExact`: from

      IntakeInv == TypeOK /\ \A s : Placed(s) /\ Stored(s) /\ FirstTry(s)

  `Placed` ties the place in the task to the job's state and to the status the
  task wrote; without it nothing is known when the next stage is committed.
  `Stored` says that a persisted batch stays stored until the scan is
  completed.  `FirstTry` says that before a first try persists there are no
  findings, which makes its count exact.
* `ScansFollowLifecycle`: `Spec => FollowsLifecycle`, the refinement of
  IntakeLifecycle.  Every step of an item maps to a step of the lifecycle or
  leaves status and findings alone (`StepFollows`); `Placed` supplies the
  status a stage starts from.

### MessageIntake

Assumed: `MaxTries` is positive; a batch is finite and rates a key once; NULL
is no verdict.

* `MessageTypeCorrect`, `VerdictsNeedAnalysis`, `FirstVerdictsAreExact`: from

      IntakeInv == TypeOK /\ \A m : IsFiniteSet(batch[m]) /\ Placed(m) /\ Judged(m) /\ FirstTry(m)

  `Judged` ties the verdict to the status; it needs `Placed`, since a task is
  only allowed to fail or complete where the row says `parsing` or
  `analyzing`.  `FirstTry` adds to ScanIntake's that the batch is what was
  stored, so that the verdict read off the batch is that of the rows.
  `FirstTry` also separates a message never taken up from one in its first
  try, without which `tries <= 1` says nothing.
* `MessagesFollowLifecycle`: the refinement, with the keys of the stored
  ratings for the findings of IntakeLifecycle (`PersistRecords`).

### ScanTools

Assumed: `PolicyAssumption` (names, local names and addresses are different
things; what is forbidden for scope is not public), `ScopeAssumption` (a target
that passes `normalize_scope_target` is a network, and so was every row there
was before), `ToolAssumption` (the shape of requests).  Every property of
`scan_policy` is a theorem, for any addresses, networks, operators, calls,
resolvers and limits.

* `TypeCorrect` and `OnlyAuthorisedIsScanned` (`[]TypeOK`,
  `[]NothingUnauthorisedIsReached`) from

      Vetting == TypeOK /\ \A c : ToolSound(c)

  which follows one call through its steps: the request has a host where it
  needs one (`HasHost`); the scope it read was in force at some moment since it
  began and its entries are still on record (`ScopeIsBacked`); what Nmap is
  given is inside that scope (`GivenIsBacked`); what it reaches is what it was
  given (`ReachedIsGiven`).  Each part is established by one step and kept by
  all others, because `entitled` only grows while a call lasts and a row, once
  there, is never deleted.  `GivenIsBacked` is where the resolved name is
  pinned: the address given is one of the answer that was vetted.
* `AnsweredRevocationsHold` (`[]`-action property `RevocationHolds`) from
  `Revocations`: a revocation in progress either loaded the row as active and
  will write it, or loaded it as not active, and then it has not become active
  unless an add noted itself in `readded`.
* `FetchesAreOutside` from `Chains`: the hops requested so far are public, and
  no more than the redirects allowed.
* `ForbiddenIsOut` from `Bounded` (what is stored or about to be stored passed
  `normalize_scope_target`) and `Sweeps` (what a discovery was given passed
  `check_range`, and no address of it is a name to resolve anew).

### EngineVerify

Assumed: `RequestsAssumption` (a request names a host once, as the
backend groups its findings), `EngineLimits`, `PortsAreNumbers`,
`SilenceAssumption`, `AboutAssumption`, and that `None` is neither a scan nor an
entry.  Nothing is
assumed of the hosts: they change at every step.

* `TypeCorrect`, `AnswersAsTheEngine`, `ReadScansCover`, `ReportsTheTruth`
  (all invariants of `engine_rechecks`) from

      Inv == TypeOK /\ \A i : CallSound(i)
             /\ (phase = "asked" => NothingScanned) /\ (phase = "answered" => AnswerSound)

  None of them is inductive: they speak of the report, which is put together
  at the end, from what the calls left behind.  `CallSound` says, call by call,
  what was left behind: no scan that was read, then no entry and nothing
  observed; a scan, then the entry is that of a host found down or of the ports
  asked, and `observed` is exactly what a scan of that world shows.  A change of
  the world cannot disturb it since it speaks of `scanned`, the world of the
  moment.
* `AnswersAsTheEngine` is what FindingVerification relies on.  It needs that
  the targets of a request can be told from each other by their hosts, and that
  the ports a specification names are among those of its target
  (`SpecIsPartOfTarget`).
* `ReportsTheTruth` needs that what is derived once for a host is derived if any
  mark is shown: some port is the first (`FirstPort`, by the least number
  principle; `DerivedFromShown`).
* `ResolutionsAreTraced` puts `decide` on top, which no run does for candidates
  seen in a port itself: a finding of the rules is resolved by a report only after a scan of
  its own host was read (`OnlyReadScansCover`), in which it was gone or which had
  no answer from its port (`ScannedPortsAreReportedTruly`).  The second case is
  real: `ports_scanned` echoes ports that are filtered or beyond
  MAX_PORTS_PER_TARGET.

### AgentRuns

Assumed: `RunAssumption` (which agents the page runs, what requests and batches
look like, that page tasks are no clients).  Every invariant of `agent_runs` is
a theorem: `RunsAreTyped`, `DuplicatesAreRaces`, `DoneHasRows`, `RecordsStand`,
from

    Inv == TypeOK /\ QueueSound /\ (\A t \in Task : TaskSound(t))
           /\ PageSound /\ RowSound /\ TableSound

* `OneRowPerObservation` needs `LooksCurrent`: between the look-up of a request
  and its insert, what is stored under its key it has either seen, or somebody
  stored since and the request is marked (`missed`).  So a second row comes only
  from a marked request, which is what `raced` records.
* `LastRecordStands` needs `LoadIsCurrent`: the map a recording loaded is that of
  the row, but for agents that were recorded since and those already spoiled by
  an overlapping writer.  So what its commit takes back is exactly what becomes
  `spoiled`.
* `DoneIsBacked` needs the same of every claim on its way: what a task is about to
  say, what it has loaded, what the page shows and what every undelivered PATCH
  carries (`AllBacked`).  The rows of an agent only grow (`MoreRowsBack`), so a claim that
  was backed stays so; `BatchStored` counts the rows an insert adds.

### VulnerabilityGraph

Assumed: `FactAssumption` (finitely many facts, in different places),
`KindAssumption`, `AnswerAssumption`, `LimitAssumption`.  `TypeCorrect`,
`OneFindingEach`, `MostUrgentFirst`, `SeverityIsTraced` and `CleanIsExamined`,
all invariants of `assessments`, from `Inv` (theorem `Invariance`): the
candidates are the facts that were kept, in their order (`Derived`), the scores
are theirs (`Scored`), the findings are made of both (`Emitted`), and a scan has
a word, `no-live-hosts` only without output (`ScanSound`).

The two sorts of the pipeline are defined by places, not by recursion: an element
stands where the number of smaller ones says.  Counting gives, once and for any
finite total order, that places are different and all are taken (`PlacesAreOrdered`,
`PlacesAreTaken`, a pigeonhole argument), hence that `InOrder` sorts and that
`Ranked` is a permutation with the most urgent first (`RankedIsByUrgency`).

### PhishingAgent

Assumed: `LookalikeAssumption` (hosts are sequences of labels, what a confusable
character looks like is no confusable itself, at least one edit is close),
`BrandAssumption` (brands are listed by registrable domains, as
`_reject_subdomains` enforces, in plain characters, and none is too short to be
compared, `data/brands.json`), `PhraseAssumption`, `TechniqueAssumption`,
`HostAssumption` and `UrlAssumption` (the registrable domain of a host is a host,
and so is what a submitted URL may be misread as),
`MailAssumption`, `AnswerAssumption` and `LimitAssumption`: the
shape of the knowledge base, of messages and of what a model may answer.  The
rule book is the code's, not a constant.

* `SeverityIsEarned`, `InjectionIsNotIgnored`, `EvidenceIsAllThereIs`,
  `LookupsOnlyAdd` and `NothingIsLost` state `SeverityMatchesEvidence`,
  `InjectionIsReported`, `EvidenceIsExact`, `EnrichmentOnlyAdds` and
  `NothingShownIsLost` for any mails and URLs, hosts, phrases, answers and caps.
  All follow from one inductive invariant (lemma `Invariance`), which ties the
  outcome of every step to what it was made of:

      Inv == Input /\ Read /\ Cut /\ Enriched /\ floor = Floor(indicators)
             /\ Asked /\ Emitted /\ Named          \* each from its node on

  It is needed because the properties compare the findings with the message, and
  the steps between them (cap, look-ups, model) each see only the last one.
* Sorting.  `Sorted` is a recursive function on sets; that it exists, arranges a
  set and puts the heavier first is shown by induction on the number of elements
  left (`SorterExists`, `SortedArranges`).  The induction is over a set of numbers
  (`UpTo`), not over an operator, which is what the provers can do.
* Evidence.  Ids are distinct although they leave out weights (`IdsDiffer`: weight and
  floor follow from the rule, the SPF result or the kind of language), the
  look-ups have rules of their own (`LookupsAreNew`), and whatever numbers the
  model names, each indicator gets one place (`MentionedOnce`,
  `ReconcileArranges`).
* More evidence.  `EnrichmentOnlyAdds` is not a matter of each weight being positive:
  a new indicator pushes others to places that count for less.  In a larger set
  the indicator in each place is no lighter (`MoreWeighsMore`, by pigeonhole);
  hence a category's decayed total, its share at the ceiling, the bonus for
  further families, the band and the floor do not fall (`TotalsFollow`,
  `ContributionFollows`, `ScoreFollows`, `FloorFollows`).
* What a mail shows.  An anchor's first occurrence survives three selections and a
  removal of duplicates with its label (`FirstStaysFirst`, `AnchorIsALink`); the
  first DMARC result is the one that counts (`FirstResultCounts`).
* Lookalikes.  `LookalikesAreTold` states `LookalikesAreImitations` for any hosts,
  brands, alphabets and limits; that a homoglyph is told exactly of what reads the
  same follows from the order in which the tricks are tried.  `DistancesAndEdits`
  is what it rests on: `Distance`, a table of numbers, against `WithinEdits`, the
  texts that edits lead to.  By
  induction on the cells, each cell is a number of edits that leads from one
  beginning to the other (`CellsCountEdits`: the cheapest neighbour of a cell gives the
  last edit; swapping two letters skips a row and a column).  For the converse,
  cells next to each other differ by one at most and a diagonal of equal
  characters costs nothing (`NeighbouringCells`, `AlikeCostsNothing`), so one edit
  is one apart (`EditIsClose`).  It is not said of more: the distance lets no letter
  be edited twice, and "ca" and "abc" are two edits but three apart.  The rest
  follows an imitation into the finding: only the rules for senders and links name
  two hosts (`Brief`, `HostsAreNamed`), no look-up does, so `Enriched` in the
  invariant also says that what look-ups add is `Brief`.

### Only model-checked

* Liveness: `EveryPassEnds`, `EveryRequestEnds`, `EveryJobEnds`.  Properties
  under fairness, and ENABLED, are beyond the prover.
* The three runs that are expected to fail have, of course, no theorem.

## 5. Not modelled, and why

* Network and web application agents: one request each, sequential and without
  state, thresholds over one batch of records.  (A batch without records
  divides by zero, `agents/network/nodes.py:198`; the request fails.)  Their
  requests and answers are those of AgentRuns.
* XML parsers: conversions.  What the models need of them, open ports only,
  requested ranges, rejection, is in EngineVerify, Coverage and the intake
  modules.
* CVE, exposure, DNS and registration look-ups, LLM providers: their outcomes
  are inputs here, failures included.
* The rules' tables (banners, phrases, shorteners, file types) and prompts are
  data: constants of the models.
* Discovery, health checks and the frontend's views keep no state; only the
  page of a run writes.
* Listing, filtering and deleting of scans, messages, runs and findings.
* Concurrency limits of the worker: jobs interleave freely, which includes
  every limited schedule.

## 6. Plan

Done: findings and the passes over them, both intakes, the re-check, the
vulnerability and phishing pipelines, scope and the tools that use it, runs;
theorems for all safety properties of the runs.

Next, in order:

1. An abstract specification of a run (each agent's state goes forward between
   the writes of one writer) that AgentRuns implements where writers do not
   overlap.
2. The CVE cache and the look-up budgets of the MCP server; the network
   agent's windows and ratios.
