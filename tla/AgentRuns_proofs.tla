-------------------------- MODULE AgentRuns_proofs --------------------------
(* Proofs about one run, for any number of agents, requests and observations: the
   types, when a finding can be a row twice, that what is shown as done is backed by
   rows, and when what the worker recorded of an agent can be gone. *)
EXTENDS AgentRuns, FiniteSetTheorems, FunctionTheorems, TLAPS

----------------------------------------------------------------------------
(* The inductive invariant. *)

\* A snapshot of an agent claims no more than the table holds.
Backed(agent, snapshot) ==
  snapshot # None /\ snapshot.state = "done" /\ KeptFor(agent) =>
    snapshot.count <= RowsOf(agent)
AllBacked(map) == \A a \in Agent : Backed(a, map[a])

\* What is stored under the request's key it has seen, or somebody stored since.
LooksCurrent(t) ==
  task[t].phase = "looked" =>
    \A o \in Observation : stored[Scope(t)][o] > 0 =>
      o \in task[t].seen \/ Scope(t) \in task[t].missed

\* The map it loaded is the row's, but for agents recorded since and spoiled ones.
LoadIsCurrent(t) ==
  task[t].phase = "recording" =>
    \A a \in Agent \ spoiled :
      (\A scope \in task[t].missed : scope[1] # a) => task[t].loaded[a] = run.statuses[a]

TaskShape(t) ==
  /\ task[t].phase = "idle" <=> task[t].agent = None
  /\ t \in PageTask => task[t].named /\ task[t].persist
  /\ t \in PageTask /\ task[t].phase # "idle" => task[t].agent = PageAgent[t]
  /\ task[t].phase # "idle" /\ task[t].named => run.status # "none"
  /\ task[t].phase \in {"loading", "recording"} => task[t].named
  /\ task[t].phase = "recording" => task[t].loaded \in Maps

TaskSound(t) ==
  /\ TaskShape(t)
  /\ LooksCurrent(t)
  /\ LoadIsCurrent(t)
  /\ \A a \in Agent : task[t].named /\ task[t].agent = a => Backed(a, task[t].say)
  /\ task[t].phase = "recording" => AllBacked(task[t].loaded)

PageSound ==
  /\ page.stage = "idle" => run.status = "none" /\ patches = {}
  /\ page.stage # "idle" => run.status # "none"
  /\ AllBacked(page.shown)
  /\ \A patch \in patches : patch.statuses # None => AllBacked(patch.statuses)

RowSound ==
  /\ run.status = "none" => told = NoStatuses
  /\ AllBacked(run.statuses)
  /\ LastRecordStands

TableSound ==
  /\ OneRowPerObservation
  /\ \A a \in Agent : IsFiniteSet(Rows(a))

\* A job is there for a request somebody made.
QueueSound == \A c \in Client : job[c] # "none" => task[c].phase # "idle"

Inv ==
  /\ TypeOK
  /\ QueueSound
  /\ \A t \in Task : TaskSound(t)
  /\ PageSound
  /\ RowSound
  /\ TableSound

----------------------------------------------------------------------------
(* Types. *)

LEMMA NoneIsSnapshot == None \in Snapshots
BY DEF Snapshots

LEMMA WorkingType ==
  ASSUME NEW phase \in Phases, NEW request, request.agent \in {None} \cup Agent,
         request.named \in BOOLEAN, request.persist \in BOOLEAN,
         NEW batch \in Seq(Observation), NEW say \in Snapshots
  PROVE  Working(phase, request, batch, say) \in Handling
BY DEF Working, Handling

\* The next record of a task that goes on with its request.
LEMMA CarryOn ==
  ASSUME TypeOK, NEW t \in Task, NEW phase \in Phases,
         NEW batch \in Seq(Observation), NEW say \in Snapshots
  PROVE  Working(phase, task[t], batch, say) \in Handling
<1>1. /\ task[t].agent \in {None} \cup Agent /\ task[t].named \in BOOLEAN
      /\ task[t].persist \in BOOLEAN
  BY DEF TypeOK, Handling
<1> QED
  BY <1>1, WorkingType

LEMMA Missing ==
  ASSUME NEW w \in Handling, NEW scope \in Scopes
  PROVE  LET next == [w EXCEPT !.missed = @ \cup {scope}]
         IN  /\ next \in Handling /\ next.missed = w.missed \cup {scope}
             /\ next.phase = w.phase /\ next.agent = w.agent /\ next.named = w.named
             /\ next.persist = w.persist /\ next.batch = w.batch /\ next.seen = w.seen
             /\ next.loaded = w.loaded /\ next.say = w.say
BY DEF Handling

----------------------------------------------------------------------------
(* Claims and rows: neither the requests nor the table forget. *)

\* What a request asked for does not change, at least where it matters for KeptFor.
SameRequests ==
  \A t \in Task :
    \/ task[t].phase = "idle"
    \/ task[t].persist
    \/ /\ task'[t].agent = task[t].agent
       /\ task'[t].named = task[t].named
       /\ task'[t].persist = task[t].persist

\* A claim that was backed stays backed.
ClaimsStand ==
  \A a \in Agent : \A snapshot \in Snapshots : Backed(a, snapshot) => Backed(a, snapshot)'

LEMMA RowCounts ==
  ASSUME Inv, NEW a \in Agent PROVE RowsOf(a) \in Nat
BY FS_CardinalityType DEF Inv, TableSound, RowsOf

LEMMA KeptForStands ==
  ASSUME Inv, SameRequests, NEW a \in Agent, KeptFor(a)'
  PROVE  KeptFor(a)
<1> SUFFICES ASSUME NEW t \in Task, task[t].agent = a, task[t].named
             PROVE  task[t].persist
  BY DEF KeptFor
<1>1. task[t].phase # "idle"
  BY RunAssumption DEF Inv, TaskSound, TaskShape
<1> QED
  BY <1>1 DEF SameRequests, KeptFor

LEMMA MoreRowsBack ==
  ASSUME Inv, SameRequests,
         \A a \in Agent : RowsOf(a)' \in Nat /\ RowsOf(a) <= RowsOf(a)'
  PROVE  ClaimsStand
<1> SUFFICES ASSUME NEW a \in Agent, NEW snapshot \in Snapshots, Backed(a, snapshot)
             PROVE  Backed(a, snapshot)'
  BY DEF ClaimsStand
<1> SUFFICES ASSUME snapshot # None, snapshot.state = "done", KeptFor(a)'
             PROVE  snapshot.count <= RowsOf(a)'
  BY DEF Backed
<1>1. snapshot.count <= RowsOf(a)
  BY KeptForStands DEF Backed
<1>2. snapshot.count \in Nat
  BY DEF Snapshots
<1> QED
  BY <1>1, <1>2, RowCounts

LEMMA SameTable ==
  ASSUME Inv, SameRequests, UNCHANGED stored
  PROVE  ClaimsStand /\ \A a \in Agent : RowsOf(a)' = RowsOf(a) /\ IsFiniteSet(Rows(a)')
<1>1. \A a \in Agent : Rows(a)' = Rows(a)
  BY DEF Rows
<1>2. \A a \in Agent : RowsOf(a)' = RowsOf(a)
  BY <1>1 DEF RowsOf
<1> QED
  BY <1>1, <1>2, MoreRowsBack, RowCounts DEF Inv, TableSound

----------------------------------------------------------------------------
(* What a step leaves of the tasks it does not make a step of. *)

\* A task that is at most told that others wrote stays sound, when what it has read
\* and is not told about is still so.
LEMMA BystanderSound ==
  ASSUME Inv, ClaimsStand, NEW u \in Task,
         run.status # "none" => run'.status # "none",
         /\ task'[u].phase = task[u].phase /\ task'[u].agent = task[u].agent
         /\ task'[u].named = task[u].named /\ task'[u].persist = task[u].persist
         /\ task'[u].seen = task[u].seen /\ task'[u].loaded = task[u].loaded
         /\ task'[u].say = task[u].say /\ task[u].missed \subseteq task'[u].missed,
         task[u].phase = "looked" =>
           Scope(u) \in task'[u].missed \/ stored'[Scope(u)] = stored[Scope(u)],
         task[u].phase = "recording" =>
           \A a \in Agent \ spoiled' :
             \/ \E scope \in task'[u].missed : scope[1] = a
             \/ a \notin spoiled /\ run'.statuses[a] = run.statuses[a]
  PROVE  TaskSound(u)'
<1> USE DEF Inv, TaskSound
<1>1. TaskShape(u)'
  BY DEF TaskShape
<1>2. LooksCurrent(u)'
  BY DEF LooksCurrent, Scope
<1>3. LoadIsCurrent(u)'
  BY DEF LoadIsCurrent
<1>4. task[u] \in Handling
  BY DEF TypeOK
<1>5. ASSUME NEW a \in Agent, task'[u].named, task'[u].agent = a
      PROVE  Backed(a, task[u].say)'
  BY <1>4, <1>5 DEF ClaimsStand, Handling
<1>6. ASSUME task[u].phase = "recording", NEW a \in Agent
      PROVE  Backed(a, task[u].loaded[a])'
  BY <1>6 DEF ClaimsStand, TaskShape, Maps, AllBacked
<1> QED
  BY <1>1, <1>2, <1>3, <1>5, <1>6 DEF AllBacked

----------------------------------------------------------------------------
(* Steps of one task that touch neither the row, the page nor the table. *)

LEMMA TaskAlone ==
  ASSUME Inv, TypeOK', QueueSound', SameRequests, NEW t \in Task, TaskSound(t)',
         UNCHANGED <<runVars, stored, history>>,
         \A u \in Task \ {t} : task'[u] = task[u]
  PROVE  Inv'
<1>1. ClaimsStand /\ \A a \in Agent : IsFiniteSet(Rows(a)')
  BY SameTable
<1>2. UNCHANGED <<run, patches, page, stored, told, spoiled, raced>>
  BY DEF runVars, history
<1>3. ASSUME NEW u \in Task, u # t PROVE TaskSound(u)'
  BY <1>1, <1>2, <1>3, BystanderSound
<1>4. PageSound'
  BY <1>1, <1>2 DEF Inv, PageSound, TypeOK, Patches, Maps, ClaimsStand, AllBacked
<1>5. RowSound'
  BY <1>1, <1>2 DEF Inv, RowSound, TypeOK, Maps, ClaimsStand, AllBacked, LastRecordStands
<1>6. TableSound'
  BY <1>1, <1>2 DEF Inv, TableSound, OneRowPerObservation
<1> QED
  BY <1>3, <1>4, <1>5, <1>6 DEF Inv

\* Work that has read nothing yet is sound, whatever it is about to say being backed.
LEMMA FreshWork ==
  ASSUME NEW t \in Task, NEW request, NEW batch, NEW say,
         NEW phase \in Phases \ {"idle", "looked", "recording"},
         task'[t] = Working(phase, request, batch, say),
         request.agent \in Agent,
         t \in PageTask => request.named /\ request.persist /\ request.agent = PageAgent[t],
         request.named => run'.status # "none",
         phase = "loading" => request.named,
         \A a \in Agent : request.named /\ request.agent = a => Backed(a, say)'
  PROVE  TaskSound(t)'
<1>1. /\ task'[t].phase = phase /\ task'[t].agent = request.agent
      /\ task'[t].named = request.named /\ task'[t].persist = request.persist
      /\ task'[t].say = say /\ task'[t].loaded = None
  BY DEF Working
<1>2. TaskShape(t)'
  BY <1>1, RunAssumption DEF TaskShape
<1>3. LooksCurrent(t)' /\ LoadIsCurrent(t)'
  BY <1>1 DEF LooksCurrent, LoadIsCurrent
<1> QED
  BY <1>1, <1>2, <1>3 DEF TaskSound

\* The step of one task.
Becomes(t, next) == task' = [task EXCEPT ![t] = next]

\* A request goes on, repeating what it said, or saying nothing of its rows.
LEMMA GoesOn ==
  ASSUME Inv, NEW t \in Task, task[t].phase # "idle",
         NEW phase \in Phases \ {"idle", "looked", "recording"},
         NEW batch \in Seq(Observation), NEW say \in Snapshots,
         Becomes(t, Working(phase, task[t], batch, say)),
         phase = "loading" => task[t].named,
         say \in {None, task[t].say} \/ say.state # "done" \/ ~task[t].persist,
         QueueTypeOK', \A c \in Client : job'[c] # "none" => c = t \/ job[c] # "none",
         UNCHANGED <<runVars, stored, history>>
  PROVE  Inv'
<1>1. UNCHANGED <<run, patches, page, stored, told, spoiled, raced>>
  BY DEF runVars, history
<1>2. /\ task \in [Task -> Handling] /\ Working(phase, task[t], batch, say) \in Handling
      /\ task' \in [Task -> Handling] /\ task'[t] = Working(phase, task[t], batch, say)
      /\ \A u \in Task \ {t} : task'[u] = task[u]
  BY CarryOn DEF Inv, TypeOK, Becomes
<1>3. TypeOK'
  BY <1>1, <1>2 DEF Inv, TypeOK
<1>4. /\ task'[t].phase = phase /\ task'[t].agent = task[t].agent
      /\ task'[t].named = task[t].named /\ task'[t].persist = task[t].persist
  BY <1>2 DEF Working
<1>5. SameRequests
  BY <1>2, <1>4 DEF SameRequests
<1>6. QueueSound'
  BY <1>2, <1>4 DEF Inv, QueueSound, Task
<1>7. task[t].agent \in Agent
  BY <1>2 DEF Inv, TaskSound, TaskShape, Handling
<1>8. ASSUME NEW a \in Agent, task[t].named, task[t].agent = a PROVE Backed(a, say)'
  <2>1. CASE say = None \/ say.state # "done"
    BY <2>1 DEF Backed
  <2>2. CASE say = task[t].say
    <3>1. Backed(a, say)
      BY <1>8, <2>2 DEF Inv, TaskSound, Backed
    <3>2. ClaimsStand
      BY <1>1, <1>5, SameTable
    <3> QED
      BY <3>1, <3>2 DEF ClaimsStand
  <2>3. CASE ~task[t].persist
    <3>1. ~KeptFor(a)'
      BY <1>4, <1>8, <2>3 DEF KeptFor
    <3> QED
      BY <3>1 DEF Backed
  <2> QED
    BY <2>1, <2>2, <2>3
<1>9. TaskSound(t)'
  <2> SUFFICES /\ t \in PageTask => /\ task[t].named /\ task[t].persist
                                   /\ task[t].agent = PageAgent[t]
               /\ task[t].named => run'.status # "none"
    BY <1>2, <1>7, <1>8, FreshWork
  <2> QED
    BY <1>1 DEF Inv, TaskSound, TaskShape
<1> QED
  BY <1>2, <1>3, <1>5, <1>6, <1>9, TaskAlone

\* The same, on the way to record what it says.
LEMMA GoesOnToSay ==
  ASSUME Inv, NEW t \in Task, task[t].phase # "idle",
         NEW say \in Snapshots, say = task[t].say \/ say.state # "done",
         Becomes(t, Says(t, say)),
         QueueTypeOK', \A c \in Client : job'[c] # "none" => c = t \/ job[c] # "none",
         UNCHANGED <<runVars, stored, history>>
  PROVE  Inv'
<1>0. <<>> \in Seq(Observation)
  OBVIOUS
<1>1. CASE task[t].named
  <2>1. Becomes(t, Working("loading", task[t], <<>>, say))
    BY <1>1 DEF Says
  <2>2. "loading" \in Phases \ {"idle", "looked", "recording"}
    BY DEF Phases
  <2> QED
    BY <1>0, <1>1, <2>1, <2>2, GoesOn
<1>2. CASE ~task[t].named
  <2> DEFINE phase == IF say.state = "running" THEN "analyzing" ELSE "recorded"
  <2>1. Becomes(t, Working(phase, task[t], <<>>, None))
    BY <1>2 DEF Says, Asking
  <2>2. phase \in Phases \ {"idle", "looked", "recording"} /\ phase # "loading"
    BY DEF Phases
  <2> HIDE DEF phase
  <2> QED
    BY <1>0, <2>1, <2>2, GoesOn, NoneIsSnapshot
<1> QED
  BY <1>1, <1>2

----------------------------------------------------------------------------
(* The steps of a request, one by one. *)

\* What the queue does to a job is within its types and leaves the others alone.
LEMMA QueueSteps ==
  ASSUME QueueTypeOK, NEW c \in Client,
         \/ Enqueue(c) \/ EnqueueFails(c) \/ Take(c) \/ GiveUp(c) \/ Return(c) \/ Requeue(c)
  PROVE  /\ QueueTypeOK'
         /\ \A d \in Client : job'[d] # "none" => d = c \/ job[d] # "none"
         /\ job[c] = "none" => Enqueue(c) \/ EnqueueFails(c)
<1>1. c \in Item /\ job[c] \in JobStates /\ tries[c] \in 0 .. MaxTries
  BY RunAssumption DEF QueueTypeOK
<1>2. CASE Take(c)
  <2>1. tries[c] + 1 \in 0 .. MaxTries
    BY <1>1, <1>2, MaxTriesAssumption DEF Take
  <2> QED
    BY <1>1, <1>2, <2>1, RunAssumption DEF Take, Moves, QueueTypeOK, JobStates
<1>3. CASE Enqueue(c) \/ EnqueueFails(c) \/ GiveUp(c) \/ Return(c) \/ Requeue(c)
  BY <1>1, <1>3, RunAssumption
     DEF Enqueue, EnqueueFails, GiveUp, Return, Requeue, Moves, QueueTypeOK, JobStates
<1> QED
  BY <1>2, <1>3

LEMMA QueueStays ==
  ASSUME Inv, UNCHANGED <<job, tries>>, NEW t
  PROVE  QueueTypeOK' /\ \A c \in Client : job'[c] # "none" => c = t \/ job[c] # "none"
BY DEF Inv, TypeOK, QueueTypeOK

LEMMA AnswersStep ==
  ASSUME Inv, NEW t \in Task, Answers(t) PROVE Inv'
<1>1. task[t].phase # "idle" /\ UNCHANGED <<job, tries>> /\ UNCHANGED <<runVars, stored, history>>
  BY DEF Answers
<1>2. PICK batch \in Batch :
        Becomes(t, IF task[t].persist
                     THEN Working("answered", task[t], batch, None)
                     ELSE Working("stored", task[t], <<>>, Answered(Len(batch))))
  BY DEF Answers, Becomes
<1>3. batch \in Seq(Observation) /\ <<>> \in Seq(Observation) /\ None \in Snapshots
  BY RunAssumption, NoneIsSnapshot
<1>4. CASE task[t].persist
  <2>1. Becomes(t, Working("answered", task[t], batch, None))
    BY <1>2, <1>4
  <2>2. "answered" \in Phases \ {"idle", "looked", "recording"}
    BY DEF Phases
  <2> QED
    BY <1>1, <1>3, <2>1, <2>2, QueueStays, GoesOn
<1>5. CASE ~task[t].persist
  <2>1. Becomes(t, Working("stored", task[t], <<>>, Answered(Len(batch))))
    BY <1>2, <1>5
  <2>2. "stored" \in Phases \ {"idle", "looked", "recording"}
    BY DEF Phases
  <2>3. Answered(Len(batch)) \in Snapshots
    <3>1. Len(batch) \in Nat
      BY <1>3
    <3> QED
      BY <3>1 DEF Answered, Snapshot, Snapshots, States
  <2> QED
    BY <1>1, <1>3, <1>5, <2>1, <2>2, <2>3, QueueStays, GoesOn
<1> QED
  BY <1>4, <1>5

LEMMA SubmitStep ==
  ASSUME Inv, NEW c \in Client, NEW request \in Request, NEW phase \in {"queued", "answered"},
         NEW batch \in Seq(Observation), Asked(c, request, phase, batch),
         QueueTypeOK', \A d \in Client : job'[d] # "none" => d = c \/ job[d] # "none",
         UNCHANGED <<runVars, stored, history>>
  PROVE  Inv'
<1>1. /\ request.agent \in Agent /\ request.named \in BOOLEAN /\ request.persist \in BOOLEAN
      /\ request.named => run.status # "none"
  BY RunAssumption DEF Asked
<1>2. /\ Working(phase, request, batch, None) \in Handling
      /\ phase \in Phases \ {"idle", "looked", "recording"}
  BY <1>1, WorkingType, NoneIsSnapshot DEF Phases
<1>3. /\ c \in Task /\ c \notin PageTask /\ task[c].phase = "idle"
      /\ task' \in [Task -> Handling] /\ task'[c] = Working(phase, request, batch, None)
      /\ \A u \in Task \ {c} : task'[u] = task[u]
  BY <1>2, RunAssumption DEF Inv, TypeOK, Asked, Task
<1>4. UNCHANGED <<run, patches, page, stored, told, spoiled, raced>>
  BY DEF runVars, history
<1>5. TypeOK'
  BY <1>3, <1>4 DEF Inv, TypeOK
<1>6. SameRequests
  BY <1>3 DEF SameRequests
<1>7. QueueSound'
  BY <1>2, <1>3 DEF Inv, QueueSound, Task, Working
<1>8. TaskSound(c)'
  BY <1>1, <1>2, <1>3, <1>4, FreshWork DEF Backed
<1> QED
  BY <1>3, <1>5, <1>6, <1>7, <1>8, TaskAlone

LEMMA LookUpStep ==
  ASSUME Inv, NEW t \in Task, LookUp(t) PROVE Inv'
<1> DEFINE seen == {o \in Observation : stored[Scope(t)][o] > 0}
           next == [task[t] EXCEPT !.phase = "looked", !.missed = {}, !.seen = seen]
<1>1. UNCHANGED <<run, patches, page, stored, told, spoiled, raced, job, tries>>
  BY DEF LookUp, runVars, history
<1>2. task[t] \in Handling /\ seen \subseteq Observation /\ "looked" \in Phases
  BY DEF Inv, TypeOK, Phases
<1>3. next \in Handling
  <2> HIDE DEF seen
  <2> QED
    BY <1>2 DEF Handling
<1>4. /\ next.phase = "looked" /\ next.seen = seen /\ next.agent = task[t].agent
      /\ next.named = task[t].named /\ next.persist = task[t].persist
      /\ next.loaded = task[t].loaded /\ next.say = task[t].say
  <2> HIDE DEF seen
  <2> QED
    BY <1>2 DEF Handling
<1>5. task' = [task EXCEPT ![t] = next]
  BY DEF LookUp, Inv, TypeOK
<1> HIDE DEF next
<1>6. task' \in [Task -> Handling] /\ task'[t] = next /\ \A u \in Task \ {t} : task'[u] = task[u]
  BY <1>3, <1>5 DEF Inv, TypeOK
<1>7. TypeOK' /\ QueueSound'
  BY <1>1, <1>4, <1>6 DEF Inv, TypeOK, QueueTypeOK, QueueSound, Task
<1>8. SameRequests
  BY <1>4, <1>6 DEF SameRequests
<1>9. TaskSound(t)'
  <2>1. task[t].phase = "answered"
    BY DEF LookUp
  <2>2. TaskShape(t)'
    BY <1>1, <1>4, <1>6, <2>1 DEF Inv, TaskSound, TaskShape
  <2>3. LooksCurrent(t)' /\ LoadIsCurrent(t)'
    BY <1>1, <1>4, <1>6 DEF LooksCurrent, LoadIsCurrent, Scope
  <2>4. ClaimsStand
    BY <1>1, <1>8, SameTable
  <2>5. ASSUME NEW a \in Agent, next.named, next.agent = a PROVE Backed(a, task[t].say)'
    BY <1>2, <1>4, <1>6, <2>4, <2>5 DEF ClaimsStand, Handling, Inv, TaskSound
  <2> QED
    BY <1>4, <1>6, <2>2, <2>3, <2>5 DEF TaskSound
<1> QED
  BY <1>1, <1>6, <1>7, <1>8, <1>9, TaskAlone DEF runVars, history

LEMMA RecordLoadStep ==
  ASSUME Inv, NEW t \in Task, RecordLoad(t) PROVE Inv'
<1> DEFINE next == [task[t] EXCEPT !.phase = "recording", !.loaded = run.statuses, !.missed = {}]
<1>1. UNCHANGED <<run, patches, page, stored, told, spoiled, raced, job, tries>>
  BY DEF RecordLoad, runVars, history
<1>2. task[t] \in Handling /\ run.statuses \in Maps /\ "recording" \in Phases
  BY DEF Inv, TypeOK, Phases
<1>3. next \in Handling
  BY <1>2 DEF Handling
<1>4. /\ next.phase = "recording" /\ next.loaded = run.statuses /\ next.agent = task[t].agent
      /\ next.named = task[t].named /\ next.persist = task[t].persist
      /\ next.say = task[t].say
  BY <1>2 DEF Handling
<1>5. task' = [task EXCEPT ![t] = next]
  BY DEF RecordLoad, Inv, TypeOK
<1> HIDE DEF next
<1>6. task' \in [Task -> Handling] /\ task'[t] = next /\ \A u \in Task \ {t} : task'[u] = task[u]
  BY <1>3, <1>5 DEF Inv, TypeOK
<1>7. TypeOK' /\ QueueSound'
  BY <1>1, <1>4, <1>6 DEF Inv, TypeOK, QueueTypeOK, QueueSound, Task
<1>8. SameRequests
  BY <1>4, <1>6 DEF SameRequests
<1>9. TaskSound(t)'
  <2>1. task[t].phase = "loading"
    BY DEF RecordLoad
  <2>2. TaskShape(t)'
    BY <1>1, <1>2, <1>4, <1>6, <2>1 DEF Inv, TaskSound, TaskShape
  <2>3. LooksCurrent(t)' /\ LoadIsCurrent(t)'
    BY <1>1, <1>4, <1>6 DEF LooksCurrent, LoadIsCurrent
  <2>4. ClaimsStand
    BY <1>1, <1>8, SameTable
  <2>5. ASSUME NEW a \in Agent, next.named, next.agent = a PROVE Backed(a, task[t].say)'
    BY <1>2, <1>4, <1>6, <2>4, <2>5 DEF ClaimsStand, Handling, Inv, TaskSound
  <2>6. ASSUME NEW a \in Agent PROVE Backed(a, run.statuses[a])'
    BY <1>1, <1>2, <2>4, <2>6 DEF ClaimsStand, Inv, RowSound, AllBacked, Maps
  <2>7. AllBacked(task[t].loaded)'
    BY <1>1, <1>4, <1>6, <2>6 DEF AllBacked
  <2> QED
    BY <1>4, <1>6, <2>2, <2>3, <2>5, <2>7 DEF TaskSound
<1> QED
  BY <1>1, <1>6, <1>7, <1>8, <1>9, TaskAlone DEF runVars, history

\* A request is only being worked on, or queued, when there is one.
LEMMA JobHasTask ==
  ASSUME Inv, NEW c \in Client, job[c] # "none"
  PROVE  c \in Task /\ task[c].phase # "idle" /\ task[c].say \in Snapshots
BY DEF Inv, QueueSound, TypeOK, Handling, Task

\* A job that records what it has to say of its agent.
LEMMA SayingSteps ==
  ASSUME Inv, NEW c \in Client, Start(c) \/ RecordDone(c) \/ RecordError(c)
  PROVE  Inv'
<1>1. Snapshot("running", 0) \in Snapshots /\ Snapshot("error", 0) \in Snapshots
  BY DEF Snapshot, Snapshots, States
<1>2. Snapshot("running", 0).state # "done" /\ Snapshot("error", 0).state # "done"
  BY DEF Snapshot
<1>3. CASE Start(c)
  <2>1. job[c] # "none" /\ Becomes(c, Says(c, Snapshot("running", 0)))
        /\ UNCHANGED <<runVars, stored, history>> /\ Take(c)
    BY <1>3 DEF Start, Becomes, Take, Moves
  <2> QED
    BY <1>1, <1>2, <2>1, JobHasTask, QueueSteps, GoesOnToSay DEF Inv, TypeOK
<1>4. CASE RecordDone(c)
  <2>1. job[c] # "none" /\ Becomes(c, Says(c, task[c].say))
        /\ UNCHANGED <<runVars, stored, history>> /\ UNCHANGED <<job, tries>>
    BY <1>4 DEF RecordDone, Becomes
  <2> QED
    BY <2>1, JobHasTask, QueueStays, GoesOnToSay
<1>5. CASE RecordError(c)
  <2>1. job[c] # "none" /\ Becomes(c, Says(c, Snapshot("error", 0)))
        /\ UNCHANGED <<runVars, stored, history>> /\ UNCHANGED <<job, tries>>
    BY <1>5 DEF RecordError, Becomes
  <2> QED
    BY <1>1, <1>2, <2>1, JobHasTask, QueueStays, GoesOnToSay
<1> QED
  BY <1>3, <1>4, <1>5

\* A request that is handed out again, or is over, has nothing more to say.
LEMMA ClosingSteps ==
  ASSUME Inv, NEW t \in Task,
         \/ t \in Client /\ (Ends(t) \/ Interrupt(t) \/ TimesOut(t) \/ Abandon(t))
         \/ InlineFails(t)
  PROVE  Inv'
<1>1. PICK phase \in {"over", "queued", "failed"} : Becomes(t, Working(phase, task[t], <<>>, None))
  BY DEF Ends, Interrupt, TimesOut, Abandon, InlineFails, Go, Asking, Becomes
<1>2. phase \in Phases \ {"idle", "looked", "recording"} /\ phase # "loading"
  BY DEF Phases
<1>3. UNCHANGED <<runVars, stored, history>>
  BY DEF Ends, Interrupt, TimesOut, Abandon, InlineFails
<1>4. /\ task[t].phase # "idle"
      /\ QueueTypeOK' /\ \A c \in Client : job'[c] # "none" => c = t \/ job[c] # "none"
  <2>1. CASE t \in Client /\ (Ends(t) \/ Interrupt(t) \/ TimesOut(t) \/ Abandon(t))
    <3>1. job[t] # "none" /\ (Return(t) \/ Requeue(t) \/ GiveUp(t))
      BY <2>1 DEF Ends, Interrupt, TimesOut, Abandon, Return, Requeue, GiveUp, Moves
    <3> QED
      BY <2>1, <3>1, JobHasTask, QueueSteps DEF Inv, TypeOK
  <2>2. CASE InlineFails(t)
    BY <2>2, QueueStays DEF InlineFails
  <2> QED
    BY <2>1, <2>2
<1>5. <<>> \in Seq(Observation)
  OBVIOUS
<1> QED
  BY <1>1, <1>2, <1>3, <1>4, <1>5, GoesOn, NoneIsSnapshot

----------------------------------------------------------------------------
(* Storing a batch. *)

\* No observation is stored twice of a batch, and none that had been seen.
LEMMA FreshOnce ==
  ASSUME NEW batch \in Seq(Observation), NEW seen
  PROVE  \A i, j \in FreshIn(batch, seen) : batch[i] = batch[j] => i = j
<1> SUFFICES ASSUME NEW i \in FreshIn(batch, seen), NEW j \in FreshIn(batch, seen),
                    batch[i] = batch[j], i < j
             PROVE  FALSE
  <2>1. FreshIn(batch, seen) \subseteq Nat
    BY DEF FreshIn
  <2> QED
    BY <2>1
<1>1. i \in 1 .. j - 1
  BY DEF FreshIn
<1> QED
  BY <1>1 DEF FreshIn

LEMMA FreshFinite ==
  ASSUME NEW batch \in Seq(Observation), NEW seen
  PROVE  IsFiniteSet(FreshIn(batch, seen)) /\ RowCount(batch, seen) \in Nat
<1>1. DOMAIN batch = 1 .. Len(batch) /\ Len(batch) \in Int
  OBVIOUS
<1>2. IsFiniteSet(1 .. Len(batch))
  BY <1>1, FS_Interval
<1>3. FreshIn(batch, seen) \in SUBSET (1 .. Len(batch))
  BY <1>1 DEF FreshIn
<1> QED
  BY <1>2, <1>3, FS_Subset, FS_CardinalityType DEF RowCount

\* A batch adds one row of each observation it has that was not seen, and no other.
LEMMA AddedIs ==
  ASSUME NEW batch \in Seq(Observation), NEW seen, NEW o
  PROVE  AddedRows(batch, seen, o) =
           IF \E i \in FreshIn(batch, seen) : batch[i] = o THEN 1 ELSE 0
<1> DEFINE at == {i \in FreshIn(batch, seen) : batch[i] = o}
<1>1. CASE \E i \in FreshIn(batch, seen) : batch[i] = o
  <2>1. PICK i \in FreshIn(batch, seen) : batch[i] = o
    BY <1>1
  <2>2. at = {i}
    BY <2>1, FreshOnce
  <2> QED
    BY <1>1, <2>2, FS_Singleton DEF AddedRows
<1>2. CASE ~\E i \in FreshIn(batch, seen) : batch[i] = o
  <2>1. at = {}
    BY <1>2
  <2> QED
    BY <1>2, <2>1, FS_EmptySet DEF AddedRows
<1> QED
  BY <1>1, <1>2

\* The table after a batch: no row is gone, and there is one for each that was counted.
LEMMA BatchStored ==
  ASSUME NEW batch \in Seq(Observation), NEW seen,
         NEW before \in [Observation -> Nat], NEW after \in [Observation -> Nat],
         \A o \in Observation : after[o] = before[o] + AddedRows(batch, seen, o),
         IsFiniteSet(TableRows(before))
  PROVE  /\ IsFiniteSet(TableRows(after))
         /\ Cardinality(TableRows(before)) <= Cardinality(TableRows(after))
         /\ RowCount(batch, seen) <= Cardinality(TableRows(after))
<1> DEFINE rows == TableRows(before)
           next == TableRows(after)
           fresh == FreshIn(batch, seen)
           row == [i \in fresh |-> <<batch[i], after[batch[i]]>>]
           added == {row[i] : i \in fresh}
<1>1. \A i \in fresh : batch[i] \in Observation
  BY DEF FreshIn
<1>2. \A i \in fresh : after[batch[i]] = before[batch[i]] + 1
  <2> SUFFICES ASSUME NEW i \in fresh PROVE after[batch[i]] = before[batch[i]] + 1
    OBVIOUS
  <2>1. AddedRows(batch, seen, batch[i]) = 1
    BY AddedIs
  <2> QED
    BY <1>1, <2>1
<1>3. \A o \in Observation : (\A i \in fresh : batch[i] # o) => after[o] = before[o]
  BY AddedIs
<1>4. next = rows \cup added
  <2>1. \A r : r \in rows <=>
                \E o \in Observation : \E k \in 1 .. before[o] : r = <<o, k>>
    BY DEF TableRows
  <2>2. \A r : r \in next <=>
                \E o \in Observation : \E k \in 1 .. after[o] : r = <<o, k>>
    BY DEF TableRows
  <2>3. \A r : r \in added <=> \E i \in fresh : r = <<batch[i], after[batch[i]]>>
    OBVIOUS
  <2>4. ASSUME NEW r \in rows PROVE r \in next
    <3>0. PICK o \in Observation : \E k \in 1 .. before[o] : r = <<o, k>>
      BY <2>1, <2>4
    <3>1. PICK k \in 1 .. before[o] : r = <<o, k>>
      BY <3>0
    <3>2. after[o] \in Nat /\ before[o] \in Nat /\ before[o] <= after[o]
      <4>1. after[o] \in Nat /\ before[o] \in Nat
        BY <3>0
      <4>2. after[o] = before[o] \/ after[o] = before[o] + 1
        BY <1>2, <1>3, <3>0
      <4> QED
        BY <4>1, <4>2
    <3>3. k \in 1 .. after[o]
      BY <3>1, <3>2
    <3> QED
      BY <2>2, <3>1, <3>3
  <2>5. ASSUME NEW r \in added PROVE r \in next
    <3>1. PICK i \in fresh : r = <<batch[i], after[batch[i]]>>
      BY <2>3, <2>5
    <3>2. after[batch[i]] \in 1 .. after[batch[i]]
      BY <1>1, <1>2
    <3> QED
      BY <1>1, <2>2, <3>1, <3>2
  <2>6. ASSUME NEW r \in next PROVE r \in rows \cup added
    <3>0. PICK o \in Observation : \E k \in 1 .. after[o] : r = <<o, k>>
      BY <2>2, <2>6
    <3>1. PICK k \in 1 .. after[o] : r = <<o, k>>
      BY <3>0
    <3>2. CASE \A i \in fresh : batch[i] # o
      BY <1>3, <2>1, <3>1, <3>2
    <3>3. CASE \E i \in fresh : batch[i] = o
      <4>1. PICK i \in fresh : batch[i] = o
        BY <3>3
      <4>2. k \in 1 .. before[o] \/ k = after[o]
        BY <1>2, <3>1, <4>1
      <4> QED
        BY <2>1, <2>3, <3>1, <4>1, <4>2
    <3> QED
      BY <3>2, <3>3
  <2> HIDE DEF added
  <2> QED
    BY <2>4, <2>5, <2>6
<1>5. IsFiniteSet(fresh)
  BY FreshFinite
<1>6. IsFiniteSet(added)
  <2>1. row \in Surjection(fresh, added)
    <3>1. row \in [fresh -> added] /\ \A r \in added : \E i \in fresh : row[i] = r
      OBVIOUS
    <3> HIDE DEF row, added
    <3> QED
      BY <3>1, Fun_IsSurj
  <2> HIDE DEF row, added
  <2> QED
    BY <1>5, <2>1, FS_Surjection
<1>7. IsFiniteSet(next)
  <2> HIDE DEF added
  <2>1. IsFiniteSet(rows \cup added)
    BY <1>6, FS_Union
  <2> QED
    BY <1>4, <2>1
<1>8. Cardinality(rows) <= Cardinality(next)
  <2>1. rows \in SUBSET next
    BY <1>4
  <2> QED
    BY <1>7, <2>1, FS_Subset
<1>9. Cardinality(fresh) <= Cardinality(next)
  <2>1. row \in [fresh -> next]
    <3>1. \A i \in fresh : row[i] \in next
      BY <1>4
    <3> QED
      BY <3>1
  <2>2. \A i, j \in fresh : row[i] = row[j] => i = j
    BY FreshOnce
  <2> HIDE DEF row
  <2>3. row \in Injection(fresh, next)
    BY <2>1, <2>2, Fun_IsInj
  <2> QED
    BY <1>7, <2>3, FS_Injection
<1> QED
  BY <1>7, <1>8, <1>9 DEF RowCount

----------------------------------------------------------------------------
(* Store. *)

\* Tasks that are told of a write differ in nothing else.
LEMMA NoticedType ==
  ASSUME TypeOK, NEW t \in Task, NEW phase, NEW next \in Handling, Scope(t) \in Scopes
  PROVE  /\ Noticed(t, phase, next) \in [Task -> Handling]
         /\ Noticed(t, phase, next)[t] = next
         /\ \A u \in Task \ {t} :
              LET w == Noticed(t, phase, next)[u]
              IN  /\ w.phase = task[u].phase /\ w.agent = task[u].agent
                  /\ w.named = task[u].named /\ w.persist = task[u].persist
                  /\ w.seen = task[u].seen /\ w.loaded = task[u].loaded
                  /\ w.say = task[u].say /\ task[u].missed \subseteq w.missed
                  /\ task[u].phase = phase => Scope(t) \in w.missed
<1> DEFINE told2(u) == [task[u] EXCEPT !.missed = @ \cup {Scope(t)}]
<1>1. ASSUME NEW u \in Task \ {t}
      PROVE  /\ task[u] \in Handling /\ told2(u) \in Handling
             /\ told2(u).missed = task[u].missed \cup {Scope(t)}
             /\ told2(u).phase = task[u].phase /\ told2(u).agent = task[u].agent
             /\ told2(u).named = task[u].named /\ told2(u).persist = task[u].persist
             /\ told2(u).seen = task[u].seen /\ told2(u).loaded = task[u].loaded
             /\ told2(u).say = task[u].say
  <2>1. task[u] \in Handling
    BY DEF TypeOK
  <2> QED
    BY <2>1, Missing
<1>2. Noticed(t, phase, next) =
        [u \in Task |-> IF u = t THEN next
                        ELSE IF task[u].phase = phase THEN told2(u) ELSE task[u]]
  BY DEF Noticed
<1> HIDE DEF told2
<1> QED
  BY <1>1, <1>2

LEMMA StoreStep ==
  ASSUME Inv, NEW t \in Task, Store(t) PROVE Inv'
<1> DEFINE scope == Scope(t)
           batch == task[t].batch
           seen == task[t].seen
           fresh == FreshIn(batch, seen)
           table == [o \in Observation |-> stored[scope][o] + AddedRows(batch, seen, o)]
<1>1. /\ task[t].phase = "looked" /\ task[t] \in Handling /\ task[t].agent \in Agent
      /\ scope \in Scopes /\ batch \in Seq(Observation) /\ scope = <<task[t].agent, task[t].named>>
  BY DEF Store, Inv, TypeOK, Handling, Scope, Scopes, TaskSound, TaskShape
<1>0. PICK say \in Snapshots : say = Answered(RowCount(batch, seen))
  BY <1>1, FreshFinite DEF Answered, Snapshot, Snapshots, States
<1> DEFINE next == Working("stored", task[t], <<>>, say)
<1>2. /\ stored' = [stored EXCEPT ![scope] = table]
      /\ task' = IF fresh = {} THEN [task EXCEPT ![t] = next] ELSE Noticed(t, "looked", next)
      /\ raced' = IF scope \in task[t].missed THEN raced \cup {scope} ELSE raced
      /\ UNCHANGED <<job, tries, run, patches, page, told, spoiled>>
  BY <1>0, <1>1 DEF Store, runVars, Inv, TypeOK
<1>4. next \in Handling
  <2>1. "stored" \in Phases /\ <<>> \in Seq(Observation)
    BY DEF Phases
  <2> QED
    BY <2>1, CarryOn DEF Inv
<1>5. /\ next.phase = "stored" /\ next.agent = task[t].agent /\ next.named = task[t].named
      /\ next.persist = task[t].persist
  BY DEF Working
<1>6. /\ table \in [Observation -> Nat]
      /\ \A o \in Observation : stored[scope][o] \in Nat
      /\ stored[scope] \in [Observation -> Nat]
  <2>1. stored[scope] \in [Observation -> Nat]
    BY <1>1 DEF Inv, TypeOK
  <2>2. \A o \in Observation : AddedRows(batch, seen, o) \in Nat
    BY <1>1, AddedIs
  <2> QED
    BY <2>1, <2>2
<1> HIDE DEF next, table, fresh, batch, seen
<1>7. /\ task' \in [Task -> Handling] /\ task'[t] = next
      /\ \A u \in Task \ {t} :
           /\ task'[u].phase = task[u].phase /\ task'[u].agent = task[u].agent
           /\ task'[u].named = task[u].named /\ task'[u].persist = task[u].persist
           /\ task'[u].seen = task[u].seen /\ task'[u].loaded = task[u].loaded
           /\ task'[u].say = task[u].say /\ task[u].missed \subseteq task'[u].missed
           /\ task[u].phase = "looked" /\ fresh # {} => scope \in task'[u].missed
  <2>1. task \in [Task -> Handling]
    BY DEF Inv, TypeOK
  <2>2. CASE fresh = {}
    BY <1>2, <1>4, <2>1, <2>2
  <2>3. CASE fresh # {}
    <3>1. task' = Noticed(t, "looked", next)
      BY <1>2, <2>3
    <3> QED
      BY <1>1, <1>4, <3>1, NoticedType DEF Inv
  <2> QED
    BY <2>2, <2>3
<1>8. stored' \in [Scopes -> [Observation -> Nat]] /\ stored'[scope] = table
      /\ \A s \in Scopes \ {scope} : stored'[s] = stored[s]
  BY <1>1, <1>2, <1>6 DEF Inv, TypeOK
<1>9. TypeOK'
  BY <1>1, <1>2, <1>7, <1>8 DEF Inv, TypeOK, QueueTypeOK
<1>10. SameRequests
  BY <1>5, <1>7 DEF SameRequests
<1>11. \A a \in Agent : /\ IsFiniteSet(Rows(a)') /\ RowsOf(a)' \in Nat
                        /\ RowsOf(a) <= RowsOf(a)'
                        /\ <<a, TRUE>> = scope => RowCount(batch, seen) <= RowsOf(a)'
  <2> SUFFICES ASSUME NEW a \in Agent
               PROVE  /\ IsFiniteSet(Rows(a)') /\ RowsOf(a) <= RowsOf(a)'
                      /\ <<a, TRUE>> = scope => RowCount(batch, seen) <= RowsOf(a)'
    BY FS_CardinalityType DEF RowsOf
  <2>1. CASE <<a, TRUE>> = scope
    <3>1. Rows(a) = TableRows(stored[scope])
      BY <2>1 DEF Rows
    <3>2. Rows(a)' = TableRows(table)
      BY <1>8, <2>1 DEF Rows
    <3>3. \A o \in Observation : table[o] = stored[scope][o] + AddedRows(batch, seen, o)
      BY DEF table
    <3>4. IsFiniteSet(Rows(a))
      BY DEF Inv, TableSound
    <3>5. /\ IsFiniteSet(TableRows(table))
          /\ Cardinality(TableRows(stored[scope])) <= Cardinality(TableRows(table))
          /\ RowCount(batch, seen) <= Cardinality(TableRows(table))
      BY <1>1, <1>6, <3>1, <3>3, <3>4, BatchStored
    <3>6. RowsOf(a) = Cardinality(Rows(a)) /\ RowsOf(a)' = Cardinality(Rows(a)')
      BY DEF RowsOf
    <3> QED
      BY <3>1, <3>2, <3>5, <3>6
  <2>2. CASE <<a, TRUE>> # scope
    <3>1. stored'[<<a, TRUE>>] = stored[<<a, TRUE>>]
      BY <1>8, <2>2 DEF Scopes
    <3>2. Rows(a)' = Rows(a)
      BY <3>1 DEF Rows
    <3>3. RowsOf(a)' = RowsOf(a)
      BY <3>2 DEF RowsOf
    <3>4. RowsOf(a) \in Nat
      BY RowCounts
    <3>5. IsFiniteSet(Rows(a)')
      BY <3>2 DEF Inv, TableSound
    <3>6. RowsOf(a) <= RowsOf(a)'
      BY <3>3, <3>4
    <3> QED
      BY <2>2, <3>5, <3>6
  <2> QED
    BY <2>1, <2>2
<1>12. ClaimsStand
  BY <1>10, <1>11, MoreRowsBack
<1>13. TaskSound(t)'
  <2>1. ASSUME NEW a \in Agent, task[t].named, task[t].agent = a PROVE Backed(a, say)'
    <3>1. <<a, TRUE>> = scope
      BY <1>1, <2>1 DEF Inv, TypeOK, Handling
    <3>2. say.count = RowCount(batch, seen)
      BY <1>0 DEF Answered, Snapshot
    <3> QED
      BY <1>11, <3>1, <3>2 DEF Backed
  <2>2. "stored" \in Phases \ {"idle", "looked", "recording"}
    BY DEF Phases
  <2>3. /\ t \in PageTask => /\ task[t].named /\ task[t].persist
                            /\ task[t].agent = PageAgent[t]
        /\ task[t].named => run'.status # "none"
    BY <1>1, <1>2 DEF Inv, TaskSound, TaskShape
  <2>4. task'[t] = Working("stored", task[t], <<>>, say)
    BY <1>7 DEF next
  <2> QED
    BY <1>1, <2>1, <2>2, <2>3, <2>4, FreshWork
<1>14. ASSUME NEW u \in Task \ {t} PROVE TaskSound(u)'
  <2>1. ASSUME task[u].phase = "looked"
        PROVE  Scope(u) \in task'[u].missed \/ stored'[Scope(u)] = stored[Scope(u)]
    <3>1. Scope(u) \in Scopes
      BY <2>1 DEF Inv, TypeOK, Handling, TaskSound, TaskShape, Scope, Scopes
    <3>2. CASE Scope(u) # scope
      BY <1>8, <3>1, <3>2
    <3>3. CASE Scope(u) = scope /\ fresh # {}
      BY <1>7, <2>1, <3>3
    <3>4. CASE Scope(u) = scope /\ fresh = {}
      <4>1. \A o \in Observation : AddedRows(batch, seen, o) = 0
        BY <1>1, <3>4, AddedIs DEF fresh, batch
      <4>2. table = stored[scope]
        BY <1>6, <4>1 DEF table
      <4> QED
        BY <1>8, <3>4, <4>2
    <3> QED
      BY <3>2, <3>3, <3>4
  <2> QED
    BY <1>2, <1>7, <1>12, <2>1, BystanderSound
<1>15. QueueSound'
  BY <1>1, <1>2, <1>5, <1>7 DEF Inv, QueueSound, Task
<1>16. PageSound'
  BY <1>2, <1>12 DEF Inv, PageSound, TypeOK, Patches, Maps, ClaimsStand, AllBacked
<1>17. RowSound'
  BY <1>2, <1>12 DEF Inv, RowSound, TypeOK, Maps, ClaimsStand, AllBacked, LastRecordStands
<1>18. OneRowPerObservation'
  <2> SUFFICES ASSUME NEW s \in Scopes, NEW o \in Observation, stored'[s][o] > 1
               PROVE  s \in raced'
    BY DEF OneRowPerObservation
  <2>1. CASE stored'[s][o] = stored[s][o]
    BY <1>2, <2>1 DEF Inv, TableSound, OneRowPerObservation
  <2>2. CASE stored'[s][o] # stored[s][o]
    <3>1. s = scope /\ table[o] # stored[scope][o] /\ table[o] > 1
      BY <1>8, <2>2
    <3>2. /\ table[o] = stored[scope][o] + AddedRows(batch, seen, o)
          /\ stored[scope][o] \in Nat
      BY <1>6 DEF table
    <3>3. AddedRows(batch, seen, o) = IF \E i \in fresh : batch[i] = o THEN 1 ELSE 0
      BY <1>1, AddedIs DEF fresh
    <3>4. PICK i \in fresh : batch[i] = o
      BY <3>1, <3>2, <3>3
    <3>5. o \notin seen
      BY <3>4 DEF fresh, FreshIn
    <3>6. stored[scope][o] > 0
      BY <3>1, <3>2, <3>3
    <3>7. scope \in task[t].missed
      BY <1>1, <3>5, <3>6 DEF Inv, TaskSound, LooksCurrent, seen
    <3> QED
      BY <1>2, <3>1, <3>7
  <2> QED
    BY <2>1, <2>2
<1> QED
  BY <1>9, <1>11, <1>13, <1>14, <1>15, <1>16, <1>17, <1>18 DEF Inv, TableSound

----------------------------------------------------------------------------
(* RecordCommit. *)

LEMMA RecordCommitStep ==
  ASSUME Inv, NEW t \in Task, RecordCommit(t) PROVE Inv'
<1> DEFINE lost == {s[1] : s \in task[t].missed}
<1>1. /\ task[t].phase = "recording" /\ task[t] \in Handling /\ task[t].named
      /\ task[t].agent \in Agent /\ task[t].loaded \in Maps /\ task[t].say \in Snapshots
  BY DEF RecordCommit, Inv, TypeOK, Handling, TaskSound, TaskShape
<1>2. PICK agent \in Agent, loaded \in Maps, say \in Snapshots :
        agent = task[t].agent /\ loaded = task[t].loaded /\ say = task[t].say
  BY <1>1
<1> DEFINE statuses == Merged(loaded, agent, say)
<1>3. PICK phase \in {"analyzing", "recorded"} : Recorded(t) = Working(phase, task[t], <<>>, None)
  BY DEF Recorded, Asking
<1> DEFINE next == Working(phase, task[t], <<>>, None)
<1>4. /\ told' = [told EXCEPT ![agent] = say]
      /\ UNCHANGED <<job, tries, patches, page, stored, raced>>
      /\ \/ /\ statuses = loaded
            /\ spoiled' = spoiled \cup (lost \cap {agent})
            /\ task' = [task EXCEPT ![t] = next]
            /\ UNCHANGED run
         \/ /\ spoiled' = (spoiled \cup lost) \ {agent}
            /\ task' = Noticed(t, "recording", next)
            /\ run' = [run EXCEPT !.statuses = statuses]
  BY <1>2, <1>3 DEF RecordCommit
<1>5. /\ statuses \in Maps /\ statuses[agent] = say
      /\ \A a \in Agent \ {agent} : statuses[a] = loaded[a]
  BY DEF Merged, Maps
<1>6. phase \in Phases \ {"idle", "looked", "recording"} /\ phase \notin {"stored", "loading"}
  BY DEF Phases
<1>7. /\ next \in Handling /\ next.phase = phase /\ next.agent = agent
      /\ next.named = task[t].named /\ next.persist = task[t].persist
  <2>1. <<>> \in Seq(Observation)
    OBVIOUS
  <2> QED
    BY <1>2, <1>6, <2>1, CarryOn, NoneIsSnapshot DEF Inv, Working
<1>8. Scope(t) \in Scopes /\ Scope(t)[1] = agent
  BY <1>1, <1>2 DEF Scope, Scopes, Handling
<1> HIDE DEF next, statuses
<1>9. /\ task' \in [Task -> Handling] /\ task'[t] = next
      /\ \A u \in Task \ {t} :
           /\ task'[u].phase = task[u].phase /\ task'[u].agent = task[u].agent
           /\ task'[u].named = task[u].named /\ task'[u].persist = task[u].persist
           /\ task'[u].seen = task[u].seen /\ task'[u].loaded = task[u].loaded
           /\ task'[u].say = task[u].say /\ task[u].missed \subseteq task'[u].missed
           /\ task[u].phase = "recording" =>
                \/ run' = run /\ spoiled \subseteq spoiled'
                \/ Scope(t) \in task'[u].missed
  <2>1. CASE /\ task' = [task EXCEPT ![t] = next]
             /\ spoiled' = spoiled \cup (lost \cap {agent})
             /\ UNCHANGED run
    BY <1>7, <2>1 DEF Inv, TypeOK
  <2>2. CASE task' = Noticed(t, "recording", next)
    BY <1>7, <1>8, <2>2, NoticedType DEF Inv
  <2> QED
    BY <1>4, <2>1, <2>2
<1>10. SameRequests
  BY <1>2, <1>7, <1>9 DEF SameRequests
<1>11. ClaimsStand /\ \A a \in Agent : IsFiniteSet(Rows(a)')
  BY <1>4, <1>10, SameTable
<1>12. /\ run' \in [status : RunStatus, finished : BOOLEAN, statuses : Maps]
       /\ run'.status = run.status
       /\ run' = run \/ run'.statuses = statuses
  BY <1>4, <1>5 DEF Inv, TypeOK
<1>13. lost \subseteq Agent
  BY <1>1 DEF Handling, Scopes
<1>14. TypeOK'
  BY <1>4, <1>9, <1>12, <1>13 DEF Inv, TypeOK, QueueTypeOK, Maps
\* What the row says of an agent that neither is recorded now nor spoiled is as it was.
<1>15. \A a \in Agent \ spoiled' :
         /\ a # agent => a \notin spoiled
         /\ a # agent => run'.statuses[a] = run.statuses[a]
         /\ a = agent => run'.statuses[a] = say
  <2> SUFFICES ASSUME NEW a \in Agent \ spoiled'
               PROVE  /\ a # agent => a \notin spoiled
                      /\ a # agent => run'.statuses[a] = run.statuses[a]
                      /\ a = agent => run'.statuses[a] = say
    OBVIOUS
  <2>1. a \notin lost /\ a \notin spoiled => loaded[a] = run.statuses[a]
    BY <1>1, <1>2 DEF Inv, TaskSound, LoadIsCurrent
  <2>2. CASE /\ statuses = loaded
             /\ spoiled' = spoiled \cup (lost \cap {agent})
             /\ UNCHANGED run
    BY <1>5, <2>1, <2>2
  <2>3. CASE /\ spoiled' = (spoiled \cup lost) \ {agent}
             /\ run' = [run EXCEPT !.statuses = statuses]
    <3>1. run'.statuses = statuses
      BY <2>3 DEF Inv, TypeOK
    <3> QED
      BY <1>5, <2>1, <2>3, <3>1
  <2> QED
    BY <1>4, <2>2, <2>3
<1>16. TaskSound(t)'
  <2>1. /\ t \in PageTask => /\ task[t].named /\ task[t].persist
                            /\ task[t].agent = PageAgent[t]
        /\ task[t].named => run'.status # "none"
    BY <1>1, <1>12 DEF Inv, TaskSound, TaskShape
  <2>2. task'[t] = Working(phase, task[t], <<>>, None)
    BY <1>9 DEF next
  <2>3. \A a \in Agent : Backed(a, None)'
    BY DEF Backed
  <2> QED
    BY <1>1, <1>6, <2>1, <2>2, <2>3, FreshWork
<1>17. ASSUME NEW u \in Task \ {t} PROVE TaskSound(u)'
  <2>1. ASSUME task[u].phase = "recording", NEW a \in Agent \ spoiled'
        PROVE  \/ \E scope \in task'[u].missed : scope[1] = a
               \/ a \notin spoiled /\ run'.statuses[a] = run.statuses[a]
    BY <1>8, <1>9, <1>15, <2>1
  <2>2. stored' = stored /\ (run.status # "none" => run'.status # "none")
    BY <1>4, <1>12
  <2> QED
    BY <1>9, <1>11, <2>1, <2>2, BystanderSound
<1>18. QueueSound'
  BY <1>1, <1>4, <1>6, <1>7, <1>9 DEF Inv, QueueSound, Task
<1>19. PageSound'
  BY <1>4, <1>11, <1>12 DEF Inv, PageSound, TypeOK, Patches, Maps, ClaimsStand, AllBacked
<1>20. RowSound'
  <2>1. run'.status # "none"
    BY <1>1, <1>12 DEF Inv, TaskSound, TaskShape
  <2>2. AllBacked(run.statuses)'
    <3>1. ASSUME NEW a \in Agent PROVE Backed(a, run.statuses[a])'
      <4>1. CASE run' = run
        BY <1>11, <4>1 DEF Inv, RowSound, TypeOK, Maps, ClaimsStand, AllBacked
      <4>2. CASE run'.statuses = statuses
        <5>1. statuses[a] \in Snapshots
          BY <1>5 DEF Maps
        <5>2. Backed(a, loaded[a])
          BY <1>1, <1>2 DEF Inv, TaskSound, AllBacked, Backed
        <5>3. a = agent => Backed(a, say)
          BY <1>1, <1>2 DEF Inv, TaskSound, Backed
        <5>4. PICK snapshot \in Snapshots : snapshot = statuses[a]
          BY <5>1
        <5>5. Backed(a, snapshot)'
          BY <1>5, <1>11, <5>2, <5>3, <5>4 DEF ClaimsStand
        <5> QED
          BY <4>2, <5>4, <5>5 DEF Backed
      <4> QED
        BY <1>12, <4>1, <4>2
    <3> QED
      BY <3>1 DEF AllBacked
  <2>3. LastRecordStands'
    BY <1>4, <1>15 DEF Inv, RowSound, LastRecordStands, TypeOK, Maps
  <2> QED
    BY <2>1, <2>2, <2>3 DEF RowSound
<1>21. TableSound'
  BY <1>4, <1>11 DEF Inv, TableSound, OneRowPerObservation
<1> QED
  BY <1>9, <1>14, <1>16, <1>17, <1>18, <1>19, <1>20, <1>21 DEF Inv

----------------------------------------------------------------------------
(* The page. *)

\* A step of the page that makes no request, or a PATCH that arrives.
LEMMA PageStep ==
  ASSUME Inv, TypeOK', PageSound', AllBacked(run.statuses)',
         UNCHANGED <<taskVars, stored, told, raced>>,
         run.status # "none" => run'.status # "none",
         \A a \in Agent \ spoiled' :
           a \notin spoiled /\ (run.status = "none" \/ run'.statuses[a] = run.statuses[a])
  PROVE  Inv'
<1>1. UNCHANGED <<job, tries, task, stored, told, raced>>
  BY DEF taskVars
<1>2. SameRequests
  BY <1>1 DEF SameRequests
<1>3. ClaimsStand /\ \A a \in Agent : IsFiniteSet(Rows(a)')
  BY <1>1, <1>2, SameTable
<1>4. ASSUME NEW u \in Task PROVE TaskSound(u)'
  <2>1. task[u].phase = "recording" => run.status # "none"
    BY DEF Inv, TaskSound, TaskShape
  <2> QED
    BY <1>1, <1>3, <2>1, BystanderSound
<1>5. RowSound'
  <2>1. LastRecordStands'
    BY <1>1 DEF Inv, RowSound, LastRecordStands, NoStatuses
  <2> QED
    BY <1>1, <2>1 DEF Inv, RowSound, NoStatuses
<1>6. TableSound' /\ QueueSound'
  BY <1>1, <1>3 DEF Inv, TableSound, OneRowPerObservation, QueueSound
<1> QED
  BY <1>4, <1>5, <1>6 DEF Inv

\* Maps of states that claim nothing.
LEMMA NothingClaimed ==
  ASSUME NEW map \in Maps, \A a \in Agent : map[a] = None \/ map[a].state # "done"
  PROVE  AllBacked(map) /\ AllBacked(map)'
BY DEF AllBacked, Backed

LEMMA InitialMaps ==
  ASSUME NEW selected
  PROVE  /\ NoStatuses \in Maps /\ Initial(selected) \in Maps
         /\ \A a \in Agent : NoStatuses[a] = None /\ Initial(selected)[a].state # "done"
BY DEF NoStatuses, Initial, Snapshot, Snapshots, States, Maps

LEMMA PageCreatesStep ==
  ASSUME Inv, NEW selected, PageCreates(selected) PROVE Inv'
<1>1. /\ page.stage = "idle" /\ run.status = "none"
      /\ run' = [status |-> "running", finished |-> FALSE, statuses |-> NoStatuses]
      /\ page' = [stage |-> "discovering", shown |-> Initial(selected)]
      /\ patches' = {StatusesPatch(Initial(selected))}
      /\ UNCHANGED <<taskVars, stored, told, raced, spoiled>>
  BY DEF PageCreates, Shows, history, Inv, PageSound
<1>2. StatusesPatch(Initial(selected)) \in Patches
  BY InitialMaps DEF StatusesPatch, Patches
<1>3. TypeOK'
  BY <1>1, <1>2, InitialMaps DEF Inv, TypeOK, QueueTypeOK, taskVars, RunStatus
<1>4. AllBacked(Initial(selected))' /\ AllBacked(NoStatuses)'
  BY InitialMaps, NothingClaimed
<1>5. PageSound' /\ AllBacked(run.statuses)'
  BY <1>1, <1>4 DEF PageSound, StatusesPatch
<1> QED
  BY <1>1, <1>3, <1>5, PageStep

\* What the page shows next, and tells the row.
LEMMA ShowingStep ==
  ASSUME Inv, NEW shown \in Maps, AllBacked(shown)',
         NEW stage \in {"discovering", "waiting", "finished", "closed"}, page.stage # "idle",
         page' = [stage |-> stage, shown |-> shown],
         patches' \subseteq patches \cup {StatusesPatch(shown)}
           \cup {StatusPatch(status) : status \in {"completed", "completed_with_errors"}},
         UNCHANGED <<taskVars, run, stored, history>>
  PROVE  Inv'
<1>1. UNCHANGED <<job, tries, task, stored, told, raced, spoiled>>
  BY DEF taskVars, history
<1>2. SameRequests
  BY <1>1 DEF SameRequests
<1>3. ClaimsStand
  BY <1>1, <1>2, SameTable
<1>4. patches' \subseteq Patches
  BY DEF StatusesPatch, StatusPatch, Patches, RunStatus, Inv, TypeOK
<1>5. TypeOK'
  BY <1>1, <1>4 DEF Inv, TypeOK, QueueTypeOK
<1>6. AllBacked(run.statuses)'
  BY <1>3 DEF Inv, RowSound, TypeOK, Maps, ClaimsStand, AllBacked
<1>7. ASSUME NEW patch \in patches', patch.statuses # None PROVE AllBacked(patch.statuses)'
  <2>1. CASE patch \in patches
    BY <1>3, <1>7, <2>1 DEF Inv, PageSound, TypeOK, Patches, Maps, ClaimsStand, AllBacked
  <2>2. CASE patch = StatusesPatch(shown)
    BY <2>2 DEF StatusesPatch
  <2>3. CASE \E status : patch = StatusPatch(status)
    BY <1>7, <2>3 DEF StatusPatch
  <2> QED
    BY <2>1, <2>2, <2>3
<1>8. PageSound'
  BY <1>7 DEF Inv, PageSound
<1> QED
  BY <1>1, <1>5, <1>6, <1>8, PageStep

LEMMA PageSettlesStep ==
  ASSUME Inv, NEW t \in PageTask, NEW snapshot, PageSettles(t, snapshot) PROVE Inv'
<1>1. PICK a \in Agent : a = PageAgent[t]
  BY RunAssumption
<1>2. t \in Task /\ task[t] \in Handling /\ page.shown \in Maps /\ page.stage = "waiting"
  BY DEF Task, Inv, TypeOK, PageSettles
<1>3. snapshot \in Snapshots /\ Backed(a, snapshot)
  <2>1. CASE task[t].phase = "stored" /\ snapshot = task[t].say
    BY <1>1, <1>2, <2>1 DEF Handling, Inv, TaskSound, TaskShape, Backed
  <2>2. CASE snapshot = Snapshot("error", 0)
    BY <2>2 DEF Snapshot, Snapshots, States, Backed
  <2> QED
    BY <2>1, <2>2 DEF PageSettles
<1>4. PICK shown \in Maps : shown = [page.shown EXCEPT ![PageAgent[t]] = snapshot]
  BY <1>1, <1>2, <1>3 DEF Maps
<1>5. /\ page' = [stage |-> "waiting", shown |-> shown]
      /\ patches' = patches \cup {StatusesPatch(shown)}
      /\ UNCHANGED <<taskVars, run, stored, history>>
  BY <1>4 DEF PageSettles, Shows
<1>6. ClaimsStand
  BY <1>5, SameTable DEF SameRequests, taskVars
<1>7. AllBacked(shown)'
  <2>1. ASSUME NEW b \in Agent PROVE Backed(b, shown[b])
    <3>1. CASE b = a
      BY <1>1, <1>2, <1>3, <1>4, <3>1 DEF Maps
    <3>2. CASE b # a
      BY <1>1, <1>2, <1>4, <3>2 DEF Maps, Inv, PageSound, AllBacked, Backed
    <3> QED
      BY <3>1, <3>2
  <2> QED
    BY <1>6, <2>1 DEF AllBacked, ClaimsStand, Maps
<1> QED
  BY <1>2, <1>5, <1>7, ShowingStep

LEMMA PageEndsStep ==
  ASSUME Inv, PageFinishes \/ PageCloses PROVE Inv'
<1>1. UNCHANGED <<taskVars, run, stored, history>> /\ page.stage # "idle"
  BY DEF PageFinishes, PageCloses
<1>2. ClaimsStand
  BY <1>1, SameTable DEF SameRequests, taskVars
<1>3. CASE PageFinishes
  <2>1. PICK shown \in Maps : shown = page.shown
    BY DEF Inv, TypeOK
  <2>2. AllBacked(shown)'
    BY <1>2, <2>1 DEF Inv, PageSound, AllBacked, ClaimsStand, Maps, Backed
  <2>3. Outcome(page.shown) \in {"completed", "completed_with_errors"}
    BY DEF Outcome
  <2>4. /\ page' = [stage |-> "finished", shown |-> shown]
        /\ patches' = patches \cup {StatusPatch(Outcome(page.shown))}
    BY <1>3, <2>1 DEF PageFinishes, Shows
  <2> QED
    BY <1>1, <2>2, <2>3, <2>4, ShowingStep
<1>4. CASE PageCloses
  <2>1. NoStatuses \in Maps /\ AllBacked(NoStatuses)'
    BY InitialMaps, NothingClaimed
  <2>2. page' = [stage |-> "closed", shown |-> NoStatuses] /\ patches' = patches
    BY <1>4 DEF PageCloses, Shows
  <2> QED
    BY <1>1, <2>1, <2>2, ShowingStep
<1> QED
  BY <1>3, <1>4

LEMMA DeliverStep ==
  ASSUME Inv, NEW patch, Deliver(patch) PROVE Inv'
<1>1. /\ patch \in patches /\ patch \in Patches /\ patches' = patches \ {patch}
      /\ run' = Patched(run, patch)
      /\ spoiled' = IF patch.statuses = None THEN spoiled ELSE Agent
      /\ UNCHANGED <<job, tries, task, page, stored, told, raced>>
  BY DEF Deliver, taskVars, Inv, TypeOK
<1>2. /\ page.stage # "idle" /\ run.status # "none"
      /\ run \in [status : RunStatus, finished : BOOLEAN, statuses : Maps]
  BY <1>1 DEF Inv, PageSound, TypeOK
<1>3. /\ run'.status \in RunStatus \ {"none"}
      /\ run'.statuses = IF patch.statuses = None THEN run.statuses ELSE patch.statuses
      /\ run' \in [status : RunStatus, finished : BOOLEAN, statuses : Maps]
  BY <1>1, <1>2 DEF Patched, Patches
<1>4. TypeOK'
  BY <1>1, <1>3 DEF Inv, TypeOK, QueueTypeOK
<1>5. ClaimsStand
  BY <1>1, SameTable DEF SameRequests
<1>6. ASSUME NEW p \in patches, p.statuses # None PROVE AllBacked(p.statuses)'
  BY <1>5, <1>6 DEF Inv, PageSound, TypeOK, Patches, Maps, ClaimsStand, AllBacked
<1>7. AllBacked(run.statuses)'
  <2>1. CASE patch.statuses = None
    BY <1>3, <1>5, <2>1 DEF Inv, RowSound, TypeOK, Maps, ClaimsStand, AllBacked
  <2>2. CASE patch.statuses # None
    BY <1>1, <1>3, <1>6, <2>2 DEF AllBacked
  <2> QED
    BY <2>1, <2>2
<1>8. PageSound'
  <2>1. AllBacked(page.shown)'
    BY <1>1, <1>5 DEF Inv, PageSound, TypeOK, Maps, ClaimsStand, AllBacked
  <2> QED
    BY <1>1, <1>2, <1>3, <1>6, <2>1 DEF PageSound
<1> QED
  BY <1>1, <1>2, <1>3, <1>4, <1>7, <1>8, PageStep DEF taskVars

LEMMA PageFansOutStep ==
  ASSUME Inv, PageFansOut PROVE Inv'
<1> DEFINE asked(t) == t \in PageTask /\ page.shown[PageAgent[t]].state = "pending"
           next(t) == Working("analyzing", Inline(PageAgent[t]), <<>>, None)
<1>1. /\ page.stage = "discovering"
      /\ task' = [t \in Task |-> IF asked(t) THEN next(t) ELSE task[t]]
      /\ page' = [stage |-> "waiting", shown |-> WithRunning(page.shown)]
      /\ patches' = patches \cup {StatusesPatch(WithRunning(page.shown))}
      /\ UNCHANGED <<job, tries, run, stored, told, spoiled, raced>>
  BY DEF PageFansOut, Shows, history
<1>2. page.shown \in Maps /\ task \in [Task -> Handling]
  BY DEF Inv, TypeOK
<1>3. PICK shown \in Maps : shown = WithRunning(page.shown)
  BY <1>2 DEF WithRunning, Snapshot, Snapshots, States, Maps
<1>4. ASSUME NEW t \in PageTask
      PROVE  /\ next(t) \in Handling /\ next(t).phase = "analyzing"
             /\ next(t).named /\ next(t).persist /\ next(t).agent = PageAgent[t]
             /\ PageAgent[t] \in Agent
  <2>1. /\ Inline(PageAgent[t]).agent \in {None} \cup Agent
        /\ Inline(PageAgent[t]).named \in BOOLEAN /\ Inline(PageAgent[t]).persist \in BOOLEAN
        /\ "analyzing" \in Phases /\ <<>> \in Seq(Observation)
    BY RunAssumption DEF Inline, Phases
  <2>2. next(t) \in Handling
    BY <2>1, WorkingType, NoneIsSnapshot
  <2> QED
    BY <2>2, RunAssumption DEF Working, Inline
<1> HIDE DEF next
<1>5. task' \in [Task -> Handling]
  BY <1>1, <1>2, <1>4
<1>6. StatusesPatch(shown) \in Patches
  BY DEF StatusesPatch, Patches
<1>7. TypeOK'
  BY <1>1, <1>3, <1>5, <1>6 DEF Inv, TypeOK, QueueTypeOK
<1>8. SameRequests
  BY <1>1, <1>4 DEF SameRequests, Inv, TaskSound, TaskShape
<1>9. ClaimsStand /\ \A a \in Agent : IsFiniteSet(Rows(a)')
  BY <1>1, <1>8, SameTable
<1>10. ASSUME NEW t \in Task PROVE TaskSound(t)'
  <2>1. CASE asked(t)
    <3>1. /\ task'[t] = Working("analyzing", Inline(PageAgent[t]), <<>>, None)
          /\ PageAgent[t] \in Agent
      BY <1>1, <1>4, <2>1 DEF next
    <3>2. Inline(PageAgent[t]).agent = PageAgent[t]
          /\ Inline(PageAgent[t]).named /\ Inline(PageAgent[t]).persist
      BY DEF Inline
    <3>3. "analyzing" \in Phases \ {"idle", "looked", "recording"}
      BY DEF Phases
    <3>4. run'.status # "none"
      BY <1>1 DEF Inv, PageSound
    <3>5. \A a \in Agent : Backed(a, None)'
      BY DEF Backed
    <3> QED
      BY <3>1, <3>2, <3>3, <3>4, <3>5, FreshWork
  <2>2. CASE ~asked(t)
    <3>1. task'[t] = task[t]
      BY <1>1, <2>2
    <3> QED
      BY <1>1, <1>9, <3>1, BystanderSound
  <2> QED
    BY <2>1, <2>2
<1>11. QueueSound'
  BY <1>1, RunAssumption DEF Inv, QueueSound, Task
<1>12. AllBacked(shown)'
  <2>1. ASSUME NEW a \in Agent PROVE Backed(a, shown[a])
    <3>1. shown[a] = IF page.shown[a].state = "pending" THEN Snapshot("running", 0)
                     ELSE page.shown[a]
      BY <1>3 DEF WithRunning
    <3>2. Backed(a, page.shown[a])
      BY DEF Inv, PageSound, AllBacked, Backed
    <3> QED
      BY <3>1, <3>2 DEF Backed, Snapshot
  <2> QED
    BY <1>9, <2>1 DEF AllBacked, ClaimsStand, Maps
<1>13. PageSound'
  <2>1. ASSUME NEW p \in patches, p.statuses # None PROVE AllBacked(p.statuses)'
    BY <1>9, <2>1 DEF Inv, PageSound, TypeOK, Patches, Maps, ClaimsStand, AllBacked
  <2>2. StatusesPatch(shown).statuses = shown
    BY DEF StatusesPatch
  <2>3. page'.stage # "idle" /\ page'.shown = shown /\ run'.status # "none"
    BY <1>1, <1>3 DEF Inv, PageSound
  <2>4. ASSUME NEW p \in patches', p.statuses # None PROVE AllBacked(p.statuses)'
    <3>1. CASE p \in patches
      BY <2>1, <2>4, <3>1
    <3>2. CASE p = StatusesPatch(shown)
      BY <1>12, <2>2, <3>2
    <3> QED
      BY <1>1, <1>3, <3>1, <3>2
  <2> QED
    BY <1>12, <2>3, <2>4 DEF PageSound
<1>14. RowSound'
  BY <1>1, <1>9 DEF Inv, RowSound, TypeOK, Maps, ClaimsStand, AllBacked, LastRecordStands
<1>15. TableSound'
  BY <1>1, <1>9 DEF Inv, TableSound, OneRowPerObservation
<1> QED
  BY <1>7, <1>10, <1>11, <1>13, <1>14, <1>15 DEF Inv

----------------------------------------------------------------------------
(* The invariant. *)

LEMMA InitInv == Init => Inv
<1> SUFFICES ASSUME Init PROVE Inv
  OBVIOUS
<1> USE DEF Init
<1>1. NoStatuses \in Maps /\ \A a \in Agent : NoStatuses[a] = None
  BY InitialMaps
<1>2. NoTask \in Handling /\ NoTask.phase = "idle" /\ NoTask.agent = None
      /\ NoTask.named /\ NoTask.persist
  <2>1. /\ "idle" \in Phases /\ <<>> \in Seq(Observation)
        /\ Inline(None).agent = None /\ Inline(None).named /\ Inline(None).persist
    BY DEF Phases, Inline
  <2> QED
    BY <2>1, WorkingType, NoneIsSnapshot DEF NoTask, Working
<1>3. QueueTypeOK
  BY MaxTriesAssumption DEF QueueInit, QueueTypeOK, JobStates
<1>4. TypeOK
  BY <1>1, <1>2, <1>3 DEF TypeOK, RunStatus
<1>5. QueueSound
  BY RunAssumption DEF QueueInit, QueueSound
<1>6. ASSUME NEW t \in Task PROVE TaskSound(t)
  BY <1>2, RunAssumption DEF TaskSound, TaskShape, LooksCurrent, LoadIsCurrent
<1>7. PageSound /\ RowSound
  BY <1>1 DEF PageSound, RowSound, AllBacked, Backed, LastRecordStands
<1>8. TableSound
  <2>1. ASSUME NEW a \in Agent PROVE Rows(a) = {}
    <3>1. <<a, TRUE>> \in Scopes
      BY DEF Scopes
    <3>2. \A o \in Observation : stored[<<a, TRUE>>][o] = 0
      BY <3>1
    <3>3. ASSUME NEW row \in Rows(a) PROVE FALSE
      <4>1. PICK o \in Observation : row \in {o} \X (1 .. stored[<<a, TRUE>>][o])
        BY <3>3 DEF Rows, TableRows
      <4> QED
        BY <3>2, <4>1
    <3> QED
      BY <3>3
  <2> QED
    BY <2>1, FS_EmptySet DEF TableSound, OneRowPerObservation
<1> QED
  BY <1>4, <1>5, <1>6, <1>7, <1>8 DEF Inv

LEMMA TaskSteps == Inv /\ TaskNext => Inv'
<1> SUFFICES ASSUME Inv, TaskNext PROVE Inv'
  OBVIOUS
<1>1. ASSUME NEW t \in Task, Answers(t) \/ LookUp(t) \/ Store(t) PROVE Inv'
  BY <1>1, AnswersStep, LookUpStep, StoreStep
<1>2. ASSUME NEW t \in PageTask, InlineFails(t) PROVE Inv'
  BY <1>2, ClosingSteps DEF Task
<1>3. ASSUME NEW c \in Client, NEW request \in Request, Submit(c, request) PROVE Inv'
  <2>1. /\ <<>> \in Seq(Observation)
        /\ Asked(c, request, "queued", <<>>)
        /\ Enqueue(c) \/ EnqueueFails(c)
        /\ UNCHANGED <<runVars, stored, history>>
    BY <1>3 DEF Submit
  <2>2. QueueTypeOK' /\ \A d \in Client : job'[d] # "none" => d = c \/ job[d] # "none"
    BY <2>1, QueueSteps DEF Inv, TypeOK
  <2> QED
    BY <2>1, <2>2, SubmitStep
<1>4. ASSUME NEW c \in Client, NEW request \in Request, NEW batch \in Batch \ {<<>>},
             Push(c, request, batch)
      PROVE  Inv'
  <2>1. batch \in Seq(Observation)
    BY RunAssumption
  <2>2. QueueTypeOK' /\ \A d \in Client : job'[d] # "none" => d = c \/ job[d] # "none"
    BY <1>4, QueueStays DEF Push
  <2> QED
    BY <1>4, <2>1, <2>2, SubmitStep DEF Push
<1>5. ASSUME NEW c \in Client,
             \/ Start(c) \/ RecordLoad(c) \/ RecordCommit(c) \/ RecordDone(c) \/ RecordError(c)
             \/ Ends(c) \/ Interrupt(c) \/ TimesOut(c) \/ Abandon(c)
      PROVE  Inv'
  BY <1>5, SayingSteps, RecordLoadStep, RecordCommitStep, ClosingSteps DEF Task
<1> QED
  BY <1>1, <1>2, <1>3, <1>4, <1>5 DEF TaskNext

LEMMA PageSteps == Inv /\ PageNext => Inv'
BY PageCreatesStep, PageFansOutStep, PageSettlesStep, PageEndsStep, DeliverStep DEF PageNext

LEMMA Stutters == Inv /\ UNCHANGED vars => Inv'
<1> SUFFICES ASSUME Inv, UNCHANGED vars PROVE Inv'
  OBVIOUS
<1>1. UNCHANGED <<job, tries, task, run, patches, page, stored, told, spoiled, raced>>
  BY DEF vars, taskVars, runVars, history
<1>2. TypeOK'
  BY <1>1 DEF Inv, TypeOK, QueueTypeOK
<1>3. ClaimsStand
  BY <1>1, SameTable DEF SameRequests
<1>4. PageSound' /\ AllBacked(run.statuses)'
  BY <1>1, <1>3 DEF Inv, PageSound, RowSound, TypeOK, Patches, Maps, ClaimsStand, AllBacked
<1> QED
  BY <1>1, <1>2, <1>4, PageStep DEF taskVars

LEMMA Invariant == Spec => []Inv
<1>1. Inv /\ [Next]_vars => Inv'
  BY TaskSteps, PageSteps, Stutters DEF Next
<1> QED
  BY <1>1, InitInv, PTL DEF Spec

----------------------------------------------------------------------------
(* What a run may be relied on for. *)

\* Whatever the page, the worker and other clients write, the map holds states the
\* page can show (agent_statuses, RunPhase).
THEOREM RunsAreTyped == Spec => []TypeOK
BY Invariant, PTL DEF Inv

\* A second row of an observation needs two writers of one key of which neither saw
\* the other's: never a job that is tried again, nor a repeat in a batch
\* (persist_findings).
THEOREM DuplicatesAreRaces == Spec => []OneRowPerObservation
BY Invariant, PTL DEF Inv, TableSound

\* What is shown as done has its rows, though the number travels from a store to a
\* job or a page, into a PATCH and into maps other writers loaded before
\* (agent_run, _record_agent_status, update_run).
THEOREM DoneHasRows == Spec => []DoneIsBacked
<1>1. Inv => DoneIsBacked
  BY DEF Inv, RowSound, AllBacked, Backed, DoneIsBacked
<1> QED
  BY <1>1, Invariant, PTL

\* What a job recorded of its agent is gone only when a map of the page arrived since,
\* or another job wrote the map it had loaded before (_record_agent_status).
THEOREM RecordsStand == Spec => []LastRecordStands
BY Invariant, PTL DEF Inv, RowSound
=============================================================================
