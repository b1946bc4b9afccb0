------------------------- MODULE ScanIntake_proofs -------------------------
(***************************************************************************)
(* Proofs about ScanIntake, for any uploads, answers and number of tries.  *)
(***************************************************************************)
EXTENDS ScanIntake, FiniteSetTheorems, TLAPS

(* Counting what a batch adds never fails: batches are finite.             *)
LEMMA BatchIsFinite ==
    ASSUME NEW B \in SUBSET Key
    PROVE  IsFiniteSet(B) /\ Cardinality(B) \in Nat
BY BatchesAssumption, FS_Subset, FS_CardinalityType

-----------------------------------------------------------------------------
(* Where a task stands, and what its row and its tries say there.  This is *)
(* what the properties need on top of the types: a task that is running    *)
(* knows the status it wrote, and a first try has stored nothing before it *)
(* persists its batch.                                                     *)
Placed(s) ==
    /\ at[s] = "idle" <=> job[s] # "running"
    /\ job[s] # "none" => status[s] # "absent"
    /\ at[s] = "parsing" => status[s] = "parsing"
    /\ at[s] \in {"analyzing", "assessed", "persisted"} => status[s] = "analyzing"

Stored(s) ==
    /\ at[s] = "persisted" => batch[s] \subseteq stored[s]
    /\ status[s] = "completed" => batch[s] \subseteq stored[s]

FirstTry(s) ==
    /\ tries[s] = 0 => /\ job[s] # "running"
                       /\ status[s] \in {"absent", "pending"}
                       /\ stored[s] = {}
    /\ tries[s] = 1 => /\ at[s] \in {"start", "parsing", "analyzing", "assessed"} => stored[s] = {}
                       /\ at[s] = "start" => status[s] = "pending"
                       /\ at[s] = "persisted" => added[s] = Cardinality(stored[s])
                       /\ status[s] = "failed" => stored[s] = {}
                       /\ status[s] = "completed" => count[s] = Cardinality(stored[s])

IntakeInv ==
    /\ TypeOK
    /\ \A s \in Item : Placed(s) /\ Stored(s) /\ FirstTry(s)

LEMMA InitIntake == Init => IntakeInv
<1> SUFFICES ASSUME Init PROVE IntakeInv
  OBVIOUS
<1>1. TypeOK
  BY MaxTriesAssumption DEF Init, QueueInit, TypeOK, QueueTypeOK, JobStates, Places
<1>2. ASSUME NEW s \in Item PROVE Placed(s) /\ Stored(s) /\ FirstTry(s)
  BY DEF Init, QueueInit, Placed, Stored, FirstTry
<1>3. QED
  BY <1>1, <1>2 DEF IntakeInv

(* What one item's job can do.                                             *)
ItemStep(s) == Upload(s) \/ Submit(s) \/ WorkerStep(s) \/ Interrupt(s) \/ Abort(s)

(* Every step keeps the types.                                             *)
LEMMA StepType ==
    ASSUME TypeOK, NEW s \in Item, ItemStep(s)
    PROVE  TypeOK'
<1> USE DEF TypeOK, QueueTypeOK, JobStates, Places
<1>1. CASE Upload(s)
  BY <1>1 DEF Upload
<1>2. CASE Submit(s)
  BY <1>2 DEF Submit, Enqueue, EnqueueFails, Moves
<1>3. CASE Start(s)
  BY <1>3, MaxTriesAssumption DEF Start, Take, Moves
<1>4. CASE MarkParsing(s) \/ Parse(s) \/ Fail(s)
  BY <1>4 DEF MarkParsing, Parse, Fail, Goes
<1>5. CASE Assess(s)
  <2>1. PICK answer \in Batches[s] : batch' = [batch EXCEPT ![s] = answer]
    BY <1>5 DEF Assess
  <2>2. Batches[s] \in SUBSET SUBSET Key
    BY BatchesAssumption
  <2>3. answer \in SUBSET Key
    BY <2>2
  <2>4. batch' \in [Item -> SUBSET Key]
    BY <2>1, <2>3
  <2>5. QED
    BY <1>5, <2>4 DEF Assess, Goes
<1>6. CASE Persist(s)
  <2>1. Cardinality(batch[s] \ stored[s]) \in Nat
    BY BatchIsFinite
  <2>2. QED
    BY <1>6, <2>1 DEF Persist, Goes
<1>7. CASE Complete(s)
  BY <1>7 DEF Complete, Goes
<1>8. CASE Finish(s) \/ Interrupt(s) \/ Abort(s)
  BY <1>8 DEF Finish, Interrupt, Abort, Return, Requeue, Moves
<1>9. CASE Abandon(s)
  BY <1>9 DEF Abandon, GiveUp, Moves
<1>10. QED
  BY <1>1, <1>2, <1>3, <1>4, <1>5, <1>6, <1>7, <1>8, <1>9 DEF ItemStep, WorkerStep, TaskStep

(* A step of one item leaves the others alone.                             *)
LEMMA OthersStay ==
    ASSUME TypeOK, NEW s \in Item, ItemStep(s), NEW t \in Item, t # s
    PROVE  /\ job'[t] = job[t] /\ tries'[t] = tries[t] /\ status'[t] = status[t]
           /\ count'[t] = count[t] /\ stored'[t] = stored[t] /\ at'[t] = at[t]
           /\ batch'[t] = batch[t] /\ added'[t] = added[t]
BY DEF TypeOK, QueueTypeOK, ItemStep, WorkerStep, TaskStep, Upload, Submit, Enqueue, EnqueueFails,
       Start, Take, MarkParsing, Parse, Fail, Assess, Persist, Complete, Finish, Interrupt, Abort,
       Abandon, GiveUp, Return, Requeue, Moves, Goes

(* Each step keeps what the invariant says of the item that takes it.      *)
LEMMA StepOfItem ==
    ASSUME IntakeInv, NEW s \in Item, ItemStep(s)
    PROVE  (Placed(s) /\ Stored(s) /\ FirstTry(s))'
<1>1. /\ TypeOK
      /\ Placed(s) /\ Stored(s) /\ FirstTry(s)
  BY DEF IntakeInv
<1> USE DEF TypeOK, QueueTypeOK, JobStates, Places, Placed, Stored, FirstTry
<1>2. CASE Upload(s)
  BY <1>1, <1>2 DEF Upload
<1>3. CASE Submit(s)
  BY <1>1, <1>3 DEF Submit, Enqueue, EnqueueFails, Moves
<1>4. CASE Start(s)
  BY <1>1, <1>4 DEF Start, Take, Moves
<1>5. CASE MarkParsing(s) \/ Parse(s)
  BY <1>1, <1>5 DEF MarkParsing, Parse, Goes
<1>6. CASE Fail(s)
  BY <1>1, <1>6 DEF Fail, Goes
<1>7. CASE Assess(s)
  BY <1>1, <1>7 DEF Assess, Goes
<1>8. CASE Persist(s)
  <2>1. stored[s] = {} => batch[s] \ stored[s] = stored[s] \cup batch[s]
    OBVIOUS
  <2>2. QED
    BY <1>1, <1>8, <2>1 DEF Persist, Goes
<1>9. CASE Complete(s)
  BY <1>1, <1>9 DEF Complete, Goes
<1>10. CASE Finish(s) \/ Interrupt(s) \/ Abort(s)
  BY <1>1, <1>10 DEF Finish, Interrupt, Abort, Return, Requeue, Moves
<1>11. CASE Abandon(s)
  BY <1>1, <1>11 DEF Abandon, GiveUp, Moves
<1>12. QED
  BY <1>2, <1>3, <1>4, <1>5, <1>6, <1>7, <1>8, <1>9, <1>10, <1>11 DEF ItemStep, WorkerStep, TaskStep

(* The invariant is inductive.                                             *)
LEMMA StepIntake == IntakeInv /\ [Next]_vars => IntakeInv'
<1> SUFFICES ASSUME IntakeInv, [Next]_vars PROVE IntakeInv'
  OBVIOUS
<1>1. CASE UNCHANGED vars
  BY <1>1 DEF vars, IntakeInv, TypeOK, QueueTypeOK, Placed, Stored, FirstTry
<1>2. CASE Next
  <2>1. PICK s \in Item : ItemStep(s)
    BY <1>2 DEF Next, ItemStep
  <2>2. TypeOK'
    BY <2>1, StepType DEF IntakeInv
  <2>3. ASSUME NEW t \in Item, t # s
        PROVE  (Placed(t) /\ Stored(t) /\ FirstTry(t))'
    BY <2>1, <2>3, OthersStay DEF IntakeInv, Placed, Stored, FirstTry
  <2>4. QED
    BY <2>1, <2>2, <2>3, StepOfItem DEF IntakeInv
<1>3. QED
  BY <1>1, <1>2

LEMMA AlwaysIntake == Spec => []IntakeInv
BY InitIntake, StepIntake, PTL DEF Spec

-----------------------------------------------------------------------------
(* Every variable keeps its type.                                          *)
THEOREM IntakeTypeCorrect == Spec => []TypeOK
<1>1. IntakeInv => TypeOK
  BY DEF IntakeInv
<1>2. QED
  BY <1>1, AlwaysIntake, PTL

(* A completed scan has every finding of the batch that completed it,      *)
(* however often its job was interrupted and tried before.                 *)
THEOREM CompletedScansAreComplete == Spec => []CompletedHasItsFindings
<1>1. IntakeInv => CompletedHasItsFindings
  BY DEF IntakeInv, Stored, CompletedHasItsFindings
<1>2. QED
  BY <1>1, AlwaysIntake, PTL

(* A scan whose job was not interrupted has an exact row.                  *)
THEOREM FirstTriesAreExact == Spec => []FirstTryIsExact
<1>1. IntakeInv => FirstTryIsExact
  BY DEF IntakeInv, FirstTry, FirstTryIsExact, TypeOK, QueueTypeOK
<1>2. QED
  BY <1>1, AlwaysIntake, PTL

-----------------------------------------------------------------------------
(* Every step of an item is a step of the lifecycle, or one it cannot see. *)
LEMMA StepFollows ==
    ASSUME IntakeInv, NEW s \in Item, ItemStep(s)
    PROVE  Lifecycle!Next \/ UNCHANGED <<status, stored>>
<1>1. TypeOK /\ Placed(s)
  BY DEF IntakeInv
<1> USE DEF TypeOK, Placed, Lifecycle!Next, Lifecycle!Becomes
<1>2. CASE Upload(s)
  BY <1>1, <1>2 DEF Upload, Lifecycle!Submit
<1>3. CASE MarkParsing(s)
  BY <1>1, <1>3 DEF MarkParsing, Goes, Lifecycle!Begin, Lifecycle!Stages
<1>4. CASE Parse(s)
  BY <1>1, <1>4 DEF Parse, Goes, Lifecycle!Parse
<1>5. CASE Fail(s)
  BY <1>1, <1>5 DEF Fail, Goes, Lifecycle!Fail
<1>6. CASE Persist(s)
  BY <1>1, <1>6 DEF Persist, Goes, Lifecycle!Record
<1>7. CASE Complete(s)
  BY <1>1, <1>7 DEF Complete, Goes, Lifecycle!Complete
<1>8. CASE Submit(s) \/ Start(s) \/ Assess(s) \/ Finish(s) \/ Interrupt(s) \/ Abort(s) \/ Abandon(s)
  BY <1>8 DEF Submit, Start, Assess, Finish, Interrupt, Abort, Abandon
<1>9. QED
  BY <1>2, <1>3, <1>4, <1>5, <1>6, <1>7, <1>8 DEF ItemStep, WorkerStep, TaskStep

(* analyze_scan implements the lifecycle clients are shown.                *)
THEOREM ScansFollowLifecycle == Spec => FollowsLifecycle
<1>1. Init => Lifecycle!Init
  BY DEF Init, Lifecycle!Init
<1>2. IntakeInv /\ [Next]_vars => [Lifecycle!Next]_<<status, stored>>
  BY StepFollows DEF Next, ItemStep, vars
<1>3. QED
  BY <1>1, <1>2, AlwaysIntake, PTL DEF Spec, FollowsLifecycle, Lifecycle!Spec
=============================================================================
