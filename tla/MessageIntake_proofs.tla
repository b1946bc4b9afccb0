----------------------- MODULE MessageIntake_proofs -----------------------
(***************************************************************************)
(* Proofs about MessageIntake, for any messages, answers and number of     *)
(* tries.                                                                  *)
(***************************************************************************)
EXTENDS MessageIntake, FiniteSetTheorems, TLAPS

(* Every batch has a verdict, and NULL is none.                            *)
LEMMA VerdictForIsVerdict ==
    ASSUME NEW B
    PROVE  VerdictFor(B) \in Verdict /\ VerdictFor(B) # None
BY MessageAssumption DEF VerdictFor, Verdict

-----------------------------------------------------------------------------
(* Where a task stands, and what its row, its tries and its batch say      *)
(* there.                                                                  *)
Placed(m) ==
    /\ at[m] = "idle" <=> job[m] # "running"
    /\ job[m] # "none" => status[m] # "absent"
    /\ at[m] = "parsing" => status[m] = "parsing"
    /\ at[m] \in {"analyzing", "assessed", "persisted"} => status[m] = "analyzing"

(* A final status and the verdict on the row go together.                  *)
Judged(m) ==
    /\ status[m] \in {"absent", "pending", "failed"} => verdict[m] = None
    /\ status[m] = "completed" => verdict[m] # None

(* A first try has stored nothing before it persists its batch, so what is *)
(* stored then is the batch the verdict is read off.                       *)
FirstTry(m) ==
    /\ tries[m] = 0 => /\ job[m] # "running"
                       /\ status[m] \in {"absent", "pending"}
                       /\ stored[m] = {}
    /\ tries[m] = 1 => /\ at[m] \in {"start", "parsing", "analyzing", "assessed"} => stored[m] = {}
                       /\ at[m] = "start" => status[m] = "pending"
                       /\ status[m] # "completed" => verdict[m] = None
                       /\ at[m] = "persisted" => /\ added[m] = Cardinality(stored[m])
                                                 /\ batch[m] = stored[m]
                       /\ status[m] = "completed" => /\ count[m] = Cardinality(stored[m])
                                                     /\ verdict[m] = VerdictFor(stored[m])

IntakeInv ==
    /\ TypeOK
    /\ \A m \in Item : IsFiniteSet(batch[m]) /\ Placed(m) /\ Judged(m) /\ FirstTry(m)

LEMMA InitIntake == Init => IntakeInv
<1> SUFFICES ASSUME Init PROVE IntakeInv
  OBVIOUS
<1>1. TypeOK
  BY MaxTriesAssumption DEF Init, QueueInit, TypeOK, QueueTypeOK, JobStates, Places
<1>2. ASSUME NEW m \in Item PROVE IsFiniteSet(batch[m]) /\ Placed(m) /\ Judged(m) /\ FirstTry(m)
  BY <1>1, FS_EmptySet DEF Init, QueueInit, Placed, Judged, FirstTry
<1>3. QED
  BY <1>1, <1>2 DEF IntakeInv

(* What one message's job can do.                                          *)
ItemStep(m) ==
    \/ Upload(m) \/ Submit(m) \/ Start(m) \/ TaskStep(m)
    \/ Interrupt(m) \/ Abort(m) \/ Abandon(m)

(* Every step keeps the types.                                             *)
LEMMA StepType ==
    ASSUME TypeOK, NEW m \in Item, IsFiniteSet(batch[m]), ItemStep(m)
    PROVE  TypeOK'
<1> USE DEF TypeOK, QueueTypeOK, JobStates, Places, row
<1>1. CASE Upload(m)
  BY <1>1 DEF Upload
<1>2. CASE Submit(m)
  BY <1>2 DEF Submit, Enqueue, EnqueueFails, Moves
<1>3. CASE Start(m)
  BY <1>3, MaxTriesAssumption DEF Start, Take, Moves
<1>4. CASE MarkParsing(m) \/ Parse(m) \/ Fail(m)
  BY <1>4 DEF MarkParsing, Parse, Fail, Goes
<1>5. CASE Assess(m)
  <2>1. PICK answer \in Batches[m] : batch' = [batch EXCEPT ![m] = answer]
    BY <1>5 DEF Assess
  <2>2. answer \in SUBSET Ratings
    BY MessageAssumption
  <2>3. batch' \in [Item -> SUBSET Ratings]
    BY <2>1, <2>2
  <2>4. QED
    BY <1>5, <2>3 DEF Assess, Goes
<1>6. CASE Persist(m)
  <2>1. New(m) \in SUBSET Ratings
    BY DEF New
  <2>2. IsFiniteSet(New(m))
    BY FS_Subset DEF New
  <2>3. Cardinality(New(m)) \in Nat
    BY <2>2, FS_CardinalityType
  <2>4. QED
    BY <1>6, <2>1, <2>3 DEF Persist, Goes
<1>7. CASE Complete(m)
  BY <1>7, VerdictForIsVerdict DEF Complete, Goes
<1>8. CASE Finish(m) \/ Interrupt(m) \/ Abort(m)
  BY <1>8 DEF Finish, Interrupt, Abort, Return, Requeue, Moves
<1>9. CASE Abandon(m)
  BY <1>9 DEF Abandon, GiveUp, Moves
<1>10. QED
  BY <1>1, <1>2, <1>3, <1>4, <1>5, <1>6, <1>7, <1>8, <1>9 DEF ItemStep, TaskStep

(* A step of one message leaves the others alone.                          *)
LEMMA OthersStay ==
    ASSUME TypeOK, NEW m \in Item, ItemStep(m), NEW n \in Item, n # m
    PROVE  /\ job'[n] = job[n] /\ tries'[n] = tries[n] /\ status'[n] = status[n]
           /\ verdict'[n] = verdict[n] /\ count'[n] = count[n] /\ stored'[n] = stored[n]
           /\ at'[n] = at[n] /\ batch'[n] = batch[n] /\ added'[n] = added[n]
BY DEF TypeOK, QueueTypeOK, ItemStep, TaskStep, Upload, Submit, Enqueue, EnqueueFails, row,
       Start, Take, MarkParsing, Parse, Fail, Assess, Persist, Complete, Finish, Interrupt, Abort,
       Abandon, GiveUp, Return, Requeue, Moves, Goes

(* Each step keeps what the invariant says of the message that takes it.   *)
LEMMA StepOfItem ==
    ASSUME IntakeInv, NEW m \in Item, ItemStep(m)
    PROVE  (IsFiniteSet(batch[m]) /\ Placed(m) /\ Judged(m) /\ FirstTry(m))'
<1>1. /\ TypeOK /\ IsFiniteSet(batch[m])
      /\ Placed(m) /\ Judged(m) /\ FirstTry(m)
  BY DEF IntakeInv
<1> USE DEF TypeOK, QueueTypeOK, JobStates, Places, Placed, Judged, FirstTry, row
<1>2. CASE Upload(m)
  BY <1>1, <1>2 DEF Upload
<1>3. CASE Submit(m)
  BY <1>1, <1>3 DEF Submit, Enqueue, EnqueueFails, Moves
<1>4. CASE Start(m)
  BY <1>1, <1>4 DEF Start, Take, Moves
<1>5. CASE MarkParsing(m) \/ Parse(m)
  BY <1>1, <1>5 DEF MarkParsing, Parse, Goes
<1>6. CASE Fail(m)
  BY <1>1, <1>6 DEF Fail, Goes
<1>7. CASE Assess(m)
  <2>1. PICK answer \in Batches[m] : batch' = [batch EXCEPT ![m] = answer]
    BY <1>7 DEF Assess
  <2>2. IsFiniteSet(answer)
    BY MessageAssumption
  <2>3. batch'[m] = answer
    BY <1>1, <2>1
  <2>4. IsFiniteSet(batch'[m])
    BY <2>2, <2>3
  <2>5. QED
    BY <1>1, <1>7, <2>4 DEF Assess, Goes
<1>8. CASE Persist(m)
  <2>1. stored[m] = {} => New(m) = batch[m] /\ stored[m] \cup New(m) = batch[m]
    BY DEF New
  <2>2. QED
    BY <1>1, <1>8, <2>1 DEF Persist, Goes
<1>9. CASE Complete(m)
  BY <1>1, <1>9, VerdictForIsVerdict DEF Complete, Goes
<1>10. CASE Finish(m) \/ Interrupt(m) \/ Abort(m)
  BY <1>1, <1>10 DEF Finish, Interrupt, Abort, Return, Requeue, Moves
<1>11. CASE Abandon(m)
  BY <1>1, <1>11 DEF Abandon, GiveUp, Moves
<1>12. QED
  BY <1>2, <1>3, <1>4, <1>5, <1>6, <1>7, <1>8, <1>9, <1>10, <1>11 DEF ItemStep, TaskStep

(* The invariant is inductive.                                             *)
LEMMA StepIntake == IntakeInv /\ [Next]_vars => IntakeInv'
<1> SUFFICES ASSUME IntakeInv, [Next]_vars PROVE IntakeInv'
  OBVIOUS
<1>1. CASE UNCHANGED vars
  BY <1>1 DEF vars, IntakeInv, TypeOK, QueueTypeOK, Placed, Judged, FirstTry
<1>2. CASE Next
  <2>1. PICK m \in Item : ItemStep(m)
    BY <1>2 DEF Next, ItemStep
  <2>2. TypeOK'
    BY <2>1, StepType DEF IntakeInv
  <2>3. ASSUME NEW n \in Item, n # m
        PROVE  (IsFiniteSet(batch[n]) /\ Placed(n) /\ Judged(n) /\ FirstTry(n))'
    BY <2>1, <2>3, OthersStay DEF IntakeInv, Placed, Judged, FirstTry
  <2>4. QED
    BY <2>1, <2>2, <2>3, StepOfItem DEF IntakeInv
<1>3. QED
  BY <1>1, <1>2

LEMMA AlwaysIntake == Spec => []IntakeInv
BY InitIntake, StepIntake, PTL DEF Spec

-----------------------------------------------------------------------------
(* Every variable of analyze_message's model keeps its type.               *)
THEOREM MessageTypeCorrect == Spec => []TypeOK
<1>1. IntakeInv => TypeOK
  BY DEF IntakeInv
<1>2. QED
  BY <1>1, AlwaysIntake, PTL

(* A verdict is shown only for a message that was analysed, and a failed   *)
(* one has none, on whatever try (_fail and the end of analyze_message).   *)
THEOREM VerdictsNeedAnalysis == Spec => []VerdictOnlyIfAnalysed
<1>1. IntakeInv => VerdictOnlyIfAnalysed
  <2> SUFFICES ASSUME IntakeInv, NEW m \in Item
               PROVE  /\ Judged(m)
                      /\ tries[m] <= 1 /\ status[m] # "completed" => verdict[m] = None
    BY DEF VerdictOnlyIfAnalysed, Judged
  <2>1. Judged(m) /\ FirstTry(m)
    BY DEF IntakeInv
  <2>2. tries[m] \in Nat
    BY MaxTriesAssumption DEF IntakeInv, TypeOK, QueueTypeOK
  <2>3. CASE tries[m] = 0
    BY <2>1, <2>3 DEF Judged, FirstTry
  <2>4. CASE tries[m] = 1
    BY <2>1, <2>4 DEF FirstTry
  <2>5. QED
    BY <2>1, <2>2, <2>3, <2>4
<1>2. QED
  BY <1>1, AlwaysIntake, PTL

(* The verdict and the count of a first try are those of the rows it       *)
(* stored (verdict_for).                                                   *)
THEOREM FirstVerdictsAreExact == Spec => []FirstTryVerdictIsExact
<1>1. IntakeInv => FirstTryVerdictIsExact
  BY DEF IntakeInv, FirstTry, FirstTryVerdictIsExact, TypeOK, QueueTypeOK
<1>2. QED
  BY <1>1, AlwaysIntake, PTL

-----------------------------------------------------------------------------
KeysOf(findings) == {f.key : f \in findings}

(* What is stored is shown by its keys, each of them once.                 *)
LEMMA PersistRecords ==
    ASSUME TypeOK, NEW m \in Item, Persist(m), status[m] = "analyzing"
    PROVE  Lifecycle!Next
<1> DEFINE shown == [n \in Item |-> KeysOf(stored[n])]
           new == KeysOf(New(m))
<1>1. new \in SUBSET Key
  BY DEF KeysOf, New, TypeOK, Ratings
<1>2. stored' = [stored EXCEPT ![m] = stored[m] \cup New(m)]
  BY DEF Persist
<1>3. \A n \in Item : KeysOf(stored'[n]) = IF n = m THEN KeysOf(stored[n]) \cup new
                                                    ELSE KeysOf(stored[n])
  BY <1>2 DEF KeysOf, TypeOK
<1>4. shown' = [shown EXCEPT ![m] = shown[m] \cup new]
  BY <1>3
<1>5. Lifecycle!Record(m)
  BY <1>1, <1>4 DEF Lifecycle!Record, Persist, row, KeysOf
<1>6. QED
  BY <1>5 DEF Lifecycle!Next

(* Every step of a message is a step of the lifecycle, or one it cannot see.*)
LEMMA StepFollows ==
    ASSUME IntakeInv, NEW m \in Item, ItemStep(m)
    PROVE  Lifecycle!Next \/ UNCHANGED <<status, stored>>
<1>1. TypeOK /\ Placed(m)
  BY DEF IntakeInv
<1> USE DEF TypeOK, Placed, Lifecycle!Next, Lifecycle!Becomes, row
<1>2. CASE Upload(m)
  BY <1>1, <1>2 DEF Upload, Lifecycle!Submit
<1>3. CASE MarkParsing(m)
  BY <1>1, <1>3 DEF MarkParsing, Goes, Lifecycle!Begin, Lifecycle!Stages
<1>4. CASE Parse(m)
  BY <1>1, <1>4 DEF Parse, Goes, Lifecycle!Parse
<1>5. CASE Fail(m)
  BY <1>1, <1>5 DEF Fail, Goes, Lifecycle!Fail
<1>6. CASE Persist(m)
  BY <1>1, <1>6, PersistRecords DEF Persist, Goes
<1>7. CASE Complete(m)
  BY <1>1, <1>7 DEF Complete, Goes, Lifecycle!Complete
<1>8. CASE Submit(m) \/ Start(m) \/ Assess(m) \/ Finish(m) \/ Interrupt(m) \/ Abort(m) \/ Abandon(m)
  BY <1>8 DEF Submit, Start, Assess, Finish, Interrupt, Abort, Abandon
<1>9. QED
  BY <1>2, <1>3, <1>4, <1>5, <1>6, <1>7, <1>8 DEF ItemStep, TaskStep

(* analyze_message implements the lifecycle clients are shown.             *)
THEOREM MessagesFollowLifecycle == Spec => FollowsLifecycle
<1>1. Init => Lifecycle!Init
  BY DEF Init, Lifecycle!Init
<1>2. IntakeInv /\ [Next]_vars
        => [Lifecycle!Next]_<<status, [m \in Item |-> {f.key : f \in stored[m]}]>>
  BY StepFollows DEF Next, ItemStep, vars
<1>3. QED
  BY <1>1, <1>2, AlwaysIntake, PTL DEF Spec, FollowsLifecycle, Lifecycle!Spec
=============================================================================
