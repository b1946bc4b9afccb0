------------------------------ MODULE ArqQueue ------------------------------
(***************************************************************************)
(* The arq queue as the backend uses it (tasks/worker.py): one job per     *)
(* submitted item.  A job that is cut short - the worker is killed or      *)
(* shut down - is handed out again, up to arq's max_tries; a job that      *)
(* raises or runs into job_timeout is over.                                *)
(***************************************************************************)
EXTENDS Naturals

CONSTANTS Item,      \* what jobs are queued for
          MaxTries   \* arq's max_tries, which the worker leaves at its default

ASSUME MaxTriesAssumption == MaxTries \in Nat \ {0}

VARIABLES job,       \* Item -> state of its job
          tries      \* Item -> how often it was handed out (job_try)

JobStates == {"none", "lost", "queued", "running", "over"}

QueueTypeOK == job \in [Item -> JobStates] /\ tries \in [Item -> 0 .. MaxTries]

QueueInit == job = [i \in Item |-> "none"] /\ tries = [i \in Item |-> 0]

Moves(i, from, to) == job[i] = from /\ job' = [job EXCEPT ![i] = to]

Enqueue(i) == Moves(i, "none", "queued") /\ UNCHANGED tries

(* Redis cannot be reached: the request fails and nobody queues it again.  *)
EnqueueFails(i) == Moves(i, "none", "lost") /\ UNCHANGED tries

Take(i) ==
    /\ tries[i] < MaxTries
    /\ Moves(i, "queued", "running")
    /\ tries' = [tries EXCEPT ![i] = @ + 1]

(* Handed out once too often: arq records "max retries exceeded".          *)
GiveUp(i) ==
    /\ tries[i] = MaxTries
    /\ Moves(i, "queued", "over")
    /\ UNCHANGED tries

Return(i) == Moves(i, "running", "over") /\ UNCHANGED tries
Requeue(i) == Moves(i, "running", "queued") /\ UNCHANGED tries
=============================================================================
