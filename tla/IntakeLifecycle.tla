-------------------------- MODULE IntakeLifecycle --------------------------
(***************************************************************************)
(* What a client that polls an artifact it submitted may be shown: its     *)
(* status (GET /scans/{id}, GET /messages/{id}) and the findings stored    *)
(* for it (GET /findings).  A try goes forward one stage at a time,        *)
(* findings only appear while it is `analyzing', and another try may begin *)
(* from any stage.  The workers' tasks are shown to implement this.        *)
(***************************************************************************)
CONSTANTS Item,   \* submitted artifacts
          Key     \* identities of findings

VARIABLES shown,     \* Item -> the status shown, "absent" before submission
          findings   \* Item -> the findings shown

Stages == {"absent", "pending", "parsing", "analyzing", "completed", "failed"}

Init ==
    /\ shown = [i \in Item |-> "absent"]
    /\ findings = [i \in Item |-> {}]

Becomes(i, from, to) ==
    /\ shown[i] \in from
    /\ shown' = [shown EXCEPT ![i] = to]
    /\ UNCHANGED findings

Submit(i) == Becomes(i, {"absent"}, "pending")
Begin(i) == Becomes(i, Stages \ {"absent"}, "parsing")
Parse(i) == Becomes(i, {"parsing"}, "analyzing")
Complete(i) == Becomes(i, {"analyzing"}, "completed")
Fail(i) == Becomes(i, {"parsing", "analyzing"}, "failed")

Record(i) ==
    /\ shown[i] = "analyzing"
    /\ \E new \in SUBSET Key : findings' = [findings EXCEPT ![i] = @ \cup new]
    /\ UNCHANGED shown

Next ==
    \E i \in Item :
        Submit(i) \/ Begin(i) \/ Parse(i) \/ Record(i) \/ Complete(i) \/ Fail(i)

Spec == Init /\ [][Next]_<<shown, findings>>
=============================================================================
