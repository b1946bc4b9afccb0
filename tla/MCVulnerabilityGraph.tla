------------------------ MODULE MCVulnerabilityGraph ------------------------
(***************************************************************************)
(* A small instance of VulnerabilityGraph for TLC.                         *)
(***************************************************************************)
EXTENDS VulnerabilityGraph

CONSTANTS h1, h2, h3, v1, i1, i2, i3, i4

(* A scanner asserts one CVE of two copies of a package on h1, with two    *)
(* severities: the two facts share an id.                                  *)
Package1 == [id |-> i1, host |-> h1, severity |-> "low", cve |-> v1,
             authentication |-> "unknown", asset_type |-> "container", place |-> 1]
Package2 == [Package1 EXCEPT !.severity = "high", !.place = 2]

(* An exposed database on h2 and an outdated service there.  The lookups   *)
(* decide whether they come before or after the package.                   *)
Database == [id |-> i2, host |-> h2, severity |-> "medium", cve |-> None,
             authentication |-> "none", asset_type |-> "database", place |-> 3]
Outdated == [id |-> i3, host |-> h2, severity |-> "high", cve |-> None,
             authentication |-> "unknown", asset_type |-> "server", place |-> 4]

(* Text addressed to a model, in a banner of h1 or in an artifact about it.*)
Instruction == [id |-> i4, host |-> h1, severity |-> "high", cve |-> None,
              authentication |-> "unknown", asset_type |-> "container", place |-> 5]

SomeFacts == {Package1, Package2, Database, Outdated, Instruction}
Markers == {Instruction}

(* Two write-ups, of known candidates, twice of one, or of none there is.  *)
WriteUps == [candidate_id : {i1, i2, None}, severity : {"info", None}]
SomeAnswers == UNION {[1 .. n -> WriteUps] : n \in 1 .. 2}
=============================================================================
