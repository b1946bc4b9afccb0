----------------------- MODULE MCFindingVerification -----------------------
(***************************************************************************)
(* Small instances of FindingVerification for TLC.                         *)
(***************************************************************************)
EXTENDS FindingVerification, TLC

CONSTANTS h1, c1, c2, s1, s2

(* An exposed service on h1, and a package on the same host: the package   *)
(* came from a container manifest and has no port.                         *)
Exposed == [asset |-> h1, port |-> 80, candidate |-> c1]
Package == [asset |-> h1, port |-> None, candidate |-> c2]
(* A finding no rule engine produced.                                      *)
Narrated == [asset |-> h1, port |-> 80, candidate |-> None]

ExposedAndPackage == {Exposed, Package}
JustExposed == {Exposed}
EveryShape == {Exposed, Package, Narrated}

NoArtifacts == [s \in {} |-> None]

(* s1 finds the exposed service; s2, of the same hosts and ports, does     *)
(* not.  h1 is listed twice in s2, the first time as up.                   *)
Scan1 == [hosts |-> <<[address |-> h1, status |-> "up"]>>,
          ports_requested |-> {80}, findings |-> {Exposed}]
Scan2 == [hosts |-> <<[address |-> h1, status |-> "up"], [address |-> h1, status |-> "down"]>>,
          ports_requested |-> {80}, findings |-> {}]
Scan1All == [Scan1 EXCEPT !.findings = {Exposed, Package, Narrated}]

RichArtifacts == s1 :> Scan1All @@ s2 :> Scan2
=============================================================================
