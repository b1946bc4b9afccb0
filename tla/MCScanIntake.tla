---------------------------- MODULE MCScanIntake ----------------------------
(***************************************************************************)
(* A small instance of ScanIntake for TLC.                                 *)
(***************************************************************************)
EXTENDS ScanIntake, TLC

CONSTANTS s1, s2, k1, k2, k3

(* s1: one observation, k1, in two wordings, and sometimes a second one;   *)
(* s2: an artifact the parser rejects.                                     *)
Answers == s1 :> {{k1, k3}, {k2}} @@ s2 :> {{}}
=============================================================================
