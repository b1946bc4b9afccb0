-------------------------- MODULE MCMessageIntake --------------------------
(***************************************************************************)
(* Small instances of MessageIntake for TLC.                               *)
(***************************************************************************)
EXTENDS MessageIntake, TLC

CONSTANTS m2, u1, k1, k2

Rated(key, severity) == [key |-> key, severity |-> severity]

(* The URL u1 is clean, or rated low or, the next time, high with a second *)
(* observation beside it; the e-mail m2 does not parse.                    *)
Answers == u1 :> {{}, {Rated(k1, "low")}, {Rated(k1, "high"), Rated(k2, "medium")}}
        @@ m2 :> {{}}
=============================================================================
