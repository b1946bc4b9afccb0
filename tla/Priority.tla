------------------------------ MODULE Priority ------------------------------
(***************************************************************************)
(* The remediation ranking of vulnerability candidates                     *)
(* (agents/vulnerability/prioritize.py): a score from fixed point tables   *)
(* and a rank from the scores.  Business criticality is left out: it is    *)
(* one setting of the assessment, the same addend for every candidate.     *)
(***************************************************************************)
EXTENDS Integers, Sequences, FiniteSets

SeverityPoints == [critical |-> 35, high |-> 26, medium |-> 15, low |-> 6, info |-> 1]
ExposurePoints == [internet |-> 22, unknown |-> 11, internal |-> 5]
ExploitPoints == [known_exploited |-> 18, likely |-> 8, unknown |-> 4]
AuthPoints == [none |-> 10, unknown |-> 5, single |-> 3]
AssetTypePoints ==
    [database |-> 7, gateway |-> 7, directory |-> 7, server |-> 4, container |-> 3]

Severity == DOMAIN SeverityPoints
Exposure == DOMAIN ExposurePoints
Exploit == DOMAIN ExploitPoints
Authentication == DOMAIN AuthPoints
AssetType == DOMAIN AssetTypePoints

(* score_candidate, of the factors in play.                                *)
Score(severity, exposure, exploit, authentication, assetType) ==
    SeverityPoints[severity] + ExposurePoints[exposure] + ExploitPoints[exploit]
    + AuthPoints[authentication] + AssetTypePoints[assetType]

(* Mutant: the lowest score first.                                         *)
RankLowestFirst(scores, i) ==
    1 + Cardinality({j \in DOMAIN scores :
            scores[j] < scores[i] \/ (scores[j] = scores[i] /\ j < i)})

(* prioritize: the highest score first; equal scores keep the order the    *)
(* candidates came in.                                                     *)
Rank(scores, i) ==
    1 + Cardinality({j \in DOMAIN scores :
            scores[j] > scores[i] \/ (scores[j] = scores[i] /\ j < i)})
=============================================================================
