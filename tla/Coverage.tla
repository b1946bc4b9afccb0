------------------------------ MODULE Coverage ------------------------------
(***************************************************************************)
(* What one verification pass covered and observed, and what may be        *)
(* concluded from it: the contract between the ai.engine and the backend   *)
(* (cyber_contracts/verification.py) and the backend's pure decision       *)
(* (services/verification.py).  No state: the modules that run passes      *)
(* extend this one.                                                        *)
(*                                                                         *)
(* A report is a record [coverage, observed].  `coverage' maps every host  *)
(* to its HostCoverage, or to None when the report has no entry for it;    *)
(* the first-entry rule of coverage_for is applied where a report with     *)
(* repeated hosts can be built (ReportFromScan).  Free-text details,       *)
(* notes and timestamps are left out: nothing is decided from them.        *)
(***************************************************************************)
EXTENDS Naturals, Sequences, FiniteSets

CONSTANTS Host,       \* addresses and names a finding can be about
          Port,       \* port numbers
          Candidate,  \* rule-engine candidate ids (content-addressed)
          None        \* Python's None: no port, no asset, no candidate, no row

OpenStatuses == {"new", "triaged"}
FindingStatus == OpenStatuses \cup {"resolved", "false_positive"}

ASSUME NoneIsFresh ==
    None \notin Host \cup Port \cup Candidate /\ None \notin FindingStatus

Outcome == {"unverifiable", "unverified", "still_present", "resolved"}

HostCoverage == [scan_ok : BOOLEAN, reachable : BOOLEAN, ports_scanned : SUBSET Port]
Report == [coverage : [Host -> HostCoverage \cup {None}], observed : SUBSET Candidate]

(* A finding as far as a pass can tell findings apart: where it is and     *)
(* which rule-engine candidate it came from.  All three are optional.      *)
Shapes == [asset : Host \cup {None}, port : Port \cup {None}, candidate : Candidate \cup {None}]

-----------------------------------------------------------------------------
(* The three entries a re-check can return for one host.                   *)
Unavailable == [scan_ok |-> FALSE, reachable |-> FALSE, ports_scanned |-> {}]
Unreachable == [scan_ok |-> TRUE, reachable |-> FALSE, ports_scanned |-> {}]
Examined(ports) == [scan_ok |-> TRUE, reachable |-> TRUE, ports_scanned |-> ports]

EmptyReport == [coverage |-> [h \in Host |-> None], observed |-> {}]

(* HostCoverage.covers: was this port genuinely re-checked?                *)
Covers(entry, port) ==
    /\ port # None
    /\ entry.scan_ok
    /\ entry.reachable
    /\ port \in entry.ports_scanned

(* VerificationReport.coverage_for followed by covers.                     *)
Covered(report, finding) ==
    /\ report.coverage[finding.asset] # None
    /\ Covers(report.coverage[finding.asset], finding.port)

(* The first three refusals of decide: nothing about the report can make   *)
(* these findings verifiable.                                              *)
Verifiable(status, finding) ==
    /\ status \in OpenStatuses
    /\ finding.candidate # None
    /\ finding.port # None
    /\ finding.asset # None

(* Mutants of decide: absence from the report is taken for a fix; coverage *)
(* is asked about before it is known that the finding can be covered.      *)
DecideWithoutCoverage(status, finding, report) ==
    IF ~Verifiable(status, finding) THEN "unverifiable"
    ELSE IF finding.candidate \in report.observed THEN "still_present"
    ELSE "resolved"

DecideCoverageFirst(status, finding, report) ==
    IF ~Covered(report, finding) THEN "unverified"
    ELSE IF ~Verifiable(status, finding) THEN "unverifiable"
    ELSE IF finding.candidate \in report.observed THEN "still_present"
    ELSE "resolved"

(* decide: one finding's fate against one report.                          *)
Decide(status, finding, report) ==
    IF ~Verifiable(status, finding) THEN "unverifiable"
    ELSE IF ~Covered(report, finding) THEN "unverified"
    ELSE IF finding.candidate \in report.observed THEN "still_present"
    ELSE "resolved"

-----------------------------------------------------------------------------
(* An uploaded scan after parsing: its host entries in document order, the *)
(* ports its <scaninfo> says were requested, and the findings the          *)
(* ai.engine made of it.                                                   *)
Artifacts == [hosts           : Seq([address : Host, status : {"up", "down"}]),
              ports_requested : SUBSET Port,
              findings        : SUBSET Shapes]

Assets(artifact) == {artifact.hosts[i].address : i \in DOMAIN artifact.hosts}

(* The entry coverage_for finds: the first one for that address.           *)
FirstEntry(artifact, host) ==
    artifact.hosts[CHOOSE i \in DOMAIN artifact.hosts :
        /\ artifact.hosts[i].address = host
        /\ \A j \in 1 .. i - 1 : artifact.hosts[j].address # host]

(* report_from_scan: coverage is the requested range of the hosts that     *)
(* were up; a report that states no range covers nothing.                  *)
ReportFromScan(artifact) ==
    [coverage |-> [h \in Host |->
        IF h \notin Assets(artifact) THEN None
        ELSE IF FirstEntry(artifact, h).status = "down" THEN Unreachable
        ELSE Examined(artifact.ports_requested)],
     observed |-> {f.candidate : f \in artifact.findings} \ {None}]

-----------------------------------------------------------------------------
(* The targets of a re-check: one per asset that has a port, carrying all  *)
(* the ports of its findings (_targets).                                   *)
TargetHosts(findings) ==
    {f.asset : f \in {g \in findings : g.asset # None /\ g.port # None}}

TargetPorts(findings, host) ==
    {f.port : f \in {g \in findings : g.asset = host /\ g.port # None}}

(* What the ai.engine's verify may answer for these findings.  Per target  *)
(* exactly one of: the host was beyond MAX_TARGETS (None), it could not be *)
(* examined, it did not answer, or every requested port is reported as     *)
(* scanned.  EngineVerify models how the answer comes about and checks     *)
(* that it is one of these.                                                *)
EngineEntries(findings, host) ==
    IF host \in TargetHosts(findings)
    THEN {None, Unavailable, Unreachable, Examined(TargetPorts(findings, host))}
    ELSE {None}

EngineReports(findings) ==
    {r \in [coverage : {c \in [Host -> UNION {EngineEntries(findings, h) : h \in Host}] :
                            \A h \in Host : c[h] \in EngineEntries(findings, h)},
            observed : SUBSET Candidate] :
        r.observed # {} => \E h \in Host : r.coverage[h] \notin {None, Unavailable}}
=============================================================================
