------------------------- MODULE VulnerabilityGraph -------------------------
(***************************************************************************)
(* One assessment by the vulnerability agent (agents/vulnerability): the   *)
(* graph obtains an artifact, derives candidates from it by rule, looks up *)
(* hosts and CVEs through MCP, ranks the candidates, has a model write     *)
(* them up, and emits findings.                                            *)
(*                                                                         *)
(* A fact is one firing of a rule on what the artifact shows.  Its id is a *)
(* short digest of rule, host, port and discriminator: two facts may share *)
(* one, as when a scanner asserts one CVE of two copies of a package.      *)
(***************************************************************************)
EXTENDS Priority, FiniteSetsExt, SequencesExt

CONSTANTS None,
          Host, Cve, Id,
          Fact,                \* what the rules can find, in these hosts
          Marker,              \* the facts found in raw text, parsed or not
          Kinds,               \* what an assessment may be asked for
          Answers,             \* what the model may answer
          MaxSweepHosts,       \* MAX_SWEEP_HOSTS
          MaxExposureLookups,  \* MAX_EXPOSURE_LOOKUPS
          MaxCveLookups        \* MAX_CVE_LOOKUPS

Facts == [id : Id, host : Host, severity : Severity, cve : Cve \cup {None},
          authentication : Authentication, asset_type : AssetType, place : Nat]
Assessed == [candidate_id : Id \cup {None}, severity : Severity \cup {None}]

ASSUME FactAssumption ==
    /\ Fact \subseteq Facts /\ IsFiniteSet(Fact) /\ IsFiniteSet(Host) /\ Marker \subseteq Fact
    /\ \A f, g \in Fact : f.place = g.place => f = g
ASSUME KindAssumption == Kinds \subseteq {"parsed", "provided", "host", "range", "nothing"}
ASSUME AnswerAssumption == Answers \subseteq Seq(Assessed)
ASSUME LimitAssumption ==
    /\ MaxSweepHosts \in Nat \ {0}
    /\ MaxExposureLookups \in Nat /\ MaxCveLookups \in Nat

VARIABLES
    kind,        \* the request: an artifact, a host, a range, or neither
    node,        \* the node that runs next
    status,      \* scan_info["status"]
    live,        \* the hosts discovery found in the range
    reached,     \* the hosts that were scanned
    refused,     \* scan_info["hosts_refused"]
    artifact,    \* the scanner output
    candidates,  \* what the rules derived, in sort_key order
    exposure,    \* host -> its exposure, for the lookups that succeeded
    records,     \* CVE -> its record, for the lookups that succeeded
    scores,      \* the scores of the candidates
    answer,      \* what the model returned
    findings     \* what the assessment returns, in order

scan == <<kind, status, live, reached, refused, artifact>>
vars == <<kind, node, status, live, reached, refused, artifact, candidates,
          exposure, records, scores, answer, findings>>

Nodes == {"intake", "correlate", "enrich", "prioritize", "reason", "emit_findings",
          "done", "failed"}
Artifacts == [text : {"none", "garbled", "readable"}, facts : SUBSET Fact]
Findings == [title : {"candidate", "clean", "unparsed", "not_scanned"},
             fact : Fact \cup {None}, severity : Severity, partial : BOOLEAN,
             refused : SUBSET Host]

TypeOK ==
    /\ kind \in Kinds
    /\ node \in Nodes
    /\ status \in {"none", "parsed-by-backend", "provided", "no-target", "scanner-unavailable",
                   "scan-failed", "scanned", "no-live-hosts", "swept"}
    /\ reached \subseteq live /\ refused \subseteq live /\ live \subseteq Host
    /\ artifact \in Artifacts
    /\ Range(candidates) \subseteq Fact
    /\ DOMAIN exposure \subseteq Host /\ Range(exposure) \subseteq Exposure
    /\ DOMAIN records \subseteq Cve /\ Range(records) \subseteq {"known", "other"}
    /\ scores \in Seq(Nat)
    /\ answer \in Seq(Assessed)
    /\ Range(findings) \subseteq Findings

NoOutput == [text |-> "none", facts |-> {}]
Init ==
    /\ kind \in Kinds
    /\ node = "intake"
    /\ status = "none"
    /\ live = {} /\ reached = {} /\ refused = {}
    /\ artifact = NoOutput
    /\ candidates = <<>>
    /\ exposure = <<>> /\ records = <<>>
    /\ scores = <<>>
    /\ answer = <<>>
    /\ findings = <<>>

-----------------------------------------------------------------------------
(* Scanner output of some hosts, and text no parser accepts: instructions  *)
(* to a model are found there too.                                         *)
Readable(hosts) == {[text |-> "readable", facts |-> F] : F \in SUBSET {f \in Fact : f.host \in hosts}}
Garbled == {[text |-> "garbled", facts |-> F] : F \in SUBSET Marker}

Goes(from, to) == node = from /\ node' = to

(* What intake leaves behind; every way through it goes on to the rules.   *)
Obtains(word, found, scanned, declined, output) ==
    /\ Goes("intake", "correlate")
    /\ status' = word
    /\ live' = found
    /\ reached' = scanned
    /\ refused' = declined
    /\ artifact' = output
    /\ UNCHANGED <<kind, candidates, exposure, records, scores, answer, findings>>

(* A scan the backend parsed, a pasted artifact (of whatever source), or   *)
(* neither and no target.                                                  *)
TakeSupplied ==
    \/ kind = "parsed" /\ \E a \in Readable(Host) : Obtains("parsed-by-backend", {}, {}, {}, a)
    \/ kind = "provided" /\ \E a \in Readable(Host) \cup Garbled : Obtains("provided", {}, {}, {}, a)
    \/ kind = "nothing" /\ Obtains("no-target", {}, {}, {}, NoOutput)

(* No MCP session, the tool is not offered, or the call fails.             *)
ScanUnavailable ==
    /\ kind \in {"host", "range"}
    /\ \E word \in {"scanner-unavailable", "scan-failed"} : Obtains(word, {}, {}, {}, NoOutput)

ScanHost ==
    /\ kind = "host"
    /\ \E h \in Host : \E a \in Readable({h}) \cup Garbled \cup {NoOutput} :
           Obtains("scanned", {h}, {h}, {}, a)

(* _sweep: discovery lists the live hosts, the first MAX_SWEEP_HOSTS of    *)
(* them are asked for, and those that are still in scope are scanned.      *)
Swept(found) ==
    {H \in SUBSET found : Cardinality(H) = Min({Cardinality(found), MaxSweepHosts})}

Sweep ==
    /\ kind = "range"
    /\ \/ Obtains("no-live-hosts", {}, {}, {}, NoOutput)
       \/ \E found \in (SUBSET Host) \ {{}} : \E hosts \in Swept(found) :
              \/ Obtains("scan-failed", {}, {}, {}, NoOutput)
              \/ \E declined \in (SUBSET hosts) \ {hosts} :
                 \E a \in Readable(hosts \ declined) \cup Garbled \cup {NoOutput} :
                     Obtains("swept", found, hosts \ declined, declined, a)

-----------------------------------------------------------------------------
(* sort_key: the most severe first, then by location and rule.             *)
Before(f, g) ==
    \/ SeverityPoints[f.severity] > SeverityPoints[g.severity]
    \/ f.severity = g.severity /\ f.place < g.place

(* build_candidates: of the facts that share an id the first one derived   *)
(* is kept.                                                                *)
Kept(facts) ==
    {K \in SUBSET facts :
        \A f \in facts : Cardinality({g \in K : g.id = f.id}) = 1}

(* The facts of a set in the order of sort_key.                            *)
InOrder(facts) ==
    [r \in 1 .. Cardinality(facts) |->
        CHOOSE f \in facts : Cardinality({g \in facts : Before(g, f)}) = r - 1]

(* normalize and correlate; without candidates there is nothing to look    *)
(* up, to rank or to write.                                                *)
Correlate ==
    /\ Goes("correlate", IF artifact.facts = {} THEN "emit_findings" ELSE "enrich")
    /\ \E K \in Kept(artifact.facts) : candidates' = InOrder(K)
    /\ UNCHANGED <<scan, exposure, records, scores, answer, findings>>

-----------------------------------------------------------------------------
(* The first n distinct elements of a sequence, other than None.           *)
FirstDistinct(s, n) ==
    {x \in Range(s) \ {None} :
        Cardinality({s[j] : j \in 1 .. SelectInSeq(s, LAMBDA y : y = x) - 1} \ {None}) < n}

Hosts == [i \in DOMAIN candidates |-> candidates[i].host]
Cves == [i \in DOMAIN candidates |-> candidates[i].cve]

(* enrich: one lookup per host and per CVE, up to the limits, all at once; *)
(* each of them may fail, all of them do without an MCP session.           *)
Enrich ==
    /\ Goes("enrich", "prioritize")
    /\ \E H \in SUBSET FirstDistinct(Hosts, MaxExposureLookups) : exposure' \in [H -> Exposure]
    /\ \E C \in SUBSET FirstDistinct(Cves, MaxCveLookups) : records' \in [C -> {"known", "other"}]
    /\ UNCHANGED <<scan, candidates, scores, answer, findings>>

(* The MCP session fails while it is closed, after a scan or the lookups:  *)
(* open_tools yields a second time and the graph raises.                   *)
CloseFails ==
    /\ \/ kind \in {"host", "range"} /\ Goes("intake", "failed")
       \/ Goes("enrich", "failed")
    /\ UNCHANGED <<scan, candidates, exposure, records, scores, answer, findings>>

(* _exploit_status of a candidate: known only from its own CVE's record.   *)
ExploitStatus(f) ==
    IF f.cve \notin DOMAIN records THEN "unknown"
    ELSE IF records[f.cve] = "known" THEN "known_exploited" ELSE "likely"

ExposureOf(f) == IF f.host \in DOMAIN exposure THEN exposure[f.host] ELSE "unknown"

Urgency(f) == Score(f.severity, ExposureOf(f), ExploitStatus(f), f.authentication, f.asset_type)

Prioritize ==
    /\ Goes("prioritize", "reason")
    /\ scores' = [i \in DOMAIN candidates |-> Urgency(candidates[i])]
    /\ UNCHANGED <<scan, candidates, exposure, records, answer, findings>>

(* reason: no model, a failing one, or an answer, about any ids.           *)
Reason ==
    /\ Goes("reason", "emit_findings")
    /\ answer' \in Answers \cup {<<>>}
    /\ UNCHANGED <<scan, candidates, exposure, records, scores, findings>>

(* The model returns no structured answer, which is validated outside the  *)
(* try block: the graph raises.                                            *)
ReasonRaises ==
    /\ Goes("reason", "failed")
    /\ UNCHANGED <<scan, candidates, exposure, records, scores, answer, findings>>

-----------------------------------------------------------------------------
(* Mutant: write-ups are taken in the order of the answer.                 *)
WriteUpByPosition(f) ==
    LET i == SelectInSeq(candidates, LAMBDA c : c = f)
    IN  IF i \in DOMAIN answer THEN answer[i].severity ELSE None

(* The severity the model's last write-up of a candidate gives it; None if *)
(* there is no write-up, or its severity cannot be parsed.                 *)
WriteUp(f) ==
    LET i == SelectLastInSeq(answer, LAMBDA e : e.candidate_id = f.id)
    IN  IF i = 0 THEN None ELSE answer[i].severity

(* Mutant: a severity that cannot be parsed is passed on.                  *)
ToFindingUnparsed(f) ==
    [title |-> "candidate", fact |-> f, partial |-> FALSE, refused |-> {},
     severity |-> IF \E e \in Range(answer) : e.candidate_id = f.id THEN WriteUp(f) ELSE f.severity]

(* Its evidence is the candidate's, without scan_info.                     *)
ToFinding(f) ==
    [title |-> "candidate", fact |-> f, partial |-> FALSE, refused |-> {},
     severity |-> IF WriteUp(f) = None THEN f.severity ELSE WriteUp(f)]

(* Mutant: whatever yields no candidates reads as clean, if it was scanned.*)
NoFindingsUnchecked ==
    [title |-> IF status \in {"no-target", "scanner-unavailable", "scan-failed"}
               THEN "not_scanned" ELSE "clean",
     fact |-> None, severity |-> "info", partial |-> Cardinality(live) > MaxSweepHosts,
     refused |-> refused]

(* _no_findings tells apart why there are no candidates, and carries the   *)
(* scan_info with its `truncated' and its hosts_refused.                   *)
NoFindings ==
    [title |-> IF status \in {"no-target", "scanner-unavailable", "scan-failed"}
               THEN "not_scanned"
               ELSE IF artifact.text # "readable" THEN "unparsed"
               ELSE "clean",
     fact |-> None, severity |-> "info", partial |-> Cardinality(live) > MaxSweepHosts,
     refused |-> refused]

(* The candidates in the order of their ranks.                             *)
Ranked ==
    [r \in DOMAIN candidates |->
        candidates[CHOOSE i \in DOMAIN candidates : Rank(scores, i) = r]]

(* Mutant: only what the model wrote up becomes a finding.                 *)
EmitWrittenUp ==
    LET written == SelectSeq(Ranked, LAMBDA f : WriteUp(f) # None)
    IN  /\ Goes("emit_findings", "done")
        /\ findings' = IF candidates = <<>> THEN <<NoFindings>>
                       ELSE [r \in DOMAIN written |-> ToFinding(written[r])]
        /\ UNCHANGED <<scan, candidates, exposure, records, scores, answer>>

EmitFindings ==
    /\ Goes("emit_findings", "done")
    /\ findings' = IF candidates = <<>> THEN <<NoFindings>>
                   ELSE [r \in DOMAIN candidates |-> ToFinding(Ranked[r])]
    /\ UNCHANGED <<scan, candidates, exposure, records, scores, answer>>

-----------------------------------------------------------------------------
Next ==
    \/ TakeSupplied \/ ScanUnavailable \/ ScanHost \/ Sweep
    \/ Correlate
    \/ Enrich \/ CloseFails
    \/ Prioritize
    \/ Reason \/ ReasonRaises
    \/ EmitFindings

Spec == Init /\ [][Next]_vars

-----------------------------------------------------------------------------
(* "A model outage costs prose, not detection": whatever lookups fail and  *)
(* whatever the model answers, an assessment that returns has one finding  *)
(* for every id the rules derived from the artifact and none for another,  *)
(* each about a fact that is in the artifact.                              *)
OneFindingPerId ==
    node = "done" /\ artifact.facts # {} =>
        /\ \A i \in DOMAIN findings : findings[i].fact \in artifact.facts
        /\ \A f \in artifact.facts :
               Cardinality({i \in DOMAIN findings : findings[i].fact.id = f.id}) = 1

(* The order of the findings is that of their urgency, as the lookups that *)
(* succeeded show it, and the model has no say in it; equally urgent ones  *)
(* stand in the order of their rules' severity.                            *)
RankedByUrgency ==
    node = "done" /\ artifact.facts # {} =>
        \A i, j \in DOMAIN findings : i < j =>
            LET f == findings[i].fact  g == findings[j].fact
            IN  \/ Urgency(f) > Urgency(g)
                \/ Urgency(f) = Urgency(g) /\ Before(f, g)

(* No misattribution: a finding has the severity of its rule, or one the   *)
(* model gave to this very candidate, whatever ids an answer repeats,      *)
(* leaves out or makes up and in whatever order.                           *)
SeverityIsAccountedFor ==
    node = "done" => \A i \in DOMAIN findings : findings[i].fact # None =>
        LET f == findings[i].fact
        IN  \/ findings[i].severity = f.severity
            \/ \E e \in Range(answer) :
                   e.candidate_id = f.id /\ e.severity = findings[i].severity

(* "Reporting them identically is how a broken pipeline passes for a       *)
(* healthy one": a scan is called clean only if there was one, it could be *)
(* read, and it shows nothing; and of a host that was found alive but not  *)
(* scanned the report says that it was refused, or that the sweep was cut  *)
(* short ("silence here would read as a clean bill of health for hosts     *)
(* nothing ever looked at").                                               *)
CleanMeansExamined ==
    node = "done" => \A i \in DOMAIN findings : findings[i].title = "clean" =>
        /\ status \in {"parsed-by-backend", "provided", "scanned", "swept"}
        /\ artifact = [text |-> "readable", facts |-> {}]
        /\ findings[i].partial \/ live \ reached \subseteq findings[i].refused
=============================================================================
