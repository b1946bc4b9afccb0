---------------------------- MODULE PhishingAgent ----------------------------
(***************************************************************************)
(* One analysis of a submitted message or URL: the backend's task makes a  *)
(* NormalizedMessage of it and the ai.engine's phishing graph (agents/     *)
(* phishing) detects, enriches, scores, has a model explain, and emits the *)
(* findings the verdict is read off.                                       *)
(***************************************************************************)
EXTENDS PhishingRules

CONSTANTS None,
          Mails,           \* the messages an analyst may upload
          SubmittedUrls,   \* the URLs an analyst may submit
          LongHosts,       \* the hosts of more than 12 characters
          Landing,         \* host -> the host its redirects end at
          Answers,         \* what the model may answer
          MaxIndicators,   \* phishing_max_indicators
          MaxUrls          \* EnrichmentPolicy.max_urls

Assessments == [named : Seq(Nat), severity : Severity \cup {None},
                injection : {"none", "suspected", "confirmed"}]

ASSUME MailAssumption == Mails \subseteq Emails
ASSUME AnswerAssumption == Answers \subseteq Assessments
ASSUME LimitAssumption == MaxIndicators \in Nat \ {0} /\ MaxUrls \in Nat \ {0}
ASSUME UrlAssumption ==
    /\ SubmittedUrls \subseteq Urls /\ DOMAIN Landing = Host
    /\ \A url \in SubmittedUrls : IsAcceptedUrl(url) => SplitHost(url) \in Hosts

VARIABLES
    submitted,    \* what was submitted, and whether its links may be fetched
    node,         \* the step that runs next
    message,      \* the NormalizedMessage
    detected,     \* every indicator of the rules, in order (history)
    indicators,   \* the indicators that are kept, in order
    overflow,     \* the ids of those dropped at the cap
    floor,        \* the severity floor the score justifies
    answer,       \* what the model returned; None if it was not called
    findings,     \* what the analysis returns
    verdict       \* the headline verdict of the submission

kept == <<detected, indicators, overflow>>
vars == <<submitted, node, message, kept, floor, answer, findings, verdict>>

Submissions ==
    [what : {"mail"}, mail : Mails, fetch : BOOLEAN]
    \cup [what : {"url"}, url : SubmittedUrls, fetch : BOOLEAN]

Ids(s) == {Id(s[i]) : i \in DOMAIN s}

Init ==
    /\ submitted \in Submissions
    /\ node = "submitted"
    /\ message = None
    /\ detected = <<>> /\ indicators = <<>> /\ overflow = {}
    /\ floor = "info"
    /\ answer = None
    /\ findings = <<>> /\ verdict = None

Goes(from, to) == node = from /\ node' = to

-----------------------------------------------------------------------------
(* A URL is validated when it is submitted, a message parsed in the task.  *)
Refuse ==
    /\ submitted.what = "url" /\ ~IsAcceptedUrl(submitted.url)
    /\ Goes("submitted", "refused")
    /\ UNCHANGED <<submitted, message, kept, floor, answer, findings, verdict>>

ParseFails ==
    /\ submitted.what = "mail" /\ Unparsable(submitted.mail)
    /\ Goes("submitted", "failed")
    /\ UNCHANGED <<submitted, message, kept, floor, answer, findings, verdict>>

Parse ==
    /\ Goes("submitted", "detect")
    /\ \/ /\ submitted.what = "mail" /\ ~Unparsable(submitted.mail)
          /\ message' = ParseEmailMime(submitted.mail)
       \/ /\ submitted.what = "url" /\ IsAcceptedUrl(submitted.url)
          /\ message' = UrlAsMessage(submitted.url)
    /\ UNCHANGED <<submitted, kept, floor, answer, findings, verdict>>

(* normalize and detect: what is beyond the cap, in the order of the       *)
(* weights, is dropped, and its ids are kept.                              *)
DetectIndicators ==
    /\ Goes("detect", "enrich")
    /\ \E found \in {Sorted(Detect(message))} :
           LET cap == Min({MaxIndicators, Len(found)})
           IN  /\ detected' = found
               /\ indicators' = SubSeq(found, 1, cap)
               /\ overflow' = {Id(found[i]) : i \in cap + 1 .. Len(found)}
    /\ UNCHANGED <<submitted, message, floor, answer, findings, verdict>>

-----------------------------------------------------------------------------
(* The lookups of enrich.py.  Each of them may fail, or be unavailable;    *)
(* then it adds nothing.                                                   *)

(* _dns: what the domain publishes against what the message claims.        *)
DnsSignals(m) ==
    LET Signals(spf, dmarc) ==
            When(m.auth.spf = "pass" /\ ~spf, InHeader("enrich-spf-claim-unsupported", "auth", <<>>))
            \cup When(~dmarc /\ m.auth.dmarc # "fail", InHeader("enrich-no-dmarc-policy", "dns", <<>>))
    IN  IF SenderDomain(m) = NoHost THEN {{}}
        ELSE {{}} \cup {Signals(spf, dmarc) : spf \in BOOLEAN, dmarc \in BOOLEAN}

(* _domain_age: the domain is younger than YOUNG_DOMAIN_DAYS, or is not.   *)
AgeSignals(m) ==
    IF SenderDomain(m) = NoHost THEN {{}}
    ELSE {{}, {InHeader("enrich-young-sender-domain", "from", <<>>)}}

(* _fetch_targets: at most MAX_URLS web links, those with short hosts      *)
(* first; among equally long ones any may come first.                      *)
FetchTargets(m) ==
    LET web == {i \in DOMAIN m.links : m.links[i].scheme \in {"http", "https"}
                                       /\ m.links[i].host # NoHost}
        Long(i) == m.links[i].host \in LongHosts
    IN  {T \in SUBSET web :
            /\ Cardinality(T) = Min({Cardinality(web), MaxUrls})
            /\ \A i \in T, j \in web \ T : Long(i) => Long(j)}

(* _fetch of one URL: the page has a password field, it was reached over   *)
(* several hosts, both or neither.                                         *)
PageSignals(url, form, chain) ==
    LET host == Landing[url.host]
    IN  When(form /\ host # NoHost, Found("enrich-credential-form", "fetched", 0, <<host>>))
        \cup When(chain, Found("enrich-redirect-chain", "fetched", 0,
                               <<IF host = NoHost THEN url.host ELSE host>>))

FetchSignals(m) ==
    IF ~submitted.fetch THEN {{}}
    ELSE UNION {{UNION {PageSignals(m.links[i].url, form[i], chain[i]) : i \in targets} :
                    form \in [targets -> BOOLEAN], chain \in [targets -> BOOLEAN]} :
                targets \in FetchTargets(m)}

(* Mutant: what the lookups add replaces what the rules found.             *)
MergeReplacing(existing, added) == IF added = {} THEN existing ELSE Sorted(added)

(* _merge: an indicator that is there already stays; the whole is sorted   *)
(* again, and the cap is not applied again.                                *)
Merge(existing, added) == Sorted(Range(existing) \cup added)

Enrich ==
    /\ Goes("enrich", "score")
    /\ \E dns \in DnsSignals(message), age \in AgeSignals(message), pages \in FetchSignals(message) :
           indicators' = Merge(indicators, dns \cup age \cup pages)
    /\ UNCHANGED <<submitted, message, detected, overflow, floor, answer, findings, verdict>>

(* The graph raises and the task fails the row: the MCP session fails while*)
(* it is closed, or the model gives no usable answer.                      *)
EnrichRaises ==
    /\ Goes("enrich", "failed")
    /\ SenderDomain(message) # NoHost \/ FetchTargets(message) # {{}}
    /\ UNCHANGED <<submitted, message, kept, floor, answer, findings, verdict>>

ReasonRaises ==
    /\ Goes("reason", "failed")
    /\ indicators # <<>>
    /\ UNCHANGED <<submitted, message, kept, floor, answer, findings, verdict>>

ScoreIndicators ==
    /\ Goes("score", "reason")
    /\ floor' = Floor(indicators)
    /\ UNCHANGED <<submitted, message, kept, answer, findings, verdict>>

(* reason: the model is asked only about indicators there are.             *)
Reason ==
    /\ Goes("reason", "emit_findings")
    /\ IF indicators = <<>> THEN answer' = None ELSE answer' \in Answers
    /\ UNCHANGED <<submitted, message, kept, floor, findings, verdict>>

-----------------------------------------------------------------------------
(* Mutant: what the model does not name is left out.                       *)
ReconcileNamed(all, named) ==
    LET known == SelectSeq(named, LAMBDA n : n \in DOMAIN all)
    IN  [n \in DOMAIN known |-> all[known[n]]]

(* Where an indicator comes: as the model first names it, or after those it*)
(* names.                                                                  *)
Mentioned(named, n) ==
    LET first == SelectInSeq(named, LAMBDA k : k = n)
    IN  IF first = 0 THEN Len(named) + n ELSE first

(* reconcile: the indicators the model named, each once and the first time *)
(* it does, then the others in rule order.  A number that is none of an    *)
(* indicator stands for an id that does not exist.                         *)
Reconcile(all, named) ==
    [k \in DOMAIN all |->
        all[CHOOSE n \in DOMAIN all :
            Cardinality({j \in DOMAIN all : Mentioned(named, j) < Mentioned(named, n)}) = k - 1]]

(* Mutant: the model's severity is taken as it is.                         *)
ModelSeverity(lowest, proposed) == IF proposed = None THEN lowest ELSE proposed

(* _final_severity: the model may raise the floor and never lower it.      *)
FinalSeverity(lowest, proposed) ==
    IF proposed = None \/ SeverityOrder[proposed] < SeverityOrder[lowest]
    THEN lowest ELSE proposed

PrimaryFinding(ordered) ==
    [type |-> IF message.format = "url" THEN "malicious_url" ELSE "phishing_message",
     severity |-> IF answer = None THEN floor ELSE FinalSeverity(floor, answer.severity),
     indicators |-> [i \in DOMAIN ordered |-> Id(ordered[i])],
     dropped |-> Cardinality(overflow)]

(* _injection_finding: the rules or the model noticed an attempt to address*)
(* the analyser.                                                           *)
InjectionFinding(ordered) ==
    LET fired == Those(ordered, LAMBDA i : CategoryOf(i) = "injection")
    IN  IF fired = <<>> /\ (answer = None \/ answer.injection = "none") THEN <<>>
        ELSE <<[type |-> "prompt_injection_attempt", severity |-> "high",
                indicators |-> [i \in DOMAIN fired |-> Id(fired[i])], dropped |-> 0]>>

EmitFindings ==
    /\ Goes("emit_findings", "persist")
    /\ LET ordered == IF answer = None THEN indicators ELSE Reconcile(indicators, answer.named)
       IN  findings' = <<PrimaryFinding(ordered)>> \o InjectionFinding(ordered)
    /\ UNCHANGED <<submitted, message, kept, floor, answer, verdict>>

(* verdict_for: of the most severe finding.                                *)
VerdictFor(severity) ==
    CASE severity \in {"critical", "high"} -> "phishing"
      [] severity \in {"medium", "low"} -> "suspicious"
      [] OTHER -> "clean"

Persist ==
    /\ Goes("persist", "completed")
    /\ verdict' = VerdictFor(Worst({findings[i].severity : i \in DOMAIN findings}))
    /\ UNCHANGED <<submitted, message, kept, floor, answer, findings>>

-----------------------------------------------------------------------------
Next ==
    \/ Refuse \/ ParseFails \/ Parse
    \/ DetectIndicators
    \/ Enrich \/ EnrichRaises
    \/ ScoreIndicators
    \/ Reason \/ ReasonRaises
    \/ EmitFindings
    \/ Persist

Spec == Init /\ [][Next]_vars

-----------------------------------------------------------------------------
Reported == Range(findings[1].indicators)
Lookups == Book["enrich-credential-form"].place .. Book["enrich-young-sender-domain"].place
Before == SubSeq(detected, 1, Min({MaxIndicators, Len(detected)}))

(* Ranking decides order, never membership, and the cap is never silent:   *)
(* the finding about a message lists what the rules and the lookups        *)
(* established and nothing else, each once, whatever ids the model names,  *)
(* repeats or makes up; what the cap dropped is listed beside it.          *)
EvidenceIsExact ==
    node \in {"persist", "completed"} =>
        /\ Cardinality(Reported) = Len(findings[1].indicators)
        /\ Reported = Ids(indicators)
        /\ Ids(detected) \subseteq Reported \cup overflow
        /\ \A id \in Reported \ Ids(detected) : Book[id[1]].place \in Lookups
        /\ findings[1].dropped = Cardinality(Ids(detected) \ Reported)

(* Enrichment can only add signal: no lookup, answered or failed, removes  *)
(* an indicator, lowers the score or lowers the floor.                     *)
EnrichmentOnlyAdds ==
    node \in {"reason", "emit_findings", "persist", "completed"} =>
        /\ Range(Before) \subseteq Range(indicators)
        /\ WeightedScore(indicators) >= WeightedScore(Before)
        /\ SeverityOrder[floor] >= SeverityOrder[Floor(Before)]

(* A message cannot talk its severity down: whatever the model answers, the*)
(* finding is as severe as the worst of its evidence on its own, the       *)
(* verdict follows, and it is clean only if nothing fired at all.          *)
SeverityMatchesEvidence ==
    node = "completed" =>
        /\ \A i \in Range(indicators) : SeverityOrder[findings[1].severity] >= SeverityOrder[i.floor]
        /\ (\E i \in Range(indicators) : i.floor \in {"high", "critical"}) => verdict = "phishing"
        /\ verdict = "clean" <=> detected = <<>> /\ indicators = <<>>

(* "The finding survives even if the attempt succeeds": text addressed to  *)
(* the analyser, in the subject, the body text, a file name or the label of*)
(* a link, gives a finding of its own though the model reports none; the   *)
(* one exception is an indicator that the cap dropped, which is listed.    *)
InjectionIsReported ==
    node = "completed" =>
        \A technique \in Technique :
            (\E h \in Range(Haystacks(message)) : technique \in h.says) =>
                \/ \E i \in DOMAIN findings : findings[i].type = "prompt_injection_attempt"
                \/ \E id \in overflow : id[1] = technique

(* What the mail shows reaches the finding or the list of what was dropped:*)
(* a DMARC failure that the receiving server wrote before anything that    *)
(* was appended, an anchor whose label names another domain than it goes   *)
(* to, though its URL occurs elsewhere in the body, and a file that runs.  *)
NothingShownIsLost ==
    node = "completed" /\ submitted.what = "mail" =>
        LET mail == submitted.mail
            html == Items(mail.parts, "html")
            Known(rule) == {id \in Reported \cup overflow : id[1] = rule}
        IN  /\ \A n \in DOMAIN mail.auth.pairs :
                   /\ mail.auth.pairs[n] = [method |-> "dmarc", result |-> "fail"]
                   /\ \A k \in 1 .. n - 1 : mail.auth.pairs[k].method # "dmarc"
                   => Known("auth-dmarc-failed") # {}
            /\ \A n \in DOMAIN html :
                   /\ html[n].tag = "anchor" /\ html[n].url.host # NoHost
                   /\ html[n].label.names # NoHost
                   /\ RegistrableDomain(html[n].label.names) # RegistrableDomain(html[n].url.host)
                   /\ \A k \in 1 .. n - 1 : html[k].tag = "anchor" => html[k].url # html[n].url
                   => \E id \in Known("url-anchor-text-mismatch") :
                          id[5] = <<RegistrableDomain(html[n].label.names),
                                    RegistrableDomain(html[n].url.host)>>
            /\ \A n \in DOMAIN Files(mail.parts) :
                   LET file == Files(mail.parts)[n]
                   IN  /\ file.suffixes # <<>> /\ Last(file.suffixes) \in Executable
                       => \E id \in Known("attachment-executable") : id[3] = file.name

Alphabet == (UNION {Range(Text(Folded(host))) : host \in Host}) \cup {"."}
Near(n) == [i \in DOMAIN BrandDomains |-> WithinEdits(Text(Folded(BrandDomains[i])), n, Alphabet)]
WithinOne == Near(1)
WithinLimit == Near(MaxDistance)
IsBrand(domain) == domain \in Range(BrandDomains)

(* What a host is compared by: its registrable domain, decoded, and the    *)
(* text this reads as.                                                     *)
DomainOf(host) == RegistrableDomain(Decoded(host))
Reading(host) == Text(Folded(DomainOf(host)))

(* The ids of the indicators that name a host and the brand it imitates.   *)
Homoglyphs == {LookalikeRule(family, "homoglyph") : family \in {"identity", "url"}}
Imitations ==
    {id \in Reported \cup overflow : Len(id[5]) = 2 /\ id[1] # "url-anchor-text-mismatch"}

(* The hosts the rules compare: the sender's domain, and those of the links*)
(* as far as the message has them right.  A URL whose query follows its    *)
(* host at once, or holds an "@", is submitted with another (SplitHost).   *)
Compared ==
    ({SenderDomain(message)}
     \cup {l.host : l \in {k \in Range(message.links) : k.host = k.url.host}}) \ {NoHost}

(* What is told of lookalikes can be seen in them: a host told as imitating*)
(* a brand's domain is under another domain (though it may be one more of  *)
(* the same brand: OwnDomainsAreSilent), which reads as that one after at  *)
(* most two edits, or carries its name as a label; and a homoglyph, which  *)
(* is critical, is one exactly if it reads the same without an edit.  And  *)
(* what is one edit away from a brand, and no brand's own domain, does not *)
(* go unnoticed.                                                           *)
LookalikesAreImitations ==
    node \in {"persist", "completed"} =>
        LET Rank(brand) == SelectInSeq(BrandDomains, LAMBDA d : d = brand)
        IN  /\ \A id \in Imitations :
                   LET host == id[5][1]  brand == id[5][2]
                   IN  /\ DomainOf(host) # brand
                       /\ \/ Reading(host) \in WithinLimit[Rank(brand)]
                          \/ /\ Contains(Folded(host), Head(brand))
                             /\ Len(Head(brand).chars) >= MinComparable
                       /\ id[1] \in Homoglyphs <=> Reading(host) = Text(Folded(brand))
            /\ \A host \in Compared :
                   /\ ~IsBrand(DomainOf(host))
                   /\ \E i \in DOMAIN BrandDomains : Reading(host) \in WithinOne[i]
                   => \E id \in Imitations : id[5][1] = host

-----------------------------------------------------------------------------
(* What the comments promise and the analysis refutes.                     *)

(* rules/identity.py: "If the domain genuinely belongs to a brand,         *)
(* find_lookalike is silent by design."  No host under a domain that is    *)
(* listed as a brand's own is told as imitating a brand.                   *)
OwnDomainsAreSilent ==
    node \in {"persist", "completed"} => \A id \in Imitations : ~IsBrand(DomainOf(id[5][1]))
=============================================================================
