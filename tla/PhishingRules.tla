---------------------------- MODULE PhishingRules ----------------------------
(***************************************************************************)
(* The deterministic rules of the phishing agent (agents/phishing/rules)   *)
(* and its scorer (scoring.py): the indicators a message earns, their      *)
(* order, and the severity floor they add up to.                           *)
(***************************************************************************)
EXTENDS EmailMessage

CONSTANTS PhraseBook,      \* phrase -> its kind and weight
          AliasIndex,      \* the aliases with their brands, the longest first
          DomainsOf,       \* brand -> the domains it sends from
          Shorteners,      \* the registrable domains of link shorteners
          MaxLabels,       \* max_subdomain_labels
          Executable, Macro, Container, Document,   \* file suffixes
          ExpectedTypes    \* suffix -> the types it is declared with

SeverityOrder == [info |-> 0, low |-> 1, medium |-> 2, high |-> 3, critical |-> 4]
Severity == DOMAIN SeverityOrder

(* Weights and scores are in ten-thousandths.  What a rule's indicators    *)
(* are worth; the rules are listed in the order of their names.            *)
RuleBook == <<
    <<"attachment-bidi-override", "attachment", 9000, "high">>,
    <<"attachment-container", "attachment", 5000, "medium">>,
    <<"attachment-double-extension", "attachment", 9000, "critical">>,
    <<"attachment-executable", "attachment", 9000, "critical">>,
    <<"attachment-macro-capable", "attachment", 7000, "high">>,
    <<"attachment-type-mismatch", "attachment", 4500, "low">>,
    <<"auth-dkim-failed", "authentication", 8000, "high">>,
    <<"auth-dmarc-failed", "authentication", 9000, "high">>,
    <<"auth-envelope-mismatch", "authentication", 6000, "medium">>,
    <<"auth-reply-to-mismatch", "authentication", 7000, "medium">>,
    <<"auth-results-absent", "authentication", 3000, "low">>,
    <<"auth-spf-failed", "authentication", 8500, "high">>,
    <<"content-credential-language", "content", 7500, "medium">>,
    <<"content-payment-language", "content", 7500, "medium">>,
    <<"content-secrecy-language", "content", 7500, "medium">>,
    <<"content-single-link-with-pressure", "content", 6500, "medium">>,
    <<"content-threat-language", "content", 7500, "low">>,
    <<"content-urgency-language", "content", 7500, "low">>,
    <<"enrich-credential-form", "url", 9000, "high">>,
    <<"enrich-no-dmarc-policy", "authentication", 4000, "low">>,
    <<"enrich-redirect-chain", "url", 6500, "medium">>,
    <<"enrich-spf-claim-unsupported", "authentication", 8500, "high">>,
    <<"enrich-young-sender-domain", "identity", 7500, "high">>,
    <<"identity-brand-impersonation", "identity", 8500, "high">>,
    <<"identity-display-name-is-an-address", "identity", 8500, "high">>,
    <<"identity-lookalike-brand-in-subdomain", "identity", 8000, "high">>,
    <<"identity-lookalike-homoglyph", "identity", 9000, "critical">>,
    <<"identity-lookalike-punycode", "identity", 8500, "high">>,
    <<"identity-lookalike-typosquat", "identity", 8000, "high">>,
    <<"identity-mixed-script-domain", "identity", 7500, "high">>,
    <<"identity-punycode-domain", "identity", 4500, "medium">>,
    <<"injection-chat-template", "injection", 9000, "high">>,
    <<"injection-configuration-exfiltration", "injection", 8500, "high">>,
    <<"injection-fence-escape", "injection", 9500, "high">>,
    <<"injection-instruction-override", "injection", 8500, "high">>,
    <<"injection-mode-switch", "injection", 8500, "high">>,
    <<"injection-new-instructions", "injection", 8500, "high">>,
    <<"injection-role-impersonation", "injection", 8500, "high">>,
    <<"injection-suppression-request", "injection", 8500, "high">>,
    <<"injection-verdict-dictation", "injection", 8500, "high">>,
    <<"url-anchor-text-mismatch", "url", 9000, "high">>,
    <<"url-credentials-in-authority", "url", 9000, "high">>,
    <<"url-dangerous-scheme", "url", 8500, "high">>,
    <<"url-excessive-subdomains", "url", 5000, "low">>,
    <<"url-ip-literal-host", "url", 8000, "high">>,
    <<"url-links-point-away-from-sender", "url", 5000, "low">>,
    <<"url-lookalike-brand-in-subdomain", "url", 8500, "high">>,
    <<"url-lookalike-homoglyph", "url", 8500, "high">>,
    <<"url-lookalike-punycode", "url", 8500, "high">>,
    <<"url-lookalike-typosquat", "url", 8500, "high">>,
    <<"url-nonstandard-port", "url", 5500, "medium">>,
    <<"url-shortener", "url", 5500, "medium">> >>

Rules == {RuleBook[n][1] : n \in DOMAIN RuleBook}
Book ==
    [rule \in Rules |->
        LET n == CHOOSE k \in DOMAIN RuleBook : RuleBook[k][1] = rule
        IN  [place |-> n, category |-> RuleBook[n][2],
             weight |-> RuleBook[n][3], floor |-> RuleBook[n][4]]]

LanguageRule ==
    [credential |-> "content-credential-language", payment |-> "content-payment-language",
     secrecy |-> "content-secrecy-language", threat |-> "content-threat-language",
     urgency |-> "content-urgency-language"]
Kinds == DOMAIN LanguageRule

LookalikeRule(family, technique) ==
    CASE technique = "homoglyph" ->
             IF family = "url" THEN "url-lookalike-homoglyph" ELSE "identity-lookalike-homoglyph"
      [] technique = "punycode" ->
             IF family = "url" THEN "url-lookalike-punycode" ELSE "identity-lookalike-punycode"
      [] technique = "brand-in-subdomain" ->
             IF family = "url" THEN "url-lookalike-brand-in-subdomain"
             ELSE "identity-lookalike-brand-in-subdomain"
      [] technique = "typosquat" ->
             IF family = "url" THEN "url-lookalike-typosquat" ELSE "identity-lookalike-typosquat"

ASSUME PhraseAssumption ==
    /\ IsFiniteSet(Phrase)
    /\ \A phrase \in Phrase :
        /\ PhraseBook[phrase].kind \in Kinds
        /\ PhraseBook[phrase].weight \in Nat /\ PhraseBook[phrase].place \in Nat
ASSUME TechniqueAssumption ==
    IsFiniteSet(Technique) /\ \A t \in Technique : t \in Rules /\ Book[t].category = "injection"
(* What a host may be misread as is among the hosts, its domain too.       *)
ASSUME HostAssumption == \A host \in Host : RegistrableDomain(host) \in Host

-----------------------------------------------------------------------------
(* An indicator: its rule, its locus (a part of the message, and which of  *)
(* them), what discriminates it from others there, and what it is worth.   *)
Indicator(rule, part, at, disc, hosts, weight, floor) ==
    [rule |-> rule, part |-> part, at |-> at, disc |-> disc, hosts |-> hosts,
     weight |-> weight, floor |-> floor]

FoundWith(rule, part, at, disc, hosts) ==
    Indicator(rule, part, at, disc, hosts, Book[rule].weight, Book[rule].floor)

Found(rule, part, at, hosts) == FoundWith(rule, part, at, "", hosts)

InHeader(rule, header, hosts) == Found(rule, header, 0, hosts)

When(condition, indicator) == IF condition THEN {indicator} ELSE {}

CategoryOf(indicator) == Book[indicator.rule].category

(* derive_indicator_id, without the collisions of its digest.              *)
Id(i) == <<i.rule, i.part, i.at, i.disc, i.hosts>>

(* The place of a locus among the strings: "link:10" is before "link:2".   *)
Locus(i) ==
    LET n == i.at - 1
    IN  IF i.part # "link" THEN i.at
        ELSE IF n < 10 THEN 1000 * n + 1 ELSE IF n < 100 THEN 100 * n + 2 ELSE 10 * n + 3

(* sort_key.                                                               *)
Heavier(i, j) ==
    \/ i.weight > j.weight
    \/ i.weight = j.weight /\ Book[i.rule].place < Book[j.rule].place
    \/ i.weight = j.weight /\ i.rule = j.rule /\ Locus(i) < Locus(j)

Heaviest(indicators) == CHOOSE i \in indicators : \A j \in indicators : ~Heavier(j, i)

Sorted(indicators) ==
    LET sorted[rest \in SUBSET indicators] ==
            IF rest = {} THEN <<>> ELSE <<Heaviest(rest)>> \o sorted[rest \ {Heaviest(rest)}]
    IN  sorted[indicators]

SenderDomain(m) == RegistrableDomain(m.sender.domain)

(* rules/authentication.py                                                 *)
SpfFailed(result) ==
    IF result = "fail" THEN FoundWith("auth-spf-failed", "auth", 0, result, <<>>)
    ELSE Indicator("auth-spf-failed", "auth", 0, result, <<>>, 5500, "medium")

Disagrees(m, rule, header, host) ==
    LET other == RegistrableDomain(host)
    IN  When(SenderDomain(m) # NoHost /\ other # NoHost /\ other # SenderDomain(m),
             InHeader(rule, header, <<other>>))

AuthenticationRules(m) ==
    When(m.auth.spf \in {"fail", "softfail", "permerror", "temperror"}, SpfFailed(m.auth.spf))
    \cup When(m.auth.dkim = "fail", InHeader("auth-dkim-failed", "auth", <<>>))
    \cup When(m.auth.dmarc = "fail", InHeader("auth-dmarc-failed", "auth", <<>>))
    \cup When(~m.auth.present, InHeader("auth-results-absent", "auth", <<>>))
    \cup Disagrees(m, "auth-reply-to-mismatch", "reply-to", m.reply_to)
    \cup Disagrees(m, "auth-envelope-mismatch", "return-path", m.return_path)

(* rules/identity.py                                                       *)
BrandClaimedIn(aliases) ==
    LET i == SelectInSeq(AliasIndex, LAMBDA entry : entry.alias \in aliases)
    IN  IF i = 0 THEN {} ELSE {AliasIndex[i].brand}

(* The display name is asked first, the local part if it claims nothing.   *)
ClaimedBrand(m) ==
    IF BrandClaimedIn(m.sender.name.aliases) # {} THEN BrandClaimedIn(m.sender.name.aliases)
    ELSE BrandClaimedIn(m.sender.local)

Impersonates(m) ==
    UNION {When(SenderDomain(m) \notin DomainsOf[brand],
                FoundWith("identity-brand-impersonation", "from", 0, brand, <<>>))
           : brand \in ClaimedBrand(m)}

Imitates(family, part, at, host) ==
    LET lookalike == Imitation[host]
    IN  IF lookalike = Silent THEN {}
        ELSE {Found(LookalikeRule(family, lookalike.technique), part, at, <<host, lookalike.brand>>)}

DisplayedDomain(m) == RegistrableDomain(m.sender.name.address)

IdentityRules(m) ==
    LET sender == SenderDomain(m)
    IN  Impersonates(m)
        \cup Imitates("identity", "from", 0, sender)
        \cup When(IsMixedScript(sender), InHeader("identity-mixed-script-domain", "from", <<>>))
        \cup When(~IsMixedScript(sender) /\ sender # NoHost /\ HasPunycode(m.sender.domain),
                  InHeader("identity-punycode-domain", "from", <<>>))
        \cup When(DisplayedDomain(m) # NoHost /\ DisplayedDomain(m) # sender,
                  InHeader("identity-display-name-is-an-address", "from", <<DisplayedDomain(m)>>))

(* rules/urls.py, of the link in one position: what the URL is, and where  *)
(* it leads.                                                               *)
OfLink(rule, link, i) == Found(rule, "link", i, <<link.host>>)

UrlRules(link, i) ==
    LET actual == RegistrableDomain(link.host)
        shown == RegistrableDomain(link.label.names)
        Here(rule) == OfLink(rule, link, i)
    IN  When(shown # NoHost /\ actual # NoHost /\ shown # actual,
             Found("url-anchor-text-mismatch", "link", i, <<shown, actual>>))
        \cup When(link.scheme = "javascript", Here("url-dangerous-scheme"))
        \cup When(link.host \in Addresses, Here("url-ip-literal-host"))
        \cup When((link.url.user \/ link.url.tail.at) /\ link.scheme # "",
                  Here("url-credentials-in-authority"))

HostRules(link, i) ==
    LET Here(rule) == OfLink(rule, link, i)
    IN  When(RegistrableDomain(link.host) \in Shorteners, Here("url-shortener"))
        \cup When(link.url.port = "odd", Here("url-nonstandard-port"))
        \cup When(Len(link.host) > MaxLabels, Here("url-excessive-subdomains"))
        \cup Imitates("url", "link", i, link.host)

(* One other domain that most of the links go to.                          *)
Dominant(m) ==
    LET at == {i \in DOMAIN m.links : m.links[i].host # NoHost}
        To(domain) == Cardinality({i \in at : RegistrableDomain(m.links[i].host) = domain})
    IN  {domain \in {RegistrableDomain(m.links[i].host) : i \in at} :
            To(domain) >= 2 /\ 10 * To(domain) >= 6 * Cardinality(at)}

LinkedElsewhere(m) ==
    {InHeader("url-links-point-away-from-sender", "links", <<domain>>) :
        domain \in IF SenderDomain(m) = NoHost THEN {} ELSE Dominant(m) \ {SenderDomain(m)}}

(* rules/attachments.py, of one attachment.                                *)
FinalSuffix(file) == IF file.suffixes = <<>> THEN "" ELSE Last(file.suffixes)

NameRules(file) ==
    LET n == Len(file.suffixes)
        Here(rule) == Found(rule, "attachment", file.name, <<>>)
    IN  When(file.bidi, Here("attachment-bidi-override"))
        \cup When(/\ n >= 2 /\ file.suffixes[n - 1] \in Document
                  /\ FinalSuffix(file) \in Executable \cup Macro,
                  Here("attachment-double-extension"))

TypeRules(file) ==
    LET final == FinalSuffix(file)
        Here(rule) == Found(rule, "attachment", file.name, <<>>)
        expected == IF final \in DOMAIN ExpectedTypes THEN ExpectedTypes[final] ELSE {}
    IN  When(final \in Executable, Here("attachment-executable"))
        \cup When(final \in Macro, Here("attachment-macro-capable"))
        \cup When(final \in Container, Here("attachment-container"))
        \cup When(expected # {} /\ file.declared \notin expected \cup {"", "generic"},
                  FoundWith("attachment-type-mismatch", "attachment", file.name, file.declared, <<>>))

(* rules/content.py: one indicator for each kind of language, with the     *)
(* weight of its heaviest phrase; one in the subject weighs more.          *)
PhraseWeight(m, phrase) ==
    LET weight == PhraseBook[phrase].weight
    IN  Min({7500, IF phrase \in m.subject THEN (weight * 5) \div 4 ELSE weight})

Language(m, kind) ==
    LET hits == {p \in Phrase \cap (m.subject \cup m.body) : PhraseBook[p].kind = kind}
        Key(p) == 1000 * PhraseWeight(m, p) + PhraseBook[p].place
        heaviest == CHOOSE p \in hits : \A q \in hits : Key(p) >= Key(q)
    IN  IF hits = {} THEN {}
        ELSE {Indicator(LanguageRule[kind], IF heaviest \in m.subject THEN "subject" ELSE "body", 0,
                        "", <<>>, PhraseWeight(m, heaviest), Book[LanguageRule[kind]].floor)}

ContentRules(m) ==
    LET found == UNION {Language(m, kind) : kind \in Kinds}
        pressing == {LanguageRule[kind] : kind \in {"urgency", "threat", "credential"}}
    IN  found \cup When(Len(m.links) = 1 /\ \E i \in found : i.rule \in pressing,
                        InHeader("content-single-link-with-pressure", "shape", <<>>))

(* rules/injection.py: one indicator for each technique, where it is first *)
(* met in the subject, the body, the file names and the labels of links.   *)
Haystacks(m) ==
    LET Haystack(part, at, says) == [part |-> part, at |-> at, says |-> says]
    IN  <<Haystack("subject", 0, m.subject), Haystack("body", 0, m.body)>>
        \o [i \in DOMAIN m.attachments |->
               Haystack("attachment", m.attachments[i].name, m.attachments[i].says)]
        \o [i \in DOMAIN m.links |-> Haystack("link", i, m.links[i].label.says)]

(* Mutant: only the subject and the body are read.                         *)
InjectionInProse(m) ==
    {InHeader(technique, "body", <<>>) : technique \in Technique \cap (m.subject \cup m.body)}

InjectionRules(m) ==
    UNION {LET texts == Haystacks(m)
               i == SelectInSeq(texts, LAMBDA text : technique \in text.says)
           IN  IF i = 0 THEN {} ELSE {Found(technique, texts[i].part, texts[i].at, <<>>)}
           : technique \in Technique}

(* rules.detect, before it sorts.                                          *)
Detect(m) ==
    AuthenticationRules(m) \cup IdentityRules(m)
    \cup (UNION {UrlRules(m.links[i], i) \cup HostRules(m.links[i], i) : i \in DOMAIN m.links})
    \cup LinkedElsewhere(m)
    \cup (UNION {NameRules(m.attachments[i]) \cup TypeRules(m.attachments[i]) : i \in DOMAIN m.attachments})
    \cup ContentRules(m) \cup InjectionRules(m)

-----------------------------------------------------------------------------
Ceiling == [authentication |-> 10000, identity |-> 10000, attachment |-> 9500,
            injection |-> 9000, url |-> 9000, content |-> 4500]
Available == 52000

(* The nth indicator of a category counts for a share of its weight.       *)
Decayed(weight, n) ==
    CASE n = 1 -> weight
      [] n = 2 -> (weight * 35) \div 100
      [] n = 3 -> (weight * 15) \div 100
      [] OTHER -> (weight * 15) \div (100 * n)

(* _category_contribution of indicators that are sorted, at its ceiling.   *)
Contribution(indicators, category) ==
    LET own == Those(indicators, LAMBDA i : CategoryOf(i) = category)
        total[n \in 0 .. Len(own)] ==
            IF n = 0 THEN 0 ELSE total[n - 1] + Decayed(own[n].weight, n)
    IN  Min({total[Len(own)], Ceiling[category]})

(* weighted_score, of Available: a bonus of 6 % for every further family.  *)
WeightedScore(indicators) ==
    LET Of(category) == Contribution(indicators, category)
        subtotal == Of("authentication") + Of("identity") + Of("url")
                    + Of("attachment") + Of("content") + Of("injection")
        families == {CategoryOf(i) : i \in Range(indicators)}
        further == Max({0, Min({Cardinality(families) - 1, 3})})
    IN  Min({subtotal + further * 3120, Available})

BandFor(value) ==
    CASE 100 * value >= 80 * Available -> "critical"
      [] 100 * value >= 55 * Available -> "high"
      [] 100 * value >= 30 * Available -> "medium"
      [] 100 * value >= 12 * Available -> "low"
      [] OTHER -> "info"

Worst(severities) ==
    CHOOSE s \in severities : \A t \in severities : SeverityOrder[t] <= SeverityOrder[s]

(* score: the stronger of the aggregate's band and any indicator's floor.  *)
Floor(indicators) ==
    Worst({BandFor(WeightedScore(indicators))} \cup {i.floor : i \in Range(indicators)})
=============================================================================
