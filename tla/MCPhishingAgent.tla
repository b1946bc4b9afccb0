--------------------------- MODULE MCPhishingAgent ---------------------------
(***************************************************************************)
(* A small instance of PhishingAgent for TLC.                              *)
(***************************************************************************)
EXTENDS PhishingAgent

L(chars) == Label(chars)
I == L(<<"i">>)
C == L(<<"c">>)

(* Two brands: one of them below a public suffix of two labels, the other  *)
(* with two domains that are two edits apart, like amazonses.com and       *)
(* amazonaws.com.                                                          *)
Acme == <<L(<<"a", "c", "m", "e">>), I>>
AcmeToo == <<L(<<"a", "c", "m", "p", "o">>), I>>
Pay == <<L(<<"p", "a", "y">>), C, I>>
ThreeDomains == <<Acme, AcmeToo, Pay>>

(* Not a brand, two edits from one.                                        *)
Acyo == <<L(<<"a", "c", "y", "o">>), I>>

(* Hosts of the brand, and hosts that read like it: with a confusable, one *)
(* encoded, with two letters swapped, the brand as a label of another      *)
(* domain, and one that is three edits away.  And others.                  *)
MailAcme == <<L(<<"m">>)>> \o Acme
MailAcmeToo == <<L(<<"m">>)>> \o AcmeToo
MailPay == <<L(<<"m">>)>> \o Pay
Confusable == <<L(<<"a", "c", "m", "E">>), I>>
Encoded == <<[chars |-> <<"a", "c", "M", "y">>, puny |-> TRUE], I>>
Swapped == <<L(<<"a", "m", "c", "e">>), I>>
Hidden == Acme \o <<L(<<"p", "o">>), C>>
Other == <<L(<<"p", "o">>), C>>
Apart == <<L(<<"a", "p", "p", "e">>), C>>
PayAlike == <<L(<<"m">>), L(<<"p", "i", "y">>), C, I>>
PayAlikeDomain == <<L(<<"p", "i", "y">>), C, I>>
Short == <<L(<<"y">>), C>>
Address == <<L(<<"o">>)>>
Deep == <<L(<<"m">>), L(<<"i">>), L(<<"o">>), L(<<"y">>)>> \o Other

(* What is misread as hosts: a host and the query that follows it, which   *)
(* may bring a lookalike out of sight and a genuine domain near a brand's. *)
Query == <<L(<<"?", "y">>)>>
SwappedQuery == <<L(<<"a", "m", "c", "e">>), L(<<"i", "?", "y">>)>>
AcmeQuery == <<L(<<"a", "c", "m", "e">>), L(<<"i", "?">>)>>

AllHosts == {Acme, AcmeToo, Pay, Acyo, MailAcme, MailAcmeToo, MailPay, Confusable, Encoded, Swapped,
             Hidden, Other, Apart, PayAlike, PayAlikeDomain, Short, Address, Deep, SwappedQuery, AcmeQuery}
LongOnes == {Hidden, Deep}
ConfusableLooks == [E |-> "e", M |-> "m"]
LetterScripts == [a |-> "latin", c |-> "latin", m |-> "latin", e |-> "latin", y |-> "latin",
                  E |-> "cyrillic", M |-> "cyrillic"]
TwoLabelSuffixes == {<<C, I>>}
SomeAddresses == {Address}
SomeShorteners == {Short}

Book2 == [hurry |-> [kind |-> "urgency", weight |-> 4000, place |-> 1],
          login |-> [kind |-> "credential", weight |-> 8500, place |-> 2]]
Techniques2 == {"injection-instruction-override", "injection-fence-escape"}
OneAlias == <<[alias |-> "acme", brand |-> "Acme"]>>
AcmeDomains == [Acme |-> {Acme, AcmeToo}]
TypesOf == (".pdf" :> {"pdf"})

-----------------------------------------------------------------------------
Web(host) == [scheme |-> "https", host |-> host, user |-> FALSE, port |-> "none", tail |-> NoTail]
Odd == [Web(Address) EXCEPT !.scheme = "http", !.user = TRUE, !.port = "odd"]
Script1 == [Web(NoHost) EXCEPT !.scheme = "javascript"]
Asked(host, text) == [Web(host) EXCEPT !.tail.text = text]
Posed(host, text) == [Web(host) EXCEPT !.tail = [at |-> TRUE, text |-> text]]
Ends == [host \in AllHosts |-> CASE host = Short -> Other [] host = Deep -> NoHost [] OTHER -> host]

From(aliases, domain) ==
    [name |-> [aliases |-> aliases, address |-> NoHost], local |-> {}, domain |-> domain]

Genuine == From({"acme"}, MailAcme)
Impostor == [From({}, Confusable) EXCEPT !.local = {"acme"}]
Posing == [From({"acme"}, Other) EXCEPT !.name.address = Acme]
AllSenders == {Genuine, From({"acme"}, MailAcmeToo), From({}, MailPay), Impostor, Posing, From({}, Encoded), From({}, Swapped), From({}, Acyo),
               From({}, PayAlike), NoSender}

Result(method, result) == [method |-> method, result |-> result]
Passed == [present |-> TRUE, pairs |-> <<Result("spf", "pass"), Result("dmarc", "pass")>>]
Forged == [present |-> TRUE, pairs |-> <<Result("spf", "softfail"), Result("dmarc", "fail"),
                                         Result("dmarc", "pass"), Result("dkim", "fail")>>]
Unchecked == [present |-> FALSE, pairs |-> <<>>]

Text1(says) == Item("text", NoUrl, [NoLabel EXCEPT !.says = says])
Bare(url) == Item("text", url, NoLabel)
Anchor(url, names, says) == Item("anchor", url, [names |-> names, says |-> says])
Tag(url) == Item("tag", url, NoLabel)

Part(kind, items) == [kind |-> kind, items |-> items]
File(name, suffixes, declared) ==
    [kind |-> "attachment", file |-> [name |-> name, bidi |-> FALSE, suffixes |-> suffixes,
                                      declared |-> declared, says |-> {}]]
Program == File(1, <<".pdf", ".exe">>, "generic")
Disguised == [File(2, <<".pdf">>, "program") EXCEPT !.file.bidi = TRUE,
                                                    !.file.says = {"injection-fence-escape"}]

Bodies ==
    { <<>>,
      <<Part("plain", <<Text1({"hurry"}), Bare(Web(Short))>>)>>,
      (* A label that names the brand, on a link that occurs elsewhere too. *)
      <<Part("multipart", <<>>),
        Part("plain", <<Text1({"login"}), Bare(Web(Other))>>),
        Part("html", <<Tag(Web(Other)), Anchor(Web(Other), Acme, {}), Bare(Web(Other))>>)>>,
      <<Part("html", <<Anchor(Web(Hidden), Hidden, {"injection-instruction-override"}),
                       Anchor(Script1, NoHost, {}), Tag(NoUrl)>>)>>,
      <<Part("html", <<Anchor(Odd, NoHost, {"hurry"}), Anchor(Web(Deep), Acme, {}),
                       Bare(Web(Apart))>>)>>,
      <<Part("plain", <<Text1({"injection-instruction-override"})>>), Program>>,
      <<Program, Disguised>> }

Long1 == <<Part("plain", <<Text1({}), Text1({}), Text1({}), Text1({}), Text1({})>>)>>
Nested == <<Part("multipart", <<>>), Part("multipart", <<>>), Part("multipart", <<>>), Program>>

Mail(sender, auth, subject, parts) ==
    [from |-> sender # NoSender, received |-> 1, sender |-> sender, reply_to |-> NoHost,
     return_path |-> NoHost, auth |-> auth, subject |-> subject, parts |-> parts]

SomeMails ==
    {Mail(sender, auth, {}, <<>>) : sender \in AllSenders, auth \in {Passed, Forged, Unchecked}}
    \cup {Mail(Genuine, Passed, {"hurry"}, body) : body \in Bodies}
    \cup {Mail(Impostor, Passed, {"login"}, body) : body \in Bodies}
    \cup {Mail(Posing, auth, {}, body) : auth \in {Passed, Forged}, body \in Bodies}
    \cup {[Mail(Genuine, Passed, {}, <<>>) EXCEPT !.reply_to = Other, !.return_path = host] :
             host \in {Acme, Other}}
    \cup {Mail(Genuine, Passed, {}, Long1), Mail(Genuine, Passed, {}, Nested)}
    \cup {[Mail(NoSender, Unchecked, {}, <<>>) EXCEPT !.received = n] : n \in {0, 1, 3}}

SomeUrls == {Web(Acme), Web(Swapped), Web(Hidden), Web(Encoded), Web(Short), Script1,
             Odd, [Web(Deep) EXCEPT !.port = "odd"],
             Asked(Swapped, Query), [Asked(Swapped, Query) EXCEPT !.port = "standard"],
             Asked(Acme, <<L(<<"?">>)>>), Posed(Other, Acme), Posed(Swapped, NoHost)}

(* The model repeats an indicator, makes one up or names none, and raises  *)
(* the severity, plays it down or proposes none.                           *)
SomeAnswers ==
    {[named |-> <<>>, severity |-> "critical", injection |-> "none"],
     [named |-> <<2, 9, 2>>, severity |-> "info", injection |-> "none"],
     [named |-> <<3, 1>>, severity |-> "medium", injection |-> "suspected"],
     [named |-> <<2>>, severity |-> None, injection |-> "suspected"]}
=============================================================================
