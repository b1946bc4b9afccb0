----------------------------- MODULE EmailMessage -----------------------------
(***************************************************************************)
(* What is submitted for phishing analysis and the NormalizedMessage made  *)
(* of it: a MIME message by services/ingestion/email.py, a bare URL by     *)
(* url_as_message (tasks/message_tasks.py).                                *)
(*                                                                         *)
(* Text is what the rules can tell apart in it: the set of the phrases and *)
(* of the attempts to address the analyser (Word) that it contains.        *)
(***************************************************************************)
EXTENDS Lookalike

CONSTANTS Phrase, Technique, Alias,
          LocalHosts,   \* this machine and the networks around it
          MaxParts, MaxLinks, MaxAttachments, MaxReceived, MaxBody   \* MAX_*

Word == Phrase \cup Technique
Hosts == Host \cup {NoHost}

(* What follows the scheme is an authority, or the URL has no host, as what*)
(* is relative.  The tail is what is written of a query or fragment before *)
(* the next slash, which both `_link_of' and `urlsplit' leave out of the   *)
(* host: all of it, or what follows its last "@" if there is one.          *)
Tails == [at : BOOLEAN, text : Seq([chars : Seq(STRING), puny : BOOLEAN])]
NoTail == [at |-> FALSE, text |-> NoHost]
Urls == {url \in [scheme : {"http", "https", "", "javascript", "mailto", "relative"}, host : Hosts,
                  user : BOOLEAN, port : {"none", "standard", "odd"}, tail : Tails] :
            url.scheme = "relative" => url.host = NoHost}
NoUrl == [scheme |-> "relative", host |-> NoHost, user |-> FALSE, port |-> "none", tail |-> NoTail]

Labels == [names : Hosts, says : SUBSET Word]
BodyItems == [tag : {"text", "anchor", "tag"}, url : Urls, label : Labels]
AttachedFiles == [name : Nat, bidi : BOOLEAN, suffixes : Seq(STRING), declared : STRING,
                  says : SUBSET Word]
Parts == [kind : {"multipart", "plain", "html"}, items : Seq(BodyItems)]
         \cup [kind : {"attachment"}, file : AttachedFiles]
Senders == [name : [aliases : SUBSET Alias, address : Hosts], local : SUBSET Alias, domain : Hosts]
Emails == [from : BOOLEAN, received : Nat, sender : Senders, reply_to : Hosts, return_path : Hosts,
           auth : [present : BOOLEAN, pairs : Seq([method : STRING, result : STRING])],
           subject : SUBSET Word, parts : Seq(Parts)]

NoSender == [name |-> [aliases |-> {}, address |-> NoHost], local |-> {}, domain |-> NoHost]

NoLabel == [names |-> NoHost, says |-> {}]

(* A stretch of a body: plain text, an anchor with its label or another tag*)
(* with an address.  Its URL is the one it shows, or goes to.              *)
Item(tag, url, label) == [tag |-> tag, url |-> url, label |-> label]

(* The elements of a sequence in some of its positions, in their order.    *)
At(s, positions) ==
    [n \in 1 .. Cardinality(positions) |->
        s[CHOOSE i \in positions : Cardinality({j \in positions : j < i}) = n - 1]]

(* Those elements of a sequence that pass a test.                          *)
Those(s, Test(_)) == At(s, {i \in DOMAIN s : Test(s[i])})

-----------------------------------------------------------------------------
(* _parse_auth_results: the first result of a method counts.               *)
AuthResult(pairs, method) ==
    LET i == SelectInSeq(pairs, LAMBDA pair : pair.method = method)
    IN  IF i = 0 THEN "none" ELSE pairs[i].result

AuthResults(header) ==
    [spf |-> AuthResult(header.pairs, "spf"), dkim |-> AuthResult(header.pairs, "dkim"),
     dmarc |-> AuthResult(header.pairs, "dmarc"), present |-> header.present]

(* _link_of: a relative address is no link; an opaque one has no host.     *)
LinkOf(url, label) == [url |-> url, scheme |-> url.scheme, host |-> url.host, label |-> label]

(* The items of all parts of a kind, in the order of the parts.            *)
Items(parts, kind) ==
    FlattenSeq([i \in DOMAIN parts |-> IF parts[i].kind = kind THEN parts[i].items ELSE <<>>])

Anchors(items) == Those(items, LAMBDA item : item.tag = "anchor")
Tags(items) == Those(items, LAMBDA item : item.tag # "text")

(* Only a URL with a scheme and an authority is recognised in running text.*)
Shown(items) ==
    Those(items, LAMBDA item : item.tag = "text" /\ item.url.scheme # "" /\ item.url.host # NoHost)

(* The links of items, of which only anchors keep what they are labelled.  *)
LinksOf(items, labelled) ==
    LET kept == Those(items, LAMBDA item : item.url.scheme # "relative")
    IN  [i \in DOMAIN kept |-> LinkOf(kept[i].url, IF labelled THEN kept[i].label ELSE NoLabel)]

(* The first link to each URL.                                             *)
Distinct(links) ==
    At(links, {i \in DOMAIN links : \A k \in 1 .. i - 1 : links[k].url # links[i].url})

(* Mutant: the links are collected in one pass, every tag for itself.      *)
ExtractTagsFirst(html, text) ==
    Distinct(LinksOf(Tags(html), FALSE) \o LinksOf(Anchors(html), TRUE)
             \o LinksOf(Shown(text) \o Shown(html), FALSE))

(* _extract_links: anchors first so that their labels are kept, then every *)
(* address in a tag, then the URLs shown outside of anchors.               *)
ExtractLinks(html, text) ==
    Distinct(LinksOf(Anchors(html), TRUE) \o LinksOf(Tags(html), FALSE)
             \o LinksOf(Shown(text) \o Shown(html), FALSE))

Says(items) == UNION {items[i].label.says : i \in DOMAIN items}

(* The prose: the plain parts, or the HTML rendered down if they are blank.*)
Prose(plain, html) == IF plain # <<>> THEN plain ELSE html

Files(parts) ==
    LET attached == Those(parts, LAMBDA part : part.kind = "attachment")
    IN  [i \in DOMAIN attached |-> attached[i].file]

(* parse_email_mime raises: no author and no delivery path, or a bound is  *)
(* exceeded.                                                               *)
Unparsable(mail) ==
    LET html == Items(mail.parts, "html")
        plain == Items(mail.parts, "plain")
    IN  \/ ~mail.from /\ mail.received = 0
        \/ Len(mail.parts) > MaxParts
        \/ Len(Files(mail.parts)) > MaxAttachments
        \/ Len(Prose(plain, html)) > MaxBody
        \/ mail.received > MaxReceived
        \/ Len(ExtractLinks(html, plain)) > MaxLinks

ParseEmailMime(mail) ==
    LET html == Items(mail.parts, "html")
        plain == Items(mail.parts, "plain")
    IN  [format |-> "email_mime", subject |-> mail.subject, sender |-> mail.sender,
         reply_to |-> mail.reply_to, return_path |-> mail.return_path,
         auth |-> AuthResults(mail.auth), body |-> Says(Prose(plain, html)),
         links |-> ExtractLinks(html, plain), attachments |-> Files(mail.parts)]

-----------------------------------------------------------------------------
(* validate_submitted_url.                                                 *)
IsAcceptedUrl(url) ==
    /\ url.scheme \in {"http", "https"} /\ ~url.user
    /\ url.host # NoHost /\ url.host \notin LocalHosts

(* A tail reads as the end of the host's last label.                       *)
Glued(host, text) ==
    IF text = NoHost THEN host
    ELSE Front(host) \o <<[Last(host) EXCEPT !.chars = @ \o Head(text).chars]>> \o Tail(text)

(* url_as_message splits at the first slash and the last "@" before it, and*)
(* takes a port off, and a tail with it; a tail without a port stays.      *)
SplitHost(url) ==
    IF url.tail.at THEN url.tail.text
    ELSE IF url.port = "none" THEN Glued(url.host, url.tail.text)
    ELSE url.host

UrlAsMessage(url) ==
    [format |-> "url", subject |-> {}, sender |-> NoSender, reply_to |-> NoHost,
     return_path |-> NoHost, auth |-> AuthResults([pairs |-> <<>>, present |-> FALSE]),
     body |-> {}, attachments |-> <<>>,
     links |-> <<[LinkOf(url, NoLabel) EXCEPT !.host = SplitHost(url)]>>]
=============================================================================
