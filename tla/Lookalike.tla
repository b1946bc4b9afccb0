------------------------------ MODULE Lookalike ------------------------------
(***************************************************************************)
(* Deciding whether a host imitates the domain of a known brand            *)
(* (agents/phishing/lookalike.py).                                         *)
(*                                                                         *)
(* A host is a sequence of labels and a label the characters it reads as   *)
(* once decoded: `puny' says that it was submitted encoded.  A host that   *)
(* is an IP address is a single label that only `Addresses' tells apart.   *)
(***************************************************************************)
EXTENDS Integers, Sequences, SequencesExt, FiniteSetsExt

CONSTANTS Host,           \* the hosts a submission may name
          Looks,          \* confusable character -> the letter it looks like
          Script,         \* letter -> the script it belongs to
          PublicSuffixes, \* the public suffixes of two labels
          Addresses,      \* the hosts that are IP literals
          BrandDomains,   \* the domains of all brands, sorted
          MaxDistance,    \* MAX_LOOKALIKE_DISTANCE
          MinComparable   \* MIN_COMPARABLE_LENGTH

NoHost == <<>>
Label(s) == [chars |-> s, puny |-> FALSE]

ASSUME LookalikeAssumption ==
    /\ MaxDistance \in Nat \ {0} /\ MinComparable \in Nat
    /\ \A c \in DOMAIN Looks : Looks[c] \in STRING \ DOMAIN Looks
    /\ \A host \in Host : host \in Seq([chars : Seq(STRING), puny : BOOLEAN]) \ {NoHost}
    /\ BrandDomains \in Seq(Host)

(* decode_punycode and fold_confusables, of a label and of a host.         *)
Fold(s) == [i \in DOMAIN s |-> IF s[i] \in DOMAIN Looks THEN Looks[s[i]] ELSE s[i]]
Decoded(host) == [i \in DOMAIN host |-> Label(host[i].chars)]
Folded(host) == [i \in DOMAIN host |-> Label(Fold(host[i].chars))]

HasPunycode(host) == \E i \in DOMAIN host : host[i].puny

(* is_mixed_script: of the letters of one label, decoded.                  *)
IsMixedScript(host) ==
    \E i \in DOMAIN host :
        LET letters == Range(host[i].chars) \cap DOMAIN Script
        IN  Cardinality({Script[c] : c \in letters}) > 1

LastLabels(host, n) == SubSeq(host, Len(host) - n + 1, Len(host))

(* registrable_domain: an address is its own.                              *)
RegistrableDomain(host) ==
    IF host \in Addresses \/ Len(host) <= 2 THEN host
    ELSE IF LastLabels(host, 2) \in PublicSuffixes THEN LastLabels(host, 3)
    ELSE LastLabels(host, 2)

(* The host as one string, its labels separated by dots.                   *)
Text(host) ==
    LET upTo[n \in 0 .. Len(host)] ==
            IF n <= 1 THEN IF n = 0 THEN <<>> ELSE host[1].chars
            ELSE upTo[n - 1] \o <<".">> \o host[n].chars
    IN  upTo[Len(host)]

(* damerau_levenshtein, one cell per pair of prefixes: insertion, deletion,*)
(* substitution and the transposition of two neighbours.                   *)
Costs(left, right, table, i, j) ==
    LET cost == IF left[i] = right[j] THEN 0 ELSE 1
        swapped == i > 1 /\ j > 1 /\ left[i] = right[j - 1] /\ left[i - 1] = right[j]
    IN  {table[<<i - 1, j>>] + 1, table[<<i, j - 1>>] + 1, table[<<i - 1, j - 1>>] + cost}
        \cup IF swapped THEN {table[<<i - 2, j - 2>>] + cost} ELSE {}

Distance(left, right) ==
    LET table[at \in (0 .. Len(left)) \X (0 .. Len(right))] ==
            IF at[1] = 0 \/ at[2] = 0 THEN at[1] + at[2]
            ELSE Min(Costs(left, right, table, at[1], at[2]))
    IN  table[<<Len(left), Len(right)>>]

(* Every brand is listed by the domain it registered (_reject_subdomains), *)
(* not encoded, and none of them is short (data/brands.json).              *)
ASSUME BrandAssumption ==
    \A domain \in Range(BrandDomains) :
        /\ RegistrableDomain(domain) = domain /\ ~HasPunycode(domain)
        /\ Len(Text(Folded(domain))) > MinComparable

NotOne == "none"

(* Mutant: one edit more.                                                  *)
IsCloseLoose(apart) == 0 < apart /\ apart <= MaxDistance + 1

IsClose(apart) == 0 < apart /\ apart <= MaxDistance

(* is_lookalike: the tricks in the order they are tried, of the candidate  *)
(* domain and of the host it is taken from.                                *)
IsLookalike(host, legitimate) ==
    LET candidate == RegistrableDomain(Decoded(host))
        target == RegistrableDomain(legitimate)
        reads == Text(Folded(candidate))
        wanted == Text(Folded(target))
        apart == Distance(reads, wanted)
        brand == Head(target).chars
    IN  IF candidate = NoHost \/ candidate = target THEN NotOne
        ELSE IF reads = wanted THEN "homoglyph"
        ELSE IF HasPunycode(host) /\ apart <= MaxDistance THEN "punycode"
        ELSE IF /\ Len(brand) >= MinComparable
                /\ Contains(Folded(host), Label(brand))
                /\ Head(Folded(candidate)) # Label(brand)
             THEN "brand-in-subdomain"
        ELSE IF /\ Len(wanted) >= MinComparable /\ Len(reads) >= MinComparable
                /\ IsClose(apart)
             THEN "typosquat"
        ELSE NotOne

Silent == [brand |-> NoHost, technique |-> NotOne]

(* find_lookalike: the first brand domain the host imitates.               *)
FindLookalike(host) ==
    LET i == SelectInSeq(BrandDomains, LAMBDA domain : IsLookalike(host, domain) # NotOne)
    IN  IF i = 0 THEN Silent
        ELSE [brand |-> BrandDomains[i], technique |-> IsLookalike(host, BrandDomains[i])]

Imitation ==
    [host \in Host \cup {NoHost} |-> IF host = NoHost THEN Silent ELSE FindLookalike(host)]

-----------------------------------------------------------------------------
(* The reference: one edit of a text over an alphabet, and the texts that  *)
(* some such edits lead to.                                                *)
Edits(text, alphabet) ==
    {RemoveAt(text, i) : i \in DOMAIN text}
    \cup {[text EXCEPT ![i] = c] : i \in DOMAIN text, c \in alphabet}
    \cup {InsertAt(text, i, c) : i \in 1 .. Len(text) + 1, c \in alphabet}
    \cup {[text EXCEPT ![i] = text[i + 1], ![i + 1] = text[i]] : i \in 1 .. Len(text) - 1}

WithinEdits(text, n, alphabet) ==
    LET within[k \in 0 .. n] ==
            IF k = 0 THEN {text}
            ELSE LET fewer == within[k - 1] IN fewer \cup UNION {Edits(t, alphabet) : t \in fewer}
    IN  within[n]
=============================================================================
