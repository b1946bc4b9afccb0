---------------------------- MODULE TargetPolicy ----------------------------
(* What may be scanned and what may be fetched: the two opposite policies of
   tools/targets.py in the MCP server, as operators.

   An address is a value, a network the set of its addresses (`address in
   network' and `subnet_of' are membership and inclusion; networks of the two
   versions are disjoint).  A host is what normalize_target leaves of the text
   a caller supplied: an address, a name, a local name (localhost, *.local,
   *.internal ...) or NoHost when nothing is left.  What a name resolves to
   is an answer: a sequence of addresses in the resolver's order, empty when the
   look-up fails. *)
EXTENDS Naturals, Sequences, FiniteSets

CONSTANTS Address,     \* the addresses of the model
          IPv6,        \* those that are not IPv4
          Name,        \* host names that have to be resolved
          LocalName,   \* names that mean this machine or network
          NoHost,      \* no host was supplied, or none can be read
          Forbidden,   \* link-local, multicast and 0.0.0.0/8
          Inward,      \* private, loopback, link-local, reserved ...
          MaxSweep     \* MAX_SWEEP_ADDRESSES

ASSUME PolicyAssumption ==
  /\ IPv6 \subseteq Address
  /\ Forbidden \subseteq Inward
  /\ Inward \subseteq Address
  /\ Name \cap Address = {}
  /\ LocalName \cap (Address \cup Name) = {}
  /\ NoHost \notin Address \cup Name \cup LocalName
  /\ MaxSweep \in Nat

Host == Address \cup Name \cup LocalName \cup {NoHost}
Resolvable == Name \cup LocalName
Elements(answer) == {answer[i] : i \in DOMAIN answer}

----------------------------------------------------------------------------
(* Scanning: only what the allowlist covers. *)

InScope(address, allowed) == \E network \in allowed : address \in network

\* IPv4 first: what a scanner reaches by default.
IsFirstV4(answer, i) ==
  /\ answer[i] \notin IPv6
  /\ \A j \in 1 .. i - 1 : answer[j] \in IPv6

PreferredAddress(answer) ==
  IF \E i \in DOMAIN answer : IsFirstV4(answer, i)
    THEN answer[CHOOSE i \in DOMAIN answer : IsFirstV4(answer, i)]
    ELSE answer[1]

Decision(allowed, target) == [allowed |-> allowed, target |-> target]

\* Mutant: the scanner is given the name and resolves it again.
DecideUnpinned(host, answer, allowed) ==
  Decision(/\ answer # <<>>
           /\ \A address \in Elements(answer) : InScope(address, allowed), host)

\* Every address of the answer has to be in scope; an answer that is empty or
\* cannot be read refuses.
DecideHostname(host, answer, allowed) ==
  IF /\ answer # <<>>
     /\ \A address \in Elements(answer) : InScope(address, allowed)
    THEN Decision(TRUE, PreferredAddress(answer))
    ELSE Decision(FALSE, host)

CheckTarget(host, answer, allowed, resolve) ==
  IF host = NoHost THEN Decision(FALSE, host)
  ELSE IF host \in LocalName THEN Decision(TRUE, host)
  ELSE IF host \in Address THEN Decision(InScope(host, allowed), host)
  ELSE IF resolve THEN DecideHostname(host, answer, allowed)
  ELSE Decision(FALSE, host)

\* Mutant: the allowlist alone decides.
CheckRangeAllowlistOnly(network, allowed) ==
  /\ network # {}
  /\ Cardinality(network) <= MaxSweep
  /\ \E entry \in allowed : network \subseteq entry

\* A range is swept only as a whole, inside one entry, and never when it meets
\* a forbidden network, whatever the allowlist says.  The empty set is a text that is
\* not a range.
CheckRange(network, allowed) ==
  /\ network # {}
  /\ network \cap Forbidden = {}
  /\ Cardinality(network) <= MaxSweep
  /\ \E entry \in allowed : network \subseteq entry

----------------------------------------------------------------------------
(* Fetching: only what is public. *)

\* Why the address must not be fetched is left out.
IsForbiddenForFetch(address) == address \in Inward

CheckFetchTarget(host, answer) ==
  /\ host \in Address \cup Name
  /\ answer # <<>>
  /\ \A address \in Elements(answer) : ~IsForbiddenForFetch(address)

=============================================================================
