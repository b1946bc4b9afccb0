------------------------------ MODULE ScanScope ------------------------------
(* The operators' part of the scan allowlist: the scan_scope table of the
   backend and its endpoints (endpoints/scope.py, contracts/scope.py).

   One request is handled by one session: it loads the rows it is about and
   commits later, and other requests commit in between.  The ORM writes the
   columns a request changed, so `active' is written only when it differs from
   what was loaded.  Who attests an entry, labels and notes are left out. *)
EXTENDS TargetPolicy

CONSTANTS Request,       \* requests of operators
          Network,       \* the networks that can be rows
          Submitted,     \* the networks operators submit, besides names
          MaxScope,      \* MAX_SCOPE_ADDRESSES
          MaxResolved,   \* _MAX_RESOLVED_ADDRESSES
          Answers,       \* what the resolver may say of each name
          StoredScope    \* the tables the backend may start with

VARIABLES rows,      \* network -> "absent", "active" or "revoked"
          requests,  \* the operators' requests in progress
          dns        \* what the resolver answers at the moment

scopeVars == <<rows, requests, dns>>

RowState == {"absent", "active", "revoked"}
Fresh == [phase |-> "new", loaded |-> <<>>, todo |-> <<>>, readded |-> {}]
Adding(networks) ==
  [phase |-> "adding", loaded |-> <<>>, todo |-> networks, readded |-> {}]
Revoking(network, row) ==
  [phase |-> "revoking", loaded |-> <<row>>, todo |-> <<network>>, readded |-> {}]
Done == [phase |-> "done", loaded |-> <<>>, todo |-> <<>>, readded |-> {}]

\* The host network (/32, /128) of an address.
HostNetwork(address) == {address}

\* normalize_scope_target: bounded, and clear of the forbidden networks.
NormalizeScopeTarget(network) ==
  /\ network # {}
  /\ Cardinality(network) <= MaxScope
  /\ network \cap Forbidden = {}

\* _networks_for: what is stored for the candidates of one submission, or <<>>
\* when it is refused (422).  A name is refused when one of its addresses is.
NetworksFor(candidates) ==
  IF /\ Len(candidates) <= MaxResolved
     /\ \A i \in DOMAIN candidates : NormalizeScopeTarget(candidates[i])
    THEN candidates ELSE <<>>

\* What passes is a network of the model, and so is every row there was before.
ASSUME ScopeAssumption ==
  /\ Network \subseteq SUBSET Address
  /\ Answers \subseteq [Resolvable -> Seq(Address)]
  /\ StoredScope \subseteq [Network -> RowState]
  /\ \A table \in StoredScope, network \in Network :
       table[network] # "absent" => NormalizeScopeTarget(network)
  /\ \A network \in Submitted : NormalizeScopeTarget(network) => network \in Network
  /\ \A answers \in Answers, name \in Name : \A i \in DOMAIN answers[name] :
       NormalizeScopeTarget(HostNetwork(answers[name][i]))
         => HostNetwork(answers[name][i]) \in Network

HostNetworks(answer) == [i \in DOMAIN answer |-> HostNetwork(answer[i])]

\* GET /scan-scope/networks.
ActiveNetworks == {network \in Network : rows[network] = "active"}

----------------------------------------------------------------------------
ScopeInit ==
  /\ rows \in StoredScope
  /\ requests = [q \in Request |-> Fresh]
  /\ dns \in Answers

\* POST /scan-scope: the target is resolved and checked before any row is read.
AddResolve(q, candidates) ==
  /\ requests[q].phase = "new"
  /\ LET networks == NetworksFor(candidates)
     IN  requests' = [requests EXCEPT ![q] =
           IF networks = <<>> THEN Done ELSE Adding(networks)]
  /\ UNCHANGED <<rows, dns>>

\* The rows are looked up one after the other.
AddLoad(q) ==
  /\ requests[q].phase = "adding"
  /\ Len(requests[q].loaded) < Len(requests[q].todo)
  /\ requests' = [requests EXCEPT ![q].loaded =
                    Append(@, rows[requests[q].todo[Len(@) + 1]])]
  /\ UNCHANGED <<rows, dns>>

\* What the commit of an add leaves of a row: it is inserted or reinstated, and
\* not written when it was loaded as active.
Reinstated(loaded, row) == IF loaded = "active" THEN row ELSE "active"

Position(q, network) == CHOOSE i \in DOMAIN requests[q].todo : requests[q].todo[i] = network

\* History: a revocation in progress notes the adds that are committed meanwhile.
Readding(networks) ==
  [r \in Request |-> IF requests[r].phase = "revoking"
                       THEN [requests[r] EXCEPT !.readded = @ \cup networks]
                       ELSE requests[r]]

\* Everything the request asks for is committed at once.  A row another request
\* inserted meanwhile breaks the unique constraint, and the request fails whole.
AddCommit(q) ==
  /\ requests[q].phase = "adding"
  /\ Len(requests[q].loaded) = Len(requests[q].todo)
  /\ LET networks == Elements(requests[q].todo)
         loaded(n) == requests[q].loaded[Position(q, n)]
         conflict == \E n \in networks : loaded(n) = "absent" /\ rows[n] # "absent"
     IN  IF conflict
           THEN /\ requests' = [requests EXCEPT ![q] = Done]
                /\ UNCHANGED rows
           ELSE /\ rows' = [n \in Network |-> IF n \in networks
                                                THEN Reinstated(loaded(n), rows[n])
                                                ELSE rows[n]]
                /\ requests' = [Readding(networks) EXCEPT ![q] = Done]
  /\ UNCHANGED dns

\* DELETE /scan-scope/{id}: an entry that does not exist is a 404.
RevokeLoad(q, network) ==
  /\ requests[q].phase = "new"
  /\ rows[network] # "absent"
  /\ requests' = [requests EXCEPT ![q] = Revoking(network, rows[network])]
  /\ UNCHANGED <<rows, dns>>

\* Mutant: the change is never committed.
WithdrawnUnwritten(loaded, row) == row

\* The row is kept, and written only when it was loaded as active.
Withdrawn(loaded, row) == IF loaded = "active" THEN "revoked" ELSE row

RevokeCommit(q) ==
  /\ requests[q].phase = "revoking"
  /\ LET network == requests[q].todo[1]
     IN  rows' = [rows EXCEPT ![network] = Withdrawn(requests[q].loaded[1], @)]
  /\ requests' = [requests EXCEPT ![q] = Done]
  /\ UNCHANGED dns

\* Whoever controls a name changes what it resolves to.
DnsChanges ==
  /\ dns' \in Answers \ {dns}
  /\ UNCHANGED <<rows, requests>>

ScopeNext ==
  \/ \E q \in Request :
       \/ \E network \in Submitted : AddResolve(q, <<network>>)
       \/ \E name \in Name : AddResolve(q, HostNetworks(dns[name]))
       \/ AddLoad(q)
       \/ AddCommit(q)
       \/ \E network \in Network : RevokeLoad(q, network)
       \/ RevokeCommit(q)
  \/ DnsChanges

Handling == [phase : {"new", "adding", "revoking", "done"}, loaded : Seq(RowState),
             todo : Seq(Network), readded : SUBSET Network]

ScopeTypeOK ==
  /\ rows \in [Network -> RowState]
  /\ dns \in Answers
  /\ requests \in [Request -> Handling]
  /\ \A q \in Request : Len(requests[q].loaded) <= Len(requests[q].todo)

=============================================================================
