------------------------------ MODULE ScanTools ------------------------------
(* The tools of the MCP server that reach other hosts (server.py,
   tools/scope.py, tools/scanning.py, tools/fetch.py), composed with the table
   of scan scope they read and with a resolver that changes its answers.

   A call of nmap_service_scan, nmap_host_discovery or nmap_sweep_scan reads
   the scope, vets what it was given against the deployment's own networks and
   those of the operators, and only then starts nmap; each await is a step.
   fetch_url follows redirects by hand and vets every hop.  What nmap or a page
   answers is chosen freely. *)
EXTENDS ScanScope

CONSTANTS Call,            \* calls of tools
          Asks,            \* the requests made of the tools
          Static,          \* SCAN_ALLOWED_TARGETS
          ScanResolves,    \* scan_resolve_hostnames
          FetchEnabled,    \* phishing_fetch_enabled
          Locations,       \* where pages redirect to
          MaxHops,         \* MAX_HOPS
          MaxAsks          \* bound of the model on the requests per call

VARIABLES calls,     \* the request a call is working on
          allowed,   \* what _allowed_networks last returned to it
          asked,     \* how many requests it has had
          entitled   \* history: the addresses that were in scope since it began

toolVars == <<calls, allowed, asked, entitled>>
vars == <<scopeVars, toolVars>>

Ports == {"default", "given", "malformed"}
Tools == {"service", "discovery", "sweep", "fetch"}

ASSUME ToolAssumption ==
  /\ Asks \subseteq [tool : Tools, hosts : Seq(Host), range : SUBSET Address, ports : Ports]
  /\ \A request \in Asks :
       request.tool \in {"service", "fetch"} => Len(request.hosts) = 1
  /\ Static \subseteq SUBSET Address
  /\ Locations \subseteq Host
  /\ ScanResolves \in BOOLEAN /\ FetchEnabled \in BOOLEAN
  /\ MaxHops \in Nat /\ MaxAsks \in Nat

Idle == [phase |-> "idle", tool |-> "none", hosts |-> <<>>, range |-> {},
         ports |-> "default", given |-> {}, refused |-> {}, reached |-> {},
         chain |-> <<>>]

Asked(request) ==
  [phase |-> "asked", tool |-> request.tool, hosts |-> request.hosts,
   range |-> request.range, ports |-> request.ports, given |-> {}, refused |-> {},
   reached |-> {}, chain |-> <<>>]

Covered(networks) == UNION networks
InScopeNow(table) == Covered(Static) \cup Covered({n \in Network : table[n] = "active"})

----------------------------------------------------------------------------
Init ==
  /\ ScopeInit
  /\ calls = [c \in Call |-> Idle]
  /\ allowed = [c \in Call |-> {}]
  /\ asked = [c \in Call |-> 0]
  /\ entitled = [c \in Call |-> {}]

Go(c, phase) == calls' = [calls EXCEPT ![c].phase = phase]
\* What the caller is told, beyond which hosts a sweep refused, is left out.
Answered(c) == calls' = [calls EXCEPT ![c] = Idle]

\* A client calls a tool.
Ask(c, request) ==
  /\ calls[c].phase = "idle"
  /\ asked[c] < MaxAsks
  /\ calls' = [calls EXCEPT ![c] = Asked(request)]
  /\ asked' = [asked EXCEPT ![c] = @ + 1]
  /\ UNCHANGED allowed

----------------------------------------------------------------------------
(* Scanning. *)

\* fetch_scope_networks: the rows, or nothing when the backend cannot be read.
FetchedScope == {ActiveNetworks, {}}

\* Mutant: a list that was read once is used again.
AllowedCached(c, fetched) == IF allowed[c] # {} THEN allowed[c] ELSE Static \cup fetched

\* The two lists are joined, and read again for every call.
AllowedNetworks(c, fetched) == Static \cup fetched

\* A sweep is refused before the scope is read when its list is unusable.
UsableHosts(c) ==
  calls[c].tool = "sweep" => /\ calls[c].hosts # <<>>
                             /\ Len(calls[c].hosts) <= MaxSweep

ReadScope(c) ==
  /\ calls[c].phase = "asked"
  /\ calls[c].tool \in {"service", "discovery", "sweep"}
  /\ UsableHosts(c)
  /\ \E fetched \in FetchedScope :
       allowed' = [allowed EXCEPT ![c] = AllowedNetworks(c, fetched)]
  /\ Go(c, "scoped")
  /\ UNCHANGED asked

RefuseUnusable(c) ==
  /\ calls[c].phase = "asked"
  /\ ~UsableHosts(c)
  /\ Answered(c)
  /\ UNCHANGED <<allowed, asked>>

\* _clean_port_spec: a specification that is given has to be clean.
PortsUsable(c) == calls[c].ports # "malformed"

AnswerFor(host) == IF host \in Resolvable THEN dns[host] ELSE <<host>>

\* check_target of a service scan: a name is resolved here.
VetService(c) ==
  /\ calls[c].phase = "scoped"
  /\ calls[c].tool = "service"
  /\ LET host == calls[c].hosts[1]
         decision == CheckTarget(host, AnswerFor(host), allowed[c], ScanResolves)
     IN  IF decision.allowed /\ PortsUsable(c)
           THEN calls' = [calls EXCEPT ![c].phase = "vetted", ![c].given = {decision.target}]
           ELSE Answered(c)
  /\ UNCHANGED <<allowed, asked>>

\* check_range of a ping sweep: nmap is given the network.
VetRange(c) ==
  /\ calls[c].phase = "scoped"
  /\ calls[c].tool = "discovery"
  /\ IF CheckRange(calls[c].range, allowed[c])
       THEN calls' = [calls EXCEPT ![c].phase = "vetted", ![c].given = calls[c].range]
       ELSE Answered(c)
  /\ UNCHANGED <<allowed, asked>>

\* Every host of a sweep is vetted again, and names are not resolved.
Vetted(c) == {host \in Elements(calls[c].hosts) :
                CheckTarget(host, <<>>, allowed[c], FALSE).allowed}
\* What was not vetted is reported, not dropped.
RefusedHosts(c) == Elements(calls[c].hosts) \ Vetted(c)

VetSweep(c) ==
  /\ calls[c].phase = "scoped"
  /\ calls[c].tool = "sweep"
  /\ IF Vetted(c) # {} /\ PortsUsable(c)
       THEN calls' = [calls EXCEPT ![c].phase = "vetted", ![c].given = Vetted(c),
                        ![c].refused = RefusedHosts(c)]
       ELSE Answered(c)
  /\ UNCHANGED <<allowed, asked>>

\* nmap resolves what it is given as a name.
Reaches(target) == IF target \in Resolvable THEN Elements(dns[target]) ELSE {target}

StartScanner(c) ==
  /\ calls[c].phase = "vetted"
  /\ calls' = [calls EXCEPT ![c].phase = "scanning",
                            ![c].reached = UNION {Reaches(t) : t \in calls[c].given}]
  /\ UNCHANGED <<allowed, asked>>

\* run_command: an exit code and output, a missing binary or a timeout.
ScannerEnds(c) ==
  /\ calls[c].phase = "scanning"
  /\ Answered(c)
  /\ UNCHANGED <<allowed, asked>>

----------------------------------------------------------------------------
(* Fetching.  `hosts' is the URL to request next, `chain' what each
   hop so far resolved to when it was vetted. *)

Fetching(c) == calls[c].tool = "fetch" /\ calls[c].phase = "asked"

FetchRefused(c) ==
  /\ Fetching(c)
  /\ \/ ~FetchEnabled
     \/ ~CheckFetchTarget(calls[c].hosts[1], AnswerFor(calls[c].hosts[1]))
  /\ Answered(c)
  /\ UNCHANGED <<allowed, asked>>

\* Mutant: only the URL of the message is vetted, not what it redirects to.
CheckFirstHop(c) ==
  /\ Fetching(c)
  /\ FetchEnabled
  /\ \/ calls[c].chain # <<>> /\ calls[c].hosts[1] # NoHost
     \/ CheckFetchTarget(calls[c].hosts[1], AnswerFor(calls[c].hosts[1]))
  /\ calls' = [calls EXCEPT ![c].phase = "requesting",
                            ![c].chain = Append(@, Elements(AnswerFor(calls[c].hosts[1])))]
  /\ UNCHANGED <<allowed, asked>>

\* The next URL is vetted before it is requested.
CheckHop(c) ==
  /\ Fetching(c)
  /\ FetchEnabled
  /\ CheckFetchTarget(calls[c].hosts[1], AnswerFor(calls[c].hosts[1]))
  /\ calls' = [calls EXCEPT ![c].phase = "requesting",
                            ![c].chain = Append(@, Elements(AnswerFor(calls[c].hosts[1])))]
  /\ UNCHANGED <<allowed, asked>>

\* A redirect names the next URL; after MaxHops of them the fetch is given up.
Redirected(c) ==
  /\ calls[c].phase = "requesting"
  /\ IF Len(calls[c].chain) > MaxHops
       THEN Answered(c)
       ELSE \E host \in Locations : calls' = [calls EXCEPT ![c].phase = "asked",
                                                      ![c].hosts = <<host>>]
  /\ UNCHANGED <<allowed, asked>>

\* A page, read up to a limit, or a transport failure.
PageRead(c) ==
  /\ calls[c].phase = "requesting"
  /\ Answered(c)
  /\ UNCHANGED <<allowed, asked>>

----------------------------------------------------------------------------
ToolStep(c) ==
  \/ \E request \in Asks : Ask(c, request)
  \/ ReadScope(c) \/ RefuseUnusable(c)
  \/ VetService(c) \/ VetRange(c) \/ VetSweep(c)
  \/ StartScanner(c) \/ ScannerEnds(c)
  \/ FetchRefused(c) \/ CheckHop(c) \/ Redirected(c) \/ PageRead(c)

ToolNext == \E c \in Call : ToolStep(c)

\* An address counts as in scope for a call when it was at any time since the
\* call was asked.
Watch ==
  entitled' = [c \in Call |->
    IF asked'[c] # asked[c] THEN InScopeNow(rows)
    ELSE IF calls'[c].phase = "idle" THEN {}
    ELSE entitled[c] \cup InScopeNow(rows')]

Next ==
  /\ \/ ScopeNext /\ UNCHANGED <<calls, allowed, asked>>
     \/ ToolNext /\ UNCHANGED scopeVars
  /\ Watch

Spec == Init /\ [][Next]_vars

----------------------------------------------------------------------------
\* What nmap is given is an address or a local name, never a name of its own to
\* look up: that is what pins a scan to the answer that was vetted.
Working == [phase : {"idle", "asked", "scoped", "vetted", "scanning", "requesting"},
            tool : Tools \cup {"none"}, hosts : Seq(Host), range : SUBSET Address,
            ports : Ports, given : SUBSET (Address \cup LocalName), refused : SUBSET Host,
            reached : SUBSET Address, chain : Seq(SUBSET Address)]

TypeOK ==
  /\ ScopeTypeOK
  /\ calls \in [Call -> Working]
  /\ asked \in [Call -> 0 .. MaxAsks]
  /\ allowed \in [Call -> SUBSET (Static \cup Network)]
  /\ entitled \in [Call -> SUBSET Address]

\* Nobody's host is scanned without an authorisation: every address nmap
\* reaches was in the deployment's networks or in an active entry at some
\* moment between the call and the scan, whatever is revoked, re-added or
\* resolved anew meanwhile.  "Who authorised this scan" can be answered too: the
\* entry is still there, be it revoked by now.  Local names are the exception
\* the policy makes.
NothingUnauthorisedIsReached ==
  \A c \in Call : calls[c].phase = "scanning" /\ calls[c].given \cap LocalName = {} =>
    /\ calls[c].reached \subseteq entitled[c]
    /\ \A address \in calls[c].reached \ Covered(Static) :
         \E network \in Network : address \in network /\ rows[network] # "absent"

\* The instance-metadata range stays out of reach of grants and sweeps even
\* though the deployment's default networks include it: no entry ever covers a
\* forbidden address or more than MaxScope of them, and no ping sweep touches one.
ForbiddenStaysOut ==
  /\ \A network \in Network : rows[network] # "absent" =>
       network \cap Forbidden = {} /\ Cardinality(network) <= MaxScope
  /\ \A c \in Call : calls[c].phase = "scanning" /\ calls[c].tool = "discovery" =>
       calls[c].reached \cap Forbidden = {} /\ Cardinality(calls[c].reached) <= MaxSweep

\* A link out of a message never leads inward: every hop, the first and each
\* redirect, was resolved to public addresses only before it was requested,
\* and there are at most MaxHops redirects.
FetchesStayOutside ==
  \A c \in Call : calls[c].phase = "requesting" =>
    /\ Len(calls[c].chain) <= MaxHops + 1
    /\ \A i \in DOMAIN calls[c].chain :
         /\ calls[c].chain[i] # {}
         /\ calls[c].chain[i] \cap Inward = {}

\* A revocation that was answered holds: the entry is not active after it,
\* unless an add of the same network was committed while it was handled.
RevocationHolds ==
  [][\A q \in Request :
       requests[q].phase = "revoking" /\ requests'[q].phase = "done" =>
         \/ rows'[requests[q].todo[1]] # "active"
         \/ requests[q].todo[1] \in requests[q].readded]_vars

=============================================================================
