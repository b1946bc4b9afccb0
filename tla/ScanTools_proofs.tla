-------------------------- MODULE ScanTools_proofs --------------------------
(* Proofs about the scan policy: the types, who may be scanned, what a
   revocation means and where a fetch may lead, for every deployment, table of
   scope, resolver and number of operators and calls. *)
EXTENDS ScanTools, TLAPS

----------------------------------------------------------------------------
(* The operators of the policy. *)

\* An answer that is not empty has a preferred address, which is one of it.
LEMMA PreferredIsInAnswer ==
  ASSUME NEW answer \in Seq(Address), answer # <<>>
  PROVE  PreferredAddress(answer) \in Elements(answer)
<1>1. 1 \in DOMAIN answer
  OBVIOUS
<1> QED
  BY <1>1 DEF PreferredAddress, Elements

\* What a name is vetted to is one of the addresses it resolved to, all in scope.
LEMMA HostnameDecision ==
  ASSUME NEW host, NEW allow, NEW answer \in Seq(Address),
         DecideHostname(host, answer, allow).allowed
  PROVE  /\ DecideHostname(host, answer, allow).target \in Elements(answer)
         /\ InScope(DecideHostname(host, answer, allow).target, allow)
<1>1. CASE /\ answer # <<>>
           /\ \A address \in Elements(answer) : InScope(address, allow)
  <2>1. DecideHostname(host, answer, allow).target = PreferredAddress(answer)
    BY <1>1 DEF DecideHostname, Decision
  <2> QED
    BY <1>1, <2>1, PreferredIsInAnswer
<1>2. CASE ~(/\ answer # <<>>
             /\ \A address \in Elements(answer) : InScope(address, allow))
  BY <1>2 DEF DecideHostname, Decision
<1> QED
  BY <1>1, <1>2

\* A target that is vetted is a local name, or an address in scope.
LEMMA TargetDecision ==
  ASSUME NEW host \in Host, NEW allow, NEW answer \in Seq(Address), NEW resolve \in BOOLEAN,
         CheckTarget(host, answer, allow, resolve).allowed
  PROVE  LET target == CheckTarget(host, answer, allow, resolve).target
         IN  \/ target \in LocalName
             \/ target \in Address /\ InScope(target, allow)
<1> USE PolicyAssumption
<1>1. CASE host = NoHost
  BY <1>1 DEF CheckTarget, Decision
<1>2. CASE host \in LocalName
  <2>1. CheckTarget(host, answer, allow, resolve) = Decision(TRUE, host)
    BY <1>2 DEF CheckTarget
  <2> QED
    BY <1>2, <2>1 DEF Decision
<1>3. CASE host \in Address
  <2>1. CheckTarget(host, answer, allow, resolve) = Decision(InScope(host, allow), host)
    BY <1>3 DEF CheckTarget
  <2> QED
    BY <1>3, <2>1 DEF Decision
<1>4. CASE host \in Name
  <2>1. CheckTarget(host, answer, allow, resolve)
          = IF resolve THEN DecideHostname(host, answer, allow) ELSE Decision(FALSE, host)
    BY <1>4 DEF CheckTarget
  <2>2. Elements(answer) \subseteq Address
    BY DEF Elements
  <2> QED
    BY <2>1, <2>2, HostnameDecision DEF Decision
<1> QED
  BY <1>1, <1>2, <1>3, <1>4 DEF Host

----------------------------------------------------------------------------
(* Types. *)

LEMMA InitType == Init => TypeOK
<1> SUFFICES ASSUME Init PROVE TypeOK
  OBVIOUS
<1> USE DEF Init, ScopeInit
<1>1. ScopeTypeOK
  <2>1. Fresh \in Handling
    BY DEF Fresh, Handling
  <2> QED
    BY <2>1, ScopeAssumption DEF ScopeTypeOK, Fresh
<1>2. Idle \in Working
  BY DEF Idle, Working, Ports
<1> QED
  BY <1>1, <1>2, ToolAssumption DEF TypeOK

\* The networks a submission asks for can be rows.
LEMMA CandidatesAreNetworks ==
  ASSUME ScopeTypeOK, NEW candidates \in Seq(SUBSET Address),
         \A i \in DOMAIN candidates :
            NormalizeScopeTarget(candidates[i]) => candidates[i] \in Network
  PROVE  NetworksFor(candidates) \in Seq(Network)
<1>1. CASE \A i \in DOMAIN candidates : NormalizeScopeTarget(candidates[i])
  <2>1. candidates \in Seq(Network)
    BY <1>1
  <2> QED
    BY <2>1 DEF NetworksFor
<1>2. CASE ~ \A i \in DOMAIN candidates : NormalizeScopeTarget(candidates[i])
  BY <1>2 DEF NetworksFor
<1> QED
  BY <1>1, <1>2

LEMMA AddResolveType ==
  ASSUME TypeOK, NEW q \in Request, NEW candidates,
         AddResolve(q, candidates), NetworksFor(candidates) \in Seq(Network)
  PROVE  ScopeTypeOK'
<1>1. /\ Done \in Handling
      /\ Len(Done.loaded) <= Len(Done.todo)
  BY DEF Done, Handling
<1>2. /\ Adding(NetworksFor(candidates)) \in Handling
      /\ Len(Adding(NetworksFor(candidates)).loaded)
           <= Len(Adding(NetworksFor(candidates)).todo)
  BY DEF Adding, Handling
<1>3. PICK next \in {Done, Adding(NetworksFor(candidates))} :
         requests' = [requests EXCEPT ![q] = next]
  BY DEF AddResolve
<1> QED
  BY <1>1, <1>2, <1>3 DEF TypeOK, ScopeTypeOK, AddResolve

LEMMA SubmissionsAreTyped ==
  ASSUME TypeOK, NEW q \in Request,
         \/ \E network \in Submitted : AddResolve(q, <<network>>)
         \/ \E name \in Name : AddResolve(q, HostNetworks(dns[name]))
  PROVE  ScopeTypeOK'
<1>1. ASSUME NEW network \in Submitted, AddResolve(q, <<network>>)
      PROVE  ScopeTypeOK'
  <2>1. NetworksFor(<<network>>) \in Seq(Network)
    BY ScopeAssumption DEF NetworksFor
  <2> QED
    BY <1>1, <2>1, AddResolveType
<1>2. ASSUME NEW name \in Name, AddResolve(q, HostNetworks(dns[name]))
      PROVE  ScopeTypeOK'
  <2>1. dns[name] \in Seq(Address)
    BY ScopeAssumption DEF TypeOK, ScopeTypeOK, Resolvable
  <2>2. HostNetworks(dns[name]) \in Seq(SUBSET Address)
    BY <2>1 DEF HostNetworks, HostNetwork
  <2>3. \A i \in DOMAIN HostNetworks(dns[name]) :
          NormalizeScopeTarget(HostNetworks(dns[name])[i])
            => HostNetworks(dns[name])[i] \in Network
    BY <2>1, ScopeAssumption DEF HostNetworks, TypeOK, ScopeTypeOK
  <2>4. NetworksFor(HostNetworks(dns[name])) \in Seq(Network)
    BY <2>2, <2>3, CandidatesAreNetworks DEF TypeOK
  <2> QED
    BY <1>2, <2>4, AddResolveType
<1> QED
  BY <1>1, <1>2

LEMMA ScopeType ==
  ASSUME TypeOK, ScopeNext
  PROVE  ScopeTypeOK'
<1> USE DEF TypeOK, ScopeTypeOK
<1>0. Done \in Handling /\ Len(Done.loaded) <= Len(Done.todo)
  BY DEF Done, Handling
<1>1. ASSUME NEW q \in Request, AddLoad(q)
      PROVE  ScopeTypeOK'
  <2> DEFINE more == Append(requests[q].loaded,
                            rows[requests[q].todo[Len(requests[q].loaded) + 1]])
             next == [requests[q] EXCEPT !.loaded = more]
  <2>1. requests[q] \in Handling /\ Len(requests[q].loaded) < Len(requests[q].todo)
    BY <1>1 DEF AddLoad
  <2>2. more \in Seq(RowState) /\ Len(more) <= Len(requests[q].todo)
    BY <1>1, <2>1 DEF AddLoad, Handling
  <2>3. requests' = [requests EXCEPT ![q] = next]
    BY <1>1 DEF AddLoad
  <2> HIDE DEF more
  <2>4. next \in Handling /\ Len(next.loaded) <= Len(next.todo)
    BY <2>1, <2>2 DEF Handling
  <2> HIDE DEF next
  <2> QED
    BY <1>1, <2>3, <2>4 DEF AddLoad
<1>2. ASSUME NEW q \in Request, AddCommit(q)
      PROVE  ScopeTypeOK'
  <2>1. Elements(requests[q].todo) \subseteq Network
    BY DEF Elements, Handling
  <2>2. rows' \in [Network -> RowState]
    BY <1>2 DEF AddCommit, Reinstated, RowState
  <2>3. Readding(Elements(requests[q].todo)) \in [Request -> Handling]
    BY <2>1 DEF Readding, Handling
  <2>4. \A r \in Request :
          LET after == Readding(Elements(requests[q].todo))[r]
          IN  Len(after.loaded) <= Len(after.todo)
    BY DEF Readding, Handling
  <2>5. CASE requests' = [requests EXCEPT ![q] = Done]
    BY <1>2, <2>2, <2>5, <1>0 DEF AddCommit
  <2>6. CASE requests' = [Readding(Elements(requests[q].todo)) EXCEPT ![q] = Done]
    BY <1>2, <2>2, <2>3, <2>4, <2>6, <1>0 DEF AddCommit
  <2> QED
    BY <1>2, <2>5, <2>6 DEF AddCommit
<1>3. ASSUME NEW q \in Request, NEW network \in Network, RevokeLoad(q, network)
      PROVE  ScopeTypeOK'
  BY <1>3 DEF RevokeLoad, Revoking, Handling
<1>4. ASSUME NEW q \in Request, RevokeCommit(q)
      PROVE  ScopeTypeOK'
  BY <1>4, <1>0 DEF RevokeCommit, Withdrawn, RowState, Handling
<1>5. CASE DnsChanges
  BY <1>5 DEF DnsChanges
<1> QED
  BY <1>1, <1>2, <1>3, <1>4, <1>5, SubmissionsAreTyped, ScopeNext DEF ScopeNext

\* An answer of the resolver, or the address itself, is a sequence of addresses.
LEMMA AnswersAreAddresses ==
  ASSUME TypeOK, NEW host \in Address \cup Name \cup LocalName
  PROVE  AnswerFor(host) \in Seq(Address)
<1>1. CASE host \in Resolvable
  BY <1>1, ScopeAssumption DEF AnswerFor, TypeOK, ScopeTypeOK
<1>2. CASE host \notin Resolvable
  BY <1>2 DEF AnswerFor, Resolvable
<1> QED
  BY <1>1, <1>2

\* A call replaced by a well-formed one leaves all well-formed.
LEMMA CallReplaced ==
  ASSUME TypeOK, NEW c \in Call, NEW next \in Working,
         calls' = [calls EXCEPT ![c] = next]
  PROVE  calls' \in [Call -> Working]
BY DEF TypeOK

LEMMA PhaseChanged ==
  ASSUME TypeOK, NEW c \in Call,
         NEW phase \in {"idle", "asked", "scoped", "vetted", "scanning", "requesting"},
         Go(c, phase)
  PROVE  calls' \in [Call -> Working]
<1> DEFINE next == [calls[c] EXCEPT !.phase = phase]
<1>1. next \in Working
  BY DEF TypeOK, Working
<1>2. calls' = [calls EXCEPT ![c] = next]
  BY DEF Go
<1> HIDE DEF next
<1> QED
  BY <1>1, <1>2, CallReplaced

LEMMA CallAnswered ==
  ASSUME TypeOK, NEW c \in Call, Answered(c)
  PROVE  calls' \in [Call -> Working]
<1>1. Idle \in Working
  BY DEF Idle, Working, Ports
<1> QED
  BY <1>1, CallReplaced DEF Answered

\* What a call is given to scan.
LEMMA CallVetted ==
  ASSUME TypeOK, NEW c \in Call, NEW given \in SUBSET (Address \cup LocalName),
         calls' = [calls EXCEPT ![c].phase = "vetted", ![c].given = given]
  PROVE  calls' \in [Call -> Working]
<1> DEFINE next == [calls[c] EXCEPT !.phase = "vetted", !.given = given]
<1>1. next \in Working
  BY DEF TypeOK, Working
<1>2. calls' = [calls EXCEPT ![c] = next]
  OBVIOUS
<1> HIDE DEF next
<1> QED
  BY <1>1, <1>2, CallReplaced

\* A tool that takes one host has one.
HasHost(call) == call.tool \in {"service", "fetch"} => Len(call.hosts) = 1

LEMMA ServiceType ==
  ASSUME TypeOK, NEW c \in Call, HasHost(calls[c]), VetService(c)
  PROVE  calls' \in [Call -> Working]
<1> DEFINE host == calls[c].hosts[1]
           decision == CheckTarget(host, AnswerFor(host), allowed[c], ScanResolves)
<1>1. CASE decision.allowed
  <2>1. host \in Host
    BY DEF VetService, HasHost, TypeOK, Working
  <2>2. host # NoHost
    BY <1>1 DEF CheckTarget, Decision
  <2>3. AnswerFor(host) \in Seq(Address)
    BY <2>1, <2>2, AnswersAreAddresses DEF Host
  <2>4. decision.target \in Address \cup LocalName
    BY <1>1, <2>1, <2>3, ToolAssumption, TargetDecision
  <2>5. \/ calls' = [calls EXCEPT ![c].phase = "vetted", ![c].given = {decision.target}]
        \/ Answered(c)
    BY <1>1 DEF VetService
  <2> HIDE DEF decision
  <2> QED
    BY <2>4, <2>5, CallVetted, CallAnswered
<1>2. CASE ~decision.allowed
  BY <1>2, CallAnswered DEF VetService
<1> QED
  BY <1>1, <1>2

LEMMA RangeType ==
  ASSUME TypeOK, NEW c \in Call, VetRange(c)
  PROVE  calls' \in [Call -> Working]
<1>1. calls[c].range \in SUBSET (Address \cup LocalName)
  BY DEF TypeOK, Working
<1>2. \/ calls' = [calls EXCEPT ![c].phase = "vetted", ![c].given = calls[c].range]
      \/ Answered(c)
  BY DEF VetRange
<1> QED
  BY <1>1, <1>2, CallVetted, CallAnswered

\* The hosts of a sweep that are vetted are addresses in scope or local names.
LEMMA VettedHosts ==
  ASSUME TypeOK, NEW c \in Call
  PROVE  \A host \in Vetted(c) :
            \/ host \in LocalName
            \/ host \in Address /\ InScope(host, allowed[c])
<1> SUFFICES ASSUME NEW host \in Vetted(c)
             PROVE  \/ host \in LocalName
                    \/ host \in Address /\ InScope(host, allowed[c])
  OBVIOUS
<1>1. host \in Host
  BY DEF Vetted, Elements, TypeOK, Working
<1>2. CheckTarget(host, <<>>, allowed[c], FALSE).allowed
  BY DEF Vetted
<1> QED
  BY <1>1, <1>2, PolicyAssumption DEF CheckTarget, Decision, Host

LEMMA SweepType ==
  ASSUME TypeOK, NEW c \in Call, VetSweep(c)
  PROVE  calls' \in [Call -> Working]
<1> DEFINE next == [calls[c] EXCEPT !.phase = "vetted", !.given = Vetted(c),
                                    !.refused = RefusedHosts(c)]
<1>1. Vetted(c) \in SUBSET (Address \cup LocalName)
  BY VettedHosts
<1>2. RefusedHosts(c) \in SUBSET Host
  BY DEF RefusedHosts, Elements, TypeOK, Working
<1>3. next \in Working
  BY <1>1, <1>2 DEF TypeOK, Working
<1>4. calls' = [calls EXCEPT ![c] = next] \/ Answered(c)
  BY DEF VetSweep
<1> HIDE DEF next
<1> QED
  BY <1>3, <1>4, CallReplaced, CallAnswered

LEMMA StartType ==
  ASSUME TypeOK, NEW c \in Call, StartScanner(c)
  PROVE  calls' \in [Call -> Working]
<1> DEFINE reached == UNION {Reaches(t) : t \in calls[c].given}
           next == [calls[c] EXCEPT !.phase = "scanning", !.reached = reached]
<1>1. \A target \in Address \cup LocalName : Reaches(target) \subseteq Address
  BY ScopeAssumption DEF Reaches, Elements, Resolvable, TypeOK, ScopeTypeOK
<1>2. reached \in SUBSET Address
  BY <1>1 DEF TypeOK, Working
<1>3. calls' = [calls EXCEPT ![c] = next]
  BY DEF StartScanner
<1> HIDE DEF reached
<1>4. next \in Working
  BY <1>2 DEF TypeOK, Working
<1> HIDE DEF next
<1> QED
  BY <1>3, <1>4, CallReplaced

LEMMA HopType ==
  ASSUME TypeOK, NEW c \in Call, HasHost(calls[c]), CheckHop(c)
  PROVE  calls' \in [Call -> Working]
<1> DEFINE host == calls[c].hosts[1]
           chain == Append(calls[c].chain, Elements(AnswerFor(host)))
           next == [calls[c] EXCEPT !.phase = "requesting", !.chain = chain]
<1>1. AnswerFor(host) \in Seq(Address)
  BY AnswersAreAddresses DEF CheckHop, CheckFetchTarget
<1>2. Elements(AnswerFor(host)) \in SUBSET Address
  BY <1>1 DEF Elements
<1>3. chain \in Seq(SUBSET Address)
  BY <1>2 DEF TypeOK, Working
<1>4. calls' = [calls EXCEPT ![c] = next]
  BY DEF CheckHop
<1> HIDE DEF chain
<1>5. next \in Working
  BY <1>3 DEF TypeOK, Working
<1> HIDE DEF next
<1> QED
  BY <1>4, <1>5, CallReplaced

LEMMA RedirectType ==
  ASSUME TypeOK, NEW c \in Call, Redirected(c)
  PROVE  calls' \in [Call -> Working]
<1>1. CASE Answered(c)
  BY <1>1, CallAnswered
<1>2. CASE \E host \in Locations :
             calls' = [calls EXCEPT ![c].phase = "asked", ![c].hosts = <<host>>]
  <2>1. PICK host \in Locations :
          calls' = [calls EXCEPT ![c].phase = "asked", ![c].hosts = <<host>>]
    BY <1>2
  <2> DEFINE hosts == <<host>>
             next == [calls[c] EXCEPT !.phase = "asked", !.hosts = hosts]
  <2>2. hosts \in Seq(Host)
    BY ToolAssumption
  <2>3. calls' = [calls EXCEPT ![c] = next]
    BY <2>1
  <2> HIDE DEF hosts
  <2>4. next \in Working
    BY <2>2 DEF TypeOK, Working
  <2> HIDE DEF next
  <2> QED
    BY <2>3, <2>4, CallReplaced
<1> QED
  BY <1>1, <1>2 DEF Redirected

LEMMA AskType ==
  ASSUME TypeOK, NEW c \in Call, NEW request \in Asks, Ask(c, request)
  PROVE  calls' \in [Call -> Working]
<1>1. Asked(request) \in Working
  BY ToolAssumption DEF Asked, Working
<1> QED
  BY <1>1, CallReplaced DEF Ask

----------------------------------------------------------------------------
(* Who may be scanned.  The invariant follows an authorisation from the scope
   that was read, through what is given to nmap, to what nmap reaches. *)

\* The address is the deployment's own or some entry's, active or not.
Backed(table, address) ==
  \/ address \in Covered(Static)
  \/ \E network \in Network : address \in network /\ table[network] # "absent"

ScopeIsBacked(c) ==
  calls[c].phase = "scoped" =>
    \A network \in allowed[c] :
      /\ network \subseteq entitled[c]
      /\ \/ network \in Static
         \/ network \in Network /\ rows[network] # "absent"

GivenIsBacked(c) ==
  calls[c].phase \in {"vetted", "scanning"} =>
    \A target \in calls[c].given \ LocalName :
      target \in entitled[c] /\ Backed(rows, target)

ReachedIsGiven(c) ==
  calls[c].phase = "scanning" /\ calls[c].given \cap LocalName = {} =>
    calls[c].reached = calls[c].given

ToolSound(c) ==
  HasHost(calls[c]) /\ ScopeIsBacked(c) /\ GivenIsBacked(c) /\ ReachedIsGiven(c)

\* A row is never deleted.
LEMMA RowsStay ==
  ASSUME TypeOK, ScopeNext
  PROVE  \A network \in Network : rows[network] # "absent" => rows'[network] # "absent"
<1>1. ASSUME NEW q \in Request, AddCommit(q)
      PROVE  \A network \in Network : rows[network] # "absent" => rows'[network] # "absent"
  BY <1>1 DEF AddCommit, Reinstated
<1>2. ASSUME NEW q \in Request, RevokeCommit(q)
      PROVE  \A network \in Network : rows[network] # "absent" => rows'[network] # "absent"
  BY <1>2 DEF RevokeCommit, Withdrawn, TypeOK, ScopeTypeOK
<1>3. CASE UNCHANGED rows
  BY <1>3
<1> QED
  BY <1>1, <1>2, <1>3 DEF ScopeNext, AddResolve, AddLoad, RevokeLoad, DnsChanges

\* What a call may reach grows until it is answered.
LEMMA EntitledGrows ==
  ASSUME NEW c \in Call, Watch, asked'[c] = asked[c], calls'[c].phase # "idle"
  PROVE  entitled'[c] = entitled[c] \cup InScopeNow(rows')
BY DEF Watch

\* A step of somebody else takes nothing away from a call.
LEMMA UntouchedCall ==
  ASSUME TypeOK, NEW c \in Call, ToolSound(c), Watch,
         calls'[c] = calls[c], allowed'[c] = allowed[c], asked'[c] = asked[c],
         \A network \in Network : rows[network] # "absent" => rows'[network] # "absent"
  PROVE  ToolSound(c)'
<1>1. HasHost(calls[c])' /\ ReachedIsGiven(c)'
  BY DEF ToolSound, HasHost, ReachedIsGiven
<1>2. ScopeIsBacked(c)'
  <2> SUFFICES ASSUME calls'[c].phase = "scoped", NEW network \in allowed'[c]
               PROVE  /\ network \subseteq entitled'[c]
                      /\ \/ network \in Static
                         \/ network \in Network /\ rows'[network] # "absent"
    BY DEF ScopeIsBacked
  <2>1. /\ network \subseteq entitled[c]
        /\ \/ network \in Static
           \/ network \in Network /\ rows[network] # "absent"
    BY DEF ToolSound, ScopeIsBacked
  <2> QED
    BY <2>1, EntitledGrows
<1>3. \A address : Backed(rows, address) => Backed(rows', address)
  BY DEF Backed
<1>4. GivenIsBacked(c)'
  BY <1>3, EntitledGrows DEF ToolSound, GivenIsBacked
<1> QED
  BY <1>1, <1>2, <1>4 DEF ToolSound

\* What is in the scope that was read is authorised.
LEMMA ScopedIsBacked ==
  ASSUME NEW c \in Call, ScopeIsBacked(c), calls[c].phase = "scoped",
         NEW address, InScope(address, allowed[c])
  PROVE  address \in entitled[c] /\ Backed(rows, address)
BY DEF ScopeIsBacked, InScope, Backed, Covered

\* A vetted call keeps what it was given to targets that are authorised.
LEMMA VettedIsBacked ==
  ASSUME TypeOK, NEW c \in Call, ScopeIsBacked(c), calls[c].phase = "scoped",
         HasHost(calls[c]), Watch, UNCHANGED scopeVars, asked'[c] = asked[c],
         NEW given, \A target \in given \ LocalName : InScope(target, allowed[c]),
         calls'[c].phase = "vetted", calls'[c].given = given,
         calls'[c].tool = calls[c].tool, calls'[c].hosts = calls[c].hosts
  PROVE  ToolSound(c)'
<1>1. \A target \in given \ LocalName : target \in entitled[c] /\ Backed(rows, target)
  BY ScopedIsBacked
<1>2. \A target \in given \ LocalName : target \in entitled'[c] /\ Backed(rows', target)
  BY <1>1, EntitledGrows DEF scopeVars
<1>3. HasHost(calls'[c])
  BY DEF HasHost
<1> QED
  BY <1>2, <1>3 DEF ToolSound, HasHost, ScopeIsBacked, GivenIsBacked, ReachedIsGiven

LEMMA ServiceSound ==
  ASSUME TypeOK, NEW c \in Call, ToolSound(c), VetService(c), UNCHANGED scopeVars, Watch,
         calls' \in [Call -> Working]
  PROVE  ToolSound(c)'
<1> DEFINE host == calls[c].hosts[1]
           decision == CheckTarget(host, AnswerFor(host), allowed[c], ScanResolves)
<1>1. CASE Answered(c)
  BY <1>1 DEF Answered, Idle, ToolSound, HasHost, ScopeIsBacked, GivenIsBacked, ReachedIsGiven, TypeOK
<1>2. CASE ~Answered(c)
  <2>1. decision.allowed
    BY <1>2 DEF VetService
  <2>2. host \in Host
    BY DEF VetService, ToolSound, HasHost, TypeOK, Working
  <2>3. host # NoHost
    BY <2>1 DEF CheckTarget, Decision
  <2>4. AnswerFor(host) \in Seq(Address)
    BY <2>2, <2>3, AnswersAreAddresses DEF Host
  <2>5. decision.target \in LocalName \/ InScope(decision.target, allowed[c])
    BY <2>1, <2>2, <2>4, ToolAssumption, TargetDecision
  <2> DEFINE given == {decision.target}
  <2>6. calls' = [calls EXCEPT ![c].phase = "vetted", ![c].given = given]
    BY <1>2 DEF VetService
  <2>7. \A target \in given \ LocalName : InScope(target, allowed[c])
    BY <2>5
  <2> HIDE DEF given
  <2>8. calls'[c].phase = "vetted" /\ calls'[c].given = given
    BY <2>6 DEF TypeOK, Working
  <2>9. calls'[c].tool = calls[c].tool /\ calls'[c].hosts = calls[c].hosts
    BY <2>6 DEF TypeOK, Working
  <2> QED
    BY <2>7, <2>8, <2>9, VettedIsBacked DEF ToolSound, VetService
<1> QED
  BY <1>1, <1>2

LEMMA VetRangeSound ==
  ASSUME TypeOK, NEW c \in Call, ToolSound(c), VetRange(c), UNCHANGED scopeVars, Watch
  PROVE  ToolSound(c)'
<1>1. CASE Answered(c)
  BY <1>1 DEF Answered, Idle, ToolSound, HasHost, ScopeIsBacked, GivenIsBacked, ReachedIsGiven, TypeOK
<1>2. CASE ~Answered(c)
  <2> DEFINE given == calls[c].range
  <2>1. calls' = [calls EXCEPT ![c].phase = "vetted", ![c].given = given]
    BY <1>2 DEF VetRange
  <2>2. \A target \in given \ LocalName : InScope(target, allowed[c])
    BY <1>2 DEF VetRange, CheckRange, InScope
  <2> HIDE DEF given
  <2>3. calls'[c].phase = "vetted" /\ calls'[c].given = given
    BY <2>1 DEF TypeOK, Working
  <2>4. calls'[c].tool = calls[c].tool /\ calls'[c].hosts = calls[c].hosts
    BY <2>1 DEF TypeOK, Working
  <2> QED
    BY <2>2, <2>3, <2>4, VettedIsBacked DEF ToolSound, VetRange
<1> QED
  BY <1>1, <1>2

LEMMA SweepSound ==
  ASSUME TypeOK, NEW c \in Call, ToolSound(c), VetSweep(c), UNCHANGED scopeVars, Watch
  PROVE  ToolSound(c)'
<1>1. CASE Answered(c)
  BY <1>1 DEF Answered, Idle, ToolSound, HasHost, ScopeIsBacked, GivenIsBacked, ReachedIsGiven, TypeOK
<1>2. CASE ~Answered(c)
  <2> DEFINE given == Vetted(c)
             refused == RefusedHosts(c)
  <2>1. calls' = [calls EXCEPT ![c].phase = "vetted", ![c].given = given,
                               ![c].refused = refused]
    BY <1>2 DEF VetSweep
  <2>2. \A target \in given \ LocalName : InScope(target, allowed[c])
    BY VettedHosts
  <2> HIDE DEF given, refused
  <2>3. calls'[c].phase = "vetted" /\ calls'[c].given = given
    BY <2>1 DEF TypeOK, Working
  <2>4. calls'[c].tool = calls[c].tool /\ calls'[c].hosts = calls[c].hosts
    BY <2>1 DEF TypeOK, Working
  <2> QED
    BY <2>2, <2>3, <2>4, VettedIsBacked DEF ToolSound, VetSweep
<1> QED
  BY <1>1, <1>2

\* An address is reached as it is: only names are looked up.
LEMMA StartSound ==
  ASSUME TypeOK, NEW c \in Call, ToolSound(c), StartScanner(c), UNCHANGED scopeVars, Watch
  PROVE  ToolSound(c)'
<1> DEFINE reached == UNION {Reaches(t) : t \in calls[c].given}
<1>1. calls' = [calls EXCEPT ![c].phase = "scanning", ![c].reached = reached]
  BY DEF StartScanner
<1>2. calls[c].given \cap LocalName = {} => reached = calls[c].given
  <2> SUFFICES ASSUME calls[c].given \cap LocalName = {}
               PROVE  reached = calls[c].given
    OBVIOUS
  <2>1. calls[c].given \subseteq Address
    BY DEF TypeOK, Working
  <2>2. \A t \in calls[c].given : Reaches(t) = {t}
    BY <2>1, PolicyAssumption DEF Reaches, Resolvable
  <2> QED
    BY <2>2
<1> HIDE DEF reached
<1>3. calls'[c].phase = "scanning" /\ calls'[c].reached = reached
  BY <1>1 DEF TypeOK, Working
<1>4. /\ calls'[c].given = calls[c].given
      /\ calls'[c].tool = calls[c].tool
      /\ calls'[c].hosts = calls[c].hosts
  BY <1>1 DEF TypeOK, Working
<1>5. ReachedIsGiven(c)' /\ ScopeIsBacked(c)' /\ HasHost(calls'[c])
  BY <1>2, <1>3, <1>4 DEF ReachedIsGiven, ScopeIsBacked, ToolSound, HasHost
<1>6. entitled[c] \subseteq entitled'[c]
  BY <1>3, EntitledGrows DEF StartScanner
<1>7. GivenIsBacked(c)'
  BY <1>3, <1>4, <1>6 DEF GivenIsBacked, ToolSound, StartScanner, scopeVars
<1> QED
  BY <1>5, <1>7 DEF ToolSound, HasHost

\* A call that neither scans nor is about to has nothing to be authorised.
LEMMA NothingGiven ==
  ASSUME NEW c \in Call, HasHost(calls'[c]),
         calls'[c].phase \in {"idle", "asked", "requesting"}
  PROVE  ToolSound(c)'
BY DEF ToolSound, HasHost, ScopeIsBacked, GivenIsBacked, ReachedIsGiven

LEMMA AnsweredSound ==
  ASSUME TypeOK, NEW c \in Call, Answered(c)
  PROVE  ToolSound(c)'
<1>1. calls'[c] = Idle
  BY DEF Answered, TypeOK
<1> QED
  BY <1>1, NothingGiven DEF Idle, HasHost

LEMMA AskSound ==
  ASSUME TypeOK, NEW c \in Call, NEW request \in Asks, Ask(c, request)
  PROVE  ToolSound(c)'
<1>1. calls'[c] = Asked(request)
  BY DEF Ask, TypeOK
<1> QED
  BY <1>1, NothingGiven, ToolAssumption DEF Asked, HasHost

\* Only networks that are authorised at the moment are read.
LEMMA ReadScopeSound ==
  ASSUME TypeOK, NEW c \in Call, ToolSound(c), ReadScope(c), UNCHANGED scopeVars, Watch
  PROVE  ToolSound(c)'
<1>1. /\ calls'[c].phase = "scoped"
      /\ calls'[c].tool = calls[c].tool
      /\ calls'[c].hosts = calls[c].hosts
  BY DEF ReadScope, Go, TypeOK, Working
<1>2. PICK fetched \in FetchedScope : allowed'[c] = Static \cup fetched
  BY DEF ReadScope, AllowedNetworks, TypeOK
<1>3. fetched \subseteq {network \in Network : rows[network] = "active"}
  BY DEF FetchedScope, ActiveNetworks
<1>4. entitled'[c] = entitled[c] \cup InScopeNow(rows)
  BY <1>1, EntitledGrows DEF ReadScope, scopeVars
<1>5. \A network \in allowed'[c] :
        /\ network \subseteq entitled'[c]
        /\ \/ network \in Static
           \/ network \in Network /\ rows'[network] # "absent"
  BY <1>2, <1>3, <1>4 DEF InScopeNow, Covered, scopeVars
<1> QED
  BY <1>1, <1>5 DEF ToolSound, HasHost, ScopeIsBacked, GivenIsBacked, ReachedIsGiven

LEMMA HopSound ==
  ASSUME TypeOK, NEW c \in Call, ToolSound(c), CheckHop(c)
  PROVE  ToolSound(c)'
<1> DEFINE chain == Append(calls[c].chain, Elements(AnswerFor(calls[c].hosts[1])))
<1>1. calls' = [calls EXCEPT ![c].phase = "requesting", ![c].chain = chain]
  BY DEF CheckHop
<1> HIDE DEF chain
<1>2. /\ calls'[c].phase = "requesting"
      /\ calls'[c].tool = calls[c].tool
      /\ calls'[c].hosts = calls[c].hosts
  BY <1>1 DEF TypeOK, Working
<1> QED
  BY <1>2, NothingGiven DEF ToolSound, HasHost

LEMMA RedirectSound ==
  ASSUME TypeOK, NEW c \in Call, Redirected(c)
  PROVE  ToolSound(c)'
<1>1. CASE Answered(c)
  BY <1>1, AnsweredSound
<1>2. ASSUME NEW host \in Locations,
             calls' = [calls EXCEPT ![c].phase = "asked", ![c].hosts = <<host>>]
      PROVE  ToolSound(c)'
  <2>1. calls'[c].phase = "asked" /\ calls'[c].hosts = <<host>>
    BY <1>2 DEF TypeOK, Working
  <2> QED
    BY <2>1, NothingGiven DEF HasHost
<1> QED
  BY <1>1, <1>2 DEF Redirected

----------------------------------------------------------------------------
Vetting == TypeOK /\ \A c \in Call : ToolSound(c)

LEMMA VettingInit == Init => Vetting
<1> SUFFICES ASSUME Init PROVE Vetting
  OBVIOUS
<1>1. \A c \in Call : ToolSound(c)
  BY DEF Init, Idle, ToolSound, HasHost, ScopeIsBacked, GivenIsBacked, ReachedIsGiven
<1> QED
  BY <1>1, InitType DEF Vetting

\* What the history variable holds are addresses.
LEMMA WatchType ==
  ASSUME TypeOK, ScopeTypeOK', Watch
  PROVE  entitled' \in [Call -> SUBSET Address]
<1>1. InScopeNow(rows) \subseteq Address /\ InScopeNow(rows') \subseteq Address
  BY ScopeAssumption, ToolAssumption DEF InScopeNow, Covered
<1> QED
  BY <1>1 DEF Watch, TypeOK

LEMMA StepType ==
  ASSUME TypeOK, NEW c \in Call, HasHost(calls[c]), ToolStep(c)
  PROVE  /\ calls' \in [Call -> Working]
         /\ allowed' \in [Call -> SUBSET (Static \cup Network)]
         /\ asked' \in [Call -> 0 .. MaxAsks]
<1>1. calls' \in [Call -> Working]
  <2>1. CASE ReadScope(c)
    BY <2>1, PhaseChanged DEF ReadScope
  <2>2. CASE RefuseUnusable(c) \/ ScannerEnds(c) \/ FetchRefused(c) \/ PageRead(c)
    BY <2>2, CallAnswered DEF RefuseUnusable, ScannerEnds, FetchRefused, PageRead
  <2> QED
    BY <2>1, <2>2, AskType, ServiceType, RangeType, SweepType, StartType, HopType,
       RedirectType DEF ToolStep
<1>2. allowed' \in [Call -> SUBSET (Static \cup Network)]
  <2>1. CASE ReadScope(c)
    BY <2>1 DEF ReadScope, AllowedNetworks, FetchedScope, ActiveNetworks, TypeOK
  <2>2. CASE UNCHANGED allowed
    BY <2>2 DEF TypeOK
  <2> QED
    BY <2>1, <2>2 DEF ToolStep, Ask, RefuseUnusable, VetService, VetRange, VetSweep,
       StartScanner, ScannerEnds, FetchRefused, CheckHop, Redirected, PageRead
<1>3. asked' \in [Call -> 0 .. MaxAsks]
  <2>1. ASSUME NEW request \in Asks, Ask(c, request)
        PROVE  asked' \in [Call -> 0 .. MaxAsks]
    BY <2>1, ToolAssumption DEF Ask, TypeOK
  <2>2. CASE UNCHANGED asked
    BY <2>2 DEF TypeOK
  <2> QED
    BY <2>1, <2>2 DEF ToolStep, ReadScope, RefuseUnusable, VetService, VetRange, VetSweep,
       StartScanner, ScannerEnds, FetchRefused, CheckHop, Redirected, PageRead
<1> QED
  BY <1>1, <1>2, <1>3

LEMMA StepSound ==
  ASSUME TypeOK, NEW c \in Call, ToolSound(c), ToolStep(c), UNCHANGED scopeVars, Watch,
         calls' \in [Call -> Working]
  PROVE  ToolSound(c)'
<1>1. CASE RefuseUnusable(c) \/ ScannerEnds(c) \/ FetchRefused(c) \/ PageRead(c)
  BY <1>1, AnsweredSound DEF RefuseUnusable, ScannerEnds, FetchRefused, PageRead
<1> QED
  BY <1>1, AskSound, ReadScopeSound, ServiceSound, VetRangeSound, SweepSound, StartSound,
     HopSound, RedirectSound DEF ToolStep

\* One call moves at a time.
LEMMA OtherCalls ==
  ASSUME TypeOK, NEW c \in Call, ToolStep(c), NEW d \in Call, d # c
  PROVE  calls'[d] = calls[d] /\ allowed'[d] = allowed[d] /\ asked'[d] = asked[d]
<1>1. calls'[d] = calls[d]
  BY DEF TypeOK, ToolStep, Ask, ReadScope, Go, Answered, RefuseUnusable, VetService,
     VetRange, VetSweep, StartScanner, ScannerEnds, FetchRefused, CheckHop, Redirected,
     PageRead
<1>2. allowed'[d] = allowed[d] /\ asked'[d] = asked[d]
  BY DEF TypeOK, ToolStep, Ask, ReadScope, RefuseUnusable, VetService,
     VetRange, VetSweep, StartScanner, ScannerEnds, FetchRefused, CheckHop, Redirected,
     PageRead
<1> QED
  BY <1>1, <1>2

LEMMA VettingStep == Vetting /\ [Next]_vars => Vetting'
<1> SUFFICES ASSUME Vetting, [Next]_vars PROVE Vetting'
  OBVIOUS
<1> USE DEF Vetting
<1>1. CASE ScopeNext /\ UNCHANGED <<calls, allowed, asked>> /\ Watch
  <2>1. ScopeTypeOK'
    BY <1>1, ScopeType
  <2>2. TypeOK'
    BY <1>1, <2>1, WatchType DEF TypeOK
  <2>3. \A c \in Call : ToolSound(c)'
    BY <1>1, RowsStay, UntouchedCall
  <2> QED
    BY <2>2, <2>3
<1>2. ASSUME NEW c \in Call, ToolStep(c), UNCHANGED scopeVars, Watch
      PROVE  Vetting'
  <2>1. ScopeTypeOK'
    BY <1>2 DEF TypeOK, ScopeTypeOK, scopeVars
  <2>2. /\ calls' \in [Call -> Working]
        /\ allowed' \in [Call -> SUBSET (Static \cup Network)]
        /\ asked' \in [Call -> 0 .. MaxAsks]
    BY <1>2, StepType DEF ToolSound
  <2>3. TypeOK'
    BY <1>2, <2>1, <2>2, WatchType DEF TypeOK
  <2>4. ToolSound(c)'
    BY <1>2, <2>2, StepSound
  <2>5. ASSUME NEW d \in Call, d # c PROVE ToolSound(d)'
    <3>1. calls'[d] = calls[d] /\ allowed'[d] = allowed[d] /\ asked'[d] = asked[d]
      BY <1>2, <2>5, OtherCalls
    <3> QED
      BY <1>2, <3>1, UntouchedCall DEF scopeVars
  <2> QED
    BY <2>3, <2>4, <2>5
<1>3. CASE UNCHANGED vars
  BY <1>3 DEF vars, scopeVars, toolVars, TypeOK, ScopeTypeOK, ToolSound, HasHost,
     ScopeIsBacked, GivenIsBacked, ReachedIsGiven, Backed
<1> QED
  BY <1>1, <1>2, <1>3 DEF Next, ToolNext

\* The types of the scan policy hold in every state, whatever the deployment,
\* the operators and the resolver do (server.py, tools/targets.py, scope.py).
THEOREM TypeCorrect == Spec => []TypeOK
<1>1. Vetting => TypeOK
  BY DEF Vetting
<1> QED
  BY <1>1, VettingInit, VettingStep, PTL DEF Spec

\* What nmap reaches was authorised at some moment since the call was made, by
\* an entry that is still on record (nmap_service_scan, nmap_host_discovery and
\* nmap_sweep_scan of server.py).
THEOREM OnlyAuthorisedIsScanned == Spec => []NothingUnauthorisedIsReached
<1>1. Vetting => NothingUnauthorisedIsReached
  BY DEF Vetting, ToolSound, GivenIsBacked, ReachedIsGiven, Backed,
     NothingUnauthorisedIsReached
<1> QED
  BY <1>1, VettingInit, VettingStep, PTL DEF Spec

----------------------------------------------------------------------------
(* What a revocation means.  A row that a revocation loaded as revoked may only be
   active again because an add was committed since. *)

RevokingWell(request, table) ==
  request.phase = "revoking" =>
    /\ Len(request.todo) = 1 /\ Len(request.loaded) = 1
    /\ request.loaded[1] # "absent"
    /\ /\ request.loaded[1] = "revoked"
       /\ table[request.todo[1]] = "active"
       => request.todo[1] \in request.readded

Revocations == \A q \in Request : RevokingWell(requests[q], rows)

LEMMA RevokeLoadWell ==
  ASSUME TypeOK, Revocations, NEW q \in Request, NEW network \in Network,
         RevokeLoad(q, network)
  PROVE  Revocations'
<1>1. RevokingWell(Revoking(network, rows[network]), rows)
  BY DEF Revoking, RevokingWell, RevokeLoad
<1>2. requests' = [requests EXCEPT ![q] = Revoking(network, rows[network])] /\ rows' = rows
  BY DEF RevokeLoad
<1> QED
  BY <1>1, <1>2 DEF Revocations, TypeOK, ScopeTypeOK

\* A commit of an add tells the revocations in progress what it reinstates.
LEMMA AddCommitWell ==
  ASSUME TypeOK, Revocations, NEW q \in Request, AddCommit(q)
  PROVE  Revocations'
<1> DEFINE networks == Elements(requests[q].todo)
<1> SUFFICES ASSUME NEW r \in Request PROVE RevokingWell(requests'[r], rows')
  BY DEF Revocations
<1>1. CASE r = q
  <2>1. requests'[q] = Done
    BY <1>1 DEF AddCommit, Readding, TypeOK, ScopeTypeOK
  <2> QED
    BY <1>1, <2>1 DEF Done, RevokingWell
<1>2. CASE r # q /\ requests[r].phase # "revoking"
  <2>1. requests'[r] = requests[r]
    BY <1>2 DEF AddCommit, Readding, TypeOK, ScopeTypeOK
  <2> QED
    BY <1>2, <2>1 DEF RevokingWell
<1>3. CASE r # q /\ requests[r].phase = "revoking" /\ rows' = rows /\ requests'[r] = requests[r]
  BY <1>3 DEF Revocations
<1>4. CASE /\ r # q /\ requests[r].phase = "revoking"
           /\ requests'[r] = [requests[r] EXCEPT !.readded = requests[r].readded \cup networks]
           /\ \A n \in Network \ networks : rows'[n] = rows[n]
  <2>1. /\ requests'[r].phase = requests[r].phase
        /\ requests'[r].todo = requests[r].todo
        /\ requests'[r].loaded = requests[r].loaded
        /\ requests'[r].readded = requests[r].readded \cup networks
    BY <1>4 DEF TypeOK, ScopeTypeOK, Handling
  <2>2. RevokingWell(requests[r], rows)
    BY DEF Revocations
  <2>3. requests[r].todo[1] \in Network
    BY <1>4, <2>2 DEF RevokingWell, TypeOK, ScopeTypeOK, Handling
  <2> QED
    BY <1>4, <2>1, <2>2, <2>3 DEF RevokingWell
<1>5. \/ rows' = rows /\ requests' = [requests EXCEPT ![q] = Done]
      \/ /\ requests' = [Readding(networks) EXCEPT ![q] = Done]
         /\ \A n \in Network \ networks : rows'[n] = rows[n]
  BY DEF AddCommit
<1>6. r # q /\ requests[r].phase = "revoking" =>
        \/ rows' = rows /\ requests'[r] = requests[r]
        \/ /\ requests'[r] = [requests[r] EXCEPT !.readded = requests[r].readded \cup networks]
           /\ \A n \in Network \ networks : rows'[n] = rows[n]
  BY <1>5 DEF Readding, TypeOK, ScopeTypeOK
<1> QED
  BY <1>1, <1>2, <1>3, <1>4, <1>6

LEMMA RevocationsStep == TypeOK /\ Revocations /\ [Next]_vars => Revocations'
<1> SUFFICES ASSUME TypeOK, Revocations, [Next]_vars PROVE Revocations'
  OBVIOUS
<1>1. ASSUME NEW q \in Request, NEW next, requests' = [requests EXCEPT ![q] = next],
             next.phase # "revoking", rows' = rows
      PROVE  Revocations'
  BY <1>1 DEF Revocations, RevokingWell, TypeOK, ScopeTypeOK
<1>2. ASSUME NEW q \in Request, NEW candidates, AddResolve(q, candidates)
      PROVE  Revocations'
  <2>1. Done.phase # "revoking" /\ Adding(NetworksFor(candidates)).phase # "revoking"
    BY DEF Done, Adding
  <2> QED
    BY <1>1, <1>2, <2>1 DEF AddResolve
<1>3. ASSUME NEW q \in Request, AddLoad(q)
      PROVE  Revocations'
  <2> DEFINE more == Append(requests[q].loaded,
                            rows[requests[q].todo[Len(requests[q].loaded) + 1]])
             next == [requests[q] EXCEPT !.loaded = more]
  <2>1. requests' = [requests EXCEPT ![q] = next] /\ rows' = rows
    BY <1>3 DEF AddLoad
  <2> HIDE DEF more
  <2>2. next.phase # "revoking"
    BY <1>3 DEF AddLoad, TypeOK, ScopeTypeOK, Handling
  <2> HIDE DEF next
  <2> QED
    BY <1>1, <2>1, <2>2
<1>4. ASSUME NEW q \in Request, RevokeCommit(q)
      PROVE  Revocations'
  <2>1. \A n \in Network : rows'[n] = rows[n] \/ rows'[n] = "revoked"
    BY <1>4 DEF RevokeCommit, Withdrawn, TypeOK, ScopeTypeOK
  <2> SUFFICES ASSUME NEW r \in Request PROVE RevokingWell(requests'[r], rows')
    BY DEF Revocations
  <2>2. CASE r = q
    BY <1>4, <2>2 DEF RevokeCommit, Done, RevokingWell, TypeOK, ScopeTypeOK
  <2>3. CASE r # q
    <3>1. requests'[r] = requests[r] /\ RevokingWell(requests[r], rows)
      BY <1>4, <2>3 DEF RevokeCommit, Revocations, TypeOK, ScopeTypeOK
    <3>2. requests[r].phase = "revoking" => requests[r].todo[1] \in Network
      BY <3>1 DEF RevokingWell, TypeOK, ScopeTypeOK, Handling
    <3> QED
      BY <2>1, <3>1, <3>2 DEF RevokingWell
  <2> QED
    BY <2>2, <2>3
<1>5. CASE UNCHANGED <<rows, requests>>
  BY <1>5 DEF Revocations, RevokingWell
<1> QED
  BY <1>2, <1>3, <1>4, <1>5, RevokeLoadWell, AddCommitWell
     DEF Next, ScopeNext, scopeVars, vars, DnsChanges

LEMMA RevocationsInit == Init => Revocations
BY DEF Init, ScopeInit, Fresh, Revocations, RevokingWell

\* The answer to a revocation (revoke_scope_entry of endpoints/scope.py) means
\* that the entry is not active, unless it was added again meanwhile, whatever
\* other requests do to the row in between.
THEOREM AnsweredRevocationsHold == Spec => RevocationHolds
<1>1. ASSUME TypeOK, Revocations, [Next]_vars
      PROVE  [\A q \in Request :
                requests[q].phase = "revoking" /\ requests'[q].phase = "done" =>
                  \/ rows'[requests[q].todo[1]] # "active"
                  \/ requests[q].todo[1] \in requests[q].readded]_vars
  <2> SUFFICES ASSUME NEW q \in Request,
                      requests[q].phase = "revoking", requests'[q].phase = "done"
               PROVE  \/ rows'[requests[q].todo[1]] # "active"
                      \/ requests[q].todo[1] \in requests[q].readded
    OBVIOUS
  <2>1. RevokingWell(requests[q], rows)
    BY <1>1 DEF Revocations
  <2>2. requests[q].todo[1] \in Network /\ requests[q].loaded[1] \in RowState
    BY <1>1, <2>1 DEF RevokingWell, TypeOK, ScopeTypeOK, Handling
  <2>3. RevokeCommit(q)
    <3>1. ASSUME NEW r \in Request, r # q,
                 \/ \E network \in Submitted : AddResolve(r, <<network>>)
                 \/ \E name \in Name : AddResolve(r, HostNetworks(dns[name]))
                 \/ AddLoad(r)
                 \/ \E network \in Network : RevokeLoad(r, network)
                 \/ RevokeCommit(r)
          PROVE  requests'[q] = requests[q]
      BY <1>1, <3>1 DEF AddResolve, AddLoad, RevokeLoad, RevokeCommit, TypeOK, ScopeTypeOK
    <3>2. ASSUME NEW r \in Request, r # q, AddCommit(r)
          PROVE  requests'[q].phase = requests[q].phase
      <4> DEFINE networks == Elements(requests[r].todo)
      <4>1. \/ requests'[q] = requests[q]
            \/ requests'[q] = [requests[q] EXCEPT !.readded = requests[q].readded \cup networks]
        BY <1>1, <3>2 DEF AddCommit, Readding, TypeOK, ScopeTypeOK
      <4> HIDE DEF networks
      <4> QED
        BY <1>1, <4>1 DEF TypeOK, ScopeTypeOK, Handling
    <3> QED
      BY <1>1, <3>1, <3>2 DEF Next, ScopeNext, AddResolve, AddLoad, AddCommit, RevokeLoad,
         DnsChanges, scopeVars, vars
  <2> QED
    BY <1>1, <2>1, <2>2, <2>3 DEF RevokeCommit, Withdrawn, RevokingWell, RowState, TypeOK, ScopeTypeOK
<1>2. Vetting => TypeOK
  BY DEF Vetting
<1> QED
  BY <1>1, <1>2, VettingInit, VettingStep, RevocationsInit, RevocationsStep, PTL
     DEF Spec, RevocationHolds

----------------------------------------------------------------------------
(* Where a fetch may lead. *)

OutsideOnly(chain) ==
  \A i \in DOMAIN chain : chain[i] # {} /\ chain[i] \cap Inward = {}

ChainSound(call) ==
  /\ call.phase \in {"asked", "requesting"} => OutsideOnly(call.chain)
  /\ call.phase = "asked" => Len(call.chain) <= MaxHops
  /\ call.phase = "requesting" => Len(call.chain) <= MaxHops + 1

Chains == \A c \in Call : ChainSound(calls[c])

\* A hop is added only when everything it resolves to is public.
LEMMA HopChain ==
  ASSUME Vetting, NEW c \in Call, ChainSound(calls[c]), CheckHop(c)
  PROVE  ChainSound(calls'[c])
<1> DEFINE host == calls[c].hosts[1]
           hop == Elements(AnswerFor(host))
           chain == Append(calls[c].chain, hop)
<1>1. AnswerFor(host) \in Seq(Address)
  BY AnswersAreAddresses DEF CheckHop, CheckFetchTarget, Vetting
<1>2. hop # {} /\ hop \cap Inward = {}
  <2>1. AnswerFor(host) # <<>> /\ \A address \in hop : address \notin Inward
    BY DEF CheckHop, CheckFetchTarget, IsForbiddenForFetch
  <2>2. 1 \in DOMAIN AnswerFor(host)
    BY <1>1, <2>1
  <2> QED
    BY <2>1, <2>2 DEF Elements
<1>3. calls[c].chain \in Seq(SUBSET Address)
  BY DEF Vetting, TypeOK, Working
<1>4. calls' = [calls EXCEPT ![c].phase = "requesting", ![c].chain = chain]
  BY DEF CheckHop
<1>5. calls[c].phase = "asked" /\ OutsideOnly(calls[c].chain)
  BY DEF CheckHop, Fetching, ChainSound
<1>6. Len(calls[c].chain) <= MaxHops
  BY <1>5 DEF ChainSound
<1> HIDE DEF hop
<1>7. OutsideOnly(chain) /\ Len(chain) <= MaxHops + 1
  BY <1>2, <1>3, <1>5, <1>6, ToolAssumption DEF OutsideOnly
<1> HIDE DEF chain
<1>8. calls'[c].phase = "requesting" /\ calls'[c].chain = chain
  BY <1>4 DEF Vetting, TypeOK, Working
<1> QED
  BY <1>7, <1>8 DEF ChainSound

LEMMA RedirectChain ==
  ASSUME Vetting, NEW c \in Call, ChainSound(calls[c]), Redirected(c)
  PROVE  ChainSound(calls'[c])
<1>1. CASE Answered(c)
  BY <1>1 DEF Answered, Idle, ChainSound, Vetting, TypeOK
<1>2. ASSUME NEW host \in Locations, Len(calls[c].chain) <= MaxHops,
             calls' = [calls EXCEPT ![c].phase = "asked", ![c].hosts = <<host>>]
      PROVE  ChainSound(calls'[c])
  <2> DEFINE hosts == <<host>>
  <2>1. calls' = [calls EXCEPT ![c].phase = "asked", ![c].hosts = hosts]
    BY <1>2
  <2> HIDE DEF hosts
  <2>2. calls'[c].phase = "asked" /\ calls'[c].chain = calls[c].chain
    BY <2>1 DEF Vetting, TypeOK, Working
  <2> QED
    BY <1>2, <2>2 DEF ChainSound, Redirected
<1>3. calls[c].chain \in Seq(SUBSET Address)
  BY DEF Vetting, TypeOK, Working
<1>4. Len(calls[c].chain) \in Nat
  BY <1>3
<1> QED
  BY <1>1, <1>2, <1>4, ToolAssumption DEF Redirected

LEMMA ChainsStep == Vetting /\ Chains /\ [Next]_vars => Chains'
<1> SUFFICES ASSUME Vetting, Chains, [Next]_vars PROVE Chains'
  OBVIOUS
<1>1. ASSUME NEW c \in Call, ToolStep(c)
      PROVE  Chains'
  <2>1. ASSUME NEW request \in Asks, calls'[c] = Asked(request)
        PROVE  ChainSound(calls'[c])
    BY <2>1, ToolAssumption DEF Asked, ChainSound, OutsideOnly
  <2>2. ASSUME calls'[c] = Idle
        PROVE  ChainSound(calls'[c])
    BY <2>2 DEF Idle, ChainSound
  <2>3. ASSUME calls'[c].phase \notin {"asked", "requesting"}
        PROVE  ChainSound(calls'[c])
    BY <2>3 DEF ChainSound
  <2>4. \/ \E request \in Asks : calls'[c] = Asked(request)
        \/ calls'[c] = Idle
        \/ calls'[c].phase \notin {"asked", "requesting"}
        \/ CheckHop(c) \/ Redirected(c)
    <3>1. ASSUME NEW request \in Asks, Ask(c, request)
          PROVE  calls'[c] = Asked(request)
      BY <3>1 DEF Ask, Vetting, TypeOK
    <3>2. CASE Answered(c)
      BY <3>2 DEF Answered, Vetting, TypeOK
    <3>3. CASE ReadScope(c)
      BY <3>3 DEF ReadScope, Go, Vetting, TypeOK, Working
    <3>4. CASE VetService(c) /\ ~Answered(c)
      <4> DEFINE given == {CheckTarget(calls[c].hosts[1], AnswerFor(calls[c].hosts[1]),
                                       allowed[c], ScanResolves).target}
      <4>1. calls' = [calls EXCEPT ![c].phase = "vetted", ![c].given = given]
        BY <3>4 DEF VetService
      <4> HIDE DEF given
      <4> QED
        BY <4>1 DEF Vetting, TypeOK, Working
    <3>5. CASE VetRange(c) /\ ~Answered(c)
      BY <3>5 DEF VetRange, Vetting, TypeOK, Working
    <3>6. CASE VetSweep(c) /\ ~Answered(c)
      <4>1. calls' = [calls EXCEPT ![c].phase = "vetted", ![c].given = Vetted(c),
                                   ![c].refused = RefusedHosts(c)]
        BY <3>6 DEF VetSweep
      <4> QED
        BY <4>1 DEF Vetting, TypeOK, Working
    <3>7. CASE StartScanner(c)
      <4> DEFINE reached == UNION {Reaches(t) : t \in calls[c].given}
      <4>1. calls' = [calls EXCEPT ![c].phase = "scanning", ![c].reached = reached]
        BY <3>7 DEF StartScanner
      <4> HIDE DEF reached
      <4> QED
        BY <4>1 DEF Vetting, TypeOK, Working
    <3> QED
      BY <1>1, <3>1, <3>2, <3>3, <3>4, <3>5, <3>6, <3>7
         DEF ToolStep, RefuseUnusable, ScannerEnds, FetchRefused, PageRead
  <2>5. ChainSound(calls'[c])
    BY <2>1, <2>2, <2>3, <2>4, HopChain, RedirectChain DEF Chains
  <2>6. \A d \in Call \ {c} : calls'[d] = calls[d]
    BY <1>1, OtherCalls DEF Vetting
  <2>7. ASSUME NEW d \in Call PROVE ChainSound(calls'[d])
    BY <2>5, <2>6 DEF Chains
  <2> QED
    BY <2>7 DEF Chains
<1>2. CASE UNCHANGED calls
  BY <1>2 DEF Chains, ChainSound, OutsideOnly
<1> QED
  BY <1>1, <1>2 DEF Next, ToolNext, vars, toolVars

LEMMA ChainsInit == Init => Chains
BY ToolAssumption DEF Init, Idle, Chains, ChainSound

\* Every hop of a fetch (check_fetch_target in fetch_url, tools/fetch.py) was
\* resolved to public addresses only, and there are at most MaxHops redirects.
THEOREM FetchesAreOutside == Spec => []FetchesStayOutside
<1>1. Chains => FetchesStayOutside
  BY DEF Chains, ChainSound, OutsideOnly, FetchesStayOutside
<1> QED
  BY <1>1, VettingInit, VettingStep, ChainsInit, ChainsStep, PTL DEF Spec

----------------------------------------------------------------------------
(* What no entry and no sweep may touch. *)

Bounded ==
  /\ \A network \in Network : rows[network] # "absent" => NormalizeScopeTarget(network)
  /\ \A q \in Request : requests[q].phase \in {"adding", "revoking"} =>
       \A i \in DOMAIN requests[q].todo : NormalizeScopeTarget(requests[q].todo[i])

RangeSound(call) ==
  call.tool = "discovery" /\ call.phase \in {"vetted", "scanning"} =>
    /\ call.given \subseteq Address
    /\ call.given \cap Forbidden = {}
    /\ Cardinality(call.given) <= MaxSweep

Sweeps == \A c \in Call : RangeSound(calls[c])

LEMMA BoundedInit == Init => Bounded
BY ScopeAssumption DEF Init, ScopeInit, Fresh, Bounded

LEMMA BoundedStep == TypeOK /\ Revocations /\ Bounded /\ [Next]_vars => Bounded'
<1> SUFFICES ASSUME TypeOK, Revocations, Bounded, [Next]_vars PROVE Bounded'
  OBVIOUS
<1>1. ASSUME NEW q \in Request, NEW candidates, AddResolve(q, candidates)
      PROVE  Bounded'
  <2>1. CASE requests' = [requests EXCEPT ![q] = Done]
    BY <1>1, <2>1 DEF AddResolve, Done, Bounded, TypeOK, ScopeTypeOK
  <2>2. CASE NetworksFor(candidates) # <<>>
    <3>1. requests' = [requests EXCEPT ![q] = Adding(candidates)]
      BY <1>1, <2>2 DEF AddResolve, NetworksFor
    <3>2. \A i \in DOMAIN candidates : NormalizeScopeTarget(candidates[i])
      BY <2>2 DEF NetworksFor
    <3> QED
      BY <1>1, <3>1, <3>2 DEF AddResolve, Adding, Bounded, TypeOK, ScopeTypeOK
  <2> QED
    BY <1>1, <2>1, <2>2 DEF AddResolve
<1>2. ASSUME NEW q \in Request, AddLoad(q)
      PROVE  Bounded'
  <2> DEFINE more == Append(requests[q].loaded,
                            rows[requests[q].todo[Len(requests[q].loaded) + 1]])
  <2>1. requests' = [requests EXCEPT ![q].loaded = more] /\ rows' = rows
    BY <1>2 DEF AddLoad
  <2> HIDE DEF more
  <2>2. \A r \in Request : requests'[r].phase = requests[r].phase
    BY <2>1 DEF TypeOK, ScopeTypeOK, Handling
  <2>3. \A r \in Request : requests'[r].todo = requests[r].todo
    BY <2>1 DEF TypeOK, ScopeTypeOK, Handling
  <2> QED
    BY <2>1, <2>2, <2>3 DEF Bounded
<1>3. ASSUME NEW q \in Request, AddCommit(q)
      PROVE  Bounded'
  <2> DEFINE networks == Elements(requests[q].todo)
  <2>1. \A network \in networks : NormalizeScopeTarget(network)
    BY <1>3 DEF AddCommit, Bounded, Elements
  <2>2. \A network \in Network \ networks : rows'[network] = rows[network]
    BY <1>3 DEF AddCommit
  <2>3. \A network \in Network : rows'[network] # "absent" => NormalizeScopeTarget(network)
    BY <2>1, <2>2 DEF Bounded
  <2>4. ASSUME NEW r \in Request, requests'[r].phase \in {"adding", "revoking"}
        PROVE  /\ requests'[r].phase = requests[r].phase
               /\ requests'[r].todo = requests[r].todo
    <3>1. CASE r = q
      <4>1. requests'[r] = Done
        BY <1>3, <3>1 DEF AddCommit, Readding, TypeOK, ScopeTypeOK
      <4> QED
        BY <2>4, <4>1 DEF Done
    <3>2. CASE r # q
      <4>1. \/ requests'[r] = requests[r]
            \/ requests'[r] = [requests[r] EXCEPT !.readded = requests[r].readded \cup networks]
        BY <1>3, <3>2 DEF AddCommit, Readding, TypeOK, ScopeTypeOK
      <4> HIDE DEF networks
      <4> QED
        BY <4>1 DEF TypeOK, ScopeTypeOK, Handling
    <3> QED
      BY <3>1, <3>2
  <2> QED
    BY <2>3, <2>4 DEF Bounded
<1>4. ASSUME NEW q \in Request, NEW network \in Network, RevokeLoad(q, network)
      PROVE  Bounded'
  BY <1>4 DEF RevokeLoad, Revoking, Bounded, TypeOK, ScopeTypeOK
<1>5. ASSUME NEW q \in Request, RevokeCommit(q)
      PROVE  Bounded'
  <2> DEFINE network == requests[q].todo[1]
  <2>1. 1 \in DOMAIN requests[q].todo
    BY <1>5 DEF RevokeCommit, Revocations, RevokingWell, TypeOK, ScopeTypeOK, Handling
  <2>2. NormalizeScopeTarget(network)
    BY <1>5, <2>1 DEF RevokeCommit, Bounded
  <2>3. \A n \in Network \ {network} : rows'[n] = rows[n]
    BY <1>5 DEF RevokeCommit, TypeOK, ScopeTypeOK
  <2>4. requests' = [requests EXCEPT ![q] = Done]
    BY <1>5 DEF RevokeCommit
  <2>5. \A n \in Network : rows'[n] # "absent" => NormalizeScopeTarget(n)
    BY <2>2, <2>3 DEF Bounded
  <2> QED
    BY <2>4, <2>5 DEF Done, Bounded, TypeOK, ScopeTypeOK
<1>6. CASE UNCHANGED <<rows, requests>>
  BY <1>6 DEF Bounded
<1> QED
  BY <1>1, <1>2, <1>3, <1>4, <1>5, <1>6 DEF Next, ScopeNext, scopeVars, vars, DnsChanges

\* Only a range that passed check_range is given to a ping sweep.
LEMMA RangeStep ==
  ASSUME TypeOK, NEW c \in Call, RangeSound(calls[c]), ToolStep(c)
  PROVE  RangeSound(calls'[c])
<1>1. ASSUME NEW request \in Asks, Ask(c, request)
      PROVE  RangeSound(calls'[c])
  <2>1. calls'[c] = Asked(request)
    BY <1>1 DEF Ask, TypeOK
  <2> QED
    BY <2>1 DEF Asked, RangeSound
<1>2. CASE Answered(c)
  BY <1>2 DEF Answered, Idle, RangeSound, TypeOK
<1>3. CASE ReadScope(c)
  <2>1. calls'[c].phase = "scoped"
    BY <1>3 DEF ReadScope, Go, TypeOK, Working
  <2> QED
    BY <2>1 DEF RangeSound
<1>4. CASE VetService(c) /\ ~Answered(c)
  <2> DEFINE given == {CheckTarget(calls[c].hosts[1], AnswerFor(calls[c].hosts[1]),
                                   allowed[c], ScanResolves).target}
  <2>1. calls' = [calls EXCEPT ![c].phase = "vetted", ![c].given = given]
    BY <1>4 DEF VetService
  <2> HIDE DEF given
  <2>2. calls'[c].tool = "service"
    BY <1>4, <2>1 DEF VetService, TypeOK, Working
  <2> QED
    BY <2>2 DEF RangeSound
<1>5. CASE VetRange(c) /\ ~Answered(c)
  <2>1. calls' = [calls EXCEPT ![c].phase = "vetted", ![c].given = calls[c].range]
    BY <1>5 DEF VetRange
  <2>2. calls'[c].given = calls[c].range
    BY <2>1 DEF TypeOK, Working
  <2>3. calls[c].range \subseteq Address
    BY DEF TypeOK, Working
  <2> QED
    BY <1>5, <2>2, <2>3 DEF VetRange, CheckRange, RangeSound
<1>6. CASE VetSweep(c) /\ ~Answered(c)
  <2>1. calls' = [calls EXCEPT ![c].phase = "vetted", ![c].given = Vetted(c),
                               ![c].refused = RefusedHosts(c)]
    BY <1>6 DEF VetSweep
  <2>2. calls'[c].tool = "sweep"
    BY <1>6, <2>1 DEF VetSweep, TypeOK, Working
  <2> QED
    BY <2>2 DEF RangeSound
<1>7. CASE StartScanner(c)
  <2> DEFINE reached == UNION {Reaches(t) : t \in calls[c].given}
  <2>1. calls' = [calls EXCEPT ![c].phase = "scanning", ![c].reached = reached]
    BY <1>7 DEF StartScanner
  <2> HIDE DEF reached
  <2>2. calls'[c].given = calls[c].given /\ calls'[c].tool = calls[c].tool
    BY <2>1 DEF TypeOK, Working
  <2> QED
    BY <1>7, <2>2 DEF StartScanner, RangeSound
<1>8. CASE CheckHop(c)
  <2> DEFINE chain == Append(calls[c].chain, Elements(AnswerFor(calls[c].hosts[1])))
  <2>1. calls' = [calls EXCEPT ![c].phase = "requesting", ![c].chain = chain]
    BY <1>8 DEF CheckHop
  <2> HIDE DEF chain
  <2>2. calls'[c].phase = "requesting"
    BY <2>1 DEF TypeOK, Working
  <2> QED
    BY <2>2 DEF RangeSound
<1>9. ASSUME NEW host \in Locations,
             calls' = [calls EXCEPT ![c].phase = "asked", ![c].hosts = <<host>>]
      PROVE  RangeSound(calls'[c])
  <2>1. calls'[c].phase = "asked"
    BY <1>9 DEF TypeOK, Working
  <2> QED
    BY <2>1 DEF RangeSound
<1> QED
  BY <1>1, <1>2, <1>3, <1>4, <1>5, <1>6, <1>7, <1>8, <1>9
     DEF ToolStep, RefuseUnusable, ScannerEnds, FetchRefused, PageRead, Redirected

LEMMA SweepsStep == TypeOK /\ Sweeps /\ [Next]_vars => Sweeps'
<1> SUFFICES ASSUME TypeOK, Sweeps, [Next]_vars PROVE Sweeps'
  OBVIOUS
<1>1. ASSUME NEW c \in Call, ToolStep(c), NEW d \in Call
      PROVE  RangeSound(calls'[d])
  BY <1>1, RangeStep, OtherCalls DEF Sweeps
<1>2. CASE UNCHANGED calls
  BY <1>2 DEF Sweeps
<1> QED
  BY <1>1, <1>2 DEF Sweeps, Next, ToolNext, vars, toolVars

LEMMA SweepsInit == Init => Sweeps
BY DEF Init, Idle, Sweeps, RangeSound

\* No entry covers a forbidden address or too many addresses
\* (normalize_scope_target of contracts/scope.py), and no ping sweep reaches one
\* (check_range of tools/targets.py), whatever the allowlists say.
THEOREM ForbiddenIsOut == Spec => []ForbiddenStaysOut
<1>1. Vetting /\ Bounded /\ Sweeps => ForbiddenStaysOut
  <2> SUFFICES ASSUME Vetting, Bounded, Sweeps PROVE ForbiddenStaysOut
    OBVIOUS
  <2>1. \A network \in Network : rows[network] # "absent" =>
          network \cap Forbidden = {} /\ Cardinality(network) <= MaxScope
    BY DEF Bounded, NormalizeScopeTarget
  <2>2. ASSUME NEW c \in Call, calls[c].phase = "scanning", calls[c].tool = "discovery"
        PROVE  /\ calls[c].reached \cap Forbidden = {}
               /\ Cardinality(calls[c].reached) <= MaxSweep
    <3>1. calls[c].reached = calls[c].given
      BY <2>2, PolicyAssumption DEF Vetting, ToolSound, ReachedIsGiven, Sweeps, RangeSound
    <3> QED
      BY <2>2, <3>1 DEF Sweeps, RangeSound
  <2> QED
    BY <2>1, <2>2 DEF ForbiddenStaysOut
<1>2. Vetting => TypeOK
  BY DEF Vetting
<1> QED
  BY <1>1, <1>2, VettingInit, VettingStep, BoundedInit, BoundedStep, SweepsInit, SweepsStep,
     RevocationsInit, RevocationsStep, PTL DEF Spec

=============================================================================
