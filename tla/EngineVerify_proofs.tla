------------------------ MODULE EngineVerify_proofs ------------------------
(***************************************************************************)
(* Proofs about one re-check: whatever the hosts do while it runs and      *)
(* whichever calls fail, the answer is one the backend expects, covers     *)
(* only what was read and is true of the moment each host was scanned --   *)
(* for every request, world, limit and interleaving.                       *)
(***************************************************************************)
EXTENDS EngineVerify, WellFoundedInduction, TLAPS

(* What a scan of target i was shown, and what it must have observed.      *)
Shown(i) ==
    Shows(scanned[i].present, targets[i].host, PortSpec(targets[i].ports) \ scanned[i].dropped)
Observable(i) == Derivable(Shown(i))

(* A call that read no scan claims nothing; one that did has returned, and *)
(* its entry and its candidates are those of the world its scan met.       *)
CallSound(i) ==
    IF scanned[i] = None
    THEN entry[i] = Unavailable /\ observed[i] = {}
    ELSE /\ i \in Kept /\ call[i] = "returned"
         /\ entry[i] \in {Unreachable, Examined(targets[i].ports)}
         /\ observed[i] = Observable(i)

NothingScanned == \A i \in DOMAIN targets : scanned[i] = None

(* The answer is still what the calls say: nothing happens after it.       *)
AnswerSound == report = Answer \/ (NothingScanned /\ report = Refusal)

Inv ==
    /\ TypeOK
    /\ \A i \in DOMAIN targets : CallSound(i)
    /\ phase = "asked" => NothingScanned
    /\ phase = "answered" => AnswerSound

-----------------------------------------------------------------------------
(* The request and the entries.                                            *)

\* Every target has a host and at least one port, and no two share a host.
LEMMA TargetFacts ==
  ASSUME TypeOK
  PROVE  /\ targets \in Seq(Targets)
         /\ \A i \in DOMAIN targets : /\ targets[i].host \in Host
                                      /\ targets[i].ports \subseteq Port
                                      /\ targets[i].ports # {}
         /\ \A i, j \in DOMAIN targets : targets[i].host = targets[j].host => i = j
<1>1. /\ targets \in Seq(Targets)
      /\ \A i, j \in DOMAIN targets : targets[i].host = targets[j].host => i = j
  BY RequestsAssumption DEF TypeOK
<1>2. ASSUME NEW i \in DOMAIN targets PROVE targets[i] \in Targets
  BY <1>1
<1> QED
  BY <1>1, <1>2 DEF Targets

\* The three entries are coverage, told apart from each other and from None.
LEMMA Entries ==
  ASSUME NEW ports \in SUBSET Port
  PROVE  /\ {Unavailable, Unreachable, Examined(ports)} \subseteq HostCoverage
         /\ None \notin {Unavailable, Unreachable, Examined(ports)}
         /\ Unavailable \notin {Unreachable, Examined(ports)}
         /\ ~Unavailable.scan_ok /\ Unreachable.scan_ok /\ Examined(ports).scan_ok
<1>1. {Unavailable, Unreachable, Examined(ports)} \subseteq HostCoverage
  BY DEF Unavailable, Unreachable, Examined, HostCoverage
<1>2. ~Unavailable.scan_ok /\ Unreachable.scan_ok /\ Examined(ports).scan_ok
  BY DEF Unavailable, Unreachable, Examined
<1> QED
  BY <1>1, <1>2, NoneIsNoRecord

\* A target is asked about as it stands: its host, with exactly its ports.
LEMMA AskedPerTarget ==
  ASSUME TypeOK, NEW i \in DOMAIN targets
  PROVE  /\ targets[i].host \in TargetHosts(AskedFor)
         /\ TargetPorts(AskedFor, targets[i].host) = targets[i].ports
<1> DEFINE Asked(j) ==
      {[asset |-> targets[j].host, port |-> p, candidate |-> None] : p \in targets[j].ports}
<1>1. AskedFor = UNION {Asked(j) : j \in DOMAIN targets}
  BY DEF AskedFor
<1>2. ASSUME NEW p \in targets[i].ports
      PROVE  [asset |-> targets[i].host, port |-> p, candidate |-> None]
                \in {g \in AskedFor : g.asset # None /\ g.port # None}
  BY <1>1, <1>2, TargetFacts, NoneIsFresh
<1>3. targets[i].host \in TargetHosts(AskedFor)
  <2>1. PICK p \in targets[i].ports : TRUE
    BY TargetFacts
  <2> DEFINE f == [asset |-> targets[i].host, port |-> p, candidate |-> None]
  <2>2. f \in {g \in AskedFor : g.asset # None /\ g.port # None} /\ f.asset = targets[i].host
    BY <1>2, <2>1
  <2> QED
    BY <2>2 DEF TargetHosts
<1>4. ASSUME NEW p \in targets[i].ports
      PROVE  p \in TargetPorts(AskedFor, targets[i].host)
  <2> DEFINE f == [asset |-> targets[i].host, port |-> p, candidate |-> None]
  <2>1. f \in AskedFor /\ f.asset = targets[i].host /\ f.port = p /\ f.port # None
    BY <1>2
  <2> QED
    BY <2>1 DEF TargetPorts
<1>5. ASSUME NEW p \in TargetPorts(AskedFor, targets[i].host)
      PROVE  p \in targets[i].ports
  <2>1. PICK f \in AskedFor : f.asset = targets[i].host /\ f.port = p
    BY <1>5 DEF TargetPorts
  <2>2. PICK j \in DOMAIN targets : f \in Asked(j)
    BY <1>1, <2>1
  <2>3. f.asset = targets[j].host /\ f.port \in targets[j].ports
    BY <2>2
  <2> QED
    BY <2>1, <2>3, TargetFacts
<1> QED
  BY <1>3, <1>4, <1>5

\* What is scanned of a target are ports of it.
LEMMA SpecIsPartOfTarget ==
  ASSUME NEW ports PROVE PortSpec(ports) \subseteq ports
BY DEF PortSpec

-----------------------------------------------------------------------------
(* The two answers.                                                        *)

\* A looked-at target has an entry of its own, and no other host has any.
LEMMA AnswerCoverage ==
  ASSUME TypeOK
  PROVE  /\ \A i \in Kept : Answer.coverage[targets[i].host] = EntryOf(i)
         /\ \A i \in Kept : Refusal.coverage[targets[i].host] = Unavailable
         /\ \A h \in Host : (\A i \in Kept : targets[i].host # h) =>
                Answer.coverage[h] = None /\ Refusal.coverage[h] = None
<1>1. ASSUME NEW i \in Kept
      PROVE  /\ Answer.coverage[targets[i].host] = EntryOf(i)
             /\ Refusal.coverage[targets[i].host] = Unavailable
  <2> DEFINE chosen == CHOOSE j \in Kept : targets[j].host = targets[i].host
  <2>1. targets[i].host \in Host
    BY TargetFacts DEF Kept
  <2>2. chosen \in Kept /\ targets[chosen].host = targets[i].host
    OBVIOUS
  <2>3. chosen = i
    BY <2>2, TargetFacts DEF Kept
  <2>4. Answer.coverage[targets[i].host] = EntryOf(chosen)
    BY <2>1 DEF Answer
  <2> QED
    BY <2>1, <2>3, <2>4 DEF Refusal
<1>2. ASSUME NEW h \in Host, \A i \in Kept : targets[i].host # h
      PROVE  Answer.coverage[h] = None /\ Refusal.coverage[h] = None
  BY <1>2 DEF Answer, Refusal
<1> QED
  BY <1>1, <1>2

\* Both are reports.
LEMMA AnswersAreReports ==
  ASSUME TypeOK PROVE Answer \in Report /\ Refusal \in Report
<1>1. ASSUME NEW h \in Host
      PROVE  Answer.coverage[h] \in HostCoverage \cup {None}
             /\ Refusal.coverage[h] \in HostCoverage \cup {None}
  <2>1. CASE \E i \in Kept : targets[i].host = h
    <3>1. PICK i \in Kept : targets[i].host = h
      BY <2>1
    <3>2. EntryOf(i) \in HostCoverage /\ Unavailable \in HostCoverage
      BY Entries DEF EntryOf, TypeOK, Kept
    <3> QED
      BY <3>1, <3>2, AnswerCoverage
  <2>2. CASE \A i \in Kept : targets[i].host # h
    BY <2>2, AnswerCoverage
  <2> QED
    BY <2>1, <2>2
<1>2. Answer.observed \subseteq Candidate /\ Refusal.observed \subseteq Candidate
  BY DEF Answer, Refusal, TypeOK, Kept
<1>3. /\ Answer = [coverage |-> Answer.coverage, observed |-> Answer.observed]
      /\ Answer.coverage = [h \in Host |-> Answer.coverage[h]]
  BY DEF Answer
<1>4. /\ Refusal = [coverage |-> Refusal.coverage, observed |-> Refusal.observed]
      /\ Refusal.coverage = [h \in Host |-> Refusal.coverage[h]]
  BY DEF Refusal
<1>5. Answer.coverage \in [Host -> HostCoverage \cup {None}]
      /\ Refusal.coverage \in [Host -> HostCoverage \cup {None}]
  BY <1>1, <1>3, <1>4
<1> QED
  BY <1>2, <1>3, <1>4, <1>5 DEF Report

-----------------------------------------------------------------------------
(* The invariant.                                                          *)

LEMMA InitInv == Init => Inv
<1> SUFFICES ASSUME Init PROVE Inv
  OBVIOUS
<1>1. Unavailable \in HostCoverage
  BY Entries
<1>2. EmptyReport \in Report
  BY DEF EmptyReport, Report
<1>3. TypeOK
  BY <1>1, <1>2, SilenceAssumption DEF Init, TypeOK
<1> QED
  BY <1>3 DEF Init, Inv, CallSound, NothingScanned

\* A call that did not return, or returned without a scan, still claims nothing.
LEMMA SilentCall ==
  ASSUME Inv, NEW i \in DOMAIN targets, call[i] = "pending"
  PROVE  scanned[i] = None /\ entry[i] = Unavailable /\ observed[i] = {}
BY DEF Inv, CallSound

\* While nothing is answered, a call that changes only its own slots soundly
\* keeps the invariant.
LEMMA OneCall ==
  ASSUME Inv, TypeOK', phase = "scanning", NEW i \in DOMAIN targets, CallSound(i)',
         UNCHANGED <<targets, phase>>,
         \A j \in (DOMAIN targets) \ {i} : /\ call'[j] = call[j] /\ entry'[j] = entry[j]
                                         /\ observed'[j] = observed[j]
                                         /\ scanned'[j] = scanned[j]
  PROVE  Inv'
<1>1. ASSUME NEW j \in DOMAIN targets, j # i PROVE CallSound(j)'
  BY <1>1 DEF Inv, CallSound, Observable, Shown, Kept
<1> QED
  BY <1>1 DEF Inv

LEMMA UnusableStep ==
  ASSUME Inv, NEW i \in DOMAIN targets, ScanUnusable(i) \/ CallRaises(i)
  PROVE  Inv'
<1>1. scanned[i] = None /\ entry[i] = Unavailable /\ observed[i] = {}
  BY SilentCall DEF ScanUnusable, CallRaises
<1>2. TypeOK'
  BY Entries DEF Inv, TypeOK, ScanUnusable, CallRaises, world
<1>3. CallSound(i)'
  BY <1>1 DEF Inv, TypeOK, CallSound, ScanUnusable, CallRaises
<1> QED
  BY <1>2, <1>3, OneCall DEF Inv, TypeOK, ScanUnusable, CallRaises

\* What a parsed scan reports is what the world it met makes observable.
LEMMA ParsedStep ==
  ASSUME Inv, NEW i \in DOMAIN targets, ScanParsed(i)
  PROVE  Inv'
<1> DEFINE host == targets[i].host
           spec == PortSpec(targets[i].ports)
           unanswered(timedOut) == IF timedOut THEN Port ELSE dropping[host]
           found(timedOut) == IF timedOut THEN {} ELSE Detected(host, spec)
           met(timedOut) == [present |-> {c \in present : About[c].host = host},
                             dropped |-> unanswered(timedOut)]
<1>0. host \in Host /\ targets[i].ports \subseteq Port /\ spec \subseteq Port
  BY TargetFacts, SpecIsPartOfTarget DEF Inv
<1>1. PICK timedOut \in BOOLEAN, told \in {Unreachable, Examined(targets[i].ports)} :
        /\ entry' = [entry EXCEPT ![i] = told]
        /\ observed' = [observed EXCEPT ![i] = found(timedOut)]
        /\ scanned' = [scanned EXCEPT ![i] = met(timedOut)]
  BY DEF ScanParsed
<1>2. told \in HostCoverage
  BY <1>0, Entries
<1>3. found(timedOut) \subseteq Candidate
  BY DEF Detected, Derivable, Shows, Inv, TypeOK
<1>4. met(timedOut) \in Scans /\ met(timedOut) # None
  <2>1. met(timedOut) \in Scans
    BY <1>0 DEF Scans, Inv, TypeOK
  <2> QED
    BY <2>1, NoneIsNoRecord
<1>5. TypeOK'
  <2> HIDE DEF met, found
  <2> QED
    BY <1>1, <1>2, <1>3, <1>4 DEF Inv, TypeOK, ScanParsed, world
<1>6. found(timedOut) = Derivable(Shows(met(timedOut).present, host, spec \ met(timedOut).dropped))
  <2>1. CASE timedOut
    <3>1. Shows(met(timedOut).present, host, spec \ met(timedOut).dropped) = {}
      BY <1>0, <2>1 DEF Shows
    <3> QED BY <2>1, <3>1 DEF Derivable
  <2>2. CASE ~timedOut
    <3>1. Shows(met(timedOut).present, host, spec \ met(timedOut).dropped)
             = Shows(present, host, spec \ dropping[host])
      BY <2>2 DEF Shows
    <3> QED BY <2>2, <3>1 DEF Detected
  <2> QED BY <2>1, <2>2
<1>7. /\ scanned'[i] = met(timedOut) /\ observed'[i] = found(timedOut)
      /\ entry'[i] = told /\ call'[i] = "returned"
      /\ targets' = targets /\ phase' = phase /\ phase = "scanning" /\ i \in Kept
  <2> HIDE DEF met, found
  <2> QED
    BY <1>1 DEF Inv, TypeOK, ScanParsed
<1>8. CallSound(i)'
  <2>1. Observable(i)' = found(timedOut)
    BY <1>6, <1>7 DEF Observable, Shown, PortSpec
  <2> HIDE DEF met, found
  <2> QED
    BY <1>4, <1>7, <2>1 DEF CallSound, Kept
<1>9. \A j \in (DOMAIN targets) \ {i} : /\ call'[j] = call[j] /\ entry'[j] = entry[j]
                                      /\ observed'[j] = observed[j]
                                      /\ scanned'[j] = scanned[j]
  <2> HIDE DEF met, found
  <2> QED
    BY <1>1 DEF Inv, TypeOK, ScanParsed
<1> QED
  BY <1>5, <1>7, <1>8, <1>9, OneCall

LEMMA NextInv == Inv /\ [Next]_vars => Inv'
<1> SUFFICES ASSUME Inv, [Next]_vars PROVE Inv'
  OBVIOUS
<1>1. CASE UNCHANGED pass /\ TypeOK'
  <2>1. UNCHANGED <<targets, phase, call, entry, observed, scanned, report, Kept>>
    BY <1>1 DEF pass, Kept
  <2>2. \A i \in DOMAIN targets : CallSound(i)'
    BY <2>1 DEF Inv, CallSound, Observable, Shown
  <2>3. UNCHANGED <<Answer, Refusal>>
    BY <2>1 DEF Answer, Refusal, EntryOf
  <2> QED
    BY <1>1, <2>1, <2>2, <2>3 DEF Inv, NothingScanned, AnswerSound
<1>2. ASSUME NEW c \in Candidate, ServiceChanges(c) PROVE Inv'
  BY <1>1, <1>2 DEF ServiceChanges, pass, Inv, TypeOK
<1>3. ASSUME NEW host \in Host, NEW ports \in SUBSET Port, FirewallChanges(host, ports)
      PROVE  Inv'
  BY <1>1, <1>3 DEF FirewallChanges, pass, Inv, TypeOK
<1>4. CASE OpenTools
  <2>1. TypeOK'
    BY <1>4, AnswersAreReports DEF OpenTools, world, Inv, TypeOK
  <2>2. \A i \in DOMAIN targets : CallSound(i)'
    BY <1>4 DEF OpenTools, Inv, CallSound, Observable, Shown, Kept
  <2>3. AnswerSound' \/ phase' # "answered"
    BY <1>4 DEF OpenTools, Inv, AnswerSound, NothingScanned, Refusal, Kept
  <2> QED
    BY <1>4, <2>1, <2>2, <2>3 DEF OpenTools, Inv
<1>5. ASSUME NEW i \in DOMAIN targets, CallStep(i) PROVE Inv'
  BY <1>5, UnusableStep, ParsedStep DEF CallStep
<1>6. CASE Assemble
  <2>1. TypeOK'
    BY <1>6, AnswersAreReports DEF Assemble, world, Inv, TypeOK
  <2>2. \A i \in DOMAIN targets : CallSound(i)'
    BY <1>6 DEF Assemble, Inv, CallSound, Observable, Shown, Kept
  <2>3. AnswerSound'
    BY <1>6 DEF Assemble, AnswerSound, Answer, EntryOf, Kept
  <2> QED
    BY <1>6, <2>1, <2>2, <2>3 DEF Assemble, Inv
<1>7. CASE CloseFails
  BY <1>7 DEF CloseFails, world, Inv, TypeOK, CallSound, Observable, Shown, Kept
<1>8. CASE UNCHANGED vars
  BY <1>1, <1>8 DEF vars, pass, Inv, TypeOK
<1> QED
  BY <1>2, <1>3, <1>4, <1>5, <1>6, <1>7, <1>8, SilenceAssumption DEF Next, WorldStep, PassStep, Progress

LEMMA Invariant == Spec => []Inv
BY InitInv, NextInv, PTL DEF Spec

(* Every variable stays in its type: in particular a call that raises      *)
(* leaves no exception among the entries (_verify_one, verify).            *)
THEOREM TypeCorrect == Spec => []TypeOK
BY Invariant, PTL DEF Inv

-----------------------------------------------------------------------------
(* What the answer says.                                                   *)

\* A raised call has read no scan, so an answered pass reports, for every
\* target it looked at, the entry of its call.
LEMMA ReportedEntries ==
  ASSUME Inv, Answered
  PROVE  /\ \A i \in Kept : report.coverage[targets[i].host] = entry[i]
         /\ \A h \in Host : (\A i \in Kept : targets[i].host # h) => report.coverage[h] = None
         /\ report.observed = UNION {observed[i] : i \in Kept}
<1>1. ASSUME NEW i \in Kept PROVE EntryOf(i) = entry[i]
  BY DEF Inv, CallSound, EntryOf, Kept
<1>2. CASE report = Answer
  BY <1>1, <1>2, AnswerCoverage DEF Inv, Answer
<1>3. CASE NothingScanned /\ report = Refusal
  <2>1. \A i \in Kept : entry[i] = Unavailable /\ observed[i] = {}
    BY <1>3 DEF NothingScanned, Inv, CallSound, Kept
  <2>2. report.observed = {}
    BY <1>3 DEF Refusal
  <2> QED
    BY <1>3, <2>1, <2>2, AnswerCoverage DEF Inv
<1> QED
  BY <1>2, <1>3 DEF Inv, Answered, AnswerSound

\* The entry of a target that was looked at is one of the three it can have,
\* and says scan_ok exactly when its scan was read.
LEMMA KeptEntries ==
  ASSUME Inv, NEW i \in Kept
  PROVE  /\ entry[i] \in {Unavailable, Unreachable, Examined(targets[i].ports)}
         /\ entry[i] # None
         /\ scanned[i] # None => entry[i] # Unavailable /\ entry[i].scan_ok
         /\ scanned[i] = None => ~entry[i].scan_ok /\ observed[i] = {}
<1>1. i \in DOMAIN targets /\ targets[i].ports \in SUBSET Port
  BY TargetFacts DEF Inv, Kept
<1> QED
  BY <1>1, Entries DEF Inv, CallSound

(* Whatever happens during a pass, its answer is one of those the model of *)
(* the backend lets the ai.engine give (verify, EngineReports).            *)
LEMMA InvAnswersAsEngine == Inv => AnswerIsEngineReport
<1> SUFFICES ASSUME Inv, Answered PROVE report \in EngineReports(AskedFor)
  BY DEF AnswerIsEngineReport
<1>1. report \in Report /\ DOMAIN report.coverage = Host
  BY DEF Inv, TypeOK, Report
<1>2. ASSUME NEW h \in Host PROVE report.coverage[h] \in EngineEntries(AskedFor, h)
  <2>1. CASE \E i \in Kept : targets[i].host = h
    <3>1. PICK i \in Kept : targets[i].host = h
      BY <2>1
    <3>2. h \in TargetHosts(AskedFor) /\ TargetPorts(AskedFor, h) = targets[i].ports
      BY <3>1, AskedPerTarget DEF Kept, Inv
    <3>3. report.coverage[h] = entry[i]
      BY <3>1, ReportedEntries
    <3> QED
      BY <3>2, <3>3, KeptEntries DEF EngineEntries
  <2>2. CASE \A i \in Kept : targets[i].host # h
    BY <2>2, ReportedEntries DEF EngineEntries
  <2> QED
    BY <2>1, <2>2
<1>3. report.observed # {} => \E h \in Host : report.coverage[h] \notin {None, Unavailable}
  <2> SUFFICES ASSUME report.observed # {}
               PROVE  \E h \in Host : report.coverage[h] \notin {None, Unavailable}
    OBVIOUS
  <2>1. PICK i \in Kept : observed[i] # {}
    BY ReportedEntries
  <2>2. scanned[i] # None
    BY <2>1, KeptEntries
  <2>3. targets[i].host \in Host
    BY TargetFacts DEF Inv, Kept
  <2> QED
    BY <2>2, <2>3, ReportedEntries, KeptEntries
<1> DEFINE Offered == UNION {EngineEntries(AskedFor, h) : h \in Host}
<1>4. report.coverage \in [Host -> Offered]
  <2>1. report.coverage = [h \in Host |-> report.coverage[h]]
    BY <1>1 DEF Report
  <2> QED
    BY <1>2, <2>1
<1>5. /\ report = [coverage |-> report.coverage, observed |-> report.observed]
      /\ report.observed \in SUBSET Candidate
  BY <1>1 DEF Report
<1> QED
  BY <1>2, <1>3, <1>4, <1>5 DEF EngineReports

THEOREM AnswersAsTheEngine == Spec => []AnswerIsEngineReport
BY Invariant, InvAnswersAsEngine, PTL

(* One failing target does not sink the others, and a target that failed   *)
(* covers nothing (verify, gather with return_exceptions).                 *)
LEMMA InvReadScansCover == Inv => OnlyReadScansCover
<1> SUFFICES ASSUME Inv, Answered, NEW h \in Host
             PROVE  /\ (\E p \in Port : /\ report.coverage[h] # None
                                        /\ Covers(report.coverage[h], p))
                       => \E i \in Kept : targets[i].host = h /\ scanned[i] # None
                    /\ \A i \in Kept : targets[i].host = h /\ scanned[i] # None
                       => report.coverage[h].scan_ok
  BY DEF OnlyReadScansCover
<1>1. ASSUME NEW i \in Kept, targets[i].host = h, scanned[i] # None
      PROVE  report.coverage[h].scan_ok
  BY <1>1, ReportedEntries, KeptEntries
<1>2. ASSUME NEW p \in Port, report.coverage[h] # None, Covers(report.coverage[h], p)
      PROVE  \E i \in Kept : targets[i].host = h /\ scanned[i] # None
  <2>1. PICK i \in Kept : targets[i].host = h
    BY <1>2, ReportedEntries
  <2>2. entry[i].scan_ok
    BY <1>2, <2>1, ReportedEntries DEF Covers
  <2> QED
    BY <2>1, <2>2, KeptEntries
<1> QED
  BY <1>1, <1>2

THEOREM ReadScansCover == Spec => []OnlyReadScansCover
BY Invariant, InvReadScansCover, PTL

\* Among some candidates of which one stands for its host, one has the first port.
LEMMA FirstPort ==
  ASSUME NEW D \in SUBSET Candidate, D # {}
  PROVE  \E c \in D : \A d \in D : About[c].port <= About[d].port
<1> DEFINE P == {About[c].port : c \in D}
<1>1. P \subseteq Nat /\ P # {}
  <2>1. \A c \in D : About[c].port \in Port
    BY AboutAssumption
  <2>2. Port \subseteq Nat
    BY PortsAreNumbers
  <2> QED BY <2>1, <2>2
<1>2. PICK p \in P : \A q \in P : ~(<<q, p>> \in OpToRel(<, Nat))
  <2> HIDE DEF P
  <2> QED BY <1>1, NatLessThanWellFounded, WFMin
<1>3. \A q \in P : ~(q < p)
  BY <1>1, <1>2 DEF OpToRel
<1>4. PICK c \in D : About[c].port = p
  OBVIOUS
<1>5. \A d \in D : About[d].port \in P /\ About[d].port \in Nat
  BY <1>1
<1> HIDE DEF P
<1> QED BY <1>1, <1>3, <1>4, <1>5

\* What scans derive is part of what they were shown, all of it that is derived from
\* the port, and some of it that is derived once for a host.
LEMMA DerivedFromShown ==
  ASSUME NEW S \in SUBSET Candidate
  PROVE  /\ Derivable(S) \subseteq S
         /\ \A c \in S : About[c].seen = "port" => c \in Derivable(S)
         /\ (\E c \in S : About[c].seen = "host") => \E c \in Derivable(S) : About[c].seen = "host"
<1>1. /\ Derivable(S) \subseteq S
      /\ \A c \in S : About[c].seen = "port" => c \in Derivable(S)
  BY DEF Derivable
<1>2. ASSUME \E c \in S : About[c].seen = "host"
      PROVE  \E c \in Derivable(S) : About[c].seen = "host"
  <2> DEFINE D == {c \in S : About[c].seen = "host"}
  <2>1. PICK c \in D : \A d \in D : About[c].port <= About[d].port
    <3>1. D \in SUBSET Candidate /\ D # {}
      BY <1>2
    <3> HIDE DEF D
    <3> QED BY <3>1, FirstPort
  <2> QED BY <2>1 DEF Derivable
<1> QED BY <1>1, <1>2

(* For a port that was scanned and answered, a candidate derived from the  *)
(* port is observed exactly when it was on the host at that moment, though *)
(* other targets were scanned at other moments, in any order, or not at    *)
(* all; of the candidates derived once for the host only those that were   *)
(* there are, and one is if any was.                                       *)
LEMMA InvTruthful == Inv => ScannedPortsAreReportedTruly
<1> SUFFICES ASSUME Inv, Answered, NEW i \in DOMAIN targets, scanned[i] # None
             PROVE  /\ \A c \in Shows(Candidate, targets[i].host,
                                      PortSpec(targets[i].ports) \ scanned[i].dropped) :
                           About[c].seen = "port" => (c \in report.observed <=> c \in Shown(i))
                    /\ \A c \in Candidate \cap report.observed :
                           About[c].seen = "host" /\ About[c].host = targets[i].host => c \in Shown(i)
                    /\ \A c \in Candidate \cap Shown(i) :
                           About[c].seen = "host" /\ About[c].host = targets[i].host =>
                              \E d \in Candidate \cap report.observed :
                                 About[d].seen = "host" /\ About[d].host = targets[i].host
  BY DEF ScannedPortsAreReportedTruly, Shown
<1>1. i \in Kept /\ observed[i] = Derivable(Shown(i))
  BY DEF Inv, CallSound, Observable
<1>2. Shown(i) \in SUBSET Candidate
  BY DEF Shown, Shows, Inv, TypeOK, Scans
<1>3. \A c \in Shown(i) : About[c].host = targets[i].host
  BY DEF Shown, Shows
<1>4. observed[i] \subseteq report.observed
  BY <1>1, ReportedEntries
<1>5. ASSUME NEW c \in report.observed, About[c].host = targets[i].host
      PROVE  c \in Shown(i)
  <2>1. PICK j \in Kept : c \in observed[j]
    BY <1>5, ReportedEntries
  <2>2. c \in Observable(j)
    BY <2>1, KeptEntries DEF Inv, CallSound, Kept
  <2>3. About[c].host = targets[j].host
    BY <2>2 DEF Observable, Derivable, Shown, Shows
  <2>4. j = i
    BY <1>5, <2>3, TargetFacts DEF Inv, Kept
  <2> QED
    BY <2>2, <2>4 DEF Observable, Derivable
<1>6. \A c \in Shows(Candidate, targets[i].host, PortSpec(targets[i].ports) \ scanned[i].dropped) :
         About[c].host = targets[i].host
  BY DEF Shows
<1>7. /\ \A c \in Shown(i) : About[c].seen = "port" => c \in observed[i]
      /\ (\E c \in Shown(i) : About[c].seen = "host") =>
             \E c \in observed[i] : About[c].seen = "host"
  BY <1>1, <1>2, DerivedFromShown
<1>8. observed[i] \subseteq Candidate /\ observed[i] \subseteq Shown(i)
  BY <1>1, <1>2, DerivedFromShown
<1>9. ASSUME NEW c \in Shows(Candidate, targets[i].host, PortSpec(targets[i].ports) \ scanned[i].dropped),
             About[c].seen = "port"
      PROVE  c \in report.observed <=> c \in Shown(i)
  BY <1>4, <1>5, <1>6, <1>7, <1>9
<1>10. ASSUME NEW c \in Candidate \cap Shown(i), About[c].seen = "host"
       PROVE  \E d \in Candidate \cap report.observed :
                 About[d].seen = "host" /\ About[d].host = targets[i].host
  <2>1. PICK d \in observed[i] : About[d].seen = "host"
    BY <1>7, <1>10
  <2>2. d \in Candidate \cap report.observed /\ About[d].host = targets[i].host
    BY <2>1, <1>3, <1>4, <1>8
  <2> QED BY <2>1, <2>2
<1> QED
  BY <1>5, <1>9, <1>10

THEOREM ReportsTheTruth == Spec => []ScannedPortsAreReportedTruly
BY Invariant, InvTruthful, PTL

-----------------------------------------------------------------------------
(* What the backend may conclude from an answer: the finding of candidate  *)
(* c, which the rules derive from the port itself, and is still open.      *)
FindingOf(c) == [asset |-> About[c].host, port |-> About[c].port, candidate |-> c]

(* A scan of the candidate's host was read, and either the candidate was   *)
(* not there when the host was scanned, or that scan had no answer from    *)
(* the port, be it that a firewall dropped it or that Nmap never asked     *)
(* because the port is beyond MAX_PORTS_PER_TARGET.                        *)
GoneOrSilent(c) ==
    \E i \in Kept :
        /\ targets[i].host = About[c].host
        /\ scanned[i] # None
        /\ \/ c \notin scanned[i].present
           \/ About[c].port \notin PortSpec(targets[i].ports) \ scanned[i].dropped

ResolvedIsTraced ==
    Answered =>
        \A c \in Candidate :
            About[c].seen = "port" /\ Decide("new", FindingOf(c), report) = "resolved" => GoneOrSilent(c)

(* Judging by the report resolves a finding of the rules only on account   *)
(* of a scan of its own host: what another target showed, or one that      *)
(* failed, never closes it (verify, and decide of the backend).            *)
THEOREM ResolutionsAreTraced == Spec => []ResolvedIsTraced
<1>1. Inv => ResolvedIsTraced
  <2> SUFFICES ASSUME Inv, Answered, NEW c \in Candidate, About[c].seen = "port",
                      Decide("new", FindingOf(c), report) = "resolved"
               PROVE  GoneOrSilent(c)
    BY DEF ResolvedIsTraced
  <2>1. Covered(report, FindingOf(c)) /\ c \notin report.observed
    BY DEF Decide, FindingOf
  <2>2. About[c].host \in Host /\ About[c].port \in Port
    BY AboutAssumption
  <2>3. PICK i \in Kept : targets[i].host = About[c].host /\ scanned[i] # None
    BY <2>1, <2>2, InvReadScansCover DEF OnlyReadScansCover, Covered, FindingOf
  <2>4. i \in DOMAIN targets
    BY DEF Kept
  <2>5. About[c].port \in PortSpec(targets[i].ports) \ scanned[i].dropped => c \notin scanned[i].present
    BY <2>1, <2>2, <2>3, <2>4, InvTruthful DEF ScannedPortsAreReportedTruly, Shows
  <2> QED BY <2>3, <2>5 DEF GoneOrSilent
<1> QED BY <1>1, Invariant, PTL
=============================================================================
