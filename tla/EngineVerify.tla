---------------------------- MODULE EngineVerify ----------------------------
(***************************************************************************)
(* One re-check in the ai.engine (agents/vulnerability/verify.py): open an *)
(* MCP session, scan the first MAX_TARGETS targets concurrently, and report*)
(* per target what was covered and which candidates were observed.         *)
(*                                                                         *)
(* The hosts under test and Nmap are part of the model, because the        *)
(* report is a claim about them: `present' is what the rule engine or a    *)
(* scanner found on a host and is still true of it, `dropping' the ports   *)
(* that leave a probe unanswered (a firewall, or all of them when the host *)
(* is off).  Both change while the pass runs.                              *)
(***************************************************************************)
EXTENDS Coverage

CONSTANTS Requests,          \* the target lists the backend may send
          About,             \* Candidate -> where it is and who can see it
          Silences,          \* the sets of ports a host may leave unanswered
          MaxTargets,        \* MAX_TARGETS
          MaxPortsPerTarget, \* MAX_PORTS_PER_TARGET
          MaxSpecLength      \* longest -p argument the MCP server accepts

Targets == [host : Host, ports : (SUBSET Port) \ {{}}]

(* _targets sends one target per host, each with at least one port.        *)
ASSUME RequestsAssumption ==
    \A request \in Requests :
        /\ request \in Seq(Targets)
        /\ \A i, j \in DOMAIN request : request[i].host = request[j].host => i = j
ASSUME EngineLimits ==
    MaxTargets \in Nat \ {0} /\ MaxPortsPerTarget \in Nat \ {0} /\ MaxSpecLength \in Nat
MaxPort == 65535
ASSUME PortsAreNumbers == Port \subseteq 1 .. MaxPort
ASSUME SilenceAssumption == Silences \subseteq SUBSET Port

(* `seen': a candidate is derived by the rules from the open port itself   *)
(* ("port"); it is instructions to a model, derived once for a host        *)
(* however many ports of it show some ("host"); or the scanner that        *)
(* reported it asserted it (OpenVAS), and Nmap output never makes the rules*)
(* assert it again ("scanner").                                            *)
ASSUME AboutAssumption ==
    About \in [Candidate -> [host : Host, port : Port, seen : {"port", "host", "scanner"}]]

(* The world as one scan met it: what was true of its host, and the ports  *)
(* that did not answer.                                                    *)
Scans == [present : SUBSET Candidate, dropped : SUBSET Port]

(* None is neither a scan nor an entry.                                    *)
ASSUME NoneIsNoRecord == None \notin Scans \cup HostCoverage

VARIABLES
    present,    \* the candidates that are true of their host right now
    dropping,   \* Host -> ports that do not answer right now
    targets,    \* the request
    phase,      \* "asked", "scanning", "answered" or "failed"
    call,       \* target index -> "pending", "returned" or "raised"
    entry,      \* target index -> the HostCoverage _verify_one returned
    observed,   \* target index -> the candidate ids it returned
    scanned,    \* target index -> the world as its scan met it, None if none ran
    report      \* the answer

world == <<present, dropping>>
pass == <<targets, phase, call, entry, observed, scanned, report>>
vars == <<present, dropping, targets, phase, call, entry, observed, scanned, report>>

(* The targets that are looked at: request.targets[:MAX_TARGETS].          *)
Kept == {i \in DOMAIN targets : i <= MaxTargets}

TypeOK ==
    /\ present \subseteq Candidate
    /\ dropping \in [Host -> SUBSET Port]
    /\ targets \in Requests
    /\ phase \in {"asked", "scanning", "answered", "failed"}
    /\ call \in [DOMAIN targets -> {"pending", "returned", "raised"}]
    /\ entry \in [DOMAIN targets -> HostCoverage]
    /\ observed \in [DOMAIN targets -> SUBSET Candidate]
    /\ scanned \in [DOMAIN targets -> Scans \cup {None}]
    /\ report \in Report

Init ==
    /\ present \in SUBSET Candidate
    /\ dropping \in [Host -> Silences]
    /\ targets \in Requests
    /\ phase = "asked"
    /\ call = [i \in DOMAIN targets |-> "pending"]
    /\ entry = [i \in DOMAIN targets |-> Unavailable]
    /\ observed = [i \in DOMAIN targets |-> {}]
    /\ scanned = [i \in DOMAIN targets |-> None]
    /\ report = EmptyReport

-----------------------------------------------------------------------------
(* The hosts change at any time: a service is fixed or comes back, a port  *)
(* is firewalled or opened, a host goes away or returns.                   *)
ServiceChanges(c) ==
    /\ present' = (present \ {c}) \cup ({c} \ present)
    /\ UNCHANGED <<dropping, pass>>

FirewallChanges(host, ports) ==
    /\ dropping' = [dropping EXCEPT ![host] = ports]
    /\ UNCHANGED <<present, pass>>

-----------------------------------------------------------------------------
(* _port_spec: the lowest MAX_PORTS_PER_TARGET ports of a target.          *)
PortSpec(ports) ==
    {p \in ports : Cardinality({q \in ports : q < p}) < MaxPortsPerTarget}

(* Characters of "p1,p2,...": the digits of every port and the commas.     *)
SpecLength(spec) ==
    Cardinality({d \in spec \X {1, 10, 100, 1000, 10000} : d[1] >= d[2]})
        + Cardinality(spec) - 1

(* _clean_port_spec refuses a specification that is too long.              *)
Accepted(spec) == SpecLength(spec) <= MaxSpecLength

(* What is true of the ports of a host that Nmap lists as open among those *)
(* it was asked for; a dropped port is listed as filtered and read by      *)
(* nobody.                                                                 *)
Shows(facts, host, ports) == {c \in facts : About[c].host = host /\ About[c].port \in ports}

(* build_candidates: the candidates the rules derive from it.              *)
(* _injection_candidates names a host once, with the first port it has     *)
(* seen; Nmap lists ports in their order.                                  *)
Derivable(shown) ==
    {c \in shown : \/ About[c].seen = "port"
                   \/ /\ About[c].seen = "host"
                      /\ \A d \in shown : About[d].seen = "host" => About[c].port <= About[d].port}

Detected(host, spec) == Derivable(Shows(present, host, spec \ dropping[host]))

(* Without a scanner every target is unavailable.                          *)
Refusal ==
    [coverage |-> [h \in Host |->
         IF \E i \in Kept : targets[i].host = h THEN Unavailable ELSE None],
     observed |-> {}]

(* open_tools: with a scanner the targets are scanned; without a session,  *)
(* or one that does not offer the tool, every target is unavailable.       *)
OpenTools ==
    /\ phase = "asked"
    /\ \/ /\ phase' = "scanning"
          /\ UNCHANGED report
       \/ /\ phase' = "answered"
          /\ report' = Refusal
    /\ UNCHANGED <<world, targets, call, entry, observed, scanned>>

(* Mutant: unreadable output is taken for a scan that found nothing.       *)
ScanUnusableIsEmpty(i) ==
    /\ phase = "scanning" /\ i \in Kept /\ call[i] = "pending"
    /\ call' = [call EXCEPT ![i] = "returned"]
    /\ entry' = [entry EXCEPT ![i] = Examined(targets[i].ports)]
    /\ UNCHANGED <<world, targets, phase, observed, scanned, report>>

(* _verify_one without a usable scan: the target is out of scope, the port *)
(* specification is refused, Nmap is missing, fails or is killed, the call *)
(* times out, the output does not parse.                                   *)
ScanUnusable(i) ==
    /\ phase = "scanning" /\ i \in Kept /\ call[i] = "pending"
    /\ call' = [call EXCEPT ![i] = "returned"]
    /\ entry' = [entry EXCEPT ![i] = Unavailable]
    /\ UNCHANGED <<world, targets, phase, observed, scanned, report>>

(* Mutant: the exception itself is kept as the target's entry.             *)
CallRaisesInto(i) ==
    /\ phase = "scanning" /\ i \in Kept /\ call[i] = "pending"
    /\ call' = [call EXCEPT ![i] = "raised"]
    /\ entry' = [entry EXCEPT ![i] = None]
    /\ UNCHANGED <<world, targets, phase, observed, scanned, report>>

(* _verify_one raises; gather keeps the exception as this target's result. *)
CallRaises(i) ==
    /\ phase = "scanning" /\ i \in Kept /\ call[i] = "pending"
    /\ call' = [call EXCEPT ![i] = "raised"]
    /\ UNCHANGED <<world, targets, phase, entry, observed, scanned, report>>

(* Nmap scans the target and its output is read.  With -Pn it takes every  *)
(* host for up, unless an ARP probe on the local network went unanswered.  *)
(* A host that exceeds --host-timeout is listed as up with no ports.       *)
(* ports_scanned echoes every port of the target.                          *)
ScanParsed(i) ==
    LET host == targets[i].host
        spec == PortSpec(targets[i].ports)
    IN  /\ phase = "scanning" /\ i \in Kept /\ call[i] = "pending"
        /\ Accepted(spec)
        /\ \E down \in {FALSE, dropping[host] = Port}, timedOut \in BOOLEAN :
              LET unanswered == IF timedOut THEN Port ELSE dropping[host]
              IN  /\ entry' = [entry EXCEPT ![i] =
                                  IF down THEN Unreachable ELSE Examined(targets[i].ports)]
                  /\ observed' = [observed EXCEPT ![i] =
                                  IF timedOut THEN {} ELSE Detected(host, spec)]
                  /\ scanned' = [scanned EXCEPT ![i] =
                                  [present |-> {c \in present : About[c].host = host},
                                   dropped |-> unanswered]]
        /\ call' = [call EXCEPT ![i] = "returned"]
        /\ UNCHANGED <<world, targets, phase, report>>

(* Mutant: a raised call is waited for.                                    *)
EveryCallReturned == \A i \in Kept : call[i] = "returned"

(* gather returns when every call has returned or raised.                  *)
EveryCallBack == \A i \in Kept : call[i] # "pending"

(* Mutant: an exception counts as an examined host without ports.          *)
EntryOfAny(i) == IF call[i] = "raised" THEN Examined({}) ELSE entry[i]

(* The answer is put together, target by target.                           *)
EntryOf(i) == IF call[i] = "raised" THEN Unavailable ELSE entry[i]

(* Mutant: one raised call loses what the others observed.                 *)
AssembleAllOrNothing ==
    /\ phase = "scanning"
    /\ EveryCallBack
    /\ phase' = "answered"
    /\ report' = [coverage |-> [h \in Host |->
                      IF \E i \in Kept : targets[i].host = h
                      THEN EntryOf(CHOOSE i \in Kept : targets[i].host = h)
                      ELSE None],
                  observed |-> IF \E i \in Kept : call[i] = "raised" THEN {}
                               ELSE UNION {observed[i] : i \in Kept}]
    /\ UNCHANGED <<world, targets, call, entry, observed, scanned>>

Answer ==
    [coverage |-> [h \in Host |->
         IF \E i \in Kept : targets[i].host = h
         THEN EntryOf(CHOOSE i \in Kept : targets[i].host = h)
         ELSE None],
     observed |-> UNION {observed[i] : i \in Kept}]

Assemble ==
    /\ phase = "scanning"
    /\ EveryCallBack
    /\ phase' = "answered"
    /\ report' = Answer
    /\ UNCHANGED <<world, targets, call, entry, observed, scanned>>

(* The MCP session fails, with calls outstanding or while it is closed:    *)
(* open_tools yields a second time, which contextlib rejects, and the      *)
(* answer is lost.                                                         *)
CloseFails ==
    /\ phase = "scanning"
    /\ phase' = "failed"
    /\ UNCHANGED <<world, targets, call, entry, observed, scanned, report>>

-----------------------------------------------------------------------------
WorldStep ==
    \/ \E c \in Candidate : ServiceChanges(c)
    \/ \E host \in Host, ports \in Silences : FirewallChanges(host, ports)

CallStep(i) == ScanUnusable(i) \/ CallRaises(i) \/ ScanParsed(i)

Progress ==
    \/ OpenTools
    \/ \E i \in DOMAIN targets : CallStep(i)
    \/ Assemble

PassStep == Progress \/ CloseFails

Next == WorldStep \/ PassStep

Spec == Init /\ [][Next]_vars

(* Every wait in a pass has a timeout: Nmap's host timeout, the scan       *)
(* timeout of the MCP server, the read timeout of the MCP client.  Nothing *)
(* makes a session fail.                                                   *)
FairSpec == Spec /\ WF_vars(Progress)

-----------------------------------------------------------------------------
Answered == phase = "answered"

(* What a request says about findings, the way the backend groups them.    *)
AskedFor ==
    UNION {{[asset |-> targets[i].host, port |-> p, candidate |-> None] : p \in targets[i].ports}
              : i \in DOMAIN targets}

(* The answer is one of those FindingVerification lets the ai.engine give: *)
(* no entry for a host nobody asked about or beyond MAX_TARGETS, and per   *)
(* target all of its ports or none.                                        *)
AnswerIsEngineReport == Answered => report \in EngineReports(AskedFor)

(* For every port that was scanned and answered, the report is the truth   *)
(* of the moment its host was scanned, whatever failed elsewhere, changed  *)
(* later or finished in another order: a candidate of the port is observed *)
(* exactly if it was there.  Of what is derived once for a host, nothing   *)
(* is observed that was not there, and something if anything was.          *)
ScannedPortsAreReportedTruly ==
    Answered =>
        \A i \in DOMAIN targets : scanned[i] # None =>
            LET shown == Shows(scanned[i].present, targets[i].host,
                               PortSpec(targets[i].ports) \ scanned[i].dropped)
                marks == {c \in Candidate : About[c].seen = "host" /\ About[c].host = targets[i].host}
            IN  /\ \A c \in Shows(Candidate, targets[i].host,
                                   PortSpec(targets[i].ports) \ scanned[i].dropped) :
                       About[c].seen = "port" => (c \in report.observed <=> c \in shown)
                /\ marks \cap report.observed \subseteq shown
                /\ marks \cap shown # {} => marks \cap report.observed # {}

(* "One failing target does not sink the others": a host whose scan was    *)
(* read is reported as scanned, and only such a host covers anything.      *)
OnlyReadScansCover ==
    Answered =>
        \A h \in Host :
            /\ (\E p \in Port : report.coverage[h] # None /\ Covers(report.coverage[h], p))
               => \E i \in Kept : targets[i].host = h /\ scanned[i] # None
            /\ \A i \in Kept : targets[i].host = h /\ scanned[i] # None
               => report.coverage[h].scan_ok

(* Every request is answered or fails; no target is waited for for ever.   *)
EveryRequestEnds == phase = "asked" ~> phase \in {"answered", "failed"}

-----------------------------------------------------------------------------
(* What the documentation promises and the re-check refutes.               *)

(* services/verification.py: "a finding may only be resolved when coverage *)
(* proves it was genuinely re-checked".  A finding that a scanner asserted *)
(* and that is still there, on a port that was scanned and answered, is    *)
(* not judged resolved.                                                    *)
AssertedFindingsAreRechecked ==
    Answered =>
        \A i \in Kept : scanned[i] # None =>
            \A c \in scanned[i].present :
                (/\ About[c].host = targets[i].host
                 /\ About[c].port \in PortSpec(targets[i].ports) \ scanned[i].dropped)
                => Decide("new", [asset |-> About[c].host, port |-> About[c].port,
                                  candidate |-> c], report) # "resolved"
=============================================================================
