--------------------------- MODULE MCEngineVerify ---------------------------
(***************************************************************************)
(* Small instances of EngineVerify for TLC.                                *)
(***************************************************************************)
EXTENDS EngineVerify, TLC

CONSTANTS h1, h2, h3, c1, c2, c3

(* Instructions in the banners of two ports of h1, an exposed service of   *)
(* h2.                                                                     *)
MarksAndService == c1 :> [host |-> h1, port |-> 7, seen |-> "host"]
                @@ c2 :> [host |-> h1, port |-> 80, seen |-> "host"]
                @@ c3 :> [host |-> h2, port |-> 7, seen |-> "port"]

(* A service of h1, and what OpenVAS said about it.                        *)
ServiceAndAssertion == c1 :> [host |-> h1, port |-> 7, seen |-> "port"]
                    @@ c2 :> [host |-> h1, port |-> 7, seen |-> "scanner"]

(* No port, a service or all of the host is silent.                        *)
SomeSilences == {{}, {7}, Port}

(* One target with more than MAX_PORTS_PER_TARGET ports and one with a     *)
(* single port; more targets than MAX_TARGETS; ports whose specification   *)
(* is too long.                                                            *)
BothHosts == <<[host |-> h1, ports |-> {7, 80, 443}], [host |-> h2, ports |-> {7}]>>
ThreeHosts == <<[host |-> h2, ports |-> {7}], [host |-> h1, ports |-> {7}],
                [host |-> h3, ports |-> {7}]>>
LongPort == <<[host |-> h1, ports |-> {7, 443}], [host |-> h2, ports |-> {7}]>>
JustOne == <<[host |-> h1, ports |-> {7}]>>

ThreeRequests == {BothHosts, ThreeHosts, LongPort}
OneRequest == {JustOne}
=============================================================================
