---------------------------- MODULE MCAgentRuns ----------------------------
(* One run, a page that asks for one agent, and two requests of other clients
   for the same agent or another one. *)
EXTENDS AgentRuns, TLC

CONSTANTS a1, a2, pt, c1, c2, obs

AskedFor == pt :> a1
Answers2 == {<<>>, <<obs, obs>>}
Ask(agent, named, persist) == [agent |-> agent, named |-> named, persist |-> persist]
Requests3 == {Ask(a1, TRUE, TRUE), Ask(a2, TRUE, TRUE), Ask(a2, FALSE, FALSE)}

(* Bound: no more than two requests, of the page or of others. *)
AtMostTwo == Cardinality({t \in Task : task[t].phase # "idle"}) <= 2

Symmetry == Permutations({c1, c2})
=============================================================================
