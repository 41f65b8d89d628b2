--------------------------- MODULE MCAgentLifecycle ---------------------------
(* Instances of AgentLifecycle for TLC. *)
EXTENDS AgentLifecycle, TLC

CONSTANTS a1, a2, r1, r2

OneAgent  == <<a1>>
TwoAgents == <<a1, a2>>
AnyRequest == Permutations(Requests)

\* A request's variables are kept apart only while one of its steps reads them.
Comes(r, steps) == todo[r] # <<>> /\ Head(todo[r])[1] \in steps
Counts(r) == \E i \in DOMAIN todo[r] : todo[r][i][1] = "admit"
OfUse == [r \in Requests |->
            <<IF todo[r] # <<>> THEN op[r] ELSE "show",
              IF Counts(r) THEN count[r] ELSE 0,
              IF Comes(r, {"keep", "refresh", "guard"}) THEN <<status[r], dirty[r]>> ELSE <<>>,
              Comes(r, {"stopEnforcer", "stopped"}) /\ bad[r]>>]
Observed == <<agentVars, ghostVars, crowd, todo, begun, faults, OfUse>>
=============================================================================
