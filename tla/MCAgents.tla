------------------------------ MODULE MCAgents ------------------------------
(***************************************************************************)
(* Two reactions that invoke the same agent at once.                       *)
(***************************************************************************)
EXTENDS Agents, TLC

CONSTANTS C1, C2

MCCallers == {C1, C2}
MCPolicies == {"truncate", "summarize"}
MCCallCounts == {2}
MCMayFail == {"compose", "invoke"}
\* Only a summary depends on the ledger: without it nothing is committed.
MCEventsMatter == ledger > 0 => policy = "summarize"
MCSymmetry == Permutations(MCCallers)
=============================================================================
