--------------------------- MODULE MCAgentRuntime ---------------------------
(***************************************************************************)
(* TLC instance of AgentRuntime: on one node the resource runs out first,  *)
(* on the other the number of concurrent executions.                       *)
(***************************************************************************)
EXTENDS AgentRuntime, TLC

CONSTANTS big, small

MCNodes == {big, small}
MCCapacity == (big :> 2) @@ (small :> 2)
MCConcurrency == (big :> 3) @@ (small :> 1)

MCSymmetry == Permutations(Attempts)
============================================================================
