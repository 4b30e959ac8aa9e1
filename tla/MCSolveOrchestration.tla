------------------------ MODULE MCSolveOrchestration ------------------------
(***************************************************************************)
(* TLC instance of SolveOrchestration.  "exact" is a stateful optimizer    *)
(* bound to one formulation (as binary_offload), "rules" one that solves   *)
(* with and without formulations (as heuristic), and "plain" a version of  *)
(* it that knows no formulation and has the same optimizer id.             *)
(***************************************************************************)
EXTENDS SolveOrchestration, TLC

MCOptimizers == {"exact", "rules", "plain"}
MCId == [o \in MCOptimizers |-> IF o = "plain" THEN "rules" ELSE o]
MCSupports == ("exact" :> {"F"}) @@ ("rules" :> {"F"}) @@ ("plain" :> {})
MCDefault == ("exact" :> "F") @@ ("rules" :> "none") @@ ("plain" :> "none")
=============================================================================
