-------------------------- MODULE MCTaskLifecycle --------------------------
(***************************************************************************)
(* TLC instance of TaskLifecycle: every graph on MCSize tasks, up to the   *)
(* names of the tasks, under both failure policies.  Neighbours in the     *)
(* numbering are joined by a data edge, other pairs by a dependency.       *)
(***************************************************************************)
EXTENDS TaskLifecycle

CONSTANT MCSize   \* the number of tasks

MCTasks == 1 .. MCSize
MCPorts == {"out"}

Pairs == {<<i, j>> \in MCTasks \X MCTasks : i < j}
DataPairs == {<<i, j>> \in Pairs : j = i + 1}

MCWorkflow(links, policy) ==
  [parents |-> [t \in MCTasks |-> {p \in MCTasks : <<p, t>> \in links}],
   edges |-> {<<pair[1], "out", pair[2]>> : pair \in links \cap DataPairs},
   declared |-> [t \in MCTasks |-> IF \E pair \in links \cap DataPairs : pair[1] = t
                                   THEN MCPorts ELSE {}],
   failFast |-> policy]

MCWorkflows == {MCWorkflow(links, policy) : links \in SUBSET Pairs, policy \in BOOLEAN}
============================================================================
