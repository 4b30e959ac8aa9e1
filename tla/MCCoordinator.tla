--------------------------- MODULE MCCoordinator ---------------------------
(***************************************************************************)
(* TLC instances of Coordinator.  The workflows: independent tasks, a pair,*)
(* a chain, a fork and a join over typed data edges, with every task there *)
(* at once or the last one arriving later, under both failure policies.    *)
(* The last task must not be repeated.                                     *)
(***************************************************************************)
EXTENDS Coordinator

CONSTANT MCSize   \* the number of tasks

MCTasks == 1 .. MCSize
MCPorts == {"out"}

MCWorkflow(links, late, policy) ==
  [parents |-> [t \in MCTasks |-> {p \in MCTasks : <<p, t>> \in links}],
   edges |-> {<<pair[1], "out", pair[2]>> : pair \in links},
   declared |-> [t \in MCTasks |-> IF \E pair \in links : pair[1] = t
                                   THEN MCPorts ELSE {}],
   failFast |-> policy,
   arrival |-> [t \in MCTasks |-> IF t = late THEN t - 1 ELSE 0],
   deadline |-> [t \in MCTasks |-> 1],
   retryable |-> [t \in MCTasks |-> t # MCSize]]

\* Chain, fork and join restricted to the tasks there are.
Shapes == {{}, {<<1, 2>>, <<2, 3>>}, {<<1, 2>>, <<1, 3>>}, {<<1, 3>>, <<2, 3>>}}
MCShapes == {links \in Shapes : links \subseteq MCTasks \X MCTasks}
              \cup {{<<1, 2>>}}

MCWorkflows ==
  {MCWorkflow(links, late, policy) :
     links \in MCShapes, late \in {1, MCSize}, policy \in BOOLEAN}
============================================================================
