-------------------------- MODULE MCDagValidation --------------------------
(***************************************************************************)
(* Submissions for DagValidation: every graph on three tasks, with up to   *)
(* two data edges that are parallel to dependencies, against them, loops,  *)
(* competing for one input, of the wrong type or without a producer.       *)
(***************************************************************************)
EXTENDS DagValidation

MCTasks == 1 .. 3

\* Dependencies between different tasks, and the edges to choose from.
MCLinks == {<<p, t>> \in MCTasks \X MCTasks : p # t}

MCEdge(p, t, slot, type) ==
  [producer |-> p, port |-> "a", consumer |-> t, slot |-> slot, type |-> type]

Parallel == MCEdge(1, 2, "a", "x")
Second == MCEdge(1, 2, "b", "x")
Rival == MCEdge(3, 2, "a", "x")
Back == MCEdge(2, 1, "a", "x")
Loop == MCEdge(3, 3, "a", "x")
Mistyped == MCEdge(1, 3, "a", "y")
Orphan == MCEdge(0, 3, "b", "x")

MCEdges ==
  {<<>>, <<Parallel>>, <<Back>>, <<Loop>>, <<Mistyped>>, <<Orphan>>,
   <<Parallel, Second>>, <<Parallel, Rival>>, <<Second, Rival>>,
   <<Parallel, Back>>, <<Parallel, Parallel>>}

\* The ids in a set of tasks, in their order.
InOrder(set) == SelectSeq(<<1, 2, 3>>, LAMBDA t : t \in set)

MCSubmissions ==
  {[deps |-> [t \in MCTasks |-> InOrder({p \in MCTasks : <<p, t>> \in links})],
    in |-> [t \in MCTasks |-> [port \in {"a", "b"} |-> "x"]],
    out |-> [t \in MCTasks |-> [port \in {"a"} |-> "x"]],
    edges |-> edges] :
     links \in SUBSET MCLinks, edges \in MCEdges}
============================================================================
