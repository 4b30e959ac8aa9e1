------------------------- MODULE MCScenePreflight --------------------------
(***************************************************************************)
(* TLC instance of ScenePreflight: every submission of MCDagValidation in  *)
(* a scene without load, and four graphs in scenes with two nodes, whose   *)
(* tasks need one resource more than the other, whose loads leave room for *)
(* some of them, and whose links go both ways, one way or are missing.     *)
(***************************************************************************)
EXTENDS ScenePreflight, MCDagValidation

MCNodes == 1 .. 2
MCWorkflows == MCSubmissions

\* Independent tasks, a chain, a fork and a join, without data edges.
Shaped(links) ==
  CHOOSE w \in MCWorkflows :
    w.edges = <<>> /\ \A t \in MCTasks : Items(w.deps[t]) = {l[1] : l \in {k \in links : k[2] = t}}

Shapes == {Shaped({}), Shaped({<<1, 2>>, <<2, 3>>}), Shaped({<<1, 2>>, <<1, 3>>}),
           Shaped({<<1, 3>>, <<2, 3>>})}

Capacity == [n \in MCNodes |-> [r \in Resources |-> 20]]
Amount(cpu, gpu) == [r \in Resources |-> IF r = "cpu" THEN cpu ELSE gpu]

Scene(w, allowed, supported, need, initial, links) ==
  [submission |-> w, allowed |-> allowed, supported |-> supported,
   source |-> [t \in MCTasks |-> 1],
   wide |-> [t \in MCTasks |-> {<<n, n>> : n \in MCNodes} \cup links],
   need |-> [t \in MCTasks |-> [n \in MCNodes |-> need[t]]],
   capacity |-> Capacity, load |-> initial]

Plain ==
  {Scene(w, [t \in MCTasks |-> <<1, 2>>], [t \in MCTasks |-> MCNodes],
         [t \in MCTasks |-> Amount(1, 0)], [n \in MCNodes |-> Amount(0, 0)], {}) : w \in MCWorkflows}

Loaded ==
  {Scene(w, <<<<1, 2>>, <<2, 1>>, third>>, <<first, MCNodes, MCNodes>>,
         <<needs[1], needs[2], Amount(12, 0)>>, initial, links) :
     w \in Shapes,
     first \in {{1}, MCNodes}, third \in {<<1>>, <<2>>},
     needs \in {Amount(4, 12), Amount(12, 4), Amount(20, 21)} \X {Amount(4, 12), Amount(12, 4)},
     initial \in [MCNodes -> {Amount(0, 0), Amount(15, 5), Amount(5, 15)}],
     links \in SUBSET {<<1, 2>>, <<2, 1>>}}

MCScenes == Plain \cup Loaded
=============================================================================
