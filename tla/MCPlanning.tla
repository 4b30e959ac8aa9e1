----------------------------- MODULE MCPlanning -----------------------------
(* A robot (1), an edge node (2) and two relays (3, 4); two tasks whose data  *)
(* are on the robot.  Every problem changes one or two things of Base.        *)
EXTENDS Planning

MCFrom == <<1, 1, 4, 3, 1, 2, 3>>
MCTo   == <<4, 3, 2, 2, 2, 1, 4>>
MCKind == <<"robot", "edge", "cloud", "cloud">>
MCCapabilities == [n \in 1 .. 4 |-> IF n = 2 THEN {"vision"} ELSE {}]

Direct == [up |-> 1 .. 4, bandwidth |-> [l \in 1 .. 7 |-> 2],
           latency |-> <<1, 0, 0, 1, 0, 0, 0>>, pace |-> [l \in 1 .. 7 |-> 1]]
\* Three paths over the relays, as fast as each other for a payload of 1.
Tie    == [Direct EXCEPT !.bandwidth[5] = 0]
\* The first label of node 4 is stale before it is looked at.
Detour == [Tie EXCEPT !.bandwidth[4] = 0, !.latency[1] = 2, !.latency[3] = 2]
Narrow == [Direct EXCEPT !.bandwidth[5] = 1]
NoEdge == [Direct EXCEPT !.up = {1, 3, 4}]
MCNetworks == {Direct, Tie, Detour, Narrow, NoEdge}

Units(k) == [r \in {"cpu", "memory"} |-> k]
Carry(i, n, start, finish, k) ==
  [id |-> <<"carry", i>>, task |-> 0, node |-> n, start |-> start, finish |-> finish,
   demand |-> Units(k)]

Anywhere == [pinned |-> 0, kinds |-> {"edge"}, preferred |-> <<"edge">>, allowSource |-> TRUE,
             allowRobots |-> FALSE, allowFallback |-> TRUE, safety |-> FALSE, capabilities |-> {}]
Work(here, there) ==
  [n \in 1 .. 4 |-> [supported |-> n # 4, compute |-> IF n = 1 THEN here ELSE there,
                     energy |-> IF n = 1 THEN 2 ELSE 1, success |-> IF n = 1 THEN 9 ELSE 8,
                     demand |-> Units(1)]]
Objective(m) == [metric |-> m, weight |-> 1, maximize |-> m = "success", priority |-> 1]
Second(m) == [Objective(m) EXCEPT !.priority = 2]
Limit(m, bound, hard) ==
  [metric |-> m, atMost |-> TRUE, bound |-> bound, hard |-> hard,
   penalty |-> IF hard THEN 0 ELSE 2, priority |-> 1]

Base ==
  [now |-> 1, network |-> Direct, tasks |-> <<1, 2>>, source |-> <<1, 1>>, tail |-> <<0, 1>>,
   hasTails |-> FALSE, arrival |-> <<1, 0>>, ready |-> <<1, 0>>, deadline |-> <<4, 4>>,
   priority |-> <<1, 2>>, place |-> <<Anywhere, Anywhere>>, bound |-> <<<<>>, <<>>>>,
   ports |-> <<{}, {}>>, parents |-> <<{}, {}>>, inputSize |-> <<1, 1>>, bandwidth |-> <<0, 0>>,
   work |-> <<Work(3, 1), Work(3, 2)>>, transferEnergy |-> 1,
   excluded |-> <<{}, {}>>, free |-> [n \in 1 .. 4 |-> 0], linkFree |-> [l \in 1 .. 7 |-> 0],
   concurrency |-> [n \in 1 .. 4 |-> 2], capacity |-> [n \in 1 .. 4 |-> Units(2)],
   observed |-> [n \in 1 .. 4 |-> Units(0)], carryIn |-> {}, battery |-> <<>>,
   busy |-> [n \in 1 .. 4 |-> FALSE], heavy |-> <<FALSE, TRUE>>,
   objectives |-> <<Objective("completion"), Second("energy")>>, constraints |-> <<>>,
   weighted |-> FALSE, maxIterations |-> 0]

Mixed == <<Objective("makespan"), Objective("communication"), Second("locality"),
           Second("mismatch"), Second("success")>>

MCProblems == {
  Base,
  [Base EXCEPT !.network = Tie, !.concurrency[2] = 1, !.objectives = <<Objective("deadline")>>],
  [Base EXCEPT !.network = Detour, !.linkFree[3] = 3, !.hasTails = TRUE,
               !.objectives = <<Objective("critical"), Second("non_source")>>],
  [Base EXCEPT !.network = Narrow, !.bandwidth = <<2, 3>>, !.objectives = Mixed],
  [Base EXCEPT !.network = NoEdge, !.place[2].allowSource = FALSE,
               !.objectives = <<Objective("drops"), Second("completion")>>],
  \* A gap in the calendar of the edge, and one that opens late.
  [Base EXCEPT !.capacity[2] = Units(3), !.concurrency[2] = 3, !.place[1].allowSource = FALSE,
               !.carryIn = {Carry(1, 2, 2, 3, 2), Carry(2, 2, 1, 5, 1)}],
  [Base EXCEPT !.carryIn = {Carry(1, 2, 3, 4, 2)}, !.place[2].pinned = 2, !.free[2] = 1,
               !.objectives = <<Objective("utilization"), Second("completion")>>],
  \* The load the edge reports includes the carry-in.
  [Base EXCEPT !.capacity[2] = Units(3), !.observed[2] = Units(2), !.weighted = TRUE,
               !.carryIn = {Carry(1, 2, 0, 2, 1)}, !.objectives = Mixed],
  \* The edge reports more than it can bear.
  [Base EXCEPT !.observed[2] = Units(2), !.place[2].allowSource = FALSE],
  [Base EXCEPT !.battery = <<3>>, !.objectives = <<Objective("communication")>>,
               !.work[2][2].supported = FALSE, !.work[1][1].energy = 3],
  [Base EXCEPT !.battery = <<3, 9>>, !.objectives = <<Objective("non_edge"), Second("preference")>>,
               !.place[1].preferred = <<"robot", "edge">>],
  [Base EXCEPT !.objectives = <<Objective("energy")>>, !.constraints = <<Limit("makespan", 3, TRUE)>>],
  [Base EXCEPT !.weighted = TRUE,
               !.constraints = <<Limit("deadline", 0, FALSE), Limit("energy", 4, TRUE)>>],
  [Base EXCEPT !.maxIterations = 1, !.battery = <<3>>,
               !.objectives = <<Objective("communication"), Second("completion")>>],
  [Base EXCEPT !.maxIterations = 2, !.objectives = <<Objective("non_edge"), Second("completion")>>],
  \* Two inputs, one of them an artifact on the edge.
  [Base EXCEPT !.ports[2] = {"a", "b"}, !.parents[2] = {1}, !.inputSize[2] = 2,
               !.bound[2] = <<[port |-> "a", artifact |-> [id |-> 7, node |-> 2, size |-> 1]]>>,
               !.tasks = <<2, 1>>, !.network = Tie, !.excluded[1] = {2}],
  \* Constraints that nodes or networks do not meet.
  [Base EXCEPT !.place[1] = [Anywhere EXCEPT !.capabilities = {"vision"}, !.allowFallback = FALSE],
               !.place[2] = [Anywhere EXCEPT !.safety = TRUE], !.work[1][2].demand = Units(3)]
}
=============================================================================
