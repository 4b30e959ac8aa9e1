--------------------------- MODULE PlanEvaluation ---------------------------
(***************************************************************************)
(* The metrics of src/mars/optimizers/evaluation.py, of a plan and of a    *)
(* single candidate, and the objective key a policy makes of them.         *)
(*                                                                         *)
(* A ratio is given by its numerator where the denominator is the same for *)
(* all plans of a problem; utilization is counted in parts of Whole.       *)
(***************************************************************************)
EXTENDS Materialization

CONSTANT Whole   \* divisible by every capacity

ASSUME WholeAssumption ==
  /\ Whole \in Nat \ {0}
  /\ \A p \in Problems, n \in Nodes, r \in Resources : Whole % Max({1, p.capacity[n][r]}) = 0

\* Assignments that are not dropped; a dropped one has no node.
Assigned(plan) == {a \in ToSet(plan.assigned) : a.node # 0}

Positive(x) == Max({0, x})

SumOver(f(_), S) == MapThenSumSet(f, S)

\* Peak utilization: the highest load of a resource of a node from now on, looked
\* at wherever a reservation starts or ends.
Peak(planned) ==
  LET all == problem.carryIn \cup planned
      points(n) == {problem.now} \cup
        {u \in UNION {{Max({problem.now, x.start}), x.finish} : x \in {y \in all : y.node = n}} :
           u >= problem.now}
      used(n, u, r) == (Background(n, r) + Load(ActiveAt(all, n, u), r))
                         * (Whole \div Max({1, problem.capacity[n][r]}))
  IN Max({0} \cup UNION {{used(n, u, r) : u \in points(n), r \in Resources} : n \in Nodes})

\* Offloading is called for, but the node is no edge; or it is not, and the node
\* is not the source.
Mismatch(t, n) ==
  IF Contains(problem.place[t].preferred, "edge") \/ problem.busy[problem.source[t]] \/ problem.heavy[t]
  THEN Kind[n] # "edge" ELSE n # problem.source[t]

Away(a) == Cardinality(a.locations \ {a.node})
Count(holds) == IF holds THEN 1 ELSE 0

\* What an assignment, or a materialized candidate, adds to an additive metric.
Share(m, a) ==
  CASE m = "deadline"      -> Positive(a.finish + problem.tail[a.task] - problem.deadline[a.task])
    [] m = "completion"    -> a.finish
    [] m = "energy"        -> a.energy
    [] m = "communication" -> a.communication
    [] m = "locality"      -> 2 * Away(a)
    [] m = "non_source"    -> Count(a.node # problem.source[a.task])
    [] m = "non_edge"      -> Count(Kind[a.node] # "edge")
    [] m = "preference"    -> Rank(a.task, a.node) - 1
    [] m = "mismatch"      -> Count(Mismatch(a.task, a.node))
    [] m = "success"       -> problem.priority[a.task] * a.success

PlanMetric(m, plan) ==
  CASE m = "makespan"      -> Max({a.finish : a \in Assigned(plan)} \cup
                                    IF Assigned(plan) = {} THEN {problem.now} ELSE {})
    [] m = "critical"      -> Max({a.finish + problem.tail[a.task] : a \in Assigned(plan)} \cup
                                    IF Assigned(plan) = {} THEN {problem.now} ELSE {})
    [] m = "drops"         -> Cardinality(ToSet(plan.assigned) \ Assigned(plan)) + Len(plan.deferred)
    [] m = "utilization"   -> Peak(plan.reservations)
    [] OTHER               -> LET share(a) == Share(m, a) IN SumOver(share, Assigned(plan))

\* The rank of a single candidate: its share, or a stand-in for a global metric.
CandidateMetric(m, c) ==
  CASE m = "makespan"      -> c.finish
    [] m = "critical"      -> c.finish + problem.tail[c.task]
    [] m = "drops"         -> 0
    [] m = "utilization"   -> Peak({Reservation(c, Max({c.ready, c.finish - c.compute}))})
    [] OTHER               -> Share(m, c)

---------------------------------------------------------------------------

\* The priorities that occur, in their order.
Priorities(values) ==
  LET all == {values[i].priority : i \in DOMAIN values}
  IN [k \in 1 .. Cardinality(all) |-> CHOOSE p \in all : Cardinality({q \in all : q < p}) = k - 1]

\* _aggregate_objective_key: one sum, or one for each priority in its order.
Aggregate(values) ==
  LET sum(S) == SumFunctionOnSet([i \in DOMAIN values |-> values[i].value], S)
      priorities == Priorities(values)
  IN IF problem.weighted THEN <<sum(DOMAIN values)>>
     ELSE [k \in DOMAIN priorities |->
             sum({i \in DOMAIN values : values[i].priority = priorities[k]})]

Objectives(Metric(_)) ==
  [i \in DOMAIN problem.objectives |->
     LET o == problem.objectives[i]
     IN [priority |-> o.priority,
         value |-> Metric(o.metric) * o.weight * IF o.maximize THEN -1 ELSE 1]]

\* How far a plan is beyond the bound of a constraint.
Violation(c, plan) ==
  Positive(IF c.atMost THEN PlanMetric(c.metric, plan) - c.bound
                       ELSE c.bound - PlanMetric(c.metric, plan))

HardViolation(plan) ==
  \E c \in ToSet(problem.constraints) : c.hard /\ Violation(c, plan) > 0

\* The objective key of a plan, with the penalties of soft constraints.
ObjectiveKey(plan) ==
  LET Metric(m) == PlanMetric(m, plan)
      terms == Objectives(Metric)
      soft == {i \in DOMAIN problem.constraints : ~problem.constraints[i].hard}
      penalty(c) == [priority |-> c.priority, value |-> Violation(c, plan) * c.penalty]
  IN Aggregate([i \in DOMAIN terms \cup {-j : j \in soft} |->
                  IF i > 0 THEN terms[i] ELSE penalty(problem.constraints[-i])])

\* candidate_proxy_key
ProxyKey(c) == LET Metric(m) == CandidateMetric(m, c) IN Aggregate(Objectives(Metric))
=============================================================================
