--------------------------- MODULE PlanValidation ---------------------------
(***************************************************************************)
(* validate_plan (src/mars/optimizers/base.py): the independent check of   *)
(* every plan, whoever made it.  The checks of identities and versions are *)
(* in SolveOrchestration.                                                  *)
(*                                                                         *)
(* A plan has assignments, with node 0 for a dropped task, the ids of the  *)
(* deferred tasks, and one reservation for every computation and transfer. *)
(***************************************************************************)
EXTENDS PlanEvaluation

Ready == ToSet(problem.tasks)

CandidateOf(a) == {c \in candidates : c.task = a.task /\ c.node = a.node}

\* Every task of the epoch is assigned once, or deferred.
CoversEpoch(plan) ==
  LET assigned == {a.task : a \in ToSet(plan.assigned)}
  IN /\ Cardinality(assigned) = Len(plan.assigned)
     /\ Cardinality(ToSet(plan.deferred)) = Len(plan.deferred)
     /\ assigned \cap ToSet(plan.deferred) = {}
     /\ assigned \cup ToSet(plan.deferred) = Ready

\* A dropped task costs nothing and is not dropped before it has arrived.
DropValid(a) ==
  /\ a.finish = a.start /\ a.compute = 0 /\ a.communication = 0 /\ a.energy = 0
  /\ a.start >= Max({problem.now, problem.arrival[a.task]})

\* An assignment repeats the estimates of a feasible candidate.
AssignmentValid(a) ==
  /\ a.finish >= a.start
  /\ IF a.node = 0 THEN DropValid(a)
     ELSE \E c \in CandidateOf(a) :
            /\ a.start >= c.ready
            /\ a.compute = c.compute /\ a.energy = c.energy /\ a.success = c.success
            /\ a.locations = c.locations

\* The energy all assignments draw from a node that runs on a battery.
EnergyValid(plan) ==
  LET Energy(a) == a.energy
  IN \A n \in DOMAIN problem.battery :
       SumOver(Energy, {a \in Assigned(plan) : a.node = n}) <= problem.battery[n]

\* One reservation for every assignment, of its node, demand and times.
ReservationsValid(plan) ==
  /\ Cardinality({x.id : x \in plan.reservations}) = Cardinality(plan.reservations)
  /\ {x.id : x \in plan.reservations} \cap {x.id : x \in problem.carryIn} = {}
  /\ {x.task : x \in plan.reservations} = {a.task : a \in Assigned(plan)}
  /\ Cardinality(plan.reservations) = Cardinality(Assigned(plan))
  /\ \A x \in plan.reservations, a \in Assigned(plan) : x.task = a.task =>
       /\ x.node = a.node
       /\ \A c \in CandidateOf(a) : x.demand = c.demand /\ x.finish - x.start = c.compute
       /\ x.start >= a.start /\ x.start >= problem.free[x.node]
       /\ x.finish = a.finish

\* Bug: only the moments at which the plan itself starts something are looked at.
CapacityPoints_OwnStarts(all, planned) == {x.start : x \in planned}

\* The moments at which the load of a node may change from now on.
CapacityPoints(all, planned) ==
  {problem.now} \cup
  {u \in UNION {{Max({problem.now, x.start}), x.finish} : x \in all} : u >= problem.now}

\* _validate_node_capacity: wherever the plan adds to the load of a node, the
\* node holds it together with the carry-in; the carry-in alone is not judged.
CapacityValid(plan) ==
  \A n \in {x.node : x \in plan.reservations \cup problem.carryIn} :
    LET planned == {x \in plan.reservations : x.node = n}
        all == planned \cup {x \in problem.carryIn : x.node = n}
    IN \A u \in CapacityPoints(all, planned) :
         ActiveAt(planned, n, u) # {} => Fits(n, ActiveAt(all, n, u))

\* _validate_transfer_reservations, of one assignment: its transfers are those of
\* its candidate, and over before the computation begins.
TransfersOf(plan, a) == {x \in plan.transfers : x.task = a.task}

TransfersValid(plan) ==
  /\ Cardinality({x.id : x \in plan.transfers}) = Cardinality(plan.transfers)
  /\ \A x \in plan.transfers :
       /\ x.task \in {a.task : a \in Assigned(plan)}
       /\ x.path # <<>> /\ ToSet(x.path) \subseteq Links
       /\ \A l \in ToSet(x.path) : x.start >= problem.linkFree[l]
  /\ \A a \in Assigned(plan), c \in candidates : c.task = a.task /\ c.node = a.node =>
       LET own == TransfersOf(plan, a)
           Length(x) == x.finish - x.start
           moves == {y \in ToSet(c.transfers) : y.path # <<>> /\ y.time > 0}
           starts == {x.start : x \in {y \in plan.reservations : y.task = a.task}}
       IN /\ {[id |-> x.transfer, path |-> x.path, time |-> Length(x)] : x \in own} = moves
          /\ Cardinality(own) = Cardinality(moves)
          /\ a.communication = MapThenSumSet(Length, own)
          /\ \A x \in own, s \in starts : x.finish <= s
          /\ a.start = Min(starts \cup {x.start : x \in own})

\* No two transfers hold a link at the same time.
LinksValid(plan) ==
  \A x, y \in plan.transfers :
    x # y /\ ToSet(x.path) \cap ToSet(y.path) # {} => x.finish <= y.start \/ y.finish <= x.start

PlanValid(plan) ==
  /\ plan.status \notin {"infeasible", "error"}
  /\ problem.maxIterations > 0 => plan.iterations <= problem.maxIterations
  /\ CoversEpoch(plan)
  /\ \A a \in ToSet(plan.assigned) : AssignmentValid(a)
  /\ EnergyValid(plan)
  /\ ReservationsValid(plan)
  /\ CapacityValid(plan)
  /\ TransfersValid(plan) /\ LinksValid(plan)
  /\ ~HardViolation(plan)
=============================================================================
