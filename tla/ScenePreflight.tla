--------------------------- MODULE ScenePreflight ---------------------------
(***************************************************************************)
(* What a generated scene goes through before it is handed out             *)
(* (src/backend/app/schedulability.py): its workflow is validated, its     *)
(* tasks are audited in the order of the index, and where only the         *)
(* generated background load is in the way, that load is lowered and the   *)
(* audit repeated, until nothing is left to repair.                        *)
(*                                                                         *)
(* The workflow does not change between audits, so its validation, which   *)
(* the code repeats with each of them, is run once.  Capacities and        *)
(* demands are integers; a load is a capacity times a utilization.         *)
(***************************************************************************)
EXTENDS DagValidation, SequencesExt

CONSTANTS Nodes, Resources, Scenes

(***************************************************************************)
(* A scene: its submission; for a task the nodes its constraints allow, in *)
(* their order, those that support its model and profile, its source, and  *)
(* its need of each resource of a node; the pairs of nodes between which   *)
(* the topology has a path as wide as the task requires; and the capacity  *)
(* and the background load of the nodes.                                   *)
(***************************************************************************)
ASSUME SceneAssumption == \A s \in Scenes :
  /\ s.submission \in Submissions
  /\ s.allowed \in [Tasks -> Seq(Nodes)] /\ s.supported \in [Tasks -> SUBSET Nodes]
  /\ s.source \in [Tasks -> Nodes] /\ s.wide \in [Tasks -> SUBSET (Nodes \X Nodes)]
  /\ s.need \in [Tasks -> [Nodes -> [Resources -> Nat]]]
  /\ s.capacity \in [Nodes -> [Resources -> Nat]]
  /\ s.load \in [Nodes -> [Resources -> Nat]]
  /\ \A n \in Nodes, r \in Resources : s.load[n][r] <= s.capacity[n][r]

VARIABLES
  scene,      \* the scene as it was generated
  load,       \* the background load the scene's resources now state
  locations,  \* feasible_locations of the current audit
  deficits,   \* the nodes a report names for a lack of background capacity only
  cursor,     \* tasks of the order seen by the current audit or repair
  repaired,   \* repaired_this_pass
  stage       \* "validate", "audit", "repair", "accepted", "refused" or "invalid"

preflightVars == <<scene, load, locations, deficits, cursor, repaired, stage>>

NoReports == [t \in Tasks |-> {}]

PreflightInit ==
  /\ scene \in Scenes /\ submission = scene.submission
  /\ Init
  /\ load = scene.load
  /\ locations = NoReports /\ deficits = NoReports
  /\ cursor = 0 /\ repaired = FALSE
  /\ stage = "validate"

ValidateStep == stage = "validate" /\ Next /\ UNCHANGED preflightVars

\* validate_workflow returns the index or raises.
Validated ==
  /\ stage = "validate"
  /\ verdict \in {"accepted", "malformed", "cyclic"}
  /\ stage' = IF verdict = "accepted" THEN "audit" ELSE "invalid"
  /\ UNCHANGED <<vars, scene, load, locations, deficits, cursor, repaired>>

---------------------------------------------------------------------------
(* The audit. *)

\* Bug: only the first location of a parent is tried.
Reaches_First(p, t, n) ==
  locations[p] # {}
    /\ <<SelectSeq(scene.allowed[p], LAMBDA m : m \in locations[p])[1], n>> \in scene.wide[t]

\* Some location of the parent has a path to the node.
Reaches(p, t, n) == \E m \in locations[p] : <<m, n>> \in scene.wide[t]

\* _representative_parent_artifacts and estimate_candidate: a task without
\* parents reads from its source.
Executable(t, n) ==
  /\ \A p \in parents[t] : Reaches(p, t, n)
  /\ parents[t] = {} => <<scene.source[t], n>> \in scene.wide[t]
  /\ n \in scene.supported[t]
  /\ \A r \in Resources : scene.need[t][n][r] <= scene.capacity[n][r]

\* Next to the background load there is room for the task.
HasRoom(t, n) ==
  \A r \in Resources : scene.need[t][n][r] <= scene.capacity[n][r] - load[n][r]

\* The report of the next task of the order.
Audit ==
  /\ stage = "audit" /\ cursor < Len(order)
  /\ LET t == order[cursor + 1]
         executable == {n \in ToSet(scene.allowed[t]) : Executable(t, n)}
     IN /\ locations' = [locations EXCEPT ![t] = {n \in executable : HasRoom(t, n)}]
        /\ deficits' = [deficits EXCEPT ![t] = {n \in executable : ~HasRoom(t, n)}]
  /\ cursor' = cursor + 1
  /\ UNCHANGED <<vars, scene, load, repaired, stage>>

Audited ==
  /\ stage = "audit" /\ cursor = Len(order)
  /\ stage' = "repair" /\ cursor' = 0 /\ repaired' = FALSE
  /\ UNCHANGED <<vars, scene, load, locations, deficits>>

---------------------------------------------------------------------------
(* The repair. *)

\* A twentieth of the capacity is kept free beside the task.
Spare(t, n, r) ==
  Max({0, scene.capacity[n][r] - scene.need[t][n][r] - scene.capacity[n][r] \div 20})

\* Bug: the utilizations are set, not lowered.
Lowered_Set(t, n) == [r \in Resources |-> Spare(t, n, r)]

\* The load of a node that leaves room for a task.
Lowered(t, n) == [r \in Resources |-> Min({load[n][r], Spare(t, n, r)})]

\* The report of the next task: if the task has no location, the first node
\* that only lacks free capacity is relieved.
Repair ==
  /\ stage = "repair" /\ cursor < Len(order)
  /\ LET t == order[cursor + 1]
         repairable == SelectSeq(scene.allowed[t], LAMBDA n : n \in deficits[t])
     IN load' = IF locations[t] = {} /\ repairable # <<>>
                THEN [load EXCEPT ![repairable[1]] = Lowered(t, repairable[1])]
                ELSE load
  /\ repaired' = (repaired \/ load' # load)
  /\ cursor' = cursor + 1
  /\ UNCHANGED <<vars, scene, locations, deficits, stage>>

\* Another audit follows a pass that changed something.
AuditAgain ==
  /\ stage = "repair" /\ cursor = Len(order) /\ repaired
  /\ stage' = "audit" /\ cursor' = 0
  /\ locations' = NoReports /\ deficits' = NoReports
  /\ UNCHANGED <<vars, scene, load, repaired>>

\* SceneSchedulabilityError if a task is left without a location.
Decide ==
  /\ stage = "repair" /\ cursor = Len(order) /\ ~repaired
  /\ stage' = IF \A t \in Tasks : locations[t] # {} THEN "accepted" ELSE "refused"
  /\ UNCHANGED <<vars, scene, load, locations, deficits, cursor, repaired>>

PreflightNext ==
  ValidateStep \/ Validated \/ Audit \/ Audited \/ Repair \/ AuditAgain \/ Decide

\* The preflight is one synchronous call.
PreflightSpec ==
  PreflightInit /\ [][PreflightNext]_<<vars, preflightVars>>
    /\ WF_<<vars, preflightVars>>(PreflightNext)

---------------------------------------------------------------------------
(* Properties. *)

\* A task fits on a node, whatever its parents do.
Suits(t, n) ==
  /\ n \in ToSet(scene.allowed[t]) \cap scene.supported[t]
  /\ HasRoom(t, n)
  /\ (\A p \in Tasks : ~Precedes(p, t)) => <<scene.source[t], n>> \in scene.wide[t]

\* A scene is refused only if no placement of all its tasks has a suitable node
\* for each and a path along every dependency, under the load that is left; in
\* a scene that is handed out every task has a suitable node that each of its
\* parents can reach from a suitable one, down to the first tasks, and no load
\* is above the one that was generated.
VerdictIsRight ==
  /\ stage = "refused" =>
       ~ \E f \in [Tasks -> Nodes] : \A t \in Tasks :
           Suits(t, f[t]) /\ \A p \in Tasks : Precedes(p, t) => <<f[p], f[t]>> \in scene.wide[t]
  /\ stage = "accepted" =>
       /\ \A n \in Nodes, r \in Resources : load[n][r] <= scene.load[n][r]
       /\ \E F \in [Tasks -> (SUBSET Nodes) \ {{}}] : \A t \in Tasks : \A n \in F[t] :
            Suits(t, n) /\ \A p \in Tasks :
              Precedes(p, t) => \E m \in F[p] : <<m, n>> \in scene.wide[t]

\* Repair and audit do not take turns for ever: the repair of one task never
\* takes away what another was given.
PreflightEnds == <>(stage \in {"accepted", "refused", "invalid"})
============================================================================
