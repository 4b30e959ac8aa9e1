-------------------------- MODULE SchedulingProblem -------------------------
(***************************************************************************)
(* The problem of an epoch and its candidates: build_scheduling_problem,   *)
(* allowed_nodes and estimate_candidate (src/mars/scheduler.py) over the   *)
(* snapshot of src/mars/optimizers/base.py.                                *)
(*                                                                         *)
(* A problem is a record.  Of a task t on a node n, work[t][n] is what the *)
(* profile, or the declared demand, gives under the load n reports:        *)
(* whether the model and the profile support it, its demand of resources,  *)
(* compute time, energy and success probability (in percent).  Times,      *)
(* sizes and demands are integers, so the tolerances of the code, which    *)
(* are far below one, do not appear.                                       *)
(***************************************************************************)
EXTENDS NetworkTopology, SequencesExt

CONSTANTS
  Tasks,      \* the tasks of an epoch, numbers in the order of their ids
  Resources,  \* CPU, GPU and memory, which every check treats alike
  Problems,   \* the problems that may be built
  Kind,       \* node kind: "robot", "edge" or "cloud"
  Safe,       \* the safety_capable nodes
  Capabilities \* of a node

ASSUME TaskAssumption == Tasks \subseteq Nat \ {0} /\ 0 \notin Nodes /\ IsFiniteSet(Resources)

\* ObjectiveMetric: what objectives and constraints may be about.
Metrics == {"makespan", "critical", "drops", "utilization", "deadline", "completion", "energy",
            "communication", "locality", "non_source", "non_edge", "preference", "mismatch", "success"}

\* What SchedulingSnapshot, NodeSpec and SchedulingPolicy check when they are made,
\* and estimate of the bandwidth required; the carry-in was reserved by plans of
\* earlier epochs, under their ids.
WellFormed(p) ==
  LET ready == ToSet(p.tasks)
  IN /\ p.now \in Nat /\ p.network \in Networks /\ p.maxIterations \in Nat
     /\ p.tasks \in Seq(Tasks) /\ Len(p.tasks) = Cardinality(ready)
     /\ \A t \in ready :
          /\ p.source[t] \in Nodes /\ p.tail[t] \in Nat /\ p.inputSize[t] \in Nat
          /\ p.bandwidth[t] \in Nat
          /\ {p.ready[t], p.arrival[t]} \subseteq Nat /\ {p.deadline[t], p.priority[t]} \subseteq Int
          /\ IsFiniteSet(p.ports[t]) /\ p.place[t].preferred \in Seq({"robot", "edge", "cloud"})
          /\ \A n \in Nodes : {p.work[t][n].compute, p.work[t][n].energy, p.work[t][n].success}
                                 \subseteq Nat
                               /\ p.work[t][n].demand \in [Resources -> Nat]
     /\ \A t \in ready : DOMAIN p.bound[t] = 1 .. Len(p.bound[t]) /\ Len(p.bound[t]) \in Nat
     /\ \A t \in ready : \A i, j \in DOMAIN p.bound[t] :
          /\ p.bound[t][i].artifact.node \in Nodes /\ p.bound[t][i].artifact.size \in Nat
          /\ p.bound[t][i].port = p.bound[t][j].port => i = j
     /\ p.free \in [Nodes -> Nat] /\ p.linkFree \in [Links -> Nat]
     /\ p.capacity \in [Nodes -> [Resources -> Nat]] /\ p.concurrency \in [Nodes -> Nat \ {0}]
     /\ p.observed \in [Nodes -> [Resources -> Nat]]
     /\ p.transferEnergy \in Nat /\ \A n \in DOMAIN p.battery : p.battery[n] \in Nat
     /\ IsFiniteSet(p.carryIn)
     /\ \A x \in p.carryIn :
          /\ x.node \in Nodes /\ {x.start, x.finish} \subseteq Nat /\ x.start <= x.finish
          /\ x.demand \in [Resources -> Nat]
          /\ \A t \in ready : x.id # <<"plan", t>>
     /\ \A x, y \in p.carryIn : x.id = y.id => x = y
     /\ p.objectives # <<>>
     /\ DOMAIN p.objectives = 1 .. Len(p.objectives) /\ Len(p.objectives) \in Nat
     /\ \A o \in ToSet(p.objectives) :
          o.metric \in Metrics /\ o.weight \in Nat \ {0} /\ o.priority \in Nat
     /\ DOMAIN p.constraints = 1 .. Len(p.constraints) /\ Len(p.constraints) \in Nat
     /\ \A c \in ToSet(p.constraints) :
          /\ c.metric \in Metrics /\ c.bound \in Int /\ {c.penalty, c.priority} \subseteq Nat
          /\ c.hard => c.penalty = 0

ASSUME ProblemAssumption == \A p \in Problems : WellFormed(p)

VARIABLES
  problem,    \* the problem of the epoch
  candidates, \* the feasible candidates estimated so far
  pairs,      \* the tasks and nodes still to estimate
  gathered,   \* the transfers estimated for the next of them
  pc

problemVars == <<net, problem, candidates, pairs, gathered>>

---------------------------------------------------------------------------
(* Placement constraints. *)

Rank(t, n) ==
  LET preferred == problem.place[t].preferred
  IN IF Contains(preferred, Kind[n]) THEN CHOOSE i \in DOMAIN preferred : preferred[i] = Kind[n]
     ELSE Len(preferred) + 1

\* The place a constraint leaves to a task, but for its exclusions.
MayRun(t, n) ==
  LET c == problem.place[t]
  IN /\ n \in net.up
     /\ IF c.pinned # 0 THEN n = c.pinned /\ (c.kinds # {} => Kind[n] \in c.kinds)
        ELSE IF n = problem.source[t] THEN c.allowSource
        ELSE (Kind[n] = "robot" => c.allowRobots) /\ Kind[n] \in c.kinds
     /\ c.pinned = 0 /\ c.preferred # <<>> /\ ~c.allowFallback => Contains(c.preferred, Kind[n])
     /\ c.safety => n \in Safe
     /\ c.capabilities \subseteq Capabilities[n] \cup IF n \in Safe THEN {"local_safety"} ELSE {}

\* Their order by rank decides nothing, for every optimizer orders the candidates
\* itself.
AllowedNodes(t) == {n \in Nodes : n \notin problem.excluded[t] /\ MayRun(t, n)}

---------------------------------------------------------------------------
(* Inputs. *)

\* The artifacts bound to the ports of a task, and for its unbound ports an
\* external input at its source node, each once and in their order.
Inputs(t) ==
  LET bound == problem.bound[t]
      open == problem.ports[t] \ {b.port : b \in ToSet(bound)}
      needsExternal == open # {} \/ (problem.ports[t] = {} /\ bound = <<>> /\ problem.parents[t] = {})
      share == IF problem.ports[t] = {} THEN problem.inputSize[t]
               ELSE (problem.inputSize[t] * Cardinality(open)) \div Cardinality(problem.ports[t])
      all == [i \in DOMAIN bound |-> bound[i].artifact] \o
               IF needsExternal THEN <<[id |-> 0, node |-> problem.source[t], size |-> share]>>
                                ELSE <<>>
      first == {i \in DOMAIN all : \A j \in 1 .. i - 1 : all[j] # all[i]}
      nth(k) == CHOOSE i \in first : Cardinality({j \in first : j < i}) = k - 1
  IN [k \in 1 .. Cardinality(first) |-> all[nth(k)]]

---------------------------------------------------------------------------
(* Candidates. *)

Begin(p) ==
  /\ problem = p /\ net = p.network
  /\ candidates = {} /\ gathered = <<>>
  /\ pairs = {x \in ToSet(p.tasks) \X Nodes : x[2] \in AllowedNodes(x[1])}
  /\ request = [source |-> 0, target |-> 0, size |-> 0, minimum |-> 0]
  /\ frontier = {} /\ best = <<>> /\ route = <<>>
  /\ pc = "estimate"

\* The reasons that need no look at the network.
Unfit(t, n) ==
  \/ ~problem.work[t][n].supported
  \/ \E r \in Resources : problem.work[t][n].demand[r] > problem.capacity[n][r]
  \/ Inputs(t) = <<>>

\* The pair looked at.  Pairs do not influence each other.
Pair == CHOOSE x \in pairs : \A y \in pairs : x[1] < y[1] \/ (x[1] = y[1] /\ x[2] <= y[2])

NextPair == pairs' = pairs \ {Pair} /\ gathered' = <<>> /\ pc' = "estimate"

\* The candidate, with every input transferred and nothing else on the node.
Candidate(t, n) ==
  LET communication == SumFunction([i \in DOMAIN gathered |-> gathered[i].time])
      ready == Max({problem.now, problem.ready[t]})
      start == Max({ready, problem.free[n]})
      work == problem.work[t][n]
  IN [task |-> t, node |-> n, ready |-> ready, start |-> start,
      finish |-> start + communication + work.compute,
      compute |-> work.compute, communication |-> communication,
      energy |-> work.energy + communication * problem.transferEnergy,
      demand |-> work.demand, success |-> work.success,
      locations |-> {x.node : x \in ToSet(Inputs(t))},
      transfers |-> gathered]

\* estimate_candidate: refuse the pair, route its next input, or finish it.
Estimate ==
  /\ pc = "estimate" /\ pairs # {}
  /\ LET t == Pair[1]
         n == Pair[2]
         k == Len(gathered) + 1
         input == Inputs(t)[k]
     IN IF Unfit(t, n) \/ (k <= Len(Inputs(t)) /\ input.node \notin net.up)
        THEN NextPair /\ UNCHANGED <<candidates, routeVars>>
        ELSE IF k <= Len(Inputs(t))
        THEN /\ Ask([source |-> input.node, target |-> n, size |-> input.size,
                     minimum |-> problem.bandwidth[t]])
             /\ pc' = "route" /\ UNCHANGED <<candidates, pairs, gathered>>
        ELSE /\ candidates' = candidates \cup {Candidate(t, n)}
             /\ NextPair /\ UNCHANGED routeVars
  /\ UNCHANGED <<net, problem>>

\* The route of an input is known.
Routed ==
  /\ pc = "route" /\ route # <<>>
  /\ IF route[1].feasible
     THEN /\ gathered' = Append(gathered, [id |-> Len(gathered) + 1, path |-> route[1].path,
                                           time |-> route[1].time])
          /\ pc' = "estimate" /\ UNCHANGED pairs
     ELSE NextPair
  /\ UNCHANGED <<net, problem, candidates, routeVars>>

SearchRoute ==
  /\ pc = "route"
  /\ Expand \/ Exhaust
  /\ UNCHANGED <<problemVars, pc>>

---------------------------------------------------------------------------
(* Load. *)

ActiveAt(S, n, t) == {x \in S : x.node = n /\ x.start <= t /\ t < x.finish}

\* The units of a resource that reservations hold together.
Load(S, r) == Cardinality(UNION {{x} \X (1 .. x.demand[r]) : x \in S})

\* The load a node reports, less the reservations that were active when it was
\* observed, unless they cannot have been in it.
Background(n, r) ==
  LET observed == problem.observed[n][r]
      reserved == Load(ActiveAt(problem.carryIn, n, problem.now), r)
  IN IF observed >= reserved THEN observed - reserved ELSE observed

\* Reservations that a node can hold at the same time.
Fits(n, S) ==
  /\ Cardinality(S) <= problem.concurrency[n]
  /\ \A r \in Resources : Background(n, r) + Load(S, r) <= problem.capacity[n][r]
=============================================================================
