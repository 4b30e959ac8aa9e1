--------------------------- MODULE DagValidation ---------------------------
(***************************************************************************)
(* validate_workflow of src/mars/dag.py: the checks a submitted workflow   *)
(* must pass, and the index it leaves to the task manager and the          *)
(* optimizers.  The graph part is Kahn's algorithm; one action is one turn *)
(* of its loop.  The queue is a set here: what is promised of the index    *)
(* does not depend on the order in which ready tasks are taken.            *)
(***************************************************************************)
EXTENDS Naturals, Sequences, FiniteSets, FiniteSetsExt

CONSTANTS
  Tasks,        \* the task ids of the workflow
  NoTask,       \* an id that is not one of them
  Ports,        \* port names
  Types,        \* message types
  Submissions   \* the workflows that are submitted

(***************************************************************************)
(* A submission: deps[t] is the sequence of dependency_task_ids, in[t] and *)
(* out[t] give the message type of each declared port, edges is the        *)
(* sequence of data edges.                                                 *)
(***************************************************************************)
Edge == [producer : Tasks \cup {NoTask}, port : Ports,
         consumer : Tasks \cup {NoTask}, slot : Ports, type : Types]

ASSUME SubmissionAssumption ==
  /\ IsFiniteSet(Tasks) /\ Tasks # {} /\ NoTask \notin Tasks
  /\ \A w \in Submissions :
       /\ w.deps \in [Tasks -> Seq(Tasks \cup {NoTask})]
       /\ DOMAIN w.in = Tasks /\ DOMAIN w.out = Tasks
       /\ \A t \in Tasks :
            w.in[t] \in UNION {[names -> Types] : names \in SUBSET Ports}
              /\ w.out[t] \in UNION {[names -> Types] : names \in SUBSET Ports}
       /\ w.edges \in Seq(Edge)

VARIABLES
  submission,  \* the workflow being validated
  verdict,     \* "checking", "sorting", "malformed", "cyclic" or "accepted"
  parents,     \* parents of the index
  indegree,    \* parents not yet in the order
  queue,       \* tasks without such a parent, not yet in the order
  order,       \* topological_order
  levels       \* levels

vars == <<submission, verdict, parents, indegree, queue, order, levels>>

Items(seq) == {seq[i] : i \in DOMAIN seq}
Unique(seq) == \A i, j \in DOMAIN seq : seq[i] = seq[j] => i = j

Init ==
  /\ submission \in Submissions
  /\ verdict = "checking"
  /\ parents = [t \in Tasks |-> {}]
  /\ indegree = [t \in Tasks |-> 0]
  /\ queue = {}
  /\ order = <<>>
  /\ levels = [t \in Tasks |-> 0]

---------------------------------------------------------------------------
(* The checks of single tasks and edges. *)

\* _validate_data_edge: both ends exist, declare their ports, and agree on the
\* type the edge carries.
EdgeValid(w, e) ==
  /\ e.producer \in Tasks /\ e.consumer \in Tasks
  /\ e.port \in DOMAIN w.out[e.producer]
  /\ e.slot \in DOMAIN w.in[e.consumer]
  /\ w.out[e.producer][e.port] = e.type
  /\ w.in[e.consumer][e.slot] = e.type

\* Every edge is valid and no input port is fed twice, by the same edge or by
\* another; dependencies are other tasks, each named once.
WellFormed(w) ==
  /\ \A e \in Items(w.edges) : EdgeValid(w, e)
  /\ \A i, j \in DOMAIN w.edges :
       w.edges[i].consumer = w.edges[j].consumer
         /\ w.edges[i].slot = w.edges[j].slot => i = j
  /\ \A t \in Tasks :
       Unique(w.deps[t]) /\ Items(w.deps[t]) \subseteq Tasks \ {t}

\* (Data edges do not order the tasks.)
AllParents_NoEdges(w, t) == Items(w.deps[t])

\* A task waits for its dependencies and for the producers of its inputs.
AllParents(w, t) ==
  Items(w.deps[t]) \cup {e.producer : e \in {d \in Items(w.edges) : d.consumer = t}}

---------------------------------------------------------------------------
(* The steps of the validation. *)

RejectMalformed ==
  /\ verdict = "checking"
  /\ ~WellFormed(submission)
  /\ verdict' = "malformed"
  /\ UNCHANGED <<submission, parents, indegree, queue, order, levels>>

\* (An edge between tasks that already depend on each other counts twice.)
BuildGraph_DoubleCount ==
  /\ verdict = "checking"
  /\ WellFormed(submission)
  /\ verdict' = "sorting"
  /\ parents' = [t \in Tasks |-> AllParents(submission, t)]
  /\ indegree' = [t \in Tasks |->
       Len(submission.deps[t])
         + Cardinality({i \in DOMAIN submission.edges : submission.edges[i].consumer = t})]
  /\ queue' = {t \in Tasks : indegree'[t] = 0}
  /\ UNCHANGED <<submission, order, levels>>

BuildGraph ==
  /\ verdict = "checking"
  /\ WellFormed(submission)
  /\ verdict' = "sorting"
  /\ parents' = [t \in Tasks |-> AllParents(submission, t)]
  /\ indegree' = [t \in Tasks |-> Cardinality(AllParents(submission, t))]
  /\ queue' = {t \in Tasks : indegree'[t] = 0}
  /\ UNCHANGED <<submission, order, levels>>

Children(t) == {c \in Tasks : t \in parents[c]}

\* (The level follows the order, not the parents.)
Visit_OrderLevel(t) ==
  /\ verdict = "sorting"
  /\ t \in queue
  /\ order' = Append(order, t)
  /\ levels' = [levels EXCEPT ![t] =
                  IF parents[t] = {} THEN 0
                  ELSE 1 + Max({levels[p] : p \in Items(order)})]
  /\ indegree' = [c \in Tasks |-> IF c \in Children(t) THEN indegree[c] - 1
                                  ELSE indegree[c]]
  /\ queue' = (queue \ {t}) \cup {c \in Children(t) : indegree'[c] = 0}
  /\ UNCHANGED <<submission, verdict, parents>>

\* Take a ready task, number its level and release its children.
Visit(t) ==
  /\ verdict = "sorting"
  /\ t \in queue
  /\ order' = Append(order, t)
  /\ levels' = [levels EXCEPT ![t] =
                  IF parents[t] = {} THEN 0
                  ELSE 1 + Max({levels[p] : p \in parents[t]})]
  /\ indegree' = [c \in Tasks |-> IF c \in Children(t) THEN indegree[c] - 1
                                  ELSE indegree[c]]
  /\ queue' = (queue \ {t}) \cup {c \in Children(t) : indegree'[c] = 0}
  /\ UNCHANGED <<submission, verdict, parents>>

Conclude ==
  /\ verdict = "sorting"
  /\ queue = {}
  /\ verdict' = IF Len(order) = Cardinality(Tasks) THEN "accepted" ELSE "cyclic"
  /\ UNCHANGED <<submission, parents, indegree, queue, order, levels>>

Next == RejectMalformed \/ BuildGraph \/ (\E t \in Tasks : Visit(t)) \/ Conclude

Spec == Init /\ [][Next]_vars

---------------------------------------------------------------------------
(* Properties. *)

\* Every variable holds a value of its kind.
DagTypeOK ==
  /\ submission \in Submissions
  /\ verdict \in {"checking", "sorting", "malformed", "cyclic", "accepted"}
  /\ parents \in [Tasks -> SUBSET Tasks]
  /\ indegree \in [Tasks -> Nat]
  /\ queue \subseteq Tasks
  /\ order \in Seq(Tasks)
  /\ levels \in [Tasks -> Nat]

\* The edge relation of the submission, stated without the index.
Precedes(p, t) ==
  \/ p \in Items(submission.deps[t])
  \/ \E e \in Items(submission.edges) : e.producer = p /\ e.consumer = t

\* The index of an accepted workflow lists every task once, after everything
\* it waits for and on a higher level; this is what the task manager, the
\* critical path and the planners rely on.
IndexInOrder ==
  verdict = "accepted" =>
    /\ Unique(order) /\ Items(order) = Tasks
    /\ \A i, j \in DOMAIN order : Precedes(order[i], order[j]) => i < j
    /\ \A p, t \in Tasks : Precedes(p, t) => levels[p] < levels[t]

\* A level is no higher than it must be: a task on a level above the first
\* waits for one on the level below.
LevelsTight ==
  verdict = "accepted" =>
    \A t \in Tasks : levels[t] > 0 =>
      \E p \in Tasks : Precedes(p, t) /\ levels[t] = levels[p] + 1

\* A workflow is refused as cyclic only if it is: among the tasks that are not
\* in the order, each waits for another one.
CyclicIsCyclic ==
  verdict = "cyclic" =>
    \E rest \in SUBSET Tasks :
      /\ rest # {}
      /\ \A t \in rest : \E p \in rest : Precedes(p, t)
============================================================================
