--------------------------- MODULE TaskLifecycle ---------------------------
(***************************************************************************)
(* The lifecycle of one workflow's tasks: class TaskManager of             *)
(* src/mars/dag.py, the single authority on which task may run, which      *)
(* output may be consumed and how a failure spreads.                       *)
(*                                                                         *)
(* A workflow has passed validate_workflow (module DagValidation), so its  *)
(* graph is acyclic and every data edge names a port its producer          *)
(* declares.  A call that raises leaves the manager untouched and is not a *)
(* step here: MarkRunning and Complete are enabled exactly where the code  *)
(* does not raise.                                                         *)
(***************************************************************************)
EXTENDS Naturals, FiniteSets

CONSTANTS
  Tasks,      \* the task ids of the workflow
  Ports,      \* the output port names
  Workflows   \* the validated workflows that may be submitted

(***************************************************************************)
(* A workflow with its DagIndex: parents[t] holds the tasks that t depends *)
(* on, by declaration or through a data edge; edges are the typed data     *)
(* edges <<producer, producer port, consumer>>, declared[t] the output     *)
(* ports of t's spec and failFast the failure policy.                      *)
(***************************************************************************)
WorkflowsAssumption ==
  /\ IsFiniteSet(Tasks)
  /\ \A w \in Workflows :
       /\ w.parents \in [Tasks -> SUBSET Tasks]
       /\ w.edges \subseteq Tasks \X Ports \X Tasks
       /\ w.declared \in [Tasks -> SUBSET Ports]
       /\ \A e \in w.edges : e[1] \in w.parents[e[3]] /\ e[2] \in w.declared[e[1]]
       /\ w.failFast \in BOOLEAN
       /\ \E level \in [Tasks -> 0 .. Cardinality(Tasks)] :
            \A t \in Tasks : \A p \in w.parents[t] : level[p] < level[t]

ASSUME WorkflowsWellFormed == WorkflowsAssumption

VARIABLES
  workflow,   \* the submitted workflow with its index
  state,      \* the TaskState of every task
  outputs     \* the ports of which a task's artifact is published

taskVars == <<workflow, state, outputs>>

FailureStates == {"FAILED", "TIMEOUT", "DROPPED"}
TERMINAL_STATES == FailureStates \cup {"SUCCEEDED", "SKIPPED"}
TaskState == TERMINAL_STATES \cup {"BLOCKED", "READY", "RUNNING"}

---------------------------------------------------------------------------
(* The graph index and the queries on it. *)

Parents(t) == workflow.parents[t]
Children(t) == {c \in Tasks : t \in Parents(c)}

\* The tasks reached from t through one or more child links: the least set
\* that holds t's children and the children of its members.
ClosedFrom(t) ==
  {S \in SUBSET Tasks :
     Children(t) \subseteq S /\ \A s \in S : Children(s) \subseteq S}

Descendants(t) == {d \in Tasks : \A S \in ClosedFrom(t) : d \in S}

RequiredPorts(t) == {e[2] : e \in {d \in workflow.edges : d[1] = t}}

\* A completion may leave out a port that a data edge reads.
AcceptableOutputs_NoRequired(t) ==
  {outs \in SUBSET Ports :
     workflow.declared[t] # {} => outs \subseteq workflow.declared[t]}

\* The sets of outputs _normalize_outputs lets through: only declared ports
\* (any port when none is declared), and every port a data edge reads.
AcceptableOutputs(t) ==
  {outs \in SUBSET Ports :
     /\ workflow.declared[t] # {} => outs \subseteq workflow.declared[t]
     /\ RequiredPorts(t) \subseteq outs}

Ready == {t \in Tasks : state[t] = "READY"}
Unresolved == {t \in Tasks : state[t] \notin TERMINAL_STATES}

---------------------------------------------------------------------------
(* submit: roots are READY, everything else waits. *)

TaskInit ==
  /\ workflow \in Workflows
  /\ state = [t \in Tasks |->
                IF Parents(t) = {} THEN "READY" ELSE "BLOCKED"]
  /\ outputs = [t \in Tasks |-> {}]

MarkRunning(t) ==
  /\ state[t] = "READY"
  /\ state' = [state EXCEPT ![t] = "RUNNING"]
  /\ UNCHANGED <<workflow, outputs>>

\* One succeeded parent is enough.
Released_AnyParent(t) ==
  {c \in Children(t) :
     /\ state[c] = "BLOCKED"
     /\ \E p \in Parents(c) : p = t \/ state[p] = "SUCCEEDED"}

\* The parents are looked at before the success of t is recorded.
Released_StaleParents(t) ==
  {c \in Children(t) :
     /\ state[c] = "BLOCKED"
     /\ \A p \in Parents(c) : state[p] = "SUCCEEDED"}

\* The children a success releases: blocked, with every parent succeeded.
Released(t) ==
  {c \in Children(t) :
     /\ state[c] = "BLOCKED"
     /\ \A p \in Parents(c) : p = t \/ state[p] = "SUCCEEDED"}

CompleteOk(t, outs) ==
  /\ state[t] = "RUNNING"
  /\ outs \in AcceptableOutputs(t)
  /\ state' = [c \in Tasks |-> IF c = t THEN "SUCCEEDED"
                               ELSE IF c \in Released(t) THEN "READY"
                               ELSE state[c]]
  /\ outputs' = [outputs EXCEPT ![t] = outs]
  /\ UNCHANGED workflow

\* Only the next tasks are skipped, not what follows them.
SkippedBy_ChildrenOnly(t) ==
  {c \in IF workflow.failFast THEN Tasks \ {t} ELSE Children(t) :
     state[c] \in {"BLOCKED", "READY", "RUNNING"}}

\* The failure policy is not consulted.
SkippedBy_IgnoresPolicy(t) ==
  {c \in Descendants(t) : state[c] \in {"BLOCKED", "READY", "RUNNING"}}

\* Tasks with a result are skipped as well.
SkippedBy_Terminal(t) ==
  IF workflow.failFast THEN Tasks \ {t} ELSE Descendants(t)

\* A failure skips every unresolved task (FAIL_FAST) or the unresolved
\* descendants of the failed task (SKIP_DESCENDANTS).
SkippedBy(t) ==
  {c \in IF workflow.failFast THEN Tasks \ {t} ELSE Descendants(t) :
     state[c] \in {"BLOCKED", "READY", "RUNNING"}}

CompleteFailed(t, result) ==
  /\ state[t] = "RUNNING"
  /\ result \in FailureStates
  /\ state' = [c \in Tasks |-> IF c = t THEN result
                               ELSE IF c \in SkippedBy(t) THEN "SKIPPED"
                               ELSE state[c]]
  /\ UNCHANGED <<workflow, outputs>>

\* A second completion of a terminal task is ignored.
CompleteAgain(t) ==
  /\ state[t] \in TERMINAL_STATES
  /\ UNCHANGED taskVars

TaskNext ==
  \E t \in Tasks :
    \/ MarkRunning(t)
    \/ \E outs \in SUBSET Ports : CompleteOk(t, outs)
    \/ \E result \in FailureStates : CompleteFailed(t, result)
    \/ CompleteAgain(t)

TaskSpec == TaskInit /\ [][TaskNext]_taskVars

\* The executor eventually starts what is ready and reports what runs.
TaskFairness ==
  \A t \in Tasks :
    /\ WF_taskVars(MarkRunning(t))
    /\ WF_taskVars(\/ \E outs \in SUBSET Ports : CompleteOk(t, outs)
                   \/ \E result \in FailureStates : CompleteFailed(t, result))

TaskFairSpec == TaskSpec /\ TaskFairness

---------------------------------------------------------------------------
(* Properties. *)

\* Every variable holds a value of its kind.
TaskTypeOK ==
  /\ workflow \in Workflows
  /\ state \in [Tasks -> TaskState]
  /\ outputs \in [Tasks -> SUBSET Ports]

Started(t) == state[t] \in {"READY", "RUNNING", "SUCCEEDED"} \cup FailureStates
Failed(t) == state[t] \in FailureStates

\* No task is offered to the scheduler, runs or has a result of its own
\* before every one of its parents has succeeded, whatever fails around it.
ParentsFirst ==
  \A t \in Tasks : Started(t) => \A p \in Parents(t) : state[p] = "SUCCEEDED"

\* The release of a task is never lost: one that still waits has a parent
\* that has not succeeded.
NoLostRelease ==
  \A t \in Tasks :
    state[t] = "BLOCKED" => \E p \in Parents(t) : state[p] # "SUCCEEDED"

\* A failure skips exactly what it must.  Under SKIP_DESCENDANTS a task is
\* skipped if and only if one of its ancestors failed; under FAIL_FAST the
\* first failure resolves the whole workflow, and without one nothing is
\* skipped.
FailureContained ==
  IF workflow.failFast
  THEN /\ (\E f \in Tasks : Failed(f)) => Unresolved = {}
       /\ (\E s \in Tasks : state[s] = "SKIPPED") => \E f \in Tasks : Failed(f)
  ELSE {t \in Tasks : state[t] = "SKIPPED"}
         = UNION {Descendants(f) : f \in {t \in Tasks : Failed(t)}}

\* Every typed input of a task that may run is published, so resolving its
\* input bindings never finds an artifact missing.
InputsMaterialized ==
  \A e \in workflow.edges : Started(e[3]) => e[2] \in outputs[e[1]]

\* The executor always has something to start or to wait for: as long as a
\* task is unresolved, some task is ready or running.
NoStrandedTask ==
  Unresolved # {} => \E t \in Tasks : state[t] \in {"READY", "RUNNING"}

\* A result is final: no later call changes a terminal state or replaces the
\* outputs that were published with it.
ResultsFinal ==
  [][\A t \in Tasks :
       state[t] \in TERMINAL_STATES =>
         state'[t] = state[t] /\ outputs'[t] = outputs[t]]_taskVars

\* Every workflow is resolved in the end.
EventuallyResolved == <>(Unresolved = {})
============================================================================
