# MARS in TLA+

MARS schedules workflows of agent tasks onto edge, cloud and device nodes: a
submitted DAG is validated, a central coordinator plans its ready tasks with one
of several optimizers, dispatches them through a runtime port to node agents,
follows their completions and retries, and returns a trace. A FastAPI backend
runs such workflows in a worker thread for a React frontend, and lets a language
model build them.

This directory holds a specification of that program in TLA+, the TLC instances
that check it, and proofs that TLAPS checks. All line numbers below refer to the
sources in this repository; `PROJECT.json` maps every definition to its lines.

Contents

1. [Inventory](#1-inventory): the parts, their state, and what makes them correct
2. [Plan](#2-plan): the modules, in order
3. [The modules and the code](#3-the-modules-and-the-code)
4. [What the runs check](#4-what-the-runs-check): instances, bounds, fairness
5. [What is proved](#5-what-is-proved)
6. [What is only model-checked, and what is not modelled](#6-limits)
7. [Running it](#7-running-it)

## 1. Inventory

### How the parts interact

```
frontend  --HTTP-->  api (main.py) --> LocalRuntimeService --worker thread--> CentralCoordinator.run_async
                        |                (runtime.py)                           |        |        |
                        +--> AgentService, TemplateStore, TraceArchive           |        |        |
                                                                     TaskManager  Scheduler   RuntimePort
                                                                      (dag.py)  (scheduler.py) (runtime/base.py)
                                                                         |          |              |
                                                               validate_workflow  optimizers   InProcessRuntime
                                                                                              + _SimulatedAgents
```

The coordinator owns the only event loop. It *calls* the task manager (plain
methods on an object it alone uses), *awaits* the runtime port - for each dispatch
and cancel, and for a fresh inventory and view before each planning epoch, which
itself runs synchronously - and learns of completions through *futures*: one
background coroutine per accepted dispatch waits for the runtime's answer.
Everything between two awaits is atomic; at an await any of those futures may be
resolved, and the caller may cancel the coordinator's task. The optimizers see a
problem object and return a plan; the plan validation is the only thing between
an optimizer and the runtime. The backend shares a dictionary of runs between
request handlers and the worker thread, under a lock, and a directory of template
files between requests.

### The parts

| Part | State | Operations | What is hard | What makes it correct |
|---|---|---|---|---|
| **Workflow validation** `mars/dag.py:39-210` | the index it builds: parents, children, topological order, levels | `validate_workflow` | parallel dependency and data edges counted once; levels while the order grows | accepts exactly the well-formed acyclic workflows; the order is topological, the levels are tight |
| **Task manager** `mars/dag.py:212-500` | the state of every task, published artifacts | `submit`, `mark_running`, `complete`, queries | partial failure in a half-finished graph; release and skip meet in one graph | no task before its parents; failures skip exactly what the policy names; results are final; no task is stranded; inputs are there |
| **Central coordinator** `mars/coordinator.py:282-1240` | virtual clock, completion heap, retries, attempt numbers, excluded nodes, active dispatches and their futures | harvest, process, retry, plan, dispatch, advance, cancel | results in any real-time order, retries, FAIL_FAST, exceptions at every await | one owner per running task; event-time order; retry contracts; no attempt left behind; every run ends |
| **Runtime port** `mars/runtime/base.py` | none (a protocol) | `dispatch`, `receive_completion`, `cancel`, `view`, `heartbeats` | what a caller may rely on | an attempt is accepted and completed at most once, as acknowledged, and never after a cancel |
| **In-process runtime** `mars/runtime/inprocess.py` | the agents' reservations, outstanding dispatches, ended attempts | the port's methods; reserve, reschedule, release | a reservation moved while it is held; cancels at any time; repeated dispatches | a node is never overbooked at any instant; tables and calendars agree |
| **Scheduling epoch** `mars/scheduler.py` | none across epochs; traces, a deadline within one | `plan_scheduling_epoch`, `_solve_validated` | fallback candidates share one deadline; invalid answers; late answers | the plan it returns is validated and for this problem; failures leave a complete trace |
| **Solve state** `mars/optimizers/state.py` | invocations, trace entries, continuations | `begin`, `record`, `set_continuation`, `continuation_for` | calls out of order, continuations of another problem | an invocation is recorded once; a continuation returns only to its problem |
| **Problem, plan validation, materialization** `mars/optimizers/base.py`, `formulation.py`, `materialization.py` | immutable problem; reservations per node and link while a plan is built | `validate_plan`, `materialize_candidate`, `earliest_resource_start` | capacity over several overlapping intervals; transfers queue on links | a materialized candidate is feasible; what is accepted overbooks nothing; the earliest start is the earliest |
| **Optimizers** `heuristics.py`, `binary_offload.py`, `policy.py`, `formulations/one_hot.py` | search state within a solve | `solve` | limits during an exhaustive search | plans are valid; OPTIMAL is claimed only for an optimum |
| **Network** `mars/network.py` | topology with link reservations | route and transfer estimates | ties between routes | the route is a cheapest one, the same every time |
| **Plan evaluation, run artifact** `optimizers/evaluation.py`, `run_artifact.py` | none | metrics, artifact | float arithmetic | metrics agree with the trace |
| **Local runtime service** `backend/app/runtime.py` | runs by id, futures, a worker thread | submit, poll, finalize, archive | a worker, its done callback and polls finish the same run | a run gets one terminal status and one archived trace |
| **Agent service** `backend/app/agent_service.py` | chat sessions by thread id | `chat`, `restart`, phases | session read under the lock, used outside it, stored afterwards | a turn is not lost, a restart is not undone |
| **Template store, trace archive** `template_store.py`, `trace_archive.py` | JSON files | list, create, delete; write | a crash between write and rename | a reader sees an old or a new file, never half of one |
| **Frontend** `frontend/src` | polled run, lists | polling, refresh | answers out of order, time-outs | what is shown belongs to the latest request |
| **Scene preflight** `backend/app/schedulability.py` | the scene's background load while it is repaired | audit, repair, refuse | repairs and audits take turns; a task's place depends on where its parents can be | a scene is refused only if it cannot be placed; the preflight ends |
| **HTTP layer, scene generator, evals, proto** | none of their own | routing, translation, reports | - | - |

`PROJECT.json` lists the hazards line by line: what in this code a test would
hardly reach, and the properties that cover it. The three without a property say
why: the tolerance of float comparisons, the rename of a single template file, and
the polling loop of the page.

## 2. Plan

The order follows the weight of the parts: first what decides whether a workflow
is executed correctly, then what chooses the plans, then the service around it.

| # | Module | Models | Composes / implements | Properties and theorems | State |
|---|---|---|---|---|---|
| 1 | `TaskLifecycle` | task manager | - | order, release, failure policy, finality, progress; all safety proved | done |
| 2 | `DagValidation` | workflow validation | establishes the assumption of 1 | topological order, tight levels, refusals; all proved | done |
| 3 | `Coordinator` | event loop | extends 1 and implements it (`TaskSpec`) | ownership, retries, order, cleanup, termination; all safety proved | done |
| 4 | `RuntimePort` | what an adapter promises | abstract specification | - | done |
| 5 | `AgentRuntime` | in-process runtime | implements 4 | capacity, agreement of the books, promises stand; all proved, the refinement too | done |
| 6 | `SolveOrchestration` | scheduling epochs with fallbacks and deadline, the trace they leave in the solve state | the planner that 3 leaves open, over any optimizer | what is returned was validated in time for this problem; one outcome per invocation; no stack twice; all proved | done; one finding |
| 7 | `NetworkTopology` | route search | used by 8 | against all simple paths (proved) | done |
| 8 | `SchedulingProblem`, `Materialization`, `PlanEvaluation`, `PlanValidation` | problem and candidates, placement of tasks and transfers, metrics, `validate_plan` | each extends the one before | the earliest start is the earliest (proved); what is accepted can be carried out; both proved | done |
| 9 | `Planning` | heuristic, one-hot greedy and exhaustive search, any plug-in | 7 and 8: from a problem to a judged plan | built-in plans are accepted; OPTIMAL only for an optimum; both proved | done |
| 10 | `RunService` | requests, worker, done callback, archive on disk | runs 3 as one step that returns or raises (`RunEnds`) | answers and archive are true at every moment (proved); every run becomes final | done |
| 11 | `AgentChat` | chat panel and the server's turns on the shared session | - | what is compiled is what was agreed; proved | done; one finding |
| 12 | `ScenePreflight` | audit and repair of generated scenes | extends 2 | verdicts are right (proved); the preflight ends | done |

All safety properties of the passing runs are theorems; liveness is not (section 6).

All modules are written to be proved about: parameters are CONSTANTS with named
assumptions, an action is one operation of the code, and no module uses a
RECURSIVE operator (the descendants of a task are the least closed set, levels
are a variable).

## 3. The modules and the code

### TaskLifecycle (`class TaskManager`, `mars/dag.py:212-500`)

`state[t]` is `_states`, `outputs[t]` the ports of which `_artifacts` holds an
artifact of `t`, `workflow` the submitted workflow with its `DagIndex`.
`TaskInit` is `submit`; `MarkRunning` is `mark_running`; `complete` is three
actions, one per outcome: `CompleteOk` (outputs accepted by
`_normalize_outputs`, children with all parents succeeded are released),
`CompleteFailed` (SKIP_DESCENDANTS or FAIL_FAST) and `CompleteAgain` (a terminal
task: the call is ignored). A call that raises leaves the object as it was and is
therefore no step; the actions are enabled exactly where the code does not raise.

Abstracted: artifact contents and ids (a port is published or not), progress
counters, the binding lookups as calls (`InputsMaterialized` says they succeed).

### DagValidation (`validate_workflow`, `mars/dag.py:39-210`)

A submission is checked (`WellFormed`), then Kahn's algorithm runs: `BuildGraph`
computes parents and in-degrees, one `Visit` is one turn of the queue loop,
`Conclude` compares the order's length. The FIFO queue is a set, so the model
also takes ready tasks in orders the code would not: what the index promises
holds for all of them. Empty and duplicate task ids, and duplicate port names,
cannot be written down (tasks and ports are sets); the code refuses them first.

### Coordinator (`CentralCoordinator.run_async`, `mars/coordinator.py:282-1240`)

`Coordinator` extends `TaskLifecycle` and calls its actions, as the loop calls
the manager. Its own variables are the locals of `run_async`:

| variable | local |
|---|---|
| `now` | `current_time_ms` |
| `plan`, `current` | the commitments of the epoch not yet dispatched; the one in `dispatch_assignment` |
| `nextAttempt`, `failedNodes`, `pendingRetries`, `completionTime` | `next_attempt_no`, `failed_nodes_by_task`, `pending_retries`, `completion_time` |
| `active` | `active_by_dispatch` with its futures, harvested results and the completion heap: a record's `result` says whether the future is awaited, resolved, failed or cancelled |
| `phase`, `failure` | where the loop is: running, in the `except` branch that cancels active attempts, returned, reraised - and why |
| `attempt` | history: what became of each attempt at the runtime |

| action | code |
|---|---|
| `ProcessSuccess`, `ProcessFailure`, `ProcessBadOutputs` | the inner loop that pops due completions, `process_completion`, `schedule_retry`, `manager.complete` |
| `PlanRetry`, `PlanArrived`, `PlanRaises` | the two planning branches with their await, exclusion fallback, FAIL_FAST commitment |
| `BeginDispatch`; `DropAssignment`, `DispatchAccepted`, `DispatchRejected`, `DispatchRaises` | `dispatch_assignment` up to the await, and its outcomes |
| `Advance` | next event, watermark, waiting, and the two internal errors |
| `HarvestRaises`, `Interrupted`, `CancelAttempt`, `Reraise`, `Finish` | the exits: a failed future, cancellation of the caller's task, `cancel_active`, `raise`, return |
| `Deliver`, `DeliverError` | the runtime, between any two steps of the loop |

Abstractions, and why they lose nothing the properties speak of:

* The planner is any total assignment of the requested tasks to allowed nodes or
  to "drop", and may raise. This is what `validate_plan` lets through.
* Times are natural numbers. The loop only compares and maximizes times.
* The finish of an attempt is chosen when it is accepted. A virtual-time runtime
  acknowledges it then; for other runtimes it is arbitrary and looked at only
  when the completion has arrived, so choosing it early is the same.
* One due completion is processed per step, where the code drains all that are
  due before it yields. With virtual time nothing that arrives in between can be
  due earlier (`NoMissedCompletion` is what makes this so); without virtual time
  the model has more orders than the code.
* Cancelling an attempt is best effort in the code: exceptions of `cancel` are
  suppressed. `attempt[a] = "cancelled"` means the runtime was asked to withdraw.
* The drop time is any time from the clock and the arrival on; the code takes it
  from the plan.

### RuntimePort and AgentRuntime (`mars/runtime/base.py`, `mars/runtime/inprocess.py`)

`RuntimePort` is an abstract specification with three actions - `Accept`,
`Complete`, `Withdraw` - and states what a coordinator may rely on.

`AgentRuntime` is `InProcessRuntime` with its `_SimulatedAgents`.
`reservations` are the agents' `_reservations`, `pending`, `dispatchOf`,
`consumed`, `terminalAttempts` and `cancelledAttempts` the runtime's
dictionaries and sets of the same names; `promised` and `received` record what
the caller was told. `Dispatch` reserves an interval for the planned duration,
executes, and moves the reservation to the sampled duration; `DispatchRaises`
is the path on which execution raises and the reservation is released;
`ReceiveCompletion` and `Cancel` are the methods of those names. The methods
never await, so each is one action. `FeasibleStarts` and `Fits` describe the
calendar: a start at the requested time or at the end of an interval in the way,
with concurrency and capacity respected at every instant.

Abstracted: cpu, gpu and memory are checked by the same comparison and are one
resource; durations and clocks are small integers; outputs, energy, heartbeats
and the reported view are left out (they do not influence acceptance, except
that the background load lowers `Capacity`).

### SolveOrchestration (`mars/scheduler.py`, `mars/optimizers/state.py`)

`plan_scheduling_epoch` and `_solve_validated`, over an `OptimizerSolveState`. `pc`,
`repairing`, `candidates` and `stack` are where the functions are and what they
hold, `solves` and `latest` are the trace and `_latest_context`, `clock` is the time
since the epoch's deadline was computed. `lost` is history: the invocations whose
entry the trace refused.

| action | code |
|---|---|
| `StartEpoch`, `Refuse`, `Begin`, `Compile` | up to the call of the optimizer: the deadline, `begin`, `compile_solve_request` |
| `Incumbent`, `OptimizerRaises`, `AnswersLate`, `Answers` | the optimizer, and what `_solve_validated` records of it |
| `Reject`, `Accept` | identity, domain check, `validate_plan`, and their entries |
| `GiveUp`, `FallBack`, `NextCandidate` | `fallback_candidates` and the loop over them |
| `Tick` | time passes anywhere between |

An optimizer may raise, take any time and return any plan; of a plan only what the
checks look at is kept. As in `coordinator.py`, all epochs of one solve state have
the same optimizer, formulation and fallback. `Late` keeps both clauses of the
code, although within an epoch, whose budgets are what is left of the shared
deadline, the one about TIME_LIMIT never decides.

### NetworkTopology (`mars/network.py`)

`estimate` is a best-first search: `Ask` is its early returns and the first label,
`Expand` one round of the heap loop, `Exhaust` its end without a route. Link state
(online, bandwidth, latency, loss) is which nodes are up and a link's bandwidth,
latency and pace. The reference in `RoutesAreCheapest` enumerates simple paths.

### SchedulingProblem, Materialization, PlanEvaluation, PlanValidation, Planning

One chain of modules from a problem to a judged plan.

* `SchedulingProblem`: `allowed_nodes`, the inputs of a task and `estimate_candidate`
  for every task and node (`Estimate`, with the route search for each input:
  `SearchRoute`, `Routed`), and the background load under reservations. The pairs are
  taken by task and node: the order of preference of `allowed_nodes` decides nothing,
  because every optimizer orders the candidates itself. `WellFormed` is what the
  constructors of the records check.
* `Materialization` (`materialization.py`): transfers queue on links
  (`Transferred`), and `earliest_resource_start` jumps from release to release
  (`Jump`, `Found`). A found place becomes a reservation.
* `PlanEvaluation` (`evaluation.py`): the metrics of a plan, soft and hard
  constraints, `ObjectiveKey`, and the proxy key of a candidate.
* `PlanValidation` (`base.py`): `PlanValid` is `validate_plan`, a conjunct for each of
  its parts.
* `Planning`: the heuristic, its greedy search under the one-hot formulation, the
  exhaustive binary-offload search over the decisions of that formulation, and a
  plug-in that makes a plan of any choices and may then falsify a part of it
  (`Told`). All share the search for a place. Time limits strike at every check of
  the deadline. `Validate` ends a behaviour.

Quantities are integers, so the tolerances of the code do not appear; ratios with a
denominator common to all plans are their numerators, and utilization is counted in
parts of `Whole`, which every capacity divides (`WholeAssumption`). Energies, compute times and
success probabilities are inputs (`work`), not computed from profiles.

### RunService (`backend/app/runtime.py`, `trace_archive.py`)

Request threads `Submit` a run and then register its callback (`AddCallback`, which
runs it on the spot if the future is over). The single worker is `Take`, `Begin`,
`Execute`, `Keep`, `Evaluate`, `RunCallbacks`; `Execute` is the whole coordinator and
the building of the artifact. `Bootstrap`, `Status` and `GetRun` are the requests that
read. Whoever holds `_lock` refreshes runs that are over and writes their trace, file
by file (`Refresh`, `Write`, `WriteRaises`, `Leave`). `disk` is what has been renamed
into place: since `ArchiveIsTrue` is an invariant, it is what a crash at any moment
leaves.

### AgentChat (`backend/app/agent_service.py`, `frontend/src/MarsModePanel.tsx`)

The panel sends one request at a time (`Ask`, `Restart`, `Confirm`) and may give it up
(`GiveUp`); a request or an answer may be lost (`Lose`, `Leave`). Each request is a
turn in a thread of its own: `Enter` looks up the session under the lock, the other
actions are the nodes of the turn graph up to each call of a model, `Answer` reads the
session, `Leave` stores it again. `memory` holds the session objects, which turns
share; `sessions` is the dictionary. The page has no button for `Restart`, the
interface takes it. A plan is the turn that made it and the messages it was made
from.

### ScenePreflight (`backend/app/schedulability.py`)

`ensure_generated_scene_schedulable`: the scene's workflow is validated with the
actions of `DagValidation`, each task of the order is audited (`Audit`), and the load
of the first node that only lacks free capacity is lowered for a task without a
place (`Repair`), until a pass changes nothing (`Decide`). What the topology estimate
says of two nodes is the relation `wide`; model and profile support and
`allowed_nodes` are sets. A load is a capacity times a utilization.

## 4. What the runs check

| run | instance | distinct states | properties |
|---|---|---|---|
| `task_lifecycle` | all 64 graphs on four ordered tasks, both policies | 23 790 | `ParentsFirst`, `NoLostRelease`, `FailureContained`, `InputsMaterialized`, `NoStrandedTask`, `ResultsFinal`, `EventuallyResolved` |
| `dag_validation` | all 64 dependency relations on three tasks with each of 11 lists of data edges in a plain scene; four graphs with many loads, needs and links on two nodes | 164 198 | `IndexInOrder`, `LevelsTight`, `CyclicIsCyclic`, `VerdictIsRight`, `PreflightEnds` |
| `coordinator_virtual` | three tasks, one node, two attempts, times 0..2 | 435 507 | `OneOwner`, `ContractSafeRetry`, `SerialFailFast`, `NoMissedCompletion`, `CausalTimes`, `EventOrder`, `TaskSpec` |
| `coordinator_faults` | two tasks, two nodes, two attempts, planner, runtime and caller may fail | 251 586 | `NoInternalError`, `NoOrphans`, `AttemptsEndOnce`, `RunEnds` |
| `coordinator_remote` | two tasks, one node, three attempts, no virtual time, faults | 315 505 | `RunEnds` |
| `agent_runtime` | three attempts, a node short of capacity and one short of concurrency | 398 738 | `CapacityRespected`, `BooksAgree`, `IntervalsStand`, `ImplementsPort` |
| `solve_epoch` | two epochs, three optimizers (one stateful), a formulation or none | 675 314 | `ReturnedIsValidated`, `OutcomesOnce`, `NoStackTwice` |
| `planning` | 17 problems on four nodes and seven links, two tasks, two resources, three optimizers and a plug-in | 191 763 | `RoutesAreCheapest`, `EarliestIsEarliest`, `AcceptedIsExecutable`, `BuiltInsAreAccepted`, `OptimalIsOptimal` |
| `run_service` | two runs of which one is traced, one reading client | 90 949 | `AnswersAreTrue`, `ArchiveIsTrue`, `EveryRunIsFinalized` |
| `agent_chat` | four requests | 358 728 | `CompiledIsAgreed` |
| `solve_trace` | as `solve_epoch` | violated | `EveryInvocationEnds` |
| `agent_chat_confirm` | as `agent_chat`, messages and confirmations | violated | `ConfirmedIsCompiled` |

The type invariants (`TaskTypeOK`, `DagTypeOK`, `LoopTypeOK`, `RuntimeTypeOK`,
`SolveTypeOK`) are proved and not run.

What they show:

* **task_lifecycle**: whatever order tasks run and fail in, the manager releases
  each task exactly when its parents have succeeded, skips exactly the
  descendants of failures (or, under FAIL_FAST, everything unresolved), never
  changes a result, never strands a workflow and never releases a task whose
  input is missing. With an executor that starts what is ready, every workflow is
  resolved.
* **dag_validation**: a workflow with parallel dependency and data edges, with
  competing or mistyped edges, loops and cycles is accepted if and only if it can
  be ordered, and the index orders it. On top of it the preflight of generated
  scenes refuses only what has no placement under the load that is left, never
  raises a load, hands out only scenes in which every task has a place its parents
  reach, and ends.
* **coordinator_virtual**: with results arriving in any real-time order, the loop
  never loses a running task and never handles one twice, respects the retry
  contract, keeps FAIL_FAST workflows serial, processes completions in event-time
  order, never moves the clock past an owed one, and uses the task manager only
  in ways its specification allows.
* **coordinator_faults**: with an exception at any await, in any interleaving with
  completions, the loop never reaches one of its internal errors, leaves no
  attempt behind and ends.
* **coordinator_remote**: without the virtual-time guarantee - arbitrary finish
  times in any order, two retries - every run ends.
* **agent_runtime**: no sequence of dispatches, repeated dispatches, failing
  executions, completions and cancels at any time overbooks a node at any
  instant or lets the runtime's tables and the calendars disagree; the runtime
  implements the abstract port.
* **solve_epoch**: whatever primary and fallback optimizers return or raise, and
  wherever the shared deadline strikes, an epoch returns only a plan that was found
  sound for its problem, from the stack that solved it, in time; every invocation
  gets its outcome on its own trace, and no stack is asked twice.
* **planning**: the route search finds the cheapest route, ties included; the jump
  search finds the earliest start although it looks only at releases; a plan that
  passes the validation can be carried out at every moment, with its transfers,
  carry-in, background load and batteries, also when a plug-in lied; built-in plans
  pass, but for the plain heuristic's where a battery or a hard constraint is in
  play, at which it does not look; OPTIMAL is claimed only for the best decision of
  the formulation, ties included, whatever limit stops the search.
* **run_service**: three parties finalize a run under every interleaving, files fail
  or raise: an answer never contradicts the outcome and never changes once final, a
  trace on disk that has a status is complete and says what happened, and a run
  nobody asks for becomes final all the same.
* **agent_chat**: with losses, abandoned turns, restarts, model failures and refused
  scenes, a scene is the plan that was confirmed, made from all messages the
  session has heard - as long as the user did not go on while an abandoned turn was
  still at work.
* **solve_trace**, **agent_chat_confirm**: the two findings below.

### Findings

* `solve_trace` (`scheduler.py:1045`): recording a plan whose objective key is not
  finite raises in `SolveTraceEntry` (`state.py:172`), outside the handlers that
  record an outcome. The invocation stays at *started*, where the repository's
  README (line 172) promises the common lifecycle for every solver. The key is the
  plug-in's own; `validate_plan` would have replaced it. `OutcomesOnce` therefore
  excepts exactly these invocations (`lost`).
* `agent_chat_confirm` (`agent_service.py:285`): the late plan of a turn the panel gave
  up after 50 seconds replaces, in the shared session, the plan shown since, and a
  confirmation compiles the plan nobody has seen; the service says that only the
  confirmed plan is compiled (line 947). `CompiledIsAgreed` states the case in which
  the promise holds.

### Bounds

Every bound is a constant of a configuration.

* Four tasks in the task manager are the least number with a diamond next to an
  independent task, a chain of three below a failure, and a join of two failures;
  up to renaming, every DAG on four tasks is in the instance. Three tasks in the
  loop give independent tasks, chain, fork and join with one arriving late; two
  suffice for the fault runs, which ask about attempts rather than graphs.
* Two attempts give a retry and its exhaustion, three a retry of a retry. The
  last task is not retryable, the others are.
* Times 0..2 give events before, at and after one another and deadlines that are
  met and missed. `MaxTime` bounds the finish of an attempt and the drop time, so
  the clock never passes it.
* Two nodes are needed for exclusions and for the fallback when no other node is
  left; with one node (`coordinator_virtual`, `coordinator_remote`) the fallback
  is reached by every retry.
* In the runtime, three attempts overlap on a node with room for two; they are
  cancelled before, in and after the first intervals. Attempts are symmetric and no
  liveness is checked there, so symmetry is sound.
* In an epoch three optimizers give every relation of primary and fallback: the
  same, another id, another version under the same id, one that does not resolve
  the formulation. A budget of one unit is before or after the deadline at every
  step; a second epoch reuses the keys of the first. The plan of another problem
  is one no epoch builds.
* The 17 problems of `planning` each change one or two things of a base problem, so
  that each rule is the one that decides in some of them (shared links, tied and
  stale labels, a gap in a calendar, a node over capacity, batteries, hard and soft
  constraints, weights, iteration limits, several inputs, exclusions). A plug-in's
  starts go to `Horizon` 5, past every end of the carry-in.
* Two runs queue for the worker and only one has a trace; one reader asks again and
  again. The response file is the one that may fail.
* Four requests are the shortest conversation with a question, a plan that is
  abandoned, a plan that is shown, and its confirmation.
* Two nodes and three tasks give a preflight tasks without room, without a path and
  without a node, and repairs of one node for two tasks.

### Fairness

* `TaskFairness`: a ready task is started and a running task completes. The
  coordinator does this for every task it does not drop, and the environment of
  the manager is only this loop.
* `FairSpec` of `Coordinator`: `WF(LoopStep)` - a coroutine that is not blocked
  is resumed by the event loop, and planning and dispatch calls return or raise;
  `WF(RuntimeStep)` - an accepted attempt is answered, which `RuntimePort`
  obliges an adapter to do (the in-process runtime answers at once). No fairness
  is assumed for single outcomes: the runtime may answer "failed" every time, and
  nothing forces `Interrupted`. Under this, `RunEnds` holds with and without
  faults and virtual time.

* `Spec` of `RunService`: `SF(Worker)` and `SF(AddCallback)` - threads are scheduled and
  one that waits for the lock gets it in the end, though others take it again and
  again - and `WF(InLock)`. That `Execute` is left rests on `RunEnds`. Nothing makes
  a client submit or read.
* `PreflightSpec`: `WF(PreflightNext)`; the preflight is one synchronous call.

Deadlock is not checked where a run of the program stops: a resolved workflow, an
ended run, a finished validation or preflight, a runtime in which every attempt is
over, an epoch or a conversation at its bound, a plan that is judged, a service
without further requests.
`task_lifecycle` has no deadlock (a late `complete` is always possible) and is
checked for it.

### Mutants

Every property of every run is violated when one definition is replaced by a
plausible bug (`PROJECT.json`, "mutants"; the bugs are the operators whose names
carry a suffix, such as `Released_StaleParents` or `Due_StrictlyPast`, each with a
comment naming the bug).

## 5. What is proved

TLAPS checks every proof, for every value of the constants within the named
assumptions: any finite set of tasks and any acyclic workflows
(`WorkflowsWellFormed`), any nodes, attempt bound and time bound, with and without
virtual time and faults (`CoordinatorAssumption`), any set of submissions
(`SubmissionAssumption`), any scenes whose loads are within capacity
(`SceneAssumption`: a load is a utilization of at most one), any finite runtime whose
nodes take at least one task at a time (`RuntimeAssumption`), any optimizers and
formulations (`SolveAssumption`), any well-formed problems and networks
(`ProblemAssumption`, `NetworkAssumption`), any plug-in plans of the kinds listed in
`PlugInAssumption`, any runs and clients (`ServiceAssumption`) and any
number of requests (`ChatAssumption`). Where an assumption says that something is not
in a set, it keeps a model value for "none" apart from what it stands beside.

**`CoordinatorProofs`** begins with the task manager, of which its theorems speak
alone (`TaskSpec`). `SafetyInv` is the conjunction of the type invariant,
`ParentsFirst`, `NoLostRelease`, `FailureContained` and that published outputs are
complete (`OutputsComplete`). It is inductive as a whole, none of the interesting
parts alone: a success releases a child rightly only because of
`NoLostRelease` and `ParentsFirst`, and a failure may skip the descendants of a
task only because they all still wait (`DescendantsWait`, from `ParentsFirst`).
`ResultsFinal` and `InputsMaterialized` follow. `NoStrandedTask` needs
acyclicity: among the waiting tasks one has least level, its unfinished parent is
not waiting, and a parent that failed would have caused it to be skipped. The
existence of that least task comes from the well-foundedness of the natural
numbers (`MinimalLevel`).

**`ScenePreflightProofs`** holds the theorems about validation and, on top of them,
about the preflight. `DagInv` says of every turn of Kahn's loop that the
in-degree of a task is the number of its parents not yet in the order, that the
queue holds exactly the tasks with none that are not in the order, that what is in
the order comes after its parents, and that levels are the maximum of the
parents' plus one. Levels are bounded by the length of the order, which is what
makes the maximum of an arbitrary finite set of parents exist. At the end a count
of the order (`UniqueLength`: no repetitions) decides whether it is complete
(`IndexInOrder`, `LevelsTight`) or a set of tasks is left of which each waits for
another (`CyclicIsCyclic`). `IndexInOrder` gives every accepted workflow levels
that rise along its edges: the assumption from which the proofs about the task manager start.

Every step of the preflight is a step of the validation or leaves it alone
(`PreflightValidates`), so `DagInv` holds there as well. `SceneInv` adds that the
reports of the audit stand (`AuditStands`): a task's report depends on its parents'
reports, which the order of the index has already made, and the load a repair changes
is followed by a new pass. From it `VerdictIsRight`: if a placement existed although
some task has no node, then among the tasks whose place is not in their report one has
least level; its parents' places are in theirs, so the audit would have found its own.
That is where the levels of the accepted workflow are needed.

Then **`CoordinatorProofs`** turns to the loop, in four layers.

1. `LoopShape`, the types without the attempt bound, is inductive without any
   knowledge of the protocol. It suffices for `ShapeStep`: each step of the loop
   is a step of the task manager or leaves it alone. This gives
   `ImplementsTaskLifecycle` (`Spec => TaskSpec`), and with it the task manager's
   proved invariant holds in every state of the loop (`TaskManagerSafe`).
2. `LoopInv` is inductive given those: `Numbered` (attempt numbers: a task that
   has not run has number 1, one that waits has an attempt left, an active attempt
   has the last number given), `Booked` (each outstanding attempt of the runtime
   is one active record and vice versa, and numbers not yet given are unused),
   `Owned` (a running task is in exactly one of in-flight, retrying, planned,
   dispatching; under FAIL_FAST only one task is held at all) and `OnceOnly` (a
   task that must not be repeated has not been executed while it waits). Each
   needs the others: a fresh attempt number is unused because of `Booked`, an
   attempt bound is kept because of `Numbered` and `Owned`.
   From it follow `LoopTypeOK`, `OneOwner`, `ContractSafeRetry`, `SerialFailFast`.
3. `Ended` adds what holds when the run is over. The branch that raises for lack
   of anything to wait for is unreachable (`NeverStuck`): by `NoStrandedTask` an
   unresolved workflow has a ready or running task, by `Owned` the running one is
   held somewhere, and each of those places leaves the loop something to do. This
   gives `NoInternalError` and `NoOrphans`; `AttemptsEndOnce` and `EventOrder`
   are action properties from the same invariants.
4. `NoMissedCompletion` is inductive given those invariants: the clock moves
   only to the least known event and only if that is before every owed completion.
   `Timed` adds that a task that is held is no earlier than its arrival and its
   parents' ends, whence `CausalTimes`.

**`AgentRuntimeProofs`.** `RuntimeInv` is `Tables` (an outstanding attempt has one
entry in each table), `Calendars` (which reservations are open, and of which
attempts), `WithinCapacity` and the bounds on times. The parts are inductive only
together: that a completion ends an interval where it was acknowledged, hence frees
nothing early, comes from `Tables`, and that the start found for a new interval keeps
every instant within capacity from `Calendars` and `ShortenedHoldsLess` (cutting
intervals short never adds to the load of an instant). `FoundStart` proves that the
calendar search has an answer for the sampled duration whenever it had one for the
planned. `Demand` counts the units held, so that no sum
has to be proved by induction. `CapacityRespected` and `BooksAgree` follow, the action
property `IntervalsStand`, and step by step the refinement `ImplementsPort`.

**`SolveOrchestrationProofs`.** `SolveInv` says where the control flow is
(`Control`), that the running invocation is the newest and the one the trace finds
under its keys (`Current`; without it an entry could land on an older invocation with
the same stack), that an invocation's phases end as its fate says (`Traced`), and that
no candidate left is a stack this epoch has asked (`Fresh`). `NoStackTwice` rests on
`Fresh`; `Fresh` on the candidates being different from each other, which
`CandidatesDiffer` proves of the fallback list. `ReturnedIsValidated` and
`OutcomesOnce` follow.

**`RunServiceProofs`.** `ServiceInv` holds between any two steps of worker, callback
and requests: the worker is at one run (`WorkerIsAt`), a final status is how the future
ended (`FinalAgrees`), a reader's run is refreshed before the reader is answered
(`AskedIsRefreshed`), the status file is the last to be written (`WritesInOrder`), and
what is on disk beside a status is complete (`ArchiveComplete`). The artifact is why
`WorkerIsAt` speaks of reports: a run is over only after its artifact was kept, so no
thread can archive it without. `AnswersAreTrue` and `ArchiveIsTrue` follow.

**`AgentChatProofs`.** `CompiledIsAgreed` is about answers that have arrived, while up
to `MaxTurns` turns share session objects without a lock. `ChatInv` is about who can
still move: sessions belong to one conversation (`SessionsApart`), a turn that was
alone when it was sent stays alone until the next request (`AloneIsAlone`), the turn
that confirms a plan is the one after the turn that showed it (`ConfirmsLast`, because
the panel waits only for its last request), and between the two nobody else touches
the session (`LastStands`, `AgreedStands`). `Moved` names what any step of a turn may
change, so that each action has to be examined once.

**`PlanningProofs`.** `PlanningInv` follows a problem to its plans. `EstimateInv` says
of every label of the route search that it stands for a path of usable links from the
source (`LabelRight`), hence of every input of a candidate that it need not move or
that its path brings it to the node (`TransfersRight`), and that a candidate's node is
allowed and its numbers are the problem's. `CalendarRight` and `TodoRight` say that a
calendar is finite and holds nothing of the tasks still to place: that is why a
reservation can be looked for under its id. `PlacingRight` is about the search for a
start: it has come past no time at which the candidate is `Free`. A jump keeps this
because until the first release at least what is active at the cursor stays active
(`StartsSkipped`). `FoundIsFree` is the other half of `EarliestIsEarliest`: of a
moment of the computation, the last point not after it at which the search has looked
has all that is active at the moment. Both count units of load (`Units`) and compare
sets of them, so that no sum has to be proved by induction, and a finite number of
reservations is all that is assumed of a calendar.

`PlansRight` adds that plans keep their types, however a plug-in falsifies them, and
that an accepted plan has been found right (`Checked`). `AcceptedIsExecutable` is then
what the finitely many comparisons of `validate_plan` mean for every moment. The counts
of `CoversEpoch` and `ReservationsValid` decide because a map onto as many elements is
one to one (`EachOnce`, `EachReserved`). A transfer is accepted only if it is one of the
candidate, whose path the route search has found live (`EachIsReady`, which is where
`EstimateInv` is needed). At any moment a node holds no more than at the last capacity
point before it (`NodesHold`), two transfers that hold a link at the same moment are the
same (`LinksHold`), and the sum of energies is the sum of the candidates' energies
because there is one candidate for a task and node (`BatteriesLast`).

`RoutesRight` is the invariant of the route search (`SearchRight`): every label stands
for a walk from the source over usable links (`Labelled`); and once a node is left, by
taking its best label from the heap, its links lead to nodes whose labels are as good as
what it offers (`Left`). Hence ahead of every walk to the target the heap holds a label
that is as good (`Ahead`). A label of the target that comes first in the heap is
therefore as good as any, and an empty heap means that there is no walk. `Cheap` is the
order of the heap as one of paths: that it is total and transitive needs that of tuples
(`BeforeTotal`, `BeforeTrans`), and that it survives a link more (`CheapAppend`) needs
that a beginning of a path is faster than the path (`PrefixFaster`), for on every link a
payload takes time. That is also why the answer returns to no node (`Straightened`), and
so is one of the finitely many simple paths of the reference (`StraightIsShort`). The
reason of a refusal is right because `Reachable` is where walks over live links end
(`ReachableIsWalked`). Inductions over the length of a path are done on the set of paths
of which the fact holds (`PathInduction`, `InductionUpTo`); the values of the recursive
functions `PathTime` and `reach` come from their existence (`SumExists`,
`ReachableSteps`).

`BuiltInInv` is about the plans that the built-in optimizers make, and says of them,
in terms of the candidates, what `validate_plan` looks for in other terms. A draft is
`Sound`: every task assigned repeats the estimates of one candidate and has its
transfers, one after the other, then its reservation (`Realizes`, `MadeFor`); at every
moment at which it runs something a node holds all that runs (`Holds`); no link carries
two transfers at a time. With the tasks deferred and those still to place it has every
task of the epoch once (`Parted`). The links are free again only after all its transfers
(`Freed`), which is why the transfers of the next task can be put after that
(`TransfersMade`). What makes the place of the next task right is known before one is
chosen (`PlaceRight`): its transfers are what the free times of the links make of the
candidate's routes, and by `FoundIsFree` it is `Free` at every moment. `BuiltInCommit`
then extends all parts of `Sound` by it. A sound plan of all tasks passes every check
but two (`ProperIsValid`): the counts agree because different tasks have different
records (`SoundCovers`, `SoundReservations`, `SoundTransfers`), the comparisons at the
capacity points are instances of `Holds` (`SoundCapacity`). The first of the two are the
batteries. In a decision of the formulation every assignment is one of the candidates
of the decision (`DecisionRight`), for which the batteries last (`Affordable`), and a
sum of energies over different tasks is at most that over the candidates they match
(`SelectionLasts`, with what `IsSum` says of sums of finite sets); the plain heuristic
makes no such check. The second are the hard constraints, which the search has looked
at when it keeps a plan (`Kept`). That a decision is taken from those that are left
needs a least one among finitely many in the order of tuples (`NextDecision`).

**`OptimalityProofs`** extends `PlanningProofs`: `OptimalInv` is about the exhaustive
search and is inductive together with the invariants before it. The property compares a
plan with `Schedule`, which places the tasks of a decision one after the other, each at
the least moment that is `Free`, and knows nothing of jumps, drafts or heaps. While a
decision is looked at, the draft and the links are the stage of its schedule that has
as many tasks (`Following`; `StagesUnfold` gives the stages one by one). The place
found next is that of the schedule (`PlacesBest`): the search for a start has passed no
free moment (`PlacingRight`), the moment it stops at is free (`FoundIsFree`), and it
stops no later than everything on the calendar ends. A decision that is neither left
nor looked at is `Dealt` with: it exhausts a battery, a candidate of it does not fit at
all, it breaks a hard constraint, or the best plan so far is as good (`Searching`).
`BestKept` says that what the search compares is the key and the nodes of that plan.
Replacing the best plan keeps all decisions dealt with because `AsGood` is transitive
(`AsGoodTrans`), which holds for tuples of integers only: hence `KeyIsNumbers`, that
every metric of every plan is an integer, the sums and the peak utilization included,
with keys of one length in one problem. `Unanswered` says that nothing but the end of
the search over all decisions calls a plan optimal; a limit of iterations or time
leaves some undone and says `feasible`. The key of a plan depends on what it assigns,
reserves, transfers and defers only (`AlikeKeys`), so the draft may carry more than the
stage it follows.

The facts about least and greatest elements (`MinimalLevel`, `MinOfSet`, `MaxOfSet`)
stand at the head of each module that needs them: the modules share no state.

TLC has checked each inductive invariant on the instance of the component's run.

## 6. Limits

Only model-checked: liveness (`EventuallyResolved`, `RunEnds`, `EveryRunIsFinalized`,
`PreflightEnds`), which is outside the prover's reach, and the properties of the two
runs that end in a finding.

Not modelled within the modelled parts:

* Coordinator: the guards against a second call and a foreign event loop, the cached
  runtime view, event log and report (a query of the runtime for the report may
  still raise after `Finish`; by `NoOrphans` nothing is outstanding then).
* Port and runtime: the field checks of commands and answers (their failure is
  `DeliverError` and `DispatchRaises`); heartbeats, views, energy and sampling; the
  1e-9 tolerance at equal times and float rounding.
* Scheduling and solve state: critical-path priorities, configuration helpers;
  continuations, serialization and restore of a solve state, which nothing in the
  repository reads back.
* Planning: construction checks of records, float tolerances, utilization of a node
  without capacity, the separate metric of normalized communication, the
  compatibility inputs (full mesh, `parent_artifacts`), the policy optimizer (one of
  the arbitrary answers of `SolveOrchestration`).
* Run service: cancellation of the executor and exceptions that are not `Exception`,
  request validation, the agents' view.
* Chat: texts, prompts, retrieval and the extraction of pipelines; the scene made
  from a plan.
* Preflight: payloads of size zero. The audit itself is documented as lightweight: it
  looks at one task at a time and ignores concurrency and simultaneous load, and so
  do the properties.

Not modelled: profiles and workload generation (numeric estimates) and `engine.py`,
a facade; domain records; templates (each is one file under a fresh id); run polling
in the page, for which no document says what a stale answer should do; the HTTP
layer and the generator's numbers (field validation, translation); presentation; the
benchmark evaluations; and the protocol buffer definitions, which have no
implementation in this repository.

Behaviour worth knowing that no document contradicts, or that lies outside the
properties:

* A restart can be undone: an older turn of the conversation stores its session again
  when it leaves (`agent_service.py:153`).
* After a time-out the panel says "The request was cancelled" although the server's
  turn goes on; when it was the first request, the next starts a new conversation.
* A confirmation outside the review phase plans again.
* The preflight may refuse a scene that another repair would have saved: when a parent
  has room only on a node without a path to the child, and the node that has the
  path is overloaded, only the child is found without a place and no load is
  lowered. `VerdictIsRight` therefore speaks of the load that is left.
* The plain heuristic looks neither at batteries nor at hard constraints, so its plan
  may be rejected and the fallback asked.
* Importing a scene while a run is polled resets the page, but the loop goes on and
  may show the old run later (`App.tsx:1046`).

## 7. Running it

```
tlc -config MCTaskLifecycle.cfg MCTaskLifecycle.tla
tlc -config MCScenePreflight.cfg MCScenePreflight.tla      # DagValidation and ScenePreflight
tlc -config MCCoordinator.cfg MCCoordinator.tla            # also MCCoordinatorFaults.cfg, MCCoordinatorRemote.cfg
tlc -config MCAgentRuntime.cfg MCAgentRuntime.tla
tlc -config MCSolveOrchestration.cfg MCSolveOrchestration.tla   # MCSolveTrace.cfg: the finding
tlc -config MCPlanning.cfg MCPlanning.tla
tlc -config MCRunService.cfg MCRunService.tla
tlc -config MCAgentChat.cfg MCAgentChat.tla                # MCAgentChatConfirm.cfg: the finding
tlapm CoordinatorProofs.tla      # and alike: PlanningProofs, OptimalityProofs, ScenePreflightProofs,
    # AgentRuntimeProofs, SolveOrchestrationProofs, RunServiceProofs, AgentChatProofs
```

Each run takes less than three minutes on two cores; from nothing, `PlanningProofs`
takes fourteen, `OptimalityProofs` five, `CoordinatorProofs` and `AgentChatProofs` about
two each, the others less than one.
