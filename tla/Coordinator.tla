---------------------------- MODULE Coordinator ----------------------------
(***************************************************************************)
(* The event loop of CentralCoordinator.run_async (src/mars/coordinator.py)*)
(* that executes one workflow through the RuntimePort boundary.            *)
(*                                                                         *)
(* The loop owns a virtual clock.  It harvests the completions that have   *)
(* been received, processes them in event-time order, retries, plans and   *)
(* dispatches ready tasks, and otherwise advances the clock or waits.  The *)
(* runtime answers asynchronously: Deliver interleaves with every step of  *)
(* the loop.  One action is the code between two awaits; the inner while   *)
(* that pops the due completions is split into one action per completion.  *)
(* Under virtual time this changes nothing, as no result received between  *)
(* two pops is due before the second; without, it adds orders of equally   *)
(* arbitrary finish times.                                                 *)
(*                                                                         *)
(* The planner and the runtime are the environment: a plan is any          *)
(* assignment of the requested tasks that respects the exclusions, and     *)
(* either side may raise at any call.                                      *)
(***************************************************************************)
EXTENDS TaskLifecycle, FiniteSetsExt

CONSTANTS
  Nodes,         \* the execution nodes
  NoNode,        \* the empty target_node_id: the plan drops the task
  MaxAttempts,   \* max_attempts of run_async
  MaxTime,       \* bound on the virtual clock
  VirtualTime,   \* RuntimeCapabilities.virtual_time of the runtime
  Faulty         \* whether the planner and the runtime may raise

Targets == Nodes \cup {NoNode}
Times == 0 .. MaxTime
AttemptIds == Tasks \X (1 .. MaxAttempts)

\* A workflow also gives each task an arrival time, a deadline and whether a
\* failed execution may be repeated (idempotent and not stateful).
ASSUME CoordinatorAssumption ==
  /\ Tasks \subseteq Nat
  /\ NoNode \notin Nodes
  /\ MaxAttempts \in Nat \ {0}
  /\ MaxTime \in Nat
  /\ VirtualTime \in BOOLEAN
  /\ Faulty \in BOOLEAN
  /\ \A w \in Workflows :
       /\ w.arrival \in [Tasks -> Times]
       /\ w.deadline \in [Tasks -> Times]
       /\ w.retryable \in [Tasks -> BOOLEAN]

VARIABLES
  now,             \* current_time_ms
  phase,           \* "running", "cancelling", "done" or "raised"
  failure,         \* what made the run raise, "" if nothing did
  plan,            \* committed assignments <<task, target>> not yet dispatched
  current,         \* the assignment being dispatched: at most one
  nextAttempt,     \* next_attempt_no
  failedNodes,     \* failed_nodes_by_task
  pendingRetries,  \* pending_retries
  completionTime,  \* completion_time, 0 where there is none
  active,          \* active_by_dispatch with the outcome of each future
  attempt          \* what the loop left every attempt in at the runtime

loopVars == <<now, phase, failure, plan, current, nextAttempt, failedNodes,
              pendingRetries, completionTime, active, attempt>>
vars == <<taskVars, loopVars>>

ActiveAttempt ==
  [task : Tasks, no : 1 .. MaxAttempts, node : Nodes, finish : Times,
   result : {"awaited", "ok", "failed", "error", "cancelled"}]

Init ==
  /\ TaskInit
  /\ now = 0
  /\ phase = "running"
  /\ failure = ""
  /\ plan = {}
  /\ current = {}
  /\ nextAttempt = [t \in Tasks |-> 1]
  /\ failedNodes = [t \in Tasks |-> {}]
  /\ pendingRetries = {}
  /\ completionTime = [t \in Tasks |-> 0]
  /\ active = {}
  /\ attempt = [a \in AttemptIds |-> "unused"]

---------------------------------------------------------------------------
(* Queries of the loop. *)

\* (The arrival time is forgotten once the parents are there.)
ReadyAt_NoArrival(t) ==
  Max({IF Parents(t) = {} THEN workflow.arrival[t] ELSE 0}
        \cup {completionTime[p] : p \in Parents(t)})

ReadyAt(t) ==
  Max({workflow.arrival[t]} \cup {completionTime[p] : p \in Parents(t)})

Received == {r \in active : r.result \in {"ok", "failed"}}
Awaited == {r \in active : r.result = "awaited"}

\* Strictly before every completion a virtual-time runtime still owes.
\* (A loop that does not wait for the owed completions.)
BeforeWatermark_None(time) == TRUE

BeforeWatermark(time) == VirtualTime => \A r \in Awaited : time < r.finish

\* (An off-by-one: a result is due only after its time has passed.)
Due_StrictlyPast ==
  {r \in Received :
     /\ r.finish < now
     /\ \A q \in Received : r.finish <= q.finish
     /\ BeforeWatermark(r.finish)}

\* The heads of the completion heap that are due.
Due ==
  {r \in Received :
     /\ r.finish <= now
     /\ \A q \in Received : r.finish <= q.finish
     /\ BeforeWatermark(r.finish)}

\* (A retry that has to wait for itself.)
FailFastWaiting_Retries ==
  workflow.failFast /\ (active # {} \/ pendingRetries # {})

\* A FAIL_FAST workflow does not start anything while an attempt is active.
FailFastWaiting == workflow.failFast /\ active # {}

Arrived == {t \in Ready : ReadyAt(t) <= now}

\* (Results that were received ahead of time are not events.)
NextEvents_OnlyArrivals ==
  IF FailFastWaiting THEN {} ELSE {ReadyAt(t) : t \in Ready}

NextEvents ==
  {r.finish : r \in Received}
    \cup (IF FailFastWaiting THEN {} ELSE {ReadyAt(t) : t \in Ready})

\* The top of the loop, after a harvest that did not raise.
AtLoop ==
  /\ phase = "running" /\ plan = {} /\ current = {}
  /\ Unresolved # {}
  /\ \A r \in active : r.result # "error"

---------------------------------------------------------------------------
(* Leaving the loop by an exception, and reporting a result. *)

Raise(reason) == phase' = "cancelling" /\ failure' = reason
Continue == UNCHANGED <<phase, failure>>

\* (The result is recorded for the task alone.)
Settle_TaskOnly(t, result, time) ==
  /\ Continue
  /\ completionTime' = [completionTime EXCEPT ![t] = time]
  /\ state' = [state EXCEPT ![t] = result]
  /\ UNCHANGED <<workflow, outputs>>

\* manager.complete and the completion time of the task; the manager raises
\* when the task is not running and ignores a task that is terminal.
Settle(t, result, time) ==
  IF state[t] \in {"BLOCKED", "READY"}
  THEN Raise("lifecycle") /\ UNCHANGED <<taskVars, completionTime>>
  ELSE /\ Continue
       /\ completionTime' = [completionTime EXCEPT ![t] = time]
       /\ IF state[t] = "RUNNING"
          THEN IF result = "SUCCEEDED"
               THEN \E outs \in SUBSET Ports : CompleteOk(t, outs)
               ELSE CompleteFailed(t, result)
          ELSE CompleteAgain(t)

\* schedule_retry: a rejected dispatch did not execute anything and may always
\* be repeated, an execution only if the task allows it.
\* (Every task may be repeated.)
MayRetry_AnyTask(t, no, rejected) == no < MaxAttempts

MayRetry(t, no, rejected) ==
  no < MaxAttempts /\ (rejected \/ workflow.retryable[t])

---------------------------------------------------------------------------
(* Completions. *)

\* The runtime resolves the completion future of an active attempt.
Deliver(r) ==
  /\ phase \in {"running", "cancelling"}
  /\ r \in Awaited
  /\ \E result \in {"ok", "failed"} :
       active' = (active \ {r}) \cup {[r EXCEPT !.result = result]}
  /\ attempt' = [attempt EXCEPT ![<<r.task, r.no>>] = "completed"]
  /\ UNCHANGED <<taskVars, now, phase, failure, plan, current, nextAttempt,
                 failedNodes, pendingRetries, completionTime>>

\* receive_completion raises, or answers for another dispatch or schedule.
DeliverError(r) ==
  /\ Faulty
  /\ phase \in {"running", "cancelling"}
  /\ r \in Awaited
  /\ active' = (active \ {r}) \cup {[r EXCEPT !.result = "error"]}
  /\ \E end \in {"pending", "completed"} :
       attempt' = [attempt EXCEPT ![<<r.task, r.no>>] = end]
  /\ UNCHANGED <<taskVars, now, phase, failure, plan, current, nextAttempt,
                 failedNodes, pendingRetries, completionTime>>

HarvestRaises ==
  /\ phase = "running" /\ plan = {} /\ current = {}
  /\ Unresolved # {}
  /\ \E r \in active : r.result = "error"
  /\ Raise("runtime")
  /\ UNCHANGED <<taskVars, now, plan, current, nextAttempt, failedNodes,
                 pendingRetries, completionTime, active, attempt>>

\* The task that awaits run_async is cancelled while the loop yields.
Interrupted ==
  /\ Faulty
  /\ phase = "running" /\ plan = {} /\ current = {}
  /\ Unresolved # {} /\ active # {}
  /\ Raise("cancelled")
  /\ UNCHANGED <<taskVars, now, plan, current, nextAttempt, failedNodes,
                 pendingRetries, completionTime, active, attempt>>

ProcessSuccess(r) ==
  /\ AtLoop
  /\ r \in Due
  /\ r.result = "ok"
  /\ active' = active \ {r}
  /\ Settle(r.task, "SUCCEEDED", r.finish)
  /\ UNCHANGED <<now, plan, current, nextAttempt, failedNodes, pendingRetries,
                 attempt>>

\* The outputs of a success lack a port that a data edge reads.
ProcessBadOutputs(r) ==
  /\ Faulty
  /\ AtLoop
  /\ r \in Due
  /\ r.result = "ok"
  /\ AcceptableOutputs(r.task) # SUBSET Ports
  /\ active' = active \ {r}
  /\ Raise("runtime")
  /\ UNCHANGED <<taskVars, now, plan, current, nextAttempt, failedNodes,
                 pendingRetries, completionTime, attempt>>

ProcessFailure(r) ==
  /\ AtLoop
  /\ r \in Due
  /\ r.result = "failed"
  /\ active' = active \ {r}
  /\ failedNodes' = [failedNodes EXCEPT ![r.task] = @ \cup {r.node}]
  /\ IF MayRetry(r.task, r.no, FALSE)
     THEN /\ pendingRetries' = pendingRetries \cup {r.task}
          /\ Continue
          /\ UNCHANGED <<taskVars, completionTime>>
     ELSE /\ Settle(r.task,
                    IF r.finish > workflow.deadline[r.task]
                    THEN "TIMEOUT" ELSE "FAILED",
                    r.finish)
          /\ UNCHANGED pendingRetries
  /\ UNCHANGED <<now, plan, current, nextAttempt, attempt>>

---------------------------------------------------------------------------
(* Planning. *)

RetryDue == AtLoop /\ Due = {} /\ pendingRetries # {} /\ ~FailFastWaiting

PlanDue ==
  /\ AtLoop /\ Due = {}
  /\ pendingRetries = {}
  /\ Arrived # {} /\ ~FailFastWaiting

\* (The task stays in pending_retries while its retry is planned.)
PlanRetry_KeepsPending ==
  /\ RetryDue
  /\ \E target \in Targets : plan' = {<<Min(pendingRetries), target>>}
  /\ UNCHANGED <<taskVars, now, phase, failure, current, nextAttempt,
                 failedNodes, pendingRetries, completionTime, active, attempt>>

\* The least pending task, in the order of the task ids, is planned away from
\* the nodes it failed on; when that finds no node, it is planned once more
\* without the exclusions.
PlanRetry ==
  /\ RetryDue
  /\ LET t == Min(pendingRetries)
     IN /\ \E first \in Targets \ failedNodes[t] :
             \E target \in IF first = NoNode /\ failedNodes[t] # {}
                           THEN Targets ELSE {first} :
               plan' = {<<t, target>>}
        /\ pendingRetries' = pendingRetries \ {t}
  /\ UNCHANGED <<taskVars, now, phase, failure, current, nextAttempt,
                 failedNodes, completionTime, active, attempt>>

\* (FAIL_FAST commits like SKIP_DESCENDANTS.)
Commitments_All(assignments) == {assignments}

\* What a planning epoch commits of its assignments: all of them; under
\* FAIL_FAST one, a drop if there is one.
Commitments(assignments) ==
  LET drops == {a \in assignments : a[2] = NoNode}
  IN IF ~workflow.failFast THEN {assignments}
     ELSE {{a} : a \in IF drops # {} THEN drops ELSE assignments}

\* Every arrived task is planned, and the commitments replace the plan.
PlanArrived ==
  /\ PlanDue
  /\ \E target \in [Arrived -> Targets] :
       plan' \in Commitments({<<t, target[t]>> : t \in Arrived})
  /\ UNCHANGED <<taskVars, now, phase, failure, current, nextAttempt,
                 failedNodes, pendingRetries, completionTime, active, attempt>>

\* The optimizers fail, or defer a ready task.
PlanRaises ==
  /\ Faulty
  /\ RetryDue \/ PlanDue
  /\ pendingRetries' = IF RetryDue THEN pendingRetries \ {Min(pendingRetries)}
                       ELSE pendingRetries
  /\ Raise("planner")
  /\ UNCHANGED <<taskVars, now, plan, current, nextAttempt, failedNodes,
                 completionTime, active, attempt>>

---------------------------------------------------------------------------
(* Dispatch: dispatch_assignment up to the runtime call, and its outcomes. *)

\* (A repeated task keeps its attempt number.)
BeginDispatch_SameAttempt(a) ==
  /\ phase = "running" /\ current = {}
  /\ a \in plan
  /\ plan' = plan \ {a}
  /\ current' = {a}
  /\ IF state[a[1]] = "READY" THEN MarkRunning(a[1]) ELSE UNCHANGED taskVars
  /\ nextAttempt' = [nextAttempt EXCEPT ![a[1]] = 2]
  /\ UNCHANGED <<now, phase, failure, failedNodes, pendingRetries,
                 completionTime, active, attempt>>

BeginDispatch(a) ==
  /\ phase = "running" /\ current = {}
  /\ a \in plan
  /\ plan' = plan \ {a}
  /\ current' = {a}
  /\ IF state[a[1]] = "READY" THEN MarkRunning(a[1]) ELSE UNCHANGED taskVars
  /\ nextAttempt' = [nextAttempt EXCEPT ![a[1]] = @ + 1]
  /\ UNCHANGED <<now, phase, failure, failedNodes, pendingRetries,
                 completionTime, active, attempt>>

\* The plan chooses the time of a drop, from now and the arrival on.
DropAssignment(a) ==
  /\ phase = "running" /\ a \in current
  /\ a[2] = NoNode
  /\ current' = {}
  /\ \E time \in Max({now, workflow.arrival[a[1]]}) .. MaxTime :
       Settle(a[1], "DROPPED", time)
  /\ UNCHANGED <<now, plan, nextAttempt, failedNodes, pendingRetries, active,
                 attempt>>

\* The acknowledgement of a virtual-time runtime fixes when the attempt
\* finishes, never before the time of the dispatch; the completion of another
\* runtime carries any time.
DispatchAccepted(a) ==
  LET no == nextAttempt[a[1]] - 1
  IN /\ phase = "running" /\ a \in current
     /\ a[2] # NoNode
     /\ current' = {}
     /\ \E finish \in (IF VirtualTime THEN now ELSE 0) .. MaxTime :
          active' = active \cup {[task |-> a[1], no |-> no, node |-> a[2],
                                  finish |-> finish, result |-> "awaited"]}
     /\ attempt' = [attempt EXCEPT ![<<a[1], no>>] = "pending"]
     /\ UNCHANGED <<taskVars, now, phase, failure, plan, nextAttempt,
                    failedNodes, pendingRetries, completionTime>>

DispatchRejected(a) ==
  /\ phase = "running" /\ a \in current
  /\ a[2] # NoNode
  /\ current' = {}
  /\ failedNodes' = [failedNodes EXCEPT ![a[1]] = @ \cup {a[2]}]
  /\ IF MayRetry(a[1], nextAttempt[a[1]] - 1, TRUE)
     THEN /\ pendingRetries' = pendingRetries \cup {a[1]}
          /\ Continue
          /\ UNCHANGED <<taskVars, completionTime>>
     ELSE /\ Settle(a[1], "DROPPED", now)
          /\ UNCHANGED pendingRetries
  /\ UNCHANGED <<now, plan, nextAttempt, active, attempt>>

\* dispatch raises or acknowledges another attempt; whether or not the runtime
\* had accepted the attempt, the best-effort cancel withdraws it.
DispatchRaises(a) ==
  /\ Faulty
  /\ phase = "running" /\ a \in current
  /\ a[2] # NoNode
  /\ current' = {}
  /\ \E end \in {"unused", "cancelled"} :
       attempt' = [attempt EXCEPT ![<<a[1], nextAttempt[a[1]] - 1>>] = end]
  /\ Raise("runtime")
  /\ UNCHANGED <<taskVars, now, plan, nextAttempt, failedNodes, pendingRetries,
                 completionTime, active>>

---------------------------------------------------------------------------
(* The clock, and the end of the run. *)

\* Nothing is due: move to the next known event if no owed completion can
\* precede it.  With no event and no completion to wait for the code raises.
Advance ==
  /\ AtLoop /\ Due = {}
  /\ FailFastWaiting \/ (pendingRetries = {} /\ Arrived = {})
  /\ IF NextEvents # {} /\ BeforeWatermark(Min(NextEvents))
     THEN now' = Max({now, Min(NextEvents)}) /\ Continue
     ELSE Awaited = {} /\ Raise("stuck") /\ UNCHANGED now
  /\ UNCHANGED <<taskVars, plan, current, nextAttempt, failedNodes,
                 pendingRetries, completionTime, active, attempt>>

Finish ==
  /\ phase = "running" /\ plan = {} /\ current = {}
  /\ Unresolved = {}
  /\ phase' = "done"
  /\ UNCHANGED <<taskVars, now, failure, plan, current, nextAttempt,
                 failedNodes, pendingRetries, completionTime, active, attempt>>

\* (An attempt whose future is done is not withdrawn.)
CancelAttempt_OnlyAwaited(r) ==
  /\ phase = "cancelling"
  /\ r \in active
  /\ r.result # "cancelled"
  /\ active' = (active \ {r}) \cup {[r EXCEPT !.result = "cancelled"]}
  /\ attempt' = [attempt EXCEPT ![<<r.task, r.no>>] =
                   IF r.result = "awaited" THEN "cancelled" ELSE @]
  /\ UNCHANGED <<taskVars, now, phase, failure, plan, current, nextAttempt,
                 failedNodes, pendingRetries, completionTime>>

\* cancel_active: each active attempt in turn, whatever its future holds.  The
\* withdrawal is best effort: a runtime that refuses it is not asked again.
CancelAttempt(r) ==
  /\ phase = "cancelling"
  /\ r \in active
  /\ r.result # "cancelled"
  /\ active' = (active \ {r}) \cup {[r EXCEPT !.result = "cancelled"]}
  /\ attempt' = [attempt EXCEPT ![<<r.task, r.no>>] =
                   IF @ = "pending" THEN "cancelled" ELSE @]
  /\ UNCHANGED <<taskVars, now, phase, failure, plan, current, nextAttempt,
                 failedNodes, pendingRetries, completionTime>>

Reraise ==
  /\ phase = "cancelling"
  /\ \A r \in active : r.result = "cancelled"
  /\ phase' = "raised"
  /\ UNCHANGED <<taskVars, now, failure, plan, current, nextAttempt,
                 failedNodes, pendingRetries, completionTime, active, attempt>>

LoopStep ==
  \/ HarvestRaises
  \/ \E r \in active :
       ProcessSuccess(r) \/ ProcessBadOutputs(r) \/ ProcessFailure(r)
  \/ PlanRetry \/ PlanArrived \/ PlanRaises
  \/ \E a \in plan : BeginDispatch(a)
  \/ \E a \in current :
       \/ DropAssignment(a) \/ DispatchAccepted(a)
       \/ DispatchRejected(a) \/ DispatchRaises(a)
  \/ Advance \/ Finish
  \/ \E r \in active : CancelAttempt(r)
  \/ Reraise

RuntimeStep == \E r \in active : Deliver(r) \/ DeliverError(r)

Next == LoopStep \/ RuntimeStep \/ Interrupted

Spec == Init /\ [][Next]_vars

\* The loop keeps running, its calls of the planner and the runtime return or
\* raise, and the runtime answers every accepted attempt.  Nothing has to
\* interrupt the loop.
Fairness == WF_vars(LoopStep) /\ WF_vars(RuntimeStep)

FairSpec == Spec /\ Fairness

---------------------------------------------------------------------------
(* Properties. *)

\* Every variable holds a value of its kind.
LoopTypeOK ==
  /\ TaskTypeOK
  /\ now \in Times
  /\ phase \in {"running", "cancelling", "done", "raised"}
  /\ failure \in {"", "lifecycle", "runtime", "cancelled", "planner", "stuck"}
  /\ plan \subseteq Tasks \X Targets
  /\ current \subseteq Tasks \X Targets
  /\ nextAttempt \in [Tasks -> 1 .. (MaxAttempts + 1)]
  /\ failedNodes \in [Tasks -> SUBSET Nodes]
  /\ pendingRetries \subseteq Tasks
  /\ completionTime \in [Tasks -> Times]
  /\ active \subseteq ActiveAttempt
  /\ attempt \in [AttemptIds -> {"unused", "pending", "completed", "cancelled"}]

Planned == {a[1] : a \in plan \cup current}
InFlight == {r.task : r \in active}

\* While the loop runs, every running task is in exactly one place: at the
\* runtime, waiting for its retry, or in the plan; nothing is dispatched,
\* retried and awaited at once, and no running task is forgotten.
OneOwner ==
  phase = "running" =>
    /\ {t \in Tasks : state[t] = "RUNNING"}
         \subseteq InFlight \cup pendingRetries \cup Planned
    /\ \A t \in InFlight \cup pendingRetries \cup {a[1] : a \in current} :
         state[t] = "RUNNING"
    /\ \A t \in Planned : state[t] \in {"READY", "RUNNING"}
    /\ InFlight \cap pendingRetries = {}
    /\ (InFlight \cup pendingRetries) \cap Planned = {}
    /\ \A r, q \in active : r.task = q.task => r = q
    /\ \A a, b \in plan \cup current : a[1] = b[1] => a = b

\* The loop never raises on its own account: its calls of the task manager are
\* all legal and it never finds itself without anything to wait for.
NoInternalError == failure \notin {"lifecycle", "stuck"}

\* A task that must not be repeated is executed at most once, however often
\* its dispatch is rejected.
ContractSafeRetry ==
  \A t \in Tasks :
    ~workflow.retryable[t] =>
      \A i, j \in 1 .. MaxAttempts :
        attempt[<<t, i>>] # "unused" /\ attempt[<<t, j>>] # "unused" => i = j

\* A FAIL_FAST workflow has at most one commitment at a time, so when a task
\* fails no sibling is at the runtime or about to be dispatched.
SerialFailFast ==
  workflow.failFast =>
    /\ \A r, q \in active : r = q
    /\ active # {} => plan \cup current = {}
    /\ (\E t \in Tasks : Failed(t)) =>
         active = {} /\ plan \cup current = {} /\ pendingRetries = {}

\* Under virtual time the clock never passes a result that is still owed or
\* not yet processed.
NoMissedCompletion == VirtualTime => \A r \in active : now <= r.finish

\* Under virtual time results take effect in the order of their event times,
\* whatever the order in which the runtime delivers them.
EventOrder ==
  [][VirtualTime =>
       \A r \in Received :
         phase = "running" /\ r \notin active' =>
           \A q \in active' : r.finish <= q.finish]_vars

\* A task that has run or was dropped ended no earlier than it arrived and
\* than its parents ended.
CausalTimes ==
  VirtualTime =>
    \A t \in Tasks :
      state[t] = "SUCCEEDED" \/ Failed(t) =>
        /\ workflow.arrival[t] <= completionTime[t]
        /\ \A p \in Parents(t) : completionTime[p] <= completionTime[t]

\* An attempt number is used for one execution: it is accepted once and ends
\* once.
AttemptsEndOnce ==
  [][\A a \in AttemptIds :
       attempt'[a] # attempt[a] =>
         \/ attempt[a] = "unused"
         \/ attempt[a] = "pending" /\ attempt'[a] # "unused"]_vars

\* However a run ends, it leaves no attempt at the runtime that it has neither
\* heard of nor withdrawn.
NoOrphans ==
  phase \in {"done", "raised"} =>
    \A a \in AttemptIds : attempt[a] # "pending"

\* Every run ends: it resolves the workflow or raises what the planner, the
\* runtime or its caller raised.
RunEnds ==
  <>(\/ phase = "done" /\ Unresolved = {}
     \/ phase = "raised" /\ failure \in {"planner", "runtime", "cancelled"})
============================================================================
