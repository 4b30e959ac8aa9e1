------------------------- MODULE CoordinatorProofs -------------------------
(***************************************************************************)
(* Theorems about TaskLifecycle and about Coordinator, which extends it:   *)
(* for every workflow, number of tasks, ports, nodes and attempts, on      *)
(* every kind of runtime, with and without faults.                         *)
(*                                                                         *)
(* The task manager comes first: its theorems speak of TaskSpec alone, for *)
(* every set of tasks and ports and every set of acyclic workflows.        *)
(* LoopShape needs no knowledge of the protocol.  It suffices to show that *)
(* the loop implements TaskLifecycle, which makes the invariant of the     *)
(* task manager available; LoopInv, the invariant of the loop, rests on it.*)
(***************************************************************************)
EXTENDS Coordinator, FiniteSetsExt, TLAPS, WellFoundedInduction

---------------------------------------------------------------------------
(* Least and greatest elements. *)

\* Natural numbers are well-founded, so a least level is attained.
LEMMA MinimalLevel ==
  ASSUME NEW T, T # {}, NEW level, \A x \in T : level[x] \in Nat
  PROVE  \E x \in T : \A y \in T : ~(level[y] < level[x])
<1> DEFINE R == OpToRel(<, Nat)
           L == {level[x] : x \in T}
<1>1. IsWellFoundedOn(R, Nat)
  BY NatLessThanWellFounded
<1>2. \A m, n \in Nat : m < n => <<m, n>> \in R
  BY DEF OpToRel
<1>3. L \subseteq Nat /\ L # {}
  OBVIOUS
<1> HIDE DEF R, L
<1>4. PICK m \in L : \A n \in L : <<n, m>> \notin R
  BY <1>1, <1>3, WFMin
<1>5. PICK x \in T : level[x] = m
  BY <1>4 DEF L
<1>6. \A y \in T : ~(level[y] < level[x])
  BY <1>2, <1>4, <1>5 DEF L
<1>7. QED
  BY <1>6

\* The least element of a set of natural numbers.
LEMMA MinOfSet ==
  ASSUME NEW S \in SUBSET Nat, S # {}
  PROVE  Min(S) \in S /\ \A x \in S : Min(S) <= x
<1> DEFINE level == [x \in S |-> x]
<1>1. \A x \in S : level[x] \in Nat
  OBVIOUS
<1>2. PICK m \in S : \A x \in S : ~(level[x] < level[m])
  <2> HIDE DEF level
  <2>1. QED
    BY <1>1, MinimalLevel
<1>3. \E n \in S : \A x \in S : n <= x
  BY <1>2
<1>4. QED
  BY <1>3 DEF Min

\* The greatest element of a bounded set of natural numbers.
LEMMA MaxOfSet ==
  ASSUME NEW b \in Nat, NEW S \in SUBSET (0 .. b), S # {}
  PROVE  Max(S) \in S /\ \A x \in S : x <= Max(S)
<1> DEFINE level == [x \in S |-> b - x]
<1>1. \A x \in S : level[x] \in Nat
  OBVIOUS
<1>2. PICK m \in S : \A x \in S : ~(level[x] < level[m])
  <2> HIDE DEF level
  <2>1. QED
    BY <1>1, MinimalLevel
<1>3. \E n \in S : \A x \in S : n >= x
  BY <1>2
<1>4. QED
  BY <1>3 DEF Max

---------------------------------------------------------------------------
(* The task manager. *)

LEMMA WorkflowFacts ==
  ASSUME NEW w \in Workflows
  PROVE  /\ w.parents \in [Tasks -> SUBSET Tasks]
         /\ w.edges \subseteq Tasks \X Ports \X Tasks
         /\ w.declared \in [Tasks -> SUBSET Ports]
         /\ \A e \in w.edges : e[1] \in w.parents[e[3]]
         /\ w.failFast \in BOOLEAN
BY WorkflowsWellFormed DEF WorkflowsAssumption

LEMMA TypeStep == TaskTypeOK /\ [TaskNext]_taskVars => TaskTypeOK'
<1> SUFFICES ASSUME TaskTypeOK, [TaskNext]_taskVars PROVE TaskTypeOK'
  OBVIOUS
<1> USE DEF TaskTypeOK, TaskState, TERMINAL_STATES, FailureStates
<1>1. ASSUME NEW t \in Tasks, MarkRunning(t) PROVE TaskTypeOK'
  BY <1>1 DEF MarkRunning
<1>2. ASSUME NEW t \in Tasks, NEW outs \in SUBSET Ports, CompleteOk(t, outs)
      PROVE  TaskTypeOK'
  BY <1>2 DEF CompleteOk
<1>3. ASSUME NEW t \in Tasks, NEW result \in FailureStates,
             CompleteFailed(t, result)
      PROVE  TaskTypeOK'
  BY <1>3 DEF CompleteFailed
<1>4. ASSUME NEW t \in Tasks, CompleteAgain(t) PROVE TaskTypeOK'
  BY <1>4 DEF CompleteAgain, taskVars
<1>5. CASE UNCHANGED taskVars
  BY <1>5 DEF taskVars
<1>6. QED
  BY <1>1, <1>2, <1>3, <1>4, <1>5 DEF TaskNext

\* Every variable keeps its type: TaskManager only ever holds TaskStates.
THEOREM TypeCorrect == TaskSpec => []TaskTypeOK
<1>1. TaskInit => TaskTypeOK
  BY DEF TaskInit, TaskTypeOK, TaskState
<1>2. QED
  BY <1>1, TypeStep, PTL DEF TaskSpec

---------------------------------------------------------------------------
(* The inductive invariant behind the safety properties. *)

\* A task that succeeded has published every port a data edge reads.
OutputsComplete ==
  \A t \in Tasks : state[t] = "SUCCEEDED" => RequiredPorts(t) \subseteq outputs[t]

SafetyInv ==
  /\ TaskTypeOK
  /\ ParentsFirst
  /\ NoLostRelease
  /\ FailureContained
  /\ OutputsComplete

\* Nothing below a task that has not succeeded was ever released.
LEMMA DescendantsWait ==
  ASSUME TaskTypeOK, ParentsFirst, NEW t \in Tasks, state[t] # "SUCCEEDED"
  PROVE  \A d \in Descendants(t) : state[d] \in {"BLOCKED", "SKIPPED"}
<1> DEFINE W == {d \in Tasks : state[d] \in {"BLOCKED", "SKIPPED"}}
<1>1. ASSUME NEW s \in Tasks, state[s] # "SUCCEEDED"
      PROVE  Children(s) \subseteq W
  <2> SUFFICES ASSUME NEW c \in Children(s) PROVE c \in W
    OBVIOUS
  <2>1. c \in Tasks /\ s \in Parents(c)
    BY DEF Children
  <2>2. ~Started(c)
    BY <1>1, <2>1 DEF ParentsFirst
  <2>3. QED
    BY <2>1, <2>2 DEF Started, TaskTypeOK, TaskState, TERMINAL_STATES, FailureStates
<1>2. \A s \in W : Children(s) \subseteq W
  BY <1>1
<1>3. W \in ClosedFrom(t)
  BY <1>1, <1>2 DEF ClosedFrom
<1>4. QED
  BY <1>3 DEF Descendants

\* Children of descendants are descendants.
LEMMA DescendantsClosed ==
  ASSUME NEW f \in Tasks
  PROVE  /\ Children(f) \subseteq Descendants(f)
         /\ \A p \in Descendants(f) : Children(p) \subseteq Descendants(f)
<1>1. \A p : Children(p) \subseteq Tasks
  BY DEF Children
<1>2. Children(f) \subseteq Descendants(f)
  BY <1>1 DEF Descendants, ClosedFrom
<1>3. ASSUME NEW p \in Descendants(f), NEW c \in Children(p)
      PROVE  c \in Descendants(f)
  <2> SUFFICES ASSUME NEW S \in ClosedFrom(f) PROVE c \in S
    BY <1>1, <1>3 DEF Descendants
  <2>1. p \in S
    BY <1>3 DEF Descendants
  <2>2. QED
    BY <1>3, <2>1 DEF ClosedFrom
<1>4. QED
  BY <1>2, <1>3

LEMMA InitSafety == TaskInit => SafetyInv
<1> SUFFICES ASSUME TaskInit PROVE SafetyInv
  OBVIOUS
<1>1. TaskTypeOK
  BY DEF TaskInit, TaskTypeOK, TaskState
<1>2. \A t \in Tasks : state[t] \in {"READY", "BLOCKED"}
  BY DEF TaskInit
<1>3. ParentsFirst
  BY DEF TaskInit, ParentsFirst, Started, FailureStates
<1>4. NoLostRelease
  <2> SUFFICES ASSUME NEW t \in Tasks, state[t] = "BLOCKED"
               PROVE  \E p \in Parents(t) : state[p] # "SUCCEEDED"
    BY DEF NoLostRelease
  <2>1. PICK p : p \in Parents(t)
    BY DEF TaskInit
  <2>2. p \in Tasks
    BY <1>1, <2>1, WorkflowFacts DEF Parents, TaskTypeOK
  <2>3. QED
    BY <1>2, <2>1, <2>2
<1>5. FailureContained
  BY <1>2 DEF FailureContained, Failed, FailureStates
<1>6. OutputsComplete
  BY <1>2 DEF OutputsComplete
<1>7. QED
  BY <1>1, <1>3, <1>4, <1>5, <1>6 DEF SafetyInv

\* As long as the workflow is the same, so is everything read off its graph.
LEMMA GraphUnchanged ==
  ASSUME workflow' = workflow
  PROVE  /\ \A t : Parents(t)' = Parents(t)
         /\ \A t : Descendants(t)' = Descendants(t)
         /\ \A t : RequiredPorts(t)' = RequiredPorts(t)
BY DEF Parents, Children, ClosedFrom, Descendants, RequiredPorts

LEMMA MarkRunningSafety ==
  ASSUME SafetyInv, NEW t \in Tasks, MarkRunning(t)
  PROVE  SafetyInv'
<1> USE DEF TaskTypeOK, TaskState, TERMINAL_STATES, FailureStates
<1>1. /\ TaskTypeOK /\ TaskTypeOK'
      /\ state[t] = "READY" /\ state'[t] = "RUNNING"
      /\ \A c \in Tasks : c # t => state'[c] = state[c]
      /\ workflow' = workflow /\ outputs' = outputs
  BY DEF MarkRunning, SafetyInv
<1>2. \A c : Parents(c)' = Parents(c) /\ Descendants(c)' = Descendants(c)
  BY <1>1, GraphUnchanged
<1>3. \A c : Parents(c) \subseteq Tasks \/ c \notin Tasks
  BY <1>1, WorkflowFacts DEF Parents
<1>4. ParentsFirst'
  BY <1>1, <1>2, <1>3 DEF SafetyInv, ParentsFirst, Started
<1>5. NoLostRelease'
  BY <1>1, <1>2, <1>3 DEF SafetyInv, NoLostRelease
<1>6. FailureContained'
  <2>1. \A c \in Tasks : /\ Failed(c)' <=> Failed(c)
                         /\ state'[c] = "SKIPPED" <=> state[c] = "SKIPPED"
    BY <1>1 DEF Failed
  <2>2. CASE workflow.failFast
    <3>1. t \in Unresolved
      BY <1>1 DEF Unresolved
    <3>2. ~\E f \in Tasks : Failed(f)
      BY <2>2, <3>1 DEF SafetyInv, FailureContained
    <3>3. ~\E c \in Tasks : state[c] = "SKIPPED"
      BY <2>2, <3>2 DEF SafetyInv, FailureContained
    <3>4. QED
      BY <1>1, <2>1, <2>2, <3>2, <3>3 DEF FailureContained
  <2>3. CASE ~workflow.failFast
    <3>1. {c \in Tasks : state'[c] = "SKIPPED"} = {c \in Tasks : state[c] = "SKIPPED"}
      BY <2>1
    <3>2. {c \in Tasks : Failed(c)}' = {c \in Tasks : Failed(c)}
      BY <2>1
    <3>3. QED
      BY <1>1, <1>2, <2>3, <3>1, <3>2 DEF SafetyInv, FailureContained
  <2>4. QED
    BY <2>2, <2>3
<1>7. OutputsComplete'
  BY <1>1, GraphUnchanged DEF SafetyInv, OutputsComplete
<1>8. QED
  BY <1>1, <1>4, <1>5, <1>6, <1>7 DEF SafetyInv

LEMMA CompleteOkSafety ==
  ASSUME SafetyInv, NEW t \in Tasks, NEW outs \in SUBSET Ports, CompleteOk(t, outs)
  PROVE  SafetyInv'
<1> USE DEF TaskTypeOK, TaskState, TERMINAL_STATES, FailureStates
<1>1. /\ TaskTypeOK /\ TaskTypeOK'
      /\ state[t] = "RUNNING" /\ state'[t] = "SUCCEEDED"
      /\ \A c \in Tasks : c # t =>
           state'[c] = IF c \in Released(t) THEN "READY" ELSE state[c]
      /\ workflow' = workflow
  BY DEF CompleteOk, SafetyInv
<1>2. \A c : Parents(c)' = Parents(c) /\ Descendants(c)' = Descendants(c)
  BY <1>1, GraphUnchanged
<1>3. \A c \in Tasks : Parents(c) \subseteq Tasks
  BY <1>1, WorkflowFacts DEF Parents
<1>4. \A c \in Tasks : c \in Released(t) =>
        /\ state[c] = "BLOCKED"
        /\ \A p \in Parents(c) : p = t \/ state[p] = "SUCCEEDED"
  BY DEF Released
<1>5. \A c \in Tasks : state[c] = "SUCCEEDED" => state'[c] = "SUCCEEDED"
  BY <1>1, <1>4
<1>6. ParentsFirst'
  <2> SUFFICES ASSUME NEW c \in Tasks, Started(c)', NEW p \in Parents(c)
               PROVE  state'[p] = "SUCCEEDED"
    BY <1>2 DEF ParentsFirst
  <2>1. CASE Started(c)
    BY <1>3, <1>5, <2>1 DEF SafetyInv, ParentsFirst
  <2>2. CASE ~Started(c)
    <3>1. c \in Released(t)
      BY <1>1, <2>2 DEF Started
    <3>2. QED
      BY <1>1, <1>3, <1>4, <1>5, <3>1
  <2>3. QED
    BY <2>1, <2>2
<1>7. NoLostRelease'
  <2> SUFFICES ASSUME NEW c \in Tasks, state'[c] = "BLOCKED"
               PROVE  \E p \in Parents(c) : state'[p] # "SUCCEEDED"
    BY <1>2 DEF NoLostRelease
  <2>1. c # t /\ state[c] = "BLOCKED" /\ c \notin Released(t)
    BY <1>1
  <2>2. PICK q \in Parents(c) : state[q] # "SUCCEEDED"
    BY <2>1 DEF SafetyInv, NoLostRelease
  <2>3. \E p \in Parents(c) : p # t /\ state[p] # "SUCCEEDED"
    BY <2>1, <2>2 DEF Released, Children
  <2>4. QED
    BY <1>1, <1>3, <2>3
<1>8. FailureContained'
  <2>1. \A c \in Tasks : /\ Failed(c)' <=> Failed(c)
                         /\ state'[c] = "SKIPPED" <=> state[c] = "SKIPPED"
    BY <1>1, <1>4 DEF Failed
  <2>2. CASE workflow.failFast
    <3>1. t \in Unresolved
      BY <1>1 DEF Unresolved
    <3>2. ~\E f \in Tasks : Failed(f)
      BY <2>2, <3>1 DEF SafetyInv, FailureContained
    <3>3. ~\E c \in Tasks : state[c] = "SKIPPED"
      BY <2>2, <3>2 DEF SafetyInv, FailureContained
    <3>4. QED
      BY <1>1, <2>1, <2>2, <3>2, <3>3 DEF FailureContained
  <2>3. CASE ~workflow.failFast
    <3>1. {c \in Tasks : state'[c] = "SKIPPED"} = {c \in Tasks : state[c] = "SKIPPED"}
      BY <2>1
    <3>2. {c \in Tasks : Failed(c)}' = {c \in Tasks : Failed(c)}
      BY <2>1
    <3>3. QED
      BY <1>1, <1>2, <2>3, <3>1, <3>2 DEF SafetyInv, FailureContained
  <2>4. QED
    BY <2>2, <2>3
<1>9. OutputsComplete'
  <2>1. /\ outputs'[t] = outs /\ RequiredPorts(t) \subseteq outs
        /\ \A c \in Tasks : c # t => outputs'[c] = outputs[c]
    BY <1>1 DEF CompleteOk, AcceptableOutputs
  <2>2. \A c \in Tasks : c # t /\ state'[c] = "SUCCEEDED" => state[c] = "SUCCEEDED"
    BY <1>1
  <2>3. QED
    BY <1>1, <2>1, <2>2, GraphUnchanged DEF SafetyInv, OutputsComplete
<1>10. QED
  BY <1>1, <1>6, <1>7, <1>8, <1>9 DEF SafetyInv

LEMMA CompleteFailedSafety ==
  ASSUME SafetyInv, NEW t \in Tasks, NEW result \in FailureStates,
         CompleteFailed(t, result)
  PROVE  SafetyInv'
<1> USE DEF TaskTypeOK, TaskState, TERMINAL_STATES, FailureStates
<1>1. /\ TaskTypeOK /\ TaskTypeOK'
      /\ state[t] = "RUNNING" /\ state'[t] = result
      /\ \A c \in Tasks : c # t =>
           state'[c] = IF c \in SkippedBy(t) THEN "SKIPPED" ELSE state[c]
      /\ workflow' = workflow /\ outputs' = outputs
  BY DEF CompleteFailed, SafetyInv
<1>2. \A c : Parents(c)' = Parents(c) /\ Descendants(c)' = Descendants(c)
  BY <1>1, GraphUnchanged
<1>3. \A c \in Tasks : Parents(c) \subseteq Tasks
  BY <1>1, WorkflowFacts DEF Parents
<1>4. \A c \in Tasks : c \in SkippedBy(t) => state[c] \in {"BLOCKED", "READY", "RUNNING"}
  BY DEF SkippedBy
<1>5. \A c \in Tasks : state'[c] = "SUCCEEDED" <=> state[c] = "SUCCEEDED"
  BY <1>1, <1>4
<1>6. ParentsFirst'
  <2> SUFFICES ASSUME NEW c \in Tasks, Started(c)', NEW p \in Parents(c)
               PROVE  state'[p] = "SUCCEEDED"
    BY <1>2 DEF ParentsFirst
  <2>1. Started(c)
    BY <1>1 DEF Started
  <2>2. QED
    BY <1>3, <1>5, <2>1 DEF SafetyInv, ParentsFirst
<1>7. NoLostRelease'
  <2> SUFFICES ASSUME NEW c \in Tasks, state'[c] = "BLOCKED"
               PROVE  \E p \in Parents(c) : state'[p] # "SUCCEEDED"
    BY <1>2 DEF NoLostRelease
  <2>1. state[c] = "BLOCKED"
    BY <1>1
  <2>2. QED
    BY <1>3, <1>5, <2>1 DEF SafetyInv, NoLostRelease
<1>8. FailureContained'
  <2>1. CASE workflow.failFast
    <3>1. SkippedBy(t) = {c \in Tasks \ {t} : state[c] \in {"BLOCKED", "READY", "RUNNING"}}
      BY <2>1 DEF SkippedBy
    <3>2. \A c \in Tasks : state'[c] \in TERMINAL_STATES
      BY <1>1, <3>1
    <3>3. Unresolved' = {}
      BY <3>2 DEF Unresolved
    <3>4. \E f \in Tasks : Failed(f)'
      BY <1>1 DEF Failed
    <3>5. QED
      BY <1>1, <2>1, <3>3, <3>4 DEF FailureContained
  <2>2. CASE ~workflow.failFast
    <3>1. SkippedBy(t) = {c \in Descendants(t) : state[c] \in {"BLOCKED", "READY", "RUNNING"}}
      BY <2>2 DEF SkippedBy
    <3>2. \A d \in Descendants(t) : state[d] \in {"BLOCKED", "SKIPPED"}
      BY <1>1, DescendantsWait DEF SafetyInv
    <3>3. Descendants(t) \subseteq Tasks
      BY DEF Descendants
    <3>4. {c \in Tasks : state'[c] = "SKIPPED"}
            = {c \in Tasks : state[c] = "SKIPPED"} \cup Descendants(t)
      BY <1>1, <3>1, <3>2, <3>3
    <3>5. {c \in Tasks : Failed(c)}' = {c \in Tasks : Failed(c)} \cup {t}
      <4>1. \A c \in Tasks : Failed(c)' <=> Failed(c) \/ c = t
        BY <1>1, <1>4 DEF Failed
      <4>2. QED
        BY <4>1
    <3>6. UNION {Descendants(f) : f \in {c \in Tasks : Failed(c)} \cup {t}}
            = (UNION {Descendants(f) : f \in {c \in Tasks : Failed(c)}}) \cup Descendants(t)
      OBVIOUS
    <3>7. {c \in Tasks : state[c] = "SKIPPED"}
            = UNION {Descendants(f) : f \in {c \in Tasks : Failed(c)}}
      BY <2>2 DEF SafetyInv, FailureContained
    <3>8. (UNION {Descendants(f) : f \in {c \in Tasks : Failed(c)}})'
            = UNION {Descendants(f) : f \in {c \in Tasks : Failed(c)} \cup {t}}
      BY <1>2, <3>5
    <3>9. QED
      BY <1>1, <2>2, <3>4, <3>6, <3>7, <3>8 DEF FailureContained
  <2>3. QED
    BY <2>1, <2>2
<1>9. OutputsComplete'
  BY <1>1, <1>5, GraphUnchanged DEF SafetyInv, OutputsComplete
<1>10. QED
  BY <1>1, <1>6, <1>7, <1>8, <1>9 DEF SafetyInv

LEMMA StutterSafety ==
  ASSUME SafetyInv, UNCHANGED taskVars
  PROVE  SafetyInv'
<1>1. workflow' = workflow /\ state' = state /\ outputs' = outputs
  BY DEF taskVars
<1>2. /\ \A c : Parents(c)' = Parents(c) /\ Descendants(c)' = Descendants(c)
      /\ \A c : RequiredPorts(c)' = RequiredPorts(c)
      /\ \A c : (Failed(c)' <=> Failed(c)) /\ (Started(c)' <=> Started(c))
      /\ Unresolved' = Unresolved
  BY <1>1, GraphUnchanged DEF Failed, Started, Unresolved
<1>3. TaskTypeOK' /\ ParentsFirst' /\ NoLostRelease' /\ OutputsComplete'
  BY <1>1, <1>2 DEF SafetyInv, TaskTypeOK, ParentsFirst, NoLostRelease, OutputsComplete
<1>4. FailureContained'
  BY <1>1, <1>2 DEF SafetyInv, FailureContained
<1>5. QED
  BY <1>3, <1>4 DEF SafetyInv

\* TaskManager keeps its safety invariant through every sequence of calls.
THEOREM SafetyInvariant == TaskSpec => []SafetyInv
<1>1. SafetyInv /\ [TaskNext]_taskVars => SafetyInv'
  <2> SUFFICES ASSUME SafetyInv, [TaskNext]_taskVars PROVE SafetyInv'
    OBVIOUS
  <2>1. ASSUME NEW t \in Tasks, MarkRunning(t) PROVE SafetyInv'
    BY <2>1, MarkRunningSafety
  <2>2. ASSUME NEW t \in Tasks, NEW outs \in SUBSET Ports, CompleteOk(t, outs)
        PROVE  SafetyInv'
    BY <2>2, CompleteOkSafety
  <2>3. ASSUME NEW t \in Tasks, NEW result \in FailureStates,
               CompleteFailed(t, result)
        PROVE  SafetyInv'
    BY <2>3, CompleteFailedSafety
  <2>4. ASSUME NEW t \in Tasks, CompleteAgain(t) PROVE SafetyInv'
    BY <2>4, StutterSafety DEF CompleteAgain
  <2>5. CASE UNCHANGED taskVars
    BY <2>5, StutterSafety
  <2>6. QED
    BY <2>1, <2>2, <2>3, <2>4, <2>5 DEF TaskNext
<1>2. QED
  BY InitSafety, <1>1, PTL DEF TaskSpec

---------------------------------------------------------------------------
(* The properties of the runs, for every instance. *)

\* Results and offers only ever rest on parents that succeeded.
THEOREM ParentsFirstHolds == TaskSpec => []ParentsFirst
BY SafetyInvariant, PTL DEF SafetyInv

\* A waiting task always has a reason to wait.
THEOREM NoLostReleaseHolds == TaskSpec => []NoLostRelease
BY SafetyInvariant, PTL DEF SafetyInv

\* Failures skip exactly the tasks their policy names.
THEOREM FailureContainedHolds == TaskSpec => []FailureContained
BY SafetyInvariant, PTL DEF SafetyInv

\* Resolving the inputs of a task that may run never misses an artifact.
THEOREM InputsMaterializedHolds == TaskSpec => []InputsMaterialized
<1>1. SafetyInv => InputsMaterialized
  <2> SUFFICES ASSUME SafetyInv, NEW e \in workflow.edges, Started(e[3])
               PROVE  e[2] \in outputs[e[1]]
    BY DEF InputsMaterialized
  <2>1. workflow \in Workflows
    BY DEF SafetyInv, TaskTypeOK
  <2>2. e \in Tasks \X Ports \X Tasks /\ e[1] \in Parents(e[3])
    BY <2>1, WorkflowFacts DEF Parents
  <2>3. state[e[1]] = "SUCCEEDED"
    BY <2>2 DEF SafetyInv, ParentsFirst
  <2>4. e[2] \in RequiredPorts(e[1])
    BY DEF RequiredPorts
  <2>5. QED
    BY <2>2, <2>3, <2>4 DEF SafetyInv, OutputsComplete
<1>2. QED
  BY SafetyInvariant, <1>1, PTL

\* The scheduler can always make progress: an unresolved workflow has a task
\* to start or to wait for.  A waiting task of least level would have an
\* unsucceeded parent that neither waits (it has a lower level) nor is ready
\* or running, so it failed or was skipped, and the waiting task with it.
THEOREM NoStrandedTaskHolds == TaskSpec => []NoStrandedTask
<1>1. SafetyInv => NoStrandedTask
  <2> SUFFICES ASSUME SafetyInv, Unresolved # {},
                      \A t \in Tasks : state[t] \notin {"READY", "RUNNING"}
               PROVE  FALSE
    BY DEF NoStrandedTask
  <2> USE DEF TERMINAL_STATES, FailureStates
  <2>1. TaskTypeOK
    BY DEF SafetyInv
  <2> DEFINE W == {t \in Tasks : state[t] = "BLOCKED"}
  <2>2. W # {}
    BY <2>1 DEF Unresolved, TaskTypeOK, TaskState
  <2>3. PICK level \in [Tasks -> 0 .. Cardinality(Tasks)] :
          \A t \in Tasks : \A p \in Parents(t) : level[p] < level[t]
    BY <2>1, WorkflowsWellFormed DEF WorkflowsAssumption, TaskTypeOK, Parents
  <2>4. \A t \in W : level[t] \in Nat
    BY <2>3
  <2>5. PICK t \in W : \A y \in W : ~(level[y] < level[t])
    <3> HIDE DEF W
    <3>1. QED
      BY <2>2, <2>4, MinimalLevel
  <2>6. PICK p \in Parents(t) : state[p] # "SUCCEEDED"
    BY <2>5 DEF SafetyInv, NoLostRelease
  <2>7. p \in Tasks /\ t \in Children(p)
    BY <2>1, <2>5, <2>6, WorkflowFacts DEF TaskTypeOK, Parents, Children
  <2>8. p \notin W
    BY <2>3, <2>5, <2>6, <2>7
  <2>9. Failed(p) \/ state[p] = "SKIPPED"
    BY <2>1, <2>6, <2>7, <2>8 DEF Failed, TaskTypeOK, TaskState
  <2>10. CASE workflow.failFast
    <3>1. \E f \in Tasks : Failed(f)
      BY <2>7, <2>9, <2>10 DEF SafetyInv, FailureContained
    <3>2. QED
      BY <2>10, <3>1 DEF SafetyInv, FailureContained
  <2>11. CASE ~workflow.failFast
    <3>1. PICK f \in Tasks : Failed(f) /\ (p = f \/ p \in Descendants(f))
      BY <2>7, <2>9, <2>11 DEF SafetyInv, FailureContained
    <3>2. t \in Descendants(f)
      BY <2>7, <3>1, DescendantsClosed
    <3>3. state[t] = "SKIPPED"
      BY <2>5, <2>11, <3>1, <3>2 DEF SafetyInv, FailureContained
    <3>4. QED
      BY <2>5, <3>3
  <2>12. QED
    BY <2>10, <2>11
<1>2. QED
  BY SafetyInvariant, <1>1, PTL

\* Results are final: terminal states and the outputs published with them
\* never change, whatever completions arrive later.
THEOREM ResultsFinalHolds == TaskSpec => ResultsFinal
<1> DEFINE Final == \A t \in Tasks :
                      state[t] \in TERMINAL_STATES =>
                        state'[t] = state[t] /\ outputs'[t] = outputs[t]
<1>1. TaskTypeOK /\ [TaskNext]_taskVars => [Final]_taskVars
  <2> SUFFICES ASSUME TaskTypeOK, TaskNext, NEW c \in Tasks, state[c] \in TERMINAL_STATES
               PROVE  state'[c] = state[c] /\ outputs'[c] = outputs[c]
    BY DEF taskVars
  <2> USE DEF TaskTypeOK, TaskState, TERMINAL_STATES, FailureStates
  <2>1. ASSUME NEW t \in Tasks, MarkRunning(t)
        PROVE  state'[c] = state[c] /\ outputs'[c] = outputs[c]
    BY <2>1 DEF MarkRunning
  <2>2. ASSUME NEW t \in Tasks, NEW outs \in SUBSET Ports, CompleteOk(t, outs)
        PROVE  state'[c] = state[c] /\ outputs'[c] = outputs[c]
    BY <2>2 DEF CompleteOk, Released
  <2>3. ASSUME NEW t \in Tasks, NEW result \in FailureStates,
               CompleteFailed(t, result)
        PROVE  state'[c] = state[c] /\ outputs'[c] = outputs[c]
    BY <2>3 DEF CompleteFailed, SkippedBy
  <2>4. ASSUME NEW t \in Tasks, CompleteAgain(t)
        PROVE  state'[c] = state[c] /\ outputs'[c] = outputs[c]
    BY <2>4 DEF CompleteAgain, taskVars
  <2>5. QED
    BY <2>1, <2>2, <2>3, <2>4 DEF TaskNext
<1>2. QED
  BY TypeCorrect, <1>1, PTL DEF TaskSpec, ResultsFinal

---------------------------------------------------------------------------
(* The shape of the loop's variables, and the refinement. *)

ActiveShape ==
  [task : Tasks, no : Nat, node : Nodes, finish : Times,
   result : {"awaited", "ok", "failed", "error", "cancelled"}]

VarsShape ==
  /\ now \in Times
  /\ phase \in {"running", "cancelling", "done", "raised"}
  /\ failure \in {"", "lifecycle", "runtime", "cancelled", "planner", "stuck"}
  /\ plan \subseteq Tasks \X Targets
  /\ current \subseteq Tasks \X Targets
  /\ nextAttempt \in [Tasks -> Nat \ {0}]
  /\ failedNodes \in [Tasks -> SUBSET Nodes]
  /\ pendingRetries \subseteq Tasks
  /\ completionTime \in [Tasks -> Times]
  /\ active \subseteq ActiveShape
  /\ attempt \in [AttemptIds -> {"unused", "pending", "completed", "cancelled"}]

LoopShape == TaskTypeOK /\ VarsShape

LEMMA WorkflowTimes ==
  ASSUME TaskTypeOK
  PROVE  /\ workflow.arrival \in [Tasks -> Times]
         /\ workflow.deadline \in [Tasks -> Times]
         /\ workflow.retryable \in [Tasks -> BOOLEAN]
         /\ workflow.failFast \in BOOLEAN
BY CoordinatorAssumption, WorkflowFacts DEF CoordinatorAssumption, TaskTypeOK

LEMMA ReadyAtTime ==
  ASSUME LoopShape, NEW t \in Tasks
  PROVE  /\ ReadyAt(t) \in Times
         /\ workflow.arrival[t] <= ReadyAt(t)
         /\ \A p \in Parents(t) : completionTime[p] <= ReadyAt(t)
<1> DEFINE S == {workflow.arrival[t]} \cup {completionTime[p] : p \in Parents(t)}
<1>1. Parents(t) \subseteq Tasks
  BY WorkflowFacts DEF LoopShape, TaskTypeOK, Parents
<1>2. S \in SUBSET (0 .. MaxTime) /\ S # {}
  <2>1. workflow.arrival[t] \in 0 .. MaxTime
    BY WorkflowTimes DEF LoopShape, VarsShape, Times
  <2>2. \A p \in Parents(t) : completionTime[p] \in 0 .. MaxTime
    BY <1>1 DEF LoopShape, VarsShape, Times
  <2>3. QED
    BY <2>1, <2>2
<1>3. MaxTime \in Nat
  BY CoordinatorAssumption DEF CoordinatorAssumption
<1>4. Max(S) \in S /\ \A x \in S : x <= Max(S)
  <2> HIDE DEF S
  <2>1. QED
    BY <1>2, <1>3, MaxOfSet
<1>5. QED
  BY <1>2, <1>4 DEF ReadyAt, Times

\* Reporting a result is a step of the task manager, or an exception.
LEMMA SettleSteps ==
  ASSUME LoopShape,
         NEW t \in Tasks, NEW result \in FailureStates \cup {"SUCCEEDED"},
         NEW time \in Times, Settle(t, result, time)
  PROVE  /\ [TaskNext]_taskVars
         /\ completionTime' \in [Tasks -> Times]
         /\ phase' \in {phase, "cancelling"}
         /\ failure' \in {failure, "lifecycle"}
<1>1. CASE state[t] \in {"BLOCKED", "READY"}
  BY <1>1 DEF Settle, Raise, LoopShape, VarsShape
<1>2. CASE state[t] \notin {"BLOCKED", "READY"}
  <2>1. state[t] = "RUNNING" \/ CompleteAgain(t)
    BY <1>2 DEF Settle, LoopShape, TaskTypeOK, TaskState
  <2>2. CASE CompleteAgain(t)
    BY <1>2, <2>2 DEF Settle, LoopShape, VarsShape, CompleteAgain, Continue
  <2>3. CASE state[t] = "RUNNING" /\ result = "SUCCEEDED"
    BY <1>2, <2>3 DEF Settle, LoopShape, VarsShape, TaskNext, Continue
  <2>4. CASE state[t] = "RUNNING" /\ result # "SUCCEEDED"
    BY <1>2, <2>4 DEF Settle, LoopShape, VarsShape, TaskNext, Continue
  <2>5. QED
    BY <2>1, <2>2, <2>3, <2>4
<1>3. QED
  BY <1>1, <1>2

LEMMA ResultShape ==
  ASSUME NEW r \in ActiveShape,
         NEW result \in {"awaited", "ok", "failed", "error", "cancelled"}
  PROVE  [r EXCEPT !.result = result] \in ActiveShape
BY DEF ActiveShape

LEMMA InitShape == Init => LoopShape
<1> SUFFICES ASSUME Init PROVE LoopShape
  OBVIOUS
<1>1. TaskTypeOK
  BY DEF Init, TaskInit, TaskTypeOK, TaskState
<1>2. 0 \in Times
  BY CoordinatorAssumption DEF CoordinatorAssumption, Times
<1>3. nextAttempt \in [Tasks -> Nat \ {0}]
  <2>1. 1 \in Nat \ {0}
    OBVIOUS
  <2>2. QED
    BY <2>1 DEF Init
<1>4. completionTime \in [Tasks -> Times]
  BY <1>2 DEF Init
<1>5. QED
  BY <1>1, <1>2, <1>3, <1>4 DEF Init, LoopShape, VarsShape

LEMMA CompletionShape ==
  ASSUME LoopShape, NEW r \in active,
         ProcessSuccess(r) \/ ProcessBadOutputs(r) \/ ProcessFailure(r)
  PROVE  VarsShape' /\ [TaskNext]_taskVars
<1>1. r \in ActiveShape /\ r.task \in Tasks /\ r.finish \in Times /\ r.node \in Nodes
  BY DEF LoopShape, VarsShape, ActiveShape
<1>2. CASE ProcessSuccess(r)
  <2>1. Settle(r.task, "SUCCEEDED", r.finish)
    BY <1>2 DEF ProcessSuccess
  <2>2. QED
    BY <1>1, <1>2, <2>1, SettleSteps DEF ProcessSuccess, LoopShape, VarsShape
<1>3. CASE ProcessBadOutputs(r)
  BY <1>3 DEF ProcessBadOutputs, LoopShape, VarsShape, Raise
<1>4. CASE ProcessFailure(r)
  <2>1. failedNodes' \in [Tasks -> SUBSET Nodes]
    BY <1>1, <1>4 DEF ProcessFailure, LoopShape, VarsShape
  <2>2. CASE MayRetry(r.task, r.no, FALSE)
    <3>1. /\ UNCHANGED <<taskVars, completionTime, now, phase, failure, plan, current,
                        nextAttempt, attempt>>
          /\ active' \subseteq active
          /\ pendingRetries' = pendingRetries \cup {r.task}
      BY <1>4, <2>2 DEF ProcessFailure, Continue
    <3>2. QED
      BY <1>1, <2>1, <3>1 DEF LoopShape, VarsShape
  <2>3. CASE ~MayRetry(r.task, r.no, FALSE)
    <3>1. PICK result \in FailureStates : Settle(r.task, result, r.finish)
      BY <1>4, <2>3 DEF ProcessFailure, FailureStates
    <3>2. QED
      BY <1>1, <1>4, <2>1, <2>3, <3>1, SettleSteps
         DEF ProcessFailure, LoopShape, VarsShape
  <2>4. QED
    BY <2>2, <2>3
<1>5. QED
  BY <1>2, <1>3, <1>4

LEMMA PlanShape ==
  ASSUME LoopShape, PlanRetry \/ PlanArrived \/ PlanRaises
  PROVE  VarsShape' /\ [TaskNext]_taskVars
<1>1. CASE PlanRetry
  <2>1. Min(pendingRetries) \in Tasks
    BY <1>1, MinOfSet, CoordinatorAssumption
       DEF PlanRetry, RetryDue, LoopShape, VarsShape, CoordinatorAssumption
  <2>2. plan' \subseteq Tasks \X Targets
    BY <1>1, <2>1 DEF PlanRetry
  <2>3. QED
    BY <1>1, <2>2 DEF PlanRetry, LoopShape, VarsShape
<1>2. CASE PlanArrived
  <2>1. PICK target \in [Arrived -> Targets] :
          plan' \in Commitments({<<t, target[t]>> : t \in Arrived})
    BY <1>2 DEF PlanArrived
  <2>2. {<<t, target[t]>> : t \in Arrived} \subseteq Tasks \X Targets
    BY DEF Arrived, Ready
  <2>3. plan' \subseteq Tasks \X Targets
    BY <2>1, <2>2 DEF Commitments
  <2>4. QED
    BY <1>2, <2>3 DEF PlanArrived, LoopShape, VarsShape
<1>3. CASE PlanRaises
  BY <1>3 DEF PlanRaises, Raise, LoopShape, VarsShape
<1>4. QED
  BY <1>1, <1>2, <1>3

\* A drop takes effect now or later, and not before the task arrives.
LEMMA DropTime ==
  ASSUME LoopShape, NEW a \in current, DropAssignment(a)
  PROVE  \E time \in Times :
           /\ now <= time /\ workflow.arrival[a[1]] <= time
           /\ Settle(a[1], "DROPPED", time)
<1>1. MaxTime \in Nat /\ Times = 0 .. MaxTime
  BY CoordinatorAssumption DEF CoordinatorAssumption, Times
<1>2. a[1] \in Tasks
  BY DEF LoopShape, VarsShape
<1>3. {now, workflow.arrival[a[1]]} \in SUBSET (0 .. MaxTime)
  <2>1. workflow.arrival[a[1]] \in Times
    BY <1>2, WorkflowTimes DEF LoopShape
  <2>2. QED
    BY <1>1, <2>1 DEF LoopShape, VarsShape
<1> DEFINE m == Max({now, workflow.arrival[a[1]]})
<1>4. m \in Times /\ now <= m /\ workflow.arrival[a[1]] <= m
  BY <1>1, <1>3, MaxOfSet
<1>5. \E time \in m .. MaxTime : Settle(a[1], "DROPPED", time)
  BY DEF DropAssignment
<1> HIDE DEF m
<1>6. \A time \in m .. MaxTime :
        time \in Times /\ now <= time /\ workflow.arrival[a[1]] <= time
  BY <1>1, <1>3, <1>4
<1>7. QED
  BY <1>5, <1>6

LEMMA DispatchShape ==
  ASSUME LoopShape, NEW a \in current,
         \/ DropAssignment(a) \/ DispatchAccepted(a)
         \/ DispatchRejected(a) \/ DispatchRaises(a)
  PROVE  VarsShape' /\ [TaskNext]_taskVars
<1>1. /\ a[1] \in Tasks /\ a[2] \in Targets
      /\ nextAttempt[a[1]] - 1 \in Nat
  <2>1. a[1] \in Tasks /\ a[2] \in Targets
    BY DEF LoopShape, VarsShape
  <2>2. nextAttempt[a[1]] \in Nat \ {0}
    BY <2>1 DEF LoopShape, VarsShape
  <2>3. QED
    BY <2>1, <2>2
<1>2. CASE DropAssignment(a)
  <2>1. PICK time \in Times : Settle(a[1], "DROPPED", time)
    BY <1>2, DropTime
  <2>2. QED
    BY <1>1, <1>2, <2>1, SettleSteps
       DEF DropAssignment, LoopShape, VarsShape, FailureStates
<1>3. CASE DispatchAccepted(a)
  <2>1. PICK finish \in Times :
          active' = active \cup {[task |-> a[1], no |-> nextAttempt[a[1]] - 1, node |-> a[2],
                                  finish |-> finish, result |-> "awaited"]}
    <3>1. MaxTime \in Nat /\ now \in 0 .. MaxTime
      BY CoordinatorAssumption DEF LoopShape, VarsShape, Times, CoordinatorAssumption
    <3>2. \A x \in now .. MaxTime : x \in Times
      BY <3>1 DEF Times
    <3>3. (IF VirtualTime THEN now ELSE 0) .. MaxTime \subseteq Times
      BY <3>1, <3>2 DEF Times
    <3>4. QED
      BY <1>3, <3>3 DEF DispatchAccepted
  <2>2. a[2] \in Nodes
    BY <1>1, <1>3 DEF DispatchAccepted, Targets
  <2>3. [task |-> a[1], no |-> nextAttempt[a[1]] - 1, node |-> a[2],
         finish |-> finish, result |-> "awaited"] \in ActiveShape
    BY <1>1, <2>2 DEF ActiveShape
  <2>4. active' \subseteq ActiveShape
    BY <2>1, <2>3 DEF LoopShape, VarsShape
  <2>5. QED
    BY <1>3, <2>4 DEF DispatchAccepted, LoopShape, VarsShape
<1>4. CASE DispatchRejected(a)
  <2>1. failedNodes' \in [Tasks -> SUBSET Nodes]
    BY <1>1, <1>4 DEF DispatchRejected, LoopShape, VarsShape, Targets
  <2>2. CASE MayRetry(a[1], nextAttempt[a[1]] - 1, TRUE)
    BY <1>1, <1>4, <2>1, <2>2
       DEF DispatchRejected, LoopShape, VarsShape, Continue
  <2>3. CASE ~MayRetry(a[1], nextAttempt[a[1]] - 1, TRUE)
    <3>1. Settle(a[1], "DROPPED", now)
      BY <1>4, <2>3 DEF DispatchRejected
    <3>2. QED
      BY <1>1, <1>4, <2>1, <2>3, <3>1, SettleSteps
         DEF DispatchRejected, LoopShape, VarsShape, FailureStates
  <2>4. QED
    BY <2>2, <2>3
<1>5. CASE DispatchRaises(a)
  BY <1>5 DEF DispatchRaises, Raise, LoopShape, VarsShape
<1>6. QED
  BY <1>2, <1>3, <1>4, <1>5

LEMMA AdvanceShape ==
  ASSUME LoopShape, Advance
  PROVE  VarsShape' /\ [TaskNext]_taskVars
<1>1. CASE NextEvents # {} /\ BeforeWatermark(Min(NextEvents))
  <2>1. MaxTime \in Nat /\ Times = 0 .. MaxTime
    BY CoordinatorAssumption DEF CoordinatorAssumption, Times
  <2>2. NextEvents \subseteq Times
    <3>1. \A r \in Received : r.finish \in Times
      BY DEF Received, LoopShape, VarsShape, ActiveShape
    <3>2. \A t \in Ready : ReadyAt(t) \in Times
      BY ReadyAtTime DEF Ready
    <3>3. QED
      BY <3>1, <3>2 DEF NextEvents
  <2>3. Min(NextEvents) \in Times
    <3>1. NextEvents \in SUBSET Nat
      BY <2>1, <2>2
    <3>2. Min(NextEvents) \in NextEvents
      BY <1>1, <3>1, MinOfSet
    <3>3. QED
      BY <2>2, <3>2
  <2>4. {now, Min(NextEvents)} \in SUBSET (0 .. MaxTime)
    BY <2>1, <2>3 DEF LoopShape, VarsShape
  <2>5. now' \in Times
    BY <1>1, <2>1, <2>4, MaxOfSet DEF Advance
  <2>6. QED
    BY <1>1, <2>5 DEF Advance, LoopShape, VarsShape, Continue
<1>2. CASE ~(NextEvents # {} /\ BeforeWatermark(Min(NextEvents)))
  BY <1>2 DEF Advance, LoopShape, VarsShape, Raise
<1>3. QED
  BY <1>1, <1>2

LEMMA RuntimeShape ==
  ASSUME LoopShape, NEW r \in active,
         Deliver(r) \/ DeliverError(r) \/ CancelAttempt(r)
  PROVE  VarsShape' /\ [TaskNext]_taskVars
<1>1. r \in ActiveShape
  BY DEF LoopShape, VarsShape
<1>2. PICK result \in {"ok", "failed", "error", "cancelled"} :
        active' = (active \ {r}) \cup {[r EXCEPT !.result = result]}
  BY DEF Deliver, DeliverError, CancelAttempt
<1>3. active' \subseteq ActiveShape
  <2>1. [r EXCEPT !.result = result] \in ActiveShape
    BY <1>1, ResultShape
  <2>2. QED
    BY <1>2, <2>1 DEF LoopShape, VarsShape
<1>4. attempt' \in [AttemptIds -> {"unused", "pending", "completed", "cancelled"}]
  BY DEF Deliver, DeliverError, CancelAttempt, LoopShape, VarsShape
<1>5. QED
  BY <1>3, <1>4 DEF Deliver, DeliverError, CancelAttempt, LoopShape, VarsShape

LEMMA ShapeStep == LoopShape /\ [Next]_vars => LoopShape' /\ [TaskNext]_taskVars
<1> SUFFICES ASSUME LoopShape, [Next]_vars PROVE VarsShape' /\ [TaskNext]_taskVars
  BY TypeStep DEF LoopShape
<1>1. CASE HarvestRaises \/ Interrupted \/ Finish \/ Reraise
  BY <1>1 DEF HarvestRaises, Interrupted, Finish, Reraise, Raise, LoopShape, VarsShape
<1>2. ASSUME NEW a \in plan, BeginDispatch(a) PROVE VarsShape' /\ [TaskNext]_taskVars
  <2>1. a \in Tasks \X Targets
    BY DEF LoopShape, VarsShape
  <2>2. nextAttempt' \in [Tasks -> Nat \ {0}]
    <3>1. a[1] \in Tasks /\ nextAttempt \in [Tasks -> Nat \ {0}]
      BY <2>1 DEF LoopShape, VarsShape
    <3>2. nextAttempt' = [nextAttempt EXCEPT ![a[1]] = nextAttempt[a[1]] + 1]
      BY <1>2 DEF BeginDispatch
    <3>3. nextAttempt[a[1]] + 1 \in Nat \ {0}
      BY <3>1
    <3>4. QED
      BY <3>1, <3>2, <3>3
  <2>3. [TaskNext]_taskVars
    BY <1>2, <2>1 DEF BeginDispatch, TaskNext
  <2>4. QED
    BY <1>2, <2>1, <2>2, <2>3 DEF BeginDispatch, LoopShape, VarsShape
<1>3. CASE UNCHANGED vars
  BY <1>3 DEF vars, loopVars, LoopShape, VarsShape
<1>4. QED
  BY <1>1, <1>2, <1>3, CompletionShape, PlanShape, DispatchShape, AdvanceShape,
     RuntimeShape DEF Next, LoopStep, RuntimeStep

\* Whatever planner, runtime and caller do, the coordinator uses the task
\* manager as its specification says: every step of the loop is one legal call
\* of the manager or none.
THEOREM ImplementsTaskLifecycle == Spec => TaskSpec
<1>1. Init => TaskInit
  BY DEF Init
<1>2. QED
  BY InitShape, ShapeStep, <1>1, PTL DEF Spec, TaskSpec

\* Every state of the task manager that the event loop can produce satisfies
\* the safety invariant proved of the task manager alone.
THEOREM TaskManagerSafe == Spec => []SafetyInv
BY ImplementsTaskLifecycle, SafetyInvariant, PTL

LEMMA ShapeCorrect == Spec => []LoopShape
BY InitShape, ShapeStep, PTL DEF Spec

---------------------------------------------------------------------------
(* The invariant of the loop. *)

\* The tasks that wait for a dispatch.
Waiting == pendingRetries \cup {a[1] : a \in plan}

\* Attempt numbers: a task that has not run has the first one, a task that
\* waits has one left, and the number of an active attempt is the last given.
Numbered ==
  /\ \A t \in Tasks : nextAttempt[t] <= MaxAttempts + 1
  /\ \A t \in Tasks : state[t] \in {"BLOCKED", "READY"} => nextAttempt[t] = 1
  /\ \A t \in Waiting : nextAttempt[t] <= MaxAttempts
  /\ \A a \in current : nextAttempt[a[1]] > 1
  /\ \A r \in active : r.no >= 1 /\ nextAttempt[r.task] = r.no + 1

\* The runtime's view of the attempts and the loop's agree.
Booked ==
  /\ \A r, q \in active : r.task = q.task => r = q
  /\ \A r \in active : attempt[<<r.task, r.no>>] # "unused"
  /\ \A r \in active : r.result = "awaited" => attempt[<<r.task, r.no>>] = "pending"
  /\ \A r \in active : r.result \in {"ok", "failed", "cancelled"}
                       => attempt[<<r.task, r.no>>] # "pending"
  /\ \A b \in AttemptIds : attempt[b] = "pending" => \E r \in active : <<r.task, r.no>> = b
  /\ \A b \in AttemptIds : attempt[b] # "unused" => b[2] < nextAttempt[b[1]]
  /\ \A a \in current : attempt[<<a[1], nextAttempt[a[1]] - 1>>] = "unused"

\* A task that must not be repeated has not been executed while it waits.
OnceOnly ==
  /\ ContractSafeRetry
  /\ \A t \in Waiting \cup {a[1] : a \in current} :
       ~workflow.retryable[t] => \A i \in 1 .. MaxAttempts : attempt[<<t, i>>] = "unused"

\* The tasks the loop is responsible for, and the one it is dispatching.
Held == InFlight \cup pendingRetries \cup Planned
Dispatching == {a[1] : a \in current}

\* A held task is in one place, under FAIL_FAST there is only one, and while
\* the loop runs every running task is held.
Owned ==
  /\ \A t \in InFlight \cup pendingRetries \cup Dispatching : state[t] = "RUNNING"
  /\ \A t \in Planned : state[t] \in {"READY", "RUNNING"}
  /\ InFlight \cap pendingRetries = {}
  /\ (InFlight \cup pendingRetries) \cap Planned = {}
  /\ \A a, b \in plan \cup current : a[1] = b[1] => a = b
  /\ \A a \in current : current = {a} /\ a \notin plan
  /\ workflow.failFast => \A s, t \in Held : s = t
  /\ phase = "running" =>
       /\ {t \in Tasks : state[t] = "RUNNING"} \subseteq Held
       /\ \A r \in active : r.result # "cancelled"

LoopInv == Numbered /\ Booked /\ OnceOnly /\ Owned

\* A task never returns to the states before its first dispatch.
LEMMA EarlyStates ==
  ASSUME TaskTypeOK, [TaskNext]_taskVars, NEW t \in Tasks,
         state'[t] \in {"BLOCKED", "READY"}
  PROVE  state[t] \in {"BLOCKED", "READY"}
<1> USE DEF TaskTypeOK
<1>1. ASSUME NEW c \in Tasks, MarkRunning(c) PROVE state[t] \in {"BLOCKED", "READY"}
  BY <1>1 DEF MarkRunning
<1>2. ASSUME NEW c \in Tasks, NEW outs \in SUBSET Ports, CompleteOk(c, outs)
      PROVE  state[t] \in {"BLOCKED", "READY"}
  BY <1>2 DEF CompleteOk, Released
<1>3. ASSUME NEW c \in Tasks, NEW result \in FailureStates, CompleteFailed(c, result)
      PROVE  state[t] \in {"BLOCKED", "READY"}
  BY <1>3 DEF CompleteFailed, FailureStates
<1>4. ASSUME NEW c \in Tasks, CompleteAgain(c) PROVE state[t] \in {"BLOCKED", "READY"}
  BY <1>4 DEF CompleteAgain, taskVars
<1>5. QED
  BY <1>1, <1>2, <1>3, <1>4 DEF TaskNext, taskVars

LEMMA WaitingTasks == LoopShape => Waiting \subseteq Tasks
BY DEF LoopShape, VarsShape, Waiting

\* What an accepted dispatch adds to the active attempts.
NewAttempt(a, finish) ==
  [task |-> a[1], no |-> nextAttempt[a[1]] - 1, node |-> a[2], finish |-> finish,
   result |-> "awaited"]

LEMMA AcceptedAttempt ==
  ASSUME NEW a, DispatchAccepted(a)
  PROVE  \E finish \in (IF VirtualTime THEN now ELSE 0) .. MaxTime :
           active' = active \cup {NewAttempt(a, finish)}
BY DEF DispatchAccepted, NewAttempt

LEMMA NumberedKept ==
  ASSUME LoopShape, Numbered, [TaskNext]_taskVars, UNCHANGED nextAttempt,
         \A t \in Waiting' : t \in Tasks /\ nextAttempt[t] <= MaxAttempts,
         \A a \in current' : nextAttempt[a[1]] > 1,
         \A r \in active' : r.no >= 1 /\ nextAttempt[r.task] = r.no + 1
  PROVE  Numbered'
<1>1. \A t \in Tasks : state'[t] \in {"BLOCKED", "READY"} => nextAttempt[t] = 1
  BY EarlyStates DEF LoopShape, Numbered
<1>2. QED
  BY <1>1 DEF Numbered

LEMMA NumberedStep ==
  ASSUME LoopShape, Numbered, OneOwner, [Next]_vars
  PROVE  Numbered'
<1> USE DEF Waiting
<1>0. [TaskNext]_taskVars
  BY ShapeStep
<1>a. \A t \in Waiting : t \in Tasks /\ nextAttempt[t] <= MaxAttempts
  BY WaitingTasks DEF Numbered
<1>b. \A a \in current : nextAttempt[a[1]] > 1
  BY DEF Numbered
<1>c. \A r \in active : r.no >= 1 /\ nextAttempt[r.task] = r.no + 1
  BY DEF Numbered
<1>1. ASSUME NEW r \in active,
             ProcessSuccess(r) \/ ProcessBadOutputs(r) \/ ProcessFailure(r)
      PROVE  Numbered'
  <2>1. r.task \in Tasks /\ r.no \in Nat
    BY DEF LoopShape, VarsShape, ActiveShape
  <2>2. pendingRetries' \subseteq pendingRetries \cup {r.task}
    BY <1>1 DEF ProcessSuccess, ProcessBadOutputs, ProcessFailure
  <2>3. r.task \in pendingRetries' => r.task \in pendingRetries \/ r.no < MaxAttempts
    BY <1>1 DEF ProcessSuccess, ProcessBadOutputs, ProcessFailure, MayRetry
  <2>4. UNCHANGED <<nextAttempt, plan, current>> /\ active' \subseteq active
    BY <1>1 DEF ProcessSuccess, ProcessBadOutputs, ProcessFailure
  <2>5. nextAttempt[r.task] = r.no + 1
    BY DEF Numbered
  <2>6. r.no < MaxAttempts => nextAttempt[r.task] <= MaxAttempts
    BY <2>1, <2>5, CoordinatorAssumption DEF CoordinatorAssumption
  <2>7. \A t \in Waiting' : t \in Tasks /\ nextAttempt[t] <= MaxAttempts
    BY <1>a, <2>1, <2>2, <2>3, <2>4, <2>6
  <2>8. QED
    BY <1>0, <1>b, <1>c, <2>4, <2>7, NumberedKept
<1>2. ASSUME PlanRetry \/ PlanArrived \/ PlanRaises PROVE Numbered'
  <2>1. UNCHANGED <<nextAttempt, current, active>>
    BY <1>2 DEF PlanRetry, PlanArrived, PlanRaises
  <2>2. CASE PlanRetry
    <3>1. Min(pendingRetries) \in pendingRetries
      BY <2>2, MinOfSet, CoordinatorAssumption
         DEF PlanRetry, RetryDue, LoopShape, VarsShape, CoordinatorAssumption
    <3>2. Waiting' \subseteq Waiting
      BY <2>2, <3>1 DEF PlanRetry
    <3>3. \A t \in Waiting' : t \in Tasks /\ nextAttempt[t] <= MaxAttempts
      BY <3>2, WaitingTasks DEF Numbered
    <3>4. QED
      BY <1>0, <2>1, <3>3, NumberedKept DEF Numbered
  <2>3. CASE PlanArrived
    <3>1. \A a \in plan' : a[1] \in Arrived
      BY <2>3 DEF PlanArrived, Commitments
    <3>2. \A t \in Arrived : t \in Tasks /\ nextAttempt[t] <= MaxAttempts
      BY CoordinatorAssumption DEF Arrived, Ready, Numbered, CoordinatorAssumption
    <3>3. Waiting' \subseteq Waiting \cup Arrived
      BY <2>3, <3>1 DEF PlanArrived
    <3>4. \A t \in Waiting' : t \in Tasks /\ nextAttempt[t] <= MaxAttempts
      BY <3>2, <3>3, WaitingTasks DEF Numbered
    <3>5. QED
      BY <1>0, <2>1, <3>4, NumberedKept DEF Numbered
  <2>4. CASE PlanRaises
    <3>1. Waiting' \subseteq Waiting
      BY <2>4 DEF PlanRaises
    <3>2. QED
      BY <1>0, <1>a, <1>b, <1>c, <2>1, <3>1, NumberedKept
  <2>5. QED
    BY <1>2, <2>2, <2>3, <2>4
<1>3. ASSUME NEW a \in plan, BeginDispatch(a) PROVE Numbered'
  <2>1. /\ phase = "running" /\ current = {} /\ a[1] \in Tasks
        /\ plan' = plan \ {a} /\ current' = {a}
        /\ nextAttempt' = [nextAttempt EXCEPT ![a[1]] = @ + 1]
        /\ UNCHANGED <<pendingRetries, active>>
    BY <1>3 DEF BeginDispatch, LoopShape, VarsShape
  <2>2. nextAttempt[a[1]] \in Nat \ {0} /\ nextAttempt[a[1]] <= MaxAttempts
    BY <2>1 DEF Numbered, LoopShape, VarsShape
  <2>3. nextAttempt'[a[1]] = nextAttempt[a[1]] + 1
    BY <2>1 DEF LoopShape, VarsShape
  <2>4. \A t \in Tasks \ {a[1]} : nextAttempt'[t] = nextAttempt[t]
    BY <2>1 DEF LoopShape, VarsShape
  <2>5. a[1] \notin Waiting' /\ \A r \in active : r.task # a[1]
    BY <2>1 DEF OneOwner, Planned, InFlight
  <2>6. state'[a[1]] \notin {"BLOCKED", "READY"}
    <3>1. state[a[1]] \in {"READY", "RUNNING"}
      BY <2>1 DEF OneOwner, Planned
    <3>2. QED
      BY <1>3, <2>1, <3>1 DEF BeginDispatch, MarkRunning, taskVars, LoopShape, TaskTypeOK
  <2>7. \A t \in Tasks : nextAttempt'[t] <= MaxAttempts + 1
    BY <2>2, <2>3, <2>4, CoordinatorAssumption DEF Numbered, CoordinatorAssumption
  <2>8. \A t \in Tasks : state'[t] \in {"BLOCKED", "READY"} => nextAttempt'[t] = 1
    BY <1>0, <2>4, <2>6, EarlyStates DEF LoopShape, Numbered
  <2>9. \A t \in Waiting' : nextAttempt'[t] <= MaxAttempts
    <3>1. Waiting' \subseteq Waiting
      BY <2>1
    <3>2. \A t \in Waiting' : t \in Tasks /\ t # a[1] /\ nextAttempt[t] <= MaxAttempts
      BY <1>a, <2>5, <3>1
    <3>3. QED
      BY <2>4, <3>2
  <2>10. \A b \in current' : nextAttempt'[b[1]] > 1
    BY <2>1, <2>2, <2>3
  <2>11. \A r \in active' : r.no >= 1 /\ nextAttempt'[r.task] = r.no + 1
    BY <2>1, <2>4, <2>5 DEF Numbered, LoopShape, VarsShape, ActiveShape
  <2>12. QED
    BY <2>7, <2>8, <2>9, <2>10, <2>11 DEF Numbered
<1>4. ASSUME NEW a \in current,
             \/ DropAssignment(a) \/ DispatchAccepted(a)
             \/ DispatchRejected(a) \/ DispatchRaises(a)
      PROVE  Numbered'
  <2>1. a[1] \in Tasks /\ nextAttempt[a[1]] \in Nat /\ nextAttempt[a[1]] > 1
    BY DEF LoopShape, VarsShape, Numbered
  <2>2. UNCHANGED <<nextAttempt, plan>> /\ current' = {}
    BY <1>4 DEF DropAssignment, DispatchAccepted, DispatchRejected, DispatchRaises
  <2>3. /\ pendingRetries' \subseteq pendingRetries \cup {a[1]}
        /\ a[1] \in pendingRetries' =>
             a[1] \in pendingRetries \/ nextAttempt[a[1]] - 1 < MaxAttempts
    BY <1>4 DEF DropAssignment, DispatchAccepted, DispatchRejected, DispatchRaises, MayRetry
  <2>4. \A t \in Waiting' : t \in Tasks /\ nextAttempt[t] <= MaxAttempts
    <3>1. Waiting' \subseteq Waiting \cup {a[1]}
      BY <2>2, <2>3
    <3>2. a[1] \in Waiting' => a[1] \in Waiting \/ nextAttempt[a[1]] - 1 < MaxAttempts
      BY <2>2, <2>3
    <3>3. nextAttempt[a[1]] - 1 < MaxAttempts => nextAttempt[a[1]] <= MaxAttempts
      BY <2>1, CoordinatorAssumption DEF CoordinatorAssumption
    <3>4. QED
      BY <1>a, <2>1, <3>1, <3>2, <3>3
  <2>5. \A r \in active' :
          r \in active \/ (r.task = a[1] /\ r.no = nextAttempt[a[1]] - 1)
    <3>1. CASE DispatchAccepted(a)
      <4>1. PICK finish : active' = active \cup {NewAttempt(a, finish)}
        BY <3>1, AcceptedAttempt
      <4>2. QED
        BY <4>1 DEF NewAttempt
    <3>2. CASE DropAssignment(a) \/ DispatchRejected(a) \/ DispatchRaises(a)
      <4>1. UNCHANGED active
        BY <3>2 DEF DropAssignment, DispatchRejected, DispatchRaises
      <4>2. QED
        BY <4>1
    <3>3. QED
      BY <1>4, <3>1, <3>2
  <2>6. \A r \in active' : r.no >= 1 /\ nextAttempt[r.task] = r.no + 1
    BY <2>1, <2>5 DEF Numbered
  <2>7. QED
    BY <1>0, <2>2, <2>4, <2>6, NumberedKept
<1>5. ASSUME NEW r \in active, Deliver(r) \/ DeliverError(r) \/ CancelAttempt(r)
      PROVE  Numbered'
  <2>1. r \in ActiveShape
    BY DEF LoopShape, VarsShape
  <2>2. PICK result : active' = (active \ {r}) \cup {[r EXCEPT !.result = result]}
    BY <1>5 DEF Deliver, DeliverError, CancelAttempt
  <2>3. \A q \in active' : \E p \in active : q.task = p.task /\ q.no = p.no
    BY <2>1, <2>2 DEF ActiveShape
  <2>4. UNCHANGED <<nextAttempt, plan, current, pendingRetries>>
    BY <1>5 DEF Deliver, DeliverError, CancelAttempt
  <2>5. QED
    <3>1. \A q \in active' : q.no >= 1 /\ nextAttempt[q.task] = q.no + 1
      BY <1>c, <2>3
    <3>2. Waiting' = Waiting
      BY <2>4
    <3>3. QED
      BY <1>0, <1>a, <1>b, <2>4, <3>1, <3>2, NumberedKept
<1>6. CASE HarvestRaises \/ Interrupted \/ Finish \/ Reraise \/ Advance \/ UNCHANGED vars
  <2>1. UNCHANGED <<nextAttempt, plan, current, pendingRetries, active>>
    BY <1>6 DEF HarvestRaises, Interrupted, Finish, Reraise, Advance, vars, loopVars
  <2>2. QED
    <3>1. Waiting' = Waiting
      BY <2>1
    <3>2. QED
      BY <1>0, <1>a, <1>b, <1>c, <2>1, <3>1, NumberedKept
<1>7. QED
  BY <1>1, <1>2, <1>3, <1>4, <1>5, <1>6 DEF Next, LoopStep, RuntimeStep

\* The attempts of the active dispatches and of the current one have ids.
LEMMA Identified ==
  ASSUME LoopShape, Numbered
  PROVE  /\ \A r \in active : <<r.task, r.no>> \in AttemptIds
         /\ \A a \in current : <<a[1], nextAttempt[a[1]] - 1>> \in AttemptIds
<1>1. MaxAttempts \in Nat
  BY CoordinatorAssumption DEF CoordinatorAssumption
<1>2. ASSUME NEW r \in active PROVE <<r.task, r.no>> \in AttemptIds
  <2>1. r.task \in Tasks /\ r.no \in Nat
    BY DEF LoopShape, VarsShape, ActiveShape
  <2>2. r.no >= 1 /\ r.no + 1 <= MaxAttempts + 1
    BY <2>1 DEF Numbered
  <2>3. r.no \in 1 .. MaxAttempts
    BY <1>1, <2>1, <2>2
  <2>4. QED
    BY <2>1, <2>3 DEF AttemptIds
<1>3. ASSUME NEW a \in current PROVE <<a[1], nextAttempt[a[1]] - 1>> \in AttemptIds
  <2>1. a[1] \in Tasks /\ nextAttempt[a[1]] \in Nat
    BY DEF LoopShape, VarsShape
  <2>2. nextAttempt[a[1]] > 1 /\ nextAttempt[a[1]] <= MaxAttempts + 1
    BY <2>1 DEF Numbered
  <2>3. nextAttempt[a[1]] - 1 \in 1 .. MaxAttempts
    BY <1>1, <2>1, <2>2
  <2>4. QED
    BY <2>1, <2>3 DEF AttemptIds
<1>4. QED
  BY <1>2, <1>3

LEMMA BookedKept ==
  ASSUME Booked, UNCHANGED <<nextAttempt, attempt>>,
         active' \subseteq active, current' \subseteq current,
         \A r \in active \ active' : attempt[<<r.task, r.no>>] # "pending"
  PROVE  Booked'
BY DEF Booked

\* An answer or a withdrawal changes one attempt, and its record.
LEMMA BookedResult ==
  ASSUME LoopShape, Numbered, Booked, NEW r \in active,
         Deliver(r) \/ DeliverError(r) \/ CancelAttempt(r)
  PROVE  Booked'
<1> DEFINE id == <<r.task, r.no>>
<1>1. r \in ActiveShape /\ id \in AttemptIds
  BY Identified DEF LoopShape, VarsShape
<1>2. attempt \in [AttemptIds -> {"unused", "pending", "completed", "cancelled"}]
  BY DEF LoopShape, VarsShape
<1>3. UNCHANGED <<nextAttempt, current>>
  BY DEF Deliver, DeliverError, CancelAttempt
<1>4. PICK result \in {"ok", "failed", "error", "cancelled"},
           end \in {"pending", "completed", "cancelled"} :
        /\ active' = (active \ {r}) \cup {[r EXCEPT !.result = result]}
        /\ attempt' = [attempt EXCEPT ![id] = end]
        /\ result \in {"ok", "failed", "cancelled"} => end # "pending"
        /\ end = "pending" => attempt[id] = "pending"
  <2>1. CASE Deliver(r)
    BY <2>1 DEF Deliver
  <2>2. CASE DeliverError(r)
    BY <2>2 DEF DeliverError, Awaited, Booked
  <2>3. CASE CancelAttempt(r)
    <3>1. attempt[id] # "unused"
      BY DEF Booked
    <3>2. PICK end \in {"completed", "cancelled"} : attempt' = [attempt EXCEPT ![id] = end]
      BY <1>1, <1>2, <2>3, <3>1 DEF CancelAttempt
    <3>3. QED
      BY <2>3, <3>2 DEF CancelAttempt
  <2>4. QED
    BY <2>1, <2>2, <2>3
<1> DEFINE s == [r EXCEPT !.result = result]
<1>5. s.task = r.task /\ s.no = r.no /\ s.result = result
  BY <1>1 DEF ActiveShape
<1>6. attempt'[id] = end /\ \A b \in AttemptIds \ {id} : attempt'[b] = attempt[b]
  BY <1>1, <1>2, <1>4
<1>7. \A q \in active \ {r} : q.task # r.task
  BY DEF Booked
<1>8. active' = (active \ {r}) \cup {s}
  BY <1>4
<1> HIDE DEF s
<1>9. \A p, q \in active' : p.task = q.task => p = q
  BY <1>5, <1>7, <1>8 DEF Booked
<1>10. \A q \in active \ {r} : <<q.task, q.no>> \in AttemptIds \ {id}
  BY <1>7, Identified
<1>11. \A q \in active' :
         /\ attempt'[<<q.task, q.no>>] # "unused"
         /\ q.result = "awaited" => attempt'[<<q.task, q.no>>] = "pending"
         /\ q.result \in {"ok", "failed", "cancelled"} => attempt'[<<q.task, q.no>>] # "pending"
  <2>1. ASSUME NEW q \in active \ {r}
        PROVE  /\ attempt'[<<q.task, q.no>>] # "unused"
               /\ q.result = "awaited" => attempt'[<<q.task, q.no>>] = "pending"
               /\ q.result \in {"ok", "failed", "cancelled"}
                    => attempt'[<<q.task, q.no>>] # "pending"
    BY <1>6, <1>10 DEF Booked
  <2>2. attempt'[<<s.task, s.no>>] = end /\ s.result = result
    BY <1>5, <1>6
  <2>3. QED
    BY <1>4, <1>8, <2>1, <2>2
<1>12. \A b \in AttemptIds : attempt'[b] = "pending" => \E q \in active' : <<q.task, q.no>> = b
  <2> SUFFICES ASSUME NEW b \in AttemptIds, attempt'[b] = "pending"
               PROVE  \E q \in active' : <<q.task, q.no>> = b
    OBVIOUS
  <2>1. CASE b = id
    BY <1>5, <1>8, <2>1
  <2>2. CASE b # id
    <3>1. PICK q \in active : <<q.task, q.no>> = b
      BY <1>6, <2>2 DEF Booked
    <3>2. QED
      BY <1>8, <2>2, <3>1
  <2>3. QED
    BY <2>1, <2>2
<1>13. \A b \in AttemptIds : attempt'[b] # "unused" => b[2] < nextAttempt'[b[1]]
  BY <1>3, <1>6 DEF Booked
<1>14. \A a \in current' : attempt'[<<a[1], nextAttempt'[a[1]] - 1>>] = "unused"
  BY <1>3, <1>6, Identified DEF Booked
<1>15. QED
  BY <1>9, <1>11, <1>12, <1>13, <1>14 DEF Booked

LEMMA BookedBegin ==
  ASSUME LoopShape, Numbered, Booked, OneOwner, NEW a \in plan, BeginDispatch(a)
  PROVE  Booked'
<1>1. /\ phase = "running" /\ current = {} /\ current' = {a} /\ a[1] \in Tasks
      /\ nextAttempt' = [nextAttempt EXCEPT ![a[1]] = @ + 1]
      /\ UNCHANGED <<active, attempt>>
  BY DEF BeginDispatch, LoopShape, VarsShape
<1>2. nextAttempt[a[1]] \in Nat \ {0} /\ nextAttempt[a[1]] <= MaxAttempts
  BY <1>1 DEF Numbered, Waiting, LoopShape, VarsShape
<1>3. <<a[1], nextAttempt[a[1]]>> \in AttemptIds
  BY <1>1, <1>2, CoordinatorAssumption DEF AttemptIds, CoordinatorAssumption
<1>4. attempt[<<a[1], nextAttempt[a[1]]>>] = "unused"
  BY <1>2, <1>3 DEF Booked
<1>5. /\ nextAttempt'[a[1]] = nextAttempt[a[1]] + 1
      /\ nextAttempt'[a[1]] - 1 = nextAttempt[a[1]]
      /\ \A t \in Tasks \ {a[1]} : nextAttempt'[t] = nextAttempt[t]
  <2>1. nextAttempt \in [Tasks -> Nat \ {0}]
    BY DEF LoopShape, VarsShape
  <2>2. nextAttempt'[a[1]] = nextAttempt[a[1]] + 1
    BY <1>1, <2>1
  <2>3. QED
    BY <1>1, <1>2, <2>1, <2>2
<1>6. ASSUME NEW b \in AttemptIds, attempt[b] # "unused" PROVE b[2] < nextAttempt'[b[1]]
  <2>1. b[1] \in Tasks /\ b[2] \in Nat /\ nextAttempt[b[1]] \in Nat
    <3>1. b[1] \in Tasks /\ b[2] \in 1 .. MaxAttempts
      BY DEF AttemptIds
    <3>2. b[2] \in Nat
      BY <3>1, CoordinatorAssumption DEF CoordinatorAssumption
    <3>3. nextAttempt[b[1]] \in Nat
      BY <3>1 DEF LoopShape, VarsShape
    <3>4. QED
      BY <3>1, <3>2, <3>3
  <2>2. b[2] < nextAttempt[b[1]]
    BY <1>6 DEF Booked
  <2>3. nextAttempt[b[1]] <= nextAttempt'[b[1]] /\ nextAttempt'[b[1]] \in Nat
    BY <1>5, <2>1
  <2>4. QED
    BY <2>1, <2>2, <2>3
<1>7. \A b \in current' : attempt'[<<b[1], nextAttempt'[b[1]] - 1>>] = "unused"
  BY <1>1, <1>4, <1>5
<1>8. QED
  BY <1>1, <1>6, <1>7 DEF Booked

LEMMA BookedDispatch ==
  ASSUME LoopShape, Numbered, Booked, OneOwner, NEW a \in current,
         DispatchAccepted(a) \/ DispatchRaises(a)
  PROVE  Booked'
<1> DEFINE id == <<a[1], nextAttempt[a[1]] - 1>>
<1>1. /\ phase = "running" /\ current' = {} /\ a[1] \in Tasks
      /\ UNCHANGED nextAttempt
  BY DEF DispatchAccepted, DispatchRaises, LoopShape, VarsShape
<1>2. id \in AttemptIds
  BY Identified
<1>3. attempt \in [AttemptIds -> {"unused", "pending", "completed", "cancelled"}]
  BY DEF LoopShape, VarsShape
<1>4. \A r \in active : r.task # a[1] /\ <<r.task, r.no>> \in AttemptIds \ {id}
  <2>1. ASSUME NEW r \in active PROVE r.task # a[1]
    BY <1>1 DEF OneOwner, InFlight, Planned
  <2>2. QED
    BY <2>1, Identified
<1>5. id[2] < nextAttempt[id[1]]
  <2>1. nextAttempt[a[1]] \in Nat
    BY <1>1 DEF LoopShape, VarsShape
  <2>2. QED
    BY <2>1
<1>6. CASE DispatchAccepted(a)
  <2>1. attempt' = [attempt EXCEPT ![id] = "pending"]
    BY <1>6 DEF DispatchAccepted
  <2>2. attempt'[id] = "pending" /\ \A b \in AttemptIds \ {id} : attempt'[b] = attempt[b]
    BY <1>2, <1>3, <2>1
  <2>3. PICK finish : active' = active \cup {NewAttempt(a, finish)}
    BY <1>6, AcceptedAttempt
  <2> DEFINE s == NewAttempt(a, finish)
  <2>4. /\ s.task = a[1] /\ <<s.task, s.no>> = id /\ s.result = "awaited"
        /\ active' = active \cup {s}
    BY <2>3 DEF NewAttempt
  <2> HIDE DEF s
  <2>5. \A r, q \in active' : r.task = q.task => r = q
    BY <1>4, <2>4 DEF Booked
  <2>6. \A r \in active' :
          /\ attempt'[<<r.task, r.no>>] # "unused"
          /\ r.result = "awaited" => attempt'[<<r.task, r.no>>] = "pending"
          /\ r.result \in {"ok", "failed", "cancelled"}
               => attempt'[<<r.task, r.no>>] # "pending"
    <3>1. \A r \in active : attempt'[<<r.task, r.no>>] = attempt[<<r.task, r.no>>]
      BY <1>4, <2>2
    <3>2. \A r \in active :
            /\ attempt'[<<r.task, r.no>>] # "unused"
            /\ r.result = "awaited" => attempt'[<<r.task, r.no>>] = "pending"
            /\ r.result \in {"ok", "failed", "cancelled"}
                 => attempt'[<<r.task, r.no>>] # "pending"
      BY <3>1, Zenon DEF Booked
    <3>3. QED
      BY <2>2, <2>4, <3>2
  <2>7. \A b \in AttemptIds : attempt'[b] = "pending" => \E r \in active' : <<r.task, r.no>> = b
    BY <2>2, <2>4 DEF Booked
  <2>8. \A b \in AttemptIds : attempt'[b] # "unused" => b[2] < nextAttempt'[b[1]]
    BY <1>1, <1>5, <2>2 DEF Booked
  <2>9. QED
    BY <1>1, <2>5, <2>6, <2>7, <2>8 DEF Booked
<1>7. CASE DispatchRaises(a)
  <2>1. UNCHANGED active
    BY <1>7 DEF DispatchRaises
  <2>2. PICK end \in {"unused", "cancelled"} : attempt' = [attempt EXCEPT ![id] = end]
    BY <1>7 DEF DispatchRaises
  <2>3. attempt'[id] = end /\ \A b \in AttemptIds \ {id} : attempt'[b] = attempt[b]
    BY <1>2, <1>3, <2>2
  <2>4. \A r \in active :
          /\ attempt'[<<r.task, r.no>>] # "unused"
          /\ r.result = "awaited" => attempt'[<<r.task, r.no>>] = "pending"
          /\ r.result \in {"ok", "failed", "cancelled"}
               => attempt'[<<r.task, r.no>>] # "pending"
    <3>1. \A r \in active : attempt'[<<r.task, r.no>>] = attempt[<<r.task, r.no>>]
      BY <1>4, <2>3
    <3>2. QED
      BY <3>1, Zenon DEF Booked
  <2>5. \A b \in AttemptIds : attempt'[b] = "pending" => \E r \in active : <<r.task, r.no>> = b
    BY <2>3 DEF Booked
  <2>6. \A b \in AttemptIds : attempt'[b] # "unused" => b[2] < nextAttempt'[b[1]]
    BY <1>1, <1>5, <2>3 DEF Booked
  <2>7. \A r, q \in active : r.task = q.task => r = q
    BY DEF Booked
  <2>8. QED
    BY <1>1, <2>1, <2>4, <2>5, <2>6, <2>7 DEF Booked
<1>8. QED
  BY <1>6, <1>7

LEMMA BookedStep ==
  ASSUME LoopShape, Numbered, Booked, OneOwner, [Next]_vars
  PROVE  Booked'
<1>1. ASSUME NEW r \in active,
             ProcessSuccess(r) \/ ProcessBadOutputs(r) \/ ProcessFailure(r)
      PROVE  Booked'
  <2>1. /\ r.result \in {"ok", "failed"}
        /\ active' = active \ {r}
        /\ UNCHANGED <<nextAttempt, attempt, current>>
    BY <1>1 DEF ProcessSuccess, ProcessBadOutputs, ProcessFailure
  <2>2. \A q \in active \ active' : attempt[<<q.task, q.no>>] # "pending"
    BY <2>1 DEF Booked
  <2>3. QED
    BY <2>1, <2>2, BookedKept
<1>2. CASE HarvestRaises \/ Interrupted \/ Finish \/ Reraise \/ Advance
             \/ PlanRetry \/ PlanArrived \/ PlanRaises \/ UNCHANGED vars
  <2>1. UNCHANGED <<nextAttempt, attempt, current, active>>
    BY <1>2 DEF HarvestRaises, Interrupted, Finish, Reraise, Advance, PlanRetry,
                PlanArrived, PlanRaises, vars, loopVars
  <2>2. QED
    BY <2>1, BookedKept
<1>3. ASSUME NEW a \in current, DropAssignment(a) \/ DispatchRejected(a) PROVE Booked'
  <2>1. UNCHANGED <<nextAttempt, attempt, active>> /\ current' = {}
    BY <1>3 DEF DropAssignment, DispatchRejected
  <2>2. QED
    BY <2>1, BookedKept
<1>4. QED
  BY <1>1, <1>2, <1>3, BookedResult, BookedBegin, BookedDispatch
     DEF Next, LoopStep, RuntimeStep

---------------------------------------------------------------------------
(* Ownership of the running tasks. *)

\* What reporting a result does to the other tasks: a running or ready one is
\* touched by a failure under FAIL_FAST only.
LEMMA SettleEffect ==
  ASSUME LoopShape, SafetyInv,
         NEW t \in Tasks, NEW result \in FailureStates \cup {"SUCCEEDED"},
         NEW time \in Times, Settle(t, result, time), state[t] = "RUNNING"
  PROVE  /\ UNCHANGED <<phase, failure, workflow>>
         /\ state'[t] = result
         /\ completionTime' = [completionTime EXCEPT ![t] = time]
         /\ \A s \in Tasks \ {t} :
              /\ state'[s] = "RUNNING" => state[s] = "RUNNING"
              /\ state[s] \in TERMINAL_STATES => state'[s] = state[s]
              /\ state[s] \in {"READY", "RUNNING"} =>
                   state'[s] = state[s] \/ (workflow.failFast /\ result # "SUCCEEDED")
              /\ state'[s] \in FailureStates \cup {"SUCCEEDED"} => state[s] = state'[s]
<1> USE DEF TERMINAL_STATES, FailureStates
<1>0. state \in [Tasks -> TaskState]
  BY DEF LoopShape, TaskTypeOK
<1>1. CASE result = "SUCCEEDED"
  <2>1. PICK outs \in SUBSET Ports : CompleteOk(t, outs)
    BY <1>1 DEF Settle
  <2>2. QED
    BY <1>0, <1>1, <2>1 DEF CompleteOk, Released, Settle, Continue
<1>2. CASE result # "SUCCEEDED"
  <2>1. CompleteFailed(t, result)
    BY <1>2 DEF Settle
  <2>2. \A s \in Descendants(t) : state[s] \in {"BLOCKED", "SKIPPED"}
    BY DescendantsWait DEF SafetyInv
  <2>3. QED
    BY <1>0, <1>2, <2>1, <2>2 DEF CompleteFailed, SkippedBy, Settle, Continue
<1>3. QED
  BY <1>1, <1>2

LEMMA HeldTasks == LoopShape => Held \subseteq Tasks
<1> SUFFICES ASSUME VarsShape PROVE Held \subseteq Tasks
  BY DEF LoopShape
<1>1. InFlight \subseteq Tasks
  BY DEF VarsShape, ActiveShape, InFlight
<1>2. pendingRetries \subseteq Tasks
  BY DEF VarsShape
<1>3. Planned \subseteq Tasks
  BY DEF VarsShape, Planned
<1>4. QED
  BY <1>1, <1>2, <1>3 DEF Held

LEMMA OwnedOneOwner == Booked /\ Owned => OneOwner
BY DEF Booked, Owned, OneOwner, Held, Dispatching

LEMMA OwnedSerial == LoopShape /\ SafetyInv /\ Booked /\ Owned => SerialFailFast
<1> SUFFICES ASSUME LoopShape, SafetyInv, Booked, Owned, workflow.failFast
             PROVE  /\ \A r, q \in active : r = q
                    /\ active # {} => plan \cup current = {}
                    /\ (\E t \in Tasks : Failed(t)) =>
                         active = {} /\ plan \cup current = {} /\ pendingRetries = {}
  BY DEF SerialFailFast
<1>1. \A s, t \in Held : s = t
  BY DEF Owned
<1>2. \A r \in active : r.task \in Held /\ r.task \in InFlight
  BY DEF Held, InFlight
<1>3. \A a \in plan \cup current : a[1] \in Held /\ a[1] \in Planned
  BY DEF Held, Planned
<1>4. \A r, q \in active : r = q
  BY <1>1, <1>2 DEF Booked
<1>5. active # {} => plan \cup current = {}
  BY <1>1, <1>2, <1>3 DEF Owned
<1>6. ASSUME \E t \in Tasks : Failed(t) PROVE Held = {}
  <2>1. Unresolved = {}
    BY <1>6 DEF SafetyInv, FailureContained
  <2>2. \A t \in Held : state[t] \in {"READY", "RUNNING"}
    BY DEF Owned, Held
  <2>3. QED
    BY <2>1, <2>2, HeldTasks DEF Unresolved, TERMINAL_STATES, FailureStates
<1>7. (\E t \in Tasks : Failed(t)) =>
        active = {} /\ plan \cup current = {} /\ pendingRetries = {}
  BY <1>2, <1>3, <1>6 DEF Held
<1>8. QED
  BY <1>4, <1>5, <1>7

\* A step that moves held tasks from place to place, or drops them.
LEMMA OwnedMove ==
  ASSUME Owned, UNCHANGED <<workflow, state>>, Held' \subseteq Held,
         \A t \in (InFlight \cup pendingRetries \cup Dispatching)' : state[t] = "RUNNING",
         (InFlight \cap pendingRetries)' = {},
         ((InFlight \cup pendingRetries) \cap Planned)' = {},
         \A a, b \in plan' \cup current' : a[1] = b[1] => a = b,
         \A a \in current' : current' = {a} /\ a \notin plan',
         phase' = "running" =>
           /\ phase = "running"
           /\ Held \subseteq Held'
           /\ \A r \in active' : r.result # "cancelled"
  PROVE  Owned'
<1>1. \A t \in Planned' : state[t] \in {"READY", "RUNNING"}
  <2>1. \A t \in Held : state[t] \in {"READY", "RUNNING"}
    BY DEF Owned, Held
  <2>2. Planned' \subseteq Held
    BY DEF Held
  <2>3. QED
    BY <2>1, <2>2
<1>2. workflow'.failFast => \A s, t \in Held' : s = t
  BY DEF Owned
<1>3. phase' = "running" => {t \in Tasks : state'[t] = "RUNNING"} \subseteq Held'
  BY DEF Owned
<1>4. QED
  BY <1>1, <1>2, <1>3 DEF Owned

\* Reporting the result of a task in flight or being dispatched.
LEMMA OwnedSettle ==
  ASSUME LoopShape, SafetyInv, Owned, phase = "running",
         NEW t \in InFlight \cup Dispatching,
         NEW result \in FailureStates \cup {"SUCCEEDED"},
         NEW time \in Times, Settle(t, result, time),
         active' \subseteq active, current' \subseteq current,
         UNCHANGED <<plan, pendingRetries>>,
         Held' = Held \ {t}
  PROVE  Owned'
<1>1. t \in Tasks /\ t \in Held /\ state[t] = "RUNNING"
  BY HeldTasks DEF Owned, Held, Dispatching, Planned
<1>2. /\ UNCHANGED <<phase, workflow>> /\ state'[t] = result
      /\ \A s \in Tasks \ {t} :
           /\ state'[s] = "RUNNING" => state[s] = "RUNNING"
           /\ state[s] \in {"READY", "RUNNING"} =>
                state'[s] = state[s] \/ (workflow.failFast /\ result # "SUCCEEDED")
  BY <1>1, SettleEffect
<1>3. \A s \in Held' : s \in Tasks \ {t} /\ state'[s] = state[s]
  <2> SUFFICES ASSUME NEW s \in Held' PROVE s \in Tasks \ {t} /\ state'[s] = state[s]
    OBVIOUS
  <2>1. s \in Held /\ s # t /\ s \in Tasks
    BY HeldTasks
  <2>2. ~workflow.failFast
    BY <1>1, <2>1 DEF Owned
  <2>3. state[s] \in {"READY", "RUNNING"}
    BY <2>1 DEF Owned, Held
  <2>4. QED
    BY <1>2, <2>1, <2>2, <2>3
<1>4. InFlight' \subseteq InFlight /\ Dispatching' \subseteq Dispatching /\ Planned' \subseteq Planned
  BY DEF InFlight, Dispatching, Planned
<1>5. \A s \in (InFlight \cup pendingRetries \cup Dispatching)' : state'[s] = "RUNNING"
  <2>1. (InFlight \cup pendingRetries \cup Dispatching)' \subseteq Held'
    BY DEF Held, Dispatching, Planned
  <2>2. QED
    BY <1>3, <1>4, <2>1 DEF Owned
<1>6. \A s \in Planned' : state'[s] \in {"READY", "RUNNING"}
  <2>1. Planned' \subseteq Held'
    BY DEF Held
  <2>2. QED
    BY <1>3, <1>4, <2>1 DEF Owned
<1>7. workflow'.failFast => \A s, q \in Held' : s = q
  BY <1>2 DEF Owned
<1>8. {s \in Tasks : state'[s] = "RUNNING"} \subseteq Held'
  <2>1. result # "RUNNING"
    BY DEF FailureStates
  <2>2. QED
    BY <1>2, <2>1 DEF Owned
<1>9. \A r \in active' : r.result # "cancelled"
  BY DEF Owned
<1>10. QED
  BY <1>4, <1>5, <1>6, <1>7, <1>8, <1>9 DEF Owned

LEMMA OwnedCompletion ==
  ASSUME LoopShape, SafetyInv, Booked, Owned, NEW r \in active,
         ProcessSuccess(r) \/ ProcessBadOutputs(r) \/ ProcessFailure(r)
  PROVE  Owned'
<1>1. /\ phase = "running" /\ plan = {} /\ current = {}
      /\ active' = active \ {r} /\ UNCHANGED <<plan, current>>
  BY DEF ProcessSuccess, ProcessBadOutputs, ProcessFailure, AtLoop
<1>2. r.task \in Tasks /\ r.finish \in Times /\ r.task \in InFlight
  BY DEF LoopShape, VarsShape, ActiveShape, InFlight
<1>3. InFlight' = InFlight \ {r.task}
  BY <1>1 DEF InFlight, Booked
<1>4. Planned = {} /\ Planned' = {} /\ Dispatching' = {}
  BY <1>1 DEF Planned, Dispatching
<1>5. r.task \notin pendingRetries
  BY <1>2 DEF Owned
<1>6. ASSUME UNCHANGED pendingRetries,
             NEW result \in FailureStates \cup {"SUCCEEDED"}, Settle(r.task, result, r.finish)
      PROVE  Owned'
  <2>1. Held' = Held \ {r.task}
    BY <1>3, <1>4, <1>5, <1>6 DEF Held
  <2>2. QED
    BY <1>1, <1>2, <1>6, <2>1, OwnedSettle
<1>7. CASE ProcessSuccess(r)
  BY <1>6, <1>7 DEF ProcessSuccess
<1>8. CASE ProcessBadOutputs(r)
  <2>1. UNCHANGED <<workflow, state, pendingRetries>> /\ phase' = "cancelling"
    BY <1>8 DEF ProcessBadOutputs, Raise, taskVars
  <2>2. Held' \subseteq Held
    BY <1>3, <1>4, <2>1 DEF Held
  <2>3. \A t \in (InFlight \cup pendingRetries \cup Dispatching)' : state[t] = "RUNNING"
    BY <1>3, <1>4, <2>1 DEF Owned
  <2>4. (InFlight \cap pendingRetries)' = {}
    BY <1>3, <2>1 DEF Owned
  <2>5. ((InFlight \cup pendingRetries) \cap Planned)' = {}
    BY <1>4
  <2>6. QED
    BY <1>1, <2>1, <2>2, <2>3, <2>4, <2>5, OwnedMove
<1>9. CASE ProcessFailure(r) /\ MayRetry(r.task, r.no, FALSE)
  <2>1. /\ UNCHANGED <<workflow, state, phase>>
        /\ pendingRetries' = pendingRetries \cup {r.task}
    BY <1>9 DEF ProcessFailure, Continue, taskVars
  <2>2. Held' = Held
    BY <1>2, <1>3, <1>4, <2>1 DEF Held
  <2>3. \A t \in (InFlight \cup pendingRetries \cup Dispatching)' : state[t] = "RUNNING"
    BY <1>2, <1>3, <1>4, <2>1 DEF Owned
  <2>4. (InFlight \cap pendingRetries)' = {}
    BY <1>3, <2>1 DEF Owned
  <2>5. ((InFlight \cup pendingRetries) \cap Planned)' = {}
    BY <1>4
  <2>6. \A q \in active' : q.result # "cancelled"
    BY <1>1 DEF Owned
  <2>7. QED
    BY <1>1, <2>1, <2>2, <2>3, <2>4, <2>5, <2>6, OwnedMove
<1>10. CASE ProcessFailure(r) /\ ~MayRetry(r.task, r.no, FALSE)
  <2>1. PICK result \in FailureStates : Settle(r.task, result, r.finish)
    BY <1>10 DEF ProcessFailure, FailureStates
  <2>2. UNCHANGED pendingRetries
    BY <1>10 DEF ProcessFailure
  <2>3. QED
    BY <1>6, <2>1, <2>2
<1>11. QED
  BY <1>7, <1>8, <1>9, <1>10

LEMMA OwnedPlanning ==
  ASSUME LoopShape, SafetyInv, Booked, Owned, PlanRetry \/ PlanArrived \/ PlanRaises
  PROVE  Owned'
<1>1. /\ phase = "running" /\ plan = {} /\ current = {} /\ Unresolved # {}
      /\ UNCHANGED <<workflow, state, active, current>>
  BY DEF PlanRetry, PlanArrived, PlanRaises, RetryDue, PlanDue, AtLoop, taskVars
<1>2. Planned = {} /\ Dispatching' = {} /\ InFlight' = InFlight
  BY <1>1 DEF Planned, Dispatching, InFlight
<1>3. CASE PlanRetry
  <2> DEFINE t == Min(pendingRetries)
  <2>1. t \in pendingRetries
    BY <1>3, MinOfSet, CoordinatorAssumption
       DEF PlanRetry, RetryDue, LoopShape, VarsShape, CoordinatorAssumption
  <2>2. PICK target \in Targets : plan' = {<<t, target>>}
    BY <1>3 DEF PlanRetry
  <2>3. pendingRetries' = pendingRetries \ {t} /\ UNCHANGED phase
    BY <1>3 DEF PlanRetry
  <2>4. Planned' = {t}
    BY <1>1, <2>2 DEF Planned
  <2> HIDE DEF t
  <2>5. Held' = Held
    BY <1>2, <2>1, <2>3, <2>4 DEF Held
  <2>6. \A s \in (InFlight \cup pendingRetries \cup Dispatching)' : state[s] = "RUNNING"
    BY <1>2, <2>3 DEF Owned
  <2>7. ((InFlight \cup pendingRetries) \cap Planned)' = {} /\ (InFlight \cap pendingRetries)' = {}
    BY <1>2, <2>1, <2>3, <2>4 DEF Owned
  <2>8. \A a, b \in plan' \cup current' : a[1] = b[1] => a = b
    BY <1>1, <2>2
  <2>9. \A r \in active' : r.result # "cancelled"
    BY <1>1 DEF Owned
  <2>10. QED
    BY <1>1, <2>3, <2>5, <2>6, <2>7, <2>8, <2>9, OwnedMove
<1>4. CASE PlanArrived
  <2>1. UNCHANGED <<phase, pendingRetries>> /\ pendingRetries = {} /\ (workflow.failFast => active = {})
    BY <1>4 DEF PlanArrived, PlanDue, FailFastWaiting
  <2>2. PICK target \in [Arrived -> Targets] :
          plan' \in Commitments({<<t, target[t]>> : t \in Arrived})
    BY <1>4 DEF PlanArrived
  <2>3. \A a \in plan' : a[1] \in Arrived /\ a = <<a[1], target[a[1]]>>
    BY <2>2 DEF Commitments
  <2>4. Planned' \subseteq Arrived
    BY <1>1, <2>3 DEF Planned
  <2>5. \A t \in Planned' : state'[t] = "READY"
    BY <1>1, <2>4 DEF Arrived, Ready
  <2>6. workflow.failFast => \A s, t \in Planned' : s = t
    BY <1>1, <2>2 DEF Commitments, Planned
  <2>7. \A t \in (InFlight \cup pendingRetries \cup Dispatching)' : state'[t] = "RUNNING"
    BY <1>1, <1>2, <2>1 DEF Owned
  <2>8. ((InFlight \cup pendingRetries) \cap Planned)' = {}
    BY <2>5, <2>7
  <2>9. workflow.failFast => InFlight = {}
    BY <2>1 DEF InFlight
  <2>10. Held \subseteq Held' /\ Held' = InFlight \cup Planned'
    BY <1>2, <2>1 DEF Held
  <2>11. workflow'.failFast => \A s, t \in Held' : s = t
    BY <1>1, <2>6, <2>9, <2>10
  <2>12. \A a, b \in plan' \cup current' : a[1] = b[1] => a = b
    BY <1>1, <2>3
  <2>13. {t \in Tasks : state'[t] = "RUNNING"} \subseteq Held'
    BY <1>1, <2>10 DEF Owned
  <2>14. QED
    BY <1>1, <1>2, <2>1, <2>5, <2>7, <2>8, <2>11, <2>12, <2>13 DEF Owned
<1>5. CASE PlanRaises
  <2>1. /\ UNCHANGED plan /\ phase' = "cancelling"
        /\ pendingRetries' \subseteq pendingRetries
    BY <1>5 DEF PlanRaises, Raise
  <2>2. Planned' = {}
    BY <1>1, <2>1 DEF Planned
  <2>3. Held' \subseteq Held
    BY <1>2, <2>1, <2>2 DEF Held
  <2>4. \A t \in (InFlight \cup pendingRetries \cup Dispatching)' : state[t] = "RUNNING"
    BY <1>2, <2>1 DEF Owned
  <2>5. (InFlight \cap pendingRetries)' = {}
    BY <1>2, <2>1 DEF Owned
  <2>6. QED
    BY <1>1, <2>1, <2>2, <2>3, <2>4, <2>5, OwnedMove
<1>6. QED
  BY <1>3, <1>4, <1>5

LEMMA OwnedBegin ==
  ASSUME LoopShape, SafetyInv, Owned, NEW a \in plan, BeginDispatch(a)
  PROVE  Owned'
<1>1. /\ phase = "running" /\ current = {} /\ a[1] \in Tasks /\ a[1] \in Planned
      /\ plan' = plan \ {a} /\ current' = {a}
      /\ UNCHANGED <<workflow, phase, active, pendingRetries>>
  BY DEF BeginDispatch, MarkRunning, taskVars, LoopShape, VarsShape, Planned
<1>2. plan' \cup current' = plan \cup current
  BY <1>1
<1>3. Planned' = Planned /\ InFlight' = InFlight /\ Dispatching' = {a[1]}
  BY <1>1, <1>2 DEF Planned, InFlight, Dispatching
<1>4. Held' = Held
  BY <1>1, <1>3 DEF Held
<1>5. state[a[1]] \in {"READY", "RUNNING"}
  BY <1>1 DEF Owned
<1>6. state' = [state EXCEPT ![a[1]] = "RUNNING"]
  BY <1>1, <1>5 DEF BeginDispatch, MarkRunning, taskVars, LoopShape, TaskTypeOK
<1>7. state'[a[1]] = "RUNNING" /\ \A t \in Tasks \ {a[1]} : state'[t] = state[t]
  BY <1>1, <1>6 DEF LoopShape, TaskTypeOK
<1>8. \A t \in (InFlight \cup pendingRetries \cup Dispatching)' : state'[t] = "RUNNING"
  <2>1. InFlight \cup pendingRetries \subseteq Tasks
    BY HeldTasks DEF Held
  <2>2. QED
    BY <1>1, <1>3, <1>7, <2>1 DEF Owned
<1>9. \A t \in Planned' : state'[t] \in {"READY", "RUNNING"}
  <2>1. Planned \subseteq Tasks
    BY HeldTasks DEF Held
  <2>2. QED
    BY <1>3, <1>7, <2>1 DEF Owned
<1>10. {t \in Tasks : state'[t] = "RUNNING"} \subseteq Held'
  <2>1. a[1] \in Held
    BY <1>1 DEF Held
  <2>2. QED
    BY <1>1, <1>4, <1>7, <2>1 DEF Owned
<1>11. QED
  BY <1>1, <1>2, <1>3, <1>4, <1>8, <1>9, <1>10 DEF Owned

LEMMA OwnedDispatch ==
  ASSUME LoopShape, SafetyInv, Owned, NEW a \in current,
         \/ DropAssignment(a) \/ DispatchAccepted(a)
         \/ DispatchRejected(a) \/ DispatchRaises(a)
  PROVE  Owned'
<1>1. /\ phase = "running" /\ current' = {} /\ UNCHANGED plan
      /\ a[1] \in Tasks /\ a[1] \in Dispatching /\ a[1] \in Planned
  BY DEF DropAssignment, DispatchAccepted, DispatchRejected, DispatchRaises,
         LoopShape, VarsShape, Dispatching, Planned
<1>2. current = {a}
  BY DEF Owned
<1>3. Dispatching' = {} /\ Planned' = Planned \ {a[1]}
  <2>1. \A b \in plan : b \in plan \cup current /\ a \in plan \cup current
    OBVIOUS
  <2>2. \A b \in plan : b[1] = a[1] => b = a
    BY <2>1 DEF Owned
  <2>3. a \notin plan
    BY DEF Owned
  <2>4. QED
    BY <1>1, <1>2, <2>2, <2>3 DEF Dispatching, Planned
<1>4. \A b, c \in plan' \cup current' : b[1] = c[1] => b = c
  BY <1>1 DEF Owned
<1>5. a[1] \notin InFlight /\ a[1] \notin pendingRetries /\ state[a[1]] = "RUNNING"
  BY <1>1 DEF Owned
<1>6. ASSUME UNCHANGED <<active, pendingRetries>>,
             NEW time \in Times, Settle(a[1], "DROPPED", time)
      PROVE  Owned'
  <2>1. InFlight' = InFlight
    BY <1>6 DEF InFlight
  <2>2. Held' = Held \ {a[1]}
    BY <1>3, <1>5, <1>6, <2>1 DEF Held
  <2>3. QED
    BY <1>1, <1>6, <2>2, OwnedSettle DEF FailureStates
<1>7. CASE DropAssignment(a)
  <2>1. PICK time \in Times : Settle(a[1], "DROPPED", time)
    BY <1>7, DropTime
  <2>2. QED
    BY <1>6, <1>7, <2>1 DEF DropAssignment
<1>8. CASE DispatchAccepted(a)
  <2>1. PICK finish : active' = active \cup {NewAttempt(a, finish)}
    BY <1>8, AcceptedAttempt
  <2>2. InFlight' = InFlight \cup {a[1]} /\ \A r \in active' : r \in active \/ r.result = "awaited"
    <3> DEFINE s == NewAttempt(a, finish)
    <3>1. s.task = a[1] /\ s.result = "awaited"
      BY DEF NewAttempt
    <3> HIDE DEF s
    <3>2. QED
      BY <2>1, <3>1 DEF InFlight, s
  <2>3. UNCHANGED <<workflow, state, phase, pendingRetries>>
    BY <1>8 DEF DispatchAccepted, taskVars
  <2>4. Held' = Held
    BY <1>1, <1>3, <2>2, <2>3 DEF Held
  <2>5. \A t \in (InFlight \cup pendingRetries \cup Dispatching)' : state[t] = "RUNNING"
    BY <1>3, <1>5, <2>2, <2>3 DEF Owned
  <2>6. ((InFlight \cup pendingRetries) \cap Planned)' = {} /\ (InFlight \cap pendingRetries)' = {}
    BY <1>3, <1>5, <2>2, <2>3 DEF Owned
  <2>7. \A r \in active' : r.result # "cancelled"
    BY <1>1, <2>2 DEF Owned
  <2>8. QED
    BY <1>1, <1>4, <2>3, <2>4, <2>5, <2>6, <2>7, OwnedMove
<1>9. CASE DispatchRejected(a) /\ MayRetry(a[1], nextAttempt[a[1]] - 1, TRUE)
  <2>1. /\ UNCHANGED <<workflow, state, phase, active>>
        /\ pendingRetries' = pendingRetries \cup {a[1]}
    BY <1>9 DEF DispatchRejected, Continue, taskVars
  <2>2. InFlight' = InFlight
    BY <2>1 DEF InFlight
  <2>3. Held' = Held
    BY <1>1, <1>3, <2>1, <2>2 DEF Held
  <2>4. \A t \in (InFlight \cup pendingRetries \cup Dispatching)' : state[t] = "RUNNING"
    BY <1>3, <1>5, <2>1, <2>2 DEF Owned
  <2>5. ((InFlight \cup pendingRetries) \cap Planned)' = {} /\ (InFlight \cap pendingRetries)' = {}
    BY <1>3, <1>5, <2>1, <2>2 DEF Owned
  <2>6. \A r \in active' : r.result # "cancelled"
    BY <1>1, <2>1 DEF Owned
  <2>7. QED
    BY <1>1, <1>4, <2>1, <2>3, <2>4, <2>5, <2>6, OwnedMove
<1>10. CASE DispatchRejected(a) /\ ~MayRetry(a[1], nextAttempt[a[1]] - 1, TRUE)
  <2>1. Settle(a[1], "DROPPED", now) /\ UNCHANGED <<active, pendingRetries>> /\ now \in Times
    BY <1>10 DEF DispatchRejected, LoopShape, VarsShape
  <2>2. QED
    BY <1>6, <2>1
<1>11. CASE DispatchRaises(a)
  <2>1. UNCHANGED <<workflow, state, active, pendingRetries>> /\ phase' = "cancelling"
    BY <1>11 DEF DispatchRaises, Raise, taskVars
  <2>2. InFlight' = InFlight
    BY <2>1 DEF InFlight
  <2>3. Held' \subseteq Held
    BY <1>3, <2>1, <2>2 DEF Held
  <2>4. \A t \in (InFlight \cup pendingRetries \cup Dispatching)' : state[t] = "RUNNING"
    BY <1>3, <2>1, <2>2 DEF Owned
  <2>5. ((InFlight \cup pendingRetries) \cap Planned)' = {} /\ (InFlight \cap pendingRetries)' = {}
    BY <1>3, <2>1, <2>2 DEF Owned
  <2>6. QED
    BY <1>1, <1>4, <2>1, <2>3, <2>4, <2>5, OwnedMove
<1>12. QED
  BY <1>7, <1>8, <1>9, <1>10, <1>11

LEMMA OwnedStep ==
  ASSUME LoopShape, SafetyInv, Booked, Owned, [Next]_vars
  PROVE  Owned'
<1>1. ASSUME NEW r \in active, Deliver(r) \/ DeliverError(r) \/ CancelAttempt(r)
      PROVE  Owned'
  <2>1. r \in ActiveShape
    BY DEF LoopShape, VarsShape
  <2>2. PICK result \in {"ok", "failed", "error", "cancelled"} :
          /\ active' = (active \ {r}) \cup {[r EXCEPT !.result = result]}
          /\ phase = "running" => result # "cancelled"
    BY <1>1 DEF Deliver, DeliverError, CancelAttempt
  <2>3. [r EXCEPT !.result = result].task = r.task /\ [r EXCEPT !.result = result].result = result
    BY <2>1 DEF ActiveShape
  <2>4. InFlight' = InFlight
    BY <2>2, <2>3 DEF InFlight
  <2>5. UNCHANGED <<workflow, state, phase, plan, current, pendingRetries>>
    BY <1>1 DEF Deliver, DeliverError, CancelAttempt, taskVars
  <2>6. phase = "running" => \A q \in active' : q.result # "cancelled"
    BY <2>2, <2>3 DEF Owned
  <2>7. QED
    BY <2>4, <2>5, <2>6 DEF Owned, Held, Planned, Dispatching
<1>2. CASE HarvestRaises \/ Interrupted \/ Finish \/ Reraise \/ Advance \/ UNCHANGED vars
  <2>1. /\ UNCHANGED <<workflow, state, plan, current, pendingRetries, active>>
        /\ phase' = "running" => phase = "running"
    BY <1>2 DEF HarvestRaises, Interrupted, Finish, Reraise, Advance, Raise, Continue,
                vars, taskVars, loopVars
  <2>2. QED
    BY <2>1 DEF Owned, Held, Planned, Dispatching, InFlight
<1>3. QED
  BY <1>1, <1>2, OwnedCompletion, OwnedPlanning, OwnedBegin, OwnedDispatch
     DEF Next, LoopStep, RuntimeStep

---------------------------------------------------------------------------
(* Executing at most once what must not be repeated. *)

Unexecuted(t) == \A i \in 1 .. MaxAttempts : attempt[<<t, i>>] = "unused"

LEMMA OnceKept ==
  ASSUME OnceOnly, UNCHANGED workflow,
         \A b \in AttemptIds : attempt'[b] # "unused" => attempt[b] # "unused",
         \A t \in (Waiting \cup Dispatching)' :
           t \in Tasks /\ (t \in Waiting \cup Dispatching \/ workflow.retryable[t] \/ Unexecuted(t))
  PROVE  OnceOnly'
<1>1. \A t \in Tasks, i \in 1 .. MaxAttempts :
        attempt'[<<t, i>>] # "unused" => attempt[<<t, i>>] # "unused"
  BY DEF AttemptIds
<1>2. ContractSafeRetry'
  BY <1>1 DEF OnceOnly, ContractSafeRetry
<1>3. ASSUME NEW t \in (Waiting \cup Dispatching)', ~workflow.retryable[t]
      PROVE  \A i \in 1 .. MaxAttempts : attempt'[<<t, i>>] = "unused"
  <2>1. t \in Tasks /\ Unexecuted(t)
    BY <1>3 DEF OnceOnly, Unexecuted, Dispatching
  <2>2. QED
    BY <1>1, <2>1 DEF Unexecuted
<1>4. QED
  BY <1>2, <1>3 DEF OnceOnly, Dispatching

\* The first execution of a task that was waiting for its dispatch.
LEMMA OnceDispatch ==
  ASSUME LoopShape, Numbered, Owned, OnceOnly, NEW a \in current,
         DispatchAccepted(a) \/ DispatchRaises(a)
  PROVE  OnceOnly'
<1> DEFINE id == <<a[1], nextAttempt[a[1]] - 1>>
<1>1. /\ current' = {} /\ UNCHANGED <<workflow, plan, pendingRetries>>
      /\ a[1] \in Tasks /\ a[1] \in Planned /\ a[1] \in Dispatching
  BY DEF DispatchAccepted, DispatchRaises, taskVars, LoopShape, VarsShape, Planned, Dispatching
<1>2. \A b \in AttemptIds \ {id} : attempt'[b] = attempt[b]
  BY DEF DispatchAccepted, DispatchRaises, LoopShape, VarsShape
<1>3. (Waiting \cup Dispatching)' = Waiting /\ Waiting \subseteq Tasks
  BY <1>1, WaitingTasks DEF Waiting, Dispatching
<1>4. a[1] \notin Waiting
  <2>1. a[1] \notin pendingRetries /\ a \notin plan
    BY <1>1 DEF Owned
  <2>2. \A b \in plan : b \in plan \cup current /\ a \in plan \cup current
    OBVIOUS
  <2>3. QED
    BY <2>1, <2>2 DEF Owned, Waiting
<1>5. \A t \in Tasks \ {a[1]}, i \in 1 .. MaxAttempts : attempt'[<<t, i>>] = attempt[<<t, i>>]
  BY <1>2 DEF AttemptIds
<1>6. \A t \in Waiting : ~workflow.retryable[t] =>
        \A i \in 1 .. MaxAttempts : attempt'[<<t, i>>] = "unused"
  BY <1>3, <1>4, <1>5 DEF OnceOnly
<1>7. ~workflow.retryable[a[1]] =>
        \A i \in 1 .. MaxAttempts :
          attempt'[<<a[1], i>>] # "unused" => i = nextAttempt[a[1]] - 1
  BY <1>1, <1>2 DEF OnceOnly, AttemptIds, Dispatching
<1>8. ContractSafeRetry'
  <2> SUFFICES ASSUME NEW t \in Tasks, ~workflow.retryable[t],
                      NEW i \in 1 .. MaxAttempts, NEW j \in 1 .. MaxAttempts,
                      attempt'[<<t, i>>] # "unused", attempt'[<<t, j>>] # "unused"
               PROVE  i = j
    BY <1>1 DEF ContractSafeRetry
  <2>1. CASE t = a[1]
    BY <1>7, <2>1
  <2>2. CASE t # a[1]
    BY <1>5, <2>2 DEF OnceOnly, ContractSafeRetry
  <2>3. QED
    BY <2>1, <2>2
<1>9. QED
  BY <1>1, <1>3, <1>6, <1>8 DEF OnceOnly, Dispatching

LEMMA WorkflowFixed == [TaskNext]_taskVars => workflow' = workflow
BY DEF TaskNext, taskVars, MarkRunning, CompleteOk, CompleteFailed, CompleteAgain

LEMMA OnceStep ==
  ASSUME LoopShape, Numbered, Booked, Owned, OnceOnly, [Next]_vars
  PROVE  OnceOnly'
<1>0. UNCHANGED workflow
  BY ShapeStep, WorkflowFixed
<1> DEFINE Waits == Waiting \cup Dispatching
<1>1. Waits \subseteq Tasks
  BY WaitingTasks DEF Dispatching, LoopShape, VarsShape
<1>2. ASSUME NEW r \in active,
             ProcessSuccess(r) \/ ProcessBadOutputs(r) \/ ProcessFailure(r)
      PROVE  OnceOnly'
  <2>1. UNCHANGED <<attempt, plan, current>>
    BY <1>2 DEF ProcessSuccess, ProcessBadOutputs, ProcessFailure
  <2>2. \A t \in pendingRetries' :
          t \in pendingRetries \/ (t = r.task /\ workflow.retryable[r.task])
    BY <1>2 DEF ProcessSuccess, ProcessBadOutputs, ProcessFailure, MayRetry
  <2>3. r.task \in Tasks
    BY DEF LoopShape, VarsShape, ActiveShape
  <2>4. \A t \in Waits' : t \in Tasks /\ (t \in Waits \/ workflow.retryable[t])
    BY <1>1, <2>1, <2>2, <2>3 DEF Waiting, Dispatching
  <2>5. QED
    BY <1>0, <2>1, <2>4, OnceKept
<1>3. ASSUME PlanRetry \/ PlanArrived \/ PlanRaises PROVE OnceOnly'
  <2>1. UNCHANGED <<attempt, current>> /\ pendingRetries' \subseteq pendingRetries
    BY <1>3 DEF PlanRetry, PlanArrived, PlanRaises
  <2>2. \A a \in plan' : a \in plan \/ a[1] \in pendingRetries \/ a[1] \in Arrived
    <3>1. CASE PlanRetry
      <4>1. Min(pendingRetries) \in pendingRetries
        BY <3>1, MinOfSet, CoordinatorAssumption
           DEF PlanRetry, RetryDue, LoopShape, VarsShape, CoordinatorAssumption
      <4>2. QED
        BY <3>1, <4>1 DEF PlanRetry
    <3>2. CASE PlanArrived
      BY <3>2 DEF PlanArrived, Commitments
    <3>3. CASE PlanRaises
      BY <3>3 DEF PlanRaises
    <3>4. QED
      BY <1>3, <3>1, <3>2, <3>3
  <2>3. ASSUME NEW t \in Arrived PROVE t \in Tasks /\ Unexecuted(t)
    <3>1. t \in Tasks /\ nextAttempt[t] = 1
      BY DEF Arrived, Ready, Numbered
    <3>2. ASSUME NEW i \in 1 .. MaxAttempts, attempt[<<t, i>>] # "unused" PROVE FALSE
      <4>1. i < 1
        BY <3>1, <3>2 DEF Booked, AttemptIds
      <4>2. QED
        BY <4>1
    <3>3. QED
      BY <3>1, <3>2 DEF Unexecuted
  <2>4. \A t \in Waits' : t \in Tasks /\ (t \in Waits \/ Unexecuted(t))
    BY <1>1, <2>1, <2>2, <2>3 DEF Waiting, Dispatching
  <2>5. QED
    BY <1>0, <2>1, <2>4, OnceKept
<1>4. ASSUME NEW a \in plan, BeginDispatch(a) PROVE OnceOnly'
  <2>1. plan' = plan \ {a} /\ current' = {a} /\ UNCHANGED <<attempt, pendingRetries>>
    BY <1>4 DEF BeginDispatch
  <2>2. Waits' \subseteq Waits
    BY <2>1 DEF Waiting, Dispatching
  <2>3. QED
    BY <1>0, <1>1, <2>1, <2>2, OnceKept
<1>5. ASSUME NEW a \in current, DropAssignment(a) \/ DispatchRejected(a) PROVE OnceOnly'
  <2>1. /\ current' = {} /\ UNCHANGED <<attempt, plan>>
        /\ pendingRetries' \subseteq pendingRetries \cup {a[1]}
    BY <1>5 DEF DropAssignment, DispatchRejected
  <2>2. Waits' \subseteq Waits
    BY <2>1 DEF Waiting, Dispatching
  <2>3. QED
    BY <1>0, <1>1, <2>1, <2>2, OnceKept
<1>6. ASSUME NEW r \in active, Deliver(r) \/ DeliverError(r) \/ CancelAttempt(r)
      PROVE  OnceOnly'
  <2>1. UNCHANGED <<plan, current, pendingRetries>>
    BY <1>6 DEF Deliver, DeliverError, CancelAttempt
  <2>2. attempt[<<r.task, r.no>>] # "unused"
    BY DEF Booked
  <2>3. \A b \in AttemptIds : attempt'[b] # "unused" => attempt[b] # "unused"
    BY <1>6, <2>2 DEF Deliver, DeliverError, CancelAttempt, LoopShape, VarsShape
  <2>4. Waits' = Waits
    BY <2>1 DEF Waiting, Dispatching
  <2>5. QED
    BY <1>0, <1>1, <2>3, <2>4, OnceKept
<1>7. CASE HarvestRaises \/ Interrupted \/ Finish \/ Reraise \/ Advance \/ UNCHANGED vars
  <2>1. UNCHANGED <<attempt, plan, current, pendingRetries>>
    BY <1>7 DEF HarvestRaises, Interrupted, Finish, Reraise, Advance, vars, loopVars
  <2>2. Waits' = Waits
    BY <2>1 DEF Waiting, Dispatching
  <2>3. QED
    BY <1>0, <1>1, <2>1, <2>2, OnceKept
<1>8. QED
  BY <1>2, <1>3, <1>4, <1>5, <1>6, <1>7, OnceDispatch DEF Next, LoopStep, RuntimeStep

---------------------------------------------------------------------------
(* The invariant and what follows from it. *)

LEMMA InitLoop == Init => LoopInv
<1> SUFFICES ASSUME Init PROVE LoopInv
  OBVIOUS
<1>1. MaxAttempts \in Nat \ {0}
  BY CoordinatorAssumption DEF CoordinatorAssumption
<1>2. active = {} /\ plan = {} /\ current = {} /\ pendingRetries = {}
  BY DEF Init
<1>3. \A t \in Tasks : nextAttempt[t] = 1 /\ state[t] \in {"READY", "BLOCKED"}
  BY DEF Init, TaskInit
<1>4. \A b \in AttemptIds : attempt[b] = "unused"
  BY DEF Init
<1>5. Numbered
  BY <1>1, <1>2, <1>3 DEF Numbered, Waiting
<1>6. Booked
  BY <1>2, <1>4 DEF Booked
<1>7. OnceOnly
  BY <1>2, <1>4 DEF OnceOnly, ContractSafeRetry, AttemptIds, Waiting
<1>8. Owned
  BY <1>2, <1>3 DEF Owned, Held, InFlight, Planned, Dispatching
<1>9. QED
  BY <1>5, <1>6, <1>7, <1>8 DEF LoopInv

\* The invariant of the loop is inductive on top of that of the task manager.
THEOREM LoopInvariant == Spec => []LoopInv
<1>1. LoopShape /\ SafetyInv /\ LoopInv /\ [Next]_vars => LoopInv'
  BY NumberedStep, BookedStep, OnceStep, OwnedStep, OwnedOneOwner DEF LoopInv
<1>2. QED
  BY InitLoop, ShapeCorrect, TaskManagerSafe, <1>1, PTL DEF Spec

\* Attempt numbers never pass max_attempts, and every variable of the loop
\* keeps its type.
THEOREM LoopTypeCorrect == Spec => []LoopTypeOK
<1>1. LoopShape /\ LoopInv => LoopTypeOK
  <2> SUFFICES ASSUME LoopShape, LoopInv PROVE LoopTypeOK
    OBVIOUS
  <2>1. MaxAttempts \in Nat /\ Numbered
    BY CoordinatorAssumption DEF CoordinatorAssumption, LoopInv
  <2>2. nextAttempt \in [Tasks -> 1 .. (MaxAttempts + 1)]
    <3>1. nextAttempt \in [Tasks -> Nat \ {0}]
      BY DEF LoopShape, VarsShape
    <3>2. ASSUME NEW t \in Tasks PROVE nextAttempt[t] \in 1 .. (MaxAttempts + 1)
      <4>1. nextAttempt[t] \in Nat \ {0} /\ nextAttempt[t] <= MaxAttempts + 1
        BY <2>1, <3>1 DEF Numbered
      <4>2. QED
        BY <2>1, <4>1
    <3>3. QED
      BY <3>1, <3>2
  <2>3. ASSUME NEW r \in active PROVE r \in ActiveAttempt
    <3>1. r \in ActiveShape /\ <<r.task, r.no>> \in AttemptIds
      BY <2>1, Identified DEF LoopShape, VarsShape
    <3>2. r.no \in 1 .. MaxAttempts
      BY <3>1 DEF AttemptIds
    <3>3. QED
      BY <3>1, <3>2 DEF ActiveShape, ActiveAttempt
  <2>4. QED
    BY <2>2, <2>3 DEF LoopShape, VarsShape, LoopTypeOK
<1>2. QED
  BY ShapeCorrect, LoopInvariant, <1>1, PTL

\* Every running task is in flight, waiting for its retry or in the plan, and
\* in one of them only.
THEOREM OneOwnerHolds == Spec => []OneOwner
<1>1. LoopInv => OneOwner
  BY OwnedOneOwner DEF LoopInv
<1>2. QED
  BY LoopInvariant, <1>1, PTL

\* A task that is not idempotent, or is stateful, is executed at most once.
THEOREM ContractSafeRetryHolds == Spec => []ContractSafeRetry
<1>1. LoopInv => ContractSafeRetry
  BY DEF LoopInv, OnceOnly
<1>2. QED
  BY LoopInvariant, <1>1, PTL

\* A FAIL_FAST workflow has one commitment at a time and none after a failure.
THEOREM SerialFailFastHolds == Spec => []SerialFailFast
<1>1. LoopShape /\ SafetyInv /\ LoopInv => SerialFailFast
  BY OwnedSerial DEF LoopInv
<1>2. QED
  BY ShapeCorrect, TaskManagerSafe, LoopInvariant, <1>1, PTL

---------------------------------------------------------------------------
(* How a run ends. *)

\* The tasks whose result is reported run, so the task manager never refuses.
LEMMA SettleContinues ==
  ASSUME LoopShape, SafetyInv, Owned,
         NEW t \in InFlight \cup Dispatching,
         NEW result \in FailureStates \cup {"SUCCEEDED"},
         NEW time \in Times, Settle(t, result, time)
  PROVE  UNCHANGED <<phase, failure>>
<1>1. t \in Tasks /\ state[t] = "RUNNING"
  BY HeldTasks DEF Owned, Held, Dispatching, Planned
<1>2. QED
  BY <1>1, SettleEffect

\* Without anything to wait for there is an event: the task manager has a
\* ready or a running task, and the loop holds every running one.
LEMMA NeverStuck ==
  ASSUME LoopShape, NoStrandedTask, Owned, Advance
  PROVE  failure' = failure
<1> SUFFICES ASSUME ~(NextEvents # {} /\ BeforeWatermark(Min(NextEvents))) PROVE FALSE
  BY DEF Advance, Continue
<1>1. /\ phase = "running" /\ plan = {} /\ current = {} /\ Unresolved # {}
      /\ \A r \in active : r.result # "error"
      /\ Awaited = {}
  BY DEF Advance, AtLoop
<1>2. NextEvents = {}
  BY <1>1 DEF BeforeWatermark
<1>3. active = {}
  <2>1. Received = {}
    BY <1>2 DEF NextEvents
  <2>2. \A r \in active : r.result \in {"awaited", "ok", "failed", "error", "cancelled"}
    BY DEF LoopShape, VarsShape, ActiveShape
  <2>3. QED
    BY <1>1, <2>1, <2>2 DEF Received, Awaited, Owned
<1>4. ~FailFastWaiting /\ pendingRetries = {}
  BY <1>3 DEF FailFastWaiting, Advance
<1>5. Ready = {}
  BY <1>2, <1>4 DEF NextEvents
<1>6. Held = {}
  BY <1>1, <1>3, <1>4 DEF Held, InFlight, Planned
<1>7. QED
  BY <1>1, <1>5, <1>6 DEF NoStrandedTask, Ready, Owned

Ended ==
  /\ NoInternalError
  /\ phase = "done" => active = {}
  /\ phase = "raised" => \A r \in active : r.result = "cancelled"

LEMMA EndedStep ==
  ASSUME LoopShape, SafetyInv, NoStrandedTask, Owned, Ended, [Next]_vars
  PROVE  Ended'
<1>1. ASSUME NEW r \in active,
             ProcessSuccess(r) \/ ProcessBadOutputs(r) \/ ProcessFailure(r)
      PROVE  Ended'
  <2>1. r.task \in InFlight /\ r.finish \in Times /\ phase = "running"
    BY <1>1 DEF ProcessSuccess, ProcessBadOutputs, ProcessFailure, AtLoop,
                LoopShape, VarsShape, ActiveShape, InFlight
  <2>2. CASE \E result \in FailureStates \cup {"SUCCEEDED"} : Settle(r.task, result, r.finish)
    <3>1. UNCHANGED <<phase, failure>>
      BY <2>1, <2>2, SettleContinues
    <3>2. QED
      BY <2>1, <3>1 DEF Ended, NoInternalError
  <2>3. CASE UNCHANGED <<phase, failure>>
    BY <2>1, <2>3 DEF Ended, NoInternalError
  <2>4. CASE Raise("runtime")
    BY <2>4 DEF Ended, NoInternalError, Raise
  <2>5. QED
    BY <1>1, <2>2, <2>3, <2>4
       DEF ProcessSuccess, ProcessBadOutputs, ProcessFailure, Continue, FailureStates
<1>2. ASSUME NEW a \in current,
             \/ DropAssignment(a) \/ DispatchAccepted(a)
             \/ DispatchRejected(a) \/ DispatchRaises(a)
      PROVE  Ended'
  <2>1. phase = "running" /\ now \in Times /\ a[1] \in Dispatching
    BY <1>2 DEF DropAssignment, DispatchAccepted, DispatchRejected, DispatchRaises,
                LoopShape, VarsShape, Dispatching
  <2>2. CASE \E time \in Times : Settle(a[1], "DROPPED", time)
    <3>1. UNCHANGED <<phase, failure>>
      BY <2>1, <2>2, SettleContinues DEF FailureStates
    <3>2. QED
      BY <2>1, <3>1 DEF Ended, NoInternalError
  <2>3. CASE UNCHANGED <<phase, failure>>
    BY <2>1, <2>3 DEF Ended, NoInternalError
  <2>4. CASE Raise("runtime")
    BY <2>4 DEF Ended, NoInternalError, Raise
  <2>5. CASE DropAssignment(a)
    BY <2>2, <2>5, DropTime
  <2>6. QED
    BY <1>2, <2>1, <2>2, <2>3, <2>4, <2>5
       DEF DispatchAccepted, DispatchRejected, DispatchRaises, Continue
<1>3. ASSUME NEW r \in active, Deliver(r) \/ DeliverError(r) \/ CancelAttempt(r)
      PROVE  Ended'
  BY <1>3 DEF Deliver, DeliverError, CancelAttempt, Ended, NoInternalError
<1>4. CASE Advance
  <2>1. failure' = failure /\ phase' \in {"running", "cancelling"}
    BY <1>4, NeverStuck DEF Advance, AtLoop, Continue, Raise
  <2>2. QED
    BY <2>1 DEF Ended, NoInternalError
<1>5. CASE Finish
  <2>1. \A t \in InFlight : t \in Tasks /\ state[t] = "RUNNING"
    BY HeldTasks DEF Owned, Held
  <2>2. active = {}
    BY <1>5, <2>1 DEF Finish, Unresolved, TERMINAL_STATES, FailureStates, InFlight
  <2>3. QED
    BY <1>5, <2>2 DEF Finish, Ended, NoInternalError
<1>6. CASE Reraise
  BY <1>6 DEF Reraise, Ended, NoInternalError
<1>7. CASE HarvestRaises \/ Interrupted \/ PlanRaises
  BY <1>7 DEF HarvestRaises, Interrupted, PlanRaises, Raise, Ended, NoInternalError
<1>8. CASE PlanRetry \/ PlanArrived
  BY <1>8 DEF PlanRetry, PlanArrived, RetryDue, PlanDue, AtLoop, Ended, NoInternalError
<1>9. ASSUME NEW a \in plan, BeginDispatch(a) PROVE Ended'
  BY <1>9 DEF BeginDispatch, Ended, NoInternalError
<1>10. CASE UNCHANGED vars
  BY <1>10 DEF vars, loopVars, Ended, NoInternalError
<1>11. QED
  BY <1>1, <1>2, <1>3, <1>4, <1>5, <1>6, <1>7, <1>8, <1>9, <1>10
     DEF Next, LoopStep, RuntimeStep

LEMMA EndedInvariant == Spec => []Ended
<1>1. Init => Ended
  BY DEF Init, Ended, NoInternalError
<1>2. LoopShape /\ SafetyInv /\ NoStrandedTask /\ LoopInv /\ Ended /\ [Next]_vars => Ended'
  BY EndedStep DEF LoopInv
<1>3. Spec => []NoStrandedTask
  BY ImplementsTaskLifecycle, NoStrandedTaskHolds, PTL
<1>4. QED
  BY ShapeCorrect, TaskManagerSafe, LoopInvariant, <1>1, <1>2, <1>3, PTL DEF Spec

\* The loop never raises on its own account: every call of the task manager is
\* legal, and there is always something to do or to wait for.
THEOREM NoInternalErrorHolds == Spec => []NoInternalError
<1>1. Ended => NoInternalError
  BY DEF Ended
<1>2. QED
  BY EndedInvariant, <1>1, PTL

\* However a run ends, every attempt at the runtime was heard of or withdrawn.
THEOREM NoOrphansHolds == Spec => []NoOrphans
<1>1. LoopInv /\ Ended => NoOrphans
  <2> SUFFICES ASSUME LoopInv, Ended, phase \in {"done", "raised"},
                      NEW b \in AttemptIds, attempt[b] = "pending"
               PROVE  FALSE
    BY DEF NoOrphans
  <2>1. PICK r \in active : <<r.task, r.no>> = b
    BY DEF LoopInv, Booked
  <2>2. r.result = "cancelled"
    BY DEF Ended
  <2>3. QED
    BY <2>1, <2>2 DEF LoopInv, Booked
<1>2. QED
  BY LoopInvariant, EndedInvariant, <1>1, PTL

\* Every attempt number is accepted by the runtime once and ends once.
THEOREM AttemptsEndOnceHolds == Spec => AttemptsEndOnce
<1> DEFINE Once == \A a \in AttemptIds :
                     attempt'[a] # attempt[a] =>
                       \/ attempt[a] = "unused"
                       \/ attempt[a] = "pending" /\ attempt'[a] # "unused"
<1>1. LoopShape /\ LoopInv /\ [Next]_vars => [Once]_vars
  <2> SUFFICES ASSUME LoopShape, LoopInv, Next PROVE Once
    BY DEF vars, loopVars
  <2> USE DEF LoopShape, VarsShape
  <2>1. ASSUME NEW r \in active, Deliver(r) \/ DeliverError(r) \/ CancelAttempt(r)
        PROVE  Once
    <3>1. r.result = "awaited" => attempt[<<r.task, r.no>>] = "pending"
      BY DEF LoopInv, Booked
    <3>2. QED
      BY <2>1, <3>1 DEF Deliver, DeliverError, CancelAttempt, Awaited
  <2>2. ASSUME NEW a \in current, DispatchAccepted(a) \/ DispatchRaises(a) PROVE Once
    <3>1. attempt[<<a[1], nextAttempt[a[1]] - 1>>] = "unused"
      BY DEF LoopInv, Booked
    <3>2. QED
      BY <2>2, <3>1 DEF DispatchAccepted, DispatchRaises
  <2>3. CASE UNCHANGED attempt
    BY <2>3
  <2>4. QED
    BY <2>1, <2>2, <2>3
       DEF Next, LoopStep, RuntimeStep, HarvestRaises, Interrupted, ProcessSuccess,
           ProcessBadOutputs, ProcessFailure, PlanRetry, PlanArrived, PlanRaises,
           BeginDispatch, DropAssignment, DispatchRejected, Advance, Finish, Reraise
<1>2. QED
  BY ShapeCorrect, LoopInvariant, <1>1, PTL DEF Spec, AttemptsEndOnce

---------------------------------------------------------------------------
(* Virtual time. *)

LEMMA Clock ==
  ASSUME LoopShape
  PROVE  /\ now \in Nat
         /\ \A r \in active : r.finish \in Nat
         /\ \A t \in Tasks : completionTime[t] \in Nat /\ workflow.arrival[t] \in Nat
<1>1. Times \subseteq Nat
  BY CoordinatorAssumption DEF CoordinatorAssumption, Times
<1>2. \A r \in active : r.finish \in Times
  BY DEF LoopShape, VarsShape, ActiveShape
<1>3. \A t \in Tasks : completionTime[t] \in Times /\ workflow.arrival[t] \in Times
  BY WorkflowTimes DEF LoopShape, VarsShape
<1>4. QED
  BY <1>1, <1>2, <1>3 DEF LoopShape, VarsShape

\* Results take effect in the order of their event times.
THEOREM EventOrderHolds == Spec => EventOrder
<1> DEFINE Order == VirtualTime =>
                      \A r \in Received :
                        phase = "running" /\ r \notin active' =>
                          \A q \in active' : r.finish <= q.finish
<1>1. LoopShape /\ LoopInv /\ [Next]_vars => [Order]_vars
  <2> SUFFICES ASSUME LoopShape, LoopInv, Next, VirtualTime, phase = "running",
                      NEW r \in Received, r \notin active', NEW q \in active'
               PROVE  r.finish <= q.finish
    BY DEF vars, loopVars
  <2>1. r \in active /\ r.result \in {"ok", "failed"}
    BY DEF Received
  <2>2. ASSUME NEW p \in active,
               ProcessSuccess(p) \/ ProcessBadOutputs(p) \/ ProcessFailure(p)
        PROVE  r.finish <= q.finish
    <3>1. /\ AtLoop /\ p \in Due /\ active' = active \ {p}
      BY <2>2 DEF ProcessSuccess, ProcessBadOutputs, ProcessFailure
    <3>2. p = r /\ q \in active
      BY <2>1, <3>1
    <3>3. q.result \in {"awaited", "ok", "failed"}
      BY <3>1, <3>2 DEF AtLoop, LoopShape, VarsShape, ActiveShape, LoopInv, Owned
    <3>4. CASE q.result = "awaited"
      <4>1. r.finish < q.finish
        BY <3>1, <3>2, <3>4 DEF Due, BeforeWatermark, Awaited
      <4>2. r.finish \in Nat /\ q.finish \in Nat
        BY <2>1, <3>2, Clock
      <4>3. QED
        BY <4>1, <4>2
    <3>5. CASE q.result # "awaited"
      BY <3>1, <3>2, <3>3, <3>5 DEF Due, Received
    <3>6. QED
      BY <3>4, <3>5
  <2>3. ASSUME NEW p \in active, Deliver(p) \/ DeliverError(p) \/ CancelAttempt(p)
        PROVE  FALSE
    BY <2>1, <2>3 DEF Deliver, DeliverError, CancelAttempt, Awaited
  <2>4. ASSUME NEW a \in current, DispatchAccepted(a) PROVE FALSE
    <3>1. PICK finish : active' = active \cup {NewAttempt(a, finish)}
      BY <2>4, AcceptedAttempt
    <3>2. QED
      BY <2>1, <3>1
  <2>5. CASE UNCHANGED active
    BY <2>1, <2>5
  <2>6. QED
    BY <2>2, <2>3, <2>4, <2>5
       DEF Next, LoopStep, RuntimeStep, HarvestRaises, Interrupted, PlanRetry,
           PlanArrived, PlanRaises, BeginDispatch, DropAssignment, DispatchRejected,
           DispatchRaises, Advance, Finish, Reraise
<1>2. QED
  BY ShapeCorrect, LoopInvariant, <1>1, PTL DEF Spec, EventOrder

\* The clock moves forward, at most to the first result.
LEMMA AdvanceClock ==
  ASSUME LoopShape, Owned, NoMissedCompletion, Advance
  PROVE  now <= now' /\ NoMissedCompletion'
<1>1. now \in Times /\ MaxTime \in Nat /\ Times = 0 .. MaxTime
  BY CoordinatorAssumption DEF LoopShape, VarsShape, CoordinatorAssumption, Times
<1>2. UNCHANGED active
  BY DEF Advance
<1>3. CASE NextEvents # {} /\ BeforeWatermark(Min(NextEvents))
  <2> DEFINE next == Min(NextEvents)
  <2>1. NextEvents \in SUBSET Nat
    <3>1. \A r \in Received : r.finish \in Nat
      BY Clock DEF Received
    <3>2. \A t \in Ready : ReadyAt(t) \in Nat
      BY <1>1, ReadyAtTime DEF Ready
    <3>3. QED
      BY <3>1, <3>2 DEF NextEvents
  <2>2. next \in NextEvents /\ \A x \in NextEvents : next <= x
    BY <1>3, <2>1, MinOfSet
  <2>3. now' = Max({now, next})
    BY <1>3 DEF Advance
  <2>4. BeforeWatermark(next)
    BY <1>3
  <2> HIDE DEF next
  <2>5. next \in Nat /\ now \in Nat
    BY <1>1, <2>1, <2>2
  <2>6. now <= now' /\ now' \in {now, next}
    <3>1. \E x \in {now, next} : \A y \in {now, next} : x >= y
      BY <2>5
    <3>2. QED
      BY <2>3, <2>5, <3>1 DEF Max
  <2>7. ASSUME VirtualTime, NEW r \in active PROVE next <= r.finish
    <3>1. r.finish \in Nat /\ r.result \in {"awaited", "ok", "failed"}
      <4>1. r.result \in {"awaited", "ok", "failed", "error", "cancelled"}
        BY DEF LoopShape, VarsShape, ActiveShape
      <4>2. QED
        BY <4>1, Clock DEF Advance, AtLoop, Owned
    <3>2. CASE r.result = "awaited"
      BY <2>4, <2>5, <2>7, <3>1, <3>2 DEF BeforeWatermark, Awaited
    <3>3. CASE r.result # "awaited"
      BY <2>2, <3>1, <3>3 DEF NextEvents, Received
    <3>4. QED
      BY <3>2, <3>3
  <2>8. QED
    BY <1>2, <2>6, <2>7 DEF NoMissedCompletion
<1>4. CASE ~(NextEvents # {} /\ BeforeWatermark(Min(NextEvents)))
  <2>1. UNCHANGED now
    BY <1>4 DEF Advance
  <2>2. QED
    BY <1>1, <1>2, <2>1 DEF NoMissedCompletion
<1>5. QED
  BY <1>3, <1>4

\* Under virtual time the clock never passes a result that is still owed.
THEOREM NoMissedCompletionHolds == Spec => []NoMissedCompletion
<1>1. Init => NoMissedCompletion
  BY DEF Init, NoMissedCompletion
<1>2. LoopShape /\ LoopInv /\ NoMissedCompletion /\ [Next]_vars => NoMissedCompletion'
  <2> SUFFICES ASSUME LoopShape, LoopInv, NoMissedCompletion, [Next]_vars
               PROVE  NoMissedCompletion'
    OBVIOUS
  <2>1. CASE Advance
    BY <2>1, AdvanceClock DEF LoopInv
  <2>2. ASSUME NEW r \in active, Deliver(r) \/ DeliverError(r) \/ CancelAttempt(r)
        PROVE  NoMissedCompletion'
    <3>1. PICK result : active' = (active \ {r}) \cup {[r EXCEPT !.result = result]}
      BY <2>2 DEF Deliver, DeliverError, CancelAttempt
    <3>2. [r EXCEPT !.result = result].finish = r.finish
      BY DEF LoopShape, VarsShape, ActiveShape
    <3>3. UNCHANGED now
      BY <2>2 DEF Deliver, DeliverError, CancelAttempt
    <3>4. QED
      BY <3>1, <3>2, <3>3 DEF NoMissedCompletion
  <2>3. ASSUME NEW a \in current, DispatchAccepted(a) PROVE NoMissedCompletion'
    <3>1. PICK finish \in (IF VirtualTime THEN now ELSE 0) .. MaxTime :
            active' = active \cup {NewAttempt(a, finish)}
      BY <2>3, AcceptedAttempt
    <3>2. NewAttempt(a, finish).finish = finish
      BY DEF NewAttempt
    <3>3. VirtualTime => now <= finish
      BY Clock, CoordinatorAssumption DEF CoordinatorAssumption
    <3>4. UNCHANGED now
      BY <2>3 DEF DispatchAccepted
    <3>5. QED
      BY <3>1, <3>2, <3>3, <3>4 DEF NoMissedCompletion
  <2>4. CASE active' \subseteq active /\ UNCHANGED now
    BY <2>4 DEF NoMissedCompletion
  <2>5. QED
    BY <2>1, <2>2, <2>3, <2>4
       DEF Next, LoopStep, RuntimeStep, HarvestRaises, Interrupted, ProcessSuccess,
           ProcessBadOutputs, ProcessFailure, PlanRetry, PlanArrived, PlanRaises,
           BeginDispatch, DropAssignment, DispatchRejected, DispatchRaises, Finish,
           Reraise, vars, loopVars
<1>3. QED
  BY ShapeCorrect, LoopInvariant, <1>1, <1>2, PTL DEF Spec

\* What the loop holds was ready when it was taken in, and what has ended
\* respects the order of the graph.
Timed ==
  /\ \A t \in Held : ReadyAt(t) <= now
  /\ CausalTimes

OwnResult == {"SUCCEEDED"} \cup FailureStates

LEMMA TimedKept ==
  ASSUME LoopShape, Timed, UNCHANGED <<workflow, completionTime>>,
         now <= now', now' \in Nat,
         \A t \in Tasks : state'[t] \in OwnResult => state[t] = state'[t],
         \A t \in Held' : t \in Tasks /\ (t \in Held \/ ReadyAt(t) <= now)
  PROVE  Timed'
<1>1. \A t : ReadyAt(t)' = ReadyAt(t) /\ Parents(t)' = Parents(t)
  BY DEF ReadyAt, Parents
<1>2. \A t \in Held' : ReadyAt(t)' <= now'
  <2> SUFFICES ASSUME NEW t \in Held' PROVE ReadyAt(t) <= now'
    BY <1>1
  <2>1. ReadyAt(t) <= now
    BY DEF Timed
  <2>2. t \in Tasks /\ ReadyAt(t) \in Times
    BY ReadyAtTime
  <2>3. ReadyAt(t) \in Nat /\ now \in Nat
    BY <2>2, Clock, CoordinatorAssumption DEF Times, CoordinatorAssumption
  <2>4. QED
    BY <2>1, <2>3
<1>3. CausalTimes'
  BY <1>1 DEF Timed, CausalTimes, OwnResult, Failed
<1>4. QED
  BY <1>2, <1>3 DEF Timed

LEMMA TimedSettle ==
  ASSUME LoopShape, SafetyInv, Owned, Timed, UNCHANGED now,
         NEW t \in InFlight \cup Dispatching,
         NEW result \in FailureStates \cup {"SUCCEEDED"},
         NEW time \in Times, Settle(t, result, time),
         VirtualTime => now <= time,
         Held' \subseteq Held \ {t}
  PROVE  Timed'
<1>1. t \in Tasks /\ state[t] = "RUNNING" /\ t \in Held
  BY HeldTasks DEF Owned, Held, Dispatching, Planned
<1>2. /\ UNCHANGED workflow /\ state'[t] = result
      /\ completionTime' = [completionTime EXCEPT ![t] = time]
      /\ \A s \in Tasks \ {t} : state'[s] \in OwnResult => state[s] = state'[s]
  BY <1>1, SettleEffect DEF OwnResult
<1>3. /\ completionTime'[t] = time
      /\ \A s \in Tasks \ {t} : completionTime'[s] = completionTime[s]
  BY <1>1, <1>2 DEF LoopShape, VarsShape
<1>4. \A s : Parents(s)' = Parents(s)
  BY <1>2 DEF Parents
<1>5. ASSUME NEW s \in Tasks, Started(s)
      PROVE  \A p \in Parents(s) : p \in Tasks \ {t} /\ completionTime'[p] = completionTime[p]
  <2>1. \A p \in Parents(s) : p \in Tasks /\ state[p] = "SUCCEEDED"
    BY <1>5, WorkflowFacts DEF LoopShape, TaskTypeOK, Parents, SafetyInv, ParentsFirst
  <2>2. QED
    BY <1>1, <1>3, <2>1
<1>6. \A s \in Held' : ReadyAt(s)' <= now'
  <2> SUFFICES ASSUME NEW s \in Held' PROVE ReadyAt(s)' <= now
    OBVIOUS
  <2>1. s \in Tasks /\ s \in Held /\ Started(s)
    BY HeldTasks DEF Owned, Held, Started
  <2>2. {completionTime'[p] : p \in Parents(s)'} = {completionTime[p] : p \in Parents(s)}
    BY <1>4, <1>5, <2>1
  <2>3. ReadyAt(s)' = ReadyAt(s)
    BY <1>2, <2>2 DEF ReadyAt
  <2>4. QED
    BY <2>1, <2>3 DEF Timed
<1>7. ASSUME VirtualTime, NEW s \in Tasks, state'[s] \in OwnResult
      PROVE  /\ workflow'.arrival[s] <= completionTime'[s]
             /\ \A p \in Parents(s)' : completionTime'[p] <= completionTime'[s]
  <2>1. CASE s = t
    <3>1. ReadyAt(t) <= now /\ now <= time
      BY <1>1, <1>7 DEF Timed
    <3>2. /\ ReadyAt(t) \in Times /\ workflow.arrival[t] <= ReadyAt(t)
          /\ \A p \in Parents(t) : completionTime[p] <= ReadyAt(t)
      BY <1>1, ReadyAtTime
    <3>3. Started(t)
      BY <1>1 DEF Started
    <3>4. \A p \in Parents(t) : p \in Tasks /\ completionTime'[p] = completionTime[p]
      BY <1>1, <1>5, <3>3
    <3>5. Times \subseteq Nat
      BY CoordinatorAssumption DEF CoordinatorAssumption, Times
    <3>6. /\ ReadyAt(t) \in Nat /\ now \in Nat /\ time \in Nat
          /\ workflow.arrival[t] \in Nat /\ \A p \in Tasks : completionTime[p] \in Nat
      BY <1>1, <3>2, <3>5, Clock
    <3>7. workflow.arrival[t] <= time
      BY <3>1, <3>2, <3>6
    <3>8. \A p \in Parents(t) : completionTime[p] <= time
      BY <3>1, <3>2, <3>4, <3>6
    <3>9. QED
      BY <1>2, <1>3, <1>4, <2>1, <3>4, <3>7, <3>8
  <2>2. CASE s # t
    <3>1. state[s] \in OwnResult /\ Started(s)
      BY <1>2, <1>7, <2>2 DEF OwnResult, Started
    <3>2. /\ workflow.arrival[s] <= completionTime[s]
          /\ \A p \in Parents(s) : completionTime[p] <= completionTime[s]
      BY <1>7, <3>1 DEF Timed, CausalTimes, OwnResult, Failed
    <3>3. \A p \in Parents(s) : completionTime'[p] = completionTime[p]
      BY <1>5, <3>1
    <3>4. QED
      BY <1>2, <1>3, <1>4, <2>2, <3>2, <3>3
  <2>3. QED
    BY <2>1, <2>2
<1>8. CausalTimes'
  BY <1>7 DEF CausalTimes, OwnResult, Failed
<1>9. QED
  BY <1>6, <1>8 DEF Timed

LEMMA TimedStep ==
  ASSUME LoopShape, SafetyInv, LoopInv, NoMissedCompletion, Timed, [Next]_vars
  PROVE  Timed'
<1>0. Owned /\ Booked /\ now \in Nat
  BY Clock DEF LoopInv
<1> DEFINE Kept == /\ UNCHANGED <<workflow, state, completionTime>>
                   /\ now <= now' /\ now' \in Nat
<1>1. ASSUME Kept, \A t \in Held' : t \in Held \/ (t \in Tasks /\ ReadyAt(t) <= now)
      PROVE  Timed'
  BY <1>1, HeldTasks, TimedKept
<1>2. ASSUME NEW r \in active,
             ProcessSuccess(r) \/ ProcessBadOutputs(r) \/ ProcessFailure(r)
      PROVE  Timed'
  <2>1. /\ active' = active \ {r} /\ UNCHANGED <<now, plan, current>>
        /\ r.task \in InFlight /\ r.finish \in Times
    BY <1>2 DEF ProcessSuccess, ProcessBadOutputs, ProcessFailure,
                LoopShape, VarsShape, ActiveShape, InFlight
  <2>2. InFlight' = InFlight \ {r.task} /\ Planned' = Planned
    BY <1>0, <2>1 DEF InFlight, Booked, Planned
  <2>3. CASE /\ UNCHANGED pendingRetries
             /\ \E result \in FailureStates \cup {"SUCCEEDED"} : Settle(r.task, result, r.finish)
    <3>1. Held' \subseteq Held \ {r.task}
      BY <1>0, <2>1, <2>2, <2>3 DEF Held, Owned
    <3>2. VirtualTime => now <= r.finish
      BY DEF NoMissedCompletion
    <3>3. QED
      BY <1>0, <2>1, <2>3, <3>1, <3>2, TimedSettle
  <2>4. CASE /\ UNCHANGED <<workflow, state, completionTime>>
             /\ pendingRetries' \subseteq pendingRetries \cup {r.task}
    <3>1. Held' \subseteq Held
      BY <2>1, <2>2, <2>4 DEF Held
    <3>2. QED
      BY <1>0, <1>1, <2>1, <2>4, <3>1
  <2>5. QED
    BY <1>2, <2>3, <2>4
       DEF ProcessSuccess, ProcessBadOutputs, ProcessFailure, FailureStates, taskVars
<1>3. ASSUME PlanRetry \/ PlanArrived \/ PlanRaises PROVE Timed'
  <2>1. UNCHANGED <<workflow, state, completionTime, now, active, current>>
        /\ pendingRetries' \subseteq pendingRetries
    BY <1>3 DEF PlanRetry, PlanArrived, PlanRaises, taskVars
  <2>2. \A a \in plan' : a \in plan \/ a[1] \in pendingRetries \/ a[1] \in Arrived
    <3>1. CASE PlanRetry
      <4>1. Min(pendingRetries) \in pendingRetries
        BY <3>1, MinOfSet, CoordinatorAssumption
           DEF PlanRetry, RetryDue, LoopShape, VarsShape, CoordinatorAssumption
      <4>2. QED
        BY <3>1, <4>1 DEF PlanRetry
    <3>2. CASE PlanArrived
      BY <3>2 DEF PlanArrived, Commitments
    <3>3. CASE PlanRaises
      BY <3>3 DEF PlanRaises
    <3>4. QED
      BY <1>3, <3>1, <3>2, <3>3
  <2>3. \A t \in Planned' : t \in Planned \cup pendingRetries \cup Arrived
    BY <2>1, <2>2 DEF Planned
  <2>4. InFlight' = InFlight
    BY <2>1 DEF InFlight
  <2>5. \A t \in Held' : t \in Held \/ t \in Arrived
    BY <2>1, <2>3, <2>4 DEF Held
  <2>6. \A t \in Arrived : t \in Tasks /\ ReadyAt(t) <= now
    BY DEF Arrived, Ready
  <2>7. QED
    BY <1>0, <1>1, <2>1, <2>5, <2>6
<1>4. ASSUME NEW a \in plan, BeginDispatch(a) PROVE Timed'
  <2>1. /\ phase = "running" /\ current = {} /\ plan' = plan \ {a} /\ current' = {a}
        /\ UNCHANGED <<workflow, active, pendingRetries, completionTime, now>>
    BY <1>4 DEF BeginDispatch, MarkRunning, taskVars
  <2>2. \A t \in Tasks : state'[t] \in OwnResult => state[t] = state'[t]
    BY <1>4 DEF BeginDispatch, MarkRunning, taskVars, OwnResult, FailureStates,
                LoopShape, TaskTypeOK
  <2>3. plan' \cup current' = plan \cup current
    BY <2>1
  <2>4. Held' = Held
    BY <2>1, <2>3 DEF Held, InFlight, Planned
  <2>5. QED
    BY <1>0, <2>1, <2>2, <2>4, HeldTasks, TimedKept
<1>5. ASSUME NEW a \in current,
             \/ DropAssignment(a) \/ DispatchAccepted(a)
             \/ DispatchRejected(a) \/ DispatchRaises(a)
      PROVE  Timed'
  <2>1. /\ current' = {} /\ UNCHANGED <<now, plan>>
        /\ a[1] \in Dispatching /\ a[1] \in Planned /\ current = {a}
    BY <1>0, <1>5 DEF DropAssignment, DispatchAccepted, DispatchRejected, DispatchRaises,
                Dispatching, Planned, Owned
  <2>2. \A b \in plan : b[1] # a[1]
    <3>1. a \notin plan /\ \A b \in plan : b \in plan \cup current /\ a \in plan \cup current
      BY <1>0 DEF Owned
    <3>2. QED
      BY <1>0, <3>1 DEF Owned
  <2>3. Planned' = Planned \ {a[1]}
    BY <2>1, <2>2 DEF Planned
  <2>4. CASE /\ UNCHANGED <<active, pendingRetries>>
             /\ \E time \in Times : now <= time /\ Settle(a[1], "DROPPED", time)
    <3>1. InFlight' = InFlight
      BY <2>4 DEF InFlight
    <3>2. Held' \subseteq Held \ {a[1]}
      BY <1>0, <2>1, <2>3, <2>4, <3>1 DEF Held, Owned
    <3>3. QED
      BY <1>0, <2>1, <2>4, <3>2, TimedSettle DEF FailureStates
  <2>5. CASE /\ UNCHANGED <<workflow, state, completionTime>>
             /\ pendingRetries' \subseteq pendingRetries \cup {a[1]}
             /\ InFlight' \subseteq InFlight \cup {a[1]}
    <3>1. Held' \subseteq Held
      BY <2>1, <2>3, <2>5 DEF Held
    <3>2. QED
      BY <1>0, <1>1, <2>1, <2>5, <3>1
  <2>6. CASE DropAssignment(a)
    <3>1. \E time \in Times : now <= time /\ Settle(a[1], "DROPPED", time)
      BY <2>6, DropTime
    <3>2. QED
      BY <2>4, <2>6, <3>1 DEF DropAssignment
  <2>7. CASE DispatchAccepted(a)
    <3>1. PICK finish : active' = active \cup {NewAttempt(a, finish)}
      BY <2>7, AcceptedAttempt
    <3>2. NewAttempt(a, finish).task = a[1]
      BY DEF NewAttempt
    <3>3. InFlight' \subseteq InFlight \cup {a[1]}
      BY <3>1, <3>2 DEF InFlight
    <3>4. QED
      BY <2>5, <2>7, <3>3 DEF DispatchAccepted, taskVars
  <2>8. CASE DispatchRejected(a) \/ DispatchRaises(a)
    <3>1. UNCHANGED active
      BY <2>8 DEF DispatchRejected, DispatchRaises
    <3>2. InFlight' = InFlight
      BY <3>1 DEF InFlight
    <3>a. now \in Times
      BY <1>0 DEF LoopShape, VarsShape
    <3>b. now <= now
      BY <1>0
    <3>3. now \in Times /\ now <= now
      BY <3>a, <3>b
    <3>4. QED
      BY <2>4, <2>5, <2>8, <3>1, <3>2, <3>3 DEF DispatchRejected, DispatchRaises, taskVars
  <2>9. QED
    BY <1>5, <2>6, <2>7, <2>8
<1>6. ASSUME NEW r \in active, Deliver(r) \/ DeliverError(r) \/ CancelAttempt(r)
      PROVE  Timed'
  <2>1. PICK result : active' = (active \ {r}) \cup {[r EXCEPT !.result = result]}
    BY <1>6 DEF Deliver, DeliverError, CancelAttempt
  <2>2. [r EXCEPT !.result = result].task = r.task
    BY DEF LoopShape, VarsShape, ActiveShape
  <2>3. InFlight' = InFlight
    BY <2>1, <2>2 DEF InFlight
  <2>4. UNCHANGED <<workflow, state, completionTime, now, plan, current, pendingRetries>>
    BY <1>6 DEF Deliver, DeliverError, CancelAttempt, taskVars
  <2>5. Held' = Held
    BY <2>3, <2>4 DEF Held, Planned
  <2>6. QED
    BY <1>0, <1>1, <2>4, <2>5
<1>7. CASE HarvestRaises \/ Interrupted \/ Finish \/ Reraise \/ Advance \/ UNCHANGED vars
  <2>1. UNCHANGED <<workflow, state, completionTime, plan, current, pendingRetries, active>>
    BY <1>7 DEF HarvestRaises, Interrupted, Finish, Reraise, Advance, vars, taskVars, loopVars
  <2>2. Held' = Held
    BY <2>1 DEF Held, Planned, InFlight
  <2>3. CASE Advance
    <3>1. now <= now'
      BY <1>0, <2>3, AdvanceClock
    <3>2. now' \in Times
      BY <2>3, AdvanceShape DEF VarsShape
    <3>3. now' \in Nat
      BY <3>2, CoordinatorAssumption DEF Times, CoordinatorAssumption
    <3>4. QED
      BY <1>1, <2>1, <2>2, <3>1, <3>3
  <2>4. CASE UNCHANGED now
    BY <1>0, <1>1, <2>1, <2>2, <2>4
  <2>5. QED
    BY <1>7, <2>3, <2>4 DEF HarvestRaises, Interrupted, Finish, Reraise, vars, loopVars
<1>8. QED
  BY <1>2, <1>3, <1>4, <1>5, <1>6, <1>7 DEF Next, LoopStep, RuntimeStep

\* Under virtual time no task ends before it arrives or before its parents end,
\* however its executions and retries are planned.
THEOREM CausalTimesHolds == Spec => []CausalTimes
<1>1. Init => Timed
  <2> SUFFICES ASSUME Init PROVE Timed
    OBVIOUS
  <2>1. Held = {}
    BY DEF Init, Held, InFlight, Planned
  <2>2. \A t \in Tasks : state[t] \in {"READY", "BLOCKED"}
    BY DEF Init, TaskInit
  <2>3. QED
    BY <2>1, <2>2 DEF Timed, CausalTimes, Failed, FailureStates
<1>2. LoopShape /\ SafetyInv /\ LoopInv /\ NoMissedCompletion /\ Timed /\ [Next]_vars => Timed'
  BY TimedStep
<1>3. Timed => CausalTimes
  BY DEF Timed
<1>4. QED
  BY ShapeCorrect, TaskManagerSafe, LoopInvariant, NoMissedCompletionHolds,
     <1>1, <1>2, <1>3, PTL DEF Spec
============================================================================
