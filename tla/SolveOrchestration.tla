------------------------- MODULE SolveOrchestration -------------------------
(***************************************************************************)
(* One scheduling epoch after the other: plan_scheduling_epoch and         *)
(* _solve_validated (src/mars/scheduler.py) with the trace they keep in an *)
(* OptimizerSolveState (src/mars/optimizers/state.py).                     *)
(*                                                                         *)
(* An epoch asks an optimizer, under a formulation or none, for a plan and *)
(* validates what comes back.  If that fails it asks the fallback          *)
(* optimizer, first under the same formulation, then under the fallback's  *)
(* own default.  All these invocations share one deadline.  An optimizer   *)
(* is a plug-in: it may raise, take any time, and return any plan.         *)
(*                                                                         *)
(* The clock of an epoch counts from the moment its deadline is computed.  *)
(* Of a plan only what the checks look at is kept: whose it says it is,    *)
(* and whether validate_plan and the formulation's domain check find it    *)
(* sound for the problem.                                                  *)
(***************************************************************************)
EXTENDS Integers, Sequences

CONSTANTS
  Problems,      \* the problems the epochs build
  OtherProblem,  \* a problem a plan may name although no epoch builds it
  Optimizers,    \* optimizers, told apart by id, version and configuration
  Id,            \* optimizer_id of an optimizer; versions of one optimizer share it
  Formulations,  \* the registered formulations
  Supports,      \* the formulations an optimizer supports, {} for a plain one
  Default,       \* default_formulation(_id) of an optimizer, or NoFormulation
  Stateful,      \* optimizers that implement the stateful API of their kind
  Keys,          \* the objective keys a plug-in reports: "finite", "infinite"
  Budget,        \* solve_budget_ms
  MaxClock,      \* bound on the clock of an epoch
  MaxEpochs,     \* bound on the number of epochs
  NoFormulation, \* no formulation
  NoOptimizer    \* no fallback optimizer

ASSUME SolveAssumption ==
  /\ Supports \in [Optimizers -> SUBSET Formulations]
  /\ Default \in [Optimizers -> Formulations \cup {NoFormulation}]
  /\ DOMAIN Id = Optimizers /\ Stateful \subseteq Optimizers
  /\ NoFormulation \notin Formulations /\ NoOptimizer \notin Optimizers
  /\ Keys \subseteq {"finite", "infinite"}
  /\ Budget \in Nat \ {0} /\ MaxClock \in Nat /\ MaxEpochs \in Nat

VARIABLES
  clock,      \* perf_counter() since the deadline of the epoch was computed
  pc,         \* where plan_scheduling_epoch is
  epoch,      \* its number, problem, optimizer, formulation and fallback
  repairing,  \* whether it is in the loop over fallback candidates
  candidates, \* the rest of fallback_candidates
  stack,      \* the optimizer and formulation of the current invocation
  started,    \* solve_started of the current invocation
  answer,     \* the plan the optimizer returned and when
  returned,   \* the plan the epoch returned, with its invocation
  solves,     \* the trace by solve id: context and phases of every invocation
  latest,     \* _latest_context: the newest invocation of every key
  lost        \* history: the invocations whose plan the trace did not accept

vars == <<clock, pc, epoch, repairing, candidates, stack, started, answer,
          returned, solves, latest, lost>>

AnyFormulation == Formulations \cup {NoFormulation}

\* What a plan says of itself, and whether the checks find it sound.  The key
\* it reports is not among them: validate_plan replaces it by its own.
Plan == [problem: Problems \cup {OtherProblem}, by: {Id[o] : o \in Optimizers},
         under: AnyFormulation, key: Keys, sound: BOOLEAN]

\* The final phases of an invocation, and all that terminal_entries lists.
Final == {"failed", "rejected", "validated", "fallback"}

---------------------------------------------------------------------------
(* Resolution of formulations. *)

\* _resolve_formulation: the formulation asked for or else the default, if the
\* optimizer implements it; nothing when it raises.
Resolve(o, f) ==
  LET selected == IF f = NoFormulation THEN Default[o] ELSE f
  IN IF selected = NoFormulation \/ selected \in Supports[o] THEN <<selected>> ELSE <<>>

\* The same optimizer id, version and configuration.
SameContract(o, p) == o = p

\* The rejected formulation under the fallback, if that is another optimizer.
Preserved ==
  IF epoch.formulation # NoFormulation /\ ~SameContract(epoch.fallback, epoch.optimizer)
  THEN Resolve(epoch.fallback, epoch.formulation) ELSE <<>>

\* Bug: the fallback's default is tried although it is the rejected stack.
FallbackCandidates_KeepsDefault ==
  LET default == Resolve(epoch.fallback, NoFormulation)
  IN Preserved \o IF default = Preserved THEN <<>> ELSE default

\* fallback_candidates: the preserved formulation, then the fallback's default
\* unless that is the rejected stack or the preserved one.
FallbackCandidates ==
  LET default == Resolve(epoch.fallback, NoFormulation)
      rejectedStack ==
        SameContract(epoch.fallback, epoch.optimizer) /\ default = <<epoch.formulation>>
  IN Preserved \o IF rejectedStack \/ default = Preserved THEN <<>> ELSE default

---------------------------------------------------------------------------
(* The trace. *)

\* The key of _latest_context: a solve request names the optimizer object and
\* its formulation, an unformulated solve only the optimizer id.
TraceKey(p, s) ==
  IF s.formulation = NoFormulation THEN <<p, Id[s.optimizer]>>
                                   ELSE <<p, s.optimizer, s.formulation>>

TraceKeys == {TraceKey(p, s) : p \in Problems,
                s \in [optimizer: Optimizers, formulation: AnyFormulation]}

\* latest_context for the current problem and stack.
LatestContext == latest[TraceKey(epoch.problem, stack)]

Record(s, phases) == solves' = [solves EXCEPT ![s].phases = @ \o phases]

Newest(phases) == phases[Len(phases)]

\* A plan whose objective key a SolveTraceEntry accepts.
Recordable(plan) == plan.key = "finite"

\* The entry raises a ValueError instead, and nothing is recorded.
Unrecorded == UNCHANGED solves /\ lost' = lost \cup {Len(solves)}

---------------------------------------------------------------------------

\* All epochs of one solve state are those of one workflow: the coordinator plans
\* them with one optimizer, formulation and fallback (coordinator.py, plan_tasks).
\* A formulation that does not resolve raises before anything has begun.
Init ==
  /\ clock = 0 /\ started = 0
  /\ pc = "idle"
  /\ \E p \in Problems, o \in Optimizers, f \in AnyFormulation,
        b \in Optimizers \cup {NoOptimizer} :
       /\ Resolve(o, f) # <<>>
       /\ epoch = [no |-> 0, problem |-> p, optimizer |-> o,
                   formulation |-> Resolve(o, f)[1], fallback |-> b]
  /\ repairing = FALSE
  /\ candidates = <<>>
  /\ stack = [optimizer |-> epoch.optimizer, formulation |-> epoch.formulation]
  /\ answer = <<>>
  /\ returned = <<>>
  /\ solves = <<>>
  /\ latest = [k \in TraceKeys |-> 0]
  /\ lost = {}

\* The time passes while an optimizer, a compilation or a check works.
Tick ==
  /\ pc # "idle"
  /\ clock < MaxClock
  /\ clock' = clock + 1
  /\ UNCHANGED <<pc, epoch, repairing, candidates, stack, started, answer,
                 returned, solves, latest, lost>>

\* plan_scheduling_epoch up to the first solve.
StartEpoch(p) ==
  /\ pc = "idle"
  /\ epoch.no < MaxEpochs
  /\ epoch' = [epoch EXCEPT !.no = @ + 1, !.problem = p]
  /\ stack' = [optimizer |-> epoch.optimizer, formulation |-> epoch.formulation]
  /\ clock' = 0
  /\ pc' = "invoke"
  /\ repairing' = FALSE
  /\ candidates' = <<>>
  /\ answer' = <<>> /\ returned' = <<>>
  /\ UNCHANGED <<started, solves, latest, lost>>

\* An exception leaves _solve_validated.
Fails == pc' = IF repairing THEN "next" ELSE "rejected"

Expired == clock >= Budget

\* _solve_validated refuses to begin after the shared deadline.
Refuse ==
  /\ pc = "invoke" /\ Expired
  /\ Fails
  /\ UNCHANGED <<clock, epoch, repairing, candidates, stack, started, answer,
                 returned, solves, latest, lost>>

\* OptimizerSolveState.begin: a new solve id, its context is the latest of its key.
Begin ==
  /\ pc = "invoke" /\ ~Expired
  /\ started' = clock
  /\ solves' = Append(solves, [epoch |-> epoch.no, problem |-> epoch.problem,
                               optimizer |-> stack.optimizer,
                               formulation |-> stack.formulation,
                               phases |-> <<"started">>])
  /\ latest' = [latest EXCEPT ![TraceKey(epoch.problem, stack)] = Len(solves) + 1]
  /\ pc' = IF stack.formulation = NoFormulation THEN "solve" ELSE "compile"
  /\ UNCHANGED <<clock, epoch, repairing, candidates, stack, answer, returned, lost>>

\* Bug: FAILED is recorded again after an optimizer that recorded it.
FailedAfter_Always(phases) == Record(LatestContext, phases \o <<"failed">>)

\* The except branch of _solve_validated, after phases the optimizer itself has
\* recorded: FAILED, unless that is what the newest entry of the context says.
FailedAfter(phases) ==
  LET failed == Newest(solves[LatestContext].phases \o phases) = "failed"
  IN Record(LatestContext, phases \o IF failed THEN <<>> ELSE <<"failed">>)

\* compile_solve_request, which raises also when it ends after the deadline.
Compile ==
  /\ pc = "compile"
  /\ \/ ~Expired /\ pc' = "solve" /\ UNCHANGED solves
     \/ Fails /\ FailedAfter(<<>>)
  /\ UNCHANGED <<clock, epoch, repairing, candidates, stack, started, answer,
                 returned, latest, lost>>

\* Phases a stateful optimizer records itself.
Own(phases) ==
  IF stack.optimizer \in Stateful THEN {<<>>, phases} ELSE {<<>>}

\* A stateful optimizer records an incumbent; one is enough to tell.
Incumbent ==
  /\ pc = "solve" /\ stack.optimizer \in Stateful
  /\ Newest(solves[Len(solves)].phases) = "started"
  /\ Record(Len(solves), <<"incumbent">>)
  /\ UNCHANGED <<clock, pc, epoch, repairing, candidates, stack, started, answer,
                 returned, latest, lost>>

OptimizerRaises ==
  /\ pc = "solve"
  /\ \E phases \in Own(<<"failed">>) : FailedAfter(phases)
  /\ Fails
  /\ UNCHANGED <<clock, epoch, repairing, candidates, stack, started, answer,
                 returned, latest, lost>>

\* Bug: every invocation has a budget of its own and no shared deadline.
Late_OwnBudget(status) == clock - started >= Budget /\ status # "time_limit"

\* A plan came too late: after the shared deadline, or, unless it says that it
\* was stopped by the limit, after a budget of its own.
Late(status) ==
  \/ Expired
  \/ clock - started >= Budget /\ status # "time_limit"

AnswersLate(status) ==
  /\ pc = "solve" /\ Late(status)
  /\ \E phases \in Own(<<"completed">>) : FailedAfter(phases)
  /\ Fails
  /\ UNCHANGED <<clock, epoch, repairing, candidates, stack, started, answer,
                 returned, latest, lost>>

\* An answer in time.  Of an optimizer without state the scheduler records that
\* it completed, which raises if the trace does not accept the plan.
Answers(plan, status) ==
  /\ pc = "solve" /\ ~Late(status)
  /\ \/ /\ stack.optimizer \in Stateful
        /\ \E phases \in Own(<<"completed">>) : Record(Len(solves), phases)
        /\ UNCHANGED lost
        /\ pc' = "audit" /\ answer' = <<[plan |-> plan, at |-> clock]>>
     \/ /\ stack.optimizer \notin Stateful /\ Recordable(plan)
        /\ Record(Len(solves), <<"completed">>)
        /\ UNCHANGED lost
        /\ pc' = "audit" /\ answer' = <<[plan |-> plan, at |-> clock]>>
     \/ /\ stack.optimizer \notin Stateful /\ ~Recordable(plan)
        /\ Unrecorded
        /\ Fails /\ UNCHANGED answer
  /\ UNCHANGED <<clock, epoch, repairing, candidates, stack, started, returned, latest>>

---------------------------------------------------------------------------
(* Validation. *)

\* The identity and provenance checks, the domain check of the formulation
\* and validate_plan.
Acceptable(plan) ==
  /\ plan.by = Id[stack.optimizer]
  /\ plan.under = stack.formulation
  /\ plan.problem = epoch.problem
  /\ plan.sound

\* The rejected plan is recorded, and the exception raised; an entry the trace
\* does not accept raises instead of being recorded.
Reject ==
  /\ pc = "audit"
  /\ ~Acceptable(answer[1].plan)
  /\ IF Recordable(answer[1].plan)
     THEN Record(Len(solves), <<"rejected">>) /\ UNCHANGED lost
     ELSE Unrecorded
  /\ Fails
  /\ answer' = <<>>
  /\ UNCHANGED <<clock, epoch, repairing, candidates, stack, started, returned, latest>>

\* The validated plan is recorded and returned; that of a fallback is recorded
\* once more, at the latest context of the fallback.
Accept ==
  /\ pc = "audit"
  /\ Acceptable(answer[1].plan)
  /\ solves' = LET validated == [solves EXCEPT ![Len(solves)].phases = Append(@, "validated")]
               IN IF repairing
                  THEN [validated EXCEPT ![LatestContext].phases = Append(@, "fallback")]
                  ELSE validated
  /\ returned' = <<[plan |-> answer[1].plan, at |-> answer[1].at, solve |-> Len(solves)]>>
  /\ answer' = <<>>
  /\ pc' = "idle"
  /\ UNCHANGED <<clock, epoch, repairing, candidates, stack, started, latest, lost>>

---------------------------------------------------------------------------
(* The fallback. *)

\* No fallback, or one with nothing else to try: the exception goes on.
GiveUp ==
  /\ pc = "rejected"
  /\ \/ epoch.fallback = NoOptimizer
     \/ SameContract(epoch.fallback, epoch.optimizer) /\ epoch.formulation = NoFormulation
  /\ pc' = "idle"
  /\ UNCHANGED <<clock, epoch, repairing, candidates, stack, started, answer,
                 returned, solves, latest, lost>>

FallBack ==
  /\ pc = "rejected"
  /\ epoch.fallback # NoOptimizer
  /\ ~ (SameContract(epoch.fallback, epoch.optimizer) /\ epoch.formulation = NoFormulation)
  /\ repairing' = TRUE
  /\ candidates' = FallbackCandidates
  /\ pc' = "next"
  /\ UNCHANGED <<clock, epoch, stack, started, answer, returned, solves, latest, lost>>

\* The loop over the candidates: it ends without a plan when none is left or
\* the deadline has passed.
NextCandidate ==
  /\ pc = "next"
  /\ IF candidates = <<>> \/ Expired
     THEN pc' = "idle" /\ UNCHANGED <<stack, candidates>>
     ELSE /\ stack' = [optimizer |-> epoch.fallback, formulation |-> Head(candidates)]
          /\ candidates' = Tail(candidates)
          /\ pc' = "invoke"
  /\ UNCHANGED <<clock, epoch, repairing, started, answer, returned, solves, latest, lost>>

---------------------------------------------------------------------------

Next ==
  \/ Tick
  \/ \E p \in Problems : StartEpoch(p)
  \/ Refuse \/ Begin \/ Compile
  \/ Incumbent \/ OptimizerRaises
  \/ \E status \in {"feasible", "time_limit"} :
       AnswersLate(status) \/ \E plan \in Plan : Answers(plan, status)
  \/ Reject \/ Accept
  \/ GiveUp \/ FallBack \/ NextCandidate

Spec == Init /\ [][Next]_vars

---------------------------------------------------------------------------
(* Properties. *)

Phases == {"started", "incumbent", "completed"} \cup Final

\* An invocation has begun and plan_scheduling_epoch has not left it.
Running(s) == s = Len(solves) /\ pc \in {"compile", "solve", "audit"}

\* The types of the variables, for the calls that plan_scheduling_epoch makes:
\* the context that a key names is an invocation with that key.
SolveTypeOK ==
  /\ clock \in 0..MaxClock /\ started \in 0..MaxClock
  /\ pc \in {"idle", "invoke", "compile", "solve", "audit", "rejected", "next"}
  /\ epoch \in [no: 0..MaxEpochs, problem: Problems, optimizer: Optimizers,
                formulation: AnyFormulation, fallback: Optimizers \cup {NoOptimizer}]
  /\ repairing \in BOOLEAN
  /\ candidates \in Seq(AnyFormulation)
  /\ stack \in [optimizer: Optimizers, formulation: AnyFormulation]
  /\ answer \in Seq([plan: Plan, at: 0..MaxClock])
  /\ pc = "audit" => answer # <<>>
  /\ returned \in Seq([plan: Plan, at: 0..MaxClock, solve: Nat])
  /\ solves \in Seq([epoch: 0..MaxEpochs, problem: Problems, optimizer: Optimizers,
                     formulation: AnyFormulation, phases: Seq(Phases)])
  /\ latest \in [TraceKeys -> 0..Len(solves)]
  /\ lost \subseteq 1..Len(solves)

\* README, "Invalid plug-in plans are rejected": whatever the optimizers return,
\* the plan an epoch returns was found sound for the problem of this epoch,
\* carries the identity of the stack that solved it, was returned before the
\* deadline all attempts share, and the newest invocation of the trace, of that
\* stack and problem, ends with its acceptance.
ReturnedIsValidated ==
  \A i \in DOMAIN returned :
    LET r == returned[i]
        s == solves[r.solve]
    IN /\ r.solve = Len(solves)
       /\ r.at < Budget
       /\ r.plan.sound /\ r.plan.problem = epoch.problem
       /\ r.plan.by = Id[s.optimizer] /\ r.plan.under = s.formulation
       /\ s.problem = epoch.problem /\ s.epoch = epoch.no
       /\ IF s.optimizer = epoch.optimizer /\ s.formulation = epoch.formulation
          THEN Newest(s.phases) = "validated"
          ELSE Newest(s.phases) = "fallback" /\ s.optimizer = epoch.fallback

\* Every invocation that was left has exactly one outcome, at its end: FAILED,
\* REJECTED, VALIDATED, or VALIDATED and FALLBACK; a running one has none yet,
\* and only one whose plan the trace could not take has none at all.  Entries
\* of one invocation never land on another, though optimizers, formulations
\* and problems come again.
OutcomesOnce ==
  \A s \in DOMAIN solves :
    LET ps      == solves[s].phases
        outcome == {i \in DOMAIN ps : ps[i] \in Final}
    IN /\ Running(s) \/ s \in lost => outcome = {}
       /\ ~Running(s) /\ s \notin lost =>
            \/ outcome = {Len(ps)} /\ ps[Len(ps)] # "fallback"
            \/ outcome = {Len(ps) - 1, Len(ps)} /\ ps[Len(ps)] = "fallback"
                                              /\ ps[Len(ps) - 1] = "validated"

\* Within an epoch no optimizer is asked twice under the same formulation, so a
\* stack that was rejected is not solved again (test_formulation_contract.py,
\* test_fallback_does_not_repeat_the_rejected_optimizer_stack).
NoStackTwice ==
  \A s, t \in DOMAIN solves :
    s # t /\ solves[s].epoch = solves[t].epoch /\ solves[s].optimizer = solves[t].optimizer
    => solves[s].formulation # solves[t].formulation

\* README, "Every solver is traced through the common started/completed/failed/
\* validated/rejected/fallback lifecycle": every invocation that was left has an
\* outcome.
EveryInvocationEnds ==
  \A s \in DOMAIN solves :
    Running(s) \/ \E i \in DOMAIN solves[s].phases : solves[s].phases[i] \in Final

=============================================================================
