---------------------- MODULE SolveOrchestrationProofs ----------------------
(***************************************************************************)
(* Theorems about SolveOrchestration, for all sets of problems, optimizers *)
(* and formulations, whatever an optimizer supports and answers, and for   *)
(* all bounds.                                                             *)
(***************************************************************************)
EXTENDS SolveOrchestration, TLAPS

---------------------------------------------------------------------------
(* The inductive invariant. *)

\* The stack the epoch asks first.
Asked == [optimizer |-> epoch.optimizer, formulation |-> epoch.formulation]

\* plan_scheduling_epoch is within an invocation that has begun.
InSolve == pc \in {"compile", "solve", "audit"}

\* Where the epoch is: until something failed the stack is the one it asks, then
\* one of the fallback's, and never the rejected one again.
Control ==
  /\ pc = "rejected" => ~repairing
  /\ pc = "next" => repairing
  /\ ~repairing /\ pc # "idle" => stack = Asked /\ candidates = <<>>
  /\ repairing => epoch.fallback \in Optimizers
  /\ repairing /\ (InSolve \/ pc = "invoke") =>
       stack.optimizer = epoch.fallback /\ stack # Asked
  /\ pc = "audit" => answer # <<>> /\ answer[1].at < Budget

\* The current invocation is the newest one and the context that latest_context
\* finds for the stack.
Current ==
  InSolve => /\ Len(solves) \in DOMAIN solves /\ Len(solves) \notin lost
             /\ LatestContext = Len(solves)
             /\ solves[Len(solves)].epoch = epoch.no
             /\ solves[Len(solves)].problem = epoch.problem
             /\ solves[Len(solves)].optimizer = stack.optimizer
             /\ solves[Len(solves)].formulation = stack.formulation

\* No outcome yet, or one at the end.
Quiet(ps) == \A i \in DOMAIN ps : ps[i] \notin Final

Ended(ps) ==
  LET outcome == {i \in DOMAIN ps : ps[i] \in Final}
  IN \/ outcome = {Len(ps)} /\ ps[Len(ps)] # "fallback"
     \/ outcome = {Len(ps) - 1, Len(ps)} /\ ps[Len(ps)] = "fallback"
                                       /\ ps[Len(ps) - 1] = "validated"

Traced ==
  \A s \in DOMAIN solves :
    /\ Len(solves[s].phases) > 0
    /\ Running(s) \/ s \in lost => Quiet(solves[s].phases)
    /\ ~Running(s) /\ s \notin lost => Ended(solves[s].phases)

\* The invocations of the current epoch.
OfEpoch == {s \in DOMAIN solves : solves[s].epoch = epoch.no}

StackOf(s) == [optimizer |-> solves[s].optimizer, formulation |-> solves[s].formulation]

\* What the epoch may still ask has not been asked in it, and it will not ask
\* anything twice.
Fresh ==
  /\ \A s \in DOMAIN solves : solves[s].epoch <= epoch.no
  /\ pc = "invoke" => \A s \in OfEpoch : StackOf(s) # stack
  /\ ~repairing /\ pc # "idle" => \A s \in OfEpoch : StackOf(s) = Asked
  /\ \A i \in DOMAIN candidates :
       /\ \A s \in OfEpoch : StackOf(s) # [optimizer |-> epoch.fallback,
                                           formulation |-> candidates[i]]
       /\ [optimizer |-> epoch.fallback, formulation |-> candidates[i]] # Asked
       /\ InSolve \/ pc = "invoke" => candidates[i] # stack.formulation
       /\ \A j \in DOMAIN candidates : candidates[i] = candidates[j] => i = j

\* A plan has been returned at the end of an epoch only.
Returned == (returned # <<>> => pc = "idle") /\ ReturnedIsValidated

SolveInv ==
  SolveTypeOK /\ Control /\ Current /\ Traced /\ Fresh /\ NoStackTwice /\ Returned

---------------------------------------------------------------------------
(* Phases. *)

Invocation == [epoch: 0..MaxEpochs, problem: Problems, optimizer: Optimizers,
               formulation: AnyFormulation, phases: Seq(Phases)]

\* Another phase that is not final leaves an invocation without outcome.
LEMMA QuietExtended ==
  ASSUME NEW ps \in Seq(Phases), Quiet(ps), NEW x \in {"started", "incumbent", "completed"}
  PROVE  /\ ps \o <<x>> \in Seq(Phases) /\ Quiet(ps \o <<x>>)
         /\ Len(ps \o <<x>>) = Len(ps) + 1
<1>1. x \in Phases /\ x \notin Final
  BY DEF Phases, Final
<1>2. QED
  BY <1>1 DEF Quiet

\* The first final phase is the one outcome.
LEMMA EndedByFinal ==
  ASSUME NEW ps \in Seq(Phases), Quiet(ps), NEW x \in {"failed", "rejected", "validated"}
  PROVE  /\ ps \o <<x>> \in Seq(Phases) /\ Ended(ps \o <<x>>)
         /\ Len(ps \o <<x>>) = Len(ps) + 1
<1> DEFINE qs == ps \o <<x>>
<1>1. x \in Phases /\ x \in Final /\ x # "fallback"
  BY DEF Phases, Final
<1>2. /\ qs \in Seq(Phases) /\ Len(qs) = Len(ps) + 1 /\ qs[Len(qs)] = x
      /\ \A i \in DOMAIN ps : qs[i] = ps[i]
      /\ DOMAIN qs = DOMAIN ps \cup {Len(qs)}
  BY <1>1
<1> HIDE DEF qs
<1>3. {i \in DOMAIN qs : qs[i] \in Final} = {Len(qs)}
  BY <1>1, <1>2 DEF Quiet
<1>4. Ended(qs)
  BY <1>1, <1>2, <1>3 DEF Ended
<1>5. QED
  BY <1>2, <1>4 DEF qs

\* The plan of a fallback is accepted and marked.
LEMMA EndedByFallback ==
  ASSUME NEW ps \in Seq(Phases), Quiet(ps)
  PROVE  LET qs == Append(Append(ps, "validated"), "fallback")
         IN /\ qs \in Seq(Phases) /\ Ended(qs) /\ Len(qs) > 0 /\ Newest(qs) = "fallback"
<1> DEFINE qs == Append(Append(ps, "validated"), "fallback")
<1>1. {"validated", "fallback"} \subseteq Phases /\ {"validated", "fallback"} \subseteq Final
  BY DEF Phases, Final
<1>2. /\ qs \in Seq(Phases) /\ Len(qs) = Len(ps) + 2 /\ qs[Len(qs)] = "fallback"
      /\ qs[Len(qs) - 1] = "validated"
      /\ \A i \in DOMAIN ps : qs[i] = ps[i]
      /\ DOMAIN qs = DOMAIN ps \cup {Len(qs) - 1, Len(qs)}
  BY <1>1
<1> HIDE DEF qs
<1>3. {i \in DOMAIN qs : qs[i] \in Final} = {Len(qs) - 1, Len(qs)}
  BY <1>1, <1>2 DEF Quiet
<1>4. Ended(qs) /\ Len(qs) > 0 /\ Newest(qs) = "fallback"
  BY <1>2, <1>3 DEF Ended, Newest
<1>5. QED
  BY <1>2, <1>4 DEF qs

---------------------------------------------------------------------------
(* The trace. *)

\* Every invocation keeps what it was begun with.
Kept ==
  /\ Len(solves') = Len(solves) /\ DOMAIN solves' = DOMAIN solves
  /\ \A s \in DOMAIN solves :
       /\ solves'[s].epoch = solves[s].epoch /\ solves'[s].problem = solves[s].problem
       /\ solves'[s].optimizer = solves[s].optimizer
       /\ solves'[s].formulation = solves[s].formulation

\* An entry is added to one invocation and changes nothing else of the trace.
LEMMA PhasesWritten ==
  ASSUME solves \in Seq(Invocation), NEW s \in DOMAIN solves, NEW qs \in Seq(Phases),
         solves' = [solves EXCEPT ![s].phases = qs]
  PROVE  /\ solves' \in Seq(Invocation) /\ Kept /\ solves'[s].phases = qs
         /\ \A t \in DOMAIN solves : t # s => solves'[t] = solves[t]
<1>1. solves[s] \in Invocation
  OBVIOUS
<1> DEFINE e == [solves[s] EXCEPT !.phases = qs]
<1>2. /\ e \in Invocation /\ e.phases = qs /\ e.epoch = solves[s].epoch
      /\ e.problem = solves[s].problem /\ e.optimizer = solves[s].optimizer
      /\ e.formulation = solves[s].formulation
  BY <1>1 DEF Invocation
<1>3. solves' = [solves EXCEPT ![s] = e]
  OBVIOUS
<1> HIDE DEF e
<1>4. /\ solves' \in Seq(Invocation) /\ Len(solves') = Len(solves)
      /\ DOMAIN solves' = DOMAIN solves /\ solves'[s] = e
      /\ \A t \in DOMAIN solves : t # s => solves'[t] = solves[t]
  BY <1>2, <1>3
<1>5. QED
  BY <1>2, <1>4 DEF Kept

\* Within an invocation no stack is asked again.
LEMMA FreshKept ==
  ASSUME Fresh, NoStackTwice, Kept, UNCHANGED <<epoch, repairing, candidates, stack>>,
         InSolve, pc' # "invoke"
  PROVE  Fresh' /\ NoStackTwice'
<1>1. OfEpoch' = OfEpoch /\ \A s \in OfEpoch : StackOf(s)' = StackOf(s)
  BY DEF Kept, OfEpoch, StackOf
<1>2. Asked' = Asked
  BY DEF Asked
<1>3. \A s \in OfEpoch' : StackOf(s)' = StackOf(s) /\ s \in OfEpoch
  BY <1>1
<1>4. pc # "idle" /\ InSolve
  BY DEF InSolve
<1>5. Fresh'
  <2>1. \A s \in DOMAIN solves' : solves'[s].epoch <= epoch'.no
    BY DEF Fresh, Kept
  <2>2. ~repairing' /\ pc' # "idle" => \A s \in OfEpoch' : StackOf(s)' = Asked'
    BY <1>2, <1>3, <1>4 DEF Fresh
  <2>3. \A i \in DOMAIN candidates' :
       /\ \A s \in OfEpoch' : StackOf(s)' # [optimizer |-> epoch'.fallback,
                                             formulation |-> candidates'[i]]
       /\ [optimizer |-> epoch'.fallback, formulation |-> candidates'[i]] # Asked'
       /\ candidates'[i] # stack'.formulation
       /\ \A j \in DOMAIN candidates' : candidates'[i] = candidates'[j] => i = j
    BY <1>2, <1>3, <1>4 DEF Fresh
  <2> HIDE DEF OfEpoch, StackOf, Asked
  <2>4. QED
    BY <2>1, <2>2, <2>3 DEF Fresh
<1>6. NoStackTwice'
  BY DEF NoStackTwice, Kept
<1>7. QED
  BY <1>5, <1>6

LEMMA NothingReturned == ASSUME returned' = <<>> PROVE Returned'
BY DEF Returned, ReturnedIsValidated

\* While an epoch is under way no plan has been returned.
LEMMA NoneYet == ASSUME SolveInv, pc # "idle" PROVE returned = <<>>
BY DEF SolveInv, Returned



---------------------------------------------------------------------------
(* The actions. *)

\* What the current invocation looks like.
LEMMA CurrentInvocation ==
  ASSUME SolveInv, InSolve
  PROVE  /\ Len(solves) \in DOMAIN solves /\ Len(solves) \notin lost
         /\ LatestContext = Len(solves) /\ solves \in Seq(Invocation)
         /\ solves[Len(solves)].phases \in Seq(Phases)
         /\ Quiet(solves[Len(solves)].phases) /\ Len(solves[Len(solves)].phases) > 0
         /\ Newest(solves[Len(solves)].phases) \notin Final
<1>1. solves \in Seq(Invocation)
  BY DEF SolveInv, SolveTypeOK, Invocation
<1>2. Len(solves) \in DOMAIN solves /\ Len(solves) \notin lost /\ LatestContext = Len(solves)
  BY DEF SolveInv, Current
<1>3. solves[Len(solves)].phases \in Seq(Phases)
  <2>1. solves[Len(solves)] \in Invocation
    BY <1>1, <1>2
  <2>2. QED
    BY <2>1 DEF Invocation
<1>4. Quiet(solves[Len(solves)].phases) /\ Len(solves[Len(solves)].phases) > 0
  BY <1>2 DEF SolveInv, Traced, Running, InSolve
<1>5. Newest(solves[Len(solves)].phases) \notin Final
  BY <1>3, <1>4 DEF Newest, Quiet
<1>6. QED
  BY <1>1, <1>2, <1>3, <1>4, <1>5

\* An invocation is left with an outcome, or lost.
LEMMA LeftInvocation ==
  ASSUME SolveInv, InSolve, Fails, UNCHANGED <<clock, epoch, repairing, candidates, stack,
                                              started, returned, latest>>,
         answer' = answer \/ answer' = <<>>,
         \/ /\ lost' = lost
            /\ \E qs \in Seq(Phases) : /\ solves' = [solves EXCEPT ![Len(solves)].phases = qs]
                                       /\ Ended(qs) /\ Len(qs) > 0
         \/ lost' = lost \cup {Len(solves)} /\ solves' = solves
  PROVE  SolveInv'
<1>1. /\ Len(solves) \in DOMAIN solves /\ Len(solves) \notin lost
      /\ solves \in Seq(Invocation)
      /\ Quiet(solves[Len(solves)].phases) /\ Len(solves[Len(solves)].phases) > 0
  BY CurrentInvocation
<1>2. /\ pc' \in {"next", "rejected"} /\ (pc' = "next" <=> repairing)
      /\ ~InSolve' /\ pc # "idle"
  BY DEF Fails, InSolve, SolveInv, SolveTypeOK
<1> DEFINE Written ==
             /\ solves' \in Seq(Invocation) /\ Kept
             /\ \A t \in DOMAIN solves : t # Len(solves) => solves'[t] = solves[t]
             /\ \/ /\ lost' = lost
                   /\ Ended(solves'[Len(solves)].phases) /\ Len(solves'[Len(solves)].phases) > 0
                \/ lost' = lost \cup {Len(solves)} /\ solves' = solves
<1>3. Written
  <2>1. CASE lost' = lost \cup {Len(solves)} /\ solves' = solves
    BY <1>1, <2>1 DEF Kept
  <2>2. ASSUME NEW qs \in Seq(Phases), solves' = [solves EXCEPT ![Len(solves)].phases = qs],
               Ended(qs), Len(qs) > 0, lost' = lost
        PROVE  Written
    BY <1>1, <2>2, PhasesWritten
  <2>3. QED
    BY <2>1, <2>2
<1>4. SolveTypeOK'
  <2>1. Len(solves') = Len(solves) /\ DOMAIN solves' = 1 .. Len(solves)
    BY <1>1, <1>3 DEF Kept
  <2>2. lost' \subseteq 1 .. Len(solves')
    BY <1>1, <1>3, <2>1 DEF SolveInv, SolveTypeOK
  <2>3. answer' \in Seq([plan: Plan, at: 0..MaxClock])
    <3>1. answer \in Seq([plan: Plan, at: 0..MaxClock])
      BY DEF SolveInv, SolveTypeOK
    <3> DEFINE A == [plan: Plan, at: 0..MaxClock]
    <3> HIDE DEF A
    <3>2. <<>> \in Seq(A)
      OBVIOUS
    <3>3. QED
      BY <3>1, <3>2 DEF A
  <2>4. latest' \in [TraceKeys -> 0..Len(solves')]
    BY <2>1 DEF SolveInv, SolveTypeOK
  <2>5. QED
    BY <1>2, <1>3, <2>2, <2>3, <2>4 DEF SolveInv, SolveTypeOK, Invocation
<1>5. Control'
  BY <1>2 DEF SolveInv, Control, Asked
<1>6. Current'
  BY <1>2 DEF Current, InSolve
<1>7. Traced'
  <2> SUFFICES ASSUME NEW s \in DOMAIN solves'
               PROVE  /\ Len(solves'[s].phases) > 0
                      /\ s \in lost' => Quiet(solves'[s].phases)
                      /\ s \notin lost' => Ended(solves'[s].phases)
    BY <1>2 DEF Traced, Running, Quiet, Ended, InSolve
  <2>1. s \in DOMAIN solves
    BY <1>3 DEF Kept
  <2>2. CASE s = Len(solves)
    BY <1>1, <1>3, <2>2
  <2>3. CASE s # Len(solves)
    BY <1>3, <2>1, <2>3 DEF SolveInv, Traced, Running
  <2>4. QED
    BY <2>2, <2>3
<1>8. Fresh' /\ NoStackTwice'
  BY <1>2, <1>3, FreshKept DEF SolveInv
<1>9. Returned'
  BY <1>2, NoneYet, NothingReturned
<1>10. QED
  BY <1>4, <1>5, <1>6, <1>7, <1>8, <1>9 DEF SolveInv

\* FAILED is recorded once, also after an optimizer that recorded it.
LEMMA FailedAfterInv ==
  ASSUME SolveInv, InSolve, NEW phases \in {<<>>, <<"failed">>, <<"completed">>},
         FailedAfter(phases), Fails,
         UNCHANGED <<clock, epoch, repairing, candidates, stack, started, answer, returned,
                     latest, lost>>
  PROVE  SolveInv'
<1> DEFINE ps == solves[Len(solves)].phases
<1>1. /\ Len(solves) \in DOMAIN solves /\ LatestContext = Len(solves)
      /\ ps \in Seq(Phases) /\ Quiet(ps) /\ Len(ps) > 0 /\ Newest(ps) \notin Final
  BY CurrentInvocation
<1> DEFINE failed == Newest(ps \o phases) = "failed"
           added == phases \o IF failed THEN <<>> ELSE <<"failed">>
<1>2. solves' = [solves EXCEPT ![Len(solves)].phases = ps \o added]
  BY <1>1 DEF FailedAfter, Record
<1> HIDE DEF ps
<1>3. ps \o added \in Seq(Phases) /\ Ended(ps \o added) /\ Len(ps \o added) > 0
  <2>1. CASE phases = <<>>
    <3>1. ps \o phases = ps /\ ~failed
      BY <1>1, <2>1 DEF Final
    <3>2. ps \o added = ps \o <<"failed">>
      BY <1>1, <2>1, <3>1
    <3> HIDE DEF added
    <3>3. QED
      BY <1>1, <3>2, EndedByFinal
  <2>2. CASE phases = <<"failed">>
    <3>1. failed
      BY <1>1, <2>2 DEF Newest
    <3>2. ps \o added = ps \o <<"failed">>
      BY <1>1, <2>2, <3>1
    <3> HIDE DEF added
    <3>3. QED
      BY <1>1, <3>2, EndedByFinal
  <2>3. CASE phases = <<"completed">>
    <3>1. ~failed
      BY <1>1, <2>3 DEF Newest
    <3> DEFINE qs == ps \o <<"completed">>
    <3>2. ps \o added = qs \o <<"failed">>
      BY <1>1, <2>3, <3>1
    <3>3. qs \in Seq(Phases) /\ Quiet(qs) /\ Len(qs) \in Nat
      BY <1>1, QuietExtended
    <3> HIDE DEF added, qs
    <3>4. QED
      BY <3>2, <3>3, EndedByFinal
  <2>4. QED
    BY <2>1, <2>2, <2>3
<1> HIDE DEF added
<1>4. QED
  BY <1>2, <1>3, LeftInvocation

\* An invocation goes on, without outcome.
LEMMA InvocationGoesOn ==
  ASSUME SolveInv, InSolve, InSolve',
         UNCHANGED <<clock, epoch, repairing, candidates, stack, started, returned, latest, lost>>,
         answer' \in Seq([plan: Plan, at: 0..MaxClock]),
         pc' = "audit" => answer' # <<>> /\ answer'[1].at < Budget,
         NEW qs \in Seq(Phases), Quiet(qs), Len(qs) > 0,
         solves' = [solves EXCEPT ![Len(solves)].phases = qs]
  PROVE  SolveInv'
<1>1. /\ Len(solves) \in DOMAIN solves /\ Len(solves) \notin lost
      /\ LatestContext = Len(solves) /\ solves \in Seq(Invocation)
  BY CurrentInvocation
<1>2. /\ solves' \in Seq(Invocation) /\ Kept /\ solves'[Len(solves)].phases = qs
      /\ \A t \in DOMAIN solves : t # Len(solves) => solves'[t] = solves[t]
  BY <1>1, PhasesWritten
<1>3. Len(solves') = Len(solves) /\ DOMAIN solves' = DOMAIN solves
  BY <1>2 DEF Kept
<1>4. pc # "idle" /\ pc' \in {"compile", "solve", "audit"}
  BY DEF InSolve
<1>5. SolveTypeOK'
  <2>1. latest' \in [TraceKeys -> 0..Len(solves')] /\ lost' \subseteq 1..Len(solves')
    BY <1>3 DEF SolveInv, SolveTypeOK
  <2>2. QED
    BY <1>2, <1>4, <2>1 DEF SolveInv, SolveTypeOK, Invocation
<1>6. Control'
  BY <1>4 DEF SolveInv, Control, Asked, InSolve
<1>7. Current'
  BY <1>1, <1>2, <1>3 DEF SolveInv, Current, Kept, LatestContext, TraceKey
<1>8. Traced'
  <2> SUFFICES ASSUME NEW s \in DOMAIN solves'
               PROVE  /\ Len(solves'[s].phases) > 0
                      /\ s = Len(solves) \/ s \in lost => Quiet(solves'[s].phases)
                      /\ s # Len(solves) /\ s \notin lost => Ended(solves'[s].phases)
    BY <1>3, <1>4 DEF Traced, Running, Quiet, Ended
  <2>1. CASE s = Len(solves)
    BY <1>2, <2>1
  <2>2. CASE s # Len(solves)
    BY <1>2, <1>3, <2>2 DEF SolveInv, Traced, Running
  <2>3. QED
    BY <2>1, <2>2
<1>9. Fresh' /\ NoStackTwice'
  BY <1>2, <1>4, FreshKept DEF SolveInv
<1>10. Returned'
  BY <1>4, NoneYet, NothingReturned
<1>11. QED
  BY <1>5, <1>6, <1>7, <1>8, <1>9, <1>10 DEF SolveInv

LEMMA CompileInv == ASSUME SolveInv, Compile PROVE SolveInv'
<1>1. InSolve
  BY DEF Compile, InSolve
<1>2. CASE ~Expired /\ pc' = "solve" /\ UNCHANGED solves
  <2> DEFINE qs == solves[Len(solves)].phases
  <2>1. /\ qs \in Seq(Phases) /\ Quiet(qs) /\ Len(qs) > 0
        /\ solves \in Seq(Invocation) /\ Len(solves) \in DOMAIN solves
    BY <1>1, CurrentInvocation
  <2>2. solves' = [solves EXCEPT ![Len(solves)].phases = qs]
    <3>0. solves[Len(solves)] \in Invocation
      BY <2>1
    <3>1. [solves[Len(solves)] EXCEPT !.phases = qs] = solves[Len(solves)]
      BY <3>0 DEF Invocation
    <3>2. QED
      BY <1>2, <2>1, <3>1
  <2>3. InSolve' /\ answer' \in Seq([plan: Plan, at: 0..MaxClock])
    BY <1>2 DEF Compile, InSolve, SolveInv, SolveTypeOK
  <2> HIDE DEF qs
  <2>4. QED
    BY <1>1, <1>2, <2>1, <2>2, <2>3, InvocationGoesOn DEF Compile
<1>3. CASE Fails /\ FailedAfter(<<>>)
  BY <1>1, <1>3, FailedAfterInv DEF Compile
<1>4. QED
  BY <1>2, <1>3 DEF Compile

LEMMA IncumbentInv == ASSUME SolveInv, Incumbent PROVE SolveInv'
<1> DEFINE ps == solves[Len(solves)].phases
<1>1. InSolve /\ InSolve'
  BY DEF Incumbent, InSolve
<1>2. ps \in Seq(Phases) /\ Quiet(ps) /\ Len(ps) > 0
  BY <1>1, CurrentInvocation
<1> DEFINE qs == ps \o <<"incumbent">>
<1>3. solves' = [solves EXCEPT ![Len(solves)].phases = qs]
  BY DEF Incumbent, Record
<1>4. qs \in Seq(Phases) /\ Quiet(qs) /\ Len(qs) > 0
  <2> HIDE DEF ps
  <2>1. QED
    BY <1>2, QuietExtended
<1>5. answer' \in Seq([plan: Plan, at: 0..MaxClock]) /\ pc' # "audit"
  BY DEF Incumbent, SolveInv, SolveTypeOK
<1> HIDE DEF qs
<1>6. QED
  BY <1>1, <1>3, <1>4, <1>5, InvocationGoesOn DEF Incumbent

LEMMA OptimizerRaisesInv == ASSUME SolveInv, OptimizerRaises PROVE SolveInv'
<1>1. InSolve
  BY DEF OptimizerRaises, InSolve
<1>2. PICK phases \in {<<>>, <<"failed">>, <<"completed">>} : FailedAfter(phases)
  BY DEF OptimizerRaises, Own
<1>3. QED
  BY <1>1, <1>2, FailedAfterInv DEF OptimizerRaises

LEMMA AnswersLateInv ==
  ASSUME SolveInv, NEW status, AnswersLate(status) PROVE SolveInv'
<1>1. InSolve
  BY DEF AnswersLate, InSolve
<1>2. PICK phases \in {<<>>, <<"failed">>, <<"completed">>} : FailedAfter(phases)
  BY DEF AnswersLate, Own
<1>3. QED
  BY <1>1, <1>2, FailedAfterInv DEF AnswersLate

LEMMA AnswersInv ==
  ASSUME SolveInv, NEW plan \in Plan, NEW status, Answers(plan, status) PROVE SolveInv'
<1> DEFINE ps == solves[Len(solves)].phases
<1>1. InSolve
  BY DEF Answers, InSolve
<1>2. ps \in Seq(Phases) /\ Quiet(ps) /\ Len(ps) > 0
  BY <1>1, CurrentInvocation
<1>3. CASE Unrecorded /\ Fails /\ UNCHANGED answer
  BY <1>1, <1>3, LeftInvocation DEF Answers, Unrecorded
<1>4. ASSUME NEW phases \in {<<>>, <<"completed">>}, Record(Len(solves), phases), lost' = lost,
             pc' = "audit", answer' = <<[plan |-> plan, at |-> clock]>>
      PROVE  SolveInv'
  <2> DEFINE qs == ps \o phases
  <2>1. solves' = [solves EXCEPT ![Len(solves)].phases = qs]
    BY <1>4 DEF Record
  <2>2. qs \in Seq(Phases) /\ Quiet(qs) /\ Len(qs) > 0
    <3> HIDE DEF ps
    <3>1. CASE phases = <<>>
      <4>1. qs = ps
        BY <1>2, <3>1
      <4>2. QED
        BY <1>2, <4>1
    <3>2. CASE phases = <<"completed">>
      BY <1>2, <3>2, QuietExtended
    <3>3. QED
      BY <1>4, <3>1, <3>2
  <2>3. clock \in 0..MaxClock /\ clock < Budget
    BY SolveAssumption DEF Answers, Late, Expired, SolveInv, SolveTypeOK, SolveAssumption
  <2>4. /\ answer' \in Seq([plan: Plan, at: 0..MaxClock]) /\ answer' # <<>>
        /\ answer'[1].at < Budget
    <3> DEFINE A == [plan: Plan, at: 0..MaxClock]
               x == [plan |-> plan, at |-> clock]
    <3>1. x \in A /\ x.at < Budget
      BY <2>3
    <3> HIDE DEF A, x
    <3>2. <<x>> \in Seq(A) /\ <<x>> # <<>> /\ <<x>>[1] = x
      BY <3>1
    <3>3. QED
      BY <1>4, <3>1, <3>2 DEF A, x
  <2>5. InSolve'
    BY <1>4 DEF InSolve
  <2> HIDE DEF qs
  <2>6. QED
    BY <1>1, <1>4, <2>1, <2>2, <2>4, <2>5, InvocationGoesOn DEF Answers
<1>5. QED
  <2>1. CASE \E phases \in Own(<<"completed">>) : Record(Len(solves), phases)
    BY <1>3, <1>4, <2>1 DEF Answers, Own
  <2>2. CASE Record(Len(solves), <<"completed">>)
    BY <1>3, <1>4, <2>2 DEF Answers, Own
  <2>3. QED
    BY <1>3, <2>1, <2>2 DEF Answers

LEMMA RejectInv == ASSUME SolveInv, Reject PROVE SolveInv'
<1> DEFINE ps == solves[Len(solves)].phases
<1>1. InSolve
  BY DEF Reject, InSolve
<1>2. ps \in Seq(Phases) /\ Quiet(ps)
  BY <1>1, CurrentInvocation
<1>3. CASE Unrecorded
  BY <1>1, <1>3, LeftInvocation DEF Reject, Unrecorded
<1>4. CASE Record(Len(solves), <<"rejected">>) /\ UNCHANGED lost
  <2> DEFINE qs == ps \o <<"rejected">>
  <2>1. solves' = [solves EXCEPT ![Len(solves)].phases = qs]
    BY <1>4 DEF Record
  <2>2. qs \in Seq(Phases) /\ Ended(qs) /\ Len(qs) > 0
    <3> HIDE DEF ps
    <3>1. QED
      BY <1>2, EndedByFinal
  <2> HIDE DEF qs
  <2>3. QED
    BY <1>1, <1>4, <2>1, <2>2, LeftInvocation DEF Reject
<1>5. QED
  BY <1>3, <1>4 DEF Reject

\* The accepted plan of the current invocation.
LEMMA AcceptInv == ASSUME SolveInv, Accept PROVE SolveInv'
<1> DEFINE L == Len(solves)
           ps == solves[L].phases
           qs == IF repairing THEN Append(Append(ps, "validated"), "fallback")
                              ELSE ps \o <<"validated">>
<1>1. /\ L \in DOMAIN solves /\ L \notin lost /\ LatestContext = L
      /\ solves \in Seq(Invocation) /\ ps \in Seq(Phases) /\ Quiet(ps)
  BY CurrentInvocation DEF Accept, InSolve
<1>2. solves' = [solves EXCEPT ![L].phases = qs]
  <2>1. L \in DOMAIN solves /\ solves[L] \in Invocation
    BY <1>1
  <2>2. CASE repairing
    <3> DEFINE v == [solves EXCEPT ![L].phases = Append(@, "validated")]
    <3>1. solves' = [v EXCEPT ![L].phases = Append(@, "fallback")]
      BY <1>1, <2>2 DEF Accept
    <3>2. v[L] = [solves[L] EXCEPT !.phases = Append(ps, "validated")]
      BY <2>1
    <3>3. v[L].phases = Append(ps, "validated")
      BY <2>1, <3>2 DEF Invocation
    <3>4. solves' = [v EXCEPT ![L] = [v[L] EXCEPT !.phases = qs]]
      BY <2>2, <3>1, <3>3
    <3>5. [v[L] EXCEPT !.phases = qs] = [solves[L] EXCEPT !.phases = qs]
      BY <2>1, <3>2 DEF Invocation
    <3>6. QED
      BY <3>4, <3>5
  <2>3. CASE ~repairing
    <3>1. Append(ps, "validated") = ps \o <<"validated">>
      BY <1>1
    <3>2. QED
      BY <2>3, <3>1 DEF Accept
  <2>4. QED
    BY <2>2, <2>3
<1>3. /\ qs \in Seq(Phases) /\ Ended(qs) /\ Len(qs) > 0
      /\ Newest(qs) = IF repairing THEN "fallback" ELSE "validated"
  <2> HIDE DEF ps
  <2>1. CASE repairing
    BY <1>1, <2>1, EndedByFallback
  <2>2. CASE ~repairing
    <3>1. qs \in Seq(Phases) /\ Ended(qs) /\ Len(qs) = Len(ps) + 1
      BY <1>1, <2>2, EndedByFinal
    <3>2. Newest(qs) = "validated"
      BY <1>1, <2>2, <3>1 DEF Newest
    <3>3. QED
      BY <1>1, <2>2, <3>1, <3>2
  <2>3. QED
    BY <2>1, <2>2
<1> HIDE DEF qs
<1>4. /\ solves' \in Seq(Invocation) /\ Kept /\ solves'[L].phases = qs
      /\ \A t \in DOMAIN solves : t # L => solves'[t] = solves[t]
  BY <1>1, <1>2, <1>3, PhasesWritten
<1>5. Len(solves') = L /\ DOMAIN solves' = DOMAIN solves
  BY <1>4 DEF Kept
<1>6. InSolve /\ pc' = "idle" /\ answer' = <<>>
  BY DEF Accept, InSolve
<1>7. answer[1] \in [plan: Plan, at: 0..MaxClock] /\ answer[1].at < Budget
  <2>1. answer \in Seq([plan: Plan, at: 0..MaxClock]) /\ answer # <<>> /\ answer[1].at < Budget
    BY DEF Accept, SolveInv, SolveTypeOK, Control
  <2> DEFINE A == [plan: Plan, at: 0..MaxClock]
  <2> HIDE DEF A
  <2>2. answer \in Seq(A) /\ answer # <<>> => answer[1] \in A
    OBVIOUS
  <2>3. QED
    BY <2>1, <2>2 DEF A
<1> DEFINE r == [plan |-> answer[1].plan, at |-> answer[1].at, solve |-> L]
<1>8. r \in [plan: Plan, at: 0..MaxClock, solve: Nat] /\ returned' = <<r>>
  BY <1>1, <1>7 DEF Accept
<1>9. /\ r.solve = L /\ r.at < Budget /\ r.plan.by = Id[stack.optimizer]
      /\ r.plan.under = stack.formulation /\ r.plan.problem = epoch.problem /\ r.plan.sound
  BY <1>7 DEF Accept, Acceptable
<1> HIDE DEF r
<1>10. SolveTypeOK'
  <2>1. latest' \in [TraceKeys -> 0..Len(solves')] /\ lost' \subseteq 1..Len(solves')
    BY <1>5 DEF Accept, SolveInv, SolveTypeOK
  <2>2. returned' \in Seq([plan: Plan, at: 0..MaxClock, solve: Nat])
    <3> DEFINE A == [plan: Plan, at: 0..MaxClock, solve: Nat]
    <3>1. r \in A
      BY <1>8
    <3> HIDE DEF A
    <3>2. <<r>> \in Seq(A)
      BY <3>1
    <3>3. QED
      BY <1>8, <3>2 DEF A
  <2>3. answer' \in Seq([plan: Plan, at: 0..MaxClock])
    <3> DEFINE A == [plan: Plan, at: 0..MaxClock]
    <3> HIDE DEF A
    <3>1. <<>> \in Seq(A)
      OBVIOUS
    <3>2. QED
      BY <1>6, <3>1 DEF A
  <2>4. QED
    BY <1>4, <1>6, <2>1, <2>2, <2>3 DEF Accept, SolveInv, SolveTypeOK, Invocation
<1>11. Control' /\ Current'
  BY <1>6 DEF Accept, SolveInv, Control, Current, InSolve
<1>12. Traced'
  <2> SUFFICES ASSUME NEW s \in DOMAIN solves'
               PROVE  /\ Len(solves'[s].phases) > 0
                      /\ s \in lost => Quiet(solves'[s].phases)
                      /\ s \notin lost => Ended(solves'[s].phases)
    BY <1>6 DEF Accept, Traced, Running, Quiet, Ended
  <2>1. CASE s = L
    BY <1>1, <1>3, <1>4, <2>1
  <2>2. CASE s # L
    BY <1>4, <1>5, <2>2 DEF SolveInv, Traced, Running
  <2>3. QED
    BY <2>1, <2>2
<1>13. Fresh' /\ NoStackTwice'
  BY <1>4, <1>6, FreshKept DEF Accept, SolveInv
<1>14. Returned'
  <2>1. /\ solves'[L].epoch = epoch.no /\ solves'[L].problem = epoch.problem
        /\ solves'[L].optimizer = stack.optimizer
        /\ solves'[L].formulation = stack.formulation
    BY <1>1, <1>4, <1>6 DEF SolveInv, Current, Kept
  <2>2. Newest(solves'[L].phases) = IF repairing THEN "fallback" ELSE "validated"
    BY <1>3, <1>4
  <2>3. IF stack.optimizer = epoch.optimizer /\ stack.formulation = epoch.formulation
        THEN ~repairing ELSE repairing /\ stack.optimizer = epoch.fallback
    BY <1>6 DEF Accept, SolveInv, SolveTypeOK, Control, Asked
  <2>4. DOMAIN returned' = {1} /\ returned'[1] = r /\ epoch' = epoch
    BY <1>8 DEF Accept
  <2>5. QED
    BY <1>5, <1>6, <1>9, <2>1, <2>2, <2>3, <2>4 DEF Returned, ReturnedIsValidated
<1>15. QED
  BY <1>10, <1>11, <1>12, <1>13, <1>14 DEF SolveInv

\* Steps between invocations leave the trace alone.
LEMMA TraceUntouched ==
  ASSUME Traced, NoStackTwice, InSolve' <=> InSolve, UNCHANGED <<solves, lost>>
  PROVE  Traced' /\ NoStackTwice'
BY DEF Traced, NoStackTwice, Running, InSolve, Quiet, Ended

LEMMA TickInv == ASSUME SolveInv, Tick PROVE SolveInv'
<1>1. /\ UNCHANGED <<pc, epoch, repairing, candidates, stack, started, answer,
                     returned, solves, latest, lost>>
      /\ pc # "idle" /\ clock' = clock + 1 /\ clock < MaxClock
  BY DEF Tick
<1>2. SolveTypeOK'
  <2>1. clock' \in 0..MaxClock
    BY <1>1, SolveAssumption DEF SolveInv, SolveTypeOK, SolveAssumption
  <2>2. QED
    BY <1>1, <2>1 DEF SolveInv, SolveTypeOK
<1>3. Control' /\ Current'
  BY <1>1 DEF SolveInv, Control, Current, InSolve, Asked, LatestContext, TraceKey
<1>4. Traced' /\ NoStackTwice'
  BY <1>1, TraceUntouched DEF SolveInv, InSolve
<1>5. Fresh'
  BY <1>1 DEF SolveInv, Fresh, OfEpoch, StackOf, InSolve, Asked
<1>6. Returned'
  BY <1>1, NoneYet, NothingReturned
<1>7. QED
  BY <1>2, <1>3, <1>4, <1>5, <1>6 DEF SolveInv

LEMMA StartEpochInv == ASSUME SolveInv, NEW p \in Problems, StartEpoch(p) PROVE SolveInv'
<1>1. SolveTypeOK /\ Fresh /\ Traced /\ NoStackTwice
  BY DEF SolveInv
<1>2. /\ epoch' = [epoch EXCEPT !.no = @ + 1, !.problem = p]
      /\ stack' = [optimizer |-> epoch.optimizer, formulation |-> epoch.formulation]
      /\ clock' = 0 /\ pc' = "invoke" /\ repairing' = FALSE
      /\ candidates' = <<>> /\ answer' = <<>> /\ returned' = <<>>
      /\ UNCHANGED <<started, solves, latest, lost>>
      /\ pc = "idle" /\ epoch.no < MaxEpochs
  BY DEF StartEpoch
<1>3. /\ epoch.no \in Nat /\ epoch'.no = epoch.no + 1 /\ epoch'.problem = p
      /\ epoch'.optimizer = epoch.optimizer /\ epoch'.formulation = epoch.formulation
      /\ epoch' \in [no: 0..MaxEpochs, problem: Problems, optimizer: Optimizers,
                     formulation: AnyFormulation, fallback: Optimizers \cup {NoOptimizer}]
  <2>1. epoch \in [no: 0..MaxEpochs, problem: Problems, optimizer: Optimizers,
                   formulation: AnyFormulation, fallback: Optimizers \cup {NoOptimizer}]
    BY <1>1 DEF SolveTypeOK
  <2>2. epoch.no \in Nat /\ epoch.no + 1 \in 0..MaxEpochs
    BY <1>2, <2>1, SolveAssumption DEF SolveAssumption
  <2>3. QED
    BY <1>2, <2>1, <2>2
<1>4. SolveTypeOK'
  <2>1. stack' \in [optimizer: Optimizers, formulation: AnyFormulation]
    BY <1>1, <1>2 DEF SolveTypeOK
  <2>2. clock' \in 0..MaxClock
    BY <1>2, SolveAssumption DEF SolveAssumption
  <2>3. /\ candidates' \in Seq(AnyFormulation)
        /\ answer' \in Seq([plan: Plan, at: 0..MaxClock])
        /\ returned' \in Seq([plan: Plan, at: 0..MaxClock, solve: Nat])
    <3>1. \A S : <<>> \in Seq(S)
      OBVIOUS
    <3>2. QED
      BY <1>2, <3>1
  <2>4. QED
    BY <1>1, <1>2, <1>3, <2>1, <2>2, <2>3 DEF SolveTypeOK
<1>5. Control' /\ Current'
  BY <1>2, <1>3 DEF Control, Current, InSolve, Asked
<1>6. Traced' /\ NoStackTwice'
  BY <1>1, <1>2, TraceUntouched DEF InSolve
<1>7. Fresh'
  <2>1. \A s \in DOMAIN solves' : solves'[s].epoch <= epoch.no /\ solves'[s].epoch \in Nat
    <3>1. solves \in Seq(Invocation)
      BY <1>1 DEF SolveTypeOK, Invocation
    <3>2. \A s \in DOMAIN solves : solves[s] \in Invocation
      BY <3>1
    <3>3. \A s \in DOMAIN solves : solves[s].epoch \in Nat
      BY <3>2, SolveAssumption DEF Invocation, SolveAssumption
    <3>4. QED
      BY <1>1, <1>2, <3>3 DEF Fresh
  <2>2. OfEpoch' = {}
    BY <1>3, <2>1 DEF OfEpoch
  <2>3. \A s \in DOMAIN solves' : solves'[s].epoch <= epoch'.no
    BY <1>3, <2>1
  <2>4. DOMAIN candidates' = {}
    BY <1>2
  <2> HIDE DEF OfEpoch
  <2>5. QED
    BY <2>2, <2>3, <2>4 DEF Fresh
<1>8. Returned'
  BY <1>2, NothingReturned
<1>9. QED
  BY <1>4, <1>5, <1>6, <1>7, <1>8 DEF SolveInv

LEMMA BeginInv == ASSUME SolveInv, Begin PROVE SolveInv'
<1> DEFINE x == [epoch |-> epoch.no, problem |-> epoch.problem, optimizer |-> stack.optimizer,
                 formulation |-> stack.formulation, phases |-> <<"started">>]
<1>0. PICK L \in Nat : L = Len(solves) + 1
  <2>1. Len(solves) + 1 \in Nat
    BY DEF SolveInv, SolveTypeOK
  <2>2. QED
    BY <2>1
<1>1. SolveTypeOK /\ Control /\ Fresh /\ Traced /\ NoStackTwice
  BY DEF SolveInv
<1>2. /\ solves \in Seq(Invocation)
      /\ stack \in [optimizer: Optimizers, formulation: AnyFormulation]
      /\ epoch.problem \in Problems /\ epoch.no \in 0..MaxEpochs
      /\ latest \in [TraceKeys -> 0..Len(solves)]
  BY <1>1 DEF SolveTypeOK, Invocation
<1>3. x \in Invocation
  <2>1. <<"started">> \in Seq(Phases)
    <3>1. "started" \in Phases
      BY DEF Phases
    <3>2. QED
      BY <3>1
  <2>2. QED
    BY <1>2, <2>1 DEF Invocation
<1>4. /\ started' = clock /\ solves' = Append(solves, x)
      /\ latest' = [latest EXCEPT ![TraceKey(epoch.problem, stack)] = L]
      /\ UNCHANGED <<clock, epoch, repairing, candidates, stack, answer, returned, lost>>
      /\ InSolve' /\ pc = "invoke" /\ ~InSolve /\ pc' \in {"solve", "compile"}
  BY <1>0 DEF Begin, InSolve
<1>5. /\ x.epoch = epoch.no /\ x.problem = epoch.problem /\ x.optimizer = stack.optimizer
      /\ x.formulation = stack.formulation /\ x.phases = <<"started">>
  OBVIOUS
<1> HIDE DEF x
<1>6. /\ solves' \in Seq(Invocation) /\ Len(solves') = L /\ L \in Nat
      /\ DOMAIN solves' = DOMAIN solves \cup {L} /\ L \notin DOMAIN solves
      /\ solves'[L] = x /\ \A s \in DOMAIN solves : solves'[s] = solves[s]
  BY <1>0, <1>2, <1>3, <1>4
<1>7. latest' \in [TraceKeys -> 0..Len(solves')] /\ latest'[TraceKey(epoch.problem, stack)] = L
  <2>1. TraceKey(epoch.problem, stack) \in TraceKeys
    BY <1>2 DEF TraceKeys
  <2>2. QED
    BY <1>2, <1>4, <1>6, <2>1
<1>8. SolveTypeOK'
  <2>1. lost' \subseteq 1..Len(solves')
    BY <1>1, <1>4, <1>6 DEF SolveTypeOK
  <2>2. QED
    BY <1>1, <1>4, <1>6, <1>7, <2>1 DEF SolveTypeOK, Invocation
<1>9. Control'
  BY <1>1, <1>4 DEF Control, InSolve, Asked
<1>10. L \notin lost
  BY <1>0, <1>1, <1>2 DEF SolveTypeOK
<1>11. Current'
  <2>1. LatestContext' = L
    BY <1>4, <1>7 DEF LatestContext, TraceKey
  <2>2. QED
    BY <1>4, <1>5, <1>6, <1>10, <2>1 DEF Current
<1>12. Traced'
  <2> SUFFICES ASSUME NEW s \in DOMAIN solves'
               PROVE  /\ Len(solves'[s].phases) > 0
                      /\ s = L \/ s \in lost => Quiet(solves'[s].phases)
                      /\ s # L /\ s \notin lost => Ended(solves'[s].phases)
    BY <1>4, <1>6 DEF Traced, Running, Quiet, Ended, InSolve
  <2>1. CASE s = L
    <3>1. solves'[s].phases = <<"started">> /\ L \notin lost
      BY <1>5, <1>6, <1>10, <2>1
    <3>2. Len(<<"started">>) = 1 /\ Quiet(<<"started">>)
      BY DEF Quiet, Final
    <3>3. QED
      BY <2>1, <3>1, <3>2
  <2>2. CASE s # L
    BY <1>1, <1>4, <1>6, <2>2 DEF Traced, Running, InSolve
  <2>3. QED
    BY <2>1, <2>2
<1>13. StackOf(L)' = stack
  BY <1>2, <1>5, <1>6 DEF StackOf
<1>14. \A s \in DOMAIN solves : StackOf(s)' = StackOf(s) /\ solves'[s].epoch = solves[s].epoch
  BY <1>6 DEF StackOf
<1>15. OfEpoch' = OfEpoch \cup {L}
  BY <1>4, <1>5, <1>6 DEF OfEpoch
<1>16. OfEpoch \subseteq DOMAIN solves
  BY DEF OfEpoch
<1>17. Fresh'
  <2>1. \A s \in DOMAIN solves' : solves'[s].epoch <= epoch'.no
    BY <1>1, <1>2, <1>4, <1>5, <1>6, SolveAssumption DEF Fresh, SolveAssumption
  <2>2. ~repairing' => \A s \in OfEpoch' : StackOf(s)' = Asked'
    BY <1>1, <1>4, <1>13, <1>14, <1>15, <1>16 DEF Fresh, Control, Asked
  <2>3. ASSUME NEW i \in DOMAIN candidates'
        PROVE  /\ \A s \in OfEpoch' : StackOf(s)' # [optimizer |-> epoch'.fallback,
                                                     formulation |-> candidates'[i]]
               /\ [optimizer |-> epoch'.fallback, formulation |-> candidates'[i]] # Asked'
               /\ candidates'[i] # stack'.formulation
               /\ \A j \in DOMAIN candidates' : candidates'[i] = candidates'[j] => i = j
    <3>1. /\ \A s \in OfEpoch : StackOf(s) # [optimizer |-> epoch.fallback,
                                              formulation |-> candidates[i]]
          /\ [optimizer |-> epoch.fallback, formulation |-> candidates[i]] # Asked
          /\ candidates[i] # stack.formulation
          /\ \A j \in DOMAIN candidates : candidates[i] = candidates[j] => i = j
      BY <1>1, <1>4 DEF Fresh
    <3>2. stack # [optimizer |-> epoch.fallback, formulation |-> candidates[i]]
      BY <3>1
    <3>3. Asked' = Asked
      BY <1>4 DEF Asked
    <3> HIDE DEF OfEpoch, StackOf, Asked
    <3>4. QED
      BY <1>4, <1>13, <1>14, <1>15, <1>16, <3>1, <3>2, <3>3
  <2> HIDE DEF OfEpoch, StackOf, Asked
  <2>4. QED
    BY <1>4, <2>1, <2>2, <2>3 DEF Fresh
<1>18. NoStackTwice'
  <2>1. \A s \in OfEpoch : ~(solves[s].optimizer = stack.optimizer
                             /\ solves[s].formulation = stack.formulation)
    BY <1>1, <1>2, <1>4 DEF Fresh, StackOf
  <2>2. \A s \in DOMAIN solves : solves[s].epoch = epoch.no => s \in OfEpoch
    BY DEF OfEpoch
  <2>3. QED
    BY <1>1, <1>5, <1>6, <2>1, <2>2 DEF NoStackTwice
<1>19. Returned'
  BY <1>4, NoneYet, NothingReturned
<1>20. QED
  BY <1>8, <1>9, <1>11, <1>12, <1>17, <1>18, <1>19 DEF SolveInv

LEMMA RefuseInv == ASSUME SolveInv, Refuse PROVE SolveInv'
<1>1. /\ pc = "invoke" /\ pc' = IF repairing THEN "next" ELSE "rejected"
      /\ UNCHANGED <<clock, epoch, repairing, candidates, stack, started, answer,
                     returned, solves, latest, lost>>
  BY DEF Refuse, Fails
<1>2. SolveTypeOK'
  BY <1>1 DEF SolveInv, SolveTypeOK
<1>3. Control' /\ Current'
  BY <1>1 DEF SolveInv, SolveTypeOK, Control, Current, InSolve, Asked
<1>4. Traced' /\ NoStackTwice'
  BY <1>1, TraceUntouched DEF SolveInv, InSolve
<1>5. Fresh'
  BY <1>1 DEF SolveInv, Fresh, OfEpoch, StackOf, InSolve, Asked
<1>6. Returned'
  BY <1>1, NoneYet, NothingReturned
<1>7. QED
  BY <1>2, <1>3, <1>4, <1>5, <1>6 DEF SolveInv

LEMMA GiveUpInv == ASSUME SolveInv, GiveUp PROVE SolveInv'
<1>1. /\ pc = "rejected" /\ pc' = "idle"
      /\ UNCHANGED <<clock, epoch, repairing, candidates, stack, started, answer,
                     returned, solves, latest, lost>>
  BY DEF GiveUp
<1>2. SolveTypeOK'
  BY <1>1 DEF SolveInv, SolveTypeOK
<1>3. Control' /\ Current'
  BY <1>1 DEF SolveInv, SolveTypeOK, Control, Current, InSolve, Asked
<1>4. Traced' /\ NoStackTwice'
  BY <1>1, TraceUntouched DEF SolveInv, InSolve
<1>5. Fresh'
  BY <1>1 DEF SolveInv, Fresh, OfEpoch, StackOf, InSolve, Asked
<1>6. Returned'
  BY <1>1, NoneYet, NothingReturned
<1>7. QED
  BY <1>2, <1>3, <1>4, <1>5, <1>6 DEF SolveInv

\* A resolved formulation is one at most, and one there is.
LEMMA ResolvedIsFormulation ==
  ASSUME NEW o \in Optimizers, NEW f \in AnyFormulation
  PROVE  \/ Resolve(o, f) = <<>>
         \/ \E x \in AnyFormulation : /\ Resolve(o, f) = <<x>>
                                      /\ f # NoFormulation => x = f
BY SolveAssumption DEF Resolve, AnyFormulation, SolveAssumption

\* The fallback is asked under formulations of which no two are the same and
\* none makes it the rejected stack.
LEMMA CandidatesDiffer ==
  ASSUME SolveTypeOK, epoch.fallback \in Optimizers
  PROVE  /\ FallbackCandidates \in Seq(AnyFormulation)
         /\ \A i \in DOMAIN FallbackCandidates :
              /\ [optimizer |-> epoch.fallback, formulation |-> FallbackCandidates[i]] # Asked
              /\ \A j \in DOMAIN FallbackCandidates :
                   FallbackCandidates[i] = FallbackCandidates[j] => i = j
<1> DEFINE Good(c) ==
             /\ c \in Seq(AnyFormulation)
             /\ \A i \in DOMAIN c :
                  /\ [optimizer |-> epoch.fallback, formulation |-> c[i]] # Asked
                  /\ \A j \in DOMAIN c : c[i] = c[j] => i = j
           default == Resolve(epoch.fallback, NoFormulation)
<1>1. epoch.formulation \in AnyFormulation /\ NoFormulation \in AnyFormulation
  BY DEF SolveTypeOK, AnyFormulation
<1>2. default = <<>> \/ \E d \in AnyFormulation : default = <<d>>
  BY <1>1, ResolvedIsFormulation
<1>3. \/ Preserved = <<>>
      \/ Preserved = <<epoch.formulation>> /\ epoch.fallback # epoch.optimizer
  BY <1>1, ResolvedIsFormulation DEF Preserved, SameContract
<1>4. FallbackCandidates = Preserved \o
        IF \/ epoch.fallback = epoch.optimizer /\ default = <<epoch.formulation>>
           \/ default = Preserved
        THEN <<>> ELSE default
  BY DEF FallbackCandidates, SameContract
<1> HIDE DEF default
<1>5. Good(<<>>)
  OBVIOUS
<1>6. ASSUME NEW d \in AnyFormulation,
             epoch.fallback # epoch.optimizer \/ d # epoch.formulation
      PROVE  Good(<<d>>)
  BY <1>6 DEF Asked
<1>7. ASSUME NEW d \in AnyFormulation, NEW f \in AnyFormulation, d # f,
             epoch.fallback # epoch.optimizer
      PROVE  Good(<<f>> \o <<d>>)
  <2> DEFINE c == <<f>> \o <<d>>
  <2>1. c \in Seq(AnyFormulation) /\ DOMAIN c = {1, 2} /\ c[1] = f /\ c[2] = d
    OBVIOUS
  <2> HIDE DEF c
  <2>2. Good(c)
    BY <1>7, <2>1 DEF Asked
  <2>3. QED
    BY <2>2 DEF c
<1>8. Good(FallbackCandidates)
  <2> HIDE DEF Good
  <2>1. CASE Preserved = <<>>
    <3>1. CASE default = <<>>
      <4>1. FallbackCandidates = <<>>
        BY <1>4, <2>1, <3>1
      <4>2. QED
        BY <1>5, <4>1
    <3>2. ASSUME NEW d \in AnyFormulation, default = <<d>> PROVE Good(FallbackCandidates)
      <4>1. CASE epoch.fallback = epoch.optimizer /\ d = epoch.formulation
        <5>1. FallbackCandidates = <<>>
          BY <1>4, <2>1, <3>2, <4>1
        <5>2. QED
          BY <1>5, <5>1
      <4>2. CASE ~(epoch.fallback = epoch.optimizer /\ d = epoch.formulation)
        <5>1. FallbackCandidates = <<d>>
          BY <1>4, <2>1, <3>2, <4>2
        <5>2. QED
          BY <1>6, <4>2, <5>1
      <4>3. QED
        BY <4>1, <4>2
    <3>3. QED
      BY <1>2, <3>1, <3>2
  <2>2. CASE Preserved = <<epoch.formulation>> /\ epoch.fallback # epoch.optimizer
    <3>1. CASE default = <<>>
      <4>1. FallbackCandidates = <<epoch.formulation>>
        BY <1>4, <2>2, <3>1
      <4>2. QED
        BY <1>1, <1>6, <2>2, <4>1
    <3>2. ASSUME NEW d \in AnyFormulation, default = <<d>> PROVE Good(FallbackCandidates)
      <4>1. CASE d = epoch.formulation
        <5>1. FallbackCandidates = <<epoch.formulation>>
          BY <1>4, <2>2, <3>2, <4>1
        <5>2. QED
          BY <1>1, <1>6, <2>2, <5>1
      <4>2. CASE d # epoch.formulation
        <5>1. FallbackCandidates = <<epoch.formulation>> \o <<d>>
          <6>1. <<d>>[1] # <<epoch.formulation>>[1]
            BY <4>2
          <6>2. default # Preserved
            BY <2>2, <3>2, <6>1
          <6>3. QED
            BY <1>4, <2>2, <3>2, <6>2
        <5>2. QED
          BY <1>1, <1>7, <2>2, <4>2, <5>1
      <4>3. QED
        BY <4>1, <4>2
    <3>3. QED
      BY <1>2, <3>1, <3>2
  <2>3. QED
    BY <1>3, <2>1, <2>2
<1>9. QED
  BY <1>8

LEMMA FallBackInv == ASSUME SolveInv, FallBack PROVE SolveInv'
<1>1. SolveTypeOK /\ Control /\ Fresh
  BY DEF SolveInv
<1>2. /\ pc = "rejected" /\ pc' = "next" /\ repairing' = TRUE
      /\ candidates' = FallbackCandidates /\ epoch.fallback # NoOptimizer
      /\ UNCHANGED <<clock, epoch, stack, started, answer, returned, solves, latest, lost>>
  BY DEF FallBack
<1>3. epoch.fallback \in Optimizers
  BY <1>1, <1>2 DEF SolveTypeOK
<1> DEFINE c == FallbackCandidates
<1>4. /\ c \in Seq(AnyFormulation)
      /\ \A i \in DOMAIN c :
           /\ [optimizer |-> epoch.fallback, formulation |-> c[i]] # Asked
           /\ \A j \in DOMAIN c : c[i] = c[j] => i = j
  BY <1>1, <1>3, CandidatesDiffer
<1> HIDE DEF c
<1>5. SolveTypeOK'
  BY <1>1, <1>2, <1>4 DEF SolveTypeOK, c
<1>6. Control' /\ Current'
  BY <1>2, <1>3 DEF Control, Current, InSolve
<1>7. Traced' /\ NoStackTwice'
  BY <1>2, TraceUntouched DEF SolveInv, InSolve
<1>8. Fresh'
  <2>1. \A s \in OfEpoch : StackOf(s) = Asked
    BY <1>1, <1>2 DEF Fresh, Control
  <2>2. OfEpoch' = OfEpoch /\ Asked' = Asked /\ \A s \in OfEpoch : StackOf(s)' = StackOf(s)
    BY <1>2 DEF OfEpoch, Asked, StackOf
  <2>3. candidates' = c /\ epoch' = epoch
    BY <1>2 DEF c
  <2>4. \A s \in DOMAIN solves' : solves'[s].epoch <= epoch'.no
    BY <1>1, <1>2 DEF Fresh
  <2>5. ~InSolve' /\ pc' # "invoke" /\ repairing'
    BY <1>2 DEF InSolve
  <2> HIDE DEF OfEpoch, Asked, StackOf, InSolve
  <2>6. QED
    BY <1>4, <2>1, <2>2, <2>3, <2>4, <2>5 DEF Fresh
<1>9. Returned'
  BY <1>2, NoneYet, NothingReturned
<1>10. QED
  BY <1>5, <1>6, <1>7, <1>8, <1>9 DEF SolveInv

LEMMA NextCandidateInv == ASSUME SolveInv, NextCandidate PROVE SolveInv'
<1>1. SolveTypeOK /\ Control /\ Fresh
  BY DEF SolveInv
<1>2. /\ pc = "next" /\ repairing
      /\ UNCHANGED <<clock, epoch, repairing, started, answer, returned, solves, latest, lost>>
  BY <1>1 DEF NextCandidate, Control
<1>3. Traced' /\ NoStackTwice' /\ Returned' /\ (~InSolve' => Current')
  <2>1. InSolve' <=> InSolve
    BY <1>2 DEF NextCandidate, InSolve
  <2>2. QED
    BY <1>2, <2>1, TraceUntouched, NoneYet, NothingReturned DEF SolveInv, Current
<1>4. CASE pc' = "idle" /\ UNCHANGED <<stack, candidates>>
  <2>1. SolveTypeOK'
    BY <1>1, <1>2, <1>4 DEF SolveTypeOK
  <2>2. Control' /\ ~InSolve'
    BY <1>1, <1>2, <1>4 DEF Control, InSolve
  <2>3. Fresh'
    BY <1>1, <1>2, <1>4 DEF Fresh, OfEpoch, StackOf, InSolve, Asked
  <2>4. QED
    BY <1>3, <2>1, <2>2, <2>3 DEF SolveInv
<1>5. CASE /\ candidates # <<>>
           /\ stack' = [optimizer |-> epoch.fallback, formulation |-> Head(candidates)]
           /\ candidates' = Tail(candidates) /\ pc' = "invoke"
  <2>1. candidates \in Seq(AnyFormulation) /\ epoch.fallback \in Optimizers
    BY <1>1, <1>2 DEF SolveTypeOK, Control
  <2>2. /\ Head(candidates) = candidates[1] /\ 1 \in DOMAIN candidates
        /\ candidates[1] \in AnyFormulation /\ candidates' \in Seq(AnyFormulation)
        /\ \A i \in DOMAIN candidates' :
             i + 1 \in DOMAIN candidates /\ candidates'[i] = candidates[i + 1] /\ i + 1 # 1
             /\ i \in Nat
    BY <1>5, <2>1
  <2>3. stack' \in [optimizer: Optimizers, formulation: AnyFormulation]
    BY <1>5, <2>1, <2>2
  <2>4. SolveTypeOK'
    BY <1>1, <1>2, <1>5, <2>2, <2>3 DEF SolveTypeOK
  <2>5. stack' # Asked
    BY <1>1, <1>5, <2>2 DEF Fresh
  <2>6. Control' /\ ~InSolve'
    BY <1>1, <1>2, <1>5, <2>5 DEF Control, InSolve, Asked
  <2>7. OfEpoch' = OfEpoch /\ Asked' = Asked /\ \A s \in OfEpoch : StackOf(s)' = StackOf(s)
    BY <1>2 DEF OfEpoch, Asked, StackOf
  <2>8. \A s \in OfEpoch : StackOf(s) # stack'
    BY <1>1, <1>5, <2>2 DEF Fresh
  <2>9. ASSUME NEW i \in DOMAIN candidates'
        PROVE  /\ \A s \in OfEpoch : StackOf(s) # [optimizer |-> epoch.fallback,
                                                   formulation |-> candidates'[i]]
               /\ [optimizer |-> epoch.fallback, formulation |-> candidates'[i]] # Asked
               /\ candidates'[i] # stack'.formulation
               /\ \A j \in DOMAIN candidates' : candidates'[i] = candidates'[j] => i = j
    <3>1. /\ i + 1 \in DOMAIN candidates /\ candidates'[i] = candidates[i + 1]
          /\ i + 1 # 1 /\ i \in Nat
      BY <2>2
    <3>2. /\ \A s \in OfEpoch : StackOf(s) # [optimizer |-> epoch.fallback,
                                              formulation |-> candidates[i + 1]]
          /\ [optimizer |-> epoch.fallback, formulation |-> candidates[i + 1]] # Asked
          /\ \A j \in DOMAIN candidates : candidates[i + 1] = candidates[j] => i + 1 = j
      BY <1>1, <3>1 DEF Fresh
    <3>3. stack'.formulation = candidates[1]
      BY <1>5, <2>2
    <3>4. candidates'[i] # stack'.formulation
      BY <2>2, <3>1, <3>2, <3>3
    <3>5. ASSUME NEW j \in DOMAIN candidates', candidates'[i] = candidates'[j] PROVE i = j
      BY <2>2, <3>1, <3>2, <3>5
    <3>6. QED
      BY <3>1, <3>2, <3>4, <3>5
  <2>10. \A s \in DOMAIN solves' : solves'[s].epoch <= epoch'.no
    BY <1>1, <1>2 DEF Fresh
  <2>11. Fresh'
    <3> HIDE DEF OfEpoch, Asked, StackOf, InSolve
    <3>1. QED
      BY <1>2, <1>5, <2>7, <2>8, <2>9, <2>10 DEF Fresh
  <2>12. QED
    BY <1>3, <2>4, <2>6, <2>11 DEF SolveInv
<1>6. QED
  BY <1>4, <1>5 DEF NextCandidate

LEMMA InitInv == ASSUME Init PROVE SolveInv
<1>1. /\ clock = 0 /\ started = 0 /\ pc = "idle" /\ repairing = FALSE /\ candidates = <<>>
      /\ stack = [optimizer |-> epoch.optimizer, formulation |-> epoch.formulation]
      /\ answer = <<>> /\ returned = <<>> /\ solves = <<>>
      /\ latest = [k \in TraceKeys |-> 0] /\ lost = {}
  BY DEF Init
<1>2. PICK p \in Problems, o \in Optimizers, f \in AnyFormulation,
           b \in Optimizers \cup {NoOptimizer} :
        /\ Resolve(o, f) # <<>>
        /\ epoch = [no |-> 0, problem |-> p, optimizer |-> o,
                    formulation |-> Resolve(o, f)[1], fallback |-> b]
  BY DEF Init
<1>3. Resolve(o, f)[1] \in AnyFormulation
  <2>1. PICK x \in AnyFormulation : Resolve(o, f) = <<x>>
    BY <1>2, ResolvedIsFormulation
  <2>2. QED
    BY <2>1
<1>4. epoch \in [no: 0..MaxEpochs, problem: Problems, optimizer: Optimizers,
                 formulation: AnyFormulation, fallback: Optimizers \cup {NoOptimizer}]
  BY <1>2, <1>3, SolveAssumption DEF SolveAssumption
<1>5. SolveTypeOK
  <2>1. \A S : <<>> \in Seq(S)
    OBVIOUS
  <2>2. latest \in [TraceKeys -> 0..Len(solves)]
    BY <1>1
  <2>3. stack \in [optimizer: Optimizers, formulation: AnyFormulation]
    BY <1>1, <1>4
  <2>4. clock \in 0..MaxClock
    BY <1>1, SolveAssumption DEF SolveAssumption
  <2>5. QED
    BY <1>1, <1>4, <2>1, <2>2, <2>3, <2>4 DEF SolveTypeOK
<1>6. Control /\ Current
  BY <1>1 DEF Control, Current, InSolve
<1>7. Traced /\ NoStackTwice /\ Returned
  BY <1>1 DEF Traced, NoStackTwice, Returned, ReturnedIsValidated
<1>8. Fresh
  BY <1>1 DEF Fresh, OfEpoch
<1>9. QED
  BY <1>5, <1>6, <1>7, <1>8 DEF SolveInv

LEMMA NextInv == SolveInv /\ [Next]_vars => SolveInv'
<1> SUFFICES ASSUME SolveInv, [Next]_vars PROVE SolveInv'
  OBVIOUS
<1>1. ASSUME NEW status, NEW plan \in Plan, Answers(plan, status) PROVE SolveInv'
  BY <1>1, AnswersInv
<1>2. ASSUME NEW status, AnswersLate(status) PROVE SolveInv'
  BY <1>2, AnswersLateInv
<1>3. CASE UNCHANGED vars
  <2>1. SolveTypeOK' /\ Control' /\ Current'
    BY <1>3 DEF vars, SolveInv, SolveTypeOK, Control, Current, InSolve, Asked, LatestContext,
                TraceKey
  <2>2. Traced' /\ NoStackTwice'
    BY <1>3, TraceUntouched DEF vars, SolveInv, InSolve
  <2>3. Fresh'
    BY <1>3 DEF vars, SolveInv, Fresh, OfEpoch, StackOf, InSolve, Asked
  <2>4. Returned'
    BY <1>3 DEF vars, SolveInv, Returned, ReturnedIsValidated
  <2>5. QED
    BY <2>1, <2>2, <2>3, <2>4 DEF SolveInv
<1>4. QED
  BY <1>1, <1>2, <1>3, TickInv, StartEpochInv, RefuseInv, BeginInv, CompileInv, IncumbentInv,
     OptimizerRaisesInv, RejectInv, AcceptInv, GiveUpInv, FallBackInv, NextCandidateInv
  DEF Next

---------------------------------------------------------------------------
(* Theorems. *)

\* The trace, the control of the epoch and its candidates belong together in
\* every reachable state.
THEOREM SolveInvariant == Spec => []SolveInv
<1>1. Init => SolveInv
  BY InitInv
<1>2. SolveInv /\ [Next]_vars => SolveInv'
  BY NextInv
<1>3. QED
  BY <1>1, <1>2, PTL DEF Spec

\* Every variable of an epoch and of its trace holds a value of its kind; the
\* context that a key names is an invocation.
THEOREM SolveTypeCorrect == Spec => []SolveTypeOK
<1>1. SolveInv => SolveTypeOK
  BY DEF SolveInv
<1>2. QED
  BY <1>1, SolveInvariant, PTL

\* Whatever the optimizers and the fallback return and whenever, a plan that an
\* epoch returns was validated for its problem, in time, and is the newest entry
\* of the trace.
THEOREM ReturnedIsValidatedHolds == Spec => []ReturnedIsValidated
<1>1. SolveInv => ReturnedIsValidated
  BY DEF SolveInv, Returned
<1>2. QED
  BY <1>1, SolveInvariant, PTL

\* An invocation that was left has one outcome, at its end, unless the trace
\* could not take its plan; a running one has none.
THEOREM OutcomesOnceHolds == Spec => []OutcomesOnce
<1>1. SolveInv => OutcomesOnce
  <2> SUFFICES ASSUME SolveInv, NEW s \in DOMAIN solves
               PROVE  LET ps      == solves[s].phases
                          outcome == {i \in DOMAIN ps : ps[i] \in Final}
                      IN /\ Running(s) \/ s \in lost => outcome = {}
                         /\ ~Running(s) /\ s \notin lost =>
                              \/ outcome = {Len(ps)} /\ ps[Len(ps)] # "fallback"
                              \/ outcome = {Len(ps) - 1, Len(ps)}
                                 /\ ps[Len(ps)] = "fallback" /\ ps[Len(ps) - 1] = "validated"
    BY DEF OutcomesOnce
  <2>1. /\ Running(s) \/ s \in lost => Quiet(solves[s].phases)
        /\ ~Running(s) /\ s \notin lost => Ended(solves[s].phases)
    BY DEF SolveInv, Traced
  <2>2. QED
    BY <2>1 DEF Quiet, Ended
<1>2. QED
  BY <1>1, SolveInvariant, PTL

\* Within an epoch no optimizer is asked twice under one formulation, whatever
\* the fallback supports and has for a default.
THEOREM NoStackTwiceHolds == Spec => []NoStackTwice
<1>1. SolveInv => NoStackTwice
  BY DEF SolveInv
<1>2. QED
  BY <1>1, SolveInvariant, PTL
============================================================================
