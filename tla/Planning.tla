------------------------------ MODULE Planning ------------------------------
(***************************************************************************)
(* From a problem to a validated plan: the candidates are estimated, an    *)
(* optimizer makes a plan of them, and validate_plan judges it.  The       *)
(* optimizers are the plain heuristic and its search under the one-hot     *)
(* formulation (src/mars/optimizers/heuristics.py), the exhaustive search  *)
(* (binary_offload.py) over the decisions of the formulation               *)
(* (formulations/one_hot.py), and any plug-in.                             *)
(*                                                                         *)
(* All built-in optimizers place one task after the other; a place is      *)
(* searched step by step.  Their time limit may strike at every check.     *)
(***************************************************************************)
EXTENDS PlanValidation

CONSTANTS
  Optimizers,  \* those that may be asked
  Horizon,     \* bound on the start times a plug-in may choose
  Lies         \* the ways in which a plug-in's plan may be inconsistent

ASSUME PlugInAssumption ==
  /\ Horizon \in Nat
  /\ Lies \subseteq {"none", "failed", "energy", "short", "unsent", "unreserved", "twice", "forgotten"}

VARIABLES
  optimizer,   \* the optimizer asked
  todo,        \* the tasks still to place in this pass
  options,     \* the candidates of the first of them not yet tried
  placed,      \* those that found a place
  draft,       \* the plan made so far
  remaining,   \* the decisions of the formulation not yet looked at
  selection,   \* the decision looked at
  incumbent,   \* the best plan of the exhaustive search, with key and selection
  plan         \* the plan returned

searchVars == <<remaining, selection, incumbent>>
solveVars == <<optimizer, todo, options, placed, draft, searchVars, plan>>
vars == <<problemVars, routeVars, calendar, links, placeVars, solveVars, pc>>

EmptyPlan == [status |-> "feasible", assigned |-> <<>>, reservations |-> {}, transfers |-> {},
              deferred |-> <<>>, iterations |-> 0]

Init ==
  /\ \E p \in Problems : Begin(p)
  /\ calendar = problem.carryIn /\ links = problem.linkFree
  /\ placing = <<>> /\ moved = <<>> /\ cursor = 0
  /\ optimizer = "" /\ todo = <<>> /\ options = {} /\ placed = {} /\ draft = EmptyPlan
  /\ remaining = {} /\ selection = <<>> /\ incumbent = <<>> /\ plan = <<>>

Building ==
  /\ Estimate \/ Routed \/ SearchRoute
  /\ UNCHANGED <<calendar, links, placeVars, solveVars>>

Built == pc = "estimate" /\ pairs = {}

Return(p) == plan' = <<p>> /\ pc' = "validate"

---------------------------------------------------------------------------
(* The plain heuristic. *)

\* _task_order: by slack if there are critical tails, else by arrival; then by
\* priority and id.
TaskOrder(t) ==
  <<IF problem.hasTails
    THEN problem.deadline[t] - Max({problem.now, problem.arrival[t]}) - problem.tail[t]
    ELSE problem.arrival[t], -problem.priority[t], t>>

\* Tasks beyond the iteration limit are deferred.
AskHeuristic ==
  /\ Built /\ "heuristic" \in Optimizers
  /\ \E ordered \in [DOMAIN problem.tasks -> Ready] :
       LET limit == IF problem.maxIterations = 0 THEN Len(ordered)
                    ELSE Min({problem.maxIterations, Len(ordered)})
       IN /\ \A i, j \in DOMAIN ordered :
               i < j => Precedes(TaskOrder(ordered[i]), TaskOrder(ordered[j]))
          /\ todo' = SubSeq(ordered, 1, limit)
          /\ draft' = [EmptyPlan EXCEPT !.deferred = SubSeq(ordered, limit + 1, Len(ordered))]
  /\ optimizer' = "heuristic" /\ pc' = "task"
  /\ links' = [l \in Links |-> Max({problem.now, problem.linkFree[l]})]
  /\ UNCHANGED <<problemVars, routeVars, calendar, placeVars, options, placed, searchVars, plan>>

\* The budget is used up: the rest of the tasks is deferred.
HeuristicExpires ==
  /\ pc = "task" /\ optimizer = "heuristic" /\ todo # <<>>
  /\ Return([draft EXCEPT !.status = "time_limit", !.deferred = todo \o @,
                          !.iterations = Len(draft.assigned)])
  /\ UNCHANGED <<problemVars, routeVars, calendar, links, placeVars, optimizer, todo, options,
                 placed, draft, searchVars>>

HeuristicDone ==
  /\ pc = "task" /\ optimizer = "heuristic" /\ todo = <<>>
  /\ Return([draft EXCEPT !.status = IF @ # "feasible" \/ draft.deferred = <<>> THEN @
                                     ELSE "iteration_limit",
                          !.iterations = Len(draft.assigned)])
  /\ UNCHANGED <<problemVars, routeVars, calendar, links, placeVars, optimizer, todo, options,
                 placed, draft, searchVars>>

---------------------------------------------------------------------------
(* The one-hot formulation: one candidate for every task. *)

\* The candidates of the i-th task, in the order in which an optimizer goes
\* through them: by node, or for the heuristic by their proxy keys.
OptionOrder(i) ==
  LET ranked(c) == IF optimizer = "greedy" THEN Append(ProxyKey(c), c.node) ELSE <<c.node>>
      own == {c \in candidates : c.task = problem.tasks[i]}
      ahead(c) == {d \in own : Precedes(ranked(d), ranked(c))}
  IN [k \in 1 .. Cardinality(own) |-> CHOOSE c \in own : Cardinality(ahead(c)) = k - 1]

Chosen(s) == [i \in DOMAIN s |-> OptionOrder(i)[s[i]]]

\* What compile offers: for every task one of its candidates, by its number.
Decisions ==
  LET count(i) == Cardinality({c \in candidates : c.task = problem.tasks[i]})
  IN {s \in [DOMAIN problem.tasks -> 1 .. Cardinality(Nodes)] : \A i \in DOMAIN s : s[i] <= count(i)}

\* compile, which raises if a task has no candidate.
AskOneHot(o) ==
  /\ Built /\ o \in Optimizers \cap {"greedy", "exhaustive"}
  /\ optimizer' = o /\ remaining' = Decisions
  /\ pc' = IF Decisions = {} \/ problem.tasks = <<>> THEN "failed" ELSE "select"
  /\ UNCHANGED <<problemVars, routeVars, calendar, links, placeVars, todo, options, placed, draft,
                 selection, incumbent, plan>>

\* is_decision_feasible: the batteries last for all selected candidates.
Affordable(cs) ==
  LET Energy(c) == c.energy
  IN \A n \in DOMAIN problem.battery :
       SumOver(Energy, {c \in ToSet(cs) : c.node = n}) <= problem.battery[n]

\* The search is over.  The exhaustive one returns its incumbent, the other has
\* found nothing.
Finish(status) ==
  /\ IF optimizer = "exhaustive" /\ incumbent # <<>>
     THEN Return([incumbent[1].plan EXCEPT !.status = status, !.iterations = draft.iterations])
     ELSE pc' = "failed" /\ UNCHANGED plan
  /\ UNCHANGED <<problemVars, routeVars, calendar, links, placeVars, optimizer, todo, options,
                 placed, draft, searchVars>>

LimitReached == problem.maxIterations > 0 /\ draft.iterations >= problem.maxIterations

\* Bug: an iteration limit that stops the search counts as its end.
SearchEnds_AtLimit ==
  pc = "select" /\ (remaining = {} \/ LimitReached) /\ Finish("optimal")

SearchEnds == pc = "select" /\ remaining = {} /\ Finish("optimal")

SearchLimited == pc = "select" /\ remaining # {} /\ LimitReached /\ Finish("iteration_limit")

\* The clock is read before a decision is taken, and after it is refused or
\* worked out.
SearchExpires ==
  \/ pc = "select" /\ remaining # {} /\ ~LimitReached /\ Finish("time_limit")
  \/ pc \in {"refused", "score"} /\ Finish("time_limit")

GoOn ==
  /\ pc = "refused" /\ pc' = "select"
  /\ UNCHANGED <<problemVars, routeVars, calendar, links, placeVars, solveVars>>

\* The next decision.
Select ==
  /\ pc = "select" /\ remaining # {} /\ ~LimitReached
  /\ LET s == CHOOSE x \in remaining : \A y \in remaining : x = y \/ Precedes(x, y)
     IN /\ remaining' = remaining \ {s}
        /\ selection' = s
        /\ draft' = [EmptyPlan EXCEPT !.iterations = draft.iterations + 1]
        /\ IF Affordable(Chosen(s)) THEN todo' = problem.tasks /\ pc' = "task"
                                    ELSE UNCHANGED todo /\ pc' = "refused"
  /\ calendar' = problem.carryIn /\ links' = problem.linkFree
  /\ UNCHANGED <<problemVars, routeVars, placeVars, optimizer, options, placed, incumbent, plan>>

AllPlaced ==
  /\ pc = "task" /\ optimizer \in {"greedy", "exhaustive"} /\ todo = <<>>
  /\ pc' = "score"
  /\ UNCHANGED <<problemVars, routeVars, calendar, links, placeVars, solveVars>>

\* The complete draft is evaluated: the exhaustive search keeps the best, by key
\* and then by nodes, and the heuristic returns the first.
Score ==
  /\ pc = "score"
  /\ LET key == ObjectiveKey(draft)
         nodes == [i \in DOMAIN selection |-> Chosen(selection)[i].node]
         better == incumbent = <<>> \/ Precedes(key, incumbent[1].key)
                     \/ (key = incumbent[1].key /\ Precedes(nodes, incumbent[1].nodes))
     IN IF HardViolation(draft) THEN pc' = "select" /\ UNCHANGED <<incumbent, plan>>
        ELSE IF optimizer = "greedy" THEN Return(draft) /\ UNCHANGED incumbent
        ELSE /\ incumbent' = IF better THEN <<[plan |-> draft, key |-> key, nodes |-> nodes]>>
                             ELSE incumbent
             /\ pc' = "select" /\ UNCHANGED plan
  /\ UNCHANGED <<problemVars, routeVars, calendar, links, placeVars, optimizer, todo, options,
                 placed, draft, remaining, selection>>

---------------------------------------------------------------------------
(* Placing one task. *)

NextTask ==
  /\ pc = "task" /\ optimizer # "plugin" /\ todo # <<>>
  /\ options' = {c \in candidates :
                   /\ c.task = Head(todo)
                   /\ optimizer # "heuristic" =>
                        c = Chosen(selection)[Len(selection) - Len(todo) + 1]}
  /\ placed' = {}
  /\ pc' = "option"
  /\ UNCHANGED <<problemVars, routeVars, calendar, links, placeVars, optimizer, todo, draft,
                 searchVars, plan>>

\* A candidate that exceeds its node is left out.
TryOption ==
  /\ pc = "option"
  /\ \E c \in options :
       /\ \A x \in options : c.node <= x.node
       /\ options' = options \ {c}
       /\ IF TooBig(c) THEN UNCHANGED <<placeVars, pc>> ELSE BeginPlacing(c) /\ pc' = "place"
  /\ UNCHANGED <<problemVars, routeVars, calendar, links, optimizer, todo, placed, draft,
                 searchVars, plan>>

Search ==
  /\ pc = "place" /\ Jump
  /\ UNCHANGED <<problemVars, routeVars, calendar, links, solveVars, pc>>

Place ==
  /\ pc = "place" /\ Found
  /\ placed' = placed \cup {Placement}
  /\ placing' = <<>> /\ pc' = "option"
  /\ UNCHANGED <<problemVars, routeVars, calendar, links, moved, cursor, optimizer, todo, options,
                 draft, searchVars, plan>>

\* build_assignment, with the reservation and the transfers of the place x.
With(p, x) ==
  LET c == x.candidate
  IN [p EXCEPT !.assigned = Append(@,
                 [task |-> c.task, node |-> c.node, start |-> c.start, finish |-> c.finish,
                  compute |-> c.compute, communication |-> c.communication, energy |-> c.energy,
                  success |-> c.success, locations |-> c.locations]),
               !.reservations = @ \cup {Reservation(c, x.at)},
               !.transfers = @ \cup x.transfers]

Dropped(t) ==
  LET at == Max({problem.now, problem.arrival[t]})
  IN [task |-> t, node |-> 0, start |-> at, finish |-> at, compute |-> 0, communication |-> 0,
      energy |-> 0, success |-> 0, locations |-> {}]

\* The best place by proxy key and node is taken.
Commit ==
  /\ pc = "option" /\ options = {}
  /\ \E x \in placed :
       LET rank(y) == Append(ProxyKey(y.candidate), y.candidate.node)
       IN /\ \A y \in placed : x = y \/ Precedes(rank(x), rank(y))
          /\ draft' = With(draft, x)
          /\ calendar' = calendar \cup {Reservation(x.candidate, x.at)}
          /\ links' = Transferred(x.candidate, links).links
  /\ todo' = Tail(todo) /\ pc' = "task"
  /\ UNCHANGED <<problemVars, routeVars, placeVars, optimizer, options, placed, searchVars, plan>>

\* No candidate found a place: the heuristic drops the task, and a decision of
\* the formulation cannot be realized.
NoPlace ==
  /\ pc = "option" /\ options = {} /\ placed = {}
  /\ IF optimizer = "heuristic"
     THEN /\ draft' = [draft EXCEPT !.assigned = Append(@, Dropped(Head(todo)))]
          /\ todo' = Tail(todo) /\ pc' = "task"
     ELSE pc' = "refused" /\ UNCHANGED <<draft, todo>>
  /\ UNCHANGED <<problemVars, routeVars, calendar, links, placeVars, optimizer, options, placed,
                 searchVars, plan>>

---------------------------------------------------------------------------
(* A plug-in: any plan, of which a part may be wrong. *)

AskPlugIn ==
  /\ Built /\ "plugin" \in Optimizers
  /\ optimizer' = "plugin" /\ todo' = problem.tasks /\ pc' = "task"
  /\ UNCHANGED <<problemVars, routeVars, calendar, links, placeVars, options, placed, draft,
                 searchVars, plan>>

\* A task is deferred, dropped, or computed and its inputs sent at some time.
Decide ==
  /\ pc = "task" /\ optimizer = "plugin" /\ todo # <<>>
  /\ LET t == Head(todo)
         times == problem.now .. Horizon
     IN \/ draft' = [draft EXCEPT !.deferred = Append(@, t)]
        \/ draft' = [draft EXCEPT !.assigned = Append(@, Dropped(t))]
        \/ \E c \in candidates, at \in times :
             /\ c.task = t
             /\ LET sent == {i \in DOMAIN c.transfers : c.transfers[i].path # <<>>
                                                        /\ c.transfers[i].time > 0}
                IN \E begin \in [sent -> times] :
                     draft' = With(draft, PlacedAt(c, {Transfer(c, i, begin[i]) : i \in sent}, at))
  /\ todo' = Tail(todo)
  /\ UNCHANGED <<problemVars, routeVars, calendar, links, placeVars, optimizer, options, placed,
                 searchVars, plan, pc>>

\* The plan p with a part of it wrong.
Told(lie, p) ==
  LET edited(f(_)) == [i \in DOMAIN p.assigned |-> f(p.assigned[i])]
      thrifty(a) == [a EXCEPT !.energy = 0]
      silent(a) == [a EXCEPT !.communication = 0]
      brief(a) == IF a.node = 0 \/ a.finish = a.start THEN a ELSE [a EXCEPT !.finish = @ - 1]
  IN CASE lie = "none"       -> p
       [] lie = "failed"     -> [p EXCEPT !.status = "infeasible"]
       [] lie = "energy"     -> [p EXCEPT !.assigned = edited(thrifty)]
       [] lie = "short"      -> [p EXCEPT !.assigned = edited(brief),
                                          !.reservations = {[x EXCEPT !.finish = @ - 1] : x \in @}]
       [] lie = "unsent"     -> [p EXCEPT !.assigned = edited(silent), !.transfers = {}]
       [] lie = "unreserved" -> [p EXCEPT !.reservations = {}]
       [] lie = "twice"      -> [p EXCEPT !.assigned = @ \o @]
       [] lie = "forgotten"  -> [p EXCEPT !.deferred = <<>>]

Answer ==
  /\ pc = "task" /\ optimizer = "plugin" /\ todo = <<>>
  /\ \E lie \in Lies : Return(Told(lie, draft))
  /\ UNCHANGED <<problemVars, routeVars, calendar, links, placeVars, optimizer, todo, options,
                 placed, draft, searchVars>>

---------------------------------------------------------------------------

Validate ==
  /\ pc = "validate"
  /\ pc' = IF PlanValid(plan[1]) THEN "accepted" ELSE "rejected"
  /\ UNCHANGED <<problemVars, routeVars, calendar, links, placeVars, solveVars>>

Heuristic == AskHeuristic \/ HeuristicExpires \/ HeuristicDone
OneHot ==
  \/ \E o \in Optimizers : AskOneHot(o)
  \/ SearchEnds \/ SearchLimited \/ SearchExpires \/ GoOn \/ Select \/ AllPlaced \/ Score
OneTask == NextTask \/ TryOption \/ Search \/ Place \/ Commit \/ NoPlace
PlugIn == AskPlugIn \/ Decide \/ Answer

Next == Building \/ Heuristic \/ OneHot \/ OneTask \/ PlugIn \/ Validate

Spec == Init /\ [][Next]_vars

---------------------------------------------------------------------------
(* What a plan promises, said of every moment and not of the records of it. *)

Runs(p, t) == {x \in p.reservations : x.task = t}
ExecutedOn(p, t) == {a \in Assigned(p) : a.task = t}

\* A path of live links from one node to another, wide enough for the task.
Connects(path, from, to, t) ==
  /\ From[path[1]] = from /\ To[path[Len(path)]] = to
  /\ \A i \in 1 .. Len(path) - 1 : To[path[i]] = From[path[i + 1]]
  /\ \A l \in ToSet(path) : Alive(l) /\ net.bandwidth[l] >= problem.bandwidth[t]

\* Every input of t reaches the node n before t runs there at at.
InputsArrive(p, t, n, at) ==
  \A i \in DOMAIN Inputs(t) :
    LET input == Inputs(t)[i]
    IN \/ input.node = n \/ input.size = 0
       \/ \E x \in p.transfers :
            /\ x.task = t /\ x.transfer = i /\ Connects(x.path, input.node, n, t)
            /\ x.start >= Max({problem.now, problem.ready[t]}) /\ x.finish <= at

\* A plan that is accepted can be carried out as it stands, whoever made it: every
\* task of the epoch is executed once, dropped or deferred; a task runs on one node
\* that its placement allows, long enough, after its inputs have come over live
\* links; at no moment is a node beyond its capacity and concurrency because of the
\* plan, with the carry-in and the load it reports; no link carries two
\* transfers at a time; and no battery is used up.
AcceptedIsExecutable ==
  pc = "accepted" =>
    LET p == plan[1]
        moments == problem.now .. Max({x.finish : x \in p.reservations} \cup {problem.now})
        cost(a) == (CHOOSE c \in candidates : c.task = a.task /\ c.node = a.node).energy
    IN /\ \A t \in Ready :
            /\ Cardinality({i \in DOMAIN p.assigned : p.assigned[i].task = t})
                 + Cardinality({i \in DOMAIN p.deferred : p.deferred[i] = t}) = 1
            /\ Cardinality(Runs(p, t)) = Cardinality(ExecutedOn(p, t))
            /\ \A x \in Runs(p, t), a \in ExecutedOn(p, t) :
                 /\ x.node = a.node /\ a.node \in AllowedNodes(t)
                 /\ x.finish - x.start = problem.work[t][a.node].compute
                 /\ x.start >= Max({problem.now, problem.ready[t], problem.free[a.node]})
                 /\ InputsArrive(p, t, a.node, x.start)
       /\ \A n \in Nodes, u \in moments :
            ActiveAt(p.reservations, n, u) # {} =>
              Fits(n, ActiveAt(p.reservations \cup problem.carryIn, n, u))
       /\ \A l \in Links, u \in moments :
            Cardinality({x \in p.transfers : l \in ToSet(x.path) /\ x.start <= u /\ u < x.finish})
              <= IF u < problem.linkFree[l] THEN 0 ELSE 1
       /\ \A n \in DOMAIN problem.battery :
            SumOver(cost, {a \in Assigned(p) : a.node = n}) <= problem.battery[n]

\* The built-in optimizers make plans the validation accepts: only the plain
\* heuristic, which looks at neither, may use up a battery or break a hard
\* constraint.
BuiltInsAreAccepted ==
  pc = "rejected" /\ optimizer # "plugin" =>
    optimizer = "heuristic" /\ (~EnergyValid(plan[1]) \/ HardViolation(plan[1]))

\* A task of a decision is placed after those before it, at the first time that is
\* free at every moment.
Scheduled(c, before) ==
  LET arrival == Transferred(c, before.links)
      busy == problem.carryIn \cup before.plan.reservations
      from == Max({arrival.at, problem.free[c.node]})
      last == Max({from} \cup {x.finish : x \in busy})
      start == Min({u \in from .. last : Free(busy, c, u)})
  IN [plan |-> With(before.plan, PlacedAt(c, arrival.made, start)), links |-> arrival.links]

Stages(s) ==
  LET step[i \in 0 .. Len(s)] ==
        IF i = 0 THEN [plan |-> EmptyPlan, links |-> problem.linkFree]
                 ELSE Scheduled(Chosen(s)[i], step[i - 1])
  IN step

Schedule(s) == Stages(s)[Len(s)].plan

\* A plan is better than another, or as good with the same nodes or with nodes that
\* come first.
AsGood(p, q) ==
  LET nodes(r) == [i \in DOMAIN r.assigned |-> r.assigned[i].node]
  IN \/ Precedes(ObjectiveKey(p), ObjectiveKey(q))
     \/ /\ ObjectiveKey(p) = ObjectiveKey(q)
        /\ nodes(p) = nodes(q) \/ Precedes(nodes(p), nodes(q))

\* OPTIMAL is what the one-hot formulation says it is: no decision of the
\* formulation that keeps the batteries and the hard constraints gives a better
\* plan, or one as good with nodes that come first.
OptimalIsOptimal ==
  plan # <<>> /\ plan[1].status = "optimal" =>
    \A s \in Decisions :
      Affordable(Chosen(s)) /\ (\A i \in DOMAIN s : ~TooBig(Chosen(s)[i])) =>
        HardViolation(Schedule(s)) \/ AsGood(plan[1], Schedule(s))
=============================================================================
