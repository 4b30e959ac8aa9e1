------------------------- MODULE OptimalityProofs -------------------------
(***************************************************************************)
(* The exhaustive search calls a plan optimal only if it is, whatever the  *)
(* problem, the objectives and the constraints.                            *)
(***************************************************************************)
EXTENDS PlanningProofs

---------------------------------------------------------------------------
(* Metrics are numbers. *)

\* The values of a function on a finite set are finitely many.
LEMMA ImageIsFinite ==
  ASSUME NEW S, IsFiniteSet(S), NEW g, g = [x \in S |-> g[x]]
  PROVE  IsFiniteSet({g[x] : x \in S})
<1> DEFINE T == {g[x] : x \in S}
<1>1. g \in [S -> T] /\ \A y \in T : \E x \in S : g[x] = y
  OBVIOUS
<1>2. g \in Surjection(S, T)
  <2> HIDE DEF T
  <2>1. QED
    BY <1>1, Zenon DEF Surjection
<1>3. QED
  <2> HIDE DEF T
  <2>1. IsFiniteSet(T)
    BY <1>2, FS_Surjection
  <2>2. QED
    BY <2>1 DEF T

\* The time transfers take is a sum.
LEMMA SpentIsSum ==
  ASSUME NEW S
  PROVE  Spent(S) = SumFunctionOnSet([x \in S |-> x.finish - x.start], S)
<1> DEFINE Length(x) == x.finish - x.start
           f == [x \in S |-> x.finish - x.start]
           Taken(g) == g = [s \in SUBSET S |-> IF s = {} THEN 0
                                               ELSE Length(Picked(s)) + g[s \ {Picked(s)}]]
<1>1. Spent(S) = (CHOOSE g : Taken(g))[S]
  BY DEF Spent, MapThenSumSet, MapThenFoldSet, Picked
<1>2. SumFunctionOnSet(f, S) = (CHOOSE g : IsSum(g, f, S))[S]
  BY DEF SumFunctionOnSet, FoldFunctionOnSet, MapThenFoldSet, IsSum, Picked
<1>3. \A s \in SUBSET S : s # {} => Length(Picked(s)) = f[Picked(s)]
  <2>1. \A s \in SUBSET S : s # {} => Picked(s) \in S
    BY DEF Picked
  <2>2. QED
    BY <2>1
<1>4. \A g : Taken(g) <=> IsSum(g, f, S)
  <2> HIDE DEF f, Length
  <2>1. QED
    BY <1>3 DEF IsSum
<1>5. (CHOOSE g : Taken(g)) = (CHOOSE g : IsSum(g, f, S))
  <2> HIDE DEF f, Taken
  <2>1. QED
    BY <1>4
<1>6. QED
  BY <1>1, <1>2, <1>5

\* An additive metric is a sum.
LEMMA ShareIsSum ==
  ASSUME NEW m, NEW S
  PROVE  LET share(a) == Share(m, a)
         IN SumOver(share, S) = SumFunctionOnSet([a \in S |-> Share(m, a)], S)
<1> DEFINE share(a) == Share(m, a)
           f == [a \in S |-> Share(m, a)]
           Added(g) == g = [s \in SUBSET S |-> IF s = {} THEN 0
                                               ELSE share(Picked(s)) + g[s \ {Picked(s)}]]
<1>1. SumOver(share, S) = (CHOOSE g : Added(g))[S]
  BY DEF SumOver, MapThenSumSet, MapThenFoldSet, Picked
<1>2. SumFunctionOnSet(f, S) = (CHOOSE g : IsSum(g, f, S))[S]
  BY DEF SumFunctionOnSet, FoldFunctionOnSet, MapThenFoldSet, IsSum, Picked
<1>3. \A s \in SUBSET S : s # {} => share(Picked(s)) = f[Picked(s)]
  <2>1. \A s \in SUBSET S : s # {} => Picked(s) \in S
    BY DEF Picked
  <2>2. QED
    BY <2>1
<1>4. \A g : Added(g) <=> IsSum(g, f, S)
  <2> HIDE DEF f, share
  <2>1. QED
    BY <1>3 DEF IsSum
<1>5. (CHOOSE g : Added(g)) = (CHOOSE g : IsSum(g, f, S))
  <2> HIDE DEF f, Added
  <2>1. QED
    BY <1>4
<1>6. QED
  BY <1>1, <1>2, <1>5

\* What is known of an assignment.
Numbered(a) ==
  /\ a.task \in Ready /\ a.node \in Nodes
  /\ {a.finish, a.energy, a.communication, a.success} \subseteq Int
  /\ IsFiniteSet(a.locations)

LEMMA AssignedAreNumbers ==
  ASSUME EstimateInv, NEW p, PlanTyped(p), Assigns(p), NEW a \in Assigned(p)
  PROVE  Numbered(a)
<1>1. PICK c \in candidates : Realizes(p, a, c) /\ CandidateRight(c)
  BY AssignedIsRealized
<1>2. Setting /\ WellFormed(problem)
  BY ProblemAssumption DEF EstimateInv, Setting
<1>3. /\ c.task \in Ready /\ c.node \in Nodes /\ c.compute \in Nat
  BY <1>1, <1>2, CandidateIsPlaceable DEF Placeable
<1>4. /\ c.task = a.task /\ c.node = a.node /\ a.energy = c.energy /\ a.success = c.success
      /\ a.locations = c.locations /\ a.communication = Spent(TransfersOf(p, a))
  BY <1>1 DEF Realizes
<1>5. a.finish \in Int
  <2>1. PICK x : x = Reservation(c, x.start) /\ x.start \in Nat /\ a.finish = x.finish
    BY <1>1 DEF Realizes
  <2>2. x.finish = x.start + c.compute
    BY <2>1 DEF Reservation
  <2>3. QED
    BY <1>3, <2>1, <2>2
<1>6. a.energy \in Int /\ a.success \in Int
  <2>1. c.success = problem.work[c.task][c.node].success /\ c.energy \in Nat
    BY <1>1 DEF CandidateRight
  <2>2. problem.work[c.task][c.node].success \in Nat
    BY <1>2, <1>3 DEF WellFormed, Ready
  <2>3. QED
    BY <1>4, <2>1, <2>2
<1>7. a.communication \in Int
  <2> DEFINE own == TransfersOf(p, a)
             f == [x \in own |-> x.finish - x.start]
  <2>1. own \subseteq p.transfers /\ IsFiniteSet(p.transfers)
    BY DEF TransfersOf, Assigns
  <2>2. \A x \in own : x.finish - x.start \in Int
    BY <2>1 DEF PlanTyped, Timed
  <2>3. IsFiniteSet(own)
    BY <2>1, FS_Subset
  <2>4. SumFunctionOnSet(f, own) \in Int
    <3>1. \A x \in own : f[x] \in Int
      BY <2>2
    <3> HIDE DEF f, own
    <3>2. QED
      BY <2>3, <3>1, SumIsInteger
  <2>5. Spent(own) = SumFunctionOnSet(f, own)
    BY SpentIsSum
  <2>6. QED
    BY <1>4, <2>4, <2>5
<1>8. IsFiniteSet(a.locations)
  <2>1. a.locations = {x.node : x \in ToSet(Inputs(c.task))}
    BY <1>1, <1>4 DEF CandidateRight
  <2> DEFINE S == ToSet(Inputs(c.task))
             g == [x \in S |-> x.node]
  <2>2. IsFiniteSet(S)
    BY <1>2, <1>3, InputsTyped, RangeIsFinite DEF Sequence, Setting
  <2>3. g = [x \in S |-> g[x]]
    OBVIOUS
  <2>4. IsFiniteSet({g[x] : x \in S})
    <3> HIDE DEF g, S
    <3>1. QED
      BY <2>2, <2>3, ImageIsFinite
  <2>5. {g[x] : x \in S} = {x.node : x \in S}
    OBVIOUS
  <2>6. QED
    BY <2>1, <2>4, <2>5
<1>9. QED
  BY <1>3, <1>4, <1>5, <1>6, <1>7, <1>8 DEF Numbered

Additive == {"deadline", "completion", "energy", "communication", "locality", "non_source",
             "non_edge", "preference", "mismatch", "success"}

\* What an assignment adds to a metric is a number.
LEMMA ShareIsInteger ==
  ASSUME problem \in Problems, NEW a, Numbered(a), NEW m \in Additive
  PROVE  Share(m, a) \in Int
<1>1. /\ a.task \in Ready /\ a.node \in Nodes /\ a.finish \in Int /\ a.energy \in Int
      /\ a.communication \in Int /\ a.success \in Int /\ IsFiniteSet(a.locations)
  BY DEF Numbered
<1>2. /\ problem.deadline[a.task] \in Int /\ problem.tail[a.task] \in Int
      /\ problem.priority[a.task] \in Int
      /\ problem.place[a.task].preferred \in Seq({"robot", "edge", "cloud"})
  BY <1>1, ProblemAssumption DEF WellFormed, Ready
<1>3. \A b : Count(b) \in Int
  BY DEF Count
<1>4. CASE m = "deadline"
  <2>1. PICK x : x = a.finish + problem.tail[a.task] - problem.deadline[a.task]
    OBVIOUS
  <2>2. x \in Int /\ Max({0, x}) \in Int
    <3>1. x \in Int
      BY <1>1, <1>2, <2>1
    <3>2. QED
      BY <3>1, MaxOfTwo
  <2>3. Share(m, a) = Max({0, x})
    BY <1>4, <2>1 DEF Share, Positive
  <2>4. QED
    BY <2>2, <2>3
<1>5. CASE m = "completion"
  BY <1>1, <1>5 DEF Share
<1>6. CASE m = "energy"
  BY <1>1, <1>6 DEF Share
<1>7. CASE m = "communication"
  BY <1>1, <1>7 DEF Share
<1>8. CASE m = "locality"
  <2>1. IsFiniteSet(a.locations \ {a.node})
    BY <1>1, FS_Subset
  <2>2. Away(a) \in Nat
    BY <2>1, FS_CardinalityType DEF Away
  <2>3. Share(m, a) = 2 * Away(a)
    BY <1>8 DEF Share
  <2>4. QED
    BY <2>2, <2>3
<1>9. CASE m = "non_source"
  BY <1>3, <1>9 DEF Share
<1>10. CASE m = "non_edge"
  BY <1>3, <1>10 DEF Share
<1>11. CASE m = "preference"
  <2>1. PICK s : s = problem.place[a.task].preferred
    OBVIOUS
  <2>2. Len(s) \in Nat /\ DOMAIN s = 1 .. Len(s)
    BY <1>2, <2>1
  <2>3. Rank(a.task, a.node) =
          IF \E i \in 1 .. Len(s) : s[i] = Kind[a.node]
          THEN CHOOSE i \in DOMAIN s : s[i] = Kind[a.node] ELSE Len(s) + 1
    BY <2>1 DEF Rank, Contains
  <2>4. Rank(a.task, a.node) \in Int
    BY <2>2, <2>3
  <2>5. Share(m, a) = Rank(a.task, a.node) - 1
    BY <1>11 DEF Share
  <2>6. QED
    BY <2>4, <2>5
<1>12. CASE m = "mismatch"
  BY <1>3, <1>12 DEF Share
<1>13. CASE m = "success"
  <2>1. Share(m, a) = problem.priority[a.task] * a.success
    BY <1>13 DEF Share
  <2>2. QED
    BY <1>1, <1>2, <2>1
<1>14. QED
  BY <1>4, <1>5, <1>6, <1>7, <1>8, <1>9, <1>10, <1>11, <1>12, <1>13 DEF Additive

\* So is the highest load of a node.
LEMMA PeakIsInteger ==
  ASSUME problem \in Problems, NEW planned, IsFiniteSet(planned), \A x \in planned : Reserves(x)
  PROVE  Peak(planned) \in Int
<1> DEFINE all == problem.carryIn \cup planned
           ends(x) == {Max({problem.now, x.start}), x.finish}
           near(n) == {ends(x) : x \in {y \in all : y.node = n}}
           points(n) == {problem.now} \cup {u \in UNION near(n) : u >= problem.now}
           used(n, u, r) == (Background(n, r) + Load(ActiveAt(all, n, u), r))
                              * (Whole \div Max({1, problem.capacity[n][r]}))
           of(n) == {used(n, u, r) : u \in points(n), r \in Resources}
           seen == UNION {of(n) : n \in Nodes}
<1>1. Peak(planned) = Max({0} \cup seen)
  BY DEF Peak
<1>2. WellFormed(problem)
  BY ProblemAssumption
<1>3. IsFiniteSet(all) /\ Demanding(all)
  <2>1. IsFiniteSet(problem.carryIn) /\ \A x \in problem.carryIn : x.demand \in [Resources -> Nat]
    BY <1>2 DEF WellFormed
  <2>2. IsFiniteSet(all)
    BY <2>1, FS_Union
  <2>3. QED
    BY <2>1, <2>2 DEF Demanding, Reserves
<1>4. ASSUME NEW n \in Nodes PROVE IsFiniteSet(points(n))
  <2> DEFINE S == {y \in all : y.node = n}
             g == [x \in S |-> ends(x)]
  <2>1. IsFiniteSet(S)
    BY <1>3, FS_Subset
  <2>2. g = [x \in S |-> g[x]] /\ near(n) = {g[x] : x \in S}
    OBVIOUS
  <2>3. IsFiniteSet({g[x] : x \in S})
    <3> HIDE DEF g, S
    <3>1. QED
      BY <2>1, <2>2, ImageIsFinite
  <2>4. \A e \in near(n) : IsFiniteSet(e)
    <3>1. \A x : IsFiniteSet(ends(x))
      <4>1. ASSUME NEW x PROVE IsFiniteSet(ends(x))
        <5>1. PICK v, w : v = Max({problem.now, x.start}) /\ w = x.finish
          OBVIOUS
        <5>2. ends(x) = {v} \cup {w}
          BY <5>1
        <5>3. IsFiniteSet({v}) /\ IsFiniteSet({w})
          BY FS_Singleton
        <5>4. IsFiniteSet({v} \cup {w})
          BY <5>3, FS_Union
        <5>5. QED
          BY <5>2, <5>4
      <4>2. QED
        BY <4>1
    <3> HIDE DEF ends
    <3>2. QED
      BY <3>1
  <2>5. IsFiniteSet(near(n))
    BY <2>2, <2>3
  <2>6. IsFiniteSet(UNION near(n))
    <3> HIDE DEF near
    <3>1. QED
      BY <2>4, <2>5, FS_UNION
  <2>7. IsFiniteSet({u \in UNION near(n) : u >= problem.now})
    <3> HIDE DEF near
    <3>1. QED
      BY <2>6, FS_Subset
  <2>8. QED
    <3> HIDE DEF near
    <3>1. QED
      BY <2>7, FS_Singleton, FS_Union
<1>5. ASSUME NEW n \in Nodes, NEW u, NEW r \in Resources PROVE used(n, u, r) \in Int
  <2>1. IsFiniteSet(ActiveAt(all, n, u)) /\ Demanding(ActiveAt(all, n, u))
    <3>1. ActiveAt(all, n, u) \subseteq all
      BY DEF ActiveAt
    <3> HIDE DEF all
    <3>2. QED
      BY <1>3, <3>1, FS_Subset DEF Demanding
  <2>2. Load(ActiveAt(all, n, u), r) \in Nat
    BY <2>1, UnitsFinite
  <2>3. Background(n, r) \in Int
    BY BackgroundIsNumber
  <2>4. problem.capacity[n][r] \in Nat
    BY <1>2 DEF WellFormed
  <2>5. PICK d : d = Max({1, problem.capacity[n][r]})
    OBVIOUS
  <2>6. d \in Nat /\ d > 0
    BY <2>4, <2>5, MaxOfTwo
  <2>7. Whole \div d \in Int
    BY <2>6, WholeAssumption
  <2>8. PICK b, l, w \in Int : /\ b = Background(n, r) /\ l = Load(ActiveAt(all, n, u), r)
                               /\ w = Whole \div Max({1, problem.capacity[n][r]})
    BY <2>2, <2>3, <2>5, <2>7
  <2>9. used(n, u, r) = (b + l) * w
    BY <2>8
  <2>10. QED
    BY <2>8, <2>9
<1>6. ASSUME NEW n \in Nodes PROVE IsFiniteSet(of(n)) /\ of(n) \in SUBSET Int
  <2> DEFINE S == points(n) \X Resources
             g == [x \in S |-> used(n, x[1], x[2])]
  <2>1. IsFiniteSet(S)
    <3> HIDE DEF points
    <3>1. QED
      BY <1>4, TaskAssumption, FS_Product
  <2>2. of(n) = {g[x] : x \in S} /\ g = [x \in S |-> g[x]]
    <3> HIDE DEF points, used
    <3>1. \A u \in points(n), r \in Resources : <<u, r>> \in S /\ g[<<u, r>>] = used(n, u, r)
      OBVIOUS
    <3>2. \A x \in S : x[1] \in points(n) /\ x[2] \in Resources /\ g[x] = used(n, x[1], x[2])
      OBVIOUS
    <3>3. g = [x \in S |-> g[x]]
      OBVIOUS
    <3> HIDE DEF g, S
    <3>4. ASSUME NEW v \in of(n) PROVE v \in {g[x] : x \in S}
      <4>1. PICK u \in points(n), r \in Resources : v = used(n, u, r)
        OBVIOUS
      <4>2. <<u, r>> \in S /\ g[<<u, r>>] = v
        BY <3>1, <4>1
      <4>3. QED
        BY <4>2
    <3>5. ASSUME NEW x \in S PROVE g[x] \in of(n)
      BY <3>2
    <3>6. QED
      <4> HIDE DEF of
      <4>1. QED
        BY <3>3, <3>4, <3>5
  <2>3. IsFiniteSet({g[x] : x \in S})
    <3> HIDE DEF g, S
    <3>1. QED
      BY <2>1, <2>2, ImageIsFinite
  <2>4. of(n) \in SUBSET Int
    <3> HIDE DEF points, used
    <3>1. QED
      BY <1>5
  <2>5. QED
    <3> HIDE DEF g, S, of
    <3>1. QED
      BY <2>2, <2>3, <2>4
<1>7. IsFiniteSet(seen) /\ seen \in SUBSET Int
  <2> DEFINE g == [n \in Nodes |-> of(n)]
  <2>1. IsFiniteSet({of(n) : n \in Nodes})
    <3> HIDE DEF of
    <3>1. g = [n \in Nodes |-> g[n]] /\ {of(n) : n \in Nodes} = {g[n] : n \in Nodes}
      OBVIOUS
    <3> HIDE DEF g
    <3>2. IsFiniteSet({g[n] : n \in Nodes})
      BY <3>1, NetworkAssumption, ImageIsFinite
    <3>3. QED
      BY <3>1, <3>2
  <2>2. QED
    <3> HIDE DEF of
    <3>1. QED
      BY <1>6, <2>1, FS_UNION
<1>8. IsFiniteSet({0} \cup seen) /\ {0} \cup seen \in SUBSET Int /\ {0} \cup seen # {}
  <2> HIDE DEF seen
  <2>1. IsFiniteSet({0})
    BY FS_Singleton
  <2>2. IsFiniteSet({0} \cup seen)
    BY <1>7, <2>1, FS_Union
  <2>3. QED
    BY <1>7, <2>2
<1>9. QED
  <2> HIDE DEF seen
  <2>1. QED
    BY <1>1, <1>8, MaxOfFinite

\* Every metric of a plan is a number.
LEMMA MetricIsInteger ==
  ASSUME EstimateInv, NEW p, PlanTyped(p), Assigns(p), NEW m \in Metrics
  PROVE  PlanMetric(m, p) \in Int
<1> DEFINE A == Assigned(p)
<1>1. problem \in Problems /\ WellFormed(problem)
  BY ProblemAssumption DEF EstimateInv, Setting
<1>2. IsFiniteSet(A) /\ IsFiniteSet(ToSet(p.assigned)) /\ \A a \in A : Numbered(a)
  BY AssignedDiffer, AssignedAreNumbers
<1>3. problem.now \in Int
  BY <1>1 DEF WellFormed
<1>4. ASSUME NEW g, g = [a \in A |-> g[a]], \A a \in A : g[a] \in Int
      PROVE  Max({g[a] : a \in A} \cup IF A = {} THEN {problem.now} ELSE {}) \in Int
  <2> HIDE DEF A
  <2>1. PICK T : T = {g[a] : a \in A}
    OBVIOUS
  <2>2. T \in SUBSET Int /\ IsFiniteSet(T) /\ (A # {} => T # {})
    <3>1. IsFiniteSet(A)
      BY <1>2
    <3>2. IsFiniteSet({g[a] : a \in A})
      BY <1>4, <3>1, ImageIsFinite
    <3>3. T \in SUBSET Int /\ (A # {} => T # {})
      BY <1>4, <2>1
    <3>4. QED
      BY <2>1, <3>2, <3>3
  <2>3. PICK U : U = T \cup IF A = {} THEN {problem.now} ELSE {}
    OBVIOUS
  <2>4. U \in SUBSET Int /\ IsFiniteSet(U) /\ U # {}
    <3>1. CASE A = {}
      <4>1. U = T \cup {problem.now}
        BY <2>3, <3>1
      <4>2. IsFiniteSet({problem.now})
        BY FS_Singleton
      <4>3. IsFiniteSet(T \cup {problem.now})
        BY <2>2, <4>2, FS_Union
      <4>4. QED
        BY <1>3, <2>2, <4>1, <4>3
    <3>2. CASE A # {}
      <4>1. U = T
        BY <2>3, <3>2
      <4>2. QED
        BY <2>2, <3>2, <4>1
    <3>3. QED
      BY <3>1, <3>2
  <2>5. Max(U) \in Int
    BY <2>4, MaxOfFinite
  <2>6. QED
    BY <2>1, <2>3, <2>5
<1>5. CASE m = "makespan"
  <2> DEFINE g == [a \in A |-> a.finish]
  <2>1. PlanMetric(m, p) = Max({g[a] : a \in A} \cup IF A = {} THEN {problem.now} ELSE {})
    <3>1. {g[a] : a \in A} = {a.finish : a \in A}
      OBVIOUS
    <3>2. PlanMetric(m, p) = Max({a.finish : a \in A} \cup IF A = {} THEN {problem.now} ELSE {})
      BY <1>5 DEF PlanMetric
    <3> HIDE DEF g, A
    <3>3. QED
      BY <3>1, <3>2
  <2>2. g = [a \in A |-> g[a]] /\ \A a \in A : g[a] \in Int
    BY <1>2 DEF Numbered
  <2> HIDE DEF g, A
  <2>3. QED
    BY <1>4, <2>1, <2>2
<1>6. CASE m = "critical"
  <2> DEFINE g == [a \in A |-> a.finish + problem.tail[a.task]]
  <2>1. PlanMetric(m, p) = Max({g[a] : a \in A} \cup IF A = {} THEN {problem.now} ELSE {})
    <3>1. {g[a] : a \in A} = {a.finish + problem.tail[a.task] : a \in A}
      OBVIOUS
    <3>2. PlanMetric(m, p) = Max({a.finish + problem.tail[a.task] : a \in A} \cup
                                   IF A = {} THEN {problem.now} ELSE {})
      BY <1>6 DEF PlanMetric
    <3> HIDE DEF g, A
    <3>3. QED
      BY <3>1, <3>2
  <2>2. \A a \in A : a.finish \in Int /\ problem.tail[a.task] \in Int
    BY <1>1, <1>2 DEF Numbered, WellFormed, Ready
  <2>3. g = [a \in A |-> g[a]] /\ \A a \in A : g[a] \in Int
    BY <2>2
  <2> HIDE DEF g, A
  <2>4. QED
    BY <1>4, <2>1, <2>3
<1>7. CASE m = "drops"
  <2>1. IsFiniteSet(ToSet(p.assigned) \ A)
    BY <1>2, FS_Subset
  <2>2. Cardinality(ToSet(p.assigned) \ A) \in Nat
    BY <2>1, FS_CardinalityType
  <2>3. Len(p.deferred) \in Nat
    BY DEF PlanTyped, Sequence
  <2>4. PlanMetric(m, p) = Cardinality(ToSet(p.assigned) \ A) + Len(p.deferred)
    BY <1>7 DEF PlanMetric
  <2>5. QED
    BY <2>2, <2>3, <2>4
<1>8. CASE m = "utilization"
  <2>1. PlanMetric(m, p) = Peak(p.reservations)
    BY <1>8 DEF PlanMetric
  <2>2. QED
    BY <1>1, <2>1, PeakIsInteger DEF PlanTyped
<1>9. CASE m \in Additive
  <2> DEFINE share(a) == Share(m, a)
             f == [a \in A |-> Share(m, a)]
  <2>1. PlanMetric(m, p) = SumOver(share, A)
    BY <1>9 DEF PlanMetric, Additive
  <2>2. SumOver(share, A) = SumFunctionOnSet(f, A)
    <3>1. \A S : SumOver(share, S) = SumFunctionOnSet([a \in S |-> Share(m, a)], S)
      BY ShareIsSum
    <3>2. PICK S : S = A
      OBVIOUS
    <3>3. SumOver(share, S) = SumFunctionOnSet([a \in S |-> Share(m, a)], S)
      BY <3>1
    <3>4. QED
      BY <3>2, <3>3
  <2>3. \A a \in A : f[a] \in Int
    BY <1>1, <1>2, <1>9, ShareIsInteger
  <2>4. SumFunctionOnSet(f, A) \in Int
    <3> HIDE DEF f, A
    <3>1. QED
      BY <1>2, <2>3, SumIsInteger
  <2>5. QED
    BY <2>1, <2>2, <2>4
<1>10. QED
  BY <1>5, <1>6, <1>7, <1>8, <1>9 DEF Metrics, Additive

\* The key that is made of finitely many numbers is a sequence of numbers.
LEMMA AggregateIsNumbers ==
  ASSUME NEW D, IsFiniteSet(D), NEW v, v = [i \in D |-> v[i]], \A i \in D : v[i].value \in Int
  PROVE  Aggregate(v) \in Seq(Int)
<1> DEFINE value == [i \in D |-> v[i].value]
           sum(S) == SumFunctionOnSet(value, S)
           all == {v[i].priority : i \in D}
           n == Cardinality(all)
<1>1. DOMAIN v = D
  OBVIOUS
<1>2. ASSUME NEW S \in SUBSET D PROVE sum(S) \in Int
  <2>1. IsFiniteSet(S) /\ \A i \in S : value[i] \in Int
    BY FS_Subset
  <2> HIDE DEF value
  <2>2. QED
    BY <2>1, SumIsInteger
<1>3. n \in Nat
  <2> DEFINE g == [i \in D |-> v[i].priority]
  <2>1. g = [i \in D |-> g[i]] /\ all = {g[i] : i \in D}
    OBVIOUS
  <2>2. IsFiniteSet({g[i] : i \in D})
    <3> HIDE DEF g
    <3>1. QED
      BY <2>1, ImageIsFinite
  <2>3. IsFiniteSet(all)
    <3> HIDE DEF g, all
    <3>1. QED
      BY <2>1, <2>2
  <2>4. QED
    <3> HIDE DEF all
    <3>1. QED
      BY <2>3, FS_CardinalityType
<1>4. DOMAIN Priorities(v) = 1 .. n
  BY <1>1 DEF Priorities
<1>5. Aggregate(v) = IF problem.weighted THEN <<sum(D)>>
                     ELSE [k \in 1 .. n |-> sum({i \in D : v[i].priority = Priorities(v)[k]})]
  <2>1. Aggregate(v) = IF problem.weighted THEN <<SumFunctionOnSet([i \in DOMAIN v |-> v[i].value], DOMAIN v)>>
                       ELSE [k \in DOMAIN Priorities(v) |->
                              SumFunctionOnSet([i \in DOMAIN v |-> v[i].value],
                                {i \in DOMAIN v : v[i].priority = Priorities(v)[k]})]
    BY DEF Aggregate
  <2> HIDE DEF n
  <2>2. QED
    BY <1>1, <1>4, <2>1
<1>6. CASE problem.weighted
  <2>1. sum(D) \in Int
    BY <1>2
  <2> HIDE DEF sum
  <2>2. <<sum(D)>> \in Seq(Int)
    BY <2>1
  <2>3. QED
    BY <1>5, <1>6, <2>2
<1>7. CASE ~problem.weighted
  <2> DEFINE F == [k \in 1 .. n |-> sum({i \in D : v[i].priority = Priorities(v)[k]})]
  <2>1. \A k \in 1 .. n : F[k] \in Int
    <3>1. ASSUME NEW k \in 1 .. n PROVE F[k] \in Int
      <4> HIDE DEF sum
      <4>1. {i \in D : v[i].priority = Priorities(v)[k]} \in SUBSET D
        OBVIOUS
      <4>2. sum({i \in D : v[i].priority = Priorities(v)[k]}) \in Int
        BY <1>2, <4>1
      <4>3. QED
        BY <4>2
    <3>2. QED
      BY <3>1
  <2>2. F = [k \in 1 .. n |-> F[k]]
    OBVIOUS
  <2>3. Aggregate(v) = F
    BY <1>5, <1>7
  <2> HIDE DEF F, n
  <2>4. F \in [1 .. n -> Int]
    BY <2>1, <2>2
  <2>5. F \in Seq(Int)
    BY <1>3, <2>4
  <2>6. QED
    BY <2>3, <2>5
<1>8. QED
  BY <1>6, <1>7

\* The terms of the objective key: the objectives, and the soft constraints behind
\* negative numbers.
TermsOf == DOMAIN problem.objectives \cup
             {-j : j \in {i \in DOMAIN problem.constraints : ~problem.constraints[i].hard}}

Term(p, i) ==
  IF i > 0
  THEN LET o == problem.objectives[i]
       IN [priority |-> o.priority,
           value |-> PlanMetric(o.metric, p) * o.weight * IF o.maximize THEN -1 ELSE 1]
  ELSE LET c == problem.constraints[-i]
       IN [priority |-> c.priority, value |-> Violation(c, p) * c.penalty]

LEMMA KeyOfTerms ==
  ASSUME problem \in Problems, NEW p
  PROVE  ObjectiveKey(p) = Aggregate([i \in TermsOf |-> Term(p, i)])
<1> DEFINE terms == [i \in DOMAIN problem.objectives |->
                       LET o == problem.objectives[i]
                       IN [priority |-> o.priority,
                           value |-> PlanMetric(o.metric, p) * o.weight * IF o.maximize THEN -1 ELSE 1]]
           penalty(c) == [priority |-> c.priority, value |-> Violation(c, p) * c.penalty]
<1>1. ObjectiveKey(p) = Aggregate([i \in TermsOf |->
                          IF i > 0 THEN terms[i] ELSE penalty(problem.constraints[-i])])
  <2>1. DOMAIN terms = DOMAIN problem.objectives
    OBVIOUS
  <2>2. ObjectiveKey(p) =
          Aggregate([i \in DOMAIN terms \cup
                         {-j : j \in {i \in DOMAIN problem.constraints : ~problem.constraints[i].hard}} |->
                       IF i > 0 THEN terms[i] ELSE penalty(problem.constraints[-i])])
    BY DEF ObjectiveKey, Objectives
  <2> HIDE DEF terms, penalty
  <2>3. QED
    BY <2>1, <2>2 DEF TermsOf
<1>2. ASSUME NEW i \in TermsOf
      PROVE  (IF i > 0 THEN terms[i] ELSE penalty(problem.constraints[-i])) = Term(p, i)
  <2>1. i > 0 => i \in DOMAIN problem.objectives
    <3>1. DOMAIN problem.constraints = 1 .. Len(problem.constraints) /\ Len(problem.constraints) \in Nat
      BY ProblemAssumption DEF WellFormed
    <3>2. \A j \in DOMAIN problem.constraints : ~(-j > 0)
      BY <3>1
    <3>3. QED
      BY <3>2 DEF TermsOf
  <2>2. CASE i > 0
    <3>1. terms[i] = Term(p, i)
      BY <2>1, <2>2 DEF Term
    <3> HIDE DEF terms
    <3>2. QED
      BY <2>2, <3>1
  <2>3. CASE ~(i > 0)
    <3>1. penalty(problem.constraints[-i]) = Term(p, i)
      BY <2>3 DEF Term
    <3> HIDE DEF penalty
    <3>2. QED
      BY <2>3, <3>1
  <2>4. QED
    BY <2>2, <2>3
<1>3. [i \in TermsOf |-> IF i > 0 THEN terms[i] ELSE penalty(problem.constraints[-i])]
        = [i \in TermsOf |-> Term(p, i)]
  <2> HIDE DEF terms, penalty
  <2>1. QED
    BY <1>2
<1>4. QED
  BY <1>1, <1>3

\* How a plan is ranked is said in numbers.
LEMMA KeyIsNumbers ==
  ASSUME EstimateInv, NEW p, PlanTyped(p), Assigns(p)
  PROVE  ObjectiveKey(p) \in Seq(Int)
<1>1. problem \in Problems /\ WellFormed(problem)
  BY ProblemAssumption DEF EstimateInv, Setting
<1>2. /\ DOMAIN problem.objectives = 1 .. Len(problem.objectives) /\ Len(problem.objectives) \in Nat
      /\ DOMAIN problem.constraints = 1 .. Len(problem.constraints)
      /\ Len(problem.constraints) \in Nat
      /\ \A i \in DOMAIN problem.objectives :
           /\ problem.objectives[i].metric \in Metrics /\ problem.objectives[i].weight \in Nat \ {0}
      /\ \A i \in DOMAIN problem.constraints :
           /\ problem.constraints[i].metric \in Metrics /\ problem.constraints[i].bound \in Int
           /\ problem.constraints[i].penalty \in Nat
  BY <1>1 DEF WellFormed, ToSet
<1>3. IsFiniteSet(TermsOf)
  <2> DEFINE S == {i \in DOMAIN problem.constraints : ~problem.constraints[i].hard}
             g == [j \in S |-> -j]
  <2>1. \A k \in Nat : IsFiniteSet(1 .. k)
    BY FS_Interval
  <2>2. IsFiniteSet(DOMAIN problem.objectives) /\ IsFiniteSet(DOMAIN problem.constraints)
    BY <1>2, <2>1
  <2>3. IsFiniteSet(S)
    BY <2>2, FS_Subset
  <2>4. g = [j \in S |-> g[j]] /\ {g[j] : j \in S} = {-j : j \in S}
    OBVIOUS
  <2>5. IsFiniteSet({g[j] : j \in S})
    <3> HIDE DEF g, S
    <3>1. QED
      BY <2>3, <2>4, ImageIsFinite
  <2>6. TermsOf = DOMAIN problem.objectives \cup {g[j] : j \in S}
    BY <2>4 DEF TermsOf
  <2>7. QED
    <3> HIDE DEF g, S
    <3>1. QED
      BY <2>2, <2>5, <2>6, FS_Union
<1>4. ASSUME NEW c, c.metric \in Metrics, c.bound \in Int PROVE Violation(c, p) \in Int
  <2>1. PICK m \in Int : m = PlanMetric(c.metric, p)
    BY <1>4, MetricIsInteger
  <2>2. Violation(c, p) = Max({0, IF c.atMost THEN m - c.bound ELSE c.bound - m})
    BY <2>1 DEF Violation, Positive
  <2>3. PICK x \in Int : x = IF c.atMost THEN m - c.bound ELSE c.bound - m
    BY <1>4
  <2>4. Max({0, x}) \in Int
    BY MaxOfTwo
  <2>5. QED
    BY <2>2, <2>3, <2>4
<1>5. ASSUME NEW i \in TermsOf PROVE Term(p, i).value \in Int
  <2>1. CASE i \in DOMAIN problem.objectives
    <3>1. PICK o : o = problem.objectives[i]
      OBVIOUS
    <3>2. PICK m, w \in Int : m = PlanMetric(o.metric, p) /\ w = o.weight
      BY <1>2, <2>1, <3>1, MetricIsInteger
    <3>3. i > 0
      BY <1>2, <2>1
    <3>4. Term(p, i).value = m * w * IF o.maximize THEN -1 ELSE 1
      BY <3>1, <3>2, <3>3 DEF Term
    <3>5. m * w \in Int /\ (m * w) * (-1) \in Int /\ (m * w) * 1 \in Int
      BY <3>2
    <3>6. QED
      BY <3>4, <3>5
  <2>2. CASE i \notin DOMAIN problem.objectives
    <3>1. PICK j \in DOMAIN problem.constraints : i = -j
      BY <2>2 DEF TermsOf
    <3>2. j \in Nat /\ ~(i > 0) /\ -i = j
      BY <1>2, <3>1
    <3>3. PICK c : c = problem.constraints[j]
      OBVIOUS
    <3>4. PICK v, w \in Int : v = Violation(c, p) /\ w = c.penalty
      BY <1>2, <1>4, <3>1, <3>3
    <3>5. Term(p, i).value = v * w
      BY <3>2, <3>3, <3>4 DEF Term
    <3>6. QED
      BY <3>4, <3>5
  <2>3. QED
    BY <2>1, <2>2
<1>6. PICK v : v = [i \in TermsOf |-> Term(p, i)]
  OBVIOUS
<1>7. v = [i \in TermsOf |-> v[i]] /\ \A i \in TermsOf : v[i].value \in Int
  BY <1>5, <1>6
<1>8. Aggregate(v) \in Seq(Int)
  BY <1>3, <1>7, AggregateIsNumbers
<1>9. QED
  BY <1>1, <1>6, <1>8, KeyOfTerms

---------------------------------------------------------------------------
(* The reference plans. *)

\* Two plans that differ in their status and iterations at most.
Alike(p, q) ==
  /\ q.assigned = p.assigned /\ q.reservations = p.reservations
  /\ q.transfers = p.transfers /\ q.deferred = p.deferred

\* They are ranked alike.
LEMMA AlikeKeys ==
  ASSUME problem \in Problems, NEW p, NEW q, Alike(p, q)
  PROVE  /\ ObjectiveKey(q) = ObjectiveKey(p) /\ HardViolation(q) = HardViolation(p)
         /\ \A r : AsGood(p, r) = AsGood(q, r) /\ AsGood(r, p) = AsGood(r, q)
<1>1. Assigned(q) = Assigned(p) /\ q.assigned = p.assigned
  BY DEF Assigned, Alike
<1>2. \A m : PlanMetric(m, q) = PlanMetric(m, p)
  BY <1>1 DEF PlanMetric, Alike
<1>3. \A c : Violation(c, q) = Violation(c, p)
  BY <1>2 DEF Violation
<1>4. \A i : Term(q, i) = Term(p, i)
  BY <1>2, <1>3 DEF Term
<1>5. [i \in TermsOf |-> Term(q, i)] = [i \in TermsOf |-> Term(p, i)]
  BY <1>4
<1>6. ObjectiveKey(q) = ObjectiveKey(p)
  BY <1>5, KeyOfTerms
<1>7. HardViolation(q) = HardViolation(p)
  BY <1>3 DEF HardViolation
<1>8. QED
  BY <1>1, <1>6, <1>7 DEF AsGood

\* How plans are ranked depends on the problem alone.
LEMMA KeyStays ==
  ASSUME UNCHANGED problem
  PROVE  /\ \A p : ObjectiveKey(p)' = ObjectiveKey(p)
         /\ \A p, q : AsGood(p, q)' = AsGood(p, q)
<1>1. \A m, p : PlanMetric(m, p)' = PlanMetric(m, p)
  BY DEF PlanMetric, Peak, Background, Load, ActiveAt, Share, Rank,
         Mismatch, Positive, Away, Count, SumOver, MapThenSumSet, MapThenFoldSet, Assigned
<1>2. \A v : Aggregate(v)' = Aggregate(v)
  BY DEF Aggregate
<1>3. \A c, p : Violation(c, p)' = Violation(c, p)
  BY <1>1 DEF Violation
<1>4. ASSUME NEW p PROVE ObjectiveKey(p)' = ObjectiveKey(p)
  <2> DEFINE terms == [i \in DOMAIN problem.objectives |->
                         LET o == problem.objectives[i]
                         IN [priority |-> o.priority,
                             value |-> PlanMetric(o.metric, p) * o.weight
                                         * IF o.maximize THEN -1 ELSE 1]]
             soft == {i \in DOMAIN problem.constraints : ~problem.constraints[i].hard}
             penalty(c) == [priority |-> c.priority, value |-> Violation(c, p) * c.penalty]
             values == [i \in DOMAIN terms \cup {-j : j \in soft} |->
                          IF i > 0 THEN terms[i] ELSE penalty(problem.constraints[-i])]
  <2>1. PICK v : v = values
    OBVIOUS
  <2>2. values' = values
    <3>1. terms' = terms
      BY <1>1
    <3>2. \A c : penalty(c)' = penalty(c)
      BY <1>3
    <3>3. soft' = soft
      OBVIOUS
    <3> HIDE DEF terms, penalty, soft
    <3>4. QED
      BY <3>1, <3>2, <3>3
  <2>3. ObjectiveKey(p) = Aggregate(v)
    BY <2>1 DEF ObjectiveKey, Objectives
  <2>4. v = values'
    <3> HIDE DEF values
    <3>1. QED
      BY <2>1, <2>2
  <2>5. ObjectiveKey(p)' = Aggregate(v)'
    BY <2>4 DEF ObjectiveKey, Objectives
  <2>6. QED
    BY <1>2, <2>3, <2>5
<1>5. QED
  BY <1>4 DEF AsGood

\* The stages of the plan of a decision, of the candidates it stands for.
Along(cs, n) ==
  LET step[i \in 0 .. n] == IF i = 0 THEN [plan |-> EmptyPlan, links |-> problem.linkFree]
                                     ELSE Scheduled(cs[i], step[i - 1])
  IN step

\* They depend on the problem, the candidates and their order.
LEMMA ScheduleStays ==
  ASSUME UNCHANGED <<problem, candidates, optimizer>>
  PROVE  /\ \A s : Stages(s)' = Stages(s) /\ Schedule(s)' = Schedule(s)
         /\ Decisions' = Decisions /\ \A c : TooBig(c)' = TooBig(c)
<1>1. \A c, b : Scheduled(c, b)' = Scheduled(c, b)
  BY DEF Scheduled, Transferred, Transfer, Free, Fits, Background, Load, ActiveAt, Reservation
<1>2. ASSUME NEW cs, NEW n PROVE Along(cs, n)' = Along(cs, n)
  <2> DEFINE After(g) == [i \in 0 .. n |-> IF i = 0 THEN [plan |-> EmptyPlan, links |-> problem.linkFree]
                                           ELSE Scheduled(cs[i], g[i - 1])]
  <2>1. ASSUME NEW g PROVE After(g)' = After(g)
    BY <1>1
  <2>2. Along(cs, n) = CHOOSE g : g = After(g)
    BY DEF Along
  <2>3. Along(cs, n)' = CHOOSE g : g = After(g)'
    BY DEF Along
  <2>4. QED
    <3> HIDE DEF After
    <3>1. QED
      BY <2>1, <2>2, <2>3
<1>3. ASSUME NEW s PROVE Stages(s)' = Stages(s)
  <2>1. PICK cs : cs = Chosen(s)
    OBVIOUS
  <2>2. cs = Chosen(s)'
    BY <2>1, ChosenStays
  <2>3. Stages(s) = Along(cs, Len(s))
    BY <2>1 DEF Stages, Along
  <2>4. Stages(s)' = Along(cs, Len(s))'
    BY <2>2 DEF Stages, Along
  <2>5. QED
    BY <1>2, <2>3, <2>4
<1>4. \A s : Schedule(s)' = Schedule(s)
  BY <1>3 DEF Schedule
<1>5. Decisions' = Decisions
  BY DEF Decisions
<1>6. \A c : TooBig(c)' = TooBig(c)
  BY DEF TooBig, Background, Load, ActiveAt
<1>7. QED
  BY <1>3, <1>4, <1>5, <1>6

\* Every stage has a task more than the one before it.
LEMMA StagesUnfold ==
  ASSUME NEW s, Len(s) \in Nat
  PROVE  /\ Stages(s)[0] = [plan |-> EmptyPlan, links |-> problem.linkFree]
         /\ \A i \in 1 .. Len(s) : Stages(s)[i] = Scheduled(Chosen(s)[i], Stages(s)[i - 1])
<1> DEFINE n == Len(s)
           cs == Chosen(s)
           base == [plan |-> EmptyPlan, links |-> problem.linkFree]
           after(b, i) == Scheduled(cs[i], b)
           Steps(f, k) == f = [i \in 0 .. k |-> IF i = 0 THEN base ELSE after(f[i - 1], i)]
<1>1. n \in Nat
  OBVIOUS
<1>2. Stages(s) = CHOOSE f : Steps(f, n)
  BY DEF Stages
<1> HIDE DEF base, after, n
<1>3. \A k \in 0 .. n : \E f : Steps(f, k)
  <2> DEFINE bad == {k \in 0 .. n : ~\E f : Steps(f, k)}
             k == Min(bad)
  <2>1. SUFFICES ASSUME bad # {} PROVE FALSE
    OBVIOUS
  <2>2. k \in bad /\ \A j \in bad : k <= j
    <3>1. bad \in SUBSET Nat
      BY <1>1
    <3> HIDE DEF bad
    <3>2. QED
      BY <2>1, <3>1, MinOfSet
  <2> HIDE DEF k
  <2>3. k \in 0 .. n /\ k \in Nat /\ ~\E f : Steps(f, k)
    BY <1>1, <2>2
  <2>4. CASE k = 0
    <3>1. Steps([i \in 0 .. 0 |-> base], 0)
      OBVIOUS
    <3>2. QED
      BY <2>3, <2>4, <3>1
  <2>5. CASE k # 0
    <3>1. k - 1 \in 0 .. n /\ ~(k <= k - 1)
      BY <1>1, <2>3, <2>5
    <3>2. k - 1 \notin bad
      BY <2>2, <3>1
    <3>3. PICK f : Steps(f, k - 1)
      BY <3>1, <3>2
    <3> DEFINE g == [i \in 0 .. k |-> IF i = k THEN after(f[k - 1], k) ELSE f[i]]
    <3>4. ASSUME NEW i \in 0 .. k PROVE g[i] = IF i = 0 THEN base ELSE after(g[i - 1], i)
      <4>1. CASE i = k
        <5>1. k - 1 \in 0 .. k /\ k - 1 # k
          BY <2>3, <2>5
        <5>2. g[k - 1] = f[k - 1] /\ g[k] = after(f[k - 1], k)
          BY <2>3, <5>1
        <5>3. QED
          BY <2>5, <4>1, <5>2
      <4>2. CASE i # k
        <5>1. i \in 0 .. k - 1 /\ g[i] = f[i]
          BY <2>3, <4>2
        <5>2. f[i] = IF i = 0 THEN base ELSE after(f[i - 1], i)
          BY <3>3, <5>1
        <5>3. CASE i = 0
          BY <5>1, <5>2, <5>3
        <5>4. CASE i # 0
          <6>1. i - 1 \in 0 .. k /\ i - 1 # k
            BY <2>3, <5>1, <5>4
          <6>2. g[i - 1] = f[i - 1]
            BY <6>1
          <6>3. QED
            BY <5>1, <5>2, <5>4, <6>2
        <5>5. QED
          BY <5>3, <5>4
      <4>3. QED
        BY <4>1, <4>2
    <3>5. Steps(g, k)
      <4>1. g = [i \in 0 .. k |-> g[i]]
        OBVIOUS
      <4> HIDE DEF g
      <4>2. QED
        BY <3>4, <4>1
    <3>6. QED
      BY <2>3, <3>5
  <2>6. QED
    BY <2>4, <2>5
<1>4. PICK step : step = (CHOOSE f : Steps(f, n)) /\ Steps(step, n)
  <2> HIDE DEF Steps
  <2>1. n \in 0 .. n
    BY <1>1
  <2>2. \E f : Steps(f, n)
    BY <1>3, <2>1
  <2>3. QED
    BY <2>2
<1>5. step[0] = base
  <2>1. 0 \in 0 .. n
    BY <1>1
  <2>2. step[0] = IF 0 = 0 THEN base ELSE after(step[0 - 1], 0)
    BY <1>4, <2>1
  <2>3. QED
    BY <2>2
<1>6. ASSUME NEW i \in 1 .. n PROVE step[i] = after(step[i - 1], i)
  <2>1. i \in 0 .. n /\ i # 0
    BY <1>1
  <2>2. QED
    BY <1>4, <2>1
<1>7. QED
  BY <1>2, <1>4, <1>5, <1>6 DEF n, base, after

\* A decision stands for candidates of the tasks, each for its own.
LEMMA ChosenIsCandidate ==
  ASSUME EstimateInv, optimizer = "exhaustive", NEW s \in Decisions, NEW i \in DOMAIN s
  PROVE  Chosen(s)[i] \in candidates /\ Chosen(s)[i].task = problem.tasks[i]
<1> DEFINE own == {c \in candidates : c.task = problem.tasks[i]}
           ahead(c) == {d \in own : d.node < c.node}
           node == [c \in own |-> c.node]
           F == {node[c] : c \in own}
           k == s[i]
<1>1. \A c \in own : c.node \in Nodes /\ c.node \in Nat \ {0}
  BY NetworkAssumption, TaskAssumption DEF EstimateInv, Estimated, CandidateRight, AllowedNodes
<1>2. \A c, d \in own : node[c] = node[d] => c = d
  BY DEF EstimateInv, Estimated
<1>3. F \subseteq Nodes /\ IsFiniteSet(F)
  <2>1. F \subseteq Nodes
    BY <1>1
  <2> HIDE DEF F
  <2>2. QED
    BY <2>1, NetworkAssumption, FS_Subset
<1>4. IsFiniteSet(own)
  <2>1. node = [c \in own |-> node[c]] /\ \A c \in own : node[c] \in F
    OBVIOUS
  <2> HIDE DEF F, node, own
  <2>2. node \in [own -> F] /\ \A c, d \in own : node[c] = node[d] => c = d
    BY <1>2, <2>1
  <2>3. node \in Injection(own, F)
    BY <2>2, Zenon DEF Injection, IsInjective
  <2>4. QED
    BY <1>3, <2>3, FS_Injection
<1>5. Cardinality(F) = Cardinality(own)
  <2>1. node = [c \in own |-> node[c]]
    OBVIOUS
  <2> HIDE DEF node, own
  <2>2. QED
    BY <1>2, <1>4, <2>1, AsMany
<1>6. k \in 1 .. Cardinality(F)
  <2>1. k \in 1 .. Cardinality(Nodes) /\ k <= Cardinality(own)
    BY DEF Decisions
  <2>2. Cardinality(F) \in Nat
    <3> HIDE DEF F
    <3>1. QED
      BY <1>3, FS_CardinalityType
  <2> HIDE DEF F, own, k
  <2>3. QED
    BY <1>5, <2>1, <2>2
<1>7. PICK m \in Nat : F \in SUBSET (1 .. m)
  <2>1. \A x \in F : x \in Nat \ {0}
    BY <1>1
  <2>2. F # {}
    <3>1. own # {}
      <4>1. ASSUME own = {} PROVE FALSE
        <5>1. F = {}
          BY <4>1
        <5>2. Cardinality(F) = 0
          BY <5>1, FS_EmptySet
        <5> HIDE DEF F, k
        <5>3. QED
          BY <1>6, <5>2
      <4>2. QED
        BY <4>1
    <3>2. QED
      BY <3>1
  <2> HIDE DEF F
  <2>3. F \in SUBSET Int
    BY <2>1
  <2>4. Max(F) \in F /\ \A x \in F : x <= Max(F)
    BY <1>3, <2>2, <2>3, MaxOfFinite
  <2>5. Max(F) \in Nat /\ \A x \in F : x \in 1 .. Max(F)
    BY <2>1, <2>4
  <2>6. QED
    BY <2>5
<1>8. PICK x \in F : Cardinality({j \in F : j < x}) = k - 1
  <2> HIDE DEF F, k
  <2>1. QED
    BY <1>6, <1>7, NthExists
<1>9. PICK c \in own : x = c.node
  BY <1>8
<1>10. Cardinality(ahead(c)) = k - 1
  <2> DEFINE g == [d \in ahead(c) |-> d.node]
  <2>1. IsFiniteSet(ahead(c))
    <3> HIDE DEF own
    <3>1. QED
      BY <1>4, FS_Subset
  <2>2. g = [d \in ahead(c) |-> g[d]] /\ \A d, e \in ahead(c) : g[d] = g[e] => d = e
    BY <1>2
  <2>3. Cardinality({g[d] : d \in ahead(c)}) = Cardinality(ahead(c))
    <3> HIDE DEF g, ahead
    <3>1. QED
      BY <2>1, <2>2, AsMany
  <2>4. {g[d] : d \in ahead(c)} = {j \in F : j < x}
    BY <1>9
  <2>5. QED
    <3> HIDE DEF g, ahead, F, k
    <3>1. QED
      BY <1>8, <2>3, <2>4
<1>11. \A d \in own : {e \in own : Precedes(<<e.node>>, <<d.node>>)} = ahead(d)
  <2>1. \A a, b \in Nat : Precedes(<<a>>, <<b>>) <=> a < b
    <3>1. SUFFICES ASSUME NEW a \in Nat, NEW b \in Nat PROVE Precedes(<<a>>, <<b>>) <=> a < b
      OBVIOUS
    <3>2. PICK p, q : p = <<a>> /\ q = <<b>>
      OBVIOUS
    <3>3. p \in Seq(Int) /\ q \in Seq(Int) /\ Len(p) = 1 /\ Len(q) = 1 /\ p[1] = a /\ q[1] = b
      BY <3>2
    <3>4. Before(p, q) <=> a < b
      <4>1. ASSUME Before(p, q) PROVE a < b
        <5>1. PICK m1 \in 0 .. Len(q) : m1 < Len(q) /\ (m1 < Len(p) => p[m1 + 1] < q[m1 + 1])
          BY <4>1 DEF Before
        <5>2. m1 = 0
          BY <3>3, <5>1
        <5>3. QED
          BY <3>3, <5>1, <5>2
      <4>2. ASSUME a < b PROVE Before(p, q)
        <5>1. /\ 0 \in 0 .. Len(q) /\ 0 <= Len(p) /\ 0 < Len(q)
              /\ (\A j \in 1 .. 0 : p[j] = q[j]) /\ p[0 + 1] < q[0 + 1]
          BY <3>3, <4>2
        <5>2. QED
          BY <5>1 DEF Before
      <4>3. QED
        BY <4>1, <4>2
    <3>5. QED
      BY <3>2, <3>3, <3>4, PrecedesIsBefore
  <2>2. QED
    <3> HIDE DEF own
    <3>1. QED
      BY <1>1, <2>1
<1>12. Chosen(s)[i] = CHOOSE d \in own : Cardinality(ahead(d)) = k - 1
  <2>1. OptionOrder(i) = [j \in 1 .. Cardinality(own) |->
          CHOOSE d \in own : Cardinality({e \in own : Precedes(<<e.node>>, <<d.node>>)}) = j - 1]
    BY DEF OptionOrder
  <2>2. k \in 1 .. Cardinality(own)
    BY <1>5, <1>6
  <2>3. Chosen(s)[i] = OptionOrder(i)[k]
    BY DEF Chosen
  <2>4. OptionOrder(i)[k] =
          CHOOSE d \in own : Cardinality({e \in own : Precedes(<<e.node>>, <<d.node>>)}) = k - 1
    <3> HIDE DEF own, k
    <3>1. QED
      BY <2>1, <2>2
  <2>5. QED
    <3> HIDE DEF own, ahead, k
    <3>1. QED
      BY <1>11, <2>3, <2>4
<1>13. Chosen(s)[i] \in own
  <2> HIDE DEF own, ahead, k
  <2>1. QED
    BY <1>9, <1>10, <1>12
<1>14. QED
  BY <1>13

---------------------------------------------------------------------------
(* What makes the best plan the best. *)

\* The nodes of a plan, and what a plan is ranked by.
NodesOf(p) == [i \in DOMAIN p.assigned |-> p.assigned[i].node]
Ranked(p) == ObjectiveKey(p) \in Seq(Int) /\ NodesOf(p) \in Seq(Int)

SearchingAt == {"select", "refused", "task", "option", "place", "score"}

Parts == {"assigned", "reservations", "transfers", "deferred"}

\* The draft is the plan of the decision looked at, as far as it has been placed.
Following ==
  optimizer = "exhaustive" /\ Drafting =>
    LET stage == Stages(selection)[Decided]
    IN /\ selection \in Decisions
       /\ \A i \in DOMAIN todo : todo[i] = problem.tasks[Decided + i]
       /\ Parts \subseteq DOMAIN stage.plan
       /\ Alike(stage.plan, draft) /\ links = stage.links
       /\ Len(draft.assigned) = Decided
       /\ \A i \in 1 .. Decided : draft.assigned[i].node = Chosen(selection)[i].node

\* The candidate placed next, and where it belongs.
Upcoming == Chosen(selection)[Decided + 1]
Opening(c) == Max({Transferred(c, links).at, problem.free[c.node]})
Latest(c) == Max({Opening(c)} \cup {x.finish : x \in calendar})
Proposed(c) ==
  PlacedAt(c, Transferred(c, links).made, Min({u \in Opening(c) .. Latest(c) : Free(calendar, c, u)}))

PlacesBest ==
  optimizer = "exhaustive" =>
    /\ pc = "option" => Upcoming \in options \/ placed # {} \/ TooBig(Upcoming)
    /\ pc \in {"option", "place"} => \A x \in placed : x = Proposed(Upcoming)
    /\ pc = "place" => cursor <= Latest(Upcoming)

\* A decision is done with: it is no plan, or the best one so far is as good.
Dealt(s) ==
  \/ ~Affordable(Chosen(s)) \/ \E i \in DOMAIN s : TooBig(Chosen(s)[i])
  \/ HardViolation(Schedule(s))
  \/ incumbent # <<>> /\ Ranked(Schedule(s)) /\ AsGood(incumbent[1].plan, Schedule(s))

Searching ==
  optimizer = "exhaustive" /\ pc \in SearchingAt =>
    /\ remaining \subseteq Decisions
    /\ \A s \in Decisions : s \in remaining \/ (Drafting /\ s = selection) \/ Dealt(s)

BestKept ==
  incumbent # <<>> =>
    LET b == incumbent[1]
    IN Ranked(b.plan) /\ b.key = ObjectiveKey(b.plan) /\ b.nodes = NodesOf(b.plan)

\* A plan is returned at the end, and no draft calls itself optimal.
Unanswered == (plan # <<>> => pc \in {"validate", "accepted", "rejected"}) /\ draft.status # "optimal"

OptimalInv ==
  Following /\ PlacesBest /\ Searching /\ BestKept /\ Unanswered /\ OptimalIsOptimal

---------------------------------------------------------------------------
(* What does not move. *)

\* Whether a decision is done with depends on the best plan so far.
LEMMA DealtStays ==
  ASSUME UNCHANGED <<problem, candidates, optimizer, incumbent>>
  PROVE  \A s : Dealt(s)' = Dealt(s)
<1>1. SUFFICES ASSUME NEW s PROVE Dealt(s)' = Dealt(s)
  OBVIOUS
<1>2. PICK cs, r : cs = Chosen(s) /\ r = Schedule(s)
  OBVIOUS
<1>3. Chosen(s)' = cs /\ Schedule(s)' = r
  BY <1>2, ChosenStays, ScheduleStays
<1>4. Affordable(Chosen(s))' = Affordable(Chosen(s))
  <2>1. Affordable(cs)' = Affordable(cs)
    BY AffordableStays
  <2>2. QED
    BY <1>2, <1>3, <2>1
<1>5. (\E i \in DOMAIN s : TooBig(Chosen(s)[i]))' = (\E i \in DOMAIN s : TooBig(Chosen(s)[i]))
  <2>1. \A c : TooBig(c)' = TooBig(c)
    BY ScheduleStays
  <2>2. QED
    BY <1>2, <1>3, <2>1
<1>6. HardViolation(Schedule(s))' = HardViolation(Schedule(s))
  <2>1. HardViolation(r)' = HardViolation(r)
    BY KeptStays
  <2>2. QED
    BY <1>2, <1>3, <2>1
<1>7. /\ Ranked(Schedule(s))' = Ranked(Schedule(s))
      /\ AsGood(incumbent[1].plan, Schedule(s))' = AsGood(incumbent[1].plan, Schedule(s))
  <2>1. PICK p : p = incumbent[1].plan
    OBVIOUS
  <2>2. ObjectiveKey(r)' = ObjectiveKey(r) /\ AsGood(p, r)' = AsGood(p, r)
    BY KeyStays
  <2>3. Ranked(r)' = Ranked(r)
    BY <2>2 DEF Ranked, NodesOf
  <2>4. QED
    BY <1>2, <1>3, <2>1, <2>2, <2>3
<1>8. QED
  BY <1>4, <1>5, <1>6, <1>7 DEF Dealt

\* What is known of the best plan depends on the problem.
LEMMA BestStays ==
  ASSUME BestKept, UNCHANGED <<problem, incumbent>>
  PROVE  BestKept'
<1>1. PICK p : p = incumbent[1].plan
  OBVIOUS
<1>2. ObjectiveKey(p)' = ObjectiveKey(p)
  BY KeyStays
<1>3. QED
  BY <1>1, <1>2 DEF BestKept, Ranked, NodesOf

\* What OPTIMAL promises depends on the plan.
LEMMA OptimalStays ==
  ASSUME OptimalIsOptimal, UNCHANGED <<problem, candidates, optimizer, plan>>
  PROVE  OptimalIsOptimal'
<1>1. SUFFICES ASSUME plan # <<>>, plan[1].status = "optimal", NEW s \in Decisions,
                      Affordable(Chosen(s))', (\A i \in DOMAIN s : ~TooBig(Chosen(s)[i]))'
               PROVE  (HardViolation(Schedule(s)) \/ AsGood(plan[1], Schedule(s)))'
  BY ScheduleStays DEF OptimalIsOptimal
<1>2. PICK cs, r, p : cs = Chosen(s) /\ r = Schedule(s) /\ p = plan[1]
  OBVIOUS
<1>3. Chosen(s)' = cs /\ Schedule(s)' = r /\ (\A c : TooBig(c)' = TooBig(c))
  BY <1>2, ChosenStays, ScheduleStays
<1>4. /\ Affordable(cs)' = Affordable(cs) /\ HardViolation(r)' = HardViolation(r)
      /\ AsGood(p, r)' = AsGood(p, r)
  BY AffordableStays, KeptStays, KeyStays
<1>5. Affordable(cs) /\ \A i \in DOMAIN s : ~TooBig(cs[i])
  BY <1>1, <1>3, <1>4
<1>6. HardViolation(r) \/ AsGood(p, r)
  BY <1>1, <1>2, <1>5 DEF OptimalIsOptimal
<1>7. QED
  BY <1>2, <1>3, <1>4, <1>6

\* Nothing is returned while the search goes on.
LEMMA NothingReturned ==
  ASSUME Unanswered, pc \notin {"validate", "accepted", "rejected"}, UNCHANGED plan,
         draft'.status # "optimal"
  PROVE  Unanswered' /\ OptimalIsOptimal'
<1>1. plan' = <<>>
  BY DEF Unanswered
<1>2. QED
  BY <1>1 DEF Unanswered, OptimalIsOptimal

\* Where the exhaustive search is not at work, only the plan returned matters.
LEMMA OptimalElsewhere ==
  ASSUME BestKept, UNCHANGED <<problem, incumbent>>,
         optimizer' # "exhaustive" \/ pc' \notin SearchingAt,
         Unanswered', OptimalIsOptimal'
  PROVE  OptimalInv'
<1>1. Following' /\ PlacesBest' /\ Searching'
  BY DEF Following, Drafting, PlacesBest, Searching, SearchingAt
<1>2. QED
  BY <1>1, BestStays DEF OptimalInv

\* The draft follows the decision while it is not worked on.
LEMMA FollowingStays ==
  ASSUME Following, UNCHANGED <<problem, candidates, optimizer, todo, draft, links, selection>>,
         Drafting' => Drafting
  PROVE  Following'
<1>1. Stages(selection)' = Stages(selection) /\ Decisions' = Decisions
      /\ Chosen(selection)' = Chosen(selection)
  BY ScheduleStays, ChosenStays
<1>2. Decided' = Decided
  BY DEF Decided
<1>3. SUFFICES ASSUME optimizer = "exhaustive", Drafting' PROVE Following'
  BY DEF Following
<1>4. PICK st, n, cs : st = Stages(selection)[n] /\ n = Decided /\ cs = Chosen(selection)
  OBVIOUS
<1>5. Stages(selection)'[n] = st
  BY <1>1, <1>4
<1>6. /\ selection \in Decisions
      /\ \A i \in DOMAIN todo : todo[i] = problem.tasks[n + i]
      /\ Parts \subseteq DOMAIN st.plan
      /\ Alike(st.plan, draft) /\ links = st.links
      /\ Len(draft.assigned) = n
      /\ \A i \in 1 .. n : draft.assigned[i].node = cs[i].node
  BY <1>3, <1>4 DEF Following
<1>7. QED
  BY <1>1, <1>2, <1>4, <1>5, <1>6 DEF Following, Alike

\* The decisions left and those done with stay.
LEMMA SearchingStays ==
  ASSUME Searching,
         UNCHANGED <<problem, candidates, optimizer, remaining, selection, incumbent>>,
         pc \in SearchingAt, Drafting => Drafting'
  PROVE  Searching'
<1>1. Decisions' = Decisions /\ \A s : Dealt(s)' = Dealt(s)
  BY ScheduleStays, DealtStays
<1>2. QED
  BY <1>1 DEF Searching

\* Where a candidate belongs stays.
LEMMA UpcomingStays ==
  ASSUME UNCHANGED <<problem, candidates, optimizer, selection, todo, calendar, links>>
  PROVE  /\ Upcoming' = Upcoming
         /\ \A c : /\ Proposed(c)' = Proposed(c) /\ Latest(c)' = Latest(c)
                   /\ TooBig(c)' = TooBig(c)
<1>1. Upcoming' = Upcoming
  <2>1. Chosen(selection)' = Chosen(selection) /\ Decided' = Decided
    BY ChosenStays DEF Decided
  <2>2. QED
    BY <2>1 DEF Upcoming
<1>2. ASSUME NEW c
      PROVE  Proposed(c)' = Proposed(c) /\ Latest(c)' = Latest(c) /\ TooBig(c)' = TooBig(c)
  <2>1. Transferred(c, links)' = Transferred(c, links)
    BY DEF Transferred, Transfer
  <2>2. Opening(c)' = Opening(c)
    BY <2>1 DEF Opening
  <2>3. Latest(c)' = Latest(c)
    BY <2>2 DEF Latest
  <2>4. \A at : Free(calendar, c, at)' = Free(calendar, c, at)
    BY DEF Free, Fits, Background, Load, ActiveAt, Reservation
  <2>5. Proposed(c)' = Proposed(c)
    <3>1. PICK m, low, last : m = Transferred(c, links).made /\ low = Opening(c) /\ last = Latest(c)
      OBVIOUS
    <3>2. PICK S : S = {u \in low .. last : Free(calendar, c, u)}
      OBVIOUS
    <3>3. S = {u \in low .. last : Free(calendar, c, u)'}
      BY <2>4, <3>2
    <3>4. Proposed(c) = PlacedAt(c, m, Min(S))
      BY <3>1, <3>2 DEF Proposed
    <3>5. Proposed(c)' = PlacedAt(c, m, Min(S))
      BY <2>1, <2>2, <2>3, <3>1, <3>3 DEF Proposed
    <3>6. QED
      BY <3>4, <3>5
  <2>6. TooBig(c)' = TooBig(c)
    BY DEF TooBig, Background, Load, ActiveAt
  <2>7. QED
    BY <2>3, <2>5, <2>6
<1>3. QED
  BY <1>1, <1>2

---------------------------------------------------------------------------
(* The steps away from the exhaustive search. *)

\* The candidates are estimated.
LEMMA OptimalBuilding ==
  ASSUME Planned, OptimalInv, Building
  PROVE  OptimalInv'
<1>1. /\ pc \in {"estimate", "route"} /\ pc' \in {"estimate", "route"}
      /\ UNCHANGED <<problem, draft, incumbent, plan>>
  BY DEF Building, Estimate, Routed, SearchRoute, NextPair, solveVars, searchVars, problemVars
<1>2. Unanswered' /\ OptimalIsOptimal'
  BY <1>1, NothingReturned DEF OptimalInv, Unanswered
<1>3. QED
  BY <1>1, <1>2, OptimalElsewhere DEF OptimalInv, SearchingAt

\* Another optimizer is asked.
LEMMA OptimalAskOther ==
  ASSUME Planned, OptimalInv, AskHeuristic \/ AskPlugIn
  PROVE  OptimalInv'
<1>1. /\ pc = "estimate" /\ optimizer' \in {"heuristic", "plugin"}
      /\ UNCHANGED <<problem, incumbent, plan>>
      /\ \/ draft' = draft
         \/ \E d : draft' = [EmptyPlan EXCEPT !.deferred = d]
  BY DEF AskHeuristic, AskPlugIn, Built, searchVars, problemVars
<1>2. draft'.status # "optimal"
  BY <1>1 DEF OptimalInv, Unanswered, EmptyPlan
<1>3. Unanswered' /\ OptimalIsOptimal'
  BY <1>1, <1>2, NothingReturned DEF OptimalInv
<1>4. QED
  BY <1>1, <1>3, OptimalElsewhere DEF OptimalInv

\* The heuristic does not call its plans optimal.
LEMMA OptimalHeuristicEnds ==
  ASSUME Planned, OptimalInv, HeuristicExpires \/ HeuristicDone
  PROVE  OptimalInv'
<1>1. /\ UNCHANGED <<problem, optimizer, incumbent, draft>>
      /\ pc' = "validate" /\ optimizer = "heuristic"
  BY DEF HeuristicExpires, HeuristicDone, Return, searchVars, problemVars
<1>2. plan'[1].status # "optimal"
  <2>1. "status" \in DOMAIN draft /\ draft.status # "optimal"
    BY DEF Planned, PlansRight, PlanTyped, OptimalInv, Unanswered
  <2>2. CASE HeuristicExpires
    <3>1. PICK d, n : plan' = <<[draft EXCEPT !.status = "time_limit", !.deferred = d,
                                              !.iterations = n]>>
      BY <2>2 DEF HeuristicExpires, Return
    <3>2. QED
      BY <2>1, <3>1
  <2>3. CASE HeuristicDone
    <3>1. PICK n : n = Len(draft.assigned)
      OBVIOUS
    <3>2. plan' = <<[draft EXCEPT !.status = IF @ # "feasible" \/ draft.deferred = <<>> THEN @
                                             ELSE "iteration_limit",
                                  !.iterations = n]>>
      BY <2>3, <3>1 DEF HeuristicDone, Return
    <3>3. PICK st : st = IF draft.status # "feasible" \/ draft.deferred = <<>> THEN draft.status
                         ELSE "iteration_limit"
      OBVIOUS
    <3>4. plan' = <<[draft EXCEPT !.status = st, !.iterations = n]>>
      BY <3>2, <3>3
    <3>5. plan'[1].status = st
      BY <2>1, <3>4
    <3>6. QED
      BY <2>1, <3>3, <3>5
  <2>4. QED
    BY <2>2, <2>3
<1>3. Unanswered' /\ OptimalIsOptimal'
  BY <1>1, <1>2 DEF OptimalInv, Unanswered, OptimalIsOptimal
<1>4. QED
  BY <1>1, <1>3, OptimalElsewhere DEF OptimalInv

\* Nor does a plug-in, here.
LEMMA OptimalPlugIn ==
  ASSUME Planned, OptimalInv, Decide \/ Answer
  PROVE  OptimalInv'
<1>1. /\ UNCHANGED <<problem, optimizer, incumbent>>
      /\ pc = "task" /\ optimizer = "plugin"
  BY DEF Decide, Answer, searchVars, problemVars
<1>2. {"status", "assigned", "reservations", "transfers", "deferred"} \subseteq DOMAIN draft
      /\ draft.status # "optimal"
  BY DEF Planned, PlansRight, PlanTyped, OptimalInv, Unanswered
<1>3. Unanswered' /\ OptimalIsOptimal'
  <2>1. CASE Decide
    <3>1. draft'.status = draft.status
      <4>1. \A x : With(draft, x).status = draft.status
        BY <1>2 DEF With
      <4>2. \A a : [draft EXCEPT !.assigned = a].status = draft.status
                   /\ [draft EXCEPT !.deferred = a].status = draft.status
        BY <1>2
      <4>3. \/ \E a : draft' = [draft EXCEPT !.deferred = a]
            \/ \E a : draft' = [draft EXCEPT !.assigned = a]
            \/ \E x : draft' = With(draft, x)
        BY <2>1 DEF Decide
      <4>4. CASE \E a : draft' = [draft EXCEPT !.deferred = a]
        BY <4>2, <4>4
      <4>5. CASE \E a : draft' = [draft EXCEPT !.assigned = a]
        BY <4>2, <4>5
      <4>6. CASE \E x : draft' = With(draft, x)
        BY <4>1, <4>6
      <4>7. QED
        BY <4>3, <4>4, <4>5, <4>6
    <3>2. UNCHANGED plan
      BY <2>1 DEF Decide
    <3>3. QED
      BY <1>1, <1>2, <3>1, <3>2, NothingReturned DEF OptimalInv
  <2>2. CASE Answer
    <3>1. PICK lie \in Lies : plan' = <<Told(lie, draft)>> /\ pc' = "validate" /\ draft' = draft
      BY <2>2 DEF Answer, Return
    <3>2. Told(lie, draft).status \in {draft.status, "infeasible"}
      <4> DEFINE edited(f(_)) == [i \in DOMAIN draft.assigned |-> f(draft.assigned[i])]
                 thrifty(a) == [a EXCEPT !.energy = 0]
                 silent(a) == [a EXCEPT !.communication = 0]
                 brief(a) == IF a.node = 0 \/ a.finish = a.start THEN a
                             ELSE [a EXCEPT !.finish = @ - 1]
      <4>1. lie \in {"none", "failed", "energy", "short", "unsent", "unreserved", "twice", "forgotten"}
        BY PlugInAssumption
      <4>2. PICK u, v, w, q, y : /\ u = edited(thrifty) /\ v = edited(brief) /\ w = edited(silent)
                                 /\ q = {[x EXCEPT !.finish = @ - 1] : x \in draft.reservations}
                                 /\ y = draft.assigned \o draft.assigned
        OBVIOUS
      <4> HIDE DEF edited, thrifty, silent, brief
      <4>3. \/ Told(lie, draft) = draft
            \/ Told(lie, draft) = [draft EXCEPT !.status = "infeasible"]
            \/ \E a : Told(lie, draft) = [draft EXCEPT !.assigned = a]
            \/ \E a, b : Told(lie, draft) = [draft EXCEPT !.assigned = a, !.reservations = b]
            \/ \E a, b : Told(lie, draft) = [draft EXCEPT !.assigned = a, !.transfers = b]
            \/ Told(lie, draft) = [draft EXCEPT !.reservations = {}]
            \/ Told(lie, draft) = [draft EXCEPT !.deferred = <<>>]
        <5>1. CASE lie = "none" BY <5>1 DEF Told
        <5>2. CASE lie = "failed" BY <5>2 DEF Told
        <5>3. CASE lie = "energy" BY <5>3 DEF Told
        <5>4. CASE lie = "short" BY <5>4 DEF Told
        <5>5. CASE lie = "unsent" BY <5>5 DEF Told
        <5>6. CASE lie = "unreserved" BY <5>6 DEF Told
        <5>7. CASE lie = "twice" BY <5>7 DEF Told
        <5>8. CASE lie = "forgotten" BY <5>8 DEF Told
        <5>9. QED
          BY <4>1, <5>1, <5>2, <5>3, <5>4, <5>5, <5>6, <5>7, <5>8
      <4>4. QED
        BY <1>2, <4>3
    <3>3. QED
      BY <1>2, <3>1, <3>2 DEF Unanswered, OptimalIsOptimal
  <2>3. QED
    BY <2>1, <2>2
<1>4. QED
  BY <1>1, <1>3, OptimalElsewhere DEF OptimalInv

\* The plan returned is judged.
LEMMA OptimalValidate ==
  ASSUME Planned, OptimalInv, Validate
  PROVE  OptimalInv'
<1>1. /\ UNCHANGED <<problem, candidates, optimizer, draft, incumbent, plan>>
      /\ pc' \in {"accepted", "rejected"}
  BY DEF Validate, solveVars, searchVars, problemVars
<1>2. Unanswered' /\ OptimalIsOptimal'
  BY <1>1, OptimalStays DEF OptimalInv, Unanswered
<1>3. QED
  BY <1>1, <1>2, OptimalElsewhere DEF OptimalInv, SearchingAt

\* Nothing happens.
LEMMA OptimalStutters ==
  ASSUME Planned, OptimalInv, UNCHANGED vars
  PROVE  OptimalInv'
<1>1. UNCHANGED <<problem, candidates, optimizer, todo, draft, calendar, links, remaining,
                  selection, incumbent, plan, options, placed, cursor, pc>>
  BY DEF vars, solveVars, searchVars, problemVars, placeVars
<1>2. Following' /\ Searching'
  <2>1. Drafting' = Drafting
    BY <1>1 DEF Drafting
  <2>2. Following'
    BY <1>1, <2>1, FollowingStays DEF OptimalInv
  <2>3. Searching'
    <3>1. CASE pc \in SearchingAt
      BY <1>1, <2>1, <3>1, SearchingStays DEF OptimalInv
    <3>2. CASE pc \notin SearchingAt
      BY <1>1, <3>2 DEF Searching, SearchingAt
    <3>3. QED
      BY <3>1, <3>2
  <2>4. QED
    BY <2>2, <2>3
<1>3. PlacesBest'
  BY <1>1, UpcomingStays DEF OptimalInv, PlacesBest
<1>4. BestKept' /\ OptimalIsOptimal' /\ Unanswered'
  BY <1>1, BestStays, OptimalStays DEF OptimalInv, Unanswered
<1>5. QED
  BY <1>2, <1>3, <1>4 DEF OptimalInv

---------------------------------------------------------------------------
(* The steps of the search itself. *)

\* The formulation is compiled: nothing has been looked at.
LEMMA OptimalAskOneHot ==
  ASSUME Planned, OptimalInv, NEW o \in Optimizers, AskOneHot(o)
  PROVE  OptimalInv'
<1>1. /\ pc = "estimate" /\ pc' \in {"failed", "select"} /\ optimizer' = o
      /\ UNCHANGED <<problem, candidates, draft, incumbent, plan>> /\ remaining' = Decisions
  BY DEF AskOneHot, Built, problemVars
<1>2. Unanswered' /\ OptimalIsOptimal'
  BY <1>1, NothingReturned DEF OptimalInv, Unanswered
<1>3. BestKept'
  BY <1>1, BestStays DEF OptimalInv
<1>4. Searching'
  <2>1. Decisions' = Decisions
    BY <1>1 DEF Decisions
  <2>2. QED
    BY <1>1, <2>1 DEF Searching
<1>5. Following' /\ PlacesBest'
  BY <1>1 DEF Following, Drafting, PlacesBest
<1>6. QED
  BY <1>2, <1>3, <1>4, <1>5 DEF OptimalInv

\* The search is over: optimal is the best plan when every decision is done with.
LEMMA OptimalFinishes ==
  ASSUME Planned, OptimalInv, pc \in {"select", "refused", "score"},
         NEW status, status = "optimal" => pc = "select" /\ remaining = {}, Finish(status)
  PROVE  OptimalInv'
<1>1. /\ UNCHANGED <<problem, candidates, optimizer, draft, remaining, incumbent>>
      /\ \/ /\ pc' = "validate" /\ optimizer = "exhaustive" /\ incumbent # <<>>
            /\ plan' = <<[incumbent[1].plan EXCEPT !.status = status,
                                                   !.iterations = draft.iterations]>>
         \/ pc' = "failed" /\ UNCHANGED plan
  BY DEF Finish, Return, searchVars, problemVars
<1>2. CASE pc' = "failed"
  <2>1. Unanswered' /\ OptimalIsOptimal'
    BY <1>1, <1>2, NothingReturned DEF OptimalInv, Unanswered
  <2>2. QED
    BY <1>1, <1>2, <2>1, OptimalElsewhere DEF OptimalInv, SearchingAt
<1>3. CASE pc' = "validate"
  <2>1. PICK p, q : p = incumbent[1].plan /\ q = plan'[1]
    OBVIOUS
  <2>2. PlanTyped(p) /\ problem \in Problems
    BY <1>1, <1>3, <2>1 DEF Planned, PlansRight, PlanningInv, EstimateInv, Setting
  <2>3. q = [p EXCEPT !.status = status, !.iterations = draft.iterations]
    BY <1>1, <1>3, <2>1
  <2>4. Alike(p, q) /\ q.status = status
    BY <2>2, <2>3 DEF PlanTyped, Alike
  <2>5. ASSUME status = "optimal", NEW s \in Decisions, Affordable(Chosen(s)),
               \A i \in DOMAIN s : ~TooBig(Chosen(s)[i])
        PROVE  HardViolation(Schedule(s)) \/ AsGood(q, Schedule(s))
    <3>1. ~Drafting /\ remaining = {}
      BY <2>5 DEF Drafting
    <3>2. Dealt(s)
      BY <1>1, <1>3, <2>5, <3>1 DEF OptimalInv, Searching, SearchingAt
    <3>3. HardViolation(Schedule(s)) \/ AsGood(p, Schedule(s))
      BY <2>1, <2>5, <3>2 DEF Dealt
    <3>4. AsGood(p, Schedule(s)) = AsGood(q, Schedule(s))
      BY <2>2, <2>4, AlikeKeys
    <3>5. QED
      BY <3>3, <3>4
  <2>6. OptimalIsOptimal'
    <3>1. SUFFICES ASSUME status = "optimal", NEW s \in Decisions,
                          Affordable(Chosen(s))', (\A i \in DOMAIN s : ~TooBig(Chosen(s)[i]))'
                   PROVE  (HardViolation(Schedule(s)) \/ AsGood(plan[1], Schedule(s)))'
      BY <1>1, <2>1, <2>4, ScheduleStays DEF OptimalIsOptimal
    <3>2. PICK cs, r : cs = Chosen(s) /\ r = Schedule(s)
      OBVIOUS
    <3>3. Chosen(s)' = cs /\ Schedule(s)' = r /\ (\A c : TooBig(c)' = TooBig(c))
      BY <1>1, <3>2, ChosenStays, ScheduleStays
    <3>4. /\ Affordable(cs)' = Affordable(cs) /\ HardViolation(r)' = HardViolation(r)
          /\ AsGood(q, r)' = AsGood(q, r)
      BY <1>1, AffordableStays, KeptStays, KeyStays
    <3>5. Affordable(cs) /\ \A i \in DOMAIN s : ~TooBig(cs[i])
      BY <3>1, <3>3, <3>4
    <3>6. HardViolation(r) \/ AsGood(q, r)
      BY <2>5, <3>1, <3>2, <3>5
    <3>7. QED
      BY <2>1, <3>3, <3>4, <3>6
  <2>7. Unanswered'
    BY <1>1, <1>3 DEF OptimalInv, Unanswered
  <2>8. QED
    BY <1>1, <1>3, <2>6, <2>7, OptimalElsewhere DEF OptimalInv, SearchingAt
<1>4. QED
  BY <1>1, <1>2, <1>3

LEMMA OptimalSearchEnds ==
  ASSUME Planned, OptimalInv, SearchEnds \/ SearchLimited \/ SearchExpires
  PROVE  OptimalInv'
<1>1. PICK status : /\ Finish(status) /\ pc \in {"select", "refused", "score"}
                    /\ status = "optimal" => pc = "select" /\ remaining = {}
  BY DEF SearchEnds, SearchLimited, SearchExpires
<1>2. QED
  BY <1>1, OptimalFinishes

\* A decision is refused, or all of it is placed: the search goes on.
LEMMA OptimalGoesOn ==
  ASSUME Planned, OptimalInv, GoOn \/ AllPlaced
  PROVE  OptimalInv'
<1>1. /\ UNCHANGED <<problem, candidates, optimizer, todo, draft, calendar, links, remaining,
                     selection, incumbent, plan>>
      /\ \/ pc = "refused" /\ pc' = "select"
         \/ pc = "task" /\ pc' = "score"
  BY DEF GoOn, AllPlaced, solveVars, searchVars, problemVars
<1>2. Drafting' = Drafting
  BY <1>1 DEF Drafting
<1>3. Following' /\ Searching'
  BY <1>1, <1>2, FollowingStays, SearchingStays DEF OptimalInv, SearchingAt
<1>4. PlacesBest' /\ BestKept'
  BY <1>1, BestStays DEF OptimalInv, PlacesBest
<1>5. Unanswered' /\ OptimalIsOptimal'
  BY <1>1, NothingReturned DEF OptimalInv, Unanswered
<1>6. QED
  BY <1>3, <1>4, <1>5 DEF OptimalInv

---------------------------------------------------------------------------
(* The placing of a decision. *)

\* The candidate that is placed next is the one the decision stands for.
LEMMA UpcomingIsNext ==
  ASSUME Planned, OptimalInv, optimizer = "exhaustive", pc \in {"task", "option", "place"},
         todo # <<>>
  PROVE  /\ Len(selection) \in Nat /\ DOMAIN selection = 1 .. Len(selection)
         /\ Decided \in Nat /\ Decided + 1 \in DOMAIN selection
         /\ Upcoming \in candidates /\ Upcoming.task = Head(todo) /\ CandidateRight(Upcoming)
         /\ Eligible = {Upcoming}
<1>1. Drafting /\ OneHotAsked
  BY DEF Drafting, OneHotAsked
<1>2. /\ Decision(selection) /\ todo \in Seq(Ready) /\ Len(todo) <= Len(selection)
  BY <1>1 DEF Planned, BuiltInInv, DecisionRight
<1>3. selection \in Decisions /\ \A i \in DOMAIN todo : todo[i] = problem.tasks[Decided + i]
  BY <1>1 DEF OptimalInv, Following
<1>4. /\ Len(selection) \in Nat /\ DOMAIN selection = 1 .. Len(selection)
      /\ Decided \in Nat /\ Decided + 1 \in DOMAIN selection
      /\ Head(todo) = todo[1] /\ 1 \in DOMAIN todo
  BY <1>2 DEF Decision, Decided
<1>5. EstimateInv
  BY DEF Planned, PlanningInv
<1>6. Upcoming \in candidates /\ Upcoming.task = Head(todo)
  BY <1>3, <1>4, <1>5, ChosenIsCandidate DEF Upcoming
<1>7. Eligible = {Upcoming}
  BY <1>6 DEF Eligible, Upcoming
<1>8. QED
  BY <1>4, <1>5, <1>6, <1>7 DEF EstimateInv, Estimated

\* Where it can begin, and the last time at which something is released.
LEMMA LatestIsLast ==
  ASSUME Planned, NEW c, CandidateRight(c)
  PROVE  /\ Opening(c) \in Nat /\ Latest(c) \in Nat /\ Opening(c) <= Latest(c)
         /\ \A x \in calendar : x.finish <= Latest(c)
<1>1. Setting /\ problem \in Problems
  BY DEF Planned, PlanningInv, EstimateInv, Setting
<1>2. /\ IsFiniteSet(calendar) /\ (\A x \in calendar : x.finish \in Nat) /\ links \in [Links -> Nat]
  BY DEF Planned, PlanningInv, CalendarRight, Reserved
<1>3. c.ready \in Nat /\ c.transfers \in Seq(Transfers) /\ problem.free[c.node] \in Nat
  BY <1>1, CandidateIsPlaceable
<1>4. Transferred(c, links).at \in Nat
  BY <1>1, <1>2, <1>3, TransfersArrive
<1>5. Opening(c) \in Nat
  <2>1. PICK m, f : m = Transferred(c, links).at /\ f = problem.free[c.node]
    OBVIOUS
  <2>2. m \in Nat /\ f \in Nat
    BY <1>3, <1>4, <2>1
  <2>3. Max({m, f}) \in {m, f}
    BY <2>2, MaxOfTwo
  <2>4. QED
    BY <2>1, <2>2, <2>3 DEF Opening
<1>6. PICK o, F : o = Opening(c) /\ F = {x.finish : x \in calendar}
  OBVIOUS
<1>7. IsFiniteSet({o} \cup F)
  <2>1. IsFiniteSet(F)
    <3>1. PICK g : g = [x \in calendar |-> x.finish]
      OBVIOUS
    <3>2. g = [x \in calendar |-> g[x]]
      BY <3>1
    <3>3. IsFiniteSet({g[x] : x \in calendar})
      BY <1>2, <3>2, ImageIsFinite
    <3>4. F = {g[x] : x \in calendar}
      BY <1>6, <3>1
    <3>5. QED
      BY <3>3, <3>4
  <2>2. QED
    BY <2>1, FS_Singleton, FS_Union
<1>8. {o} \cup F \in SUBSET Nat /\ o \in {o} \cup F /\ \A x \in calendar : x.finish \in {o} \cup F
  BY <1>2, <1>5, <1>6
<1>9. Max({o} \cup F) \in {o} \cup F /\ \A x \in {o} \cup F : x <= Max({o} \cup F)
  BY <1>7, <1>8, MaxOfFinite
<1>10. Latest(c) = Max({o} \cup F)
  BY <1>6 DEF Latest
<1>11. QED
  BY <1>5, <1>6, <1>8, <1>9, <1>10

\* Its place is looked for.
LEMMA PlacingBest ==
  ASSUME Planned, OptimalInv, pc \in {"task", "option", "place"}, pc' \in {"option", "place"},
         UNCHANGED <<problem, candidates, optimizer, todo, draft, calendar, links, remaining,
                     selection, incumbent, plan>>,
         PlacesBest'
  PROVE  OptimalInv'
<1>1. Drafting' = Drafting
  BY DEF Drafting
<1>2. Following' /\ Searching'
  BY <1>1, FollowingStays, SearchingStays DEF OptimalInv, SearchingAt
<1>3. BestKept'
  BY BestStays DEF OptimalInv
<1>4. Unanswered' /\ OptimalIsOptimal'
  BY NothingReturned DEF OptimalInv, Unanswered
<1>5. QED
  BY <1>2, <1>3, <1>4 DEF OptimalInv

LEMMA OptimalNextTask ==
  ASSUME Planned, OptimalInv, NextTask
  PROVE  OptimalInv'
<1>1. /\ UNCHANGED <<problem, candidates, optimizer, todo, draft, calendar, links, remaining,
                     selection, incumbent, plan>>
      /\ pc = "task" /\ pc' = "option" /\ placed' = {} /\ options' = Eligible /\ todo # <<>>
  BY DEF NextTask, Eligible, Decided, searchVars, problemVars
<1>2. PlacesBest'
  <2>1. SUFFICES ASSUME optimizer = "exhaustive" PROVE PlacesBest'
    BY <1>1 DEF PlacesBest
  <2>2. Upcoming \in options' /\ Upcoming' = Upcoming
    BY <1>1, <2>1, UpcomingIsNext, UpcomingStays
  <2>3. QED
    BY <1>1, <2>2 DEF PlacesBest
<1>3. QED
  BY <1>1, <1>2, PlacingBest

LEMMA OptimalTryOption ==
  ASSUME Planned, OptimalInv, TryOption
  PROVE  OptimalInv'
<1>1. /\ UNCHANGED <<problem, candidates, optimizer, todo, draft, calendar, links, remaining,
                     selection, incumbent, plan, placed>>
      /\ pc = "option" /\ pc' \in {"option", "place"}
  BY DEF TryOption, BeginPlacing, placeVars, searchVars, problemVars
<1>2. PICK c \in options : /\ options' = options \ {c}
                           /\ IF TooBig(c) THEN UNCHANGED <<placeVars, pc>>
                              ELSE BeginPlacing(c) /\ pc' = "place"
  BY DEF TryOption
<1>3. PlacesBest'
  <2>1. SUFFICES ASSUME optimizer = "exhaustive" PROVE PlacesBest'
    BY <1>1 DEF PlacesBest
  <2>2. todo # <<>> /\ options \subseteq Eligible
    BY <1>1 DEF Planned, PlanningInv, OptionsRight, BuiltInInv, PlacesRight
  <2>3. c = Upcoming /\ CandidateRight(c)
    BY <1>1, <1>2, <2>1, <2>2, UpcomingIsNext
  <2>4. /\ Upcoming' = Upcoming
        /\ \A d : Proposed(d)' = Proposed(d) /\ Latest(d)' = Latest(d) /\ TooBig(d)' = TooBig(d)
    BY <1>1, UpcomingStays
  <2>5. \A x \in placed' : x = Proposed(Upcoming)'
    BY <1>1, <2>1, <2>3, <2>4 DEF OptimalInv, PlacesBest
  <2>6. CASE TooBig(c)
    <3>1. pc' = "option"
      BY <1>1, <1>2, <2>6
    <3>2. TooBig(Upcoming)'
      BY <2>3, <2>4, <2>6
    <3>3. QED
      BY <2>5, <3>1, <3>2 DEF PlacesBest
  <2>7. CASE ~TooBig(c)
    <3>1. pc' = "place" /\ cursor' = Opening(c)
      BY <1>2, <2>7 DEF BeginPlacing, Opening
    <3>2. cursor' <= Latest(Upcoming)'
      BY <2>3, <2>4, <3>1, LatestIsLast
    <3>3. QED
      BY <2>5, <3>1, <3>2 DEF PlacesBest
  <2>8. QED
    BY <2>6, <2>7
<1>4. QED
  BY <1>1, <1>3, PlacingBest

\* No later than when all is released.
LEMMA OptimalSearch ==
  ASSUME Planned, OptimalInv, Search
  PROVE  OptimalInv'
<1>1. /\ UNCHANGED <<problem, candidates, optimizer, todo, draft, calendar, links, remaining,
                     selection, incumbent, plan, placed>>
      /\ pc = "place" /\ pc' = "place"
  BY DEF Search, Jump, solveVars, searchVars, problemVars
<1>2. PlacesBest'
  <2>1. SUFFICES ASSUME optimizer = "exhaustive" PROVE PlacesBest'
    BY <1>1 DEF PlacesBest
  <2>2. PICK c : c = placing[1]
    OBVIOUS
  <2>3. todo # <<>> /\ c \in Eligible
    BY <1>1, <2>2 DEF Planned, PlanningInv, OptionsRight, BuiltInInv, PlacesRight
  <2>4. c = Upcoming /\ CandidateRight(c)
    BY <1>1, <2>1, <2>3, UpcomingIsNext
  <2>5. /\ Upcoming' = Upcoming
        /\ \A d : Proposed(d)' = Proposed(d) /\ Latest(d)' = Latest(d)
    BY <1>1, UpcomingStays
  <2>6. \A x \in placed' : x = Proposed(Upcoming)'
    BY <1>1, <2>1, <2>4, <2>5 DEF OptimalInv, PlacesBest
  <2>7. PICK R : R = Releases(c, cursor)
    OBVIOUS
  <2>8. R # {} /\ cursor' = Min(R)
    BY <2>2, <2>7 DEF Search, Jump
  <2>9. \A u \in R : u \in Nat /\ \E x \in calendar : u = x.finish
    BY <2>7 DEF Releases, Overlapping, Planned, PlanningInv, CalendarRight, Reserved
  <2>10. cursor' \in R
    BY <2>8, <2>9, MinOfSet
  <2>11. cursor' <= Latest(Upcoming)'
    BY <2>4, <2>5, <2>9, <2>10, LatestIsLast
  <2>12. QED
    BY <1>1, <2>6, <2>11 DEF PlacesBest
<1>3. QED
  BY <1>1, <1>2, PlacingBest

\* The place found is the first.
LEMMA OptimalPlace ==
  ASSUME Planned, OptimalInv, Place
  PROVE  OptimalInv'
<1>1. /\ UNCHANGED <<problem, candidates, optimizer, todo, draft, calendar, links, remaining,
                     selection, incumbent, plan>>
      /\ pc = "place" /\ pc' = "option" /\ placed' = placed \cup {Placement} /\ Found
  BY DEF Place, searchVars, problemVars
<1>2. PlacesBest'
  <2>1. SUFFICES ASSUME optimizer = "exhaustive" PROVE PlacesBest'
    BY <1>1 DEF PlacesBest
  <2>2. PICK c : c = placing[1]
    OBVIOUS
  <2>3. /\ todo # <<>> /\ c \in Eligible /\ moved = Transferred(c, links)
        /\ moved.at <= cursor /\ problem.free[c.node] <= cursor
    BY <1>1, <2>2 DEF Planned, PlanningInv, OptionsRight, BuiltInInv, PlacesRight
  <2>4. c = Upcoming /\ CandidateRight(c)
    BY <1>1, <2>1, <2>3, UpcomingIsNext
  <2>5. /\ moved.at \in Nat /\ cursor \in Nat
        /\ \A t \in Max({moved.at, problem.free[c.node]}) .. cursor - 1 : ~Free(calendar, c, t)
    BY <1>1, <2>2 DEF Planned, PlanningInv, PlacingRight
  <2>6. /\ ~TooBig(c) /\ Placeable(c) /\ CalendarFor(calendar, c.task) /\ problem \in Problems
        /\ problem.free[c.node] \in Nat
    BY <1>1, <2>2, BeingPlaced DEF Planned
  <2>7. Free(calendar, c, cursor)
    BY <1>1, <2>2, <2>5, <2>6, FoundIsFree DEF Found
  <2>8. PICK low, last : low = Opening(c) /\ last = Latest(c)
    OBVIOUS
  <2>9. low \in Nat /\ last \in Nat /\ cursor <= last
    BY <1>1, <2>1, <2>4, <2>8, LatestIsLast DEF OptimalInv, PlacesBest
  <2>10. low = Max({moved.at, problem.free[c.node]}) /\ low <= cursor
    <3>1. PICK m, f : m = moved.at /\ f = problem.free[c.node]
      OBVIOUS
    <3>2. m \in Nat /\ f \in Nat /\ m <= cursor /\ f <= cursor
      BY <2>3, <2>5, <2>6, <3>1
    <3>3. Max({m, f}) \in {m, f}
      BY <3>2, MaxOfTwo
    <3>4. low = Max({m, f})
      BY <2>3, <2>8, <3>1 DEF Opening
    <3>5. QED
      BY <3>1, <3>2, <3>3, <3>4
  <2>11. PICK S : S = {u \in low .. last : Free(calendar, c, u)}
    OBVIOUS
  <2>12. S \in SUBSET Nat /\ cursor \in S
    BY <2>5, <2>7, <2>9, <2>10, <2>11
  <2>13. Min(S) \in S /\ Min(S) <= cursor
    BY <2>12, MinOfSet
  <2>14. Min(S) = cursor
    <3>1. Min(S) \in Nat /\ Free(calendar, c, Min(S)) /\ low <= Min(S)
      BY <2>9, <2>11, <2>12, <2>13
    <3>2. \A t \in low .. cursor - 1 : ~Free(calendar, c, t)
      BY <2>5, <2>10
    <3>3. Min(S) \notin low .. cursor - 1
      BY <3>1, <3>2
    <3>4. QED
      BY <2>5, <2>9, <2>13, <3>1, <3>3
  <2>15. Placement = Proposed(c)
    BY <2>2, <2>3, <2>8, <2>11, <2>14 DEF Placement, Proposed
  <2>16. Upcoming' = Upcoming /\ \A d : Proposed(d)' = Proposed(d)
    BY <1>1, UpcomingStays
  <2>17. \A x \in placed : x = Proposed(Upcoming)
    BY <1>1, <2>1 DEF OptimalInv, PlacesBest
  <2>18. \A x \in placed' : x = Proposed(Upcoming)'
    BY <1>1, <2>4, <2>15, <2>16, <2>17
  <2>19. placed' # {}
    BY <1>1
  <2>20. QED
    BY <1>1, <2>18, <2>19 DEF PlacesBest
<1>3. QED
  BY <1>1, <1>2, PlacingBest

---------------------------------------------------------------------------
(* A task more, and the end of a decision. *)

\* A decision that cannot be realized is done with.
LEMMA OptimalNoPlace ==
  ASSUME Planned, OptimalInv, NoPlace
  PROVE  OptimalInv'
<1>1. /\ UNCHANGED <<problem, candidates, optimizer, remaining, selection, incumbent, plan>>
      /\ pc = "option" /\ options = {} /\ placed = {}
      /\ IF optimizer = "heuristic"
         THEN /\ draft' = [draft EXCEPT !.assigned = Append(@, Dropped(Head(todo)))] /\ pc' = "task"
         ELSE pc' = "refused" /\ draft' = draft
  BY DEF NoPlace, searchVars, problemVars
<1>2. draft'.status = draft.status
  <2>1. "status" \in DOMAIN draft
    BY DEF Planned, PlansRight, PlanTyped
  <2>2. \A a : [draft EXCEPT !.assigned = a].status = draft.status
    BY <2>1
  <2>3. draft' = draft \/ \E a : draft' = [draft EXCEPT !.assigned = a]
    BY <1>1
  <2>4. QED
    BY <2>2, <2>3
<1>3. Unanswered' /\ OptimalIsOptimal'
  BY <1>1, <1>2, NothingReturned DEF OptimalInv, Unanswered
<1>4. CASE optimizer # "exhaustive"
  BY <1>1, <1>3, <1>4, OptimalElsewhere DEF OptimalInv
<1>5. CASE optimizer = "exhaustive"
  <2>1. todo # <<>>
    BY <1>1 DEF Planned, PlanningInv, OptionsRight
  <2>2. Decided + 1 \in DOMAIN selection /\ TooBig(Upcoming)
    BY <1>1, <1>5, <2>1, UpcomingIsNext DEF OptimalInv, PlacesBest
  <2>3. Dealt(selection)
    BY <2>2 DEF Dealt, Upcoming
  <2>4. Decisions' = Decisions /\ \A s : Dealt(s)' = Dealt(s)
    BY <1>1, ScheduleStays, DealtStays
  <2>5. Searching'
    BY <1>1, <1>5, <2>3, <2>4 DEF OptimalInv, Searching, SearchingAt
  <2>6. Following' /\ PlacesBest'
    BY <1>1, <1>5 DEF Following, Drafting, PlacesBest
  <2>7. BestKept'
    BY <1>1, BestStays DEF OptimalInv
  <2>8. QED
    BY <1>3, <2>5, <2>6, <2>7 DEF OptimalInv
<1>6. QED
  BY <1>4, <1>5

\* The next decision is looked at, from the start.
LEMMA OptimalSelect ==
  ASSUME Planned, OptimalInv, Select
  PROVE  OptimalInv'
<1>1. PICK s : /\ s = CHOOSE x \in remaining : \A y \in remaining : x = y \/ Precedes(x, y)
               /\ remaining' = remaining \ {s} /\ selection' = s
               /\ IF Affordable(Chosen(s)) THEN todo' = problem.tasks /\ pc' = "task"
                                           ELSE UNCHANGED todo /\ pc' = "refused"
  BY DEF Select
<1>2. /\ UNCHANGED <<problem, candidates, optimizer, incumbent, plan>>
      /\ pc = "select" /\ remaining # {} /\ links' = problem.linkFree
      /\ draft' = [EmptyPlan EXCEPT !.iterations = draft.iterations + 1]
  BY DEF Select, problemVars
<1>3. pc' \in {"task", "refused"}
  BY <1>1
<1>4. /\ draft'.status = "feasible" /\ draft'.assigned = <<>> /\ draft'.reservations = {}
      /\ draft'.transfers = {} /\ draft'.deferred = <<>>
  BY <1>2 DEF EmptyPlan
<1>5. Unanswered' /\ OptimalIsOptimal'
  BY <1>2, <1>4, NothingReturned DEF OptimalInv
<1>6. CASE optimizer # "exhaustive"
  BY <1>2, <1>5, <1>6, OptimalElsewhere DEF OptimalInv
<1>7. CASE optimizer = "exhaustive"
  <2>1. s \in remaining /\ Decision(s)
    <3>1. IsFiniteSet(remaining) /\ remaining \subseteq Seq(Nat) /\ \A x \in remaining : Decision(x)
      BY DEF Planned, BuiltInInv, DecisionRight, Decision
    <3>2. QED
      BY <1>1, <1>2, <3>1, NextDecision
  <2>2. /\ remaining \subseteq Decisions
        /\ \A x \in Decisions : x \in remaining \/ Dealt(x)
    BY <1>2, <1>7 DEF OptimalInv, Searching, SearchingAt, Drafting
  <2>3. /\ Decisions' = Decisions /\ Stages(s)' = Stages(s) /\ Chosen(s)' = Chosen(s)
        /\ \A x : Dealt(x)' = Dealt(x)
    BY <1>2, ScheduleStays, ChosenStays, DealtStays
  <2>4. CASE Affordable(Chosen(s))
    <3>1. todo' = problem.tasks /\ pc' = "task"
      BY <1>1, <2>4
    <3>2. Drafting' /\ Decided' = 0
      BY <1>2, <1>7, <2>1, <1>1, <3>1 DEF Drafting, Decided, Decision
    <3>3. Stages(s)[0] = [plan |-> EmptyPlan, links |-> problem.linkFree]
      BY <2>1, StagesUnfold DEF Decision
    <3>4. Following'
      <4>1. PICK st : st = Stages(s)[0]
        OBVIOUS
      <4>2. /\ Parts \subseteq DOMAIN st.plan
            /\ st.plan.assigned = <<>> /\ st.plan.reservations = {} /\ st.plan.transfers = {}
            /\ st.plan.deferred = <<>> /\ links' = st.links
        BY <1>2, <3>3, <4>1 DEF EmptyPlan, Parts
      <4>3. Stages(selection)'[Decided'] = st /\ selection' \in Decisions'
        BY <1>1, <2>1, <2>2, <2>3, <3>2, <4>1
      <4>4. \A i \in DOMAIN todo' : todo'[i] = problem'.tasks[Decided' + i]
        <5>1. \A i \in DOMAIN problem.tasks : 0 + i = i
          <6>1. Len(problem.tasks) \in Nat /\ DOMAIN problem.tasks = 1 .. Len(problem.tasks)
            BY TasksDiffer DEF Planned, PlanningInv, EstimateInv, Setting
          <6>2. QED
            BY <6>1
        <5>2. QED
          BY <1>2, <3>1, <3>2, <5>1
      <4>5. Len(draft'.assigned) = Decided' /\ 1 .. Decided' = {}
        BY <1>4, <3>2
      <4>6. Alike(st.plan, draft')
        BY <1>4, <4>2 DEF Alike
      <4>7. QED
        BY <4>2, <4>3, <4>4, <4>5, <4>6 DEF Following, Alike, Parts
    <3>5. Searching'
      BY <1>1, <2>2, <2>3, <3>2 DEF Searching
    <3>6. PlacesBest' /\ BestKept'
      BY <1>2, <3>1, BestStays DEF OptimalInv, PlacesBest
    <3>7. QED
      BY <1>5, <3>4, <3>5, <3>6 DEF OptimalInv
  <2>5. CASE ~Affordable(Chosen(s))
    <3>1. pc' = "refused" /\ Dealt(s)
      BY <1>1, <2>5 DEF Dealt
    <3>2. Searching'
      BY <1>1, <2>2, <2>3, <3>1 DEF Searching
    <3>3. Following' /\ PlacesBest' /\ BestKept'
      BY <1>2, <3>1, BestStays DEF OptimalInv, Following, Drafting, PlacesBest
    <3>4. QED
      BY <1>5, <3>2, <3>3 DEF OptimalInv
  <2>6. QED
    BY <2>4, <2>5
<1>8. QED
  BY <1>6, <1>7

\* The assignment of a candidate, as build_assignment has it.
Entry(c) ==
  [task |-> c.task, node |-> c.node, start |-> c.start, finish |-> c.finish,
   compute |-> c.compute, communication |-> c.communication, energy |-> c.energy,
   success |-> c.success, locations |-> c.locations]

\* What a plan has with a place more.
LEMMA WithPlace ==
  ASSUME NEW p, Parts \subseteq DOMAIN p, NEW x
  PROVE  /\ With(p, x).assigned = Append(p.assigned, Entry(x.candidate))
         /\ With(p, x).reservations = p.reservations \cup {Reservation(x.candidate, x.at)}
         /\ With(p, x).transfers = p.transfers \cup x.transfers
         /\ With(p, x).deferred = p.deferred /\ DOMAIN With(p, x) = DOMAIN p
<1>1. PICK f, g, h : /\ f = Append(p.assigned, Entry(x.candidate))
                     /\ g = p.reservations \cup {Reservation(x.candidate, x.at)}
                     /\ h = p.transfers \cup x.transfers
  OBVIOUS
<1>2. With(p, x) = [p EXCEPT !.assigned = f, !.reservations = g, !.transfers = h]
  BY <1>1 DEF With, Entry
<1>3. /\ With(p, x).assigned = f /\ With(p, x).reservations = g
      /\ With(p, x).transfers = h /\ With(p, x).deferred = p.deferred
      /\ DOMAIN With(p, x) = DOMAIN p
  BY <1>2 DEF Parts
<1>4. QED
  BY <1>1, <1>3

\* So the same place keeps two plans alike.
LEMMA AlikeWith ==
  ASSUME NEW p, NEW q, Alike(p, q), Parts \subseteq DOMAIN p, Parts \subseteq DOMAIN q, NEW x
  PROVE  Alike(With(p, x), With(q, x))
<1>1. PICK u, w, e, r : /\ u = With(p, x) /\ w = With(q, x) /\ e = Entry(x.candidate)
                        /\ r = Reservation(x.candidate, x.at)
  OBVIOUS
<1>2. /\ u.assigned = Append(p.assigned, e) /\ u.reservations = p.reservations \cup {r}
      /\ u.transfers = p.transfers \cup x.transfers /\ u.deferred = p.deferred
  BY <1>1, WithPlace
<1>3. /\ w.assigned = Append(q.assigned, e) /\ w.reservations = q.reservations \cup {r}
      /\ w.transfers = q.transfers \cup x.transfers /\ w.deferred = q.deferred
  BY <1>1, WithPlace
<1>4. QED
  BY <1>1, <1>2, <1>3 DEF Alike

\* The task goes where the reference has it.
LEMMA OptimalCommit ==
  ASSUME Planned, OptimalInv, Commit
  PROVE  OptimalInv'
<1>1. /\ UNCHANGED <<problem, candidates, optimizer, remaining, selection, incumbent, plan>>
      /\ pc = "option" /\ pc' = "task" /\ todo' = Tail(todo)
  BY DEF Commit, searchVars, problemVars
<1>2. PICK x \in placed : draft' = With(draft, x) /\ links' = Transferred(x.candidate, links).links
  BY DEF Commit
<1>3. {"status", "assigned", "reservations", "transfers", "deferred"} \subseteq DOMAIN draft
      /\ Sequence(draft.assigned)
  BY DEF Planned, PlansRight, PlanTyped
<1>4. draft'.status = draft.status
  <2>1. With(draft, x).status = draft.status
    BY <1>3 DEF With
  <2>2. QED
    BY <1>2, <2>1
<1>5. Unanswered' /\ OptimalIsOptimal'
  BY <1>1, <1>4, NothingReturned DEF OptimalInv, Unanswered
<1>6. CASE optimizer # "exhaustive"
  BY <1>1, <1>5, <1>6, OptimalElsewhere DEF OptimalInv
<1>7. CASE optimizer = "exhaustive"
  <2>1. Drafting /\ Drafting' /\ OneHotAsked
    BY <1>1, <1>7 DEF Drafting, OneHotAsked
  <2>2. todo # <<>>
    BY <1>1 DEF Planned, PlanningInv, OptionsRight
  <2>3. PICK u, n, st : u = Upcoming /\ n = Decided /\ st = Stages(selection)[n]
    OBVIOUS
  <2>4. /\ Len(selection) \in Nat /\ n \in Nat /\ n + 1 \in 1 .. Len(selection)
        /\ CandidateRight(u) /\ u = Chosen(selection)[n + 1]
    BY <1>1, <1>7, <2>2, <2>3, UpcomingIsNext DEF Upcoming
  <2>5. /\ selection \in Decisions
        /\ \A i \in DOMAIN todo : todo[i] = problem.tasks[n + i]
        /\ Parts \subseteq DOMAIN st.plan /\ Alike(st.plan, draft) /\ links = st.links
        /\ Len(draft.assigned) = n
        /\ \A i \in 1 .. n : draft.assigned[i].node = Chosen(selection)[i].node
    BY <1>7, <2>1, <2>3 DEF OptimalInv, Following, Parts
  <2>6. calendar = problem.carryIn \cup st.plan.reservations
    BY <2>1, <2>5 DEF Planned, BuiltInInv, DraftRight, Alike
  <2>7. x = Proposed(u)
    BY <1>1, <1>7, <2>3 DEF OptimalInv, PlacesBest
  <2>8. Transferred(x.candidate, links) = Transferred(u, links) /\ x.candidate.node = u.node
    <3>1. PICK m, v : x = PlacedAt(u, m, v)
      BY <2>7 DEF Proposed
    <3>2. PICK a, b, e : /\ a = Min({v} \cup {y.start : y \in m}) /\ b = v + u.compute
                         /\ e = Spent(m)
      OBVIOUS
    <3>3. PICK d : d = x.candidate
      OBVIOUS
    <3>4. d = [u EXCEPT !.start = a, !.finish = b, !.communication = e]
      BY <3>1, <3>2, <3>3 DEF PlacedAt, Spent
    <3>5. SameEstimates(d, u) /\ d.node = u.node
      BY <2>4, <3>4 DEF SameEstimates, CandidateRight
    <3>6. Transferred(d, links) = Transferred(u, links)
      BY <3>5, SameTransfers
    <3>7. QED
      BY <3>3, <3>5, <3>6
  <2>9. Scheduled(u, st) = [plan |-> With(st.plan, x), links |-> Transferred(u, links).links]
    <3>1. PICK arrival, from, last : /\ arrival = Transferred(u, links)
                                     /\ from = Opening(u) /\ last = Latest(u)
      OBVIOUS
    <3>2. PICK S : S = {v \in from .. last : Free(calendar, u, v)}
      OBVIOUS
    <3>3. x = PlacedAt(u, arrival.made, Min(S))
      BY <2>7, <3>1, <3>2 DEF Proposed
    <3>4. /\ arrival = Transferred(u, st.links)
          /\ from = Max({arrival.at, problem.free[u.node]})
          /\ last = Max({from} \cup {y.finish : y \in calendar})
      BY <2>5, <3>1 DEF Opening, Latest
    <3>5. Scheduled(u, st) = [plan |-> With(st.plan, PlacedAt(u, arrival.made, Min(S))),
                              links |-> arrival.links]
      BY <2>6, <3>2, <3>4 DEF Scheduled
    <3>6. QED
      BY <3>1, <3>3, <3>5
  <2>10. Stages(selection)[n + 1] = Scheduled(u, st)
    <3>1. Stages(selection)[n + 1] = Scheduled(Chosen(selection)[n + 1], Stages(selection)[n + 1 - 1])
      BY <2>4, StagesUnfold
    <3>2. n + 1 - 1 = n
      BY <2>4
    <3>3. QED
      BY <2>3, <2>4, <3>1, <3>2
  <2>11. PICK next : next = Stages(selection)[n + 1]
    OBVIOUS
  <2>12. next.plan = With(st.plan, x) /\ next.links = links'
    BY <1>2, <2>8, <2>9, <2>10, <2>11
  <2>13. /\ Alike(next.plan, draft') /\ DOMAIN next.plan = DOMAIN st.plan
         /\ \E a : draft'.assigned = Append(draft.assigned, a) /\ a.node = u.node
    <3>1. PICK p, e : p = st.plan /\ e = Entry(x.candidate)
      OBVIOUS
    <3>2. Alike(p, draft) /\ Parts \subseteq DOMAIN p /\ Parts \subseteq DOMAIN draft
      BY <1>3, <2>5, <3>1 DEF Parts
    <3>3. Alike(With(p, x), With(draft, x)) /\ DOMAIN With(p, x) = DOMAIN p
      BY <3>2, AlikeWith, WithPlace
    <3>4. With(draft, x).assigned = Append(draft.assigned, e) /\ e.node = u.node
      BY <2>8, <3>1, <3>2, WithPlace DEF Entry
    <3>5. QED
      BY <1>2, <2>12, <3>1, <3>3, <3>4
  <2>14. PICK a : draft'.assigned = Append(draft.assigned, a) /\ a.node = u.node
    BY <2>13
  <2>15. Decided' = n + 1 /\ todo \in Seq(Ready)
         /\ \A i \in DOMAIN todo' : todo'[i] = problem.tasks[n + 1 + i]
    <3>1. todo \in Seq(Ready)
      BY <2>1 DEF Planned, BuiltInInv, DecisionRight
    <3>2. PICK m : m = Len(todo)
      OBVIOUS
    <3>3. /\ m \in Nat /\ m # 0 /\ DOMAIN todo = 1 .. m /\ Len(todo') = m - 1
          /\ DOMAIN todo' = 1 .. m - 1 /\ \A i \in 1 .. m - 1 : todo'[i] = todo[i + 1]
      BY <1>1, <2>2, <3>1, <3>2
    <3>4. Decided' = n + 1
      BY <1>1, <2>3, <2>4, <3>2, <3>3 DEF Decided
    <3>5. ASSUME NEW i \in 1 .. m - 1 PROVE todo'[i] = problem.tasks[n + 1 + i]
      <4>1. i + 1 \in 1 .. m /\ n + (i + 1) = n + 1 + i
        BY <2>4, <3>3
      <4>2. todo[i + 1] = problem.tasks[n + (i + 1)]
        BY <2>5, <3>3, <4>1
      <4>3. QED
        BY <3>3, <4>1, <4>2
    <3>6. QED
      BY <3>1, <3>3, <3>4, <3>5
  <2>16. /\ Len(draft'.assigned) = n + 1
         /\ \A i \in 1 .. n + 1 : draft'.assigned[i].node = Chosen(selection)[i].node
    <3>1. PICK z, w : z = draft'.assigned /\ w = draft.assigned
      OBVIOUS
    <3>2. /\ Len(z) = n + 1 /\ z[n + 1] = a /\ \A i \in 1 .. n : z[i] = w[i]
      BY <1>3, <2>4, <2>5, <2>14, <3>1, OneMore
    <3>3. \A i \in 1 .. n + 1 : i \in 1 .. n \/ i = n + 1
      BY <2>4
    <3>4. QED
      BY <2>4, <2>5, <2>14, <3>1, <3>2, <3>3
  <2>17. Following'
    <3>1. /\ Stages(selection)' = Stages(selection) /\ Chosen(selection)' = Chosen(selection)
          /\ Decisions' = Decisions
      BY <1>1, ScheduleStays, ChosenStays
    <3>2. Stages(selection)'[Decided'] = next
      BY <2>11, <2>15, <3>1
    <3>3. Parts \subseteq DOMAIN next.plan
      BY <2>5, <2>13
    <3>4. QED
      BY <1>1, <2>5, <2>12, <2>13, <2>15, <2>16, <3>1, <3>2, <3>3 DEF Following, Alike, Parts
  <2>18. Searching' /\ BestKept'
    BY <1>1, <2>1, SearchingStays, BestStays DEF OptimalInv, SearchingAt
  <2>19. PlacesBest'
    BY <1>1 DEF PlacesBest
  <2>20. QED
    BY <1>5, <2>17, <2>18, <2>19 DEF OptimalInv
<1>8. QED
  BY <1>6, <1>7

---------------------------------------------------------------------------
(* The best plan. *)

\* Being as good is transitive.
LEMMA AsGoodTrans ==
  ASSUME NEW p, NEW q, NEW r, Ranked(p), Ranked(q), Ranked(r), AsGood(p, q), AsGood(q, r)
  PROVE  AsGood(p, r)
<1>1. PICK kp, kq, kr : kp = ObjectiveKey(p) /\ kq = ObjectiveKey(q) /\ kr = ObjectiveKey(r)
  OBVIOUS
<1>2. PICK np, nq, nr : np = NodesOf(p) /\ nq = NodesOf(q) /\ nr = NodesOf(r)
  OBVIOUS
<1>3. /\ kp \in Seq(Int) /\ kq \in Seq(Int) /\ kr \in Seq(Int)
      /\ np \in Seq(Int) /\ nq \in Seq(Int) /\ nr \in Seq(Int)
  BY <1>1, <1>2 DEF Ranked
<1>4. \A a, b \in Seq(Int) : Precedes(a, b) <=> Before(a, b)
  BY PrecedesIsBefore
<1>5. /\ Before(kp, kq) \/ (kp = kq /\ (np = nq \/ Before(np, nq)))
      /\ Before(kq, kr) \/ (kq = kr /\ (nq = nr \/ Before(nq, nr)))
  BY <1>1, <1>2, <1>3, <1>4 DEF AsGood, NodesOf
<1>6. Before(kp, kq) /\ Before(kq, kr) => Before(kp, kr)
  BY <1>3, BeforeTrans
<1>7. Before(np, nq) /\ Before(nq, nr) => Before(np, nr)
  BY <1>3, BeforeTrans
<1>8. Before(kp, kr) \/ (kp = kr /\ (np = nr \/ Before(np, nr)))
  BY <1>5, <1>6, <1>7
<1>9. QED
  BY <1>1, <1>2, <1>3, <1>4, <1>8 DEF AsGood, NodesOf

\* A draft that has been placed is ranked by numbers.
LEMMA DraftIsRanked ==
  ASSUME Planned, Drafting
  PROVE  Ranked(draft)
<1>1. EstimateInv /\ PlanTyped(draft) /\ Assigns(draft)
  BY DEF Planned, PlanningInv, PlansRight, BuiltInInv, DraftRight, Sound
<1>2. ObjectiveKey(draft) \in Seq(Int)
  BY <1>1, KeyIsNumbers
<1>3. NodesOf(draft) \in Seq(Int)
  <2>1. PICK s : s = draft.assigned
    OBVIOUS
  <2>2. DOMAIN s = 1 .. Len(s) /\ Len(s) \in Nat
    BY <1>1, <2>1 DEF PlanTyped, Sequence
  <2>3. \A i \in DOMAIN s : s[i].node \in Int
    <3>1. SUFFICES ASSUME NEW i \in DOMAIN s PROVE s[i].node \in Int
      OBVIOUS
    <3>2. s[i] \in ToSet(draft.assigned)
      BY <2>1 DEF ToSet
    <3>3. CASE s[i].node = 0
      BY <3>3
    <3>4. CASE s[i].node # 0
      <4>1. PICK c \in candidates : Realizes(draft, s[i], c)
        BY <1>1, <3>2, <3>4 DEF Assigns
      <4>2. c.node = s[i].node /\ c.node \in Nodes
        BY <1>1, <4>1 DEF Realizes, EstimateInv, Estimated, CandidateRight, AllowedNodes
      <4>3. \A n \in Nodes : n \in Int
        BY NetworkAssumption
      <4>4. s[i].node \in Nodes
        BY <4>2
      <4>5. QED
        BY <4>3, <4>4
    <3>5. QED
      BY <3>3, <3>4
  <2>4. NodesOf(draft) = [i \in 1 .. Len(s) |-> s[i].node]
    BY <2>1, <2>2 DEF NodesOf
  <2>5. QED
    BY <2>2, <2>3, <2>4
<1>4. QED
  BY <1>2, <1>3 DEF Ranked

\* Of the plan looked at and the best one before, the better one is kept.
LEMMA OptimalScore ==
  ASSUME Planned, OptimalInv, Score
  PROVE  OptimalInv'
<1>1. /\ UNCHANGED <<problem, candidates, optimizer, draft, remaining, selection>>
      /\ pc = "score" /\ pc' \in {"select", "validate"}
  BY DEF Score, Return, searchVars, problemVars
<1>2. draft.status # "optimal" /\ plan = <<>>
  BY <1>1 DEF OptimalInv, Unanswered
<1>3. Following' /\ PlacesBest'
  BY <1>1 DEF Following, Drafting, PlacesBest
<1>4. Unanswered' /\ OptimalIsOptimal'
  <2>1. plan' = <<>> \/ (plan' = <<draft>> /\ pc' = "validate")
    BY <1>2 DEF Score, Return
  <2>2. QED
    BY <1>1, <1>2, <2>1 DEF Unanswered, OptimalIsOptimal
<1>5. CASE optimizer # "exhaustive"
  <2>1. UNCHANGED incumbent
    <3>1. optimizer = "greedy"
      BY <1>1, <1>5 DEF Planned, BuiltInInv, AskedRight, OneHotAsked
    <3>2. QED
      BY <3>1 DEF Score
  <2>2. QED
    BY <1>1, <1>4, <1>5, <2>1, OptimalElsewhere DEF OptimalInv
<1>6. CASE optimizer = "exhaustive"
  <2>1. Drafting /\ OneHotAsked /\ todo = <<>> /\ ~Drafting'
    BY <1>1, <1>6, Zenon DEF Drafting, OneHotAsked, Planned, BuiltInInv, AskedRight, Score, Return
  <2>2. Decision(selection) /\ Len(selection) \in Nat /\ DOMAIN selection = 1 .. Len(selection)
        /\ Decided = Len(selection)
    BY <2>1 DEF Planned, BuiltInInv, DecisionRight, Decision, Decided
  <2>3. PICK r : r = Schedule(selection)
    OBVIOUS
  <2>4. /\ selection \in Decisions /\ Alike(r, draft) /\ Len(draft.assigned) = Len(selection)
        /\ \A i \in 1 .. Len(selection) : draft.assigned[i].node = Chosen(selection)[i].node
    BY <1>6, <2>1, <2>2, <2>3 DEF OptimalInv, Following, Schedule
  <2>5. problem \in Problems
    BY DEF Planned, PlanningInv, EstimateInv, Setting
  <2>6. /\ ObjectiveKey(draft) = ObjectiveKey(r) /\ HardViolation(draft) = HardViolation(r)
        /\ \A p : AsGood(p, r) = AsGood(p, draft)
    BY <2>4, <2>5, AlikeKeys
  <2>7. Ranked(draft) /\ Ranked(r)
    <3>1. Ranked(draft)
      BY <2>1, DraftIsRanked
    <3>2. NodesOf(draft) = NodesOf(r)
      BY <2>4 DEF NodesOf, Alike
    <3>3. QED
      BY <2>6, <3>1, <3>2 DEF Ranked
  <2>8. /\ remaining \subseteq Decisions
        /\ \A s \in Decisions : s \in remaining \/ s = selection \/ Dealt(s)
    BY <1>1, <1>6 DEF OptimalInv, Searching, SearchingAt
  <2>9. Decisions' = Decisions
    BY <1>1, ScheduleStays
  <2>10. PICK key, nodes : key = ObjectiveKey(draft) /\ nodes = NodesOf(draft)
    OBVIOUS
  <2>11. nodes = [i \in DOMAIN selection |-> Chosen(selection)[i].node]
    <3>1. DOMAIN draft.assigned = 1 .. Len(selection)
      BY <2>2, <2>4 DEF Planned, PlansRight, PlanTyped, Sequence
    <3>2. QED
      BY <2>2, <2>4, <2>10, <3>1 DEF NodesOf
  <2>12. PICK better : better = (incumbent = <<>> \/ Precedes(key, incumbent[1].key)
                                 \/ (key = incumbent[1].key /\ Precedes(nodes, incumbent[1].nodes)))
    OBVIOUS
  <2>13. \/ HardViolation(draft) /\ UNCHANGED incumbent
         \/ ~HardViolation(draft) /\ better
              /\ incumbent' = <<[plan |-> draft, key |-> key, nodes |-> nodes]>>
         \/ ~HardViolation(draft) /\ ~better /\ UNCHANGED incumbent
    BY <1>6, <2>10, <2>11, <2>12 DEF Score
  <2>14. ASSUME UNCHANGED incumbent, Dealt(selection)
         PROVE  OptimalInv'
    <3>1. \A s : Dealt(s)' = Dealt(s)
      BY <1>1, <2>14, DealtStays
    <3>2. Searching'
      BY <2>8, <2>9, <2>14, <3>1, <1>1 DEF Searching
    <3>3. BestKept'
      BY <1>1, <2>14, BestStays DEF OptimalInv
    <3>4. QED
      BY <1>3, <1>4, <3>2, <3>3 DEF OptimalInv
  <2>15. CASE HardViolation(draft) /\ UNCHANGED incumbent
    <3>1. Dealt(selection)
      BY <2>3, <2>6, <2>15 DEF Dealt
    <3>2. QED
      BY <2>14, <2>15, <3>1
  <2>16. CASE ~better /\ UNCHANGED incumbent
    <3>1. PICK p : p = incumbent[1].plan
      OBVIOUS
    <3>2. /\ incumbent # <<>> /\ Ranked(p) /\ incumbent[1].key = ObjectiveKey(p)
          /\ incumbent[1].nodes = NodesOf(p)
      BY <2>12, <2>16, <3>1 DEF OptimalInv, BestKept
    <3>3. PICK k, n : k = ObjectiveKey(p) /\ n = NodesOf(p)
      OBVIOUS
    <3>4. /\ key \in Seq(Int) /\ k \in Seq(Int) /\ nodes \in Seq(Int) /\ n \in Seq(Int)
      BY <2>7, <2>10, <3>2, <3>3 DEF Ranked
    <3>5. ~Before(key, k) /\ ~(key = k /\ Before(nodes, n))
      BY <2>12, <2>16, <3>2, <3>3, <3>4, PrecedesIsBefore
    <3>6. (key = k \/ Before(key, k) \/ Before(k, key))
          /\ (nodes = n \/ Before(nodes, n) \/ Before(n, nodes))
      BY <3>4, BeforeTotal
    <3>7. Before(k, key) \/ (k = key /\ (n = nodes \/ Before(n, nodes)))
      BY <3>5, <3>6
    <3>8. Precedes(k, key) \/ (k = key /\ (n = nodes \/ Precedes(n, nodes)))
      BY <3>4, <3>7, PrecedesIsBefore
    <3>9. AsGood(p, draft)
      BY <2>10, <3>3, <3>8 DEF AsGood, NodesOf
    <3>10. AsGood(p, r)
      BY <2>6, <3>9
    <3>11. Dealt(selection)
      BY <2>3, <2>7, <3>1, <3>2, <3>10 DEF Dealt
    <3>12. QED
      BY <2>14, <2>16, <3>11
  <2>17. CASE /\ ~HardViolation(draft) /\ better
              /\ incumbent' = <<[plan |-> draft, key |-> key, nodes |-> nodes]>>
    <3>1. incumbent' # <<>> /\ incumbent'[1].plan = draft /\ incumbent'[1].key = key
          /\ incumbent'[1].nodes = nodes
      BY <2>17
    <3>2. PICK d : d = draft
      OBVIOUS
    <3>3. \A q : Ranked(q)' = Ranked(q) /\ AsGood(d, q)' = AsGood(d, q)
      BY <1>1, KeyStays DEF Ranked, NodesOf
    <3>4. BestKept'
      <4>1. ObjectiveKey(d)' = ObjectiveKey(d)
        BY <1>1, KeyStays
      <4>2. Ranked(d)'
        BY <2>7, <3>2, <3>3
      <4>3. QED
        BY <2>10, <3>1, <3>2, <4>1, <4>2 DEF BestKept, NodesOf
    <3>5. ASSUME NEW s \in Decisions, Ranked(Schedule(s)), AsGood(d, Schedule(s))
          PROVE  Dealt(s)'
      <4>1. PICK q : q = Schedule(s)
        OBVIOUS
      <4>2. Schedule(s)' = q
        BY <1>1, <4>1, ScheduleStays
      <4>3. Ranked(q)' /\ AsGood(d, q)'
        BY <3>3, <3>5, <4>1
      <4>4. QED
        BY <3>1, <3>2, <4>2, <4>3 DEF Dealt
    <3>6. AsGood(d, r)
      <4>1. AsGood(d, d)
        BY DEF AsGood
      <4>2. QED
        BY <2>6, <3>2, <4>1
    <3>7. Dealt(selection)'
      <4>1. Ranked(Schedule(selection)) /\ AsGood(d, Schedule(selection))
        BY <2>3, <2>7, <3>6
      <4>2. PICK s : s = selection
        OBVIOUS
      <4>3. Dealt(s)'
        BY <2>4, <3>5, <4>1, <4>2
      <4>4. selection' = s
        BY <1>1, <4>2
      <4>5. QED
        BY <4>3, <4>4 DEF Dealt
    <3>8. ASSUME NEW s \in Decisions, Dealt(s) PROVE Dealt(s)'
      <4>1. PICK q, cs : q = Schedule(s) /\ cs = Chosen(s)
        OBVIOUS
      <4>2. CASE \/ ~Affordable(cs) \/ \E i \in DOMAIN s : TooBig(cs[i])
                 \/ HardViolation(q)
        <5>1. Schedule(s)' = q /\ Chosen(s)' = cs
          BY <1>1, <4>1, ScheduleStays, ChosenStays
        <5>2. Affordable(cs)' = Affordable(cs) /\ HardViolation(q)' = HardViolation(q)
              /\ \A c : TooBig(c)' = TooBig(c)
          BY <1>1, AffordableStays, KeptStays, ScheduleStays
        <5>3. QED
          BY <4>2, <5>1, <5>2 DEF Dealt
      <4>3. CASE incumbent # <<>> /\ Ranked(q) /\ AsGood(incumbent[1].plan, q)
        <5>1. PICK p : p = incumbent[1].plan
          OBVIOUS
        <5>2. Ranked(p) /\ incumbent[1].key = ObjectiveKey(p) /\ incumbent[1].nodes = NodesOf(p)
          BY <4>3, <5>1 DEF OptimalInv, BestKept
        <5>3. AsGood(d, p)
          BY <2>10, <2>12, <2>17, <3>2, <4>3, <5>2 DEF AsGood, NodesOf
        <5>4. AsGood(d, q)
          BY <2>7, <3>2, <4>3, <5>1, <5>2, <5>3, AsGoodTrans
        <5>5. QED
          BY <3>5, <4>1, <4>3, <5>4
      <4>4. QED
        BY <3>8, <4>1, <4>2, <4>3 DEF Dealt
    <3>9. Searching'
      BY <1>1, <2>8, <2>9, <3>7, <3>8 DEF Searching
    <3>10. QED
      BY <1>3, <1>4, <3>4, <3>9 DEF OptimalInv
  <2>18. QED
    BY <2>13, <2>15, <2>16, <2>17
<1>7. QED
  BY <1>5, <1>6

---------------------------------------------------------------------------
(* Together. *)

LEMMA OptimalInit == Init => OptimalInv
<1>1. SUFFICES ASSUME Init PROVE OptimalInv
  OBVIOUS
<1>2. pc = "estimate" /\ incumbent = <<>> /\ draft = EmptyPlan /\ plan = <<>>
  BY <1>1 DEF Init, Begin
<1>3. Following /\ PlacesBest /\ Searching
  BY <1>2 DEF Following, Drafting, PlacesBest, Searching, SearchingAt
<1>4. BestKept /\ Unanswered /\ OptimalIsOptimal
  BY <1>2 DEF BestKept, Unanswered, OptimalIsOptimal, EmptyPlan
<1>5. QED
  BY <1>3, <1>4 DEF OptimalInv

\* Every step keeps it.
LEMMA OptimalStep == Planned /\ OptimalInv /\ [Next]_vars => OptimalInv'
<1>1. SUFFICES ASSUME Planned, OptimalInv, [Next]_vars PROVE OptimalInv'
  OBVIOUS
<1>2. CASE Building
  BY <1>1, <1>2, OptimalBuilding
<1>3. CASE Heuristic
  BY <1>1, <1>3, OptimalAskOther, OptimalHeuristicEnds DEF Heuristic
<1>4. CASE OneHot
  BY <1>1, <1>4, OptimalAskOneHot, OptimalSearchEnds, OptimalGoesOn, OptimalSelect, OptimalScore
  DEF OneHot
<1>5. CASE OneTask
  BY <1>1, <1>5, OptimalNextTask, OptimalTryOption, OptimalSearch, OptimalPlace, OptimalCommit,
     OptimalNoPlace
  DEF OneTask
<1>6. CASE PlugIn
  BY <1>1, <1>6, OptimalAskOther, OptimalPlugIn DEF PlugIn
<1>7. CASE Validate
  BY <1>1, <1>7, OptimalValidate
<1>8. CASE UNCHANGED vars
  BY <1>1, <1>8, OptimalStutters
<1>9. QED
  BY <1>1, <1>2, <1>3, <1>4, <1>5, <1>6, <1>7, <1>8 DEF Next

\* Whatever the problem, the plan the exhaustive search calls optimal is as good as
\* that of every decision of the formulation that keeps the batteries and the hard
\* constraints, in its objectives and then in its nodes.
THEOREM OptimalIsOptimalHolds == Spec => []OptimalIsOptimal
<1>1. Init => Planned /\ OptimalInv
  BY PlanningInit, PlansInit, BuiltInInit, OptimalInit DEF Planned
<1>2. Planned /\ OptimalInv /\ [Next]_vars => Planned' /\ OptimalInv'
  <2>1. SUFFICES ASSUME Planned, OptimalInv, [Next]_vars PROVE Planned' /\ OptimalInv'
    OBVIOUS
  <2>2. PlanningInv' /\ PlansRight' /\ BuiltInInv'
    BY <2>1, PlanningStep, PlansStep, BuiltInStep DEF Planned
  <2>3. QED
    BY <2>1, <2>2, OptimalStep DEF Planned
<1>3. OptimalInv => OptimalIsOptimal
  BY DEF OptimalInv
<1>4. QED
  BY <1>1, <1>2, <1>3, PTL DEF Spec
=============================================================================
