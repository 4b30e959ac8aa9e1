--------------------------- MODULE PlanningProofs --------------------------
(***************************************************************************)
(* Theorems about the making of a plan, for every set of problems, nodes,  *)
(* links and resources, and whichever optimizer is asked.                  *)
(***************************************************************************)
EXTENDS Planning, FiniteSetTheorems, TLAPS, WellFoundedInduction

---------------------------------------------------------------------------
(* Least and greatest elements. *)

\* Natural numbers are well-founded, so a least level is attained.
LEMMA MinimalLevel ==
  ASSUME NEW T, T # {}, NEW level, \A x \in T : level[x] \in Nat
  PROVE  \E x \in T : \A y \in T : ~(level[y] < level[x])
<1> DEFINE R == OpToRel(<, Nat)
           L == {level[x] : x \in T}
<1>1. IsWellFoundedOn(R, Nat)
  BY NatLessThanWellFounded
<1>2. \A m, n \in Nat : m < n => <<m, n>> \in R
  BY DEF OpToRel
<1>3. L \subseteq Nat /\ L # {}
  OBVIOUS
<1> HIDE DEF R, L
<1>4. PICK m \in L : \A n \in L : <<n, m>> \notin R
  BY <1>1, <1>3, WFMin
<1>5. PICK x \in T : level[x] = m
  BY <1>4 DEF L
<1>6. \A y \in T : ~(level[y] < level[x])
  BY <1>2, <1>4, <1>5 DEF L
<1>7. QED
  BY <1>6

\* The least element of a set of natural numbers.
LEMMA MinOfSet ==
  ASSUME NEW S \in SUBSET Nat, S # {}
  PROVE  Min(S) \in S /\ \A x \in S : Min(S) <= x
<1> DEFINE level == [x \in S |-> x]
<1>1. \A x \in S : level[x] \in Nat
  OBVIOUS
<1>2. PICK m \in S : \A x \in S : ~(level[x] < level[m])
  <2> HIDE DEF level
  <2>1. QED
    BY <1>1, MinimalLevel
<1>3. \E n \in S : \A x \in S : n <= x
  BY <1>2
<1>4. QED
  BY <1>3 DEF Min

\* The greatest element of a bounded set of natural numbers.
LEMMA MaxOfSet ==
  ASSUME NEW b \in Nat, NEW S \in SUBSET (0 .. b), S # {}
  PROVE  Max(S) \in S /\ \A x \in S : x <= Max(S)
<1> DEFINE level == [x \in S |-> b - x]
<1>1. \A x \in S : level[x] \in Nat
  OBVIOUS
<1>2. PICK m \in S : \A x \in S : ~(level[x] < level[m])
  <2> HIDE DEF level
  <2>1. QED
    BY <1>1, MinimalLevel
<1>3. \E n \in S : \A x \in S : n >= x
  BY <1>2
<1>4. QED
  BY <1>3 DEF Max

---------------------------------------------------------------------------
(* Load. *)

Units(S, r) == UNION {{x} \X (1 .. x.demand[r]) : x \in S}

Demanding(S) == \A x \in S : x.demand \in [Resources -> Nat]

\* Finitely many reservations hold finitely many units.
LEMMA UnitsFinite ==
  ASSUME NEW S, IsFiniteSet(S), Demanding(S), NEW r \in Resources
  PROVE  IsFiniteSet(Units(S, r)) /\ Load(S, r) \in Nat
<1> DEFINE part(x) == {x} \X (1 .. x.demand[r])
           parts == {part(x) : x \in S}
           f == [x \in S |-> part(x)]
<1>1. f \in Surjection(S, parts)
  <2>1. f \in [S -> parts] /\ \A p \in parts : \E x \in S : f[x] = p
    OBVIOUS
  <2>2. QED
    BY <2>1, Zenon DEF Surjection
<1>2. IsFiniteSet(parts)
  <2> HIDE DEF f, parts
  <2>1. QED
    BY <1>1, FS_Surjection
<1>3. ASSUME NEW x \in S PROVE IsFiniteSet(part(x))
  <2>1. x.demand[r] \in Nat
    BY DEF Demanding
  <2>2. IsFiniteSet({x})
    BY FS_Singleton
  <2>3. IsFiniteSet(1 .. x.demand[r])
    BY <2>1, FS_Interval
  <2>4. QED
    BY <2>2, <2>3, FS_Product
<1>4. IsFiniteSet(UNION parts)
  BY <1>2, <1>3, FS_UNION
<1>5. QED
  BY <1>4, FS_CardinalityType DEF Units, Load

\* The load of a node that no reservation explains is a number.
LEMMA BackgroundIsNumber ==
  ASSUME problem \in Problems, NEW n \in Nodes, NEW r \in Resources
  PROVE  Background(n, r) \in Int
<1> DEFINE R == ActiveAt(problem.carryIn, n, problem.now)
<1>1. WellFormed(problem)
  BY ProblemAssumption
<1>2. R \subseteq problem.carryIn /\ IsFiniteSet(problem.carryIn)
  BY <1>1 DEF ActiveAt, WellFormed
<1>3. IsFiniteSet(R)
  BY <1>2, FS_Subset
<1>4. Load(R, r) \in Nat
  <2> HIDE DEF R
  <2>1. \A z \in problem.carryIn : z.demand \in [Resources -> Nat]
    BY <1>1 DEF WellFormed
  <2>2. Demanding(R)
    BY <1>2, <2>1 DEF Demanding
  <2>3. QED
    BY <1>3, <2>2, UnitsFinite
<1>5. problem.observed[n][r] \in Nat
  BY <1>1 DEF WellFormed
<1>6. QED
  BY <1>4, <1>5 DEF Background

\* Where reservations fit, so do any that correspond to some of them and ask for as
\* much.
LEMMA FitsInjected ==
  ASSUME problem \in Problems, NEW n \in Nodes,
         NEW X, NEW Y, IsFiniteSet(Y), Demanding(Y), NEW g \in Injection(X, Y),
         \A x \in X : x.demand = g[x].demand, Fits(n, Y)
  PROVE  Fits(n, X)
<1>1. WellFormed(problem)
  BY ProblemAssumption
<1>2. g \in [X -> Y] /\ \A x, z \in X : g[x] = g[z] => x = z
  BY DEF Injection, IsInjective
<1>3. IsFiniteSet(X) /\ Demanding(X)
  <2>1. IsFiniteSet(X)
    BY FS_Injection
  <2>2. QED
    BY <1>2, <2>1 DEF Demanding
<1>4. Cardinality(X) <= Cardinality(Y) /\ Cardinality(X) \in Nat /\ Cardinality(Y) \in Nat
  BY <1>3, FS_Injection, FS_CardinalityType
<1>5. ASSUME NEW r \in Resources
      PROVE  Load(X, r) <= Load(Y, r) /\ Load(X, r) \in Nat /\ Load(Y, r) \in Nat
  <2> DEFINE f == [u \in Units(X, r) |-> <<g[u[1]], u[2]>>]
  <2>1. ASSUME NEW u \in Units(X, r)
        PROVE  u = <<u[1], u[2]>> /\ u[1] \in X /\ u[2] \in 1 .. u[1].demand[r]
    BY DEF Units
  <2>2. ASSUME NEW u \in Units(X, r) PROVE f[u] \in Units(Y, r)
    <3>1. g[u[1]] \in Y /\ u[2] \in 1 .. g[u[1]].demand[r]
      BY <1>2, <2>1
    <3>2. QED
      BY <3>1 DEF Units
  <2>3. ASSUME NEW u \in Units(X, r), NEW v \in Units(X, r), f[u] = f[v] PROVE u = v
    <3>1. g[u[1]] = g[v[1]] /\ u[2] = v[2]
      BY <2>3
    <3>2. u[1] = v[1]
      BY <1>2, <2>1, <3>1
    <3>3. QED
      BY <2>1, <3>1, <3>2
  <2>4. f \in Injection(Units(X, r), Units(Y, r))
    BY <2>2, <2>3 DEF Injection, IsInjective
  <2>5. Cardinality(Units(X, r)) <= Cardinality(Units(Y, r))
    <3> HIDE DEF f
    <3>1. QED
      BY <2>4, UnitsFinite, FS_Injection
  <2>6. QED
    BY <1>3, <2>5, UnitsFinite DEF Load, Units
<1>6. \A r \in Resources : Background(n, r) \in Int
  BY BackgroundIsNumber
<1>7. problem.concurrency[n] \in Nat /\ \A r \in Resources : problem.capacity[n][r] \in Nat
  BY <1>1 DEF WellFormed
<1>8. Cardinality(X) <= problem.concurrency[n]
  BY <1>4, <1>7 DEF Fits
<1>9. ASSUME NEW r \in Resources
      PROVE  Background(n, r) + Load(X, r) <= problem.capacity[n][r]
  <2>1. Background(n, r) + Load(Y, r) <= problem.capacity[n][r]
    BY DEF Fits
  <2>2. QED
    BY <1>5, <1>6, <1>7, <2>1
<1>10. QED
  BY <1>8, <1>9 DEF Fits

\* Where a set of reservations fits, any part of it does.
LEMMA FitsPart ==
  ASSUME problem \in Problems, NEW n \in Nodes,
         NEW B, IsFiniteSet(B), Demanding(B), NEW A \in SUBSET B, Fits(n, B)
  PROVE  Fits(n, A)
<1> DEFINE g == [x \in A |-> x]
<1>1. g \in Injection(A, B) /\ \A x \in A : x.demand = g[x].demand
  BY DEF Injection, IsInjective
<1> HIDE DEF g
<1>2. QED
  BY <1>1, FitsInjected

\* Where a set of reservations fits with another one y, so does any part of it with
\* one that asks for as much as y.
LEMMA FitsLess ==
  ASSUME problem \in Problems, NEW n \in Nodes,
         NEW B, IsFiniteSet(B), Demanding(B), NEW A \in SUBSET B,
         NEW x, NEW y, x.demand = y.demand, y.demand \in [Resources -> Nat], y \notin B,
         Fits(n, {y} \cup B)
  PROVE  Fits(n, {x} \cup A)
<1> DEFINE X == {x} \cup A
           Y == {y} \cup B
           g == [z \in X |-> IF z = x THEN y ELSE z]
<1>1. IsFiniteSet(Y) /\ Demanding(Y)
  BY FS_AddElement DEF Demanding
<1>2. g \in Injection(X, Y)
  BY DEF Injection, IsInjective
<1>3. \A z \in X : z.demand = g[z].demand
  OBVIOUS
<1>4. Fits(n, Y)
  OBVIOUS
<1> HIDE DEF g, X, Y
<1>5. Fits(n, X)
  BY <1>1, <1>2, <1>3, <1>4, FitsInjected
<1>6. QED
  BY <1>5 DEF X

---------------------------------------------------------------------------
(* Numbers. *)

\* A finite set of numbers has a greatest one.
LEMMA MaxOfFinite ==
  ASSUME NEW S \in SUBSET Int, S # {}, IsFiniteSet(S)
  PROVE  Max(S) \in S /\ \A x \in S : x <= Max(S)
<1> DEFINE above(x) == {y \in S : y > x}
           level == [x \in S |-> Cardinality(above(x))]
<1>1. ASSUME NEW x \in S PROVE IsFiniteSet(above(x)) /\ Cardinality(above(x)) \in Nat
  <2>1. above(x) \in SUBSET S
    OBVIOUS
  <2> HIDE DEF above
  <2>2. QED
    BY <2>1, FS_Subset, FS_CardinalityType
<1>2. \A x \in S : level[x] \in Nat
  BY <1>1
<1>3. PICK m \in S : \A x \in S : ~(level[x] < level[m])
  <2> HIDE DEF level
  <2>1. QED
    BY <1>2, MinimalLevel
<1>4. ASSUME NEW x \in S, x > m PROVE FALSE
  <2>1. above(x) \in SUBSET above(m) /\ x \in above(m) /\ x \notin above(x)
    <3>1. x \in Int /\ m \in Int /\ \A y \in S : y \in Int
      OBVIOUS
    <3>2. \A y \in S : y > x => y > m
      BY <1>4, <3>1
    <3>3. above(x) \in SUBSET above(m)
      BY <3>2
    <3>4. x \in above(m) /\ ~(x > x)
      BY <1>4, <3>1
    <3>5. QED
      BY <3>3, <3>4
  <2>2. Cardinality(above(x)) < Cardinality(above(m))
    <3> HIDE DEF above
    <3>1. above(x) # above(m)
      BY <2>1
    <3>2. Cardinality(above(x)) <= Cardinality(above(m))
          /\ Cardinality(above(m)) # Cardinality(above(x))
      BY <1>1, <2>1, <3>1, FS_Subset
    <3>3. QED
      BY <1>1, <3>2
  <2>3. QED
    BY <1>3, <2>2
<1>5. \A x \in S : m >= x
  BY <1>4
<1>6. QED
  BY <1>5 DEF Max

\* The greater and the lesser of two numbers.
LEMMA MaxOfTwo ==
  ASSUME NEW a \in Int, NEW b \in Int
  PROVE  Max({a, b}) = IF a >= b THEN a ELSE b
<1>1. CASE a >= b
  <2>1. a \in {a, b} /\ \A y \in {a, b} : a >= y
    BY <1>1
  <2>2. \A x \in {a, b} : (\A y \in {a, b} : x >= y) => x = a
    BY <1>1
  <2>3. QED
    BY <1>1, <2>1, <2>2 DEF Max
<1>2. CASE ~(a >= b)
  <2>1. b \in {a, b} /\ \A y \in {a, b} : b >= y
    BY <1>2
  <2>2. \A x \in {a, b} : (\A y \in {a, b} : x >= y) => x = b
    BY <1>2
  <2>3. QED
    BY <1>2, <2>1, <2>2 DEF Max
<1>3. QED
  BY <1>1, <1>2

\* The least of two numbers.
LEMMA MinOfTwo ==
  ASSUME NEW a \in Int, NEW b \in Int
  PROVE  Min({a, b}) = IF a <= b THEN a ELSE b
<1>1. CASE a <= b
  <2>1. a \in {a, b} /\ \A y \in {a, b} : a <= y
    BY <1>1
  <2>2. \A x \in {a, b} : (\A y \in {a, b} : x <= y) => x = a
    BY <1>1
  <2>3. QED
    BY <1>1, <2>1, <2>2 DEF Min
<1>2. CASE ~(a <= b)
  <2>1. b \in {a, b} /\ \A y \in {a, b} : b <= y
    BY <1>2
  <2>2. \A x \in {a, b} : (\A y \in {a, b} : x <= y) => x = b
    BY <1>2
  <2>3. QED
    BY <1>2, <2>1, <2>2 DEF Min
<1>3. QED
  BY <1>1, <1>2

---------------------------------------------------------------------------
(* The search for a start. *)

Reserved(x) == x.node \in Nodes /\ x.start \in Nat /\ x.finish \in Nat /\ x.demand \in [Resources -> Nat]

\* A calendar without a computation of the task t.
CalendarFor(S, t) ==
  IsFiniteSet(S) /\ (\A x \in S : Reserved(x)) /\ \A x \in S : x.id # <<"plan", t>>

\* What the search needs to know of a candidate.
Placeable(c) == c.node \in Nodes /\ c.compute \in Nat /\ c.demand \in [Resources -> Nat]

\* The reservations of a node that are active at a moment are finitely many, and
\* the one to be placed is none of them.
LEMMA ActiveIsApart ==
  ASSUME NEW c, CalendarFor(calendar, c.task), Placeable(c), NEW u, NEW S \in SUBSET calendar
  PROVE  /\ IsFiniteSet(S) /\ Demanding(S)
         /\ \A start : Reservation(c, start) \notin S
                       /\ Reservation(c, start).demand = c.demand
<1>1. IsFiniteSet(S)
  BY FS_Subset DEF CalendarFor
<1>2. Demanding(S)
  BY DEF CalendarFor, Demanding, Reserved
<1>3. ASSUME NEW start
      PROVE  Reservation(c, start) \notin S /\ Reservation(c, start).demand = c.demand
  BY DEF CalendarFor, Reservation
<1>4. QED
  BY <1>1, <1>2, <1>3

\* Where a candidate does not fit from a time on, it is not free to start before
\* the first release after that time either: what stands in its way at the point
\* looked at does so until then.
LEMMA StartsSkipped ==
  ASSUME problem \in Problems, NEW c, CalendarFor(calendar, c.task), Placeable(c),
         NEW s \in Nat, ~FitsFrom(c, s), Releases(c, s) # {},
         NEW t \in s .. Min(Releases(c, s)) - 1
  PROVE  ~Free(calendar, c, t)
<1> DEFINE over == Overlapping(c, s)
           within(u) == {x \in over : x.start <= u /\ u < x.finish}
           last == Min(Releases(c, s))
<1>1. over \in SUBSET calendar
  BY DEF Overlapping
<1>2. \A x \in over : x.start \in Nat /\ x.finish \in Nat /\ x.finish > s /\ x.start < s + c.compute
  BY DEF Overlapping, CalendarFor, Reserved
<1>3. last \in Nat /\ \A x \in over : last <= x.finish
  <2>1. Releases(c, s) \in SUBSET Nat /\ \A x \in over : x.finish \in Releases(c, s)
    BY <1>2 DEF Releases
  <2>2. QED
    BY <2>1, MinOfSet
<1>4. PICK u \in Int : /\ s <= u /\ u < s + c.compute
                       /\ ~Fits(c.node, {Reservation(c, s)} \cup within(u))
  <2> DEFINE points == {s} \cup {Max({s, x.start}) : x \in over}
                           \cup {Min({s + c.compute, x.finish}) : x \in over}
  <2>1. PICK u \in points : /\ u < s + c.compute
                            /\ ~Fits(c.node, {Reservation(c, s)} \cup within(u))
    BY DEF FitsFrom
  <2>2. c.compute \in Nat
    BY DEF Placeable
  <2>3. ASSUME NEW x \in over PROVE Max({s, x.start}) \in Int /\ Max({s, x.start}) >= s
    <3>1. x.start \in Nat
      BY <1>2
    <3>2. QED
      BY <3>1, MaxOfTwo
  <2>4. ASSUME NEW x \in over
        PROVE  Min({s + c.compute, x.finish}) \in Int /\ Min({s + c.compute, x.finish}) >= s
    <3>1. x.finish \in Nat /\ x.finish > s /\ s + c.compute \in Nat
      BY <1>2, <2>2
    <3>2. QED
      BY <2>2, <3>1, MinOfTwo
  <2>5. u \in Int /\ s <= u
    <3>1. CASE u = s
      BY <3>1
    <3>2. CASE \E x \in over : u = Max({s, x.start})
      BY <2>3, <3>2, Zenon
    <3>3. CASE \E x \in over : u = Min({s + c.compute, x.finish})
      BY <2>4, <3>3, Zenon
    <3>4. QED
      BY <3>1, <3>2, <3>3
  <2>6. QED
    BY <2>1, <2>5
<1> DEFINE v == IF u >= t THEN u ELSE t
<1>5. t \in Int /\ s <= t /\ t < last
  BY <1>3
<1>6. v \in t .. t + c.compute - 1
  BY <1>4, <1>5 DEF Placeable
<1>7. within(u) \in SUBSET ActiveAt(calendar, c.node, v)
  <2>1. ASSUME NEW x \in within(u) PROVE x \in ActiveAt(calendar, c.node, v)
    <3>1. x \in over /\ x.start <= u /\ u < x.finish
      OBVIOUS
    <3>2. x \in calendar /\ x.node = c.node
      BY <3>1 DEF Overlapping
    <3>3. last <= x.finish /\ x.start \in Nat /\ x.finish \in Nat
      BY <1>2, <1>3, <3>1
    <3>4. x.start <= v /\ v < x.finish
      <4> HIDE DEF last
      <4>1. QED
        BY <1>3, <1>4, <1>5, <3>1, <3>3
    <3>5. QED
      BY <3>2, <3>4 DEF ActiveAt
  <2>2. QED
    BY <2>1
<1>8. ASSUME Fits(c.node, {Reservation(c, t)} \cup ActiveAt(calendar, c.node, v)) PROVE FALSE
  <2> DEFINE B == ActiveAt(calendar, c.node, v)
             A == within(u)
  <2>1. B \in SUBSET calendar
    BY DEF ActiveAt
  <2>2. A \in SUBSET B
    BY <1>7
  <2>3. ~Fits(c.node, {Reservation(c, s)} \cup A)
    BY <1>4
  <2>4. Fits(c.node, {Reservation(c, t)} \cup B)
    BY <1>8
  <2> HIDE DEF A, B
  <2>5. IsFiniteSet(B) /\ Demanding(B)
        /\ \A start : Reservation(c, start) \notin B /\ Reservation(c, start).demand = c.demand
    BY <2>1, ActiveIsApart
  <2>6. c.node \in Nodes /\ c.demand \in [Resources -> Nat]
    BY DEF Placeable
  <2> DEFINE x == Reservation(c, s)
             y == Reservation(c, t)
  <2>7. x.demand = y.demand /\ y.demand \in [Resources -> Nat] /\ y \notin B
    BY <2>5, <2>6
  <2>8. ~Fits(c.node, {x} \cup A) /\ Fits(c.node, {y} \cup B)
    BY <2>3, <2>4
  <2> HIDE DEF x, y
  <2>9. QED
    BY <2>2, <2>5, <2>6, <2>7, <2>8, FitsLess
<1>9. QED
  BY <1>6, <1>8 DEF Free

\* Where the search stops the candidate is free to start: what is active at a moment
\* of its computation was so at the last point looked at before, and if nothing is
\* left to be released it has its node for itself.
LEMMA FoundIsFree ==
  ASSUME problem \in Problems, NEW c, CalendarFor(calendar, c.task), Placeable(c), ~TooBig(c),
         NEW s \in Nat, FitsFrom(c, s) \/ Releases(c, s) = {}
  PROVE  Free(calendar, c, s)
<1> DEFINE over == Overlapping(c, s)
           within(u) == {x \in over : x.start <= u /\ u < x.finish}
<1>1. over \in SUBSET calendar
  BY DEF Overlapping
<1>2. c.compute \in Nat /\ c.node \in Nodes /\ c.demand \in [Resources -> Nat]
  BY DEF Placeable
<1>3. \A x \in over : x.start \in Nat /\ x.finish \in Nat /\ x.finish > s /\ x.start < s + c.compute
  BY DEF Overlapping, CalendarFor, Reserved
<1>4. ASSUME NEW u \in s .. s + c.compute - 1
      PROVE  Fits(c.node, {Reservation(c, s)} \cup ActiveAt(calendar, c.node, u))
  <2> DEFINE A == ActiveAt(calendar, c.node, u)
             x == Reservation(c, s)
  <2>1. u \in Nat /\ s <= u /\ u < s + c.compute
    BY <1>2
  <2>2. ASSUME NEW y \in A
        PROVE  y \in over /\ y.start <= u /\ u < y.finish
    <3>1. y \in calendar /\ y.node = c.node /\ y.start <= u /\ u < y.finish
      BY DEF ActiveAt
    <3>2. y.start \in Nat /\ y.finish \in Nat
      BY <3>1 DEF CalendarFor, Reserved
    <3>3. y.start < s + c.compute /\ y.finish > s
      BY <1>2, <2>1, <3>1, <3>2
    <3>4. QED
      BY <3>1, <3>3 DEF Overlapping
  <2>3. CASE FitsFrom(c, s)
    <3> DEFINE points == {s} \cup {Max({s, y.start}) : y \in over}
                             \cup {Min({s + c.compute, y.finish}) : y \in over}
               before == {p \in points : p <= u /\ p \in Nat}
    <3>1. before \in SUBSET (0 .. u) /\ s \in before
      <4>1. s \in points
        OBVIOUS
      <4> HIDE DEF points
      <4>2. ASSUME NEW p \in before PROVE p \in 0 .. u
        <5>1. p \in Nat /\ p <= u
          BY <4>2
        <5>2. QED
          BY <2>1, <5>1
      <4>3. s \in before
        BY <2>1, <4>1
      <4> HIDE DEF before
      <4>4. QED
        BY <4>2, <4>3
    <3> DEFINE v == Max(before)
    <3>2. v \in before /\ \A p \in before : p <= v
      <4> HIDE DEF before
      <4>1. QED
        BY <2>1, <3>1, MaxOfSet
    <3>3. v \in points /\ v \in Nat /\ v <= u
      BY <3>2
    <3>4. ASSUME NEW y \in A PROVE y \in within(v)
      <4>1. y \in over /\ y.start \in Nat /\ y.finish \in Nat /\ y.start <= u /\ u < y.finish
        BY <1>3, <2>2
      <4>2. Max({s, y.start}) \in Nat /\ Max({s, y.start}) <= u /\ y.start <= Max({s, y.start})
        BY <2>1, <4>1, MaxOfTwo
      <4>3. Max({s, y.start}) \in before
        BY <4>1, <4>2
      <4>4. y.start <= v /\ v < y.finish
        <5> HIDE DEF v, before
        <5>1. Max({s, y.start}) <= v
          BY <3>2, <4>3
        <5>2. QED
          BY <2>1, <3>3, <4>1, <4>2, <5>1
      <4>5. QED
        BY <4>1, <4>4
    <3> DEFINE B == within(v)
    <3>5. Fits(c.node, {x} \cup B)
      <4>1. v < s + c.compute
        <5> HIDE DEF v
        <5>1. QED
          BY <1>2, <2>1, <3>3
      <4>2. \A p \in points : p < s + c.compute => Fits(c.node, {Reservation(c, s)} \cup within(p))
        BY <2>3, Zenon DEF FitsFrom
      <4> HIDE DEF v, points, within
      <4>3. QED
        BY <3>3, <4>1, <4>2
    <3>6. A \in SUBSET B
      BY <3>4
    <3>7. B \in SUBSET calendar
      BY <1>1
    <3> HIDE DEF A, B
    <3>8. IsFiniteSet(B) /\ Demanding(B) /\ x \notin B /\ x.demand = c.demand
      BY <3>7, ActiveIsApart
    <3> HIDE DEF x
    <3>9. QED
      BY <1>2, <3>5, <3>6, <3>8, FitsLess DEF A, x
  <2>4. CASE Releases(c, s) = {}
    <3>1. A = {}
      BY <2>2, <2>4 DEF Releases
    <3>2. Cardinality({x}) = 1 /\ IsFiniteSet({x})
      BY FS_Singleton
    <3>3. problem.concurrency[c.node] \in Nat \ {0}
      BY <1>2, ProblemAssumption DEF WellFormed
    <3>4. ASSUME NEW r \in Resources PROVE Load({x}, r) = c.demand[r]
      <4>1. x.demand = c.demand /\ c.demand[r] \in Nat
        BY <1>2 DEF Reservation
      <4> HIDE DEF x
      <4>2. UNION {{z} \X (1 .. z.demand[r]) : z \in {x}} = {x} \X (1 .. c.demand[r])
        BY <4>1
      <4>3. IsFiniteSet(1 .. c.demand[r]) /\ Cardinality(1 .. c.demand[r]) = c.demand[r]
        <5>1. \A k \in Nat : IsFiniteSet(1 .. k) /\ Cardinality(1 .. k) = k
          BY FS_Interval
        <5>2. QED
          BY <4>1, <5>1
      <4>4. Cardinality({x} \X (1 .. c.demand[r])) = c.demand[r]
        <5> DEFINE T == 1 .. c.demand[r]
                   d == c.demand[r]
        <5>1. IsFiniteSet(T) /\ Cardinality(T) = d /\ d \in Nat
          BY <4>1, <4>3
        <5> HIDE DEF T, d
        <5>2. Cardinality({x} \X T) = Cardinality({x}) * d
          BY <3>2, <5>1, FS_Product
        <5>3. Cardinality({x} \X T) = d
          BY <3>2, <5>1, <5>2
        <5>4. QED
          BY <5>3 DEF T, d
      <4>5. Load({x}, r) = Cardinality(UNION {{z} \X (1 .. z.demand[r]) : z \in {x}})
        BY Zenon DEF Load
      <4>6. QED
        BY <4>2, <4>4, <4>5
    <3>5. ASSUME NEW r \in Resources
          PROVE  Background(c.node, r) + c.demand[r] <= problem.capacity[c.node][r]
      <4>1. ~(Background(c.node, r) + c.demand[r] > problem.capacity[c.node][r])
        BY DEF TooBig
      <4>2. Background(c.node, r) \in Int
        BY <1>2, BackgroundIsNumber
      <4>3. c.demand[r] \in Nat /\ problem.capacity[c.node][r] \in Nat
        BY <1>2, ProblemAssumption DEF WellFormed
      <4>4. QED
        BY <4>1, <4>2, <4>3
    <3> HIDE DEF x
    <3>6. Fits(c.node, {x})
      <4>1. Cardinality({x}) <= problem.concurrency[c.node]
        BY <3>2, <3>3
      <4>2. \A r \in Resources : Background(c.node, r) + Load({x}, r) <= problem.capacity[c.node][r]
        BY <3>4, <3>5
      <4>3. QED
        BY <4>1, <4>2 DEF Fits
    <3>7. {Reservation(c, s)} \cup A = {x}
      BY <3>1 DEF x
    <3>8. QED
      BY <3>6, <3>7
  <2>5. QED
    BY <2>3, <2>4
<1>5. QED
  BY <1>4 DEF Free

---------------------------------------------------------------------------
(* Sums. *)

Picked(s) == CHOOSE x \in s : TRUE

\* The sums of the values of f over all subsets of S.
IsSum(g, f, S) ==
  g = [s \in SUBSET S |-> IF s = {} THEN 0 ELSE f[Picked(s)] + g[s \ {Picked(s)}]]

\* What holds of a set if it holds of all smaller parts of it holds of finite sets.
LEMMA SubsetInduction ==
  ASSUME NEW S, IsFiniteSet(S), NEW P,
         \A T \in SUBSET S : (\A U \in SUBSET T : U # T => U \in P) => T \in P
  PROVE  S \in P
<1> DEFINE bad == {T \in SUBSET S : T \notin P}
           level == [T \in bad |-> Cardinality(T)]
<1>1. SUFFICES ASSUME S \notin P PROVE FALSE
  OBVIOUS
<1>2. bad # {}
  BY <1>1
<1>3. \A T \in SUBSET S : IsFiniteSet(T) /\ Cardinality(T) \in Nat
  BY FS_Subset, FS_CardinalityType
<1>4. \A T \in bad : level[T] \in Nat
  BY <1>3
<1>5. PICK T \in bad : \A U \in bad : ~(level[U] < level[T])
  <2> HIDE DEF bad, level
  <2>1. QED
    BY <1>2, <1>4, MinimalLevel
<1>6. ASSUME NEW U \in SUBSET T, U # T PROVE U \in P
  <2>1. SUFFICES ASSUME U \notin P PROVE FALSE
    OBVIOUS
  <2>2. U \in bad /\ T \in SUBSET S
    BY <2>1
  <2>3. ~(Cardinality(U) < Cardinality(T))
    BY <1>5, <2>2
  <2>4. Cardinality(U) <= Cardinality(T) /\ Cardinality(U) # Cardinality(T)
    <3>1. IsFiniteSet(T)
      BY <1>3, <2>2
    <3>2. QED
      BY <1>6, <3>1, FS_Subset
  <2>5. QED
    BY <1>3, <2>2, <2>3, <2>4
<1>7. QED
  BY <1>6

\* There are such sums.
LEMMA SumsExist ==
  ASSUME NEW S, IsFiniteSet(S), NEW f
  PROVE  \E g : IsSum(g, f, S)
<1> DEFINE Part(k) == {s \in SUBSET S : Cardinality(s) <= k}
           value(g, s) == IF s = {} THEN 0 ELSE f[Picked(s)] + g[s \ {Picked(s)}]
           Sums(g, k) == g = [s \in Part(k) |-> value(g, s)]
           n == Cardinality(S)
           bad == {k \in 0 .. n : ~\E g : Sums(g, k)}
           k == Min(bad)
<1>1. n \in Nat /\ \A s \in SUBSET S : IsFiniteSet(s) /\ Cardinality(s) \in Nat /\ Cardinality(s) <= n
  BY FS_Subset, FS_CardinalityType
<1>2. ASSUME NEW s \in SUBSET S, s # {}
      PROVE  Cardinality(s \ {Picked(s)}) = Cardinality(s) - 1 /\ s \ {Picked(s)} \in SUBSET S
             /\ Cardinality(s) # 0
  <2>1. Picked(s) \in s
    BY <1>2 DEF Picked
  <2>2. IsFiniteSet(s)
    BY <1>1
  <2>3. QED
    BY <2>1, <2>2, FS_RemoveElement, FS_EmptySet, <1>2
<1>3. SUFFICES \E g : Sums(g, n)
  <2>1. Part(n) = SUBSET S
    BY <1>1
  <2>2. QED
    BY <2>1 DEF IsSum
<1>4. SUFFICES ASSUME bad # {} PROVE FALSE
  <2>1. n \in 0 .. n
    BY <1>1
  <2>2. QED
    BY <2>1
<1>5. k \in bad /\ \A j \in bad : k <= j
  <2>1. bad \in SUBSET Nat
    BY <1>1
  <2> HIDE DEF bad
  <2>2. QED
    BY <1>4, <2>1, MinOfSet
<1> HIDE DEF k
<1>6. k \in 0 .. n /\ k \in Nat /\ ~\E g : Sums(g, k)
  <2> HIDE DEF Sums, n
  <2>1. QED
    BY <1>1, <1>5
<1>7. CASE k = 0
  <2> DEFINE g == [s \in Part(k) |-> 0]
  <2>1. \A s \in Part(k) : s = {}
    BY <1>1, <1>7, FS_EmptySet, FS_CardinalityType
  <2>2. \A s \in Part(k) : value(g, s) = 0
    BY <2>1
  <2>3. Sums(g, k)
    <3> HIDE DEF Part
    <3>1. g = [s \in Part(k) |-> IF s = {} THEN 0 ELSE value(g, s)]
      BY <2>1
    <3> HIDE DEF value
    <3>2. QED
      BY <2>2
  <2>4. QED
    BY <1>6, <2>3
<1>8. CASE k # 0
  <2>1. k - 1 \in 0 .. n /\ ~(k <= k - 1)
    BY <1>1, <1>6, <1>8
  <2>2. k - 1 \notin bad
    BY <1>5, <2>1
  <2>3. PICK h : Sums(h, k - 1)
    BY <2>1, <2>2
  <2> DEFINE g == [s \in Part(k) |-> value(h, s)]
  <2>4. ASSUME NEW s \in Part(k), s # {} PROVE h[s \ {Picked(s)}] = g[s \ {Picked(s)}]
    <3> DEFINE r == s \ {Picked(s)}
    <3>1. r \in Part(k - 1) /\ r \in Part(k)
      BY <1>1, <1>2, <1>6, <2>4
    <3>2. h[r] = value(h, r)
      <4> HIDE DEF r, value, Part
      <4>1. QED
        BY <2>3, <3>1
    <3>3. g[r] = value(h, r)
      BY <3>1
    <3>4. QED
      BY <3>2, <3>3
  <2>5. \A s \in Part(k) : value(h, s) = value(g, s)
    BY <2>4
  <2>6. Sums(g, k)
    <3>1. g = [s \in Part(k) |-> value(h, s)]
      OBVIOUS
    <3> HIDE DEF g, value, Part
    <3>2. QED
      BY <2>5, <3>1
  <2>7. QED
    BY <1>6, <2>6
<1>9. QED
  BY <1>7, <1>8

\* Sums over the parts of a set do not depend on the set.
LEMMA SumsAgree ==
  ASSUME NEW S, IsFiniteSet(S), NEW T \in SUBSET S, NEW f, NEW g, NEW h,
         IsSum(g, f, T), IsSum(h, f, S)
  PROVE  g[T] = h[T]
<1> DEFINE P == {U \in SUBSET T : g[U] = h[U]}
<1>1. ASSUME NEW U \in SUBSET T, \A V \in SUBSET U : V # U => V \in P PROVE U \in P
  <2>1. CASE U = {}
    BY <2>1 DEF IsSum
  <2>2. CASE U # {}
    <3>1. Picked(U) \in U
      BY <2>2 DEF Picked
    <3>2. g[U \ {Picked(U)}] = h[U \ {Picked(U)}]
      BY <1>1, <3>1
    <3>3. g[U] = f[Picked(U)] + g[U \ {Picked(U)}]
      BY <2>2 DEF IsSum
    <3>4. h[U] = f[Picked(U)] + h[U \ {Picked(U)}]
      BY <2>2 DEF IsSum
    <3>5. QED
      BY <3>2, <3>3, <3>4
  <2>3. QED
    BY <2>1, <2>2
<1>2. T \in P
  <2>1. IsFiniteSet(T)
    BY FS_Subset
  <2> HIDE DEF P
  <2>2. QED
    BY <1>1, <2>1, SubsetInduction
<1>3. QED
  BY <1>2

\* The sum over a set is a value of the set and the sum over the others.
LEMMA SumUnfolds ==
  ASSUME NEW S, IsFiniteSet(S), NEW f
  PROVE  SumFunctionOnSet(f, S) =
           IF S = {} THEN 0 ELSE f[Picked(S)] + SumFunctionOnSet(f, S \ {Picked(S)})
<1>1. \A T : SumFunctionOnSet(f, T) = (CHOOSE g : IsSum(g, f, T))[T]
  BY DEF SumFunctionOnSet, FoldFunctionOnSet, MapThenFoldSet, IsSum, Picked
<1> DEFINE R == S \ {Picked(S)}
<1>2. PICK g : g = (CHOOSE e : IsSum(e, f, S)) /\ IsSum(g, f, S)
  BY SumsExist
<1>3. IsFiniteSet(R)
  BY FS_Subset
<1>4. PICK h : h = (CHOOSE e : IsSum(e, f, R)) /\ IsSum(h, f, R)
  <2> HIDE DEF R
  <2>1. QED
    BY <1>3, SumsExist
<1>5. h[R] = g[R]
  BY <1>2, <1>4, SumsAgree
<1>6. g[S] = IF S = {} THEN 0 ELSE f[Picked(S)] + g[R]
  BY <1>2 DEF IsSum
<1>7. QED
  BY <1>1, <1>2, <1>4, <1>5, <1>6

\* Sums of integers are integers.
LEMMA SumIsInteger ==
  ASSUME NEW S, IsFiniteSet(S), NEW f, \A x \in S : f[x] \in Int
  PROVE  SumFunctionOnSet(f, S) \in Int
<1> DEFINE P == {T \in SUBSET S : SumFunctionOnSet(f, T) \in Int}
<1>1. ASSUME NEW T \in SUBSET S, \A U \in SUBSET T : U # T => U \in P PROVE T \in P
  <2>1. IsFiniteSet(T)
    BY FS_Subset
  <2>2. CASE T = {}
    <3>1. SumFunctionOnSet(f, T) = 0
      BY <2>1, <2>2, SumUnfolds
    <3>2. QED
      BY <3>1
  <2>3. CASE T # {}
    <3>1. Picked(T) \in T
      BY <2>3 DEF Picked
    <3>2. SumFunctionOnSet(f, T \ {Picked(T)}) \in Int /\ f[Picked(T)] \in Int
      BY <1>1, <3>1
    <3>3. SumFunctionOnSet(f, T) = f[Picked(T)] + SumFunctionOnSet(f, T \ {Picked(T)})
      BY <2>1, <2>3, SumUnfolds
    <3>4. QED
      BY <3>2, <3>3
  <2>4. QED
    BY <2>2, <2>3
<1>2. S \in P
  <2> HIDE DEF P
  <2>1. QED
    BY <1>1, SubsetInduction
<1>3. QED
  BY <1>2

\* Sums of natural numbers are natural numbers.
LEMMA SumIsNumber ==
  ASSUME NEW S, IsFiniteSet(S), NEW f, \A x \in S : f[x] \in Nat
  PROVE  SumFunctionOnSet(f, S) \in Nat
<1> DEFINE P == {T \in SUBSET S : SumFunctionOnSet(f, T) \in Nat}
<1>1. ASSUME NEW T \in SUBSET S, \A U \in SUBSET T : U # T => U \in P PROVE T \in P
  <2>1. IsFiniteSet(T)
    BY FS_Subset
  <2>2. CASE T = {}
    <3>1. SumFunctionOnSet(f, T) = 0
      BY <2>1, <2>2, SumUnfolds
    <3>2. QED
      BY <3>1
  <2>3. CASE T # {}
    <3>1. Picked(T) \in T
      BY <2>3 DEF Picked
    <3>2. SumFunctionOnSet(f, T \ {Picked(T)}) \in Nat /\ f[Picked(T)] \in Nat
      BY <1>1, <3>1
    <3>3. SumFunctionOnSet(f, T) = f[Picked(T)] + SumFunctionOnSet(f, T \ {Picked(T)})
      BY <2>1, <2>3, SumUnfolds
    <3>4. QED
      BY <3>2, <3>3
  <2>4. QED
    BY <2>2, <2>3
<1>2. S \in P
  <2> HIDE DEF P
  <2>1. QED
    BY <1>1, SubsetInduction
<1>3. QED
  BY <1>2

\* Any element may be taken out first.
LEMMA SumTakes ==
  ASSUME NEW S, IsFiniteSet(S), NEW f, \A x \in S : f[x] \in Nat, NEW x \in S
  PROVE  SumFunctionOnSet(f, S) = f[x] + SumFunctionOnSet(f, S \ {x})
<1> DEFINE sum(T) == SumFunctionOnSet(f, T)
           P == {T \in SUBSET S : \A y \in T : sum(T) = f[y] + sum(T \ {y})}
<1>1. \A T \in SUBSET S : IsFiniteSet(T) /\ sum(T) \in Nat
  BY FS_Subset, SumIsNumber
<1>2. ASSUME NEW T \in SUBSET S, \A U \in SUBSET T : U # T => U \in P, NEW y \in T
      PROVE  sum(T) = f[y] + sum(T \ {y})
  <2> DEFINE z == Picked(T)
  <2>1. z \in T /\ sum(T) = f[z] + sum(T \ {z})
    BY <1>1, SumUnfolds DEF Picked
  <2> HIDE DEF z, sum
  <2>2. CASE y = z
    BY <2>1, <2>2
  <2>3. CASE y # z
    <3>1. T \ {z} \in P /\ T \ {y} \in P
      BY <1>2, <2>1
    <3>2. y \in T \ {z} /\ z \in T \ {y} /\ (T \ {z}) \ {y} = (T \ {y}) \ {z}
      BY <2>1, <2>3
    <3>3. sum(T \ {z}) = f[y] + sum((T \ {z}) \ {y})
      BY <3>1, <3>2
    <3>4. sum(T \ {y}) = f[z] + sum((T \ {z}) \ {y})
      BY <3>1, <3>2
    <3>5. sum((T \ {z}) \ {y}) \in Nat /\ f[y] \in Nat /\ f[z] \in Nat
      BY <1>1, <2>1
    <3>6. QED
      BY <2>1, <3>3, <3>4, <3>5
  <2>4. QED
    BY <2>2, <2>3
<1>3. S \in P
  <2>1. \A T \in SUBSET S : (\A U \in SUBSET T : U # T => U \in P) => T \in P
    <3> HIDE DEF sum
    <3>1. QED
      BY <1>2
  <2> HIDE DEF P
  <2>2. QED
    BY <2>1, SubsetInduction
<1>4. QED
  BY <1>3

\* The sum over a part, or over what corresponds to a part, is not greater.
LEMMA SumOfPart ==
  ASSUME NEW A, IsFiniteSet(A), NEW C, IsFiniteSet(C), NEW f, NEW h, NEW g \in Injection(A, C),
         \A x \in C : h[x] \in Nat, \A x \in A : f[x] = h[g[x]]
  PROVE  SumFunctionOnSet(f, A) <= SumFunctionOnSet(h, C)
<1> DEFINE P == {T \in SUBSET A : \A D \in SUBSET C : (\A x \in T : g[x] \in D) =>
                    SumFunctionOnSet(f, T) <= SumFunctionOnSet(h, D)}
<1>1. g \in [A -> C] /\ \A x, y \in A : g[x] = g[y] => x = y
  BY DEF Injection, IsInjective
<1>2. \A x \in A : f[x] \in Nat
  BY <1>1
<1>3. \A T \in SUBSET A : IsFiniteSet(T) /\ SumFunctionOnSet(f, T) \in Nat
  BY <1>2, FS_Subset, SumIsNumber
<1>4. \A D \in SUBSET C : IsFiniteSet(D) /\ SumFunctionOnSet(h, D) \in Nat
  BY FS_Subset, SumIsNumber
<1>5. ASSUME NEW T \in SUBSET A, \A U \in SUBSET T : U # T => U \in P,
             NEW D \in SUBSET C, \A x \in T : g[x] \in D
      PROVE  SumFunctionOnSet(f, T) <= SumFunctionOnSet(h, D)
  <2>1. CASE T = {}
    <3>1. SumFunctionOnSet(f, T) = 0
      BY <1>3, <2>1, SumUnfolds
    <3>2. QED
      BY <1>4, <3>1
  <2>2. CASE T # {}
    <3>1. PICK x \in T : TRUE
      BY <2>2
    <3>2. SumFunctionOnSet(f, T) = f[x] + SumFunctionOnSet(f, T \ {x})
      BY <1>2, <1>3, <3>1, SumTakes
    <3>3. g[x] \in D /\ SumFunctionOnSet(h, D) = h[g[x]] + SumFunctionOnSet(h, D \ {g[x]})
      BY <1>4, <1>5, <3>1, SumTakes
    <3>4. T \ {x} \in P /\ \A y \in T \ {x} : g[y] \in D \ {g[x]}
      BY <1>1, <1>5, <3>1
    <3>5. SumFunctionOnSet(f, T \ {x}) <= SumFunctionOnSet(h, D \ {g[x]})
      BY <3>4
    <3>6. /\ f[x] = h[g[x]] /\ f[x] \in Nat /\ SumFunctionOnSet(f, T \ {x}) \in Nat
          /\ SumFunctionOnSet(h, D \ {g[x]}) \in Nat
      BY <1>2, <1>3, <1>4, <3>1
    <3>7. QED
      BY <3>2, <3>3, <3>5, <3>6
  <2>3. QED
    BY <2>1, <2>2
<1>6. A \in P
  <2>1. \A T \in SUBSET A : (\A U \in SUBSET T : U # T => U \in P) => T \in P
    BY <1>5
  <2> HIDE DEF P
  <2>2. QED
    BY <2>1, SubsetInduction
<1>7. QED
  BY <1>1, <1>6

---------------------------------------------------------------------------
(* Sequences. *)

\* A sequence, of whatever elements.
Sequence(s) == s \in Seq({s[i] : i \in DOMAIN s})

\* A sequence over a set is a sequence over what it holds.
LEMMA IsSequence ==
  ASSUME NEW S, NEW s \in Seq(S)
  PROVE  Sequence(s)
<1>1. DOMAIN s = 1 .. Len(s) /\ Len(s) \in Nat /\ s = [i \in 1 .. Len(s) |-> s[i]]
  OBVIOUS
<1>2. s \in [1 .. Len(s) -> {s[i] : i \in DOMAIN s}]
  BY <1>1
<1>3. QED
  BY <1>1, <1>2 DEF Sequence

\* The elements of a sequence are finitely many.
LEMMA RangeIsFinite ==
  ASSUME NEW s, Sequence(s)
  PROVE  IsFiniteSet(ToSet(s)) /\ IsFiniteSet(DOMAIN s) /\ Cardinality(DOMAIN s) = Len(s)
<1>1. DOMAIN s = 1 .. Len(s) /\ Len(s) \in Nat
  BY DEF Sequence
<1>2. IsFiniteSet(DOMAIN s) /\ Cardinality(DOMAIN s) = Len(s)
  <2>1. \A k \in Nat : IsFiniteSet(1 .. k) /\ Cardinality(1 .. k) = k
    BY FS_Interval
  <2>2. QED
    BY <1>1, <2>1
<1>3. s \in Surjection(DOMAIN s, ToSet(s))
  <2>1. s \in [DOMAIN s -> ToSet(s)] /\ \A y \in ToSet(s) : \E i \in DOMAIN s : s[i] = y
    BY DEF ToSet, Sequence
  <2>2. QED
    BY <2>1, Zenon DEF Surjection
<1>4. QED
  BY <1>2, <1>3, FS_Surjection

---------------------------------------------------------------------------
(* The inductive invariant. *)

Transfers == [id : Nat, path : Seq(Links), time : Nat]

\* A label stands for a path from the source whose links are all usable.
LabelRight(x) ==
  /\ x.total \in Nat /\ x.node \in Nodes /\ x.path \in Seq(Links)
  /\ x.path = <<>> => x.node = request.source
  /\ x.path # <<>> => /\ x.total > 0
                      /\ From[x.path[1]] = request.source /\ To[x.path[Len(x.path)]] = x.node
  /\ \A i \in 1 .. Len(x.path) - 1 : To[x.path[i]] = From[x.path[i + 1]]
  /\ \A i \in DOMAIN x.path : Usable(x.path[i])

\* A transfer over a path brings an input of t to n, or the input need not move.
Brings(path, time, input, n, t) ==
  IF path = <<>> THEN input.node = n \/ input.size = 0
                 ELSE time > 0 /\ Connects(path, input.node, n, t)

TransfersRight(moves, t, n) ==
  /\ moves \in Seq(Transfers) /\ Len(moves) <= Len(Inputs(t))
  /\ \A i \in DOMAIN moves :
       moves[i].id = i /\ Brings(moves[i].path, moves[i].time, Inputs(t)[i], n, t)

CandidateRight(c) ==
  /\ {"task", "node", "ready", "start", "finish", "compute", "communication", "demand",
      "energy", "success", "locations", "transfers"} \subseteq DOMAIN c
  /\ c.task \in Ready /\ c.node \in AllowedNodes(c.task)
  /\ c.ready = Max({problem.now, problem.ready[c.task]})
  /\ c.compute = problem.work[c.task][c.node].compute
  /\ c.demand = problem.work[c.task][c.node].demand /\ c.energy \in Nat
  /\ c.success = problem.work[c.task][c.node].success
  /\ c.locations = {x.node : x \in ToSet(Inputs(c.task))}
  /\ TransfersRight(c.transfers, c.task, c.node) /\ Len(c.transfers) = Len(Inputs(c.task))

Setting == problem \in Problems /\ net = problem.network

PairsRight == pairs \subseteq Ready \X Nodes /\ \A x \in pairs : x[2] \in AllowedNodes(x[1])

\* A pair is estimated once.
Estimated ==
  /\ \A c \in candidates : CandidateRight(c) /\ <<c.task, c.node>> \notin pairs
  /\ \A c, d \in candidates : c.task = d.task /\ c.node = d.node => c = d

Gathering ==
  pc \in {"estimate", "route"} /\ pairs # {} /\ gathered # <<>> =>
    TransfersRight(gathered, Pair[1], Pair[2])

\* The route being searched is that of an input of t to n.
Sought(input, n, t) ==
  /\ request = [source |-> input.node, target |-> n, size |-> input.size,
                minimum |-> problem.bandwidth[t]]
  /\ route = <<>> =>
       request.size > 0 /\ request.source # request.target /\ \A x \in frontier : LabelRight(x)
  /\ route # <<>> /\ route[1].feasible =>
       /\ route[1].path \in Seq(Links) /\ route[1].time \in Nat
       /\ Brings(route[1].path, route[1].time, input, n, t)

\* It is that of the next input of the pair.
Routing ==
  pc = "route" =>
    LET k == Len(gathered) + 1
        input == Inputs(Pair[1])[k]
    IN pairs # {} /\ k <= Len(Inputs(Pair[1])) /\ Sought(input, Pair[2], Pair[1])

EstimateInv == Setting /\ PairsRight /\ Estimated /\ Gathering /\ Routing

CalendarRight ==
  /\ IsFiniteSet(calendar) /\ \A x \in calendar : Reserved(x)
  /\ links \in [Links -> Nat]
  /\ pc \in {"estimate", "route"} => calendar = problem.carryIn /\ links = problem.linkFree

\* The tasks to place are different tasks, and have nothing in the calendar yet.
TodoRight ==
  pc \in {"task", "option", "place"} =>
    /\ todo \in Seq(Ready) /\ \A i, j \in DOMAIN todo : todo[i] = todo[j] => i = j
    /\ \A i \in DOMAIN todo : \A x \in calendar : x.id # <<"plan", todo[i]>>

\* A transfer is made at some time.
Timed(x) == x.start \in Nat /\ x.finish \in Int

\* A place is that of a candidate of the first of them.
Concerns(c) == c.task = Head(todo) /\ CandidateRight(c)

OptionsRight ==
  pc \in {"option", "place"} =>
    /\ todo # <<>> /\ optimizer # "plugin"
    /\ \A c \in options : Concerns(c)
    /\ \A x \in placed : Concerns(x.candidate) /\ x.at \in Nat /\ \A y \in x.transfers : Timed(y)

PlacingRight ==
  IF pc = "place"
  THEN /\ placing = <<placing[1]>> /\ Concerns(placing[1]) /\ ~TooBig(placing[1])
       /\ moved.at \in Nat /\ cursor \in Nat /\ \A x \in moved.made : Timed(x)
       /\ \A t \in Max({moved.at, problem.free[placing[1].node]}) .. cursor - 1 :
            ~Free(calendar, placing[1], t)
  ELSE placing = <<>>

PlanningInv ==
  EstimateInv /\ CalendarRight /\ TodoRight /\ OptionsRight /\ PlacingRight

---------------------------------------------------------------------------
(* Inputs. *)

\* Among finitely many numbers there is one with as many below it as one likes.
LEMMA NthExists ==
  ASSUME NEW n \in Nat, NEW F \in SUBSET (1 .. n), NEW k \in 1 .. Cardinality(F)
  PROVE  \E i \in F : Cardinality({j \in F : j < i}) = k - 1
<1> DEFINE below(i) == {j \in F : j < i}
           T == {i \in F : Cardinality(below(i)) >= k - 1}
<1>1. IsFiniteSet(F) /\ Cardinality(F) \in Nat /\ k \in Nat /\ k <= Cardinality(F) /\ k >= 1
  <2>1. IsFiniteSet(1 .. n)
    BY FS_Interval
  <2>2. IsFiniteSet(F) /\ Cardinality(F) \in Nat
    BY <2>1, FS_Subset, FS_CardinalityType
  <2>3. QED
    BY <2>2
<1>2. ASSUME NEW i \in Int PROVE IsFiniteSet(below(i)) /\ Cardinality(below(i)) \in Nat
  <2>1. below(i) \in SUBSET F
    OBVIOUS
  <2> HIDE DEF below
  <2>2. IsFiniteSet(below(i))
    BY <1>1, <2>1, FS_Subset
  <2>3. QED
    BY <2>2, FS_CardinalityType
<1>3. F # {} /\ \A i \in F : i \in Nat /\ i <= n
  <2>1. F # {}
    BY <1>1, FS_EmptySet
  <2>2. QED
    BY <2>1
\* The greatest of some of the numbers, and how many are below it.
<1>4. ASSUME NEW G \in SUBSET F, G # {}
      PROVE  \E m \in G : G = {j \in G : j < m} \cup {m}
  <2>1. G \in SUBSET (0 .. n) /\ G # {}
    BY <1>3, <1>4
  <2>2. Max(G) \in G /\ \A j \in G : j <= Max(G)
    BY <2>1, MaxOfSet
  <2> DEFINE m == Max(G)
  <2>3. m \in G /\ \A j \in G : j <= m /\ j \in Nat
    BY <1>3, <2>2
  <2> HIDE DEF m
  <2>4. \A j \in G : j < m \/ j = m
    BY <2>3
  <2>5. QED
    BY <2>3, <2>4
<1>5. T # {}
  <2>1. PICK m \in F : F = below(m) \cup {m}
    BY <1>3, <1>4
  <2>2. m \in Int /\ m \notin below(m)
    BY <1>3
  <2>3. Cardinality(F) = Cardinality(below(m)) + 1
    <3> HIDE DEF below
    <3>1. QED
      BY <1>2, <2>1, <2>2, FS_AddElement
  <2>4. Cardinality(below(m)) >= k - 1
    <3> HIDE DEF below
    <3>1. QED
      BY <1>1, <1>2, <2>2, <2>3
  <2>5. QED
    BY <2>4
<1>6. T \in SUBSET Nat
  BY <1>3
<1> DEFINE i == Min(T)
<1>7. i \in T /\ \A j \in T : i <= j
  <2> HIDE DEF T
  <2>1. QED
    BY <1>5, <1>6, MinOfSet
<1>8. i \in F /\ i \in Nat /\ Cardinality(below(i)) >= k - 1
  BY <1>3, <1>7
<1> HIDE DEF i
<1>9. ASSUME Cardinality(below(i)) > k - 1 PROVE FALSE
  <2>1. below(i) # {}
    <3> HIDE DEF below
    <3>1. Cardinality(below(i)) # 0
      BY <1>1, <1>2, <1>8, <1>9
    <3>2. QED
      BY <3>1, FS_EmptySet
  <2>2. PICK m \in below(i) : below(i) = {j \in below(i) : j < m} \cup {m}
    <3>1. below(i) \in SUBSET F
      OBVIOUS
    <3> HIDE DEF below
    <3>2. QED
      BY <1>4, <2>1, <3>1
  <2>3. m \in F /\ m \in Nat /\ m < i
    BY <1>3
  <2>4. {j \in below(i) : j < m} = below(m)
    <3>1. \A j \in F : j < m => j < i
      BY <1>3, <1>8, <2>3
    <3>2. QED
      BY <3>1
  <2>5. m \notin below(m)
    BY <2>3
  <2>6. Cardinality(below(i)) = Cardinality(below(m)) + 1
    <3>1. below(i) = below(m) \cup {m}
      BY <2>2, <2>4
    <3> HIDE DEF below
    <3>2. IsFiniteSet(below(m))
      BY <1>2, <2>3
    <3>3. QED
      BY <2>5, <3>1, <3>2, FS_AddElement
  <2>7. Cardinality(below(m)) >= k - 1
    <3> HIDE DEF below
    <3>1. QED
      BY <1>1, <1>2, <1>8, <1>9, <2>3, <2>6
  <2>8. m \in T
    BY <2>3, <2>7
  <2>9. QED
    BY <1>7, <1>8, <2>3, <2>8
<1>10. QED
  <2> HIDE DEF below
  <2>1. Cardinality(below(i)) = k - 1
    BY <1>1, <1>2, <1>8, <1>9
  <2>2. QED
    BY <1>8, <2>1 DEF below

\* Every input of a task is an artifact of some size on some node.
LEMMA InputsTyped ==
  ASSUME problem \in Problems, NEW t \in Ready
  PROVE  /\ Inputs(t) \in Seq({Inputs(t)[i] : i \in DOMAIN Inputs(t)})
         /\ Len(Inputs(t)) \in Nat /\ DOMAIN Inputs(t) = 1 .. Len(Inputs(t))
         /\ \A i \in DOMAIN Inputs(t) : Inputs(t)[i].node \in Nodes /\ Inputs(t)[i].size \in Nat
<1> DEFINE bound == problem.bound[t]
           open == problem.ports[t] \ {b.port : b \in ToSet(bound)}
           needsExternal == open # {} \/ (problem.ports[t] = {} /\ bound = <<>> /\ problem.parents[t] = {})
           share == IF problem.ports[t] = {} THEN problem.inputSize[t]
                    ELSE (problem.inputSize[t] * Cardinality(open)) \div Cardinality(problem.ports[t])
           given == [i \in DOMAIN bound |-> bound[i].artifact]
           external == IF needsExternal
                       THEN <<[id |-> 0, node |-> problem.source[t], size |-> share]>> ELSE <<>>
           all == given \o external
           first == {i \in DOMAIN all : \A j \in 1 .. i - 1 : all[j] # all[i]}
           nth(k) == CHOOSE i \in first : Cardinality({j \in first : j < i}) = k - 1
           size == Cardinality(first)
<1>1. Inputs(t) = [k \in 1 .. size |-> all[nth(k)]]
  BY DEF Inputs
<1>2. WellFormed(problem) /\ t \in ToSet(problem.tasks)
  BY ProblemAssumption DEF Ready
<1>3. /\ problem.source[t] \in Nodes /\ problem.inputSize[t] \in Nat /\ IsFiniteSet(problem.ports[t])
      /\ Len(bound) \in Nat /\ DOMAIN bound = 1 .. Len(bound)
      /\ \A i \in DOMAIN bound : bound[i].artifact.node \in Nodes /\ bound[i].artifact.size \in Nat
  BY <1>2 DEF WellFormed
<1> DEFINE Right(a) == a.node \in Nodes /\ a.size \in Nat
<1>4. share \in Nat
  <2>1. CASE problem.ports[t] = {}
    BY <1>3, <2>1
  <2>2. CASE problem.ports[t] # {}
    <3> DEFINE a == problem.inputSize[t]
               b == Cardinality(open)
               d == Cardinality(problem.ports[t])
    <3>1. open \in SUBSET problem.ports[t]
      OBVIOUS
    <3>2. b \in Nat /\ d \in Nat /\ d # 0
      <4> HIDE DEF open
      <4>1. IsFiniteSet(open)
        BY <1>3, <3>1, FS_Subset
      <4>2. QED
        BY <1>3, <2>2, <4>1, FS_CardinalityType, FS_EmptySet
    <3>3. a \in Nat
      BY <1>3
    <3>4. share = (a * b) \div d
      BY <2>2
    <3> HIDE DEF a, b, d, share
    <3>5. a * b \in Nat
      BY <3>2, <3>3
    <3>6. QED
      BY <3>2, <3>4, <3>5
  <2>3. QED
    BY <2>1, <2>2
<1> HIDE DEF share
<1>5. given \in Seq({given[i] : i \in DOMAIN bound}) /\ Len(given) = Len(bound)
      /\ \A i \in 1 .. Len(given) : Right(given[i])
  BY <1>3
<1>6. external \in Seq({external[i] : i \in DOMAIN external}) /\ Len(external) \in {0, 1}
      /\ \A i \in 1 .. Len(external) : Right(external[i])
  <2>1. CASE needsExternal
    <3> DEFINE a == [id |-> 0, node |-> problem.source[t], size |-> share]
    <3>1. Right(a)
      BY <1>3, <1>4
    <3>2. external = <<a>>
      BY <2>1
    <3> HIDE DEF external, Right, a
    <3>3. QED
      BY <3>1, <3>2
  <2>2. CASE ~needsExternal
    <3>1. external = <<>>
      BY <2>2
    <3> HIDE DEF external, Right
    <3>2. QED
      BY <3>1
  <2>3. QED
    BY <2>1, <2>2
<1>7. Len(all) \in Nat /\ DOMAIN all = 1 .. Len(all) /\ \A i \in 1 .. Len(all) : Right(all[i])
  <2> HIDE DEF given, external, Right
  <2> DEFINE S == {given[i] : i \in DOMAIN bound} \cup {external[i] : i \in DOMAIN external}
  <2>1. given \in Seq(S) /\ external \in Seq(S)
    BY <1>5, <1>6
  <2> HIDE DEF S
  <2>2. QED
    BY <1>5, <1>6, <2>1
<1> HIDE DEF all, Right
<1>8. first \in SUBSET (1 .. Len(all)) /\ size \in Nat
  <2>1. first \in SUBSET (1 .. Len(all))
    BY <1>7
  <2> HIDE DEF first
  <2>2. IsFiniteSet(1 .. Len(all))
    BY <1>7, FS_Interval
  <2>3. QED
    BY <2>1, <2>2, FS_Subset, FS_CardinalityType
<1> HIDE DEF first
<1>9. ASSUME NEW k \in 1 .. size PROVE nth(k) \in first
  <2>1. \E i \in first : Cardinality({j \in first : j < i}) = k - 1
    BY <1>7, <1>8, NthExists
  <2>2. QED
    BY <2>1
<1> HIDE DEF nth, size
<1>10. \A k \in 1 .. size : Right(all[nth(k)])
  BY <1>7, <1>8, <1>9
<1>11. QED
  BY <1>1, <1>8, <1>10 DEF Right

---------------------------------------------------------------------------
(* The estimation of the candidates. *)

\* The pair looked at is the least of those left.
LEMMA PairExists ==
  ASSUME Setting, PairsRight, pairs # {}
  PROVE  Pair \in pairs /\ Pair = <<Pair[1], Pair[2]>> /\ Pair[1] \in Ready /\ Pair[2] \in Nodes
         /\ Pair[2] \in AllowedNodes(Pair[1])
<1>1. \A x \in pairs : x = <<x[1], x[2]>> /\ x[1] \in Ready /\ x[2] \in Nodes
                       /\ x[2] \in AllowedNodes(x[1])
  BY DEF PairsRight
<1>2. Ready \subseteq Nat /\ Nodes \subseteq Nat
  <2>1. problem.tasks \in Seq(Tasks)
    BY ProblemAssumption DEF Setting, WellFormed
  <2>2. Ready \subseteq Tasks
    BY <2>1 DEF Ready, ToSet
  <2>3. QED
    BY <2>2, TaskAssumption, NetworkAssumption
<1> DEFINE firsts == {x[1] : x \in pairs}
           t == Min(firsts)
           seconds == {x[2] : x \in {y \in pairs : y[1] = t}}
           n == Min(seconds)
<1>3. t \in firsts /\ \A y \in firsts : t <= y
  <2>1. firsts \in SUBSET Nat /\ firsts # {}
    BY <1>1, <1>2
  <2> HIDE DEF firsts
  <2>2. QED
    BY <2>1, MinOfSet
<1>4. n \in seconds /\ \A y \in seconds : n <= y
  <2>1. seconds \in SUBSET Nat /\ seconds # {}
    <3> HIDE DEF t
    <3>1. QED
      BY <1>1, <1>2, <1>3
  <2> HIDE DEF seconds
  <2>2. QED
    BY <2>1, MinOfSet
<1> HIDE DEF t, n
<1>5. PICK x \in pairs : x[1] = t /\ x[2] = n
  BY <1>4
<1>6. \A y \in pairs : x[1] < y[1] \/ (x[1] = y[1] /\ x[2] <= y[2])
  <2> TAKE y \in pairs
  <2>1. t <= y[1] /\ t \in Nat /\ y[1] \in Nat
    BY <1>1, <1>2, <1>3, <1>5
  <2>2. y[1] = t => n <= y[2]
    BY <1>4
  <2>3. QED
    BY <1>5, <2>1, <2>2
<1>7. Pair \in pairs
  BY <1>5, <1>6 DEF Pair
<1>8. QED
  BY <1>1, <1>7

\* What is said of a candidate, or of a transfer, depends on nothing that changes.
LEMMA SameProblem ==
  ASSUME problem' = problem, net' = net
  PROVE  /\ \A t : Inputs(t)' = Inputs(t) /\ AllowedNodes(t)' = AllowedNodes(t)
         /\ Ready' = Ready
         /\ \A moves, t, n : TransfersRight(moves, t, n)' <=> TransfersRight(moves, t, n)
         /\ \A path, time, input, n, t :
              Brings(path, time, input, n, t)' <=> Brings(path, time, input, n, t)
         /\ \A c : CandidateRight(c)' <=> CandidateRight(c)
<1>1. \A t : Inputs(t)' = Inputs(t)
  BY DEF Inputs
<1>2. \A t : AllowedNodes(t)' = AllowedNodes(t)
  BY DEF AllowedNodes, MayRun
<1>3. Ready' = Ready
  BY DEF Ready
<1>4. \A path, time, input, n, t :
        Brings(path, time, input, n, t)' <=> Brings(path, time, input, n, t)
  BY DEF Brings, Connects, Alive
<1>5. \A moves, t, n : TransfersRight(moves, t, n)' <=> TransfersRight(moves, t, n)
  BY <1>1, <1>4 DEF TransfersRight
<1>6. \A c : CandidateRight(c)' <=> CandidateRight(c)
  BY <1>2, <1>3, <1>1, <1>5 DEF CandidateRight
<1>7. QED
  BY <1>1, <1>2, <1>3, <1>4, <1>5, <1>6

\* A payload takes time on every link.
LEMMA EdgeTakesTime ==
  ASSUME Setting, request.size \in Nat \ {0}, NEW l \in Links
  PROVE  EdgeTime(l) \in Nat /\ EdgeTime(l) > 0
<1>1. net \in Networks
  BY ProblemAssumption DEF Setting, WellFormed
<1>2. net.latency[l] \in Nat /\ net.pace[l] \in Nat \ {0}
  BY <1>1, NetworkAssumption
<1> DEFINE a == net.latency[l]
           b == net.pace[l]
           s == request.size
<1>3. a \in Nat /\ b \in Nat /\ b > 0 /\ s \in Nat /\ s > 0
  BY <1>2
<1> HIDE DEF a, b, s
<1>4. s * b \in Nat /\ s * b > 0
  BY <1>3
<1>5. a + s * b \in Nat /\ a + s * b > 0
  BY <1>3, <1>4
<1>6. QED
  BY <1>5 DEF EdgeTime, a, b, s

\* A right label, led over one more usable link, is right.
LEMMA LabelGrows ==
  ASSUME Setting, request.size \in Nat \ {0}, NEW x, LabelRight(x),
         NEW l \in Links, From[l] = x.node, Usable(l)
  PROVE  LabelRight([total |-> x.total + EdgeTime(l), path |-> Append(x.path, l), node |-> To[l]])
<1> DEFINE y == [total |-> x.total + EdgeTime(l), path |-> Append(x.path, l), node |-> To[l]]
           p == x.path
           q == Append(p, l)
<1>1. EdgeTime(l) \in Nat /\ EdgeTime(l) > 0
  BY EdgeTakesTime
<1>2. x.total \in Nat /\ p \in Seq(Links) /\ Len(p) \in Nat /\ DOMAIN p = 1 .. Len(p)
  BY DEF LabelRight
<1>3. y.total \in Nat /\ y.total > 0
  BY <1>1, <1>2
<1>4. /\ q \in Seq(Links) /\ Len(q) = Len(p) + 1 /\ q # <<>> /\ DOMAIN q = 1 .. Len(p) + 1
      /\ q[Len(p) + 1] = l /\ \A i \in 1 .. Len(p) : q[i] = p[i]
  <2> HIDE DEF p
  <2>1. q \in Seq(Links) /\ Len(q) = Len(p) + 1 /\ q[Len(p) + 1] = l
    BY <1>2
  <2>2. \A i \in 1 .. Len(p) : q[i] = p[i]
    BY <1>2
  <2>3. DOMAIN q = 1 .. Len(p) + 1
    BY <2>1
  <2> HIDE DEF q
  <2>4. q # <<>>
    BY <1>2, <2>1
  <2>5. QED
    BY <2>1, <2>2, <2>3, <2>4
<1>5. y.node \in Nodes
  BY NetworkAssumption
<1>6. From[q[1]] = request.source
  <2>1. CASE p = <<>>
    BY <1>4, <2>1 DEF LabelRight
  <2>2. CASE p # <<>>
    <3>1. Len(p) >= 1
      BY <1>2, <2>2
    <3>2. QED
      BY <1>2, <1>4, <2>2, <3>1 DEF LabelRight
  <2>3. QED
    BY <2>1, <2>2
<1>7. ASSUME NEW i \in 1 .. Len(q) - 1 PROVE To[q[i]] = From[q[i + 1]]
  <2>1. i \in 1 .. Len(p) /\ q[i] = p[i]
    BY <1>2, <1>4
  <2>2. CASE i = Len(p)
    <3>1. p # <<>>
      BY <1>2, <2>1, <2>2
    <3>2. To[p[Len(p)]] = x.node
      BY <3>1 DEF LabelRight
    <3>3. QED
      BY <1>4, <2>1, <2>2, <3>2
  <2>3. CASE i # Len(p)
    <3>1. i \in 1 .. Len(p) - 1 /\ i + 1 \in 1 .. Len(p)
      BY <1>2, <2>1, <2>3
    <3>2. To[p[i]] = From[p[i + 1]]
      BY <3>1 DEF LabelRight
    <3>3. QED
      BY <1>4, <2>1, <3>1, <3>2
  <2>4. QED
    BY <2>2, <2>3
<1>8. ASSUME NEW i \in DOMAIN q PROVE Usable(q[i])
  <2>1. CASE i = Len(p) + 1
    BY <1>4, <2>1
  <2>2. CASE i # Len(p) + 1
    <3>1. i \in DOMAIN p /\ q[i] = p[i]
      BY <1>2, <1>4, <2>2
    <3>2. QED
      BY <3>1 DEF LabelRight
  <2>3. QED
    BY <2>1, <2>2
<1> HIDE DEF p, q
<1>9. y.path = q /\ y.node = To[l]
  BY DEF p, q
<1> HIDE DEF y
<1>10. LabelRight(y)
  BY <1>2, <1>3, <1>4, <1>5, <1>6, <1>7, <1>8, <1>9 DEF LabelRight
<1>11. QED
  BY <1>10 DEF y

\* So far the transfers gathered are those of the inputs of the pair.
LEMMA GatheredSoFar ==
  ASSUME EstimateInv, pc \in {"estimate", "route"}, pairs # {}
  PROVE  /\ Pair \in pairs /\ Pair[1] \in Ready /\ Pair[2] \in Nodes /\ Pair[2] \in AllowedNodes(Pair[1])
         /\ Pair = <<Pair[1], Pair[2]>>
         /\ TransfersRight(gathered, Pair[1], Pair[2])
<1>1. /\ Pair \in pairs /\ Pair[1] \in Ready /\ Pair[2] \in Nodes /\ Pair[2] \in AllowedNodes(Pair[1])
      /\ Pair = <<Pair[1], Pair[2]>>
  BY PairExists DEF EstimateInv
<1>2. CASE gathered = <<>>
  <2>1. Len(Inputs(Pair[1])) \in Nat
    BY <1>1, InputsTyped DEF EstimateInv, Setting
  <2>2. QED
    BY <1>1, <1>2, <2>1 DEF TransfersRight
<1>3. CASE gathered # <<>>
  BY <1>1, <1>3 DEF EstimateInv, Gathering
<1>4. QED
  BY <1>1, <1>2, <1>3

\* Nothing is estimated yet.
LEMMA EstimateInit == Init => EstimateInv
<1>1. SUFFICES ASSUME Init PROVE EstimateInv
  OBVIOUS
<1>2. PICK p \in Problems : Begin(p)
  BY <1>1 DEF Init
<1>3. Setting
  BY <1>2 DEF Begin, Setting
<1>4. PairsRight
  BY <1>2 DEF Begin, PairsRight, Ready
<1>5. candidates = {} /\ gathered = <<>> /\ pc = "estimate"
  BY <1>2 DEF Begin
<1>6. QED
  BY <1>3, <1>4, <1>5 DEF EstimateInv, Estimated, Gathering, Routing

\* A pair is refused, or its candidate made: the next one is looked at.
LEMMA EstimateLeavesPair ==
  ASSUME EstimateInv, pairs # {}, pc \in {"estimate", "route"}, NextPair,
         problem' = problem, net' = net,
         \/ candidates' = candidates
         \/ /\ candidates' = candidates \cup {Candidate(Pair[1], Pair[2])}
            /\ Len(gathered) + 1 > Len(Inputs(Pair[1]))
  PROVE  EstimateInv'
<1> DEFINE t == Pair[1]
           n == Pair[2]
<1>1. pairs' = pairs \ {Pair} /\ gathered' = <<>> /\ pc' = "estimate"
  BY DEF NextPair
<1>2. /\ Pair \in pairs /\ t \in Ready /\ n \in Nodes /\ n \in AllowedNodes(t) /\ Pair = <<t, n>>
      /\ TransfersRight(gathered, t, n)
  BY GatheredSoFar
<1>3. Setting' /\ PairsRight'
  BY <1>1, SameProblem DEF EstimateInv, Setting, PairsRight
<1>4. \A c : CandidateRight(c)' <=> CandidateRight(c)
  BY SameProblem
<1>5. /\ \A c \in candidates : CandidateRight(c) /\ <<c.task, c.node>> \notin pairs
      /\ \A c, d \in candidates : c.task = d.task /\ c.node = d.node => c = d
  BY DEF EstimateInv, Estimated
<1>6. CASE candidates' = candidates
  <2>1. Estimated'
    BY <1>1, <1>4, <1>5, <1>6 DEF Estimated
  <2>2. QED
    BY <1>1, <1>3, <2>1 DEF EstimateInv, Gathering, Routing
<1>7. CASE /\ candidates' = candidates \cup {Candidate(t, n)}
           /\ Len(gathered) + 1 > Len(Inputs(t))
  <2> DEFINE c == Candidate(t, n)
  <2>1. CandidateRight(c)
    <3>1. gathered \in Seq(Transfers) /\ Len(gathered) <= Len(Inputs(t)) /\ Len(Inputs(t)) \in Nat
      BY <1>2, InputsTyped DEF TransfersRight, EstimateInv, Setting
    <3>2. Len(gathered) = Len(Inputs(t))
      BY <1>7, <3>1
    <3>3. /\ c.task = t /\ c.node = n /\ c.transfers = gathered
          /\ c.ready = Max({problem.now, problem.ready[t]})
          /\ c.compute = problem.work[t][n].compute /\ c.demand = problem.work[t][n].demand
          /\ c.success = problem.work[t][n].success
          /\ c.locations = {x.node : x \in ToSet(Inputs(t))}
          /\ c.energy = problem.work[t][n].energy + c.communication * problem.transferEnergy
          /\ c.communication = SumFunction([i \in DOMAIN gathered |-> gathered[i].time])
          /\ {"task", "node", "ready", "start", "finish", "compute", "communication", "demand",
              "energy", "success", "locations", "transfers"} \subseteq DOMAIN c
      BY DEF Candidate
    <3> HIDE DEF c, t, n
    <3>4. c.communication \in Nat
      <4> DEFINE time == [i \in DOMAIN gathered |-> gathered[i].time]
      <4>1. \A i \in DOMAIN gathered : time[i] \in Nat
        <5>1. \A i \in DOMAIN gathered : gathered[i] \in Transfers
          BY <3>1
        <5>2. QED
          BY <5>1 DEF Transfers
      <4>2. IsFiniteSet(DOMAIN gathered)
        <5>1. DOMAIN gathered = 1 .. Len(gathered) /\ Len(gathered) \in Nat
          BY <3>1
        <5>2. QED
          BY <5>1, FS_Interval
      <4>3. SumFunctionOnSet(time, DOMAIN gathered) \in Nat
        <5> HIDE DEF time
        <5>1. QED
          BY <4>1, <4>2, SumIsNumber
      <4>4. DOMAIN time = DOMAIN gathered
        OBVIOUS
      <4>5. SumFunction(time) \in Nat
        <5> HIDE DEF time
        <5>1. QED
          BY <4>3, <4>4 DEF SumFunction
      <4>6. QED
        BY <3>3, <4>5
    <3>5. c.energy \in Nat
      <4>1. WellFormed(problem)
        BY ProblemAssumption DEF EstimateInv, Setting
      <4>2. problem.work[t][n].energy \in Nat /\ problem.transferEnergy \in Nat
        BY <1>2, <4>1 DEF WellFormed, Ready
      <4>3. \A i, j \in Nat : i * j \in Nat
        OBVIOUS
      <4>4. c.communication * problem.transferEnergy \in Nat
        BY <3>4, <4>2, <4>3
      <4>5. QED
        BY <3>3, <4>2, <4>4
    <3>6. QED
      BY <1>2, <3>2, <3>3, <3>5 DEF CandidateRight
  <2>2. c.task = t /\ c.node = n
    BY DEF Candidate
  <2> HIDE DEF c, t, n
  <2>3. Estimated'
    <3>1. \A d \in candidates' : CandidateRight(d) /\ <<d.task, d.node>> \notin pairs'
      BY <1>1, <1>2, <1>5, <1>7, <2>1, <2>2 DEF c
    <3>2. \A d \in candidates : ~(d.task = c.task /\ d.node = c.node)
      BY <1>2, <1>5, <2>2
    <3>3. \A d, e \in candidates' : d.task = e.task /\ d.node = e.node => d = e
      BY <1>5, <1>7, <3>2 DEF c
    <3>4. QED
      BY <1>4, <3>1, <3>3 DEF Estimated
  <2>4. QED
    BY <1>1, <1>3, <2>3 DEF EstimateInv, Gathering, Routing
<1>8. QED
  BY <1>6, <1>7

\* The search for the route of the next input begins.
LEMMA EstimateAsks ==
  ASSUME EstimateInv, pairs # {}, pc = "estimate", Len(gathered) + 1 <= Len(Inputs(Pair[1])),
         Ask([source |-> Inputs(Pair[1])[Len(gathered) + 1].node, target |-> Pair[2],
              size |-> Inputs(Pair[1])[Len(gathered) + 1].size,
              minimum |-> problem.bandwidth[Pair[1]]]),
         pc' = "route", UNCHANGED problemVars
  PROVE  EstimateInv'
<1>0. PICK t, n, k, input : t = Pair[1] /\ n = Pair[2] /\ k = Len(gathered) + 1
                               /\ input = Inputs(t)[k]
  OBVIOUS
<1> DEFINE r == [source |-> input.node, target |-> n, size |-> input.size,
                minimum |-> problem.bandwidth[t]]
<1>1. /\ net' = net /\ problem' = problem /\ candidates' = candidates /\ pairs' = pairs
      /\ gathered' = gathered
  BY DEF problemVars
<1>2. t \in Ready /\ n \in Nodes /\ TransfersRight(gathered, t, n)
  BY <1>0, GatheredSoFar
<1>3. Pair' = Pair
  BY <1>1 DEF Pair
<1>4. Setting' /\ PairsRight' /\ Estimated' /\ Gathering'
  BY <1>0, <1>1, <1>2, <1>3, SameProblem DEF EstimateInv, Setting, PairsRight, Estimated, Gathering
<1>5. input.node \in Nodes /\ input.size \in Nat
  <2>1. Len(gathered) \in Nat
    BY <1>2 DEF TransfersRight
  <2>2. k \in DOMAIN Inputs(t)
    BY <1>0, <1>2, <2>1, InputsTyped DEF EstimateInv, Setting
  <2>3. QED
    BY <1>0, <1>2, <2>2, InputsTyped DEF EstimateInv, Setting
<1>6. Inputs(t)' = Inputs(t)
  BY <1>1, SameProblem
<1>7. request' = r /\ request'.source = input.node /\ request'.target = n /\ request'.size = input.size
  BY <1>0 DEF Ask
<1>8. route' # <<>> /\ route'[1].feasible =>
        /\ route'[1].path = <<>> /\ route'[1].time = 0
        /\ input.node = n \/ input.size = 0
  BY <1>0 DEF Ask, Route, NoRoute
<1>9. route' = <<>> =>
        /\ input.node # n /\ input.size # 0
        /\ frontier' = {[total |-> 0, path |-> <<>>, node |-> input.node]}
  BY <1>0 DEF Ask, Route, NoRoute
<1>10. ASSUME route' = <<>>
       PROVE  /\ request'.size > 0 /\ request'.source # request'.target
              /\ \A x \in frontier' : LabelRight(x)'
  <2>1. request'.size > 0 /\ request'.source # request'.target
    BY <1>5, <1>7, <1>9, <1>10
  <2> DEFINE x == [total |-> 0, path |-> <<>>, node |-> input.node]
  <2>2. x.total = 0 /\ x.path = <<>> /\ x.node = request'.source
    BY <1>7
  <2>3. x.path \in Seq(Links) /\ Len(x.path) = 0 /\ DOMAIN x.path = {}
    BY <2>2
  <2> HIDE DEF x
  <2>4. LabelRight(x)'
    BY <1>5, <1>7, <2>2, <2>3 DEF LabelRight
  <2>5. QED
    BY <1>9, <1>10, <2>1, <2>4 DEF x
<1>11. ASSUME route' # <<>>, route'[1].feasible
       PROVE  /\ route'[1].path \in Seq(Links) /\ route'[1].time \in Nat
              /\ Brings(route[1].path, route[1].time, input, n, t)'
  <2>1. /\ route'[1].path = <<>> /\ route'[1].time = 0
        /\ input.node = n \/ input.size = 0
    BY <1>8, <1>11
  <2>2. Brings(<<>>, 0, input, n, t)'
    BY <2>1 DEF Brings
  <2>3. QED
    BY <2>1, <2>2
<1>12. Sought(input, n, t)'
  BY <1>1, <1>7, <1>10, <1>11 DEF Sought
<1>13. Routing'
  BY <1>0, <1>1, <1>3, <1>6, <1>12 DEF Routing
<1>14. QED
  BY <1>4, <1>13 DEF EstimateInv

\* The route of an input is known: a transfer more, or a pair less.
LEMMA EstimateRouted ==
  ASSUME EstimateInv, Routed
  PROVE  EstimateInv'
<1>1. /\ pc = "route" /\ route # <<>> /\ net' = net /\ problem' = problem /\ candidates' = candidates
  BY DEF Routed
<1>2. PICK t, n, k, input : t = Pair[1] /\ n = Pair[2] /\ k = Len(gathered) + 1
                            /\ input = Inputs(t)[k]
  OBVIOUS
<1>3. pairs # {} /\ k <= Len(Inputs(t)) /\ Sought(input, n, t)
  BY <1>1, <1>2 DEF EstimateInv, Routing
<1>4. t \in Ready /\ n \in Nodes /\ TransfersRight(gathered, t, n)
  BY <1>1, <1>2, <1>3, GatheredSoFar
<1>5. CASE route[1].feasible
  <2> DEFINE x == [id |-> Len(gathered) + 1, path |-> route[1].path, time |-> route[1].time]
  <2>1. gathered' = Append(gathered, x) /\ pc' = "estimate" /\ pairs' = pairs
    BY <1>5 DEF Routed
  <2>2. Pair' = Pair
    BY <2>1 DEF Pair
  <2>3. Setting' /\ PairsRight' /\ Estimated'
    BY <1>1, <2>1, SameProblem DEF EstimateInv, Setting, PairsRight, Estimated
  <2>4. gathered \in Seq(Transfers) /\ Len(gathered) \in Nat /\ DOMAIN gathered = 1 .. Len(gathered)
        /\ k \in Nat
    BY <1>2, <1>4 DEF TransfersRight
  <2>5. x \in Transfers /\ x.id = k /\ Brings(x.path, x.time, input, n, t)
    BY <1>1, <1>2, <1>3, <1>5, <2>4 DEF Sought, Transfers
  <2> HIDE DEF x
  <2> DEFINE more == Append(gathered, x)
  <2>6. more \in Seq(Transfers) /\ Len(more) = k /\ DOMAIN more = 1 .. k /\ more[k] = x
    BY <1>2, <2>4, <2>5
  <2>7. \A i \in 1 .. Len(gathered) : more[i] = gathered[i]
    BY <2>4, <2>5
  <2> HIDE DEF more
  <2>8. ASSUME NEW i \in DOMAIN more
        PROVE  more[i].id = i /\ Brings(more[i].path, more[i].time, Inputs(t)[i], n, t)
    <3>1. CASE i = k
      BY <1>2, <2>5, <2>6, <3>1
    <3>2. CASE i # k
      <4>1. i \in DOMAIN gathered /\ more[i] = gathered[i]
        BY <1>2, <2>4, <2>6, <2>7, <3>2
      <4>2. QED
        BY <1>4, <4>1 DEF TransfersRight
    <3>3. QED
      BY <3>1, <3>2
  <2>9. TransfersRight(more, t, n)
    BY <1>3, <2>6, <2>8 DEF TransfersRight
  <2>10. Gathering'
    BY <1>1, <1>2, <2>1, <2>2, <2>9, SameProblem DEF Gathering, more
  <2>11. QED
    BY <2>1, <2>3, <2>10 DEF EstimateInv, Routing
<1>6. CASE ~route[1].feasible
  <2>1. NextPair
    BY <1>6 DEF Routed
  <2>2. QED
    BY <1>1, <1>3, <2>1, EstimateLeavesPair
<1>7. QED
  BY <1>5, <1>6

\* A round of the search for a route keeps its labels right, and a label of the
\* target is an answer.
LEMMA EstimateSearches ==
  ASSUME EstimateInv, SearchRoute
  PROVE  EstimateInv'
<1>1. /\ pc = "route" /\ pc' = pc /\ net' = net /\ problem' = problem /\ candidates' = candidates
      /\ pairs' = pairs /\ gathered' = gathered /\ (Expand \/ Exhaust)
  BY DEF SearchRoute, problemVars
<1>2. route = <<>> /\ request' = request
  BY <1>1 DEF Expand, Exhaust
<1>3. PICK t, n, k, input : t = Pair[1] /\ n = Pair[2] /\ k = Len(gathered) + 1
                            /\ input = Inputs(t)[k]
  OBVIOUS
<1>4. pairs # {} /\ k <= Len(Inputs(t)) /\ Sought(input, n, t)
  BY <1>1, <1>3 DEF EstimateInv, Routing
<1>5. Pair' = Pair
  BY <1>1 DEF Pair
<1>6. Setting' /\ PairsRight' /\ Estimated' /\ Gathering'
  BY <1>1, <1>5, SameProblem DEF EstimateInv, Setting, PairsRight, Estimated, Gathering
<1>7. t \in Ready /\ n \in Nodes /\ TransfersRight(gathered, t, n)
  BY <1>1, <1>3, <1>4, GatheredSoFar
<1>8. /\ request.source = input.node /\ request.target = n /\ request.size = input.size
      /\ request.minimum = problem.bandwidth[t] /\ request.size > 0
      /\ request.source # request.target /\ \A x \in frontier : LabelRight(x)
  BY <1>2, <1>4 DEF Sought
<1>9. request.size \in Nat \ {0}
  <2>1. Len(gathered) \in Nat
    BY <1>7 DEF TransfersRight
  <2>2. k \in DOMAIN Inputs(t)
    BY <1>3, <1>4, <1>7, <2>1, InputsTyped DEF EstimateInv, Setting
  <2>3. input.size \in Nat
    BY <1>3, <1>7, <2>2, InputsTyped DEF EstimateInv, Setting
  <2>4. QED
    BY <1>8, <2>3
<1>10. \A x : LabelRight(x)' <=> LabelRight(x)
  BY <1>1, <1>2 DEF LabelRight, Usable, Alive
<1>11. /\ \A x \in frontier' : LabelRight(x)
       /\ route' # <<>> /\ route'[1].feasible =>
            /\ route'[1].path \in Seq(Links) /\ route'[1].time \in Nat
            /\ Brings(route'[1].path, route'[1].time, input, n, t)
  <2>1. CASE Exhaust
    <3>1. frontier' = frontier /\ ~route'[1].feasible
      BY <2>1 DEF Exhaust, NoRoute
    <3>2. QED
      BY <1>8, <3>1
  <2>2. CASE Expand
    <3> DEFINE label(x, l) == [total |-> x.total + EdgeTime(l), path |-> Append(x.path, l), node |-> To[l]]
               improved(x) == {label(x, l) : l \in {m \in Links : From[m] = x.node /\ Usable(m) /\ Improves(label(x, m))}}
    <3>1. PICK x \in frontier :
            \/ frontier' = frontier \ {x} /\ route' = route
            \/ x.node = request.target /\ route' = Route(x.path, x.total) /\ frontier' = frontier
            \/ frontier' = (frontier \ {x}) \cup improved(x) /\ route' = route
      <4>1. PICK x \in frontier :
              IF best[x.node] # x
              THEN frontier' = frontier \ {x} /\ UNCHANGED <<best, route>>
              ELSE IF x.node = request.target
              THEN route' = Route(x.path, x.total) /\ UNCHANGED <<frontier, best>>
              ELSE frontier' = (frontier \ {x}) \cup improved(x) /\ UNCHANGED route
        BY <2>2 DEF Expand
      <4>2. QED
        BY <4>1
    <3>2. LabelRight(x)
      BY <1>8
    <3>3. CASE frontier' = frontier \ {x} /\ route' = route
      BY <1>2, <1>8, <3>3
    <3>4. CASE x.node = request.target /\ route' = Route(x.path, x.total) /\ frontier' = frontier
      <4>1. route'[1].path = x.path /\ route'[1].time = x.total
        BY <3>4 DEF Route
      <4>2. x.path # <<>>
        BY <1>8, <3>2, <3>4 DEF LabelRight
      <4>3. x.path \in Seq(Links) /\ x.total \in Nat /\ x.total > 0
        BY <3>2, <4>2 DEF LabelRight
      <4>4. Connects(x.path, input.node, n, t)
        <5>1. \A l \in ToSet(x.path) : Alive(l) /\ net.bandwidth[l] >= problem.bandwidth[t]
          BY <1>8, <3>2 DEF LabelRight, ToSet, Usable
        <5>2. From[x.path[1]] = input.node /\ To[x.path[Len(x.path)]] = n
          BY <1>8, <3>2, <3>4, <4>2 DEF LabelRight
        <5>3. \A i \in 1 .. Len(x.path) - 1 : To[x.path[i]] = From[x.path[i + 1]]
          BY <3>2 DEF LabelRight
        <5>4. QED
          BY <5>1, <5>2, <5>3 DEF Connects
      <4>5. Brings(x.path, x.total, input, n, t)
        BY <4>2, <4>3, <4>4 DEF Brings
      <4>6. QED
        BY <1>8, <3>4, <4>1, <4>3, <4>5
    <3>5. CASE frontier' = (frontier \ {x}) \cup improved(x) /\ route' = route
      <4>1. ASSUME NEW y \in improved(x) PROVE LabelRight(y)
        <5>1. PICK l \in Links : From[l] = x.node /\ Usable(l) /\ y = label(x, l)
          OBVIOUS
        <5>2. LabelRight(label(x, l))
          BY <1>9, <3>2, <5>1, LabelGrows DEF EstimateInv
        <5>3. QED
          BY <5>1, <5>2
      <4> HIDE DEF improved
      <4>2. QED
        BY <1>2, <1>8, <3>5, <4>1
    <3>6. QED
      BY <3>1, <3>3, <3>4, <3>5
  <2>3. QED
    BY <1>1, <2>1, <2>2
<1>12. Sought(input, n, t)'
  <2>1. \A p, time : Brings(p, time, input, n, t)' <=> Brings(p, time, input, n, t)
    BY <1>1, SameProblem
  <2>2. PICK p, time : p = route'[1].path /\ time = route'[1].time
    OBVIOUS
  <2>3. route' # <<>> /\ route'[1].feasible => Brings(p, time, input, n, t)'
    BY <1>11, <2>1, <2>2
  <2>4. request' = [source |-> input.node, target |-> n, size |-> input.size,
                    minimum |-> problem.bandwidth[t]]
    BY <1>2, <1>4 DEF Sought
  <2>5. QED
    BY <1>1, <1>2, <1>8, <1>10, <1>11, <2>2, <2>3, <2>4 DEF Sought
<1>13. Routing'
  <2>1. Inputs(t)' = Inputs(t)
    BY <1>1, SameProblem
  <2>2. QED
    BY <1>1, <1>3, <1>4, <1>5, <1>12, <2>1 DEF Routing
<1>14. QED
  BY <1>6, <1>13 DEF EstimateInv

\* Once the candidates are known they stay.
LEMMA EstimateDone ==
  ASSUME EstimateInv, UNCHANGED problemVars, pc' \notin {"estimate", "route"}
  PROVE  EstimateInv'
<1>1. net' = net /\ problem' = problem /\ candidates' = candidates /\ pairs' = pairs
  BY DEF problemVars
<1>2. Setting' /\ PairsRight' /\ Estimated'
  BY <1>1, SameProblem DEF EstimateInv, Setting, PairsRight, Estimated
<1>3. QED
  BY <1>2 DEF EstimateInv, Gathering, Routing

---------------------------------------------------------------------------
(* Transfers. *)

\* The inputs of a candidate that take a link and time to come.
Moving(c) == {i \in DOMAIN c.transfers : c.transfers[i].path # <<>> /\ c.transfers[i].time > 0}

\* The transfers of a candidate: one for every input that moves, one after the other.
MadeFor(c, made) ==
  /\ \A i \in Moving(c) : \E x \in made : x.id = <<c.task, i>>
  /\ \A x \in made : /\ \E i \in Moving(c) : x = Transfer(c, i, x.start)
                     /\ x.start \in Nat /\ x.finish \in Nat
                     /\ c.ready <= x.start /\ x.start < x.finish
  /\ \A x, y \in made : x # y => x.id # y.id /\ (x.finish <= y.start \/ y.finish <= x.start)


\* The next transfer of a candidate after those that led to b.
MoveStart(b, x) == Max({b.at} \cup {b.links[l] : l \in ToSet(x.path)})

Move(c, b, i) ==
  LET x == c.transfers[i]
      start == MoveStart(b, x)
  IN IF x.path = <<>> \/ x.time = 0 THEN b
     ELSE [at |-> start + x.time,
           links |-> [l \in Links |-> IF l \in ToSet(x.path) THEN start + x.time ELSE b.links[l]],
           made |-> b.made \cup {Transfer(c, i, start)}]

NothingMoved(c, free) == [at |-> Max({problem.now, c.ready}), links |-> free, made |-> {}]

\* The transfers of a candidate are made one after the other.
LEMMA TransfersSteps ==
  ASSUME NEW c, c.transfers \in Seq(Transfers), NEW free
  PROVE  \E step : /\ Transferred(c, free) = step[Len(c.transfers)]
                   /\ step[0] = NothingMoved(c, free)
                   /\ \A i \in 1 .. Len(c.transfers) : step[i] = Move(c, step[i - 1], i)
<1> DEFINE n == Len(c.transfers)
           base == NothingMoved(c, free)
           after(b, i) == Move(c, b, i)
           Steps(f, k) == f = [i \in 0 .. k |-> IF i = 0 THEN base ELSE after(f[i - 1], i)]
<1>1. n \in Nat
  OBVIOUS
<1>2. Transferred(c, free) = (CHOOSE f : Steps(f, n))[n]
  BY DEF Transferred, NothingMoved, Move, MoveStart
<1> HIDE DEF base, after, n
<1>3. \A k \in 0 .. n : \E f : Steps(f, k)
  <2> DEFINE bad == {k \in 0 .. n : ~\E f : Steps(f, k)}
             k == Min(bad)
  <2>1. SUFFICES ASSUME bad # {} PROVE FALSE
    OBVIOUS
  <2>2. k \in bad /\ \A j \in bad : k <= j
    <3>1. bad \in SUBSET Nat
      BY <1>1
    <3> HIDE DEF bad
    <3>2. QED
      BY <2>1, <3>1, MinOfSet
  <2> HIDE DEF k
  <2>3. k \in 0 .. n /\ k \in Nat /\ ~\E f : Steps(f, k)
    BY <1>1, <2>2
  <2>4. CASE k = 0
    <3>1. Steps([i \in 0 .. 0 |-> base], 0)
      OBVIOUS
    <3>2. QED
      BY <2>3, <2>4, <3>1
  <2>5. CASE k # 0
    <3>1. k - 1 \in 0 .. n /\ ~(k <= k - 1)
      BY <1>1, <2>3, <2>5
    <3>2. k - 1 \notin bad
      BY <2>2, <3>1
    <3>3. PICK f : Steps(f, k - 1)
      BY <3>1, <3>2
    <3> DEFINE g == [i \in 0 .. k |-> IF i = k THEN after(f[k - 1], k) ELSE f[i]]
    <3>4. ASSUME NEW i \in 0 .. k PROVE g[i] = IF i = 0 THEN base ELSE after(g[i - 1], i)
      <4>1. CASE i = k
        <5>1. k - 1 \in 0 .. k /\ k - 1 # k
          BY <2>3, <2>5
        <5>2. g[k - 1] = f[k - 1] /\ g[k] = after(f[k - 1], k)
          BY <2>3, <5>1
        <5>3. QED
          BY <2>5, <4>1, <5>2
      <4>2. CASE i # k
        <5>1. i \in 0 .. k - 1 /\ g[i] = f[i]
          BY <2>3, <4>2
        <5>2. f[i] = IF i = 0 THEN base ELSE after(f[i - 1], i)
          BY <3>3, <5>1
        <5>3. CASE i = 0
          BY <5>1, <5>2, <5>3
        <5>4. CASE i # 0
          <6>1. i - 1 \in 0 .. k /\ i - 1 # k
            BY <2>3, <5>1, <5>4
          <6>2. g[i - 1] = f[i - 1]
            BY <6>1
          <6>3. QED
            BY <5>1, <5>2, <5>4, <6>2
        <5>5. QED
          BY <5>3, <5>4
      <4>3. QED
        BY <4>1, <4>2
    <3>5. Steps(g, k)
      <4>1. g = [i \in 0 .. k |-> g[i]]
        OBVIOUS
      <4> HIDE DEF g
      <4>2. QED
        BY <3>4, <4>1
    <3>6. QED
      BY <2>3, <3>5
  <2>6. QED
    BY <2>4, <2>5
<1>4. PICK step : step = (CHOOSE f : Steps(f, n)) /\ Steps(step, n)
  <2> HIDE DEF Steps
  <2>1. n \in 0 .. n
    BY <1>1
  <2>2. \E f : Steps(f, n)
    BY <1>3, <2>1
  <2>3. QED
    BY <2>2
<1>5. step[0] = base
  <2>1. 0 \in 0 .. n
    BY <1>1
  <2>2. step[0] = IF 0 = 0 THEN base ELSE after(step[0 - 1], 0)
    BY <1>4, <2>1
  <2>3. QED
    BY <2>2
<1>6. ASSUME NEW i \in 1 .. n PROVE step[i] = after(step[i - 1], i)
  <2>1. i \in 0 .. n /\ i # 0
    BY <1>1
  <2>2. QED
    BY <1>4, <2>1
<1>7. QED
  BY <1>2, <1>4, <1>5, <1>6 DEF n, base, after

\* What the transfers made so far are.
MovedRight(c, free, b, i) ==
  /\ b.at \in Nat /\ c.ready <= b.at
  /\ b.links \in [Links -> Nat] /\ \A l \in Links : free[l] <= b.links[l]
  /\ \A j \in Moving(c) : j <= i => \E x \in b.made : x.id = <<c.task, j>>
  /\ \A x \in b.made : /\ \E j \in Moving(c) : j <= i /\ x = Transfer(c, j, x.start)
                       /\ x.start \in Nat /\ x.finish \in Nat
                       /\ c.ready <= x.start /\ x.start < x.finish /\ x.finish <= b.at
                       /\ \A l \in ToSet(x.path) : free[l] <= x.start /\ x.finish <= b.links[l]
  /\ \A x, y \in b.made : x # y => x.id # y.id /\ (x.finish <= y.start \/ y.finish <= x.start)

\* The links of a path are finitely many.
LEMMA PathIsFinite ==
  ASSUME NEW p \in Seq(Links)
  PROVE  ToSet(p) \subseteq Links /\ IsFiniteSet(ToSet(p))
<1>1. Len(p) \in Nat /\ DOMAIN p = 1 .. Len(p) /\ \A j \in 1 .. Len(p) : p[j] \in Links
  OBVIOUS
<1>2. p \in [1 .. Len(p) -> ToSet(p)] /\ \A l \in ToSet(p) : \E j \in 1 .. Len(p) : p[j] = l
  BY <1>1 DEF ToSet
<1>3. p \in Surjection(1 .. Len(p), ToSet(p))
  BY <1>2, Zenon DEF Surjection
<1>4. IsFiniteSet(1 .. Len(p))
  BY <1>1, FS_Interval
<1>5. ToSet(p) \subseteq Links
  BY <1>1 DEF ToSet
<1>6. QED
  BY <1>3, <1>4, <1>5, FS_Surjection

\* A transfer starts when those before it are over and its links are free.
LEMMA MoveStarts ==
  ASSUME NEW b, b.at \in Nat, b.links \in [Links -> Nat], NEW x, x.path \in Seq(Links)
  PROVE  /\ MoveStart(b, x) \in Nat /\ b.at <= MoveStart(b, x)
         /\ \A l \in ToSet(x.path) : b.links[l] <= MoveStart(b, x)
<1> DEFINE L == ToSet(x.path)
           g == [l \in L |-> b.links[l]]
           T == {b.links[l] : l \in L}
           times == {b.at} \cup T
<1>1. L \subseteq Links /\ IsFiniteSet(L)
  BY PathIsFinite
<1>2. times \in SUBSET Nat /\ times # {}
  BY <1>1
<1>3. IsFiniteSet(times)
  <2>1. g \in [L -> T] /\ \A z \in T : \E l \in L : g[l] = z
    OBVIOUS
  <2>2. g \in Surjection(L, T)
    BY <2>1, Zenon DEF Surjection
  <2> HIDE DEF g, L, T
  <2>3. IsFiniteSet(T)
    BY <1>1, <2>2, FS_Surjection
  <2>4. IsFiniteSet(T \cup {b.at})
    BY <2>3, FS_AddElement
  <2>5. T \cup {b.at} = times
    OBVIOUS
  <2>6. QED
    BY <2>4, <2>5
<1>4. Max(times) \in times /\ \A z \in times : z <= Max(times)
  <2> HIDE DEF times
  <2>1. QED
    BY <1>2, <1>3, MaxOfFinite
<1>5. MoveStart(b, x) = Max(times)
  BY DEF MoveStart
<1>6. QED
  BY <1>2, <1>4, <1>5

\* The next transfer keeps them right.
LEMMA MoveKeepsRight ==
  ASSUME NEW c, c.transfers \in Seq(Transfers), c.ready \in Nat,
         NEW free \in [Links -> Nat], NEW i \in 1 .. Len(c.transfers), NEW b,
         MovedRight(c, free, b, i - 1)
  PROVE  MovedRight(c, free, Move(c, b, i), i)
<1> DEFINE x == c.transfers[i]
           s == MoveStart(b, x)
           y == Transfer(c, i, s)
           d == Move(c, b, i)
<1>1. i \in Nat /\ i \in DOMAIN c.transfers /\ x \in Transfers
  OBVIOUS
<1>2. x.path \in Seq(Links) /\ x.time \in Nat
  <2> HIDE DEF x
  <2>1. QED
    BY <1>1 DEF Transfers
<1>3. Moving(c) \subseteq Nat
  BY DEF Moving
<1>4. \A j \in Moving(c) : j <= i <=> j <= i - 1 \/ j = i
  BY <1>1, <1>3
<1>5. CASE x.path = <<>> \/ x.time = 0
  <2>1. d = b
    BY <1>5 DEF Move
  <2>2. i \notin Moving(c)
    BY <1>5 DEF Moving
  <2>3. \A j \in Moving(c) : j <= i <=> j <= i - 1
    BY <1>4, <2>2
  <2> HIDE DEF d
  <2>4. QED
    BY <2>1, <2>3 DEF MovedRight, d
<1>6. CASE ~(x.path = <<>> \/ x.time = 0)
  <2>1. /\ s \in Nat /\ b.at <= s /\ \A l \in ToSet(x.path) : b.links[l] <= s
        /\ ToSet(x.path) \subseteq Links
    BY <1>2, MoveStarts, PathIsFinite DEF MovedRight
  <2>2. i \in Moving(c) /\ x.time > 0
    BY <1>1, <1>2, <1>6 DEF Moving
  <2>3. /\ d.at = s + x.time /\ d.made = b.made \cup {y}
        /\ d.links = [l \in Links |-> IF l \in ToSet(x.path) THEN s + x.time ELSE b.links[l]]
    BY <1>6 DEF Move
  <2>4. /\ y.id = <<c.task, i>> /\ y.path = x.path /\ y.start = s /\ y.finish = s + x.time
        /\ y = Transfer(c, i, y.start)
    BY DEF Transfer
  <2> HIDE DEF d, y, s, x
  <2>5. /\ b.at \in Nat /\ c.ready <= b.at /\ b.links \in [Links -> Nat]
        /\ \A l \in Links : free[l] <= b.links[l]
        /\ \A z \in b.made : /\ z.start \in Nat /\ z.finish \in Nat /\ z.finish <= b.at
                             /\ \E j \in Moving(c) : j <= i - 1 /\ z = Transfer(c, j, z.start)
    BY DEF MovedRight
  <2>6. s + x.time \in Nat /\ s < s + x.time
    BY <1>2, <2>1, <2>2
  <2>7. /\ d.at \in Nat /\ c.ready <= d.at /\ b.at <= d.at /\ d.links \in [Links -> Nat]
        /\ \A l \in Links : b.links[l] <= d.links[l]
    <3>1. \A l \in Links : b.links[l] \in Nat
      BY <2>5
    <3>2. \A l \in ToSet(x.path) : b.links[l] <= s + x.time
      BY <2>1, <2>6, <3>1
    <3>3. \A l \in Links : d.links[l] = IF l \in ToSet(x.path) THEN s + x.time ELSE b.links[l]
      BY <2>3
    <3>4. \A l \in Links : b.links[l] <= d.links[l]
      BY <3>1, <3>2, <3>3
    <3>5. c.ready <= d.at /\ b.at <= d.at
      BY <2>1, <2>3, <2>5, <2>6
    <3>6. d.links \in [Links -> Nat]
      BY <2>3, <2>5, <2>6
    <3>7. QED
      BY <2>3, <2>6, <3>4, <3>5, <3>6
  <2>8. \A l \in Links : free[l] <= d.links[l]
    BY <2>5, <2>7
  <2>9. \A j \in Moving(c) : j <= i => \E z \in d.made : z.id = <<c.task, j>>
    BY <1>4, <2>3, <2>4 DEF MovedRight
  <2>10. ASSUME NEW z \in d.made
         PROVE  /\ \E j \in Moving(c) : j <= i /\ z = Transfer(c, j, z.start)
                /\ z.start \in Nat /\ z.finish \in Nat
                /\ c.ready <= z.start /\ z.start < z.finish /\ z.finish <= d.at
                /\ \A l \in ToSet(z.path) : free[l] <= z.start /\ z.finish <= d.links[l]
    <3>1. CASE z = y
      <4>1. \A l \in ToSet(x.path) : free[l] <= s /\ d.links[l] = s + x.time
        BY <2>1, <2>3, <2>5
      <4>2. \E j \in Moving(c) : j <= i /\ z = Transfer(c, j, z.start)
        BY <1>1, <2>2, <2>4, <3>1
      <4>3. c.ready <= s
        BY <2>1, <2>5
      <4>4. z.start = s /\ z.finish = s + x.time /\ z.path = x.path /\ d.at = s + x.time
        BY <2>3, <2>4, <3>1
      <4>5. \A l \in ToSet(z.path) : free[l] <= z.start /\ z.finish <= d.links[l]
        BY <2>6, <4>1, <4>4
      <4>6. z.start \in Nat /\ z.finish \in Nat /\ z.start < z.finish /\ z.finish <= d.at
        BY <2>1, <2>6, <4>4
      <4>7. QED
        BY <4>2, <4>3, <4>4, <4>5, <4>6
    <3>2. CASE z \in b.made
      <4>1. /\ z.start \in Nat /\ z.finish \in Nat
            /\ c.ready <= z.start /\ z.start < z.finish /\ z.finish <= b.at
            /\ \A l \in ToSet(z.path) : free[l] <= z.start /\ z.finish <= b.links[l]
        BY <3>2 DEF MovedRight
      <4>2. PICK j \in Moving(c) : j <= i - 1 /\ z = Transfer(c, j, z.start)
        BY <2>5, <3>2
      <4>3. j <= i
        BY <1>4, <4>2
      <4>4. ToSet(z.path) \subseteq Links
        <5>1. z.path = c.transfers[j].path /\ j \in DOMAIN c.transfers
          BY <4>2 DEF Transfer, Moving
        <5>2. c.transfers[j] \in Transfers
          BY <5>1
        <5>3. z.path \in Seq(Links)
          BY <5>1, <5>2 DEF Transfers
        <5>4. QED
          BY <5>3, PathIsFinite
      <4>5. \A l \in ToSet(z.path) : z.finish <= d.links[l]
        <5>1. ASSUME NEW l \in ToSet(z.path) PROVE z.finish <= d.links[l]
          <6>1. z.finish <= b.links[l] /\ b.links[l] <= d.links[l] /\ b.links[l] \in Nat
                /\ d.links[l] \in Nat
            BY <2>5, <2>7, <4>1, <4>4
          <6>2. QED
            BY <4>1, <6>1
        <5>2. QED
          BY <5>1
      <4>6. z.finish <= d.at
        BY <2>5, <2>7, <4>1
      <4>7. QED
        BY <4>1, <4>2, <4>3, <4>5, <4>6
    <3>3. QED
      BY <2>3, <3>1, <3>2
  <2>11. \A z \in b.made : z.id # y.id /\ z.finish <= y.start
    <3>1. ASSUME NEW z \in b.made PROVE z.id # y.id /\ z.finish <= y.start
      <4>1. PICK j \in Moving(c) : j <= i - 1 /\ z = Transfer(c, j, z.start)
        BY <2>5
      <4>2. z.id = <<c.task, j>> /\ j # i
        BY <1>1, <1>3, <4>1 DEF Transfer
      <4>3. z.finish <= s
        BY <2>1, <2>5
      <4>4. QED
        BY <2>4, <4>2, <4>3
    <3>2. QED
      BY <3>1
  <2>12. \A z, w \in d.made :
           z # w => z.id # w.id /\ (z.finish <= w.start \/ w.finish <= z.start)
    BY <2>3, <2>11 DEF MovedRight
  <2>13. MovedRight(c, free, d, i)
    <3>1. d.at \in Nat /\ c.ready <= d.at /\ d.links \in [Links -> Nat]
      BY <2>7
    <3>2. QED
      BY <3>1, <2>8, <2>9, <2>10, <2>12 DEF MovedRight
  <2>14. QED
    BY <2>13 DEF d
<1>7. QED
  BY <1>5, <1>6

\* The transfers of a candidate come one after the other, on links that are free,
\* and leave them free from some time on.
LEMMA TransfersMade ==
  ASSUME problem \in Problems, NEW c, c.transfers \in Seq(Transfers), c.ready \in Nat,
         NEW free \in [Links -> Nat]
  PROVE  MovedRight(c, free, Transferred(c, free), Len(c.transfers))
<1> DEFINE n == Len(c.transfers)
           base == NothingMoved(c, free)
<1>1. PICK step : /\ Transferred(c, free) = step[n]
                  /\ step[0] = base
                  /\ \A i \in 1 .. n : step[i] = Move(c, step[i - 1], i)
  BY TransfersSteps
<1>2. n \in Nat
  OBVIOUS
<1>3. MovedRight(c, free, base, 0)
  <2>1. problem.now \in Nat
    BY ProblemAssumption DEF WellFormed
  <2>2. Max({problem.now, c.ready}) \in Nat /\ c.ready <= Max({problem.now, c.ready})
    BY <2>1, MaxOfTwo
  <2>3. Moving(c) \subseteq 1 .. n
    BY DEF Moving
  <2>4. \A j \in Moving(c) : ~(j <= 0)
    BY <2>3
  <2>5. base.at = Max({problem.now, c.ready}) /\ base.links = free /\ base.made = {}
    BY DEF NothingMoved
  <2> HIDE DEF base
  <2>6. \A l \in Links : free[l] <= free[l]
    OBVIOUS
  <2>7. QED
    BY <2>2, <2>4, <2>5, <2>6 DEF MovedRight
<1> DEFINE bad == {i \in 0 .. n : ~MovedRight(c, free, step[i], i)}
           i == Min(bad)
<1>4. SUFFICES ASSUME bad # {} PROVE FALSE
  <2>1. n \in 0 .. n
    BY <1>2
  <2>2. QED
    BY <1>1, <2>1
<1>5. i \in bad /\ \A j \in bad : i <= j
  <2>1. bad \in SUBSET Nat
    BY <1>2
  <2> HIDE DEF bad
  <2>2. QED
    BY <1>4, <2>1, MinOfSet
<1> HIDE DEF i
<1>6. i \in 0 .. n /\ ~MovedRight(c, free, step[i], i)
  BY <1>5
<1>7. CASE i = 0
  BY <1>1, <1>3, <1>6, <1>7
<1>8. CASE i # 0
  <2>1. i \in 1 .. n /\ i - 1 \in 0 .. n /\ ~(i <= i - 1)
    BY <1>2, <1>6, <1>8
  <2>2. MovedRight(c, free, step[i - 1], i - 1)
    BY <1>5, <2>1
  <2>3. step[i] = Move(c, step[i - 1], i)
    BY <1>1, <2>1
  <2>4. QED
    BY <1>6, <2>1, <2>2, <2>3, MoveKeepsRight
<1>9. QED
  BY <1>7, <1>8

\* The transfers of a candidate arrive at some time and leave the links free from
\* some time on.
LEMMA TransfersArrive ==
  ASSUME problem \in Problems, NEW c, c.transfers \in Seq(Transfers), c.ready \in Nat,
         NEW free \in [Links -> Nat]
  PROVE  /\ Transferred(c, free).at \in Nat /\ Transferred(c, free).links \in [Links -> Nat]
         /\ \A x \in Transferred(c, free).made : Timed(x)
BY TransfersMade DEF MovedRight, Timed

---------------------------------------------------------------------------
(* The search for places. *)

\* What the placing of a candidate rests on.
LEMMA CandidateIsPlaceable ==
  ASSUME Setting, NEW c, CandidateRight(c)
  PROVE  /\ Placeable(c) /\ c.task \in Ready /\ c.ready \in Nat /\ c.transfers \in Seq(Transfers)
         /\ problem.free[c.node] \in Nat
<1>1. WellFormed(problem)
  BY ProblemAssumption DEF Setting
<1>2. c.task \in Ready /\ c.node \in Nodes /\ c.transfers \in Seq(Transfers)
  BY DEF CandidateRight, AllowedNodes, TransfersRight
<1>3. problem.now \in Nat /\ problem.ready[c.task] \in Nat /\ problem.free[c.node] \in Nat
  BY <1>1, <1>2 DEF WellFormed, Ready
<1>4. /\ problem.work[c.task][c.node].compute \in Nat
      /\ problem.work[c.task][c.node].demand \in [Resources -> Nat]
  BY <1>1, <1>2 DEF WellFormed, Ready
<1>5. c.ready \in Nat
  BY <1>3, MaxOfTwo DEF CandidateRight
<1>6. QED
  BY <1>2, <1>3, <1>4, <1>5 DEF CandidateRight, Placeable

\* The tasks of an epoch are different tasks.
LEMMA TasksDiffer ==
  ASSUME problem \in Problems
  PROVE  /\ problem.tasks \in Seq(Ready) /\ Len(problem.tasks) \in Nat
         /\ \A i, j \in DOMAIN problem.tasks : problem.tasks[i] = problem.tasks[j] => i = j
<1> DEFINE s == problem.tasks
           n == Len(s)
<1>1. s \in Seq(Tasks) /\ n = Cardinality(Ready)
  BY ProblemAssumption DEF WellFormed, Ready
<1>2. Ready = ToSet(s)
  BY DEF Ready
<1> HIDE DEF s
<1>3. n \in Nat /\ DOMAIN s = 1 .. n
  BY <1>1
<1>4. s \in [1 .. n -> Ready] /\ \A t \in Ready : \E i \in 1 .. n : s[i] = t
  <2>1. s = [i \in 1 .. n |-> s[i]]
    BY <1>1
  <2> HIDE DEF n
  <2>2. \A i \in 1 .. n : s[i] \in Ready
    BY <1>2, <1>3 DEF ToSet
  <2>3. \A t \in Ready : \E i \in 1 .. n : s[i] = t
    BY <1>2, <1>3 DEF ToSet
  <2>4. QED
    BY <2>1, <2>2, <2>3
<1>5. s \in Surjection(1 .. n, Ready)
  BY <1>4, Zenon DEF Surjection
<1> HIDE DEF n
<1>6. IsFiniteSet(1 .. n) /\ Cardinality(1 .. n) = n
  BY <1>3, FS_Interval
<1>7. s \in Injection(1 .. n, Ready)
  BY <1>1, <1>5, <1>6, FS_SurjSameCardinalityImpliesInj
<1>8. \A i, j \in DOMAIN s : s[i] = s[j] => i = j
  BY <1>3, <1>7 DEF Injection, IsInjective
<1>9. s \in Seq(Ready)
  BY <1>3, <1>4
<1>10. QED
  BY <1>3, <1>8, <1>9 DEF n, s

\* Without the first of different tasks the others are left, and differ.
LEMMA OthersLeft ==
  ASSUME NEW s \in Seq(Ready), s # <<>>, \A i, j \in DOMAIN s : s[i] = s[j] => i = j
  PROVE  /\ Tail(s) \in Seq(Ready)
         /\ \A i, j \in DOMAIN Tail(s) : Tail(s)[i] = Tail(s)[j] => i = j
         /\ \A i \in DOMAIN Tail(s) : \E j \in DOMAIN s : Tail(s)[i] = s[j]
         /\ \A i \in DOMAIN Tail(s) : Tail(s)[i] # Head(s)
<1>1. Len(s) \in Nat /\ Len(s) >= 1 /\ DOMAIN s = 1 .. Len(s) /\ Head(s) = s[1]
  OBVIOUS
<1>2. /\ Tail(s) \in Seq(Ready) /\ DOMAIN Tail(s) = 1 .. Len(s) - 1
      /\ \A i \in 1 .. Len(s) - 1 : Tail(s)[i] = s[i + 1]
  BY <1>1
<1>3. \A i \in 1 .. Len(s) - 1 : i + 1 \in DOMAIN s /\ i + 1 # 1
  BY <1>1
<1>4. 1 \in DOMAIN s
  BY <1>1
<1>5. ASSUME NEW i \in DOMAIN Tail(s), NEW j \in DOMAIN Tail(s), Tail(s)[i] = Tail(s)[j]
      PROVE  i = j
  <2>1. s[i + 1] = s[j + 1] /\ i + 1 \in DOMAIN s /\ j + 1 \in DOMAIN s /\ i \in Int /\ j \in Int
    BY <1>2, <1>3, <1>5
  <2>2. i + 1 = j + 1
    BY <2>1
  <2>3. QED
    BY <2>1, <2>2
<1>6. QED
  BY <1>1, <1>2, <1>3, <1>4, <1>5

\* Where no task is being placed and none will be, there is little to keep.
LEMMA QuietStep ==
  ASSUME CalendarRight, PlacingRight, pc # "place",
         UNCHANGED <<calendar, links, placing, problem>>,
         pc' \notin {"estimate", "route", "task", "option", "place"}
  PROVE  CalendarRight' /\ TodoRight' /\ OptionsRight' /\ PlacingRight'
BY DEF CalendarRight, TodoRight, OptionsRight, PlacingRight, Reserved

\* The estimation leaves the calendar as it was.
LEMMA BuildingStep ==
  ASSUME PlanningInv, Building
  PROVE  PlanningInv'
<1>1. /\ pc \in {"estimate", "route"} /\ pc' \in {"estimate", "route"}
      /\ UNCHANGED <<problem, calendar, links, placing>>
  BY DEF Building, Estimate, Routed, SearchRoute, NextPair, placeVars, problemVars
<1>2. EstimateInv'
  <2>1. CASE Estimate
    <3>1. /\ pc = "estimate" /\ pairs # {} /\ net' = net /\ problem' = problem
          /\ \/ NextPair /\ candidates' = candidates
             \/ /\ Len(gathered) + 1 <= Len(Inputs(Pair[1]))
                /\ Ask([source |-> Inputs(Pair[1])[Len(gathered) + 1].node, target |-> Pair[2],
                        size |-> Inputs(Pair[1])[Len(gathered) + 1].size,
                        minimum |-> problem.bandwidth[Pair[1]]])
                /\ pc' = "route" /\ UNCHANGED problemVars
             \/ /\ ~(Len(gathered) + 1 <= Len(Inputs(Pair[1])))
                /\ candidates' = candidates \cup {Candidate(Pair[1], Pair[2])} /\ NextPair
      BY <2>1 DEF Estimate, problemVars
    <3>2. CASE Len(gathered) + 1 > Len(Inputs(Pair[1])) \/ candidates' = candidates
      BY <3>1, <3>2, EstimateLeavesPair, EstimateAsks DEF PlanningInv
    <3>3. Len(gathered) \in Nat /\ Len(Inputs(Pair[1])) \in Nat
      <4>1. Pair[1] \in Ready /\ gathered \in Seq(Transfers)
        BY <3>1, GatheredSoFar DEF PlanningInv, TransfersRight
      <4>2. QED
        BY <4>1, InputsTyped DEF PlanningInv, EstimateInv, Setting
    <3>4. QED
      BY <3>1, <3>2, <3>3 DEF problemVars
  <2>2. CASE Routed
    BY <2>2, EstimateRouted DEF PlanningInv
  <2>3. CASE SearchRoute
    BY <2>3, EstimateSearches DEF PlanningInv
  <2>4. QED
    BY <2>1, <2>2, <2>3 DEF Building
<1>3. CalendarRight' /\ TodoRight' /\ OptionsRight' /\ PlacingRight'
  BY <1>1 DEF PlanningInv, CalendarRight, TodoRight, OptionsRight, PlacingRight, Reserved
<1>4. QED
  BY <1>2, <1>3 DEF PlanningInv

\* The tasks of an epoch are to be placed on a calendar that knows none of them.
LEMMA BeginTasks ==
  ASSUME PlanningInv, UNCHANGED problemVars, UNCHANGED placing, pc # "place", pc' = "task",
         calendar' = problem.carryIn, links' \in [Links -> Nat],
         todo' \in Seq(Ready), \A i, j \in DOMAIN todo' : todo'[i] = todo'[j] => i = j
  PROVE  PlanningInv'
<1>1. problem' = problem /\ Ready' = Ready /\ placing' = placing
  BY DEF problemVars, Ready
<1>2. EstimateInv'
  BY EstimateDone DEF PlanningInv
<1>3. WellFormed(problem)
  BY ProblemAssumption DEF PlanningInv, EstimateInv, Setting
<1>4. /\ IsFiniteSet(calendar')
      /\ \A x \in calendar' : Reserved(x) /\ \A t \in Ready : x.id # <<"plan", t>>
  BY <1>3 DEF WellFormed, Reserved, Ready
<1>5. CalendarRight'
  BY <1>4 DEF CalendarRight
<1>6. TodoRight'
  <2>1. \A i \in DOMAIN todo' : todo'[i] \in Ready
    OBVIOUS
  <2>2. QED
    BY <1>1, <1>4, <2>1 DEF TodoRight
<1>7. OptionsRight' /\ PlacingRight'
  BY <1>1 DEF PlanningInv, OptionsRight, PlacingRight
<1>8. QED
  BY <1>2, <1>5, <1>6, <1>7 DEF PlanningInv

\* The tasks in the heuristic's order are all tasks, each once.
LEMMA OrderedTasks ==
  ASSUME problem \in Problems, NEW o \in [DOMAIN problem.tasks -> Ready],
         \A i, j \in DOMAIN o : i < j => Precedes(TaskOrder(o[i]), TaskOrder(o[j]))
  PROVE  /\ o \in Seq(Ready) /\ Len(o) \in Nat /\ DOMAIN o = 1 .. Len(o)
         /\ \A i, j \in DOMAIN o : o[i] = o[j] => i = j
         /\ \A t \in Ready : \E i \in DOMAIN o : o[i] = t
<1>1. WellFormed(problem)
  BY ProblemAssumption
<1>2. /\ Len(problem.tasks) \in Nat /\ DOMAIN problem.tasks = 1 .. Len(problem.tasks)
      /\ Len(problem.tasks) = Cardinality(Ready)
  BY <1>1, TasksDiffer DEF WellFormed, Ready
<1>3. PICK n : n = Len(problem.tasks)
  OBVIOUS
<1>4. o \in Seq(Ready) /\ Len(o) = n /\ DOMAIN o = 1 .. n /\ n \in Nat /\ n = Cardinality(Ready)
  BY <1>2, <1>3
<1>5. ASSUME NEW i \in DOMAIN o, NEW j \in DOMAIN o, i < j, o[i] = o[j] PROVE FALSE
  <2>1. o[i] \in Ready
    BY <1>4
  <2>2. Precedes(TaskOrder(o[i]), TaskOrder(o[i]))
    BY <1>5
  <2> DEFINE t == o[i]
             a == TaskOrder(t)[1]
  <2>3. TaskOrder(t) = <<a, -problem.priority[t], t>>
    BY DEF TaskOrder
  <2>4. problem.priority[t] \in Int /\ t \in Int
    <3>1. problem.priority[t] \in Int
      BY <1>1, <2>1 DEF WellFormed, Ready
    <3>2. problem.tasks \in Seq(Tasks)
      BY <1>1 DEF WellFormed
    <3>3. t \in Tasks
      BY <2>1, <3>2 DEF Ready, ToSet
    <3>4. \A k \in Tasks : k \in Int
      BY TaskAssumption
    <3>5. QED
      BY <3>1, <3>3, <3>4
  <2>5. a \in Int
    <3>1. problem.now \in Nat /\ problem.arrival[t] \in Nat /\ problem.tail[t] \in Nat
          /\ problem.deadline[t] \in Int
      BY <1>1, <2>1 DEF WellFormed, Ready
    <3>2. PICK now, come : now = problem.now /\ come = problem.arrival[t]
      OBVIOUS
    <3>3. Max({now, come}) \in Int
      <4>1. now \in Int /\ come \in Int
        BY <3>1, <3>2
      <4>2. QED
        BY <4>1, MaxOfTwo
    <3>4. QED
      BY <3>1, <3>2, <3>3 DEF TaskOrder
  <2> HIDE DEF a, t
  <2> DEFINE b == -problem.priority[t]
             p == <<a, b, t>>
  <2>6. b \in Int
    BY <2>4
  <2> HIDE DEF b
  <2>7. Len(p) = 3 /\ DOMAIN p = 1 .. 3 /\ \A k \in 1 .. 3 : p[k] \in Int
    BY <2>4, <2>5, <2>6
  <2> HIDE DEF p
  <2>8. ~(Len(p) < Len(p)) /\ \A k \in DOMAIN p : ~(p[k] < p[k])
    BY <2>7
  <2>9. ~Precedes(p, p)
    BY <2>8 DEF Precedes
  <2>10. QED
    BY <2>2, <2>3, <2>9 DEF p, b, t
<1>6. \A i, j \in DOMAIN o : o[i] = o[j] => i = j
  <2>1. SUFFICES ASSUME NEW i \in 1 .. n, NEW j \in 1 .. n, o[i] = o[j] PROVE i = j
    BY <1>4
  <2>2. ~(i < j) /\ ~(j < i)
    BY <1>4, <1>5, <2>1
  <2>3. QED
    BY <1>4, <2>2
<1>7. \A t \in Ready : \E i \in DOMAIN o : o[i] = t
  <2>1. IsFiniteSet(1 .. n) /\ Cardinality(1 .. n) = n
    BY <1>4, FS_Interval
  <2>2. o \in [1 .. n -> Ready] /\ \A i, j \in 1 .. n : o[i] = o[j] => i = j
    BY <1>4, <1>6
  <2>3. o \in Injection(1 .. n, Ready)
    BY <2>2, Zenon DEF Injection, IsInjective
  <2>4. IsFiniteSet(Ready)
    <3>1. Sequence(problem.tasks)
      BY <1>1, IsSequence DEF WellFormed
    <3>2. QED
      BY <3>1, RangeIsFinite DEF Ready
  <2>5. o \in Surjection(1 .. n, Ready)
    BY <1>4, <2>1, <2>3, <2>4, FS_Injection
  <2>6. QED
    BY <1>4, <2>5 DEF Surjection
<1>8. QED
  BY <1>4, <1>6, <1>7

\* The plain heuristic sorts them.
LEMMA AskHeuristicStep ==
  ASSUME PlanningInv, AskHeuristic
  PROVE  PlanningInv'
<1>1. /\ pc = "estimate" /\ pc' = "task" /\ UNCHANGED problemVars /\ calendar' = calendar
      /\ links' = [l \in Links |-> Max({problem.now, problem.linkFree[l]})] /\ UNCHANGED placing
  BY DEF AskHeuristic, Built, placeVars
<1>2. WellFormed(problem) /\ problem \in Problems
  BY ProblemAssumption DEF PlanningInv, EstimateInv, Setting
<1>3. calendar' = problem.carryIn
  BY <1>1 DEF PlanningInv, CalendarRight
<1>4. links' \in [Links -> Nat]
  <2>1. problem.now \in Nat /\ problem.linkFree \in [Links -> Nat]
    BY <1>2 DEF WellFormed
  <2>2. ASSUME NEW l \in Links PROVE Max({problem.now, problem.linkFree[l]}) \in Nat
    <3>1. PICK a \in Nat, b \in Nat : a = problem.now /\ b = problem.linkFree[l]
      BY <2>1
    <3>2. a \in Int /\ b \in Int
      BY <3>1
    <3>3. Max({a, b}) = IF a >= b THEN a ELSE b
      BY <3>2, MaxOfTwo
    <3>4. Max({a, b}) \in Nat
      BY <3>1, <3>3
    <3>5. QED
      BY <3>1, <3>4
  <2>3. QED
    BY <1>1, <2>2
<1>5. todo' \in Seq(Ready) /\ \A i, j \in DOMAIN todo' : todo'[i] = todo'[j] => i = j
  <2> DEFINE m(o) == IF problem.maxIterations = 0 THEN Len(o)
                     ELSE Min({problem.maxIterations, Len(o)})
  <2>1. PICK o \in [DOMAIN problem.tasks -> Ready] :
          /\ \A i, j \in DOMAIN o : i < j => Precedes(TaskOrder(o[i]), TaskOrder(o[j]))
          /\ todo' = SubSeq(o, 1, m(o))
    BY DEF AskHeuristic
  <2> DEFINE limit == m(o)
  <2>2. /\ o \in Seq(Ready) /\ Len(o) \in Nat /\ DOMAIN o = 1 .. Len(o)
        /\ \A i, j \in DOMAIN o : o[i] = o[j] => i = j
    BY <1>2, <2>1, OrderedTasks
  <2>3. limit \in Nat /\ limit <= Len(o)
    <3>1. problem.maxIterations \in Nat
      BY <1>2 DEF WellFormed
    <3>2. QED
      BY <2>2, <3>1, MinOfTwo
  <2>4. todo' = SubSeq(o, 1, limit)
    BY <2>1
  <2> HIDE DEF limit
  <2>5. /\ SubSeq(o, 1, limit) \in Seq(Ready) /\ DOMAIN SubSeq(o, 1, limit) = 1 .. limit
        /\ \A i \in 1 .. limit : SubSeq(o, 1, limit)[i] = o[i] /\ i \in DOMAIN o
    BY <2>2, <2>3
  <2>6. QED
    BY <2>2, <2>4, <2>5
<1>6. QED
  BY <1>1, <1>3, <1>4, <1>5, BeginTasks

\* A decision of the formulation, or a plug-in, begins with all tasks.
LEMMA SelectStep ==
  ASSUME PlanningInv, Select \/ AskPlugIn
  PROVE  PlanningInv'
<1>1. UNCHANGED problemVars /\ UNCHANGED placing /\ pc # "place"
  BY DEF Select, AskPlugIn, Built, placeVars
<1>2. WellFormed(problem) /\ problem \in Problems
  BY ProblemAssumption DEF PlanningInv, EstimateInv, Setting
<1>3. calendar' = problem.carryIn /\ links' = problem.linkFree
  BY DEF PlanningInv, CalendarRight, Select, AskPlugIn, Built
<1>4. links' \in [Links -> Nat]
  BY <1>2, <1>3 DEF WellFormed
<1>5. CASE todo' = problem.tasks /\ pc' = "task"
  <2>1. todo' \in Seq(Ready) /\ \A i, j \in DOMAIN todo' : todo'[i] = todo'[j] => i = j
    BY <1>2, <1>5, TasksDiffer
  <2>2. QED
    BY <1>1, <1>3, <1>4, <1>5, <2>1, BeginTasks
<1>6. CASE pc' = "refused"
  <2>1. EstimateInv'
    BY <1>1, <1>6, EstimateDone DEF PlanningInv
  <2>2. IsFiniteSet(calendar') /\ \A x \in calendar' : Reserved(x)
    BY <1>2, <1>3 DEF WellFormed, Reserved
  <2>3. CalendarRight' /\ TodoRight' /\ OptionsRight' /\ PlacingRight'
    BY <1>1, <1>4, <1>6, <2>2
    DEF PlanningInv, CalendarRight, TodoRight, OptionsRight, PlacingRight
  <2>4. QED
    BY <2>1, <2>3 DEF PlanningInv
<1>7. QED
  BY <1>5, <1>6 DEF Select, AskPlugIn

\* What ends a search, or goes on with the next decision, places nothing.
LEMMA QuietSteps ==
  ASSUME PlanningInv,
         \/ HeuristicExpires \/ HeuristicDone \/ \E o \in Optimizers : AskOneHot(o)
         \/ SearchEnds \/ SearchLimited \/ SearchExpires \/ GoOn \/ AllPlaced \/ Score
         \/ Answer \/ Validate
  PROVE  PlanningInv'
<1>1. /\ UNCHANGED problemVars /\ UNCHANGED <<calendar, links, placing>> /\ pc # "place"
      /\ pc' \notin {"estimate", "route", "task", "option", "place"}
  <2>1. CASE HeuristicExpires \/ HeuristicDone \/ Answer
    BY <2>1 DEF HeuristicExpires, HeuristicDone, Answer, Return, placeVars
  <2>2. CASE \E o \in Optimizers : AskOneHot(o)
    BY <2>2 DEF AskOneHot, Built, placeVars
  <2>3. CASE SearchEnds \/ SearchLimited \/ SearchExpires
    BY <2>3 DEF SearchEnds, SearchLimited, SearchExpires, Finish, Return, placeVars
  <2>4. CASE GoOn \/ AllPlaced \/ Validate
    BY <2>4 DEF GoOn, AllPlaced, Validate, placeVars
  <2>5. CASE Score
    BY <2>5 DEF Score, Return, placeVars
  <2>6. QED
    BY <2>1, <2>2, <2>3, <2>4, <2>5
<1>2. EstimateInv'
  BY <1>1, EstimateDone DEF PlanningInv
<1>3. UNCHANGED <<calendar, links, placing, problem>>
  BY <1>1 DEF problemVars
<1>4. QED
  BY <1>1, <1>2, <1>3, QuietStep DEF PlanningInv

\* The places of the next task are to be looked for.
LEMMA NextTaskStep ==
  ASSUME PlanningInv, NextTask
  PROVE  PlanningInv'
<1>1. /\ pc = "task" /\ pc' = "option" /\ optimizer # "plugin" /\ optimizer' = optimizer
      /\ todo # <<>> /\ todo' = todo /\ placed' = {}
      /\ UNCHANGED problemVars /\ UNCHANGED <<calendar, links, placing, problem, net>>
  BY DEF NextTask, placeVars, problemVars
<1>2. EstimateInv'
  BY <1>1, EstimateDone DEF PlanningInv
<1>3. CalendarRight' /\ TodoRight' /\ PlacingRight'
  BY <1>1 DEF PlanningInv, CalendarRight, TodoRight, PlacingRight, Reserved, Ready
<1>4. \A c \in options' : c.task = Head(todo) /\ CandidateRight(c)
  <2>1. \A c \in options' : c \in candidates /\ c.task = Head(todo)
    BY DEF NextTask
  <2>2. QED
    BY <2>1 DEF PlanningInv, EstimateInv, Estimated
<1>5. OptionsRight'
  BY <1>1, <1>4, SameProblem DEF OptionsRight, Concerns
<1>6. QED
  BY <1>2, <1>3, <1>5 DEF PlanningInv

\* The next candidate is left out, or its transfers are placed and the search for a
\* start begins.
LEMMA TryOptionStep ==
  ASSUME PlanningInv, TryOption
  PROVE  PlanningInv'
<1>1. /\ pc = "option" /\ pc' \in {"option", "place"} /\ optimizer' = optimizer /\ todo' = todo
      /\ placed' = placed /\ options' \subseteq options
      /\ UNCHANGED problemVars /\ UNCHANGED <<calendar, links, problem, net>>
  BY DEF TryOption, BeginPlacing, problemVars, placeVars
<1>2. EstimateInv'
  BY <1>1, EstimateDone DEF PlanningInv
<1>3. CalendarRight' /\ TodoRight'
  BY <1>1 DEF PlanningInv, CalendarRight, TodoRight, Reserved, Ready
<1>4. \A c : Concerns(c)' <=> Concerns(c)
  BY <1>1, SameProblem DEF Concerns
<1>5. /\ todo # <<>> /\ optimizer # "plugin" /\ \A c \in options : Concerns(c)
      /\ \A x \in placed : Concerns(x.candidate) /\ x.at \in Nat /\ \A y \in x.transfers : Timed(y)
  BY <1>1 DEF PlanningInv, OptionsRight
<1>6. OptionsRight'
  BY <1>1, <1>4, <1>5 DEF OptionsRight
<1>7. PICK c \in options : IF TooBig(c) THEN UNCHANGED <<placeVars, pc>>
                           ELSE BeginPlacing(c) /\ pc' = "place"
  BY DEF TryOption
<1>8. CASE TooBig(c)
  <2>1. placing' = placing /\ pc' = "option"
    BY <1>1, <1>7, <1>8 DEF placeVars
  <2>2. PlacingRight'
    BY <1>1, <2>1 DEF PlanningInv, PlacingRight
  <2>3. QED
    BY <1>2, <1>3, <1>6, <2>2 DEF PlanningInv
<1>9. CASE ~TooBig(c)
  <2>1. /\ placing' = <<c>> /\ moved' = Transferred(c, links)
        /\ cursor' = Max({Transferred(c, links).at, problem.free[c.node]}) /\ pc' = "place"
    BY <1>7, <1>9 DEF BeginPlacing
  <2>2. Setting /\ CandidateRight(c)
    BY <1>5 DEF PlanningInv, EstimateInv, Concerns
  <2>3. /\ c.ready \in Nat /\ c.transfers \in Seq(Transfers) /\ problem.free[c.node] \in Nat
    BY <2>2, CandidateIsPlaceable
  <2>4. Transferred(c, links).at \in Nat /\ \A x \in Transferred(c, links).made : Timed(x)
    BY <2>2, <2>3, TransfersArrive DEF PlanningInv, CalendarRight, Setting
  <2>5. moved'.at \in Nat /\ cursor' \in Nat /\ (\A x \in moved'.made : Timed(x)) /\ cursor' = Max({moved'.at, problem'.free[c.node]})
    BY <1>1, <2>1, <2>3, <2>4, MaxOfTwo
  <2>6. Concerns(c)' /\ ~TooBig(c)'
    BY <1>1, <1>4, <1>5, <1>9 DEF TooBig, Background, Load, ActiveAt
  <2>7. placing'[1] = c
    BY <2>1
  <2>8. Max({moved'.at, problem'.free[placing'[1].node]}) .. cursor' - 1 = {}
    BY <2>5, <2>7
  <2>9. PlacingRight'
    BY <2>1, <2>5, <2>6, <2>7, <2>8 DEF PlacingRight
  <2>10. QED
    BY <1>2, <1>3, <1>6, <2>9 DEF PlanningInv
<1>10. QED
  BY <1>8, <1>9

\* The calendar knows nothing of the task whose place is looked for.
LEMMA BeingPlaced ==
  ASSUME PlanningInv, pc = "place"
  PROVE  /\ placing = <<placing[1]>> /\ Concerns(placing[1]) /\ ~TooBig(placing[1])
         /\ Placeable(placing[1]) /\ CalendarFor(calendar, placing[1].task)
         /\ problem \in Problems /\ problem.free[placing[1].node] \in Nat
<1>1. placing = <<placing[1]>> /\ Concerns(placing[1]) /\ ~TooBig(placing[1])
  BY DEF PlanningInv, PlacingRight
<1>2. Setting
  BY DEF PlanningInv, EstimateInv
<1>3. Placeable(placing[1]) /\ problem.free[placing[1].node] \in Nat
  BY <1>1, <1>2, CandidateIsPlaceable DEF Concerns
<1>4. todo # <<>> /\ todo \in Seq(Ready)
      /\ \A i \in DOMAIN todo : \A x \in calendar : x.id # <<"plan", todo[i]>>
  BY DEF PlanningInv, TodoRight, OptionsRight
<1>5. Head(todo) = todo[1] /\ 1 \in DOMAIN todo
  BY <1>4
<1>6. CalendarFor(calendar, placing[1].task)
  BY <1>1, <1>4, <1>5 DEF Concerns, CalendarFor, PlanningInv, CalendarRight
<1>7. QED
  BY <1>1, <1>2, <1>3, <1>6 DEF Setting

\* The search goes on without having jumped over a start.
LEMMA SearchStep ==
  ASSUME PlanningInv, Search
  PROVE  PlanningInv'
<1>1. /\ pc = "place" /\ pc' = "place" /\ Jump /\ optimizer' = optimizer /\ todo' = todo
      /\ placed' = placed /\ options' = options /\ placing' = placing /\ moved' = moved
      /\ UNCHANGED problemVars /\ UNCHANGED <<calendar, links, problem, net>>
  BY DEF Search, Jump, problemVars, solveVars
<1>2. EstimateInv'
  BY <1>1, EstimateDone DEF PlanningInv
<1>3. CalendarRight' /\ TodoRight'
  BY <1>1 DEF PlanningInv, CalendarRight, TodoRight, Reserved, Ready
<1>4. \A c : Concerns(c)' <=> Concerns(c)
  BY <1>1, SameProblem DEF Concerns
<1>5. OptionsRight'
  BY <1>1, <1>4 DEF PlanningInv, OptionsRight
<1>6. PICK c : c = placing[1]
  OBVIOUS
<1>7. /\ placing = <<c>> /\ Concerns(c) /\ ~TooBig(c) /\ Placeable(c) /\ CalendarFor(calendar, c.task)
      /\ problem \in Problems /\ problem.free[c.node] \in Nat
  BY <1>1, <1>6, BeingPlaced
<1>8. /\ moved.at \in Nat /\ cursor \in Nat /\ \A x \in moved.made : Timed(x)
      /\ \A t \in Max({moved.at, problem.free[c.node]}) .. cursor - 1 : ~Free(calendar, c, t)
  BY <1>1, <1>6 DEF PlanningInv, PlacingRight
<1>9. ~FitsFrom(c, cursor) /\ Releases(c, cursor) # {} /\ cursor' = Min(Releases(c, cursor))
  BY <1>1, <1>6 DEF Jump
<1>10. cursor' \in Nat
  <2>1. Releases(c, cursor) \in SUBSET Nat
    BY <1>7 DEF Releases, Overlapping, CalendarFor, Reserved
  <2>2. QED
    BY <1>9, <2>1, MinOfSet
<1>11. \A t \in cursor .. cursor' - 1 : ~Free(calendar, c, t)
  BY <1>7, <1>8, <1>9, StartsSkipped
<1>12. \A t \in Max({moved.at, problem.free[c.node]}) .. cursor' - 1 : ~Free(calendar, c, t)
  <2>1. PICK low, last : low = Max({moved.at, problem.free[c.node]}) /\ last = cursor'
    OBVIOUS
  <2>2. low \in Nat /\ last \in Nat
    <3>1. moved.at \in Int /\ problem.free[c.node] \in Int
      BY <1>7, <1>8
    <3>2. low \in {moved.at, problem.free[c.node]}
      BY <2>1, <3>1, MaxOfTwo
    <3>3. QED
      BY <1>7, <1>8, <1>10, <2>1, <3>2
  <2>3. /\ \A t \in low .. cursor - 1 : ~Free(calendar, c, t)
        /\ \A t \in cursor .. last - 1 : ~Free(calendar, c, t)
    BY <1>8, <1>11, <2>1
  <2>4. \A t \in low .. last - 1 : t \in low .. cursor - 1 \/ t \in cursor .. last - 1
    BY <1>8, <2>2
  <2>5. \A t \in low .. last - 1 : ~Free(calendar, c, t)
    BY <2>3, <2>4
  <2>6. QED
    BY <2>1, <2>5
<1>13. ~TooBig(c)'
  BY <1>1, <1>7 DEF TooBig, Background, Load, ActiveAt
<1>14. \A t : Free(calendar, c, t)' <=> Free(calendar, c, t)
  BY <1>1 DEF Free, Fits, Background, Load, ActiveAt, Reservation
<1>15. PlacingRight'
  <2>1. placing'[1] = c /\ placing' = <<c>> /\ moved'.at \in Nat /\ \A x \in moved'.made : Timed(x)
    BY <1>1, <1>7, <1>8
  <2>2. \A t \in Max({moved'.at, problem'.free[c.node]}) .. cursor' - 1 : ~Free(calendar, c, t)'
    BY <1>1, <1>12, <1>14
  <2>3. QED
    BY <1>1, <1>4, <1>7, <1>10, <1>13, <2>1, <2>2 DEF PlacingRight
<1>16. QED
  BY <1>2, <1>3, <1>5, <1>15 DEF PlanningInv

\* The place is found: it concerns the candidate as before.
LEMMA PlaceStep ==
  ASSUME PlanningInv, Place
  PROVE  PlanningInv'
<1>1. /\ pc = "place" /\ pc' = "option" /\ optimizer' = optimizer /\ todo' = todo
      /\ placed' = placed \cup {Placement} /\ options' = options /\ placing' = <<>>
      /\ UNCHANGED problemVars /\ UNCHANGED <<calendar, links, problem, net>>
  BY DEF Place, problemVars
<1>2. EstimateInv'
  BY <1>1, EstimateDone DEF PlanningInv
<1>3. CalendarRight' /\ TodoRight'
  BY <1>1 DEF PlanningInv, CalendarRight, TodoRight, Reserved, Ready
<1>4. \A c : Concerns(c)' <=> Concerns(c)
  BY <1>1, SameProblem DEF Concerns
<1>5. Concerns(placing[1]) /\ cursor \in Nat /\ \A x \in moved.made : Timed(x)
  BY <1>1 DEF PlanningInv, PlacingRight
<1>6. Concerns(Placement.candidate) /\ Placement.at = cursor /\ Placement.transfers = moved.made
  <2> DEFINE c == placing[1]
             d == Placement.candidate
  <2>1. /\ Placement.at = cursor /\ Placement.transfers = moved.made
        /\ \E a, b, e : d = [c EXCEPT !.start = a, !.finish = b, !.communication = e]
    BY DEF Placement, PlacedAt
  <2>2. PICK a, b, e : d = [c EXCEPT !.start = a, !.finish = b, !.communication = e]
    BY <2>1
  <2>3. {"task", "node", "ready", "compute", "energy", "demand", "success", "locations",
         "transfers"} \subseteq DOMAIN c
    BY <1>5 DEF Concerns, CandidateRight
  <2> HIDE DEF c, d
  <2>4. /\ d.task = c.task /\ d.node = c.node /\ d.ready = c.ready /\ d.compute = c.compute
        /\ d.demand = c.demand /\ d.energy = c.energy /\ d.transfers = c.transfers
        /\ d.success = c.success /\ d.locations = c.locations /\ DOMAIN d = DOMAIN c
    BY <2>2, <2>3
  <2>5. Concerns(d)
    BY <1>5, <2>4 DEF Concerns, CandidateRight, c
  <2>6. QED
    BY <2>1, <2>5 DEF d
<1> HIDE DEF Placement
<1>7. OptionsRight'
  <2>1. \A x \in placed' : Concerns(x.candidate) /\ x.at \in Nat /\ \A y \in x.transfers : Timed(y)
    BY <1>1, <1>5, <1>6 DEF PlanningInv, OptionsRight
  <2>2. QED
    BY <1>1, <1>4, <2>1 DEF PlanningInv, OptionsRight
<1>8. PlacingRight'
  BY <1>1 DEF PlacingRight
<1>9. QED
  BY <1>2, <1>3, <1>7, <1>8 DEF PlanningInv

\* The task is done with: the others are placed on a calendar that knows it and none
\* of them.
LEMMA TaskDone ==
  ASSUME PlanningInv, pc \in {"task", "option"}, pc' = "task", UNCHANGED problemVars,
         UNCHANGED placing, todo # <<>>, todo' = Tail(todo), links' \in [Links -> Nat],
         \/ calendar' = calendar
         \/ \E x : /\ calendar' = calendar \cup {x} /\ Reserved(x) /\ x.id = <<"plan", Head(todo)>>
  PROVE  PlanningInv'
<1>1. problem' = problem /\ Ready' = Ready /\ placing' = placing
  BY DEF problemVars, Ready
<1>2. EstimateInv'
  BY EstimateDone DEF PlanningInv
<1>3. /\ todo \in Seq(Ready) /\ \A i, j \in DOMAIN todo : todo[i] = todo[j] => i = j
      /\ \A i \in DOMAIN todo : \A x \in calendar : x.id # <<"plan", todo[i]>>
  BY DEF PlanningInv, TodoRight
<1>4. /\ todo' \in Seq(Ready) /\ \A i, j \in DOMAIN todo' : todo'[i] = todo'[j] => i = j
      /\ \A i \in DOMAIN todo' : \E j \in DOMAIN todo : todo'[i] = todo[j]
      /\ \A i \in DOMAIN todo' : todo'[i] # Head(todo)
  BY <1>3, OthersLeft
<1>5. /\ IsFiniteSet(calendar') /\ \A x \in calendar' : Reserved(x)
      /\ \A i \in DOMAIN todo' : \A x \in calendar' : x.id # <<"plan", todo'[i]>>
  <2>1. IsFiniteSet(calendar) /\ \A x \in calendar : Reserved(x)
    BY DEF PlanningInv, CalendarRight
  <2>2. \A i \in DOMAIN todo' : \A x \in calendar : x.id # <<"plan", todo'[i]>>
    BY <1>3, <1>4
  <2>3. CASE calendar' = calendar
    BY <2>1, <2>2, <2>3
  <2>4. ASSUME NEW x, calendar' = calendar \cup {x}, Reserved(x), x.id = <<"plan", Head(todo)>>
        PROVE  /\ IsFiniteSet(calendar') /\ \A y \in calendar' : Reserved(y)
               /\ \A i \in DOMAIN todo' : \A y \in calendar' : y.id # <<"plan", todo'[i]>>
    <3>1. IsFiniteSet(calendar')
      BY <2>1, <2>4, FS_AddElement
    <3>2. \A i \in DOMAIN todo' : x.id # <<"plan", todo'[i]>>
      BY <1>4, <2>4
    <3>3. QED
      BY <2>1, <2>2, <2>4, <3>1, <3>2
  <2>5. QED
    BY <2>3, <2>4
<1>6. CalendarRight'
  BY <1>5 DEF CalendarRight, Reserved
<1>7. TodoRight'
  BY <1>1, <1>4, <1>5 DEF TodoRight
<1>8. OptionsRight' /\ PlacingRight'
  BY <1>1 DEF PlanningInv, OptionsRight, PlacingRight
<1>9. QED
  BY <1>2, <1>6, <1>7, <1>8 DEF PlanningInv

\* The best place is taken.
LEMMA CommitStep ==
  ASSUME PlanningInv, Commit
  PROVE  PlanningInv'
<1>1. /\ pc = "option" /\ pc' = "task" /\ UNCHANGED problemVars /\ UNCHANGED placing
      /\ todo' = Tail(todo)
  BY DEF Commit, placeVars
<1>2. PICK x \in placed : /\ calendar' = calendar \cup {Reservation(x.candidate, x.at)}
                          /\ links' = Transferred(x.candidate, links).links
  BY DEF Commit
<1>3. todo # <<>> /\ Concerns(x.candidate) /\ x.at \in Nat
  BY <1>1 DEF PlanningInv, OptionsRight
<1> DEFINE c == x.candidate
           new == Reservation(c, x.at)
<1>4. Setting /\ CandidateRight(c) /\ c.task = Head(todo)
  BY <1>3 DEF PlanningInv, EstimateInv, Concerns
<1>5. Placeable(c) /\ c.ready \in Nat /\ c.transfers \in Seq(Transfers)
  BY <1>4, CandidateIsPlaceable
<1>6. links' \in [Links -> Nat]
  BY <1>2, <1>4, <1>5, TransfersArrive DEF PlanningInv, CalendarRight, Setting
<1>7. Reserved(new) /\ new.id = <<"plan", Head(todo)>>
  <2> HIDE DEF c
  <2>1. /\ new.node = c.node /\ new.start = x.at /\ new.finish = x.at + c.compute
        /\ new.demand = c.demand /\ new.id = <<"plan", c.task>>
    BY DEF Reservation
  <2> HIDE DEF new
  <2>2. x.at + c.compute \in Nat
    BY <1>3, <1>5 DEF Placeable
  <2>3. QED
    BY <1>3, <1>4, <1>5, <2>1, <2>2 DEF Reserved, Placeable
<1> HIDE DEF new
<1>8. \E y : calendar' = calendar \cup {y} /\ Reserved(y) /\ y.id = <<"plan", Head(todo)>>
  BY <1>2, <1>7 DEF new
<1>9. QED
  BY <1>1, <1>3, <1>6, <1>8, TaskDone

\* A task is dropped, or decided upon by a plug-in; or its decision is given up.
LEMMA NoPlaceStep ==
  ASSUME PlanningInv, NoPlace \/ Decide
  PROVE  PlanningInv'
<1>1. /\ pc \in {"option", "task"} /\ UNCHANGED problemVars
      /\ UNCHANGED <<calendar, links, placing>> /\ todo # <<>>
  BY DEF NoPlace, Decide, placeVars, PlanningInv, OptionsRight
<1>2. links' \in [Links -> Nat]
  BY <1>1 DEF PlanningInv, CalendarRight
<1>3. CASE pc' = "task" /\ todo' = Tail(todo)
  BY <1>1, <1>2, <1>3, TaskDone
<1>4. CASE pc' = "refused"
  <2>1. EstimateInv'
    BY <1>1, <1>4, EstimateDone DEF PlanningInv
  <2>2. UNCHANGED <<calendar, links, placing, problem>>
    BY <1>1 DEF problemVars
  <2>3. QED
    BY <1>1, <1>4, <2>1, <2>2, QuietStep DEF PlanningInv
<1>5. QED
  BY <1>1, <1>3, <1>4 DEF NoPlace, Decide

---------------------------------------------------------------------------

\* It holds at the start.
LEMMA PlanningInit == Init => PlanningInv
<1>1. SUFFICES ASSUME Init PROVE PlanningInv
  OBVIOUS
<1>2. EstimateInv
  BY <1>1, EstimateInit
<1>3. /\ calendar = problem.carryIn /\ links = problem.linkFree /\ placing = <<>> /\ pc = "estimate"
  BY <1>1 DEF Init, Begin
<1>4. WellFormed(problem)
  BY <1>2, ProblemAssumption DEF EstimateInv, Setting
<1>5. IsFiniteSet(calendar) /\ (\A x \in calendar : Reserved(x)) /\ links \in [Links -> Nat]
  BY <1>3, <1>4 DEF WellFormed, Reserved
<1>6. QED
  BY <1>2, <1>3, <1>5
  DEF PlanningInv, CalendarRight, TodoRight, OptionsRight, PlacingRight

\* Every step keeps it.
LEMMA PlanningStep == PlanningInv /\ [Next]_vars => PlanningInv'
<1>1. SUFFICES ASSUME PlanningInv, [Next]_vars PROVE PlanningInv'
  OBVIOUS
<1>2. CASE Building
  BY <1>1, <1>2, BuildingStep
<1>3. CASE Heuristic
  BY <1>1, <1>3, AskHeuristicStep, QuietSteps DEF Heuristic
<1>4. CASE OneHot
  BY <1>1, <1>4, SelectStep, QuietSteps DEF OneHot
<1>5. CASE OneTask
  BY <1>1, <1>5, NextTaskStep, TryOptionStep, SearchStep, PlaceStep, CommitStep, NoPlaceStep
  DEF OneTask
<1>6. CASE PlugIn
  BY <1>1, <1>6, SelectStep, NoPlaceStep, QuietSteps DEF PlugIn
<1>7. CASE Validate
  BY <1>1, <1>7, QuietSteps
<1>8. CASE UNCHANGED vars
  <2>1. /\ UNCHANGED problemVars /\ UNCHANGED routeVars
        /\ UNCHANGED <<calendar, links, placing, moved, cursor, pc, todo, optimizer, options, placed>>
    BY <1>8 DEF vars, placeVars, solveVars
  <2>2. /\ UNCHANGED <<problem, net, candidates, pairs, gathered, request, frontier, route>>
    BY <2>1 DEF problemVars, routeVars
  <2>3. Pair' = Pair
    BY <2>2 DEF Pair
  <2>4. \A x : LabelRight(x)' <=> LabelRight(x)
    BY <2>2 DEF LabelRight, Usable, Alive
  <2>5. Setting' /\ PairsRight' /\ Estimated' /\ Gathering'
    BY <1>1, <2>1, <2>2, <2>3, SameProblem
    DEF PlanningInv, EstimateInv, Setting, PairsRight, Estimated, Gathering
  <2>6. \A input, n, t : Sought(input, n, t)' <=> Sought(input, n, t)
    BY <2>2, <2>4, SameProblem DEF Sought
  <2>7. Routing'
    BY <1>1, <2>1, <2>2, <2>3, <2>6, SameProblem DEF PlanningInv, EstimateInv, Routing
  <2>8. CalendarRight' /\ TodoRight'
    BY <1>1, <2>1, <2>2 DEF PlanningInv, CalendarRight, TodoRight, Reserved, Ready
  <2>9. \A c : Concerns(c)' <=> Concerns(c)
    BY <2>1, <2>2, SameProblem DEF Concerns
  <2>10. OptionsRight'
    BY <1>1, <2>1, <2>9 DEF PlanningInv, OptionsRight
  <2>11. \A c, t : Free(calendar, c, t)' <=> Free(calendar, c, t)
    BY <2>1, <2>2 DEF Free, Fits, Background, Load, ActiveAt, Reservation
  <2>12. \A c : TooBig(c)' <=> TooBig(c)
    BY <2>2 DEF TooBig, Background, Load, ActiveAt
  <2>13. PlacingRight'
    BY <1>1, <2>1, <2>2, <2>9, <2>11, <2>12 DEF PlanningInv, PlacingRight
  <2>14. QED
    BY <2>5, <2>7, <2>8, <2>10, <2>13 DEF PlanningInv, EstimateInv
<1>9. QED
  BY <1>1, <1>2, <1>3, <1>4, <1>5, <1>6, <1>7, <1>8 DEF Next

\* Of all the ways in which a plan is made: the candidates are those of the pairs
\* estimated, each with a live route for every input; the calendar of a pass has
\* nothing of the tasks still to place; and the search for a start has not jumped
\* over one.
THEOREM PlanningInvariant == Spec => []PlanningInv
<1>1. QED
  BY PlanningInit, PlanningStep, PTL DEF Spec

\* The search for a start finds the earliest moment from which the candidate has room
\* for all its computation, though it looks at a few points only.
THEOREM EarliestIsFound == Spec => []EarliestIsEarliest
<1>1. PlanningInv => EarliestIsEarliest
  <2>1. SUFFICES ASSUME PlanningInv, placing # <<>>
                 PROVE  LET c == placing[1]
                        IN /\ \A t \in Max({moved.at, problem.free[c.node]}) .. cursor - 1 :
                                ~Free(calendar, c, t)
                           /\ FitsFrom(c, cursor) \/ Releases(c, cursor) = {} =>
                                Free(calendar, c, cursor)
    BY DEF EarliestIsEarliest
  <2>2. pc = "place"
    BY <2>1 DEF PlanningInv, PlacingRight
  <2>3. /\ cursor \in Nat
        /\ \A t \in Max({moved.at, problem.free[placing[1].node]}) .. cursor - 1 :
             ~Free(calendar, placing[1], t)
    BY <2>1, <2>2 DEF PlanningInv, PlacingRight
  <2>4. FitsFrom(placing[1], cursor) \/ Releases(placing[1], cursor) = {} =>
          Free(calendar, placing[1], cursor)
    BY <2>1, <2>2, <2>3, BeingPlaced, FoundIsFree
  <2>5. QED
    BY <2>3, <2>4
<1>2. QED
  BY <1>1, PlanningInvariant, PTL
---------------------------------------------------------------------------
(* The plans that are returned. *)

\* The part of a reservation that its node's load depends on.
Reserves(x) ==
  /\ {"start", "finish", "demand"} \subseteq DOMAIN x
  /\ x.start \in Nat /\ x.finish \in Int /\ x.demand \in [Resources -> Nat]

\* A plan, right or wrong.
PlanTyped(p) ==
  /\ {"status", "assigned", "reservations", "transfers", "deferred", "iterations"} \subseteq DOMAIN p
  /\ Sequence(p.assigned) /\ Sequence(p.deferred)
  /\ IsFiniteSet(p.reservations) /\ \A x \in p.reservations : Reserves(x)
  /\ \A x \in p.transfers : Timed(x)

\* What the validation has found of a plan.
Checked(p) ==
  /\ CoversEpoch(p) /\ (\A a \in ToSet(p.assigned) : AssignmentValid(a))
  /\ EnergyValid(p) /\ ReservationsValid(p) /\ CapacityValid(p)
  /\ TransfersValid(p) /\ LinksValid(p)

\* The plan made so far, the best one and the one returned are plans, and one accepted
\* was found right.
PlansRight ==
  /\ PlanTyped(draft)
  /\ incumbent # <<>> => PlanTyped(incumbent[1].plan)
  /\ pc \in {"validate", "accepted", "rejected"} => PlanTyped(plan[1])
  /\ pc = "accepted" => Checked(plan[1])

---------------------------------------------------------------------------
(* Plans keep their types. *)

\* Sequences may be extended, joined and changed in their elements.
LEMMA SequencesStay ==
  ASSUME NEW s, NEW z, Sequence(s), Sequence(z)
  PROVE  Sequence(s \o z) /\ \A e : Sequence(Append(s, e))
<1> DEFINE R == {s[i] : i \in DOMAIN s}
           Q == {z[i] : i \in DOMAIN z}
<1>1. s \in Seq(R \cup Q) /\ z \in Seq(R \cup Q)
  <2>1. s \in Seq(R) /\ z \in Seq(Q)
    BY DEF Sequence
  <2>2. QED
    <3> HIDE DEF R, Q
    <3>1. QED
      BY <2>1
<1>2. s \o z \in Seq(R \cup Q)
  BY <1>1
<1>3. ASSUME NEW e PROVE Sequence(Append(s, e))
  <2>1. Append(s, e) \in Seq(R \cup Q \cup {e})
    <3> HIDE DEF R, Q
    <3>1. s \in Seq(R \cup Q \cup {e})
      BY <1>1
    <3>2. QED
      BY <3>1
  <2>2. QED
    BY <2>1, IsSequence
<1>4. QED
  BY <1>2, <1>3, IsSequence

\* An assignment more.
LEMMA WithTyped ==
  ASSUME NEW p, PlanTyped(p), NEW x, CandidateRight(x.candidate), problem \in Problems,
         x.at \in Nat, \A y \in x.transfers : Timed(y)
  PROVE  PlanTyped(With(p, x))
<1> DEFINE c == x.candidate
           r == Reservation(c, x.at)
           q == With(p, x)
<1>1. WellFormed(problem)
  BY ProblemAssumption
<1>2. c.compute \in Nat /\ c.demand \in [Resources -> Nat]
  BY <1>1 DEF WellFormed, CandidateRight, AllowedNodes, Ready
<1>3. Reserves(r)
  BY <1>2 DEF Reserves, Reservation
<1>4. PICK e : q.assigned = Append(p.assigned, e)
  BY DEF PlanTyped, With
<1>5. /\ DOMAIN q = DOMAIN p
      /\ q.deferred = p.deferred
      /\ q.reservations = p.reservations \cup {r}
      /\ q.transfers = p.transfers \cup x.transfers
  BY DEF PlanTyped, With
<1>6. IsFiniteSet(p.reservations \cup {r})
  BY FS_AddElement DEF PlanTyped
<1>7. Sequence(q.assigned)
  BY <1>4, SequencesStay DEF PlanTyped
<1>8. QED
  <2> HIDE DEF q, r
  <2>1. PlanTyped(q)
    BY <1>3, <1>5, <1>6, <1>7 DEF PlanTyped
  <2>2. QED
    BY <2>1 DEF q

\* A plug-in's plan keeps its types whatever it is wrong about.
LEMMA ToldTyped ==
  ASSUME NEW p, PlanTyped(p), NEW lie \in Lies
  PROVE  PlanTyped(Told(lie, p))
<1> DEFINE q == Told(lie, p)
<1>1. Sequence(<<>>)
  <2>1. <<>> \in Seq({})
    OBVIOUS
  <2>2. QED
    BY <2>1, IsSequence
<1>2. ASSUME NEW g, g = [i \in DOMAIN p.assigned |-> g[i]] PROVE Sequence(g)
  <2>1. DOMAIN p.assigned = 1 .. Len(p.assigned) /\ Len(p.assigned) \in Nat
    BY DEF PlanTyped, Sequence
  <2>2. g \in Seq({g[i] : i \in DOMAIN g})
    BY <1>2, <2>1
  <2>3. QED
    BY <2>2 DEF Sequence
<1>3. CASE lie \in {"none", "failed"}
  BY <1>3 DEF Told, PlanTyped
<1>4. CASE lie = "energy"
  <2>1. /\ DOMAIN q = DOMAIN p /\ q.deferred = p.deferred
        /\ q.reservations = p.reservations /\ q.transfers = p.transfers
        /\ q.assigned = [i \in DOMAIN p.assigned |-> [p.assigned[i] EXCEPT !.energy = 0]]
    BY <1>4 DEF Told, PlanTyped
  <2>2. Sequence(q.assigned)
    BY <1>2, <2>1
  <2>3. QED
    BY <2>1, <2>2 DEF PlanTyped
<1>5. CASE lie = "unsent"
  <2>1. /\ DOMAIN q = DOMAIN p /\ q.deferred = p.deferred
        /\ q.reservations = p.reservations /\ q.transfers = {}
        /\ q.assigned = [i \in DOMAIN p.assigned |-> [p.assigned[i] EXCEPT !.communication = 0]]
    BY <1>5 DEF Told, PlanTyped
  <2>2. Sequence(q.assigned)
    BY <1>2, <2>1
  <2>3. QED
    BY <2>1, <2>2 DEF PlanTyped
<1>6. CASE lie = "short"
  <2> DEFINE brief(a) == IF a.node = 0 \/ a.finish = a.start THEN a ELSE [a EXCEPT !.finish = @ - 1]
             sooner(x) == [x EXCEPT !.finish = @ - 1]
  <2>1. /\ DOMAIN q = DOMAIN p /\ q.deferred = p.deferred
        /\ q.reservations = {sooner(x) : x \in p.reservations} /\ q.transfers = p.transfers
        /\ q.assigned = [i \in DOMAIN p.assigned |-> brief(p.assigned[i])]
    BY <1>6 DEF Told, PlanTyped
  <2>2. Sequence(q.assigned)
    BY <1>2, <2>1
  <2>3. IsFiniteSet(q.reservations)
    <3> DEFINE g == [x \in p.reservations |-> sooner(x)]
    <3>1. g \in [p.reservations -> q.reservations] /\ \A y \in q.reservations :
            \E x \in p.reservations : g[x] = y
      BY <2>1
    <3>2. g \in Surjection(p.reservations, q.reservations)
      BY <3>1, Zenon DEF Surjection
    <3>3. QED
      <4> HIDE DEF g, q
      <4>1. QED
        BY <3>2, FS_Surjection DEF PlanTyped
  <2>4. ASSUME NEW x \in p.reservations PROVE Reserves(sooner(x))
    BY DEF PlanTyped, Reserves
  <2>5. QED
    <3> HIDE DEF q, brief, sooner
    <3>1. PlanTyped(q)
      BY <2>1, <2>2, <2>3, <2>4 DEF PlanTyped
    <3>2. QED
      BY <3>1 DEF q
<1>7. CASE lie = "unreserved"
  <2>1. /\ DOMAIN q = DOMAIN p /\ q.deferred = p.deferred /\ q.assigned = p.assigned
        /\ q.reservations = {} /\ q.transfers = p.transfers
    BY <1>7 DEF Told, PlanTyped
  <2>2. QED
    BY <2>1, FS_EmptySet DEF PlanTyped
<1>8. CASE lie = "twice"
  <2>1. /\ DOMAIN q = DOMAIN p /\ q.deferred = p.deferred
        /\ q.assigned = p.assigned \o p.assigned
        /\ q.reservations = p.reservations /\ q.transfers = p.transfers
    BY <1>8 DEF Told, PlanTyped
  <2>2. QED
    BY <2>1, SequencesStay DEF PlanTyped
<1>9. CASE lie = "forgotten"
  <2>1. /\ DOMAIN q = DOMAIN p /\ q.deferred = <<>> /\ q.assigned = p.assigned
        /\ q.reservations = p.reservations /\ q.transfers = p.transfers
    BY <1>9 DEF Told, PlanTyped
  <2>2. QED
    BY <1>1, <2>1 DEF PlanTyped
<1>10. QED
  BY <1>3, <1>4, <1>5, <1>6, <1>7, <1>8, <1>9, PlugInAssumption

\* What the validation has found of a plan depends on nothing that moves.
LEMMA CheckedStands ==
  ASSUME UNCHANGED <<problem, net, candidates, plan>>, Checked(plan[1])
  PROVE  Checked(plan[1])'
<1> DEFINE p == plan[1]
<1>1. CoversEpoch(p)' = CoversEpoch(p)
      /\ \A a : AssignmentValid(a)' = AssignmentValid(a)
  BY DEF CoversEpoch, AssignmentValid, DropValid, CandidateOf, Ready
<1>2. EnergyValid(p)' = EnergyValid(p)
  BY DEF EnergyValid, SumOver, Assigned, MapThenSumSet, MapThenFoldSet
<1>3. ReservationsValid(p)' = ReservationsValid(p)
  BY DEF ReservationsValid, Assigned, CandidateOf
<1>4. CapacityValid(p)' = CapacityValid(p)
  BY DEF CapacityValid, CapacityPoints, Fits, Background, Load, ActiveAt
<1>5. TransfersValid(p)' = TransfersValid(p)
  BY DEF TransfersValid, TransfersOf, Assigned, MapThenSumSet, MapThenFoldSet
<1>6. LinksValid(p)' = LinksValid(p)
  BY DEF LinksValid
<1>7. QED
  BY <1>1, <1>2, <1>3, <1>4, <1>5, <1>6 DEF Checked

\* No plan has been made at the start.
LEMMA PlansInit == Init => PlansRight
<1>1. SUFFICES ASSUME Init PROVE PlansRight
  OBVIOUS
<1>2. Sequence(<<>>)
  <2>1. <<>> \in Seq({})
    OBVIOUS
  <2>2. QED
    BY <2>1, IsSequence
<1>3. PlanTyped(EmptyPlan)
  BY <1>2, FS_EmptySet DEF EmptyPlan, PlanTyped
<1>4. draft = EmptyPlan /\ incumbent = <<>> /\ pc = "estimate"
  BY <1>1 DEF Init, Begin
<1>5. QED
  BY <1>3, <1>4 DEF PlansRight

\* Steps that leave the draft and the incumbent, and return nothing.
LEMMA PlansStay ==
  ASSUME PlansRight, UNCHANGED <<draft, incumbent>>, pc' \notin {"validate", "accepted", "rejected"}
  PROVE  PlansRight'
BY DEF PlansRight

\* Every step keeps the types of plans.
LEMMA PlansStep == PlanningInv /\ PlansRight /\ [Next]_vars => PlansRight'
<1>1. SUFFICES ASSUME PlanningInv, PlansRight, [Next]_vars PROVE PlansRight'
  OBVIOUS
<1> DEFINE quiet == UNCHANGED <<draft, incumbent>> /\ pc' \notin {"validate", "accepted", "rejected"}
<1>2. Sequence(<<>>)
  <2>1. <<>> \in Seq({})
    OBVIOUS
  <2>2. QED
    BY <2>1, IsSequence
<1>3. problem \in Problems /\ WellFormed(problem)
  BY <1>1, ProblemAssumption DEF PlanningInv, EstimateInv, Setting
<1>4. PlanTyped(draft)
  BY <1>1 DEF PlansRight
<1>5. CASE Building
  <2>1. quiet
    BY <1>5 DEF Building, Estimate, Routed, SearchRoute, NextPair, Ask, solveVars, searchVars, problemVars
  <2>2. QED
    BY <1>1, <2>1, PlansStay
<1>6. CASE AskHeuristic
  <2>1. PICK ordered \in [DOMAIN problem.tasks -> Ready] :
          \E limit : /\ limit = IF problem.maxIterations = 0 THEN Len(ordered)
                                ELSE Min({problem.maxIterations, Len(ordered)})
                     /\ draft' = [EmptyPlan EXCEPT
                                   !.deferred = SubSeq(ordered, limit + 1, Len(ordered))]
    BY <1>6 DEF AskHeuristic
  <2>2. PICK limit : /\ limit = IF problem.maxIterations = 0 THEN Len(ordered)
                              ELSE Min({problem.maxIterations, Len(ordered)})
                   /\ draft' = [EmptyPlan EXCEPT
                                 !.deferred = SubSeq(ordered, limit + 1, Len(ordered))]
    BY <2>1
  <2>3. ordered \in Seq(Ready)
    BY <1>3 DEF WellFormed
  <2>4. limit \in Nat
    <3>1. Len(ordered) \in Nat /\ problem.maxIterations \in Nat
      BY <1>3, <2>3 DEF WellFormed
    <3>2. Min({problem.maxIterations, Len(ordered)}) \in Nat
      BY <3>1, MinOfTwo
    <3>3. QED
      BY <2>2, <3>1, <3>2
  <2>5. SubSeq(ordered, limit + 1, Len(ordered)) \in Seq(Ready)
    BY <2>3, <2>4
  <2>6. PlanTyped(draft')
    BY <1>2, <2>2, <2>5, IsSequence, FS_EmptySet DEF EmptyPlan, PlanTyped
  <2>7. incumbent' = incumbent /\ pc' = "task"
    BY <1>6 DEF AskHeuristic, searchVars
  <2>8. QED
    BY <1>1, <2>6, <2>7 DEF PlansRight
<1>7. CASE HeuristicExpires
  <2>1. PICK i, d : /\ plan' = <<[draft EXCEPT !.status = "time_limit", !.deferred = d, !.iterations = i]>>
                    /\ d = todo \o draft.deferred
    BY <1>4, <1>7 DEF HeuristicExpires, Return, PlanTyped
  <2>2. todo \in Seq(Ready)
    BY <1>1, <1>7 DEF HeuristicExpires, PlanningInv, TodoRight
  <2>3. Sequence(d)
    BY <1>4, <2>1, <2>2, IsSequence, SequencesStay DEF PlanTyped
  <2>4. PlanTyped(plan'[1])
    BY <1>4, <2>1, <2>3 DEF PlanTyped
  <2>5. UNCHANGED <<draft, incumbent>> /\ pc' = "validate"
    BY <1>7 DEF HeuristicExpires, Return, searchVars
  <2>6. QED
    BY <1>1, <2>4, <2>5 DEF PlansRight
<1>8. CASE HeuristicDone
  <2>1. PICK i, d : plan' = <<[draft EXCEPT !.status = d, !.iterations = i]>>
    BY <1>8 DEF HeuristicDone, Return
  <2>2. PlanTyped(plan'[1])
    BY <1>4, <2>1 DEF PlanTyped
  <2>3. UNCHANGED <<draft, incumbent>> /\ pc' = "validate"
    BY <1>8 DEF HeuristicDone, Return, searchVars
  <2>4. QED
    BY <1>1, <2>2, <2>3 DEF PlansRight
<1>9. ASSUME NEW status, Finish(status) PROVE PlansRight'
  <2>1. UNCHANGED <<draft, incumbent>>
    BY <1>9 DEF Finish, searchVars
  <2>2. CASE optimizer = "exhaustive" /\ incumbent # <<>>
    <3>1. PICK i : plan' = <<[incumbent[1].plan EXCEPT !.status = status, !.iterations = i]>>
      BY <1>9, <2>2 DEF Finish, Return
    <3>2. PlanTyped(incumbent[1].plan)
      BY <1>1, <2>2 DEF PlansRight
    <3>3. PlanTyped(plan'[1])
      BY <3>1, <3>2 DEF PlanTyped
    <3>4. pc' = "validate"
      BY <1>9, <2>2 DEF Finish, Return
    <3>5. QED
      BY <1>1, <2>1, <3>3, <3>4 DEF PlansRight
  <2>3. CASE ~(optimizer = "exhaustive" /\ incumbent # <<>>)
    <3>1. pc' = "failed"
      BY <1>9, <2>3 DEF Finish
    <3>2. QED
      BY <1>1, <2>1, <3>1, PlansStay
  <2>4. QED
    BY <2>2, <2>3
<1>10. CASE SearchEnds \/ SearchLimited \/ SearchExpires
  BY <1>9, <1>10 DEF SearchEnds, SearchLimited, SearchExpires
<1>11. CASE GoOn \/ AllPlaced \/ \E o \in Optimizers : AskOneHot(o)
  <2>1. quiet
    BY <1>11 DEF GoOn, AllPlaced, AskOneHot, solveVars, searchVars
  <2>2. QED
    BY <1>1, <2>1, PlansStay
<1>12. CASE Select
  <2>1. PICK i : draft' = [EmptyPlan EXCEPT !.iterations = i]
    BY <1>12 DEF Select
  <2>2. PlanTyped(draft')
    BY <1>2, <2>1, FS_EmptySet DEF EmptyPlan, PlanTyped
  <2>3. incumbent' = incumbent /\ pc' \in {"task", "refused"}
    BY <1>12 DEF Select
  <2>4. QED
    BY <1>1, <2>2, <2>3 DEF PlansRight
<1>13. CASE Score
  <2>1. draft' = draft
    BY <1>13 DEF Score
  <2>2. incumbent' = incumbent \/ incumbent'[1].plan = draft
    BY <1>13 DEF Score
  <2>3. pc' = "select" \/ (pc' = "validate" /\ plan' = <<draft>>)
    BY <1>13 DEF Score, Return
  <2>4. QED
    BY <1>1, <1>4, <2>1, <2>2, <2>3 DEF PlansRight
<1>14. CASE NextTask \/ TryOption \/ Search \/ Place
  <2>1. quiet
    BY <1>14 DEF NextTask, TryOption, Search, Place, solveVars, searchVars
  <2>2. QED
    BY <1>1, <2>1, PlansStay
<1>15. CASE Commit
  <2>1. PICK x \in placed : draft' = With(draft, x)
    BY <1>15 DEF Commit
  <2>2. CandidateRight(x.candidate) /\ x.at \in Nat /\ \A y \in x.transfers : Timed(y)
    BY <1>1, <1>15 DEF Commit, PlanningInv, OptionsRight, Concerns
  <2>3. PlanTyped(draft')
    BY <1>3, <1>4, <2>1, <2>2, WithTyped
  <2>4. incumbent' = incumbent /\ pc' = "task"
    BY <1>15 DEF Commit, searchVars
  <2>5. QED
    BY <1>1, <2>3, <2>4 DEF PlansRight
<1>16. ASSUME NEW e, draft' = [draft EXCEPT !.assigned = Append(@, e)] PROVE PlanTyped(draft')
  <2>1. Sequence(Append(draft.assigned, e))
    BY <1>4, SequencesStay DEF PlanTyped
  <2>2. QED
    BY <1>4, <1>16, <2>1 DEF PlanTyped
<1>17. CASE NoPlace
  <2>1. draft' = draft \/ \E e : draft' = [draft EXCEPT !.assigned = Append(@, e)]
    BY <1>17 DEF NoPlace
  <2>2. PlanTyped(draft')
    BY <1>4, <1>16, <2>1
  <2>3. incumbent' = incumbent /\ pc' \in {"task", "refused"}
    BY <1>17 DEF NoPlace, searchVars
  <2>4. QED
    BY <1>1, <2>2, <2>3 DEF PlansRight
<1>18. CASE AskPlugIn
  <2>1. quiet
    BY <1>18 DEF AskPlugIn, searchVars
  <2>2. QED
    BY <1>1, <2>1, PlansStay
<1>19. CASE Decide
  <2>1. ASSUME draft' = [draft EXCEPT !.deferred = Append(@, Head(todo))] PROVE PlanTyped(draft')
    <3>1. Sequence(Append(draft.deferred, Head(todo)))
      BY <1>4, SequencesStay DEF PlanTyped
    <3>2. PlanTyped(draft')
      BY <1>4, <2>1, <3>1 DEF PlanTyped
    <3>3. QED
      BY <3>2
  <2>2. ASSUME draft' = [draft EXCEPT !.assigned = Append(@, Dropped(Head(todo)))]
        PROVE  PlanTyped(draft')
    BY <1>16, <2>2
  <2>3. ASSUME NEW c \in candidates, NEW made, NEW at \in Nat, \A y \in made : Timed(y),
               draft' = With(draft, PlacedAt(c, made, at))
        PROVE  PlanTyped(draft')
    <3> DEFINE x == PlacedAt(c, made, at)
    <3>1. x.at = at /\ x.transfers = made
      BY DEF PlacedAt
    <3>2. PICK a, b, e : x.candidate = [c EXCEPT !.start = a, !.finish = b, !.communication = e]
      BY DEF PlacedAt
    <3>3. CandidateRight(c)
      BY <1>1 DEF PlanningInv, EstimateInv, Estimated
    <3>4. CandidateRight(x.candidate)
      <4> HIDE DEF x
      <4>1. QED
        BY <3>2, <3>3 DEF CandidateRight
    <3>5. QED
      <4> HIDE DEF x
      <4>1. PlanTyped(With(draft, x))
        BY <1>3, <1>4, <2>3, <3>1, <3>4, WithTyped
      <4>2. QED
        BY <2>3, <4>1 DEF x
  <2>4. PlanTyped(draft')
    <3>1. CASE \E c \in candidates, at \in problem.now .. Horizon :
             LET sent == {i \in DOMAIN c.transfers : c.transfers[i].path # <<>>
                                                    /\ c.transfers[i].time > 0}
             IN \E begin \in [sent -> problem.now .. Horizon] :
                  draft' = With(draft, PlacedAt(c, {Transfer(c, i, begin[i]) : i \in sent}, at))
      <4> DEFINE sent(c) == {i \in DOMAIN c.transfers : c.transfers[i].path # <<>>
                                                       /\ c.transfers[i].time > 0}
      <4>1. PICK c \in candidates, at \in problem.now .. Horizon :
              \E begin \in [sent(c) -> problem.now .. Horizon] :
                draft' = With(draft, PlacedAt(c, {Transfer(c, i, begin[i]) : i \in sent(c)}, at))
        BY <3>1
      <4>2. PICK begin \in [sent(c) -> problem.now .. Horizon] :
                draft' = With(draft, PlacedAt(c, {Transfer(c, i, begin[i]) : i \in sent(c)}, at))
        BY <4>1
      <4>3. problem.now .. Horizon \subseteq Nat
        BY <1>3, PlugInAssumption DEF WellFormed
      <4>4. ASSUME NEW i \in sent(c) PROVE Timed(Transfer(c, i, begin[i]))
        <5>1. c.transfers[i].time \in Nat
          <6>1. c.transfers \in Seq(Transfers)
            BY <1>1 DEF PlanningInv, EstimateInv, Estimated, CandidateRight, TransfersRight
          <6>2. i \in DOMAIN c.transfers
            OBVIOUS
          <6>3. c.transfers[i] \in Transfers
            BY <6>1, <6>2
          <6>4. QED
            BY <6>3 DEF Transfers
        <5>2. begin[i] \in Nat
          BY <4>2, <4>3
        <5>3. QED
          BY <5>1, <5>2 DEF Timed, Transfer
      <4>5. QED
        BY <2>3, <4>2, <4>3, <4>4
    <3>2. QED
      BY <1>19, <2>1, <2>2, <3>1 DEF Decide
  <2>5. incumbent' = incumbent /\ pc' = "task"
    BY <1>19 DEF Decide, searchVars
  <2>6. QED
    BY <1>1, <2>4, <2>5 DEF PlansRight
<1>20. CASE Answer
  <2>1. PICK lie \in Lies : plan' = <<Told(lie, draft)>>
    BY <1>20 DEF Answer, Return
  <2>2. PlanTyped(plan'[1])
    BY <1>4, <2>1, ToldTyped
  <2>3. UNCHANGED <<draft, incumbent>> /\ pc' = "validate"
    BY <1>20 DEF Answer, Return, searchVars
  <2>4. QED
    BY <1>1, <2>2, <2>3 DEF PlansRight
<1>21. CASE Validate
  <2>1. UNCHANGED <<problem, net, candidates, plan, draft, incumbent>>
    BY <1>21 DEF Validate, problemVars, solveVars, searchVars
  <2>2. PlanTyped(plan[1])
    BY <1>1, <1>21 DEF Validate, PlansRight
  <2>3. ASSUME pc' = "accepted" PROVE Checked(plan[1])'
    <3>1. PlanValid(plan[1])
      BY <1>21, <2>3 DEF Validate
    <3>2. Checked(plan[1])
      BY <3>1 DEF PlanValid, Checked
    <3>3. QED
      BY <2>1, <3>2, CheckedStands
  <2>4. QED
    BY <1>1, <2>1, <2>2, <2>3 DEF PlansRight
<1>22. CASE UNCHANGED vars
  <2>1. UNCHANGED <<problem, net, candidates, plan, draft, incumbent, pc>>
    BY <1>22 DEF vars, problemVars, solveVars, searchVars
  <2>2. pc = "accepted" => Checked(plan[1])'
    BY <1>1, <2>1, CheckedStands DEF PlansRight
  <2>3. QED
    BY <1>1, <2>1, <2>2 DEF PlansRight
<1>23. QED
  BY <1>1, <1>5, <1>6, <1>7, <1>8, <1>10, <1>11, <1>12, <1>13, <1>14, <1>15, <1>17, <1>18, <1>19,
     <1>20, <1>21, <1>22 DEF Next, Heuristic, OneHot, OneTask, PlugIn

---------------------------------------------------------------------------
(* What the validation has found makes a plan executable. *)

\* A sequence of as many elements as positions has none twice.
LEMMA AllDiffer ==
  ASSUME NEW s, Sequence(s), NEW T, NEW f \in [DOMAIN s -> T],
         \A y \in T : \E i \in DOMAIN s : f[i] = y, Cardinality(T) = Len(s)
  PROVE  \A i, j \in DOMAIN s : f[i] = f[j] => i = j
<1>1. DOMAIN s = 1 .. Len(s) /\ Len(s) \in Nat
  BY DEF Sequence
<1>2. IsFiniteSet(DOMAIN s) /\ Cardinality(DOMAIN s) = Len(s)
  <2>1. \A k \in Nat : IsFiniteSet(1 .. k) /\ Cardinality(1 .. k) = k
    BY FS_Interval
  <2>2. QED
    BY <1>1, <2>1
<1>3. f \in Surjection(DOMAIN s, T)
  <2>1. f \in [DOMAIN s -> T] /\ \A y \in T : \E i \in DOMAIN s : f[i] = y
    OBVIOUS
  <2>2. QED
    BY <2>1, Zenon DEF Surjection
<1>4. f \in Injection(DOMAIN s, T)
  BY <1>2, <1>3, FS_SurjSameCardinalityImpliesInj
<1>5. QED
  BY <1>4 DEF Injection, IsInjective

\* Every task of the epoch has one assignment or is deferred once, and it is computed
\* under one reservation if it has a node.
LEMMA EachOnce ==
  ASSUME NEW p, PlanTyped(p), CoversEpoch(p)
  PROVE  /\ \A i, j \in DOMAIN p.assigned : p.assigned[i].task = p.assigned[j].task => i = j
         /\ \A a, b \in ToSet(p.assigned) : a.task = b.task => a = b
         /\ \A t \in Ready : Cardinality({i \in DOMAIN p.assigned : p.assigned[i].task = t})
                               + Cardinality({i \in DOMAIN p.deferred : p.deferred[i] = t}) = 1
<1> DEFINE task == [i \in DOMAIN p.assigned |-> p.assigned[i].task]
           tasks == {a.task : a \in ToSet(p.assigned)}
           left == ToSet(p.deferred)
<1>1. /\ task \in [DOMAIN p.assigned -> tasks]
      /\ \A t \in tasks : \E i \in DOMAIN p.assigned : task[i] = t
  BY DEF ToSet
<1>2. \A i, j \in DOMAIN p.assigned : p.assigned[i].task = p.assigned[j].task => i = j
  <2>1. Cardinality(tasks) = Len(p.assigned) /\ Sequence(p.assigned)
    BY DEF CoversEpoch, PlanTyped
  <2>2. \A i, j \in DOMAIN p.assigned : task[i] = task[j] => i = j
    <3> HIDE DEF task, tasks
    <3>1. QED
      BY <1>1, <2>1, AllDiffer
  <2>3. QED
    BY <2>2
<1>3. \A i, j \in DOMAIN p.deferred : p.deferred[i] = p.deferred[j] => i = j
  <2>1. Cardinality(left) = Len(p.deferred) /\ Sequence(p.deferred)
    BY DEF CoversEpoch, PlanTyped
  <2>2. /\ p.deferred \in [DOMAIN p.deferred -> left]
        /\ \A t \in left : \E i \in DOMAIN p.deferred : p.deferred[i] = t
    BY DEF ToSet, PlanTyped, Sequence
  <2>3. QED
    <3> HIDE DEF left
    <3>1. QED
      BY <2>1, <2>2, AllDiffer
<1>4. tasks \cap left = {} /\ tasks \cup left = Ready
  BY DEF CoversEpoch
<1>5. ASSUME NEW t \in Ready
      PROVE  Cardinality({i \in DOMAIN p.assigned : p.assigned[i].task = t})
               + Cardinality({i \in DOMAIN p.deferred : p.deferred[i] = t}) = 1
  <2> DEFINE A == {i \in DOMAIN p.assigned : p.assigned[i].task = t}
             D == {i \in DOMAIN p.deferred : p.deferred[i] = t}
  <2>1. CASE t \in tasks
    <3>1. PICK i \in DOMAIN p.assigned : p.assigned[i].task = t
      BY <2>1 DEF ToSet
    <3>2. A = {i}
      BY <1>2, <3>1
    <3>3. D = {}
      BY <1>4, <2>1 DEF ToSet
    <3>4. Cardinality(A) = 1 /\ Cardinality(D) = 0
      BY <3>2, <3>3, FS_Singleton, FS_EmptySet
    <3>5. QED
      BY <3>4
  <2>2. CASE t \notin tasks
    <3>1. PICK i \in DOMAIN p.deferred : p.deferred[i] = t
      BY <1>4, <2>2 DEF ToSet
    <3>2. D = {i}
      BY <1>3, <3>1
    <3>3. A = {}
      BY <2>2 DEF ToSet
    <3>4. Cardinality(D) = 1 /\ Cardinality(A) = 0
      BY <3>2, <3>3, FS_Singleton, FS_EmptySet
    <3>5. QED
      BY <3>4
  <2>3. QED
    BY <2>1, <2>2
<1>6. \A a, b \in ToSet(p.assigned) : a.task = b.task => a = b
  BY <1>2 DEF ToSet
<1>7. QED
  BY <1>2, <1>5, <1>6

\* Every computation is reserved once, and nothing else is.
LEMMA EachReserved ==
  ASSUME NEW p, PlanTyped(p), CoversEpoch(p), ReservationsValid(p)
  PROVE  \A t : Cardinality(Runs(p, t)) = Cardinality(ExecutedOn(p, t))
<1> DEFINE R == p.reservations
           T == {a.task : a \in Assigned(p)}
           f == [a \in Assigned(p) |-> a.task]
           g == [x \in R |-> x.task]
<1>1. \A a, b \in Assigned(p) : a.task = b.task => a = b
  BY EachOnce DEF Assigned
<1>2. IsFiniteSet(Assigned(p))
  <2>1. DOMAIN p.assigned = 1 .. Len(p.assigned) /\ Len(p.assigned) \in Nat
    BY DEF PlanTyped, Sequence
  <2>2. IsFiniteSet(DOMAIN p.assigned)
    BY <2>1, FS_Interval
  <2>3. p.assigned \in Surjection(DOMAIN p.assigned, ToSet(p.assigned))
    <3>1. /\ p.assigned \in [DOMAIN p.assigned -> ToSet(p.assigned)]
          /\ \A y \in ToSet(p.assigned) : \E i \in DOMAIN p.assigned : p.assigned[i] = y
      BY DEF ToSet, PlanTyped, Sequence
    <3>2. QED
      BY <3>1, Zenon DEF Surjection
  <2>4. IsFiniteSet(ToSet(p.assigned))
    BY <2>2, <2>3, FS_Surjection
  <2>5. Assigned(p) \subseteq ToSet(p.assigned)
    BY DEF Assigned
  <2>6. QED
    BY <2>4, <2>5, FS_Subset
<1>3. f \in Bijection(Assigned(p), T)
  <2>1. /\ f \in [Assigned(p) -> T] /\ \A y \in T : \E a \in Assigned(p) : f[a] = y
        /\ \A a, b \in Assigned(p) : f[a] = f[b] => a = b
    BY <1>1
  <2>2. QED
    BY <2>1, Zenon DEF Bijection, Injection, Surjection, IsInjective
<1>4. Cardinality(Assigned(p)) = Cardinality(T)
  <2> HIDE DEF f, T
  <2>1. QED
    BY <1>2, <1>3, FS_Bijection DEF ExistsBijection
<1>5. g \in Surjection(R, T)
  <2>1. T = {x.task : x \in R}
    BY DEF ReservationsValid
  <2>2. g \in [R -> T] /\ \A y \in T : \E x \in R : g[x] = y
    BY <2>1
  <2>3. QED
    BY <2>2, Zenon DEF Surjection
<1>6. Cardinality(R) = Cardinality(T) /\ IsFiniteSet(R)
  BY <1>4 DEF ReservationsValid, PlanTyped
<1>7. g \in Injection(R, T)
  <2> HIDE DEF g, R, T
  <2>1. QED
    BY <1>5, <1>6, FS_SurjSameCardinalityImpliesInj
<1>8. \A x, y \in R : x.task = y.task => x = y
  <2>1. \A x, y \in R : g[x] = g[y] => x = y
    <3> HIDE DEF g, R, T
    <3>1. QED
      BY <1>7 DEF Injection, IsInjective
  <2>2. QED
    BY <2>1
<1>9. SUFFICES ASSUME NEW t PROVE Cardinality(Runs(p, t)) = Cardinality(ExecutedOn(p, t))
  OBVIOUS
<1>10. CASE t \in T
  <2>1. PICK a \in Assigned(p) : a.task = t
    BY <1>10
  <2>2. ExecutedOn(p, t) = {a}
    BY <1>1, <2>1 DEF ExecutedOn
  <2>3. PICK x \in R : x.task = t
    BY <1>10 DEF ReservationsValid
  <2>4. Runs(p, t) = {x}
    BY <1>8, <2>3 DEF Runs
  <2>5. QED
    BY <2>2, <2>4, FS_Singleton
<1>11. CASE t \notin T
  <2>1. ExecutedOn(p, t) = {}
    BY <1>11 DEF ExecutedOn
  <2>2. Runs(p, t) = {}
    BY <1>11 DEF Runs, ReservationsValid
  <2>3. QED
    BY <2>1, <2>2
<1>12. QED
  BY <1>10, <1>11

\* A computation is where and when its candidate allows, and begins after its inputs
\* have come.
LEMMA EachIsReady ==
  ASSUME PlanningInv, NEW p, PlanTyped(p), Checked(p),
         NEW t \in Ready, NEW x \in Runs(p, t), NEW a \in ExecutedOn(p, t)
  PROVE  /\ x.node = a.node /\ a.node \in AllowedNodes(t)
         /\ x.finish - x.start = problem.work[t][a.node].compute
         /\ x.start >= Max({problem.now, problem.ready[t], problem.free[a.node]})
         /\ InputsArrive(p, t, a.node, x.start)
<1>1. WellFormed(problem) /\ Setting
  BY ProblemAssumption DEF PlanningInv, EstimateInv, Setting
<1>2. /\ x \in p.reservations /\ x.task = t /\ x.start \in Nat /\ x.finish \in Int
      /\ a \in Assigned(p) /\ a \in ToSet(p.assigned) /\ a.task = t /\ a.node # 0
  BY DEF Runs, ExecutedOn, Assigned, PlanTyped, Reserves
<1>3. PICK c \in candidates : c.task = t /\ c.node = a.node /\ a.start >= c.ready
  BY <1>2 DEF Checked, AssignmentValid, CandidateOf
<1>4. CandidateRight(c)
  BY DEF PlanningInv, EstimateInv, Estimated
<1>5. /\ x.node = a.node /\ x.finish - x.start = c.compute
      /\ x.start >= problem.free[x.node]
  BY <1>2, <1>3 DEF Checked, ReservationsValid, CandidateOf
<1>6. a.node \in AllowedNodes(t) /\ a.node \in Nodes
  BY <1>3, <1>4 DEF CandidateRight, AllowedNodes
<1>7. c.compute = problem.work[t][a.node].compute
  BY <1>3, <1>4 DEF CandidateRight
<1> DEFINE own == TransfersOf(p, a)
           starts == {y.start : y \in {z \in p.reservations : z.task = a.task}}
           all == starts \cup {y.start : y \in own}
           moves == {y \in ToSet(c.transfers) : y.path # <<>> /\ y.time > 0}
           Length(y) == y.finish - y.start
<1>8. /\ {[id |-> y.transfer, path |-> y.path, time |-> Length(y)] : y \in own} = moves
      /\ \A y \in own, s \in starts : y.finish <= s
      /\ a.start = Min(all)
  BY <1>2, <1>3 DEF Checked, TransfersValid
<1>9. x.start \in starts
  BY <1>2
<1>10. /\ a.start \in Nat /\ a.start <= x.start
       /\ \A y \in own : y.start \in Nat /\ a.start <= y.start
  <2>1. \A y \in own : y.start \in Nat
    BY DEF TransfersOf, PlanTyped, Timed
  <2>2. all \subseteq Nat /\ all # {}
    BY <1>9, <2>1 DEF PlanTyped, Reserves
  <2>3. Min(all) \in Nat /\ \A s \in all : Min(all) <= s
    <3> HIDE DEF all
    <3>1. QED
      BY <2>2, MinOfSet
  <2>4. QED
    <3>1. \A y \in own : y.start \in all
      OBVIOUS
    <3>2. x.start \in all
      BY <1>9
    <3>3. QED
      <4> HIDE DEF all, own
      <4>1. QED
        BY <1>8, <2>1, <2>3, <3>1, <3>2
<1>11. problem.now \in Nat /\ problem.ready[t] \in Nat /\ problem.free[a.node] \in Nat
  BY <1>1, <1>6 DEF WellFormed, Ready
<1> DEFINE early == Max({problem.now, problem.ready[t]})
<1>12. early \in Nat /\ early = c.ready /\ early >= problem.now /\ early >= problem.ready[t]
  <2>1. early = c.ready
    BY <1>3, <1>4 DEF CandidateRight
  <2>2. early = IF problem.now >= problem.ready[t] THEN problem.now ELSE problem.ready[t]
    BY <1>11, MaxOfTwo
  <2>3. QED
    <3> HIDE DEF early
    <3>1. QED
      BY <1>11, <2>1, <2>2
<1>13. x.start >= Max({problem.now, problem.ready[t], problem.free[a.node]})
  <2> DEFINE M == {problem.now, problem.ready[t], problem.free[a.node]}
  <2>1. M \subseteq Int /\ IsFiniteSet(M) /\ M # {}
    <3>1. IsFiniteSet({problem.now, problem.ready[t]})
      <4>1. {problem.now, problem.ready[t]} = {problem.now} \cup {problem.ready[t]}
        OBVIOUS
      <4>2. IsFiniteSet({problem.now} \cup {problem.ready[t]})
        BY FS_Singleton, FS_AddElement
      <4>3. QED
        BY <4>1, <4>2
    <3>2. IsFiniteSet({problem.now, problem.ready[t]} \cup {problem.free[a.node]})
      BY <3>1, FS_AddElement
    <3>3. M = {problem.now, problem.ready[t]} \cup {problem.free[a.node]}
      OBVIOUS
    <3>4. QED
      BY <1>11, <3>2, <3>3
  <2>2. Max(M) \in M
    <3> HIDE DEF M
    <3>1. QED
      BY <2>1, MaxOfFinite
  <2>3. \A m \in M : x.start >= m
    <3> HIDE DEF early
    <3>1. QED
      BY <1>2, <1>3, <1>5, <1>10, <1>11, <1>12
  <2>4. QED
    BY <2>2, <2>3
<1>14. ASSUME NEW i \in DOMAIN Inputs(t)
       PROVE  LET input == Inputs(t)[i]
              IN \/ input.node = a.node \/ input.size = 0
                 \/ \E y \in p.transfers :
                      /\ y.task = t /\ y.transfer = i /\ Connects(y.path, input.node, a.node, t)
                      /\ y.start >= early /\ y.finish <= x.start
  <2> DEFINE m == c.transfers[i]
  <2>1. /\ c.transfers \in Seq(Transfers) /\ i \in DOMAIN c.transfers /\ m.id = i
        /\ Brings(m.path, m.time, Inputs(t)[i], a.node, t)
    <3>1. /\ TransfersRight(c.transfers, t, a.node) /\ Len(c.transfers) = Len(Inputs(t))
      BY <1>3, <1>4 DEF CandidateRight
    <3>2. DOMAIN Inputs(t) = 1 .. Len(Inputs(t)) /\ c.transfers \in Seq(Transfers)
      BY <1>1, <3>1, InputsTyped DEF TransfersRight
    <3>3. i \in DOMAIN c.transfers
      BY <3>1, <3>2
    <3>4. QED
      BY <3>1, <3>2, <3>3 DEF TransfersRight
  <2>2. CASE m.path = <<>>
    BY <2>1, <2>2 DEF Brings
  <2>3. CASE m.path # <<>>
    <3>1. m.time > 0 /\ Connects(m.path, Inputs(t)[i].node, a.node, t)
      BY <2>1, <2>3 DEF Brings
    <3>2. m \in moves
      BY <2>1, <2>3, <3>1 DEF ToSet
    <3>3. PICK y \in own : m = [id |-> y.transfer, path |-> y.path, time |-> Length(y)]
      <4> HIDE DEF own, m
      <4>1. QED
        BY <1>8, <3>2
    <3>4. y.transfer = i /\ y.path = m.path /\ y.task = t /\ y \in p.transfers
      <4>1. y.transfer = i /\ y.path = m.path
        <5> HIDE DEF m, own
        <5>1. QED
          BY <2>1, <3>3
      <4>2. QED
        BY <1>2, <4>1 DEF TransfersOf
    <3>5. y.start >= early /\ y.finish <= x.start
      <4> HIDE DEF early, own, starts
      <4>1. y.finish <= x.start
        BY <1>8, <1>9, <3>3
      <4>2. y.start \in Nat /\ a.start <= y.start
        BY <1>10, <3>3
      <4>3. QED
        BY <1>3, <1>10, <1>12, <4>1, <4>2
    <3>6. QED
      BY <3>1, <3>4, <3>5
  <2>4. QED
    BY <2>2, <2>3
<1>15. InputsArrive(p, t, a.node, x.start)
  BY <1>14 DEF InputsArrive
<1>16. QED
  BY <1>5, <1>6, <1>7, <1>13, <1>15

\* A node holds at every moment what the plan adds to the carry-in: before the moment
\* there is one at which the validation has looked, and at which all was active that
\* is active now.
LEMMA NodesHold ==
  ASSUME PlanningInv, NEW p, PlanTyped(p), Checked(p),
         NEW n \in Nodes, NEW u \in Int, u >= problem.now,
         ActiveAt(p.reservations, n, u) # {}
  PROVE  Fits(n, ActiveAt(p.reservations \cup problem.carryIn, n, u))
<1>1. WellFormed(problem) /\ problem \in Problems
  BY ProblemAssumption DEF PlanningInv, EstimateInv, Setting
<1> DEFINE B == p.reservations \cup problem.carryIn
           planned == {x \in p.reservations : x.node = n}
           all == planned \cup {x \in problem.carryIn : x.node = n}
           P == {w \in CapacityPoints(all, planned) : w <= u}
           v == Max(P)
<1>2. problem.now \in Nat /\ IsFiniteSet(B)
      /\ \A x \in B : x.start \in Nat /\ x.finish \in Int /\ x.demand \in [Resources -> Nat]
  <2>1. IsFiniteSet(p.reservations) /\ IsFiniteSet(problem.carryIn) /\ problem.now \in Nat
    BY <1>1 DEF PlanTyped, WellFormed
  <2>2. IsFiniteSet(B)
    BY <2>1, FS_Union
  <2>3. ASSUME NEW x \in p.reservations
        PROVE  x.start \in Nat /\ x.finish \in Int /\ x.demand \in [Resources -> Nat]
    BY DEF PlanTyped, Reserves
  <2>4. ASSUME NEW x \in problem.carryIn
        PROVE  x.start \in Nat /\ x.finish \in Int /\ x.demand \in [Resources -> Nat]
    BY <1>1 DEF WellFormed
  <2>5. QED
    BY <2>1, <2>2, <2>3, <2>4
<1>3. all \subseteq B /\ \A x \in all : x.node = n
  OBVIOUS
<1>4. ASSUME NEW x \in all, x.start <= u
      PROVE  \E w \in P : x.start <= w
  <2> DEFINE w == Max({problem.now, x.start})
  <2>1. x.start \in Nat
    BY <1>2, <1>3
  <2>2. w = IF problem.now >= x.start THEN problem.now ELSE x.start
    BY <1>2, <2>1, MaxOfTwo
  <2>3. w \in Nat /\ w >= problem.now /\ x.start <= w /\ w <= u
    <3> HIDE DEF w, all
    <3>1. QED
      BY <1>2, <1>4, <2>1, <2>2
  <2>4. w \in CapacityPoints(all, planned)
    <3>1. w \in {Max({problem.now, x.start}), x.finish}
      OBVIOUS
    <3>2. QED
      <4> HIDE DEF all, planned
      <4>1. QED
        BY <1>4, <2>3, <3>1 DEF CapacityPoints
  <2>5. QED
    BY <2>3, <2>4
<1>5. P \subseteq problem.now .. u /\ problem.now \in P
  <2>1. \A w \in CapacityPoints(all, planned) : w \in Int /\ w >= problem.now
    <3>1. \A x \in all : x.start \in Nat /\ x.finish \in Int
      BY <1>2, <1>3
    <3>2. \A x \in all : Max({problem.now, x.start}) \in Int
      BY <1>2, <3>1, MaxOfTwo
    <3>3. ASSUME NEW w \in CapacityPoints(all, planned) PROVE w \in Int /\ w >= problem.now
      <4> HIDE DEF all, planned
      <4>1. \/ w = problem.now
            \/ w >= problem.now /\ \E x \in all : w \in {Max({problem.now, x.start}), x.finish}
        BY DEF CapacityPoints
      <4>2. CASE w = problem.now
        BY <1>2, <4>2
      <4>3. CASE w # problem.now
        <5>1. PICK x \in all : w = Max({problem.now, x.start}) \/ w = x.finish
          BY <4>1, <4>3
        <5>2. w \in Int
          BY <3>1, <3>2, <5>1
        <5>3. QED
          BY <4>1, <4>3, <5>2
      <4>4. QED
        BY <4>2, <4>3
    <3>4. QED
      BY <3>3
  <2>2. problem.now \in CapacityPoints(all, planned)
    BY DEF CapacityPoints
  <2>3. QED
    <3> HIDE DEF all, planned
    <3>1. QED
      BY <1>2, <2>1, <2>2
<1>6. v \in P /\ \A w \in P : w <= v
  <2>1. IsFiniteSet(problem.now .. u)
    BY <1>2, FS_Interval
  <2>2. IsFiniteSet(P)
    BY <1>5, <2>1, FS_Subset
  <2>3. P \subseteq Int
    BY <1>2, <1>5
  <2>4. QED
    <3> HIDE DEF P
    <3>1. QED
      BY <1>5, <2>2, <2>3, MaxOfFinite
<1>7. v \in Int /\ v <= u /\ v \in CapacityPoints(all, planned)
  <2> HIDE DEF v, all, planned
  <2>1. QED
    BY <1>2, <1>5, <1>6
<1>8. ASSUME NEW x \in B, x.node = n, x.start <= u, u < x.finish
      PROVE  x.start <= v /\ v < x.finish
  <2>1. x \in all
    BY <1>8
  <2>2. PICK w \in P : x.start <= w
    <3> HIDE DEF P, all
    <3>1. QED
      BY <1>4, <1>8, <2>1
  <2>3. x.start \in Nat /\ x.finish \in Int /\ w \in Int /\ w <= v
    <3>1. w \in Int
      <4> HIDE DEF P
      <4>1. QED
        BY <1>2, <1>5
    <3>2. QED
      <4> HIDE DEF P, v
      <4>1. QED
        BY <1>2, <1>6, <3>1
  <2>4. QED
    <3> HIDE DEF P, v, all, planned
    <3>1. QED
      BY <1>7, <1>8, <2>2, <2>3
<1>9. ActiveAt(B, n, u) \subseteq ActiveAt(all, n, v)
  <2> HIDE DEF v
  <2>1. QED
    BY <1>8 DEF ActiveAt
<1>10. ActiveAt(planned, n, v) # {}
  <2>1. PICK x \in p.reservations : x.node = n /\ x.start <= u /\ u < x.finish
    BY DEF ActiveAt
  <2>2. x.start <= v /\ v < x.finish
    <3> HIDE DEF v
    <3>1. QED
      BY <1>8, <2>1
  <2>3. x \in ActiveAt(planned, n, v)
    <3> HIDE DEF v
    <3>1. QED
      BY <2>1, <2>2 DEF ActiveAt
  <2>4. QED
    BY <2>3
<1>11. n \in {x.node : x \in B}
  BY DEF ActiveAt
<1>12. Fits(n, ActiveAt(all, n, v))
  <2> HIDE DEF v
  <2>1. QED
    BY <1>7, <1>10, <1>11 DEF Checked, CapacityValid
<1>13. IsFiniteSet(ActiveAt(all, n, v)) /\ Demanding(ActiveAt(all, n, v))
  <2> HIDE DEF v
  <2>1. ActiveAt(all, n, v) \subseteq B
    BY <1>3 DEF ActiveAt
  <2>2. QED
    <3> HIDE DEF B, all
    <3>1. QED
      BY <1>2, <2>1, FS_Subset DEF Demanding
<1>14. QED
  <2> HIDE DEF B, v, all
  <2>1. Fits(n, ActiveAt(B, n, u))
    BY <1>1, <1>9, <1>12, <1>13, FitsPart
  <2>2. QED
    BY <2>1 DEF B

\* At no moment do two transfers hold a link, and none holds one that is not yet free.
LEMMA LinksHold ==
  ASSUME PlanningInv, NEW p, PlanTyped(p), Checked(p), NEW l \in Links, NEW u \in Int
  PROVE  Cardinality({x \in p.transfers : l \in ToSet(x.path) /\ x.start <= u /\ u < x.finish})
           <= IF u < problem.linkFree[l] THEN 0 ELSE 1
<1> DEFINE S == {x \in p.transfers : l \in ToSet(x.path) /\ x.start <= u /\ u < x.finish}
<1>1. \A x \in p.transfers : x.start \in Nat /\ x.finish \in Int
  BY DEF PlanTyped, Timed
<1>2. problem.linkFree[l] \in Nat
  <2>1. WellFormed(problem)
    BY ProblemAssumption DEF PlanningInv, EstimateInv, Setting
  <2>2. QED
    BY <2>1 DEF WellFormed
<1>3. \A x \in S : problem.linkFree[l] <= x.start
  BY DEF Checked, TransfersValid
<1>4. \A x, y \in S : x = y
  <2>1. SUFFICES ASSUME NEW x \in S, NEW y \in S, x # y PROVE FALSE
    OBVIOUS
  <2>2. ToSet(x.path) \cap ToSet(y.path) # {}
    OBVIOUS
  <2>3. x.finish <= y.start \/ y.finish <= x.start
    BY <2>1, <2>2 DEF Checked, LinksValid
  <2>4. QED
    BY <1>1, <2>3
<1>5. S = {} \/ \E x : S = {x}
  <2> HIDE DEF S
  <2>1. QED
    BY <1>4
<1>6. Cardinality(S) \in {0, 1}
  BY <1>5, FS_EmptySet, FS_Singleton
<1>7. ASSUME u < problem.linkFree[l] PROVE Cardinality(S) = 0
  <2>1. S = {}
    BY <1>1, <1>2, <1>3, <1>7
  <2>2. QED
    BY <2>1, FS_EmptySet
<1>8. QED
  <2> HIDE DEF S
  <2>1. Cardinality(S) <= IF u < problem.linkFree[l] THEN 0 ELSE 1
    BY <1>6, <1>7
  <2>2. QED
    BY <2>1 DEF S

\* The sum over a set depends on what is summed of its elements.
LEMMA BatteriesLast ==
  ASSUME PlanningInv, NEW p, Checked(p), NEW n \in DOMAIN problem.battery
  PROVE  LET cost(a) == (CHOOSE c \in candidates : c.task = a.task /\ c.node = a.node).energy
         IN SumOver(cost, {a \in Assigned(p) : a.node = n}) <= problem.battery[n]
<1> DEFINE S == {a \in Assigned(p) : a.node = n}
           cost(a) == (CHOOSE c \in candidates : c.task = a.task /\ c.node = a.node).energy
           Energy(a) == a.energy
<1>1. SumOver(Energy, S) <= problem.battery[n]
  BY DEF Checked, EnergyValid
<1>2. ASSUME NEW a \in S PROVE cost(a) = Energy(a)
  <2>1. PICK c \in candidates : c.task = a.task /\ c.node = a.node /\ a.energy = c.energy
    BY DEF Assigned, Checked, AssignmentValid, CandidateOf
  <2>2. \A d \in candidates : d.task = a.task /\ d.node = a.node => d = c
    BY <2>1 DEF PlanningInv, EstimateInv, Estimated
  <2>3. (CHOOSE d \in candidates : d.task = a.task /\ d.node = a.node) = c
    BY <2>1, <2>2
  <2>4. QED
    BY <2>1, <2>3
<1>3. SumOver(cost, S) = SumOver(Energy, S)
  <2> DEFINE picked(s) == CHOOSE x \in s : TRUE
             Cost(f) == f = [s \in SUBSET S |-> IF s = {} THEN 0 ELSE cost(picked(s)) + f[s \ {picked(s)}]]
             Drawn(f) == f = [s \in SUBSET S |-> IF s = {} THEN 0 ELSE Energy(picked(s)) + f[s \ {picked(s)}]]
  <2>1. ASSUME NEW s \in SUBSET S, s # {} PROVE cost(picked(s)) = Energy(picked(s))
    <3>1. picked(s) \in S
      BY <2>1
    <3>2. QED
      <4> HIDE DEF picked, cost, Energy, S
      <4>1. QED
        BY <1>2, <3>1
  <2>2. \A f : Cost(f) <=> Drawn(f)
    <3> HIDE DEF picked, cost, Energy, S
    <3>1. QED
      BY <2>1
  <2>3. (CHOOSE f : Cost(f)) = (CHOOSE f : Drawn(f))
    <3> HIDE DEF Cost, Drawn
    <3>1. QED
      BY <2>2
  <2>4. SumOver(cost, S) = (CHOOSE f : Cost(f))[S]
    BY DEF SumOver, MapThenSumSet, MapThenFoldSet
  <2>5. SumOver(Energy, S) = (CHOOSE f : Drawn(f))[S]
    BY DEF SumOver, MapThenSumSet, MapThenFoldSet
  <2>6. QED
    BY <2>3, <2>4, <2>5
<1>4. QED
  BY <1>1, <1>3

\* An accepted plan, whoever made it, can be carried out at every moment as it stands:
\* its tasks, nodes, inputs, links and batteries.
THEOREM AcceptedIsExecutableHolds == Spec => []AcceptedIsExecutable
<1>1. PlanningInv /\ PlansRight => AcceptedIsExecutable
  <2>1. SUFFICES ASSUME PlanningInv, PlansRight, pc = "accepted" PROVE AcceptedIsExecutable
    BY DEF AcceptedIsExecutable
  <2> DEFINE p == plan[1]
             moments == problem.now .. Max({x.finish : x \in p.reservations} \cup {problem.now})
             cost(a) == (CHOOSE c \in candidates : c.task = a.task /\ c.node = a.node).energy
  <2>2. PlanTyped(p) /\ Checked(p)
    BY <2>1 DEF PlansRight
  <2>3. CoversEpoch(p) /\ ReservationsValid(p)
    BY <2>2 DEF Checked
  <2>4. ASSUME NEW t \in Ready
        PROVE  /\ Cardinality({i \in DOMAIN p.assigned : p.assigned[i].task = t})
                    + Cardinality({i \in DOMAIN p.deferred : p.deferred[i] = t}) = 1
               /\ Cardinality(Runs(p, t)) = Cardinality(ExecutedOn(p, t))
               /\ \A x \in Runs(p, t), a \in ExecutedOn(p, t) :
                    /\ x.node = a.node /\ a.node \in AllowedNodes(t)
                    /\ x.finish - x.start = problem.work[t][a.node].compute
                    /\ x.start >= Max({problem.now, problem.ready[t], problem.free[a.node]})
                    /\ InputsArrive(p, t, a.node, x.start)
    <3> HIDE DEF p
    <3>1. Cardinality({i \in DOMAIN p.assigned : p.assigned[i].task = t})
            + Cardinality({i \in DOMAIN p.deferred : p.deferred[i] = t}) = 1
      BY <2>2, <2>3, EachOnce
    <3>2. Cardinality(Runs(p, t)) = Cardinality(ExecutedOn(p, t))
      BY <2>2, <2>3, EachReserved
    <3>3. \A x \in Runs(p, t), a \in ExecutedOn(p, t) :
            /\ x.node = a.node /\ a.node \in AllowedNodes(t)
            /\ x.finish - x.start = problem.work[t][a.node].compute
            /\ x.start >= Max({problem.now, problem.ready[t], problem.free[a.node]})
            /\ InputsArrive(p, t, a.node, x.start)
      BY <2>1, <2>2, EachIsReady
    <3>4. QED
      BY <3>1, <3>2, <3>3
  <2>5. moments \subseteq Int /\ \A u \in moments : u >= problem.now
    <3> DEFINE F == {x.finish : x \in p.reservations}
    <3>1. IsFiniteSet(F) /\ F \subseteq Int
      <4> DEFINE f == [x \in p.reservations |-> x.finish]
      <4>1. f \in [p.reservations -> F] /\ \A y \in F : \E x \in p.reservations : f[x] = y
        OBVIOUS
      <4>2. f \in Surjection(p.reservations, F)
        BY <4>1, Zenon DEF Surjection
      <4>3. IsFiniteSet(F)
        <5> HIDE DEF f, F
        <5>1. QED
          BY <2>2, <4>2, FS_Surjection DEF PlanTyped
      <4>4. QED
        BY <2>2, <4>3 DEF PlanTyped, Reserves
    <3>2. problem.now \in Nat
      BY <2>1, ProblemAssumption DEF PlanningInv, EstimateInv, Setting, WellFormed
    <3>3. Max(F \cup {problem.now}) \in Int
      <4> HIDE DEF F
      <4>1. IsFiniteSet(F \cup {problem.now})
        BY <3>1, FS_AddElement
      <4>2. F \cup {problem.now} \in SUBSET Int /\ F \cup {problem.now} # {}
        <5>1. problem.now \in Int
          BY <3>2
        <5>2. QED
          BY <3>1, <5>1
      <4>3. QED
        BY <4>1, <4>2, MaxOfFinite
    <3>4. QED
      <4> HIDE DEF F
      <4>1. problem.now .. Max(F \cup {problem.now}) \subseteq Int
            /\ \A u \in problem.now .. Max(F \cup {problem.now}) : u >= problem.now
        BY <3>2, <3>3
      <4>2. QED
        BY <4>1 DEF F
  <2>6. ASSUME NEW n \in Nodes, NEW u \in moments, ActiveAt(p.reservations, n, u) # {}
        PROVE  Fits(n, ActiveAt(p.reservations \cup problem.carryIn, n, u))
    <3> HIDE DEF p, moments
    <3>1. QED
      BY <2>1, <2>2, <2>5, <2>6, NodesHold
  <2>7. ASSUME NEW l \in Links, NEW u \in moments
        PROVE  Cardinality({x \in p.transfers : l \in ToSet(x.path) /\ x.start <= u /\ u < x.finish})
                 <= IF u < problem.linkFree[l] THEN 0 ELSE 1
    <3> HIDE DEF p, moments
    <3>1. QED
      BY <2>1, <2>2, <2>5, LinksHold
  <2>8. ASSUME NEW n \in DOMAIN problem.battery
        PROVE  SumOver(cost, {a \in Assigned(p) : a.node = n}) <= problem.battery[n]
    <3> HIDE DEF p
    <3>1. QED
      BY <2>1, <2>2, BatteriesLast
  <2>9. QED
    BY <2>4, <2>6, <2>7, <2>8 DEF AcceptedIsExecutable
<1>2. Init => PlanningInv /\ PlansRight
  BY PlanningInit, PlansInit
<1>3. PlanningInv /\ PlansRight /\ [Next]_vars => (PlanningInv /\ PlansRight)'
  BY PlanningStep, PlansStep
<1>4. QED
  BY <1>1, <1>2, <1>3, PTL DEF Spec


---------------------------------------------------------------------------
(* The order of paths. *)

\* After the first k elements, which are the same in both, p has ended or is less.
Before(p, q) ==
  \E k \in 0 .. Len(q) :
    /\ k <= Len(p) /\ k < Len(q) /\ \A j \in 1 .. k : p[j] = q[j]
    /\ k < Len(p) => p[k + 1] < q[k + 1]

\* The beginning of a sequence.
LEMMA Beginning ==
  ASSUME NEW S, NEW s \in Seq(S), NEW m \in Nat, m <= Len(s)
  PROVE  /\ SubSeq(s, 1, m) \in Seq(S) /\ Len(SubSeq(s, 1, m)) = m
         /\ SubSeq(s, 1, m) = [j \in 1 .. m |-> s[j]]
<1>1. Len(s) \in Nat
  OBVIOUS
<1>2. Len(SubSeq(s, 1, m)) = m
  BY <1>1
<1>3. SubSeq(s, 1, m) \in Seq(S)
  BY <1>1
<1>4. \A j \in 1 .. m : SubSeq(s, 1, m)[j] = s[j]
  BY <1>1
<1>5. DOMAIN SubSeq(s, 1, m) = 1 .. m
  BY <1>2, <1>3
<1>6. QED
  BY <1>2, <1>3, <1>4, <1>5

\* What is known of a sequence of numbers.
LEMMA SequenceOfNumbers ==
  ASSUME NEW p \in Seq(Int)
  PROVE  /\ Len(p) \in Nat /\ DOMAIN p = 1 .. Len(p) /\ p = [j \in 1 .. Len(p) |-> p[j]]
         /\ \A j \in 1 .. Len(p) : p[j] \in Int
OBVIOUS

\* It is the order of tuples.
LEMMA PrecedesIsBefore ==
  ASSUME NEW p \in Seq(Int), NEW q \in Seq(Int)
  PROVE  Precedes(p, q) <=> Before(p, q)
<1>1. Len(p) \in Nat /\ Len(q) \in Nat /\ DOMAIN p = 1 .. Len(p) /\ DOMAIN q = 1 .. Len(q)
      /\ p = [j \in 1 .. Len(p) |-> p[j]]
  BY SequenceOfNumbers
<1>2. ASSUME NEW m \in Nat, m <= Len(p), m <= Len(q)
      PROVE  SubSeq(p, 1, m) = SubSeq(q, 1, m) <=> \A j \in 1 .. m : p[j] = q[j]
  <2>1. SubSeq(p, 1, m) = [j \in 1 .. m |-> p[j]] /\ SubSeq(q, 1, m) = [j \in 1 .. m |-> q[j]]
    BY <1>2, Beginning
  <2>2. QED
    BY <2>1
<1>3. ASSUME Len(p) < Len(q), p = SubSeq(q, 1, Len(p)) PROVE Before(p, q)
  <2>1. \A j \in 1 .. Len(p) : p[j] = q[j]
    <3>1. SubSeq(q, 1, Len(p)) = [j \in 1 .. Len(p) |-> q[j]]
      BY <1>1, <1>3, Beginning
    <3>2. QED
      BY <1>3, <3>1
  <2>2. QED
    BY <1>1, <1>3, <2>1 DEF Before
<1>4. ASSUME NEW i \in DOMAIN p \cap DOMAIN q, SubSeq(p, 1, i - 1) = SubSeq(q, 1, i - 1), p[i] < q[i]
      PROVE  Before(p, q)
  <2>1. PICK k \in Nat : k = i - 1
    BY <1>1
  <2>2. k < Len(p) /\ k < Len(q) /\ i = k + 1
    BY <1>1, <2>1
  <2>3. \A j \in 1 .. k : p[j] = q[j]
    BY <1>1, <1>2, <1>4, <2>1, <2>2
  <2>4. k <= Len(p) /\ p[k + 1] < q[k + 1]
    BY <1>1, <1>4, <2>2
  <2>5. QED
    BY <2>2, <2>3, <2>4 DEF Before
<1>5. ASSUME Before(p, q) PROVE Precedes(p, q)
  <2>1. PICK k \in 0 .. Len(q) :
          /\ k <= Len(p) /\ k < Len(q) /\ \A j \in 1 .. k : p[j] = q[j]
          /\ k < Len(p) => p[k + 1] < q[k + 1]
    BY <1>5 DEF Before
  <2>2. CASE k < Len(p)
    <3>1. PICK i \in Nat : i = k + 1 /\ i - 1 = k
      OBVIOUS
    <3>2. i \in 1 .. Len(p) /\ i \in 1 .. Len(q) /\ i - 1 = k
      BY <1>1, <2>1, <2>2, <3>1
    <3>3. SubSeq(p, 1, i - 1) = SubSeq(q, 1, i - 1)
      BY <1>1, <1>2, <2>1, <3>2
    <3>4. p[i] < q[i]
      BY <2>1, <2>2, <3>1
    <3>5. QED
      BY <1>1, <3>2, <3>3, <3>4 DEF Precedes
  <2>3. CASE k = Len(p)
    <3>1. SubSeq(q, 1, Len(p)) = [j \in 1 .. Len(p) |-> q[j]]
      BY <1>1, <2>1, <2>3, Beginning
    <3>2. p = SubSeq(q, 1, Len(p))
      BY <1>1, <2>1, <2>3, <3>1
    <3>3. QED
      BY <2>1, <2>3, <3>2 DEF Precedes
  <2>4. QED
    BY <1>1, <2>1, <2>2, <2>3
<1>6. QED
  BY <1>3, <1>4, <1>5 DEF Precedes

\* It is transitive.
LEMMA BeforeTrans ==
  ASSUME NEW p \in Seq(Int), NEW q \in Seq(Int), NEW r \in Seq(Int), Before(p, q), Before(q, r)
  PROVE  Before(p, r)
<1>1. /\ Len(p) \in Nat /\ Len(q) \in Nat /\ Len(r) \in Nat
      /\ \A j \in 1 .. Len(p) : p[j] \in Int
      /\ \A j \in 1 .. Len(q) : q[j] \in Int
      /\ \A j \in 1 .. Len(r) : r[j] \in Int
  BY SequenceOfNumbers
<1>2. PICK i \in 0 .. Len(q) :
        /\ i <= Len(p) /\ i < Len(q) /\ \A j \in 1 .. i : p[j] = q[j]
        /\ i < Len(p) => p[i + 1] < q[i + 1]
  BY DEF Before
<1>3. PICK k \in 0 .. Len(r) :
        /\ k <= Len(q) /\ k < Len(r) /\ \A j \in 1 .. k : q[j] = r[j]
        /\ k < Len(q) => q[k + 1] < r[k + 1]
  BY DEF Before
<1>4. CASE i < k
  <2>1. i \in 0 .. Len(r) /\ i < Len(r) /\ q[i + 1] = r[i + 1]
    BY <1>1, <1>2, <1>3, <1>4
  <2>2. \A j \in 1 .. i : p[j] = r[j]
    BY <1>1, <1>2, <1>3, <1>4
  <2>3. QED
    BY <1>2, <2>1, <2>2 DEF Before
<1>5. CASE i = k
  <2>1. i \in 0 .. Len(r) /\ i < Len(r) /\ q[i + 1] < r[i + 1] /\ \A j \in 1 .. i : p[j] = r[j]
    BY <1>1, <1>2, <1>3, <1>5
  <2>2. ASSUME i < Len(p) PROVE p[i + 1] < r[i + 1]
    <3>1. i + 1 \in 1 .. Len(p) /\ i + 1 \in 1 .. Len(q) /\ i + 1 \in 1 .. Len(r)
      BY <1>1, <1>2, <2>1, <2>2
    <3>2. p[i + 1] \in Int /\ q[i + 1] \in Int /\ r[i + 1] \in Int /\ p[i + 1] < q[i + 1]
      BY <1>1, <1>2, <2>2, <3>1
    <3>3. QED
      BY <2>1, <3>2
  <2>3. QED
    BY <1>2, <2>1, <2>2 DEF Before
<1>6. CASE i > k
  <2>1. k + 1 \in 1 .. i /\ k < Len(q) /\ k < Len(p)
    BY <1>1, <1>2, <1>3, <1>6
  <2>2. p[k + 1] < r[k + 1] /\ \A j \in 1 .. k : p[j] = r[j]
    BY <1>1, <1>2, <1>3, <1>6, <2>1
  <2>3. k <= Len(p) /\ k < Len(r)
    BY <1>1, <1>3, <2>1
  <2>4. QED
    BY <2>2, <2>3 DEF Before
<1>7. QED
  BY <1>1, <1>2, <1>3, <1>4, <1>5, <1>6

\* It is total.
LEMMA BeforeTotal ==
  ASSUME NEW p \in Seq(Int), NEW q \in Seq(Int)
  PROVE  p = q \/ Before(p, q) \/ Before(q, p)
<1>1. /\ Len(p) \in Nat /\ Len(q) \in Nat
      /\ p = [j \in 1 .. Len(p) |-> p[j]] /\ q = [j \in 1 .. Len(q) |-> q[j]]
      /\ \A j \in 1 .. Len(p) : p[j] \in Int
      /\ \A j \in 1 .. Len(q) : q[j] \in Int
  BY SequenceOfNumbers
<1> DEFINE D == {k \in Nat : k >= Len(p) \/ k >= Len(q) \/ p[k + 1] # q[k + 1]}
           k == Min(D)
<1>2. D \in SUBSET Nat /\ Len(p) \in D
  BY <1>1
<1>3. k \in D /\ \A j \in D : k <= j
  <2> HIDE DEF D
  <2>1. QED
    BY <1>2, MinOfSet
<1> HIDE DEF k
<1>4. k \in Nat
  BY <1>3
<1>5. ASSUME NEW j \in 1 .. k PROVE j <= Len(p) /\ j <= Len(q) /\ p[j] = q[j]
  <2>1. PICK i \in Nat : j = i + 1 /\ i < k
    <3>1. j - 1 \in Nat /\ j = (j - 1) + 1 /\ j - 1 < k
      BY <1>4
    <3>2. QED
      BY <3>1
  <2>2. ~(k <= i)
    BY <1>4, <2>1
  <2>3. i \notin D
    BY <1>3, <2>2
  <2>4. QED
    BY <1>1, <2>1, <2>3
<1>6. k <= Len(p) /\ k <= Len(q)
  BY <1>1, <1>4, <1>5
<1>7. CASE k = Len(p) /\ k = Len(q)
  BY <1>1, <1>5, <1>7
<1>8. CASE k = Len(p) /\ k < Len(q)
  BY <1>1, <1>4, <1>5, <1>8 DEF Before
<1>9. CASE k < Len(p) /\ k = Len(q)
  BY <1>1, <1>4, <1>5, <1>9 DEF Before
<1>10. CASE k < Len(p) /\ k < Len(q)
  <2>1. p[k + 1] # q[k + 1] /\ p[k + 1] \in Int /\ q[k + 1] \in Int
    BY <1>1, <1>3, <1>4, <1>10
  <2>2. p[k + 1] < q[k + 1] \/ q[k + 1] < p[k + 1]
    BY <2>1
  <2>3. QED
    BY <1>4, <1>5, <1>6, <1>10, <2>2 DEF Before
<1>11. QED
  BY <1>1, <1>4, <1>6, <1>7, <1>8, <1>9, <1>10

\* It is strict.
LEMMA BeforeItself ==
  ASSUME NEW p \in Seq(Int) PROVE ~Before(p, p)
<1>1. Len(p) \in Nat /\ \A j \in 1 .. Len(p) : p[j] \in Int
  BY SequenceOfNumbers
<1>2. QED
  BY <1>1 DEF Before

---------------------------------------------------------------------------
(* The time a payload takes on a path. *)

\* On every link it takes some.
Timely == \A l \in Links : EdgeTime(l) \in Nat /\ EdgeTime(l) > 0

\* The times after each link of a path.
SumsUp(f, p) == f[0] = 0 /\ \A i \in 1 .. Len(p) : f[i] = f[i - 1] + EdgeTime(p[i])

\* There are such times.
LEMMA SumExists ==
  ASSUME Timely, NEW p \in Seq(Links)
  PROVE  \E f \in [0 .. Len(p) -> Nat] : SumsUp(f, p)
<1> DEFINE n == Len(p)
           Upto(f, k) == f \in [0 .. k -> Nat] /\ f[0] = 0 /\ \A i \in 1 .. k : f[i] = f[i - 1] + EdgeTime(p[i])
           bad == {k \in 0 .. n : ~\E f : Upto(f, k)}
           k == Min(bad)
<1>1. n \in Nat /\ \A i \in 1 .. n : p[i] \in Links
  OBVIOUS
<1>2. SUFFICES ASSUME bad # {} PROVE FALSE
  <2>1. n \in 0 .. n
    BY <1>1
  <2>2. ASSUME bad = {} PROVE \E f : Upto(f, n)
    BY <2>1, <2>2
  <2>3. QED
    BY <2>2 DEF SumsUp
<1>3. k \in bad /\ \A j \in bad : k <= j
  <2>1. bad \in SUBSET Nat
    BY <1>1
  <2> HIDE DEF bad
  <2>2. QED
    BY <1>2, <2>1, MinOfSet
<1> HIDE DEF k, n
<1>4. k \in 0 .. n /\ k \in Nat /\ ~\E f : Upto(f, k)
  BY <1>1, <1>3
<1>5. CASE k = 0
  <2>1. Upto([i \in 0 .. 0 |-> 0], 0)
    OBVIOUS
  <2>2. QED
    BY <1>4, <1>5, <2>1
<1>6. CASE k # 0
  <2>1. k - 1 \in 0 .. n /\ ~(k <= k - 1) /\ k \in 1 .. n
    BY <1>1, <1>4, <1>6
  <2>2. PICK f : Upto(f, k - 1)
    BY <1>3, <2>1
  <2>3. EdgeTime(p[k]) \in Nat /\ f[k - 1] \in Nat
    BY <1>1, <1>4, <1>6, <2>1, <2>2 DEF Timely
  <2> DEFINE g == [i \in 0 .. k |-> IF i = k THEN f[k - 1] + EdgeTime(p[k]) ELSE f[i]]
  <2>4. g \in [0 .. k -> Nat]
    BY <1>4, <2>2, <2>3
  <2>5. g[0] = 0
    BY <1>4, <1>6, <2>2
  <2>6. ASSUME NEW i \in 1 .. k PROVE g[i] = g[i - 1] + EdgeTime(p[i])
    <3>1. i - 1 \in 0 .. k - 1 /\ i - 1 \in 0 .. k /\ i - 1 # k
      BY <1>4
    <3>2. g[i - 1] = f[i - 1]
      BY <3>1
    <3>3. CASE i = k
      BY <3>2, <3>3
    <3>4. CASE i # k
      <4>1. i \in 1 .. k - 1 /\ g[i] = f[i]
        BY <1>4, <3>4
      <4>2. QED
        BY <2>2, <3>2, <4>1
    <3>5. QED
      BY <3>3, <3>4
  <2> HIDE DEF g
  <2>7. Upto(g, k)
    BY <2>4, <2>5, <2>6
  <2>8. QED
    BY <1>4, <2>7
<1>7. QED
  BY <1>5, <1>6

\* And they are those of the path.
LEMMA PathTimeIs ==
  ASSUME Timely, NEW p \in Seq(Links), NEW f, SumsUp(f, p)
  PROVE  PathTime(p) = f[Len(p)]
<1> DEFINE n == Len(p)
           Steps(g) == g = [i \in 0 .. n |-> IF i = 0 THEN 0 ELSE g[i - 1] + EdgeTime(p[i])]
           step == CHOOSE g : Steps(g)
           h == [i \in 0 .. n |-> f[i]]
<1>1. n \in Nat
  OBVIOUS
<1>2. PathTime(p) = step[n]
  BY DEF PathTime
<1>3. ASSUME NEW i \in 0 .. n PROVE h[i] = IF i = 0 THEN 0 ELSE h[i - 1] + EdgeTime(p[i])
  <2>1. CASE i = 0
    BY <2>1 DEF SumsUp
  <2>2. CASE i # 0
    <3>1. i \in 1 .. n /\ i - 1 \in 0 .. n
      BY <1>1, <2>2
    <3>2. h[i - 1] = f[i - 1] /\ h[i] = f[i]
      BY <3>1
    <3>3. QED
      BY <2>2, <3>1, <3>2 DEF SumsUp
  <2>3. QED
    BY <2>1, <2>2
<1>4. Steps(h)
  <2>1. h = [i \in 0 .. n |-> h[i]]
    OBVIOUS
  <2> HIDE DEF h
  <2>2. QED
    BY <1>3, <2>1
<1>5. Steps(step)
  <2> HIDE DEF h, Steps
  <2>1. QED
    BY <1>4
<1> HIDE DEF step, n
<1> DEFINE bad == {i \in 0 .. n : step[i] # f[i]}
           k == Min(bad)
<1>6. SUFFICES ASSUME bad # {} PROVE FALSE
  <2>1. n \in 0 .. n
    BY <1>1
  <2>2. QED
    BY <1>2, <1>6, <2>1 DEF n
<1>7. k \in bad /\ \A j \in bad : k <= j
  <2>1. bad \in SUBSET Nat
    BY <1>1
  <2> HIDE DEF bad
  <2>2. QED
    BY <1>6, <2>1, MinOfSet
<1> HIDE DEF k
<1>8. k \in 0 .. n /\ k \in Nat /\ step[k] # f[k]
  BY <1>1, <1>7
<1>9. CASE k = 0
  BY <1>5, <1>8, <1>9 DEF SumsUp
<1>10. CASE k # 0
  <2>1. k - 1 \in 0 .. n /\ ~(k <= k - 1) /\ k \in 1 .. n
    BY <1>1, <1>8, <1>10
  <2>2. step[k - 1] = f[k - 1]
    BY <1>7, <2>1
  <2>3. step[k] = step[k - 1] + EdgeTime(p[k])
    BY <1>5, <1>8, <1>10
  <2>4. f[k] = f[k - 1] + EdgeTime(p[k])
    BY <2>1 DEF SumsUp, n
  <2>5. QED
    BY <1>8, <2>2, <2>3, <2>4
<1>11. QED
  BY <1>9, <1>10

\* A link more adds its time.
LEMMA PathTimes ==
  ASSUME Timely
  PROVE  /\ PathTime(<<>>) = 0
         /\ \A p \in Seq(Links) : PathTime(p) \in Nat
         /\ \A p \in Seq(Links), l \in Links : PathTime(Append(p, l)) = PathTime(p) + EdgeTime(l)
<1>1. PathTime(<<>>) = 0
  <2>1. <<>> \in Seq(Links) /\ Len(<<>>) = 0
    OBVIOUS
  <2>2. PICK f : SumsUp(f, <<>>)
    BY <2>1, SumExists
  <2>3. PathTime(<<>>) = f[0]
    BY <2>1, <2>2, PathTimeIs
  <2>4. QED
    BY <2>2, <2>3 DEF SumsUp
<1>2. ASSUME NEW p \in Seq(Links) PROVE PathTime(p) \in Nat
  <2>1. PICK f \in [0 .. Len(p) -> Nat] : SumsUp(f, p)
    BY SumExists
  <2>2. Len(p) \in 0 .. Len(p)
    OBVIOUS
  <2>3. f[Len(p)] \in Nat
    BY <2>1, <2>2
  <2>4. QED
    BY <2>1, <2>3, PathTimeIs
<1>3. ASSUME NEW p \in Seq(Links), NEW l \in Links
      PROVE  PathTime(Append(p, l)) = PathTime(p) + EdgeTime(l)
  <2> DEFINE q == Append(p, l)
             n == Len(p)
  <2>1. /\ n \in Nat /\ q \in Seq(Links) /\ Len(q) = n + 1 /\ q[n + 1] = l
        /\ \A i \in 1 .. n : q[i] = p[i]
    OBVIOUS
  <2>2. PICK f : SumsUp(f, q)
    BY <2>1, SumExists
  <2>3. PathTime(q) = f[n + 1]
    BY <2>1, <2>2, PathTimeIs
  <2> HIDE DEF q
  <2>4. SumsUp(f, p)
    <3>1. \A i \in 1 .. n : i \in 1 .. Len(q)
      BY <2>1
    <3>2. QED
      BY <2>1, <2>2, <3>1 DEF SumsUp
  <2>5. PathTime(p) = f[n]
    BY <2>4, PathTimeIs
  <2>6. n + 1 \in 1 .. Len(q) /\ (n + 1) - 1 = n
    BY <2>1
  <2>7. f[n + 1] = f[n] + EdgeTime(l)
    BY <2>1, <2>2, <2>6 DEF SumsUp
  <2>8. QED
    BY <2>3, <2>5, <2>7 DEF q
<1>4. QED
  BY <1>1, <1>2, <1>3

---------------------------------------------------------------------------
(* Which of two paths is better. *)

\* One path takes less time, or as much and is before the other.
Cheaper(p, q) ==
  PathTime(p) < PathTime(q) \/ (PathTime(p) = PathTime(q) /\ Before(p, q))

Cheap(p, q) == p = q \/ Cheaper(p, q)

\* Links are numbers, so paths are tuples of them.
LEMMA PathsAreNumbers ==
  ASSUME NEW p \in Seq(Links)
  PROVE  p \in Seq(Nat) /\ p \in Seq(Int) /\ Len(p) \in Nat /\ p = [i \in 1 .. Len(p) |-> p[i]]
<1>1. Len(p) \in Nat /\ p = [i \in 1 .. Len(p) |-> p[i]] /\ \A i \in 1 .. Len(p) : p[i] \in Links
  OBVIOUS
<1>2. \A i \in 1 .. Len(p) : p[i] \in Nat
  BY <1>1, NetworkAssumption
<1>3. QED
  BY <1>1, <1>2

\* A path and a link more.
LEMMA Appended ==
  ASSUME NEW p \in Seq(Links), NEW l \in Links
  PROVE  LET q == Append(p, l)
         IN /\ q \in Seq(Links) /\ Len(p) \in Nat /\ Len(q) = Len(p) + 1 /\ q[Len(p) + 1] = l
            /\ \A i \in 1 .. Len(p) : q[i] = p[i]
            /\ q # <<>> /\ q # p
<1> DEFINE q == Append(p, l)
<1>1. q \in Seq(Links) /\ Len(p) \in Nat /\ Len(q) = Len(p) + 1 /\ q[Len(p) + 1] = l
  OBVIOUS
<1>2. \A i \in 1 .. Len(p) : q[i] = p[i]
  OBVIOUS
<1> HIDE DEF q
<1>3. q # <<>> /\ q # p
  BY <1>1
<1>4. QED
  BY <1>1, <1>2, <1>3 DEF q

\* Every path but the empty one is one with a link more.
LEMMA LastLink ==
  ASSUME NEW p \in Seq(Links), p # <<>>
  PROVE  \E q \in Seq(Links), l \in Links : p = Append(q, l) /\ Len(q) < Len(p)
<1> DEFINE q == [i \in 1 .. Len(p) - 1 |-> p[i]]
           l == p[Len(p)]
<1>1. Len(p) \in Nat /\ Len(p) > 0 /\ \A i \in 1 .. Len(p) : p[i] \in Links
  OBVIOUS
<1>2. q \in Seq(Links) /\ Len(q) = Len(p) - 1 /\ l \in Links
  BY <1>1
<1>3. p = Append(q, l)
  <2>1. /\ Append(q, l) \in Seq(Links) /\ Len(Append(q, l)) = Len(p) /\ Append(q, l)[Len(p)] = l
        /\ \A i \in 1 .. Len(p) - 1 : Append(q, l)[i] = p[i]
    BY <1>1, <1>2
  <2>2. \A i \in 1 .. Len(p) : Append(q, l)[i] = p[i]
    BY <1>1, <2>1
  <2> HIDE DEF q, l
  <2>3. QED
    BY <2>1, <2>2
<1>4. Len(q) < Len(p)
  BY <1>1, <1>2
<1> HIDE DEF q, l
<1>5. QED
  BY <1>2, <1>3, <1>4

\* What holds of the empty path, and with any path of it with a link more, holds of all.
LEMMA PathInduction ==
  ASSUME NEW G, <<>> \in G,
         \A p \in Seq(Links), l \in Links : p \in G => Append(p, l) \in G
  PROVE  Seq(Links) \subseteq G
<1> DEFINE T == {p \in Seq(Links) : p \notin G}
           level == [p \in T |-> Len(p)]
<1>1. SUFFICES ASSUME T # {} PROVE FALSE
  OBVIOUS
<1>2. \A p \in T : level[p] \in Nat /\ level[p] = Len(p)
  OBVIOUS
<1>3. PICK p \in T : \A q \in T : ~(level[q] < level[p])
  <2> HIDE DEF T, level
  <2>1. QED
    BY <1>1, <1>2, MinimalLevel
<1>4. PICK q \in Seq(Links), l \in Links : p = Append(q, l) /\ Len(q) < Len(p)
  BY <1>3, LastLink
<1>5. q \notin T
  BY <1>2, <1>3, <1>4
<1>6. QED
  BY <1>3, <1>4, <1>5

\* The beginning of a path takes less time than the path.
LEMMA PrefixFaster ==
  ASSUME Timely, NEW q \in Seq(Links), NEW p \in Seq(Links), Len(p) < Len(q),
         \A j \in 1 .. Len(p) : p[j] = q[j]
  PROVE  PathTime(p) < PathTime(q)
<1> DEFINE Begins(a, b) == Len(a) < Len(b) /\ \A j \in 1 .. Len(a) : a[j] = b[j]
           G == {b \in Seq(Links) : \A a \in Seq(Links) : Begins(a, b) => PathTime(a) < PathTime(b)}
<1>1. <<>> \in G
  <2>1. \A a \in Seq(Links) : Len(a) \in Nat /\ ~(Len(a) < Len(<<>>))
    OBVIOUS
  <2>2. QED
    BY <2>1
<1>2. ASSUME NEW b \in Seq(Links), NEW l \in Links, b \in G
      PROVE  Append(b, l) \in G
  <2> DEFINE c == Append(b, l)
  <2>1. /\ c \in Seq(Links) /\ Len(b) \in Nat /\ Len(c) = Len(b) + 1
        /\ \A i \in 1 .. Len(b) : c[i] = b[i]
    BY Appended
  <2>2. PathTime(b) \in Nat /\ PathTime(b) < PathTime(c) /\ PathTime(c) \in Nat
    <3>1. PathTime(b) \in Nat /\ PathTime(c) = PathTime(b) + EdgeTime(l)
      BY PathTimes
    <3>2. EdgeTime(l) \in Nat /\ EdgeTime(l) > 0
      BY DEF Timely
    <3>3. QED
      BY <3>1, <3>2
  <2> HIDE DEF c
  <2>3. ASSUME NEW a \in Seq(Links), Begins(a, c) PROVE PathTime(a) < PathTime(c)
    <3>1. Len(a) \in Nat /\ Len(a) <= Len(b)
      BY <2>1, <2>3
    <3>2. ASSUME NEW j \in 1 .. Len(a) PROVE a[j] = b[j]
      <4>1. a[j] = c[j]
        BY <2>3
      <4>2. j \in 1 .. Len(b)
        BY <2>1, <3>1
      <4>3. QED
        BY <2>1, <4>1, <4>2
    <3>3. CASE Len(a) = Len(b)
      <4>1. a = b
        BY <3>2, <3>3, PathsAreNumbers
      <4>2. QED
        BY <2>2, <4>1
    <3>4. CASE Len(a) < Len(b)
      <4>1. PathTime(a) < PathTime(b)
        BY <1>2, <3>2, <3>4
      <4>2. PathTime(a) \in Nat
        BY PathTimes
      <4>3. QED
        BY <2>2, <4>1, <4>2
    <3>5. QED
      BY <2>1, <3>1, <3>3, <3>4
  <2>4. QED
    BY <2>1, <2>3 DEF c
<1>3. q \in G
  <2> HIDE DEF G
  <2>1. QED
    BY <1>1, <1>2, PathInduction
<1>4. QED
  BY <1>3

\* It is transitive.
LEMMA CheapTrans ==
  ASSUME Timely, NEW p \in Seq(Links), NEW q \in Seq(Links), NEW r \in Seq(Links),
         Cheap(p, q), Cheap(q, r)
  PROVE  Cheap(p, r)
<1>1. PathTime(p) \in Nat /\ PathTime(q) \in Nat /\ PathTime(r) \in Nat
  BY PathTimes
<1>2. Before(p, q) /\ Before(q, r) => Before(p, r)
  BY PathsAreNumbers, BeforeTrans
<1>3. QED
  BY <1>1, <1>2 DEF Cheap, Cheaper

\* It is total.
LEMMA CheapTotal ==
  ASSUME Timely, NEW p \in Seq(Links), NEW q \in Seq(Links)
  PROVE  /\ Cheap(p, q) \/ Cheaper(q, p)
         /\ Cheap(p, q) => ~Cheaper(q, p)
<1>1. PathTime(p) \in Nat /\ PathTime(q) \in Nat
  BY PathTimes
<1>2. p = q \/ Before(p, q) \/ Before(q, p)
  BY PathsAreNumbers, BeforeTotal
<1>3. ~Before(p, p)
  BY PathsAreNumbers, BeforeItself
<1>4. Before(p, q) /\ Before(q, p) => Before(p, p)
  BY PathsAreNumbers, BeforeTrans
<1>5. QED
  BY <1>1, <1>2, <1>3, <1>4 DEF Cheap, Cheaper

\* A link more does not change which of two paths is better.
LEMMA CheapAppend ==
  ASSUME Timely, NEW p \in Seq(Links), NEW q \in Seq(Links), NEW l \in Links, Cheap(p, q)
  PROVE  Cheap(Append(p, l), Append(q, l))
<1> DEFINE a == Append(p, l)
           b == Append(q, l)
<1>1. /\ PathTime(p) \in Nat /\ PathTime(q) \in Nat /\ EdgeTime(l) \in Nat
      /\ PathTime(a) = PathTime(p) + EdgeTime(l) /\ PathTime(b) = PathTime(q) + EdgeTime(l)
  BY PathTimes DEF Timely
<1>2. /\ Len(p) \in Nat /\ Len(a) = Len(p) + 1 /\ \A i \in 1 .. Len(p) : a[i] = p[i]
      /\ Len(q) \in Nat /\ Len(b) = Len(q) + 1 /\ \A i \in 1 .. Len(q) : b[i] = q[i]
  BY Appended
<1>3. ASSUME PathTime(p) = PathTime(q), Before(p, q) PROVE Before(a, b)
  <2>1. PICK k \in 0 .. Len(q) :
          /\ k <= Len(p) /\ k < Len(q) /\ \A j \in 1 .. k : p[j] = q[j]
          /\ k < Len(p) => p[k + 1] < q[k + 1]
    BY <1>3 DEF Before
  <2>2. k # Len(p)
    <3>1. SUFFICES ASSUME k = Len(p) PROVE FALSE
      OBVIOUS
    <3>2. PathTime(p) < PathTime(q)
      BY <2>1, <3>1, PrefixFaster
    <3>3. QED
      BY <1>1, <1>3, <3>2
  <2>3. k < Len(p) /\ k <= Len(a) /\ k < Len(b) /\ k + 1 \in 1 .. Len(p) /\ k + 1 \in 1 .. Len(q)
    BY <1>2, <2>1, <2>2
  <2> HIDE DEF a, b
  <2>4. \A j \in 1 .. k : a[j] = b[j]
    BY <1>2, <2>1, <2>3
  <2>5. a[k + 1] < b[k + 1]
    BY <1>2, <2>1, <2>3
  <2>6. QED
    BY <2>3, <2>4, <2>5 DEF Before
<1> HIDE DEF a, b
<1>4. p = q => a = b
  BY DEF a, b
<1>5. QED
  BY <1>1, <1>3, <1>4 DEF Cheap, Cheaper, a, b

---------------------------------------------------------------------------
(* Walks. *)

\* Where a walk ends.
End(p) == IF p = <<>> THEN request.source ELSE To[p[Len(p)]]

\* A walk goes from the source over links of L, each where the one before has led.
Walk(p, L) ==
  /\ p \in Seq(Links)
  /\ \A i \in 1 .. Len(p) : p[i] \in L
  /\ p # <<>> => From[p[1]] = request.source
  /\ \A i \in 1 .. Len(p) - 1 : To[p[i]] = From[p[i + 1]]

\* It returns to no node.
Straight(p) ==
  /\ \A i, j \in 1 .. Len(p) : To[p[i]] = To[p[j]] => i = j
  /\ \A i \in 1 .. Len(p) : To[p[i]] # request.source

\* How a walk goes on.
LEMMA Walks ==
  ASSUME NEW L
  PROVE  /\ Walk(<<>>, L)
         /\ \A p \in Seq(Links), l \in Links :
              /\ End(Append(p, l)) = To[l]
              /\ Walk(Append(p, l), L) <=> Walk(p, L) /\ l \in L /\ From[l] = End(p)
<1>1. Walk(<<>>, L)
  BY DEF Walk
<1>2. ASSUME NEW p \in Seq(Links), NEW l \in Links
      PROVE  /\ End(Append(p, l)) = To[l]
             /\ Walk(Append(p, l), L) <=> Walk(p, L) /\ l \in L /\ From[l] = End(p)
  <2> DEFINE q == Append(p, l)
  <2>1. /\ q \in Seq(Links) /\ Len(p) \in Nat /\ Len(q) = Len(p) + 1 /\ q[Len(p) + 1] = l
        /\ \A i \in 1 .. Len(p) : q[i] = p[i]
        /\ q # <<>>
    BY Appended
  <2> HIDE DEF q
  <2>2. End(q) = To[l]
    BY <2>1 DEF End
  <2>3. (\A i \in 1 .. Len(q) : q[i] \in L) <=> (\A i \in 1 .. Len(p) : p[i] \in L) /\ l \in L
    BY <2>1
  <2>4. CASE p = <<>>
    <3>1. Len(p) = 0 /\ Len(q) = 1 /\ q[1] = l
      BY <2>1, <2>4
    <3>2. End(p) = request.source
      BY <2>4 DEF End
    <3>3. Walk(p, L)
      BY <1>1, <2>4
    <3>4. 1 .. Len(q) - 1 = {}
      BY <3>1
    <3>5. Walk(q, L) <=> l \in L /\ From[l] = request.source
      BY <2>1, <2>3, <3>1, <3>3, <3>4 DEF Walk
    <3>6. QED
      BY <2>2, <3>2, <3>3, <3>5 DEF q
  <2>5. CASE p # <<>>
    <3>1. Len(p) >= 1 /\ q[1] = p[1]
      BY <2>1, <2>5
    <3>2. End(p) = To[p[Len(p)]]
      BY <2>5 DEF End
    <3>3. (\A i \in 1 .. Len(q) - 1 : To[q[i]] = From[q[i + 1]])
            <=> (\A i \in 1 .. Len(p) - 1 : To[p[i]] = From[p[i + 1]]) /\ To[p[Len(p)]] = From[l]
      <4>1. ASSUME \A i \in 1 .. Len(q) - 1 : To[q[i]] = From[q[i + 1]]
            PROVE  (\A i \in 1 .. Len(p) - 1 : To[p[i]] = From[p[i + 1]]) /\ To[p[Len(p)]] = From[l]
        <5>1. ASSUME NEW i \in 1 .. Len(p) - 1 PROVE To[p[i]] = From[p[i + 1]]
          <6>1. i \in 1 .. Len(q) - 1 /\ i \in 1 .. Len(p) /\ i + 1 \in 1 .. Len(p)
            BY <2>1
          <6>2. q[i] = p[i] /\ q[i + 1] = p[i + 1]
            BY <2>1, <6>1
          <6>3. QED
            BY <4>1, <6>1, <6>2
        <5>2. Len(p) \in 1 .. Len(q) - 1 /\ Len(p) \in 1 .. Len(p)
          BY <2>1, <3>1
        <5>3. To[q[Len(p)]] = From[q[Len(p) + 1]]
          BY <4>1, <5>2
        <5>4. QED
          BY <2>1, <5>1, <5>2, <5>3
      <4>2. ASSUME \A i \in 1 .. Len(p) - 1 : To[p[i]] = From[p[i + 1]], To[p[Len(p)]] = From[l],
                   NEW i \in 1 .. Len(q) - 1
            PROVE  To[q[i]] = From[q[i + 1]]
        <5>1. i \in 1 .. Len(p) /\ q[i] = p[i]
          BY <2>1
        <5>2. CASE i = Len(p)
          BY <2>1, <4>2, <5>1, <5>2
        <5>3. CASE i # Len(p)
          <6>1. i \in 1 .. Len(p) - 1 /\ i + 1 \in 1 .. Len(p)
            BY <2>1, <5>1, <5>3
          <6>2. q[i + 1] = p[i + 1]
            BY <2>1, <6>1
          <6>3. QED
            BY <4>2, <5>1, <6>1, <6>2
        <5>4. QED
          BY <5>2, <5>3
      <4>3. QED
        BY <4>1, <4>2
    <3>4. Walk(q, L) <=> Walk(p, L) /\ l \in L /\ From[l] = End(p)
      BY <2>1, <2>3, <2>5, <3>1, <3>2, <3>3 DEF Walk
    <3>5. QED
      BY <2>2, <3>4 DEF q
  <2>6. QED
    BY <2>4, <2>5
<1>3. QED
  BY <1>1, <1>2

\* Numbers up to n, one after the other.
LEMMA InductionUpTo ==
  ASSUME NEW n \in Nat, NEW G, 0 \in G, \A k \in 1 .. n : k - 1 \in G => k \in G
  PROVE  0 .. n \subseteq G
<1> DEFINE bad == {k \in 0 .. n : k \notin G}
           k == Min(bad)
<1>1. SUFFICES ASSUME bad # {} PROVE FALSE
  OBVIOUS
<1>2. k \in bad /\ \A j \in bad : k <= j
  <2>1. bad \in SUBSET Nat
    OBVIOUS
  <2> HIDE DEF bad
  <2>2. QED
    BY <1>1, <2>1, MinOfSet
<1> HIDE DEF k
<1>3. k \in 0 .. n /\ k \in Nat /\ k \notin G /\ k # 0
  BY <1>2
<1>4. k - 1 \in 0 .. n /\ ~(k <= k - 1) /\ k \in 1 .. n
  BY <1>3
<1>5. k - 1 \in G
  BY <1>2, <1>4
<1>6. QED
  BY <1>3, <1>4, <1>5

\* The beginning of a walk is one.
LEMMA WalkBegins ==
  ASSUME NEW L, NEW p, Walk(p, L), NEW m \in 1 .. Len(p)
  PROVE  LET r == SubSeq(p, 1, m)
         IN /\ Walk(r, L) /\ End(r) = To[p[m]] /\ Len(r) = m
            /\ \A j \in 1 .. m : r[j] = p[j]
<1>1. p \in Seq(Links) /\ Len(p) \in Nat /\ p # <<>>
  BY DEF Walk
<1> DEFINE r == SubSeq(p, 1, m)
<1>2. r \in Seq(Links) /\ Len(r) = m /\ r = [j \in 1 .. m |-> p[j]]
  BY <1>1, Beginning
<1>3. m \in Nat /\ m <= Len(p)
  BY <1>1
<1> HIDE DEF r
<1>4. r # <<>> /\ r[1] = p[1] /\ r[m] = p[m]
  BY <1>2, <1>3
<1>5. \A i \in 1 .. m - 1 : To[r[i]] = From[r[i + 1]]
  <2>1. TAKE i \in 1 .. m - 1
  <2>2. i \in 1 .. Len(p) - 1 /\ i \in 1 .. m /\ i + 1 \in 1 .. m
    BY <1>1, <1>3
  <2>3. r[i] = p[i] /\ r[i + 1] = p[i + 1]
    BY <1>2, <2>2
  <2>4. QED
    BY <2>2, <2>3 DEF Walk
<1>6. \A i \in 1 .. Len(r) : r[i] \in L
  BY <1>1, <1>2, <1>3 DEF Walk
<1>7. From[r[1]] = request.source
  BY <1>1, <1>4 DEF Walk
<1>8. Walk(r, L)
  BY <1>2, <1>5, <1>6, <1>7 DEF Walk
<1>9. End(r) = To[p[m]]
  BY <1>2, <1>4 DEF End
<1>10. QED
  BY <1>2, <1>8, <1>9 DEF r

\* There is a shorter way than one that returns to a node.
LEMMA Straightened ==
  ASSUME Timely, NEW L, NEW p, Walk(p, L), ~Straight(p)
  PROVE  \E r : Walk(r, L) /\ End(r) = End(p) /\ PathTime(r) < PathTime(p)
<1> DEFINE Shorter(q) == \E r : Walk(r, L) /\ End(r) = End(q) /\ PathTime(r) < PathTime(q)
           G == {q \in Seq(Links) : Walk(q, L) /\ ~Straight(q) => Shorter(q)}
<1>1. <<>> \in G
  BY DEF Straight
<1>2. ASSUME NEW q \in Seq(Links), NEW l \in Links, q \in G, Walk(Append(q, l), L),
             ~Straight(Append(q, l))
      PROVE  Shorter(Append(q, l))
  <2> DEFINE c == Append(q, l)
  <2>1. /\ c \in Seq(Links) /\ Len(q) \in Nat /\ Len(c) = Len(q) + 1 /\ c[Len(q) + 1] = l
        /\ \A i \in 1 .. Len(q) : c[i] = q[i]
    BY Appended
  <2>2. Walk(q, L) /\ l \in L /\ From[l] = End(q) /\ End(c) = To[l]
    BY <1>2, Walks
  <2>3. CASE ~Straight(q)
    <3>1. PICK r : Walk(r, L) /\ End(r) = End(q) /\ PathTime(r) < PathTime(q)
      BY <1>2, <2>2, <2>3
    <3>2. r \in Seq(Links)
      BY <3>1 DEF Walk
    <3>3. Walk(Append(r, l), L) /\ End(Append(r, l)) = To[l]
      BY <2>2, <3>1, <3>2, Walks
    <3>4. PathTime(Append(r, l)) < PathTime(c)
      <4>1. /\ PathTime(Append(r, l)) = PathTime(r) + EdgeTime(l)
            /\ PathTime(c) = PathTime(q) + EdgeTime(l)
            /\ PathTime(r) \in Nat /\ PathTime(q) \in Nat /\ EdgeTime(l) \in Nat
        BY <3>2, PathTimes DEF Timely
      <4>2. QED
        BY <3>1, <4>1
    <3>5. QED
      BY <2>2, <3>3, <3>4
  <2>4. CASE Straight(q)
    <3> HIDE DEF c
    <3>1. To[l] = request.source \/ \E i \in 1 .. Len(q) : To[q[i]] = To[l]
      <4>1. SUFFICES ASSUME To[l] # request.source, \A i \in 1 .. Len(q) : To[q[i]] # To[l]
                     PROVE  Straight(c)
        BY <1>2 DEF c
      <4>2. ASSUME NEW i \in 1 .. Len(c) PROVE To[c[i]] # request.source
        <5>1. i \in 1 .. Len(q) \/ i = Len(q) + 1
          BY <2>1
        <5>2. QED
          BY <2>1, <2>4, <4>1, <5>1 DEF Straight
      <4>3. ASSUME NEW i \in 1 .. Len(c), NEW j \in 1 .. Len(c), To[c[i]] = To[c[j]] PROVE i = j
        <5>1. i \in 1 .. Len(q) \/ i = Len(q) + 1
          BY <2>1
        <5>2. j \in 1 .. Len(q) \/ j = Len(q) + 1
          BY <2>1
        <5>3. QED
          BY <2>1, <2>4, <4>1, <4>3, <5>1, <5>2 DEF Straight
      <4>4. QED
        BY <4>2, <4>3 DEF Straight
    <3>2. CASE To[l] = request.source
      <4>1. Walk(<<>>, L) /\ End(<<>>) = End(c)
        BY <2>2, <3>2, Walks DEF End
      <4>2. <<>> \in Seq(Links) /\ Len(<<>>) < Len(c) /\ \A j \in 1 .. Len(<<>>) : <<>>[j] = c[j]
        BY <2>1
      <4>3. PathTime(<<>>) < PathTime(c)
        BY <2>1, <4>2, PrefixFaster
      <4>4. QED
        BY <4>1, <4>3 DEF c
    <3>3. ASSUME NEW i \in 1 .. Len(q), To[q[i]] = To[l] PROVE Shorter(c)
      <4>1. PICK r : /\ Walk(r, L) /\ End(r) = To[q[i]] /\ Len(r) = i
                     /\ \A j \in 1 .. i : r[j] = q[j]
        <5>1. PICK r : r = SubSeq(q, 1, i)
          OBVIOUS
        <5>2. /\ Walk(r, L) /\ End(r) = To[q[i]] /\ Len(r) = i
              /\ \A j \in 1 .. i : r[j] = q[j]
          BY <2>2, <5>1, WalkBegins
        <5>3. QED
          BY <5>2
      <4>2. r \in Seq(Links) /\ Len(r) < Len(c) /\ \A j \in 1 .. Len(r) : r[j] = c[j]
        BY <2>1, <4>1 DEF Walk
      <4>3. PathTime(r) < PathTime(c)
        BY <2>1, <4>2, PrefixFaster
      <4>4. QED
        BY <2>2, <3>3, <4>1, <4>3
    <3>4. QED
      BY <3>1, <3>2, <3>3 DEF c
  <2>5. QED
    BY <2>3, <2>4
<1>3. p \in G
  <2>1. \A q \in Seq(Links), l \in Links : q \in G => Append(q, l) \in G
    BY <1>2
  <2>2. p \in Seq(Links)
    BY DEF Walk
  <2> HIDE DEF G
  <2>3. QED
    BY <1>1, <2>1, <2>2, PathInduction
<1>4. QED
  BY <1>3

\* A walk that returns to no node has less links than there are nodes.
LEMMA StraightIsShort ==
  ASSUME request.source \in Nodes, NEW p \in Seq(Links), Straight(p)
  PROVE  Cardinality(Nodes) \in Nat /\ Len(p) <= Cardinality(Nodes) - 1
<1> DEFINE n == Len(p)
           N == Nodes \ {request.source}
           f == [i \in 1 .. n |-> To[p[i]]]
<1>1. n \in Nat /\ \A i \in 1 .. n : p[i] \in Links
  OBVIOUS
<1>2. IsFiniteSet(Nodes) /\ Cardinality(Nodes) \in Nat
  BY NetworkAssumption, FS_CardinalityType
<1>3. IsFiniteSet(N) /\ Cardinality(N) = Cardinality(Nodes) - 1
  BY <1>2, FS_RemoveElement
<1>4. f \in [1 .. n -> N]
  BY <1>1, NetworkAssumption DEF Straight
<1>5. \A i, j \in 1 .. n : f[i] = f[j] => i = j
  BY DEF Straight
<1>6. f \in Injection(1 .. n, N)
  <2> HIDE DEF f, N, n
  <2>1. QED
    BY <1>4, <1>5 DEF Injection, IsInjective
<1>7. IsFiniteSet(1 .. n) /\ Cardinality(1 .. n) = n
  <2> HIDE DEF n
  <2>1. IsFiniteSet(1 .. n) /\ Cardinality(1 .. n) = IF 1 > n THEN 0 ELSE n - 1 + 1
    BY <1>1, FS_Interval
  <2>2. QED
    BY <1>1, <2>1
<1> HIDE DEF f, N, n
<1>8. Cardinality(1 .. n) <= Cardinality(N)
  BY <1>3, <1>6, FS_Injection
<1>9. QED
  BY <1>2, <1>3, <1>7, <1>8 DEF n

\* The paths of the reference are the walks to the target that return to no node.
LEMMA PathIsWalk ==
  ASSUME NEW L, NEW p \in Paths, \A i \in DOMAIN p : p[i] \in L
  PROVE  Walk(p, L) /\ End(p) = request.target /\ p \in Seq(Links) /\ DOMAIN p = 1 .. Len(p)
<1>1. PICK k \in 1 .. Cardinality(Nodes) - 1 : p \in [1 .. k -> Links]
  BY DEF Paths
<1>2. IsPath(p)
  BY DEF Paths
<1>3. Cardinality(Nodes) \in Nat
  BY NetworkAssumption, FS_CardinalityType
<1>4. k \in Nat /\ k >= 1
  BY <1>1, <1>3
<1>5. p \in Seq(Links) /\ Len(p) = k /\ DOMAIN p = 1 .. Len(p) /\ p # <<>>
  BY <1>1, <1>4
<1>6. QED
  BY <1>2, <1>5 DEF IsPath, Walk, End

\* And such a walk is a path.
LEMMA WalkIsPath ==
  ASSUME request.source \in Nodes, request.source # request.target,
         NEW L, NEW p, Walk(p, L), Straight(p), End(p) = request.target
  PROVE  p \in Paths /\ \A i \in DOMAIN p : p[i] \in L
<1>1. p \in Seq(Links) /\ Len(p) \in Nat /\ DOMAIN p = 1 .. Len(p) /\ p \in [1 .. Len(p) -> Links]
  BY DEF Walk
<1>2. p # <<>>
  BY DEF End
<1>3. Len(p) \in 1 .. Cardinality(Nodes) - 1
  <2>1. Cardinality(Nodes) \in Nat /\ Len(p) <= Cardinality(Nodes) - 1
    BY <1>1, StraightIsShort
  <2>2. Len(p) >= 1
    BY <1>1, <1>2
  <2>3. QED
    BY <1>1, <2>1, <2>2
<1>4. IsPath(p)
  BY <1>1, <1>2 DEF IsPath, Walk, End, Straight
<1>5. QED
  BY <1>1, <1>3, <1>4 DEF Paths, Walk

\* Where there is a walk there is a path.
LEMMA WalkGivesPath ==
  ASSUME Timely, request.source \in Nodes, request.source # request.target,
         NEW L, NEW w, Walk(w, L), End(w) = request.target
  PROVE  \E p \in Paths : \A i \in DOMAIN p : p[i] \in L
<1> DEFINE T == {p \in Seq(Links) : Walk(p, L) /\ End(p) = request.target}
           level == [p \in T |-> PathTime(p)]
<1>1. w \in T
  BY DEF Walk
<1>2. \A p \in T : level[p] \in Nat /\ level[p] = PathTime(p)
  BY PathTimes
<1>3. PICK p \in T : \A q \in T : ~(level[q] < level[p])
  <2> HIDE DEF T, level
  <2>1. QED
    BY <1>1, <1>2, MinimalLevel
<1>4. Straight(p)
  <2>1. SUFFICES ASSUME ~Straight(p) PROVE FALSE
    OBVIOUS
  <2>2. PICK r : Walk(r, L) /\ End(r) = End(p) /\ PathTime(r) < PathTime(p)
    BY <1>3, <2>1, Straightened
  <2>3. r \in T
    BY <1>3, <2>2 DEF Walk
  <2>4. QED
    BY <1>2, <1>3, <2>2, <2>3
<1>5. QED
  BY <1>3, <1>4, WalkIsPath

---------------------------------------------------------------------------
(* Reachable nodes. *)

AliveLinks == {l \in Links : Alive(l)}

\* The nodes that a walk over one link more reaches.
Spread(S) == S \cup {To[l] : l \in {m \in Links : Alive(m) /\ From[m] \in S}}

\* The nodes reached after every number of links.
LEMMA ReachableSteps ==
  ASSUME Cardinality(Nodes) \in Nat
  PROVE  \E f : /\ f[0] = {request.source} /\ Reachable = f[Cardinality(Nodes)]
                /\ \A k \in 1 .. Cardinality(Nodes) : f[k] = Spread(f[k - 1])
<1> DEFINE n == Cardinality(Nodes)
           Steps(f, m) == f = [k \in 0 .. m |-> IF k = 0 THEN {request.source} ELSE Spread(f[k - 1])]
           G == {m \in 0 .. n : \E f : Steps(f, m)}
           reach == CHOOSE f : Steps(f, n)
<1>1. Reachable = reach[n]
  BY DEF Reachable, Spread
<1> HIDE DEF n
<1>2. n \in Nat
  BY DEF n
<1>3. 0 \in G
  <2>1. Steps([k \in 0 .. 0 |-> {request.source}], 0)
    OBVIOUS
  <2> HIDE DEF Steps
  <2>2. QED
    BY <1>2, <2>1
<1>4. ASSUME NEW m \in 1 .. n, m - 1 \in G PROVE m \in G
  <2>1. PICK f : Steps(f, m - 1)
    BY <1>4
  <2> DEFINE g == [k \in 0 .. m |-> IF k = m THEN Spread(f[m - 1]) ELSE f[k]]
  <2>2. ASSUME NEW k \in 0 .. m PROVE g[k] = IF k = 0 THEN {request.source} ELSE Spread(g[k - 1])
    <3>1. CASE k = m
      <4>1. m - 1 \in 0 .. m /\ m - 1 # m /\ m # 0
        BY <1>2
      <4>2. g[m - 1] = f[m - 1] /\ g[m] = Spread(f[m - 1])
        BY <1>2, <4>1
      <4>3. QED
        BY <3>1, <4>1, <4>2
    <3>2. CASE k # m
      <4>1. k \in 0 .. m - 1 /\ g[k] = f[k]
        BY <1>2, <3>2
      <4>2. f[k] = IF k = 0 THEN {request.source} ELSE Spread(f[k - 1])
        BY <2>1, <4>1
      <4>3. CASE k = 0
        BY <4>1, <4>2, <4>3
      <4>4. CASE k # 0
        <5>1. k - 1 \in 0 .. m /\ k - 1 # m
          BY <1>2, <4>1, <4>4
        <5>2. g[k - 1] = f[k - 1]
          BY <5>1
        <5>3. QED
          BY <4>1, <4>2, <4>4, <5>2
      <4>5. QED
        BY <4>3, <4>4
    <3>3. QED
      BY <3>1, <3>2
  <2>3. Steps(g, m)
    <3>1. g = [k \in 0 .. m |-> g[k]]
      OBVIOUS
    <3> HIDE DEF g
    <3>2. QED
      BY <2>2, <3>1
  <2> HIDE DEF g, Steps
  <2>4. m \in 0 .. n
    BY <1>2
  <2>5. QED
    BY <2>3, <2>4
<1>5. n \in G
  <2>1. n \in 0 .. n
    BY <1>2
  <2> HIDE DEF G
  <2>2. 0 .. n \subseteq G
    BY <1>2, <1>3, <1>4, InductionUpTo
  <2>3. QED
    BY <2>1, <2>2
<1>6. Steps(reach, n)
  <2> HIDE DEF Steps
  <2>1. \E f : Steps(f, n)
    BY <1>5
  <2>2. QED
    BY <2>1
<1> HIDE DEF reach
<1>7. \A k \in 0 .. n : reach[k] = IF k = 0 THEN {request.source} ELSE Spread(reach[k - 1])
  BY <1>6
<1>8. reach[0] = {request.source} /\ \A k \in 1 .. n : reach[k] = Spread(reach[k - 1])
  BY <1>2, <1>7
<1>9. QED
  BY <1>1, <1>8 DEF n

\* It tells whether there is a walk over links that are alive.
LEMMA ReachableIsWalked ==
  ASSUME Timely, request.source \in Nodes, request.source # request.target
  PROVE  request.target \in Reachable <=>
           \E p \in Paths : \A i \in DOMAIN p : Alive(p[i])
<1> DEFINE n == Cardinality(Nodes)
<1>1. n \in Nat
  BY NetworkAssumption, FS_CardinalityType
<1>2. PICK f : /\ f[0] = {request.source} /\ Reachable = f[n]
               /\ \A k \in 1 .. n : f[k] = Spread(f[k - 1])
  BY <1>1, ReachableSteps
<1> HIDE DEF n
<1>3. ASSUME request.target \in Reachable PROVE \E p \in Paths : \A i \in DOMAIN p : Alive(p[i])
  <2> DEFINE Walked(x) == \E p : Walk(p, AliveLinks) /\ End(p) = x
             G == {k \in 0 .. n : \A x \in f[k] : Walked(x)}
  <2>1. 0 \in G
    <3>1. Walk(<<>>, AliveLinks) /\ End(<<>>) = request.source
      BY Walks DEF End
    <3>2. QED
      BY <1>1, <1>2, <3>1
  <2>2. ASSUME NEW k \in 1 .. n, k - 1 \in G PROVE k \in G
    <3>1. ASSUME NEW x \in f[k] PROVE Walked(x)
      <4>1. x \in Spread(f[k - 1])
        BY <1>2, <3>1
      <4>2. CASE x \in f[k - 1]
        BY <2>2, <4>2
      <4>3. CASE x \notin f[k - 1]
        <5>1. PICK l \in Links : Alive(l) /\ From[l] \in f[k - 1] /\ x = To[l]
          BY <4>1, <4>3 DEF Spread
        <5>2. PICK p : Walk(p, AliveLinks) /\ End(p) = From[l]
          BY <2>2, <5>1
        <5>3. p \in Seq(Links) /\ l \in AliveLinks
          BY <5>1, <5>2 DEF Walk, AliveLinks
        <5>4. Walk(Append(p, l), AliveLinks) /\ End(Append(p, l)) = x
          BY <5>1, <5>2, <5>3, Walks
        <5>5. QED
          BY <5>4
      <4>4. QED
        BY <4>2, <4>3
    <3> HIDE DEF Walked
    <3>2. k \in 0 .. n
      BY <1>1
    <3>3. QED
      BY <3>1, <3>2
  <2>3. n \in G
    <3>1. n \in 0 .. n
      BY <1>1
    <3> HIDE DEF G
    <3>2. 0 .. n \subseteq G
      BY <1>1, <2>1, <2>2, InductionUpTo
    <3>3. QED
      BY <3>1, <3>2
  <2>4. Walked(request.target)
    BY <1>2, <1>3, <2>3
  <2>5. \E p \in Paths : \A i \in DOMAIN p : p[i] \in AliveLinks
    BY <2>4, WalkGivesPath
  <2>6. QED
    BY <2>5 DEF AliveLinks
<1>4. ASSUME NEW p \in Paths, \A i \in DOMAIN p : Alive(p[i]) PROVE request.target \in Reachable
  <2>1. \A k \in 1 .. n : f[k - 1] \subseteq f[k]
    BY <1>2 DEF Spread
  <2>2. PICK m \in 0 .. n : request.target \in f[m]
    <3> DEFINE G == {q \in Seq(Links) : Walk(q, AliveLinks) /\ Len(q) <= n => End(q) \in f[Len(q)]}
    <3>1. <<>> \in G
      BY <1>2 DEF End
    <3>2. ASSUME NEW q \in Seq(Links), NEW l \in Links, q \in G PROVE Append(q, l) \in G
      <4>1. PICK c : c = Append(q, l)
        OBVIOUS
      <4>2. c \in Seq(Links) /\ Len(q) \in Nat /\ Len(c) = Len(q) + 1
        BY <4>1, Appended
      <4>3. SUFFICES ASSUME Walk(c, AliveLinks), Len(c) <= n PROVE End(c) \in f[Len(c)]
        BY <4>1, <4>2
      <4>4. Walk(q, AliveLinks) /\ l \in AliveLinks /\ From[l] = End(q) /\ End(c) = To[l]
        BY <4>1, <4>3, Walks
      <4>5. Len(q) <= n /\ Len(c) \in 1 .. n /\ Len(c) - 1 = Len(q)
        BY <1>1, <4>2, <4>3
      <4>6. From[l] \in f[Len(q)] /\ Alive(l)
        BY <3>2, <4>4, <4>5 DEF AliveLinks
      <4>7. f[Len(c)] = Spread(f[Len(q)])
        BY <1>2, <4>5
      <4>8. QED
        BY <4>4, <4>6, <4>7 DEF Spread
    <3>3. Walk(p, AliveLinks) /\ End(p) = request.target /\ p \in Seq(Links)
      <4>1. ASSUME NEW i \in DOMAIN p PROVE p[i] \in AliveLinks
        <5>1. PICK k \in 1 .. n - 1 : p \in [1 .. k -> Links]
          BY DEF Paths, n
        <5>2. QED
          BY <1>4, <5>1 DEF AliveLinks
      <4>2. QED
        BY <4>1, PathIsWalk
    <3>4. Len(p) \in 0 .. n
      <4>1. PICK k \in 1 .. n - 1 : p \in [1 .. k -> Links]
        BY DEF Paths, n
      <4>2. k \in Nat /\ k <= n
        BY <1>1
      <4>3. Len(p) = k
        BY <4>1, <4>2
      <4>4. QED
        BY <1>1, <4>2, <4>3
    <3>5. p \in G
      <4> HIDE DEF G
      <4>1. QED
        BY <3>1, <3>2, <3>3, PathInduction
    <3>6. QED
      BY <1>1, <3>3, <3>4, <3>5
  <2>3. n \in {k \in 0 .. n : k >= m => request.target \in f[k]}
    <3> DEFINE G == {k \in 0 .. n : k >= m => request.target \in f[k]}
    <3>1. 0 \in G
      BY <1>1, <2>2
    <3>2. ASSUME NEW k \in 1 .. n, k - 1 \in G PROVE k \in G
      <4>1. SUFFICES ASSUME k >= m PROVE request.target \in f[k]
        BY <1>1
      <4>2. CASE k = m
        BY <2>2, <4>2
      <4>3. CASE k # m
        <5>1. k - 1 >= m
          BY <1>1, <4>1, <4>3
        <5>2. request.target \in f[k - 1]
          BY <3>2, <5>1
        <5>3. QED
          BY <2>1, <5>2
      <4>4. QED
        BY <4>2, <4>3
    <3>3. n \in 0 .. n
      BY <1>1
    <3> HIDE DEF G
    <3>4. 0 .. n \subseteq G
      BY <1>1, <3>1, <3>2, InductionUpTo
    <3>5. QED
      BY <3>3, <3>4 DEF G
  <2>4. QED
    BY <1>1, <1>2, <2>2, <2>3
<1>5. QED
  BY <1>3, <1>4

---------------------------------------------------------------------------
(* The search for a route. *)

UsableLinks == {l \in Links : Usable(l)}

Label(p) == [total |-> PathTime(p), path |-> p, node |-> End(p)]

\* A label stands for a walk.
Labelled(x) == Walk(x.path, UsableLinks) /\ x = Label(x.path)

\* A node that has been left is not the target, and its links lead to nodes
\* with labels as good as they offer.
Left(n) ==
  /\ n # request.target
  /\ \A l \in UsableLinks : From[l] = n =>
       To[l] \in DOMAIN best /\ Cheap(best[To[l]].path, Append(best[n].path, l))

SearchRight ==
  /\ \A x \in frontier : Labelled(x) /\ x.node \in DOMAIN best
  /\ \A n \in DOMAIN best : Labelled(best[n]) /\ best[n].node = n
  /\ request.source \in DOMAIN best /\ Cheap(best[request.source].path, <<>>)
  /\ \A n \in DOMAIN best : best[n] \notin frontier => Left(n)

\* What a search rests on.
Searchable ==
  /\ Timely /\ net \in Networks /\ request.source \in Nodes
  /\ request.source # request.target /\ request.minimum \in Nat

\* The heap compares paths.
LEMMA BetterIsCheaper ==
  ASSUME NEW p \in Seq(Links), NEW q \in Seq(Links), NEW a, NEW b,
         a.total = PathTime(p), a.path = p, b.total = PathTime(q), b.path = q
  PROVE  Better(a, b) <=> Cheaper(p, q)
<1>1. Precedes(p, q) <=> Before(p, q)
  BY PathsAreNumbers, PrecedesIsBefore
<1>2. QED
  BY <1>1 DEF Better, Cheaper

\* Ahead of every walk to the target there is a label in the heap that is as good.
LEMMA Ahead ==
  ASSUME Timely, SearchRight, NEW p, Walk(p, UsableLinks), End(p) = request.target
  PROVE  \E y \in frontier : Cheap(y.path, p)
<1> DEFINE Covered(q) == \/ \E y \in frontier : Cheap(y.path, q)
                         \/ End(q) \in DOMAIN best /\ Cheap(best[End(q)].path, q)
           G == {q \in Seq(Links) : Walk(q, UsableLinks) => Covered(q)}
<1>1. \A y \in frontier : y.path \in Seq(Links)
  BY DEF SearchRight, Labelled, Walk
<1>2. \A n \in DOMAIN best : best[n].path \in Seq(Links)
  BY DEF SearchRight, Labelled, Walk
<1>3. <<>> \in G
  <2>1. End(<<>>) \in DOMAIN best /\ Cheap(best[End(<<>>)].path, <<>>)
    BY DEF SearchRight, End
  <2>2. QED
    BY <2>1
<1>4. ASSUME NEW q \in Seq(Links), NEW l \in Links, q \in G PROVE Append(q, l) \in G
  <2>1. PICK c : c = Append(q, l)
    OBVIOUS
  <2>2. c \in Seq(Links)
    BY <2>1, Appended
  <2>3. SUFFICES ASSUME Walk(c, UsableLinks) PROVE Covered(c)
    BY <2>1, <2>2
  <2>4. Walk(q, UsableLinks) /\ l \in UsableLinks /\ From[l] = End(q) /\ End(c) = To[l]
    BY <2>1, <2>3, Walks
  <2>5. ASSUME NEW y \in frontier, Cheap(y.path, q) PROVE Covered(c)
    <3>1. Cheap(q, c)
      <4>1. PathTime(q) \in Nat /\ EdgeTime(l) \in Nat /\ EdgeTime(l) > 0
            /\ PathTime(c) = PathTime(q) + EdgeTime(l)
        BY <2>1, PathTimes DEF Timely
      <4>2. PathTime(q) < PathTime(c)
        BY <4>1
      <4>3. QED
        BY <4>2 DEF Cheap, Cheaper
    <3>2. Cheap(y.path, c)
      BY <1>1, <2>2, <2>5, <3>1, CheapTrans
    <3>3. QED
      BY <3>2
  <2>6. ASSUME End(q) \in DOMAIN best, Cheap(best[End(q)].path, q) PROVE Covered(c)
    <3>1. PICK n : n = End(q) /\ n \in DOMAIN best
      BY <2>6
    <3>2. CASE best[n] \in frontier
      BY <2>5, <2>6, <3>1, <3>2
    <3>3. CASE best[n] \notin frontier
      <4>1. To[l] \in DOMAIN best /\ Cheap(best[To[l]].path, Append(best[n].path, l))
        BY <2>4, <3>1, <3>3 DEF SearchRight, Left
      <4>2. Cheap(Append(best[n].path, l), c)
        BY <1>2, <2>1, <2>6, <3>1, CheapAppend
      <4>3. Append(best[n].path, l) \in Seq(Links) /\ best[To[l]].path \in Seq(Links)
        BY <1>2, <3>1, <4>1, Appended
      <4>4. Cheap(best[To[l]].path, c)
        BY <2>2, <4>1, <4>2, <4>3, CheapTrans
      <4>5. QED
        BY <2>4, <4>1, <4>4
    <3>4. QED
      BY <3>2, <3>3
  <2>7. QED
    BY <1>4, <2>4, <2>5, <2>6
<1>5. Covered(p)
  <2>1. p \in Seq(Links)
    BY DEF Walk
  <2>2. p \in G
    <3> HIDE DEF G
    <3>1. QED
      BY <1>3, <1>4, <2>1, PathInduction
  <2>3. QED
    BY <2>2
<1>6. request.target \in DOMAIN best => best[request.target] \in frontier
  BY DEF SearchRight, Left
<1>7. QED
  BY <1>5, <1>6

\* What the reference says of an answer.
Answers(a) ==
  LET open == {p \in Paths : \A i \in DOMAIN p : Usable(p[i])}
      label(p) == [total |-> PathTime(p), path |-> p]
  IN IF open = {}
     THEN /\ ~a.feasible
          /\ a.reason = "bandwidth_below_requirement" <=>
               \E p \in Paths : \A i \in DOMAIN p : Alive(p[i])
     ELSE /\ a.feasible /\ a.path \in open /\ a.time = PathTime(a.path)
          /\ \A p \in open : p = a.path \/ Better(label(a.path), label(p))

\* A label of the target that the heap gives is the answer.
LEMMA TargetAnswers ==
  ASSUME Searchable, SearchRight, NEW x, Popped(x), x.node = request.target
  PROVE  Answers(Route(x.path, x.total)[1])
<1> DEFINE w == x.path
           open == {p \in Paths : \A i \in DOMAIN p : Usable(p[i])}
           label(p) == [total |-> PathTime(p), path |-> p]
<1>1. x \in frontier /\ Labelled(x) /\ w \in Seq(Links)
  BY DEF Popped, SearchRight, Labelled, Walk
<1>2. Walk(w, UsableLinks) /\ End(w) = request.target /\ x.total = PathTime(w)
  BY <1>1 DEF Labelled, Label
<1>3. ASSUME NEW p, Walk(p, UsableLinks), End(p) = request.target PROVE Cheap(w, p)
  <2>1. PICK y \in frontier : Cheap(y.path, p)
    BY <1>3, Ahead DEF Searchable
  <2>2. y.path \in Seq(Links) /\ p \in Seq(Links) /\ y.total = PathTime(y.path)
    BY <1>3 DEF SearchRight, Labelled, Label, Walk
  <2>3. CASE y = x
    BY <2>1, <2>3
  <2>4. CASE y # x
    <3>1. Better(x, y)
      BY <2>4 DEF Popped
    <3>2. Cheap(w, y.path)
      BY <1>1, <1>2, <2>2, <3>1, BetterIsCheaper DEF Cheap
    <3>3. QED
      BY <1>1, <2>1, <2>2, <3>2, CheapTrans DEF Searchable
  <2>5. QED
    BY <2>3, <2>4
<1>4. Straight(w)
  <2>1. SUFFICES ASSUME ~Straight(w) PROVE FALSE
    OBVIOUS
  <2>2. PICK r : Walk(r, UsableLinks) /\ End(r) = End(w) /\ PathTime(r) < PathTime(w)
    BY <1>2, <2>1, Straightened DEF Searchable
  <2>3. Cheap(w, r) /\ Cheaper(r, w) /\ r \in Seq(Links)
    BY <1>2, <1>3, <2>2 DEF Cheaper, Walk
  <2>4. QED
    BY <1>1, <2>3, CheapTotal DEF Searchable
<1>5. w \in open
  BY <1>2, <1>4, WalkIsPath DEF Searchable, UsableLinks
<1>6. ASSUME NEW p \in open PROVE p = w \/ Better(label(w), label(p))
  <2>1. ASSUME NEW i \in DOMAIN p PROVE p[i] \in UsableLinks
    <3>1. PICK k \in 1 .. Cardinality(Nodes) - 1 : p \in [1 .. k -> Links]
      BY DEF Paths
    <3>2. QED
      BY <3>1 DEF UsableLinks
  <2>2. Walk(p, UsableLinks) /\ End(p) = request.target /\ p \in Seq(Links)
    BY <2>1, PathIsWalk
  <2>3. Cheap(w, p)
    BY <1>3, <2>2
  <2>4. Better(label(w), label(p)) <=> Cheaper(w, p)
    BY <1>1, <2>2, BetterIsCheaper
  <2>5. QED
    BY <2>3, <2>4 DEF Cheap
<1>7. PICK a : a = Route(w, x.total)[1]
  OBVIOUS
<1>8. a.feasible /\ a.path = w /\ a.time = PathTime(a.path)
  BY <1>2, <1>7 DEF Route
<1> HIDE DEF w
<1>9. Answers(a)
  BY <1>5, <1>6, <1>8 DEF Answers
<1>10. QED
  BY <1>7, <1>9 DEF w

\* An empty heap is the answer that there is no route.
LEMMA EmptyAnswers ==
  ASSUME Searchable, SearchRight, frontier = {}
  PROVE  Answers(NoRoute(IF request.minimum > 0 /\ request.target \in Reachable
                         THEN "bandwidth_below_requirement" ELSE "no_online_link_path")[1])
<1> DEFINE open == {p \in Paths : \A i \in DOMAIN p : Usable(p[i])}
<1>1. open = {}
  <2>1. SUFFICES ASSUME NEW p \in open PROVE FALSE
    OBVIOUS
  <2>2. ASSUME NEW i \in DOMAIN p PROVE p[i] \in UsableLinks
    <3>1. PICK k \in 1 .. Cardinality(Nodes) - 1 : p \in [1 .. k -> Links]
      BY DEF Paths
    <3>2. QED
      BY <3>1 DEF UsableLinks
  <2>3. Walk(p, UsableLinks) /\ End(p) = request.target
    BY <2>2, PathIsWalk
  <2>4. QED
    BY <2>3, Ahead DEF Searchable
<1>2. request.target \in Reachable <=> \E p \in Paths : \A i \in DOMAIN p : Alive(p[i])
  BY ReachableIsWalked DEF Searchable
<1>3. ASSUME ~(request.minimum > 0), NEW p \in Paths, \A i \in DOMAIN p : Alive(p[i]) PROVE FALSE
  <2>1. request.minimum = 0
    BY <1>3 DEF Searchable
  <2>2. PICK k \in 1 .. Cardinality(Nodes) - 1 : p \in [1 .. k -> Links]
    BY DEF Paths
  <2>3. \A i \in DOMAIN p : net.bandwidth[p[i]] \in Nat
    BY <2>2, NetworkAssumption DEF Searchable
  <2>4. \A i \in DOMAIN p : Usable(p[i])
    BY <1>3, <2>1, <2>3 DEF Usable
  <2>5. QED
    BY <1>1, <2>4
<1>4. PICK a : a = NoRoute(IF request.minimum > 0 /\ request.target \in Reachable
                           THEN "bandwidth_below_requirement" ELSE "no_online_link_path")[1]
  OBVIOUS
<1>5. /\ ~a.feasible
      /\ a.reason = IF request.minimum > 0 /\ request.target \in Reachable
                    THEN "bandwidth_below_requirement" ELSE "no_online_link_path"
  BY <1>4 DEF NoRoute
<1>6. a.reason = "bandwidth_below_requirement" <=> \E p \in Paths : \A i \in DOMAIN p : Alive(p[i])
  BY <1>2, <1>3, <1>5
<1>7. Answers(a)
  BY <1>1, <1>5, <1>6 DEF Answers
<1>8. QED
  BY <1>4, <1>7

\* What is said of walks and answers depends on the network and the request only.
LEMMA SameWalks ==
  ASSUME net' = net, request' = request
  PROVE  /\ UsableLinks' = UsableLinks
         /\ \A x : Labelled(x)' <=> Labelled(x)
         /\ \A p, q : Cheap(p, q)' <=> Cheap(p, q)
         /\ \A a : Answers(a)' <=> Answers(a)
<1>1. \A l : (Usable(l)' <=> Usable(l)) /\ (Alive(l)' <=> Alive(l))
  BY DEF Usable, Alive
<1>2. UsableLinks' = UsableLinks
  BY <1>1 DEF UsableLinks
<1>3. \A p : PathTime(p)' = PathTime(p)
  BY DEF PathTime, EdgeTime
<1>4. \A p, L : Walk(p, L)' <=> Walk(p, L)
  BY DEF Walk
<1>5. \A p : Label(p)' = Label(p)
  BY <1>3 DEF Label, End
<1>6. \A x : Labelled(x)' <=> Labelled(x)
  BY <1>2, <1>4, <1>5 DEF Labelled
<1>7. \A p, q : Cheap(p, q)' <=> Cheap(p, q)
  BY <1>3 DEF Cheap, Cheaper
<1>8. Paths' = Paths
  BY DEF Paths, IsPath
<1>9. \A a : Answers(a)' <=> Answers(a)
  <2>1. TAKE a
  <2>2. {p \in Paths : \A i \in DOMAIN p : Usable(p[i])}'
          = {p \in Paths : \A i \in DOMAIN p : Usable(p[i])}
    BY <1>1, <1>8
  <2>3. \A p : (\A i \in DOMAIN p : Alive(p[i]))' <=> (\A i \in DOMAIN p : Alive(p[i]))
    BY <1>1
  <2>4. QED
    BY <1>3, <1>8, <2>2, <2>3 DEF Answers
<1>10. QED
  BY <1>2, <1>6, <1>7, <1>9

\* The routes are the cheapest if the answer is right.
LEMMA CheapestMeans ==
  RoutesAreCheapest <=>
    (route # <<>> /\ {request.source, request.target} \subseteq net.up
       /\ request.source # request.target /\ request.size > 0 => Answers(route[1]))
BY DEF RoutesAreCheapest, Answers

\* The empty path takes no time.
LEMMA NothingTakesNoTime == PathTime(<<>>) = 0
<1> DEFINE Steps(f) == f = [i \in 0 .. 0 |-> IF i = 0 THEN 0 ELSE f[i - 1] + EdgeTime(<<>>[i])]
<1>1. PathTime(<<>>) = (CHOOSE f : Steps(f))[0]
  BY DEF PathTime
<1>2. Steps([i \in 0 .. 0 |-> 0])
  OBVIOUS
<1>3. Steps(CHOOSE f : Steps(f))
  <2> HIDE DEF Steps
  <2>1. QED
    BY <1>2
<1>4. PICK f : f = (CHOOSE g : Steps(g)) /\ Steps(f)
  BY <1>3
<1>5. f[0] = 0
  BY <1>4
<1>6. QED
  BY <1>1, <1>4, <1>5

\* A search starts with the label of the source.
LEMMA SearchStarts ==
  ASSUME NEW r, Ask(r), r.size \in Nat, net' = net
  PROVE  (route' = <<>> => SearchRight') /\ RoutesAreCheapest'
<1> DEFINE start == [total |-> 0, path |-> <<>>, node |-> r.source]
<1>1. request' = r /\ frontier' = {start} /\ best' = [n \in {r.source} |-> start]
  BY DEF Ask
<1>2. PathTime(<<>>)' = 0
  <2>1. (PathTime(<<>>) = 0)'
    BY NothingTakesNoTime, PTL
  <2>2. QED
    BY <2>1
<1>3. start.path = <<>> /\ start.node = r.source
  OBVIOUS
<1>4. Labelled(start)'
  <2>1. Label(<<>>)' = start
    BY <1>1, <1>2 DEF Label, End
  <2>2. Walk(<<>>, UsableLinks)'
    BY DEF Walk
  <2> HIDE DEF start
  <2>3. QED
    BY <1>3, <2>1, <2>2 DEF Labelled
<1> HIDE DEF start
<1>5. DOMAIN best' = {r.source} /\ best'[r.source] = start
  BY <1>1
<1>6. SearchRight'
  BY <1>1, <1>3, <1>4, <1>5 DEF SearchRight, Cheap
<1>7. RoutesAreCheapest'
  <2>1. SUFFICES ASSUME route' # <<>>, {r.source, r.target} \subseteq net'.up,
                        r.source # r.target, r.size > 0
                 PROVE  FALSE
    BY <1>1 DEF RoutesAreCheapest
  <2>2. r.size # 0
    BY <2>1
  <2>3. route' = <<>>
    BY <2>1, <2>2 DEF Ask
  <2>4. QED
    BY <2>1, <2>3
<1>8. QED
  BY <1>6, <1>7

\* A round of it keeps the labels right, and gives an answer that is.
LEMMA SearchExpands ==
  ASSUME Searchable, SearchRight, Expand, net' = net
  PROVE  (route' = <<>> => SearchRight') /\ (route' # <<>> => Answers(route'[1]))
<1>1. route = <<>> /\ request' = request
  BY DEF Expand
<1> DEFINE label(x, l) == [total |-> x.total + EdgeTime(l), path |-> Append(x.path, l), node |-> To[l]]
           improved(x) == {label(x, l) : l \in {m \in Links : From[m] = x.node /\ Usable(m) /\ Improves(label(x, m))}}
<1>2. PICK x \in frontier :
        /\ Popped(x)
        /\ \/ best[x.node] # x /\ frontier' = frontier \ {x} /\ best' = best /\ route' = route
           \/ /\ best[x.node] = x /\ x.node = request.target /\ route' = Route(x.path, x.total)
           \/ /\ best[x.node] = x /\ x.node # request.target
              /\ frontier' = (frontier \ {x}) \cup improved(x) /\ route' = route
              /\ best' = [n \in DOMAIN best \cup {y.node : y \in improved(x)} |->
                            IF \E y \in improved(x) : y.node = n
                            THEN CHOOSE y \in improved(x) : y.node = n ELSE best[n]]
  <2>1. PICK x \in frontier :
          /\ Popped(x)
          /\ IF best[x.node] # x
             THEN frontier' = frontier \ {x} /\ UNCHANGED <<best, route>>
             ELSE IF x.node = request.target
             THEN route' = Route(x.path, x.total) /\ UNCHANGED <<frontier, best>>
             ELSE /\ frontier' = (frontier \ {x}) \cup improved(x)
                  /\ best' = [n \in DOMAIN best \cup {y.node : y \in improved(x)} |->
                                IF \E y \in improved(x) : y.node = n
                                THEN CHOOSE y \in improved(x) : y.node = n ELSE best[n]]
                  /\ UNCHANGED route
    BY DEF Expand
  <2> HIDE DEF improved
  <2>2. QED
    BY <2>1
<1>3. /\ UsableLinks' = UsableLinks
      /\ \A y : Labelled(y)' <=> Labelled(y)
      /\ \A p, q : Cheap(p, q)' <=> Cheap(p, q)
  BY <1>1, SameWalks
<1>4. CASE best[x.node] # x /\ frontier' = frontier \ {x} /\ best' = best /\ route' = route
  <2>1. ASSUME NEW n \in DOMAIN best, best[n] \notin frontier' PROVE Left(n)
    <3>1. best[n].node = n
      BY DEF SearchRight
    <3>2. best[n] # x
      BY <1>4, <3>1
    <3>3. QED
      BY <1>4, <2>1, <3>2 DEF SearchRight
  <2>2. \A n : Left(n)' <=> Left(n)
    BY <1>1, <1>3, <1>4 DEF Left
  <2>3. SearchRight'
    BY <1>1, <1>3, <1>4, <2>1, <2>2 DEF SearchRight
  <2>4. QED
    BY <1>1, <1>4, <2>3
<1>5. CASE best[x.node] = x /\ x.node = request.target /\ route' = Route(x.path, x.total)
  <2>1. Answers(Route(x.path, x.total)[1])
    BY <1>2, <1>5, TargetAnswers
  <2>2. route' # <<>>
    BY <1>5 DEF Route
  <2>3. QED
    BY <1>5, <2>1, <2>2
<1>6. CASE /\ best[x.node] = x /\ x.node # request.target
           /\ frontier' = (frontier \ {x}) \cup improved(x) /\ route' = route
           /\ best' = [n \in DOMAIN best \cup {y.node : y \in improved(x)} |->
                         IF \E y \in improved(x) : y.node = n
                         THEN CHOOSE y \in improved(x) : y.node = n ELSE best[n]]
  <2>0. PICK I : I = improved(x)
    OBVIOUS
  <2>1. Labelled(x) /\ x.node \in DOMAIN best
    BY DEF SearchRight
  <2>2. /\ Walk(x.path, UsableLinks) /\ x.path \in Seq(Links)
        /\ x.total = PathTime(x.path) /\ x.node = End(x.path)
    BY <2>1 DEF Labelled, Label, Walk
  <2>3. ASSUME NEW l \in Links, From[l] = x.node, Usable(l)
        PROVE  Labelled(label(x, l)) /\ label(x, l) # x /\ label(x, l).node = To[l]
               /\ label(x, l).path = Append(x.path, l) /\ label(x, l).total = PathTime(Append(x.path, l))
    <3> DEFINE p == Append(x.path, l)
    <3>1. Walk(p, UsableLinks) /\ End(p) = To[l]
      <4>1. l \in UsableLinks /\ From[l] = End(x.path)
        BY <2>2, <2>3 DEF UsableLinks
      <4>2. QED
        BY <2>2, <4>1, Walks
    <3>2. PathTime(p) = x.total + EdgeTime(l) /\ p # x.path
      BY <2>2, PathTimes, Appended DEF Searchable
    <3>3. PICK y : y = label(x, l)
      OBVIOUS
    <3>4. y.path = p /\ y.node = To[l] /\ y.total = x.total + EdgeTime(l)
      BY <3>3
    <3>5. y = Label(p)
      BY <3>1, <3>2, <3>3 DEF Label
    <3> HIDE DEF p, label
    <3>6. Labelled(y) /\ y # x
      BY <3>1, <3>2, <3>4, <3>5 DEF Labelled
    <3>7. QED
      BY <3>2, <3>3, <3>4, <3>6 DEF p
  <2>4. ASSUME NEW y \in I
        PROVE  \E l \in Links : From[l] = x.node /\ Usable(l) /\ Improves(y) /\ y = label(x, l)
    BY <2>0
  <2>5. \A l \in Links : From[l] = x.node /\ Usable(l) /\ Improves(label(x, l)) => label(x, l) \in I
    BY <2>0
  <2> HIDE DEF improved, label
  <2>6. \A y \in I : Labelled(y)
    BY <2>3, <2>4
  <2>7. \A y, z \in I : y.node = z.node => y = z
    <3>1. TAKE y \in I, z \in I
    <3>2. PICK l \in Links : From[l] = x.node /\ Usable(l) /\ y = label(x, l)
      BY <2>4
    <3>3. PICK m \in Links : From[m] = x.node /\ Usable(m) /\ z = label(x, m)
      BY <2>4
    <3>4. QED
      BY <2>3, <3>2, <3>3, NetworkAssumption
  <2>8. /\ frontier' = (frontier \ {x}) \cup I
        /\ best' = [n \in DOMAIN best \cup {y.node : y \in I} |->
                      IF \E y \in I : y.node = n THEN CHOOSE y \in I : y.node = n ELSE best[n]]
    BY <1>6, <2>0
  <2>9. DOMAIN best' = DOMAIN best \cup {y.node : y \in I}
    BY <2>8
  <2>10. ASSUME NEW y \in I PROVE y.node \in DOMAIN best' /\ best'[y.node] = y
    <3>1. PICK n : n = y.node
      OBVIOUS
    <3>2. n \in DOMAIN best' /\ best'[n] = CHOOSE z \in I : z.node = n
      BY <2>8, <3>1
    <3>3. PICK c : c = CHOOSE z \in I : z.node = n
      OBVIOUS
    <3>4. c \in I /\ c.node = n
      BY <3>1, <3>3
    <3>5. QED
      BY <2>7, <3>1, <3>2, <3>3, <3>4
  <2>11. ASSUME NEW n \in DOMAIN best, ~\E y \in I : y.node = n
         PROVE  n \in DOMAIN best' /\ best'[n] = best[n]
    BY <2>8, <2>11
  <2> HIDE <2>8
  <2>12. frontier' = (frontier \ {x}) \cup I
    BY <2>8
  <2>13. \A n \in DOMAIN best' : best'[n] \in I \/ (n \in DOMAIN best /\ best'[n] = best[n])
    BY <2>9, <2>10, <2>11
  <2>14. ASSUME NEW n \in DOMAIN best
         PROVE  n \in DOMAIN best' /\ Cheap(best'[n].path, best[n].path)
    <3>1. CASE \E y \in I : y.node = n
      <4>1. PICK y \in I : y.node = n
        BY <3>1
      <4>2. Better(y, best[n])
        BY <2>4, <4>1 DEF Improves
      <4>3. Labelled(y) /\ Labelled(best[n])
        BY <2>6 DEF SearchRight
      <4>4. /\ y.path \in Seq(Links) /\ y.total = PathTime(y.path)
            /\ best[n].path \in Seq(Links) /\ best[n].total = PathTime(best[n].path)
        BY <4>3 DEF Labelled, Label, Walk
      <4>5. Cheaper(y.path, best[n].path)
        BY <4>2, <4>4, BetterIsCheaper
      <4>6. QED
        BY <2>10, <4>1, <4>5 DEF Cheap
    <3>2. CASE ~\E y \in I : y.node = n
      BY <2>11, <3>2 DEF Cheap
    <3>3. QED
      BY <3>1, <3>2
  <2>15. \A n \in DOMAIN best' : Labelled(best'[n]) /\ best'[n].node = n
    <3>1. TAKE n \in DOMAIN best'
    <3>2. CASE n \in DOMAIN best /\ best'[n] = best[n]
      BY <3>2 DEF SearchRight
    <3>3. CASE ~(n \in DOMAIN best /\ best'[n] = best[n])
      <4>1. PICK y \in I : y.node = n
        BY <2>9, <2>11, <3>3
      <4>2. QED
        BY <2>6, <2>10, <4>1
    <3>4. QED
      BY <3>2, <3>3
  <2>16. \A y \in frontier' : Labelled(y) /\ y.node \in DOMAIN best'
    BY <2>6, <2>9, <2>10, <2>12 DEF SearchRight
  <2>17. \A n \in DOMAIN best' : best'[n].path \in Seq(Links)
    BY <2>15 DEF Labelled, Walk
  <2>18. \A n \in DOMAIN best : best[n].path \in Seq(Links)
    BY DEF SearchRight, Labelled, Walk
  <2>19. request.source \in DOMAIN best' /\ Cheap(best'[request.source].path, <<>>)
    <3>1. request.source \in DOMAIN best /\ Cheap(best[request.source].path, <<>>)
      BY DEF SearchRight
    <3>2. <<>> \in Seq(Links)
      OBVIOUS
    <3>3. QED
      BY <2>14, <2>17, <2>18, <3>1, <3>2, CheapTrans DEF Searchable
  <2>20. ASSUME NEW n \in DOMAIN best', best'[n] \notin frontier'
         PROVE  /\ n # request.target
                /\ \A l \in UsableLinks : From[l] = n =>
                     To[l] \in DOMAIN best' /\ Cheap(best'[To[l]].path, Append(best'[n].path, l))
    <3>1. n \in DOMAIN best /\ best'[n] = best[n] /\ best[n] \notin frontier \ {x}
      BY <2>12, <2>13, <2>20
    <3>2. n # request.target
      <4>1. CASE best[n] = x
        BY <1>6, <3>1, <4>1 DEF SearchRight
      <4>2. CASE best[n] # x
        BY <3>1, <4>2 DEF SearchRight, Left
      <4>3. QED
        BY <4>1, <4>2
    <3>3. ASSUME NEW l \in UsableLinks, From[l] = n
          PROVE  To[l] \in DOMAIN best' /\ Cheap(best'[To[l]].path, Append(best'[n].path, l))
      <4>1. l \in Links /\ Usable(l)
        BY DEF UsableLinks
      <4>2. PICK p : p = Append(best[n].path, l) /\ p \in Seq(Links)
        <5>1. best[n].path \in Seq(Links)
          BY <2>18, <3>1
        <5>2. Append(best[n].path, l) \in Seq(Links)
          BY <4>1, <5>1, Appended
        <5>3. QED
          BY <5>2
      <4>3. ASSUME To[l] \in DOMAIN best, Cheap(best[To[l]].path, p)
            PROVE  To[l] \in DOMAIN best' /\ Cheap(best'[To[l]].path, p)
        BY <2>14, <2>17, <2>18, <4>2, <4>3, CheapTrans DEF Searchable
      <4>4. CASE best[n] = x
        <5>1. From[l] = x.node
          BY <3>1, <3>3, <4>4 DEF SearchRight
        <5>2. PICK y : y = label(x, l)
          OBVIOUS
        <5>3. y.node = To[l] /\ y.path = p /\ y.total = PathTime(p)
          BY <2>3, <4>1, <4>2, <4>4, <5>1, <5>2
        <5>4. CASE Improves(y)
          <6>1. y \in I
            BY <2>5, <4>1, <5>1, <5>2, <5>4
          <6>2. To[l] \in DOMAIN best' /\ best'[To[l]].path = p
            BY <2>10, <5>3, <6>1
          <6>3. QED
            BY <3>1, <4>2, <6>2 DEF Cheap
        <5>5. CASE ~Improves(y)
          <6>1. To[l] \in DOMAIN best /\ ~Better(y, best[To[l]])
            BY <5>3, <5>5 DEF Improves
          <6>2. /\ best[To[l]].path \in Seq(Links)
                /\ best[To[l]].total = PathTime(best[To[l]].path)
            BY <6>1 DEF SearchRight, Labelled, Label, Walk
          <6>3. ~Cheaper(p, best[To[l]].path)
            BY <4>2, <5>3, <6>1, <6>2, BetterIsCheaper
          <6>4. Cheap(best[To[l]].path, p)
            BY <4>2, <6>2, <6>3, CheapTotal DEF Searchable
          <6>5. QED
            BY <3>1, <4>2, <4>3, <6>1, <6>4
        <5>6. QED
          BY <5>4, <5>5
      <4>5. CASE best[n] # x
        <5>1. To[l] \in DOMAIN best /\ Cheap(best[To[l]].path, p)
          BY <3>1, <3>3, <4>2, <4>5 DEF SearchRight, Left
        <5>2. QED
          BY <3>1, <4>2, <4>3, <5>1
      <4>6. QED
        BY <4>4, <4>5
    <3>4. QED
      BY <3>2, <3>3
  <2>21. ASSUME NEW n \in DOMAIN best', best'[n] \notin frontier' PROVE Left(n)'
    BY <1>1, <1>3, <2>20, <2>21 DEF Left
  <2>22. SearchRight'
    BY <1>1, <1>3, <2>15, <2>16, <2>19, <2>21 DEF SearchRight
  <2>23. QED
    BY <1>1, <1>6, <2>22
<1>7. QED
  BY <1>2, <1>4, <1>5, <1>6

\* While a route is searched the labels are right, and a route that is known is the
\* cheapest.
RoutesRight ==
  /\ pc = "route" /\ route = <<>> => SearchRight
  /\ RoutesAreCheapest

\* The search is for the route of an input of the pair, over the links of the problem.
LEMMA SearchIsFounded ==
  ASSUME PlanningInv, pc = "route", route = <<>>
  PROVE  Searchable
<1>1. PICK t, n, k, input : t = Pair[1] /\ n = Pair[2] /\ k = Len(gathered) + 1
                            /\ input = Inputs(t)[k]
  OBVIOUS
<1>2. pairs # {} /\ k <= Len(Inputs(t)) /\ Sought(input, n, t)
  BY <1>1 DEF PlanningInv, EstimateInv, Routing
<1>3. t \in Ready /\ TransfersRight(gathered, t, n) /\ Setting
  BY <1>1, <1>2, GatheredSoFar DEF PlanningInv, EstimateInv
<1>4. problem \in Problems /\ WellFormed(problem) /\ net = problem.network
  BY <1>3, ProblemAssumption DEF Setting
<1>5. input.node \in Nodes /\ input.size \in Nat
  <2>1. Len(gathered) \in Nat
    BY <1>3 DEF TransfersRight
  <2>2. k \in DOMAIN Inputs(t)
    BY <1>1, <1>2, <1>3, <1>4, <2>1, InputsTyped
  <2>3. QED
    BY <1>1, <1>3, <1>4, <2>2, InputsTyped
<1>6. /\ request.source = input.node /\ request.size = input.size
      /\ request.minimum = problem.bandwidth[t] /\ request.size > 0
      /\ request.source # request.target
  BY <1>2 DEF Sought
<1>7. Timely
  BY <1>3, <1>5, <1>6, EdgeTakesTime DEF Timely
<1>8. problem.bandwidth[t] \in Nat /\ problem.network \in Networks
  BY <1>3, <1>4 DEF WellFormed, Ready
<1>9. QED
  BY <1>4, <1>5, <1>6, <1>7, <1>8 DEF Searchable

\* While nothing is asked, an answer that is right makes the route the cheapest.
LEMMA AnswerIsCheapest ==
  ASSUME UNCHANGED <<net, request>>,
         route' # <<>> /\ {request.source, request.target} \subseteq net.up
           /\ request.source # request.target /\ request.size > 0 => Answers(route'[1])
  PROVE  RoutesAreCheapest'
<1>1. (RoutesAreCheapest <=>
         (route # <<>> /\ {request.source, request.target} \subseteq net.up
            /\ request.source # request.target /\ request.size > 0 => Answers(route[1])))'
  BY CheapestMeans, PTL
<1>2. PICK a : a = route'[1]
  OBVIOUS
<1>3. Answers(route[1])' <=> Answers(a)'
  BY <1>2 DEF Answers
<1>4. Answers(a)' <=> Answers(a)
  BY SameWalks
<1>5. QED
  BY <1>1, <1>2, <1>3, <1>4

\* Where nothing is searched the answer stays.
LEMMA RoutesStay ==
  ASSUME RoutesRight, UNCHANGED <<net, request, route>>, pc' # "route"
  PROVE  RoutesRight'
<1>1. route' # <<>> /\ {request.source, request.target} \subseteq net.up
        /\ request.source # request.target /\ request.size > 0 => Answers(route'[1])
  BY CheapestMeans DEF RoutesRight
<1>2. QED
  BY <1>1, AnswerIsCheapest DEF RoutesRight

\* Every step keeps it.
LEMMA RoutesStep == PlanningInv /\ RoutesRight /\ [Next]_vars => RoutesRight'
<1>1. SUFFICES ASSUME PlanningInv, RoutesRight, [Next]_vars PROVE RoutesRight'
  OBVIOUS
<1>2. CASE Estimate
  <2>1. CASE NextPair /\ UNCHANGED routeVars
    BY <1>1, <1>2, <2>1, RoutesStay DEF Estimate, NextPair, routeVars
  <2>2. CASE ~(NextPair /\ UNCHANGED routeVars)
    <3>1. /\ pc = "estimate" /\ pairs # {} /\ net' = net
          /\ Len(gathered) + 1 <= Len(Inputs(Pair[1]))
          /\ Ask([source |-> Inputs(Pair[1])[Len(gathered) + 1].node, target |-> Pair[2],
                  size |-> Inputs(Pair[1])[Len(gathered) + 1].size,
                  minimum |-> problem.bandwidth[Pair[1]]])
      BY <1>2, <2>2 DEF Estimate
    <3>2. PICK t, k : t = Pair[1] /\ k = Len(gathered) + 1
      OBVIOUS
    <3>3. t \in Ready /\ gathered \in Seq(Transfers) /\ problem \in Problems
      BY <1>1, <3>1, <3>2, GatheredSoFar DEF PlanningInv, EstimateInv, TransfersRight, Setting
    <3>4. k \in DOMAIN Inputs(t)
      <4>1. Len(gathered) \in Nat
        BY <3>3
      <4>2. QED
        BY <3>1, <3>2, <3>3, <4>1, InputsTyped
    <3>5. Inputs(t)[k].size \in Nat
      BY <3>3, <3>4, InputsTyped
    <3>6. PICK r : r.size = Inputs(t)[k].size /\ Ask(r)
      BY <3>1, <3>2
    <3>7. QED
      BY <3>1, <3>5, <3>6, SearchStarts DEF RoutesRight
  <2>3. QED
    BY <2>1, <2>2
<1>3. CASE Routed
  BY <1>1, <1>3, RoutesStay DEF Routed, NextPair, routeVars
<1>4. CASE SearchRoute
  <2>1. pc = "route" /\ (Expand \/ Exhaust) /\ net' = net
    BY <1>4 DEF SearchRoute, problemVars
  <2>2. route = <<>> /\ request' = request
    BY <2>1 DEF Expand, Exhaust
  <2>3. Searchable /\ SearchRight
    BY <1>1, <2>1, <2>2, SearchIsFounded DEF RoutesRight
  <2>4. (route' = <<>> => SearchRight') /\ (route' # <<>> => Answers(route'[1]))
    <3>1. CASE Expand
      BY <2>1, <2>3, <3>1, SearchExpands
    <3>2. CASE Exhaust
      <4>1. frontier = {}
            /\ route' = NoRoute(IF request.minimum > 0 /\ request.target \in Reachable
                                THEN "bandwidth_below_requirement" ELSE "no_online_link_path")
        BY <3>2 DEF Exhaust
      <4>2. route' # <<>>
        BY <4>1 DEF NoRoute
      <4>3. QED
        BY <2>3, <4>1, <4>2, EmptyAnswers
    <3>3. QED
      BY <2>1, <3>1, <3>2
  <2>5. RoutesAreCheapest'
    BY <2>1, <2>2, <2>4, AnswerIsCheapest
  <2>6. QED
    BY <2>4, <2>5 DEF RoutesRight
<1>5. ASSUME UNCHANGED problemVars, UNCHANGED routeVars, pc' # "route" PROVE RoutesRight'
  BY <1>1, <1>5, RoutesStay DEF problemVars, routeVars
<1>6. CASE Heuristic
  BY <1>5, <1>6 DEF Heuristic, AskHeuristic, HeuristicExpires, HeuristicDone, Return
<1>7. CASE OneHot
  <2>1. CASE \E o \in Optimizers : AskOneHot(o)
    BY <1>5, <2>1 DEF AskOneHot
  <2>2. CASE SearchEnds \/ SearchLimited \/ SearchExpires \/ GoOn \/ AllPlaced
    BY <1>5, <2>2 DEF SearchEnds, SearchLimited, SearchExpires, Finish, Return, GoOn, AllPlaced
  <2>3. CASE Select
    BY <1>5, <2>3 DEF Select
  <2>4. CASE Score
    BY <1>5, <2>4 DEF Score, Return
  <2>5. QED
    BY <1>7, <2>1, <2>2, <2>3, <2>4 DEF OneHot
<1>8. CASE OneTask
  <2>1. CASE NextTask \/ Search \/ Place
    BY <1>5, <2>1 DEF NextTask, Search, Place
  <2>2. CASE TryOption
    BY <1>5, <2>2 DEF TryOption
  <2>3. CASE Commit \/ NoPlace
    BY <1>5, <2>3 DEF Commit, NoPlace
  <2>4. QED
    BY <1>8, <2>1, <2>2, <2>3 DEF OneTask
<1>9. CASE PlugIn
  <2>1. CASE AskPlugIn \/ Answer
    BY <1>5, <2>1 DEF AskPlugIn, Answer, Return
  <2>2. CASE Decide
    BY <1>5, <2>2 DEF Decide
  <2>3. QED
    BY <1>9, <2>1, <2>2 DEF PlugIn
<1>10. CASE Validate
  BY <1>5, <1>10 DEF Validate
<1>11. CASE UNCHANGED vars
  <2>1. UNCHANGED <<net, request, frontier, best, route, pc>>
    BY <1>11 DEF vars, problemVars, routeVars
  <2>2. CASE pc = "route" /\ route = <<>>
    <3>1. \A n : Left(n)' <=> Left(n)
      BY <2>1, SameWalks DEF Left
    <3>2. SearchRight'
      BY <1>1, <2>1, <2>2, <3>1, SameWalks DEF SearchRight, RoutesRight
    <3>3. RoutesAreCheapest'
      BY <2>1, <2>2 DEF RoutesAreCheapest
    <3>4. QED
      BY <3>2, <3>3 DEF RoutesRight
  <2>3. CASE ~(pc = "route" /\ route = <<>>)
    <3>1. route' # <<>> /\ {request.source, request.target} \subseteq net.up
            /\ request.source # request.target /\ request.size > 0 => Answers(route'[1])
      BY <1>1, <2>1, CheapestMeans DEF RoutesRight
    <3>2. QED
      BY <2>1, <2>3, <3>1, AnswerIsCheapest DEF RoutesRight
  <2>4. QED
    BY <2>2, <2>3
<1>12. QED
  BY <1>1, <1>2, <1>3, <1>4, <1>6, <1>7, <1>8, <1>9, <1>10, <1>11 DEF Next, Building

\* The route found for a payload is the fastest of all paths that are alive and wide
\* enough, the first of several as fast; and where there is none, the reason given is
\* the right one.
THEOREM RoutesAreCheapestHolds == Spec => []RoutesAreCheapest
<1>1. Init => PlanningInv /\ RoutesRight
  BY PlanningInit DEF Init, Begin, RoutesRight, RoutesAreCheapest
<1>2. PlanningInv /\ RoutesRight /\ [Next]_vars => (PlanningInv /\ RoutesRight)'
  BY PlanningStep, RoutesStep
<1>3. PlanningInv /\ RoutesRight => RoutesAreCheapest
  BY DEF RoutesRight
<1>4. QED
  BY <1>1, <1>2, <1>3, PTL DEF Spec
---------------------------------------------------------------------------
(* What the built-in optimizers make. *)

\* The links are free again after the transfers S, which began when they were free.
Freed(S, after) ==
  \A x \in S : \A l \in ToSet(x.path) : problem.linkFree[l] <= x.start /\ x.finish <= after[l]

\* The time transfers take together.
Spent(S) == LET Length(x) == x.finish - x.start IN MapThenSumSet(Length, S)

\* The assignment a of a plan repeats the estimates of the candidate c, and the plan
\* has its transfers and then its computation.
Realizes(p, a, c) ==
  LET own == TransfersOf(p, a)
  IN /\ c.task = a.task /\ c.node = a.node
     /\ a.compute = c.compute /\ a.energy = c.energy /\ a.success = c.success
     /\ a.locations = c.locations /\ a.communication = Spent(own)
     /\ MadeFor(c, own)
     /\ \E x \in p.reservations :
          /\ {y \in p.reservations : y.task = a.task} = {x} /\ x = Reservation(c, x.start)
          /\ x.start \in Nat /\ problem.free[c.node] <= x.start /\ c.ready <= x.start
          /\ \A y \in own : y.finish <= x.start
          /\ a.finish = x.finish /\ a.start = Min({x.start} \cup {y.start : y \in own})

\* Every task is assigned once, dropped or as one of its candidates, and everything
\* that is reserved is for one of them.
Assigns(p) ==
  /\ IsFiniteSet(p.transfers)
  /\ \A i, j \in DOMAIN p.assigned : p.assigned[i].task = p.assigned[j].task => i = j
  /\ \A a \in ToSet(p.assigned) :
       a.task \in Ready /\ IF a.node = 0 THEN a = Dropped(a.task)
                                         ELSE \E c \in candidates : Realizes(p, a, c)
  /\ \A x \in p.reservations : \E a \in Assigned(p) : a.task = x.task
  /\ \A x \in p.transfers : \E a \in Assigned(p) : a.task = x.task

\* Whenever a computation of the plan runs, its node holds all that run.
Holds(p) ==
  \A n \in Nodes, u \in Nat :
    ActiveAt(p.reservations, n, u) # {} =>
      Fits(n, ActiveAt(problem.carryIn \cup p.reservations, n, u))

\* No transfer begins before its links are free.
Waits(p) == \A x \in p.transfers : \A l \in ToSet(x.path) : problem.linkFree[l] <= x.start

Sound(p) == Assigns(p) /\ Holds(p) /\ LinksValid(p) /\ Waits(p)

\* The tasks assigned, those deferred and the rest are all tasks of the epoch, each once.
Parted(p, rest) ==
  /\ \A i, j \in DOMAIN p.deferred : p.deferred[i] = p.deferred[j] => i = j
  /\ \A i \in DOMAIN p.deferred : p.deferred[i] \in Ready
  /\ \A a \in ToSet(p.assigned) :
       /\ \A i \in DOMAIN rest : a.task # rest[i]
       /\ \A i \in DOMAIN p.deferred : a.task # p.deferred[i]
  /\ \A i \in DOMAIN p.deferred, j \in DOMAIN rest : p.deferred[i] # rest[j]
  /\ \A t \in Ready : \/ \E a \in ToSet(p.assigned) : a.task = t
                      \/ \E i \in DOMAIN p.deferred : p.deferred[i] = t
                      \/ \E i \in DOMAIN rest : rest[i] = t

OneHotAsked == optimizer \in {"greedy", "exhaustive"}

AskedRight ==
  /\ optimizer \in {"", "heuristic", "greedy", "exhaustive", "plugin"}
  /\ pc \in {"select", "refused", "score"} => OneHotAsked
  /\ pc \in {"task", "option", "place", "validate", "rejected"} => optimizer # ""
  /\ pc = "score" => todo = <<>>
  /\ pc \in {"estimate", "route"} => incumbent = <<>> /\ draft = EmptyPlan

Drafting == optimizer # "plugin" /\ pc \in {"task", "option", "place", "score"}

DraftRight ==
  Drafting =>
    /\ Sound(draft) /\ Parted(draft, todo) /\ draft.status = "feasible"
    /\ calendar = problem.carryIn \cup draft.reservations
    /\ Freed(draft.transfers, links) /\ \A l \in Links : problem.linkFree[l] <= links[l]
    /\ optimizer = "heuristic" /\ problem.maxIterations > 0 =>
         Len(draft.assigned) + Len(todo) <= problem.maxIterations

\* The decisions of the formulation, and how far the one looked at has been placed.
Decision(s) == s \in Seq(Nat) /\ Len(s) = Len(problem.tasks)
Decided == Len(selection) - Len(todo)

Matches(a, c) == c.task = a.task /\ c.node = a.node /\ c.energy = a.energy

DecisionRight ==
  /\ IsFiniteSet(remaining)
  /\ \A s \in remaining : Decision(s)
  /\ OneHotAsked => /\ draft.iterations \in Nat
                    /\ problem.maxIterations > 0 => draft.iterations <= problem.maxIterations
  /\ OneHotAsked /\ Drafting =>
       /\ Decision(selection) /\ Affordable(Chosen(selection)) 
       /\ todo \in Seq(Ready) /\ Len(todo) <= Len(selection)
       /\ \A k \in 1 .. Decided : Chosen(selection)[k] \in candidates
       /\ \A a \in ToSet(draft.assigned) :
            a.node # 0 /\ \E k \in 1 .. Decided : Matches(a, Chosen(selection)[k])

\* The candidates from which the place of the next task is taken.
Eligible ==
  {c \in candidates : /\ c.task = Head(todo)
                      /\ optimizer # "heuristic" => c = Chosen(selection)[Decided + 1]}

SameEstimates(d, c) ==
  /\ d.task = c.task /\ d.node = c.node /\ d.ready = c.ready /\ d.compute = c.compute
  /\ d.energy = c.energy /\ d.demand = c.demand /\ d.success = c.success
  /\ d.locations = c.locations /\ d.transfers = c.transfers

\* A place is one to which the transfers come in time, and in which nothing is in
\* the way.
PlaceRight(x) ==
  LET d == x.candidate
      moves == Transferred(d, links)
  IN /\ \E c \in Eligible : SameEstimates(d, c)
     /\ x.transfers = moves.made /\ moves.at <= x.at /\ problem.free[d.node] <= x.at
     /\ d.start = Min({x.at} \cup {y.start : y \in x.transfers})
     /\ d.finish = x.at + d.compute /\ d.communication = Spent(x.transfers)
     /\ Free(calendar, d, x.at)

PlacesRight ==
  /\ pc \in {"option", "place"} => options \subseteq Eligible /\ \A x \in placed : PlaceRight(x)
  /\ pc = "place" =>
       /\ placing[1] \in Eligible /\ moved = Transferred(placing[1], links)
       /\ moved.at <= cursor /\ problem.free[placing[1].node] <= cursor

\* A plan the validation accepts, but for the batteries and the hard constraints.
Proper(p) == Sound(p) /\ Parted(p, <<>>) /\ p.status \notin {"infeasible", "error"}

Kept(p) == EnergyValid(p) /\ ~HardViolation(p)

ReturnedRight ==
  /\ incumbent # <<>> => Proper(incumbent[1].plan) /\ Kept(incumbent[1].plan)
  /\ optimizer # "plugin" /\ pc = "validate" =>
       /\ Proper(plan[1]) /\ (optimizer # "heuristic" => Kept(plan[1]))
       /\ problem.maxIterations > 0 => plan[1].iterations <= problem.maxIterations

BuiltInInv ==
  AskedRight /\ DraftRight /\ DecisionRight /\ PlacesRight /\ ReturnedRight /\ BuiltInsAreAccepted

---------------------------------------------------------------------------
(* What does not move. *)

\* What is said of a plan depends on the problem and the candidates alone.
LEMMA SoundStays ==
  ASSUME UNCHANGED <<problem, candidates>>
  PROVE  /\ \A p : Sound(p)' = Sound(p)
         /\ \A p, rest : Parted(p, rest)' = Parted(p, rest)
         /\ \A p : Proper(p)' = Proper(p)
<1>1. \A p, a, c : Realizes(p, a, c)' = Realizes(p, a, c)
  BY DEF Realizes, MadeFor, Moving, Transfer, Reservation, TransfersOf
<1>2. \A p : Assigns(p)' = Assigns(p)
  BY <1>1 DEF Assigns, Ready, Dropped, Assigned
<1>3. \A p : Holds(p)' = Holds(p)
  BY DEF Holds, Fits, Background, Load, ActiveAt
<1>4. \A p : LinksValid(p)' = LinksValid(p) /\ Waits(p)' = Waits(p)
  BY DEF LinksValid, Waits
<1>5. \A p, rest : Parted(p, rest)' = Parted(p, rest)
  BY DEF Parted, Ready
<1>6. \A p : Sound(p)' = Sound(p)
  BY <1>2, <1>3, <1>4 DEF Sound
<1>7. QED
  BY <1>5, <1>6 DEF Proper

\* So do the batteries and the constraints.
LEMMA KeptStays ==
  ASSUME UNCHANGED problem
  PROVE  \A p : EnergyValid(p)' = EnergyValid(p) /\ HardViolation(p)' = HardViolation(p)
<1>1. ASSUME NEW p PROVE HardViolation(p)' = HardViolation(p)
  BY DEF HardViolation, Violation, PlanMetric, Peak, Background, Load, ActiveAt, Share, Rank,
         Mismatch, Positive, Away, Count, SumOver, MapThenSumSet, MapThenFoldSet, Assigned
<1>2. ASSUME NEW p PROVE EnergyValid(p)' = EnergyValid(p)
  BY DEF EnergyValid, SumOver, Assigned, MapThenSumSet, MapThenFoldSet
<1>3. QED
  BY <1>1, <1>2

\* The order of the options of a task, and so the candidates a decision stands for,
\* depend on the problem, the candidates and the optimizer.
LEMMA ChosenStays ==
  ASSUME UNCHANGED <<problem, candidates, optimizer>>
  PROVE  \A s : Chosen(s)' = Chosen(s)
<1>1. \A m, c : CandidateMetric(m, c)' = CandidateMetric(m, c)
  BY DEF CandidateMetric, Peak, Background, Load, ActiveAt, Share, Rank, Mismatch, Positive, Away,
         Count, SumOver, MapThenSumSet, MapThenFoldSet, Reservation
<1>2. \A v : Aggregate(v)' = Aggregate(v)
  BY DEF Aggregate
<1>3. ASSUME NEW c PROVE ProxyKey(c)' = ProxyKey(c)
  <2> DEFINE Metric(m) == CandidateMetric(m, c)
  <2>1. PICK v : v = Objectives(Metric)
    OBVIOUS
  <2>2. v = Objectives(Metric)'
    BY <1>1, <2>1 DEF Objectives
  <2>3. ProxyKey(c) = Aggregate(v)
    BY <2>1 DEF ProxyKey
  <2>4. ProxyKey(c)' = Aggregate(v)'
    BY <2>2 DEF ProxyKey
  <2>5. QED
    BY <1>2, <2>3, <2>4
<1>4. ASSUME NEW i PROVE OptionOrder(i)' = OptionOrder(i)
  <2> DEFINE ranked(c) == IF optimizer = "greedy" THEN Append(ProxyKey(c), c.node) ELSE <<c.node>>
             own == {c \in candidates : c.task = problem.tasks[i]}
             ahead(c) == {d \in own : Precedes(ranked(d), ranked(c))}
  <2>1. \A c : ranked(c)' = ranked(c)
    BY <1>3
  <2>2. own' = own
    OBVIOUS
  <2>3. \A c : ahead(c)' = ahead(c)
    <3> HIDE DEF ranked, own
    <3>1. QED
      BY <2>1, <2>2
  <2>4. OptionOrder(i) =
          [k \in 1 .. Cardinality(own) |-> CHOOSE c \in own : Cardinality(ahead(c)) = k - 1]
    BY DEF OptionOrder
  <2>5. OptionOrder(i)' =
          [k \in 1 .. Cardinality(own') |-> CHOOSE c \in own' : Cardinality(ahead(c)') = k - 1]
    BY DEF OptionOrder
  <2>6. QED
    <3> HIDE DEF ahead, own
    <3>1. QED
      BY <2>2, <2>3, <2>4, <2>5
<1>5. QED
  BY <1>4 DEF Chosen

\* So does whether the batteries last for a decision.
LEMMA AffordableStays ==
  ASSUME UNCHANGED problem
  PROVE  \A cs : Affordable(cs)' = Affordable(cs)
<1>1. ASSUME NEW cs PROVE Affordable(cs)' = Affordable(cs)
  BY DEF Affordable, SumOver, MapThenSumSet, MapThenFoldSet
<1>2. QED
  BY <1>1

\* The room on a node and the transfers of a candidate do not move with it either.
LEMMA PlaceStays ==
  ASSUME UNCHANGED <<problem, candidates, optimizer, selection, todo, calendar, links>>
  PROVE  Eligible' = Eligible /\ \A x : PlaceRight(x)' = PlaceRight(x)
<1>1. \A d : Transferred(d, links)' = Transferred(d, links)
  BY DEF Transferred, Transfer
<1>2. Eligible' = Eligible
  <2>1. Chosen(selection)' = Chosen(selection)
    BY ChosenStays
  <2>2. QED
    BY <2>1 DEF Eligible, Decided
<1>3. \A S, d, at : Free(S, d, at)' = Free(S, d, at)
  BY DEF Free, Fits, Background, Load, ActiveAt, Reservation
<1>4. \A x : PlaceRight(x)' = PlaceRight(x)
  BY <1>1, <1>2, <1>3 DEF PlaceRight, SameEstimates
<1>5. QED
  BY <1>2, <1>4

---------------------------------------------------------------------------
(* A sound plan is one the validation accepts. *)

\* Different things for different elements are as many as they.
LEMMA AsMany ==
  ASSUME NEW S, IsFiniteSet(S), NEW g, g = [x \in S |-> g[x]],
         \A x, y \in S : g[x] = g[y] => x = y
  PROVE  Cardinality({g[x] : x \in S}) = Cardinality(S)
<1> DEFINE T == {g[x] : x \in S}
<1>1. /\ g \in [S -> T] /\ \A y \in T : \E x \in S : g[x] = y
      /\ \A x, y \in S : g[x] = g[y] => x = y
  OBVIOUS
<1>2. g \in Bijection(S, T)
  BY <1>1, Zenon DEF Bijection, Injection, Surjection, IsInjective
<1>3. QED
  <2> HIDE DEF T
  <2>1. Cardinality(T) = Cardinality(S)
    BY <1>2, FS_Bijection DEF ExistsBijection
  <2>2. QED
    BY <2>1 DEF T

\* Its tasks are all tasks of the epoch, each once.
LEMMA SoundCovers ==
  ASSUME NEW p, PlanTyped(p), Assigns(p), Parted(p, <<>>)
  PROVE  CoversEpoch(p)
<1> DEFINE assigned == {a.task : a \in ToSet(p.assigned)}
<1>1. Cardinality(assigned) = Len(p.assigned)
  <2>1. PICK D : D = DOMAIN p.assigned
    OBVIOUS
  <2>2. PICK task : task = [i \in D |-> p.assigned[i].task]
    OBVIOUS
  <2>3. \A i, j \in D : task[i] = task[j] => i = j
    BY <2>1, <2>2 DEF Assigns
  <2>4. IsFiniteSet(D) /\ Cardinality(D) = Len(p.assigned)
    BY <2>1, RangeIsFinite DEF PlanTyped
  <2>5. task = [i \in D |-> task[i]]
    BY <2>2
  <2>6. assigned = {task[i] : i \in D}
    BY <2>1, <2>2 DEF ToSet
  <2>7. Cardinality({task[i] : i \in D}) = Cardinality(D)
    BY ONLY <2>3, <2>4, <2>5, AsMany
  <2>8. QED
    BY <2>4, <2>6, <2>7
<1>2. Cardinality(ToSet(p.deferred)) = Len(p.deferred)
  <2>1. PICK D : D = DOMAIN p.deferred
    OBVIOUS
  <2>2. PICK s : s = p.deferred
    OBVIOUS
  <2>3. \A i, j \in D : s[i] = s[j] => i = j
    BY <2>1, <2>2 DEF Parted
  <2>4. IsFiniteSet(D) /\ Cardinality(D) = Len(p.deferred)
    BY <2>1, RangeIsFinite DEF PlanTyped
  <2>5. s = [i \in D |-> s[i]]
    BY <2>1, <2>2 DEF PlanTyped, Sequence
  <2>6. ToSet(p.deferred) = {s[i] : i \in D}
    BY <2>1, <2>2 DEF ToSet
  <2>7. Cardinality({s[i] : i \in D}) = Cardinality(D)
    BY ONLY <2>3, <2>4, <2>5, AsMany
  <2>8. QED
    BY <2>4, <2>6, <2>7
<1>3. assigned \cap ToSet(p.deferred) = {}
  BY DEF Parted, ToSet
<1>4. assigned \cup ToSet(p.deferred) = Ready
  <2>1. \A t \in Ready : t \in assigned \cup ToSet(p.deferred)
    <3>1. DOMAIN <<>> = {}
      OBVIOUS
    <3>2. QED
      BY <3>1 DEF Parted, ToSet
  <2>2. \A t \in assigned \cup ToSet(p.deferred) : t \in Ready
    BY DEF Parted, Assigns, ToSet
  <2>3. QED
    BY <2>1, <2>2
<1>5. QED
  BY <1>1, <1>2, <1>3, <1>4 DEF CoversEpoch

\* Behind an assignment that is not dropped there is one candidate.
LEMMA AssignedIsRealized ==
  ASSUME EstimateInv, NEW p, Assigns(p), NEW a \in Assigned(p)
  PROVE  \E c \in candidates : /\ Realizes(p, a, c) /\ CandidateRight(c) /\ c.energy \in Nat
                               /\ \A d \in candidates : d.task = a.task /\ d.node = a.node => d = c
<1>1. a \in ToSet(p.assigned) /\ a.node # 0
  BY DEF Assigned
<1>2. PICK c \in candidates : Realizes(p, a, c)
  BY <1>1 DEF Assigns
<1>3. c.task = a.task /\ c.node = a.node
  BY <1>2 DEF Realizes
<1>4. QED
  BY <1>2, <1>3 DEF EstimateInv, Estimated, CandidateRight

\* What is assigned differs in its task.
LEMMA AssignedDiffer ==
  ASSUME NEW p, PlanTyped(p), Assigns(p)
  PROVE  /\ \A a, b \in ToSet(p.assigned) : a.task = b.task => a = b
         /\ IsFiniteSet(Assigned(p)) /\ IsFiniteSet(ToSet(p.assigned))
<1>1. \A a, b \in ToSet(p.assigned) : a.task = b.task => a = b
  BY DEF Assigns, ToSet
<1>2. IsFiniteSet(ToSet(p.assigned)) /\ Assigned(p) \subseteq ToSet(p.assigned)
  BY RangeIsFinite DEF PlanTyped, Assigned
<1>3. QED
  BY <1>1, <1>2, FS_Subset

\* The reservation x is for the assignment a of the candidate c.
Served(p, a, c, x) ==
  /\ x = Reservation(c, x.start) /\ x.start \in Nat /\ x.finish = x.start + c.compute
  /\ x.id = <<"plan", x.task>> /\ x.node = a.node /\ x.demand = c.demand
  /\ problem.free[c.node] <= x.start /\ c.ready <= x.start
  /\ \A y \in TransfersOf(p, a) : y.finish <= x.start
  /\ a.finish = x.finish
  /\ a.start = Min({x.start} \cup {y.start : y \in TransfersOf(p, a)})
  /\ {y \in p.reservations : y.task = a.task} = {x}

\* A reservation is that of the candidate behind the assignment of its task.
LEMMA ReservedIsRealized ==
  ASSUME EstimateInv, NEW p, Assigns(p), NEW a \in Assigned(p), NEW c \in candidates,
         Realizes(p, a, c), NEW x \in p.reservations, x.task = a.task
  PROVE  Served(p, a, c, x)
<1>1. PICK z \in p.reservations :
          /\ {y \in p.reservations : y.task = a.task} = {z} /\ z = Reservation(c, z.start)
          /\ z.start \in Nat /\ problem.free[c.node] <= z.start /\ c.ready <= z.start
          /\ \A y \in TransfersOf(p, a) : y.finish <= z.start
          /\ a.finish = z.finish
          /\ a.start = Min({z.start} \cup {y.start : y \in TransfersOf(p, a)})
  BY DEF Realizes
<1>2. x = z
  <2>1. x \in {y \in p.reservations : y.task = a.task}
    OBVIOUS
  <2>2. QED
    BY <1>1, <2>1
<1>3. /\ x.id = <<"plan", c.task>> /\ x.task = c.task /\ x.node = c.node /\ x.demand = c.demand
      /\ x.finish = x.start + c.compute
  BY <1>1, <1>2 DEF Reservation
<1>4. c.node = a.node /\ c.task = a.task
  BY DEF Realizes
<1>5. QED
  BY <1>1, <1>2, <1>3, <1>4 DEF Served

\* An assignment repeats the estimates of its candidate.
LEMMA SoundAssignments ==
  ASSUME EstimateInv, NEW p, PlanTyped(p), Assigns(p), NEW a \in ToSet(p.assigned)
  PROVE  AssignmentValid(a)
<1>1. WellFormed(problem)
  BY ProblemAssumption DEF EstimateInv, Setting
<1>2. CASE a.node = 0
  <2> DEFINE at == Max({problem.now, problem.arrival[a.task]})
  <2>1. a.task \in Ready /\ a = Dropped(a.task)
    BY <1>2 DEF Assigns
  <2>2. problem.now \in Nat /\ problem.arrival[a.task] \in Nat
    BY <1>1, <2>1 DEF WellFormed, Ready
  <2>3. at \in Nat
    BY <2>2, MaxOfTwo
  <2>4. PICK t : t = a.task
    OBVIOUS
  <2>5. /\ a.start = at /\ a.finish = at /\ a.compute = 0
        /\ a.communication = 0 /\ a.energy = 0
    BY <2>1, <2>4 DEF Dropped
  <2> HIDE DEF at
  <2>6. DropValid(a)
    BY <2>3, <2>5 DEF DropValid, at
  <2>7. QED
    BY <1>2, <2>3, <2>5, <2>6 DEF AssignmentValid
<1>3. CASE a.node # 0
  <2>1. a \in Assigned(p)
    BY <1>3 DEF Assigned
  <2>2. PICK c \in candidates : Realizes(p, a, c) /\ CandidateRight(c)
    BY <2>1, AssignedIsRealized
  <2>3. PICK x \in p.reservations : x.task = a.task
    BY <2>2 DEF Realizes
  <2> DEFINE M == {x.start} \cup {y.start : y \in TransfersOf(p, a)}
  <2>4. /\ x.start \in Nat /\ x.finish = x.start + c.compute /\ c.ready <= x.start
        /\ a.finish = x.finish /\ a.start = Min(M)
    <3>1. Served(p, a, c, x)
      BY <2>1, <2>2, <2>3, ReservedIsRealized
    <3>2. QED
      BY <3>1 DEF Served
  <2>5. c.ready \in Nat /\ c.compute \in Nat
    BY <2>2, CandidateIsPlaceable DEF EstimateInv, Placeable
  <2>6. \A y \in TransfersOf(p, a) : y.start \in Nat /\ c.ready <= y.start
    BY <2>2 DEF Realizes, MadeFor
  <2>7. a.start \in M /\ \A m \in M : a.start <= m
    <3>1. M \in SUBSET Nat /\ M # {} /\ a.start = Min(M)
      BY <2>4, <2>6
    <3> HIDE DEF M
    <3>2. Min(M) \in M /\ \A m \in M : Min(M) <= m
      BY <3>1, MinOfSet
    <3>3. QED
      BY <3>1, <3>2
  <2>8. a.start \in Nat /\ c.ready <= a.start
    BY <2>4, <2>6, <2>7
  <2>9. a.start <= x.start
    BY <2>7
  <2>10. a.finish >= a.start
    BY <2>4, <2>5, <2>8, <2>9
  <2>11. /\ c \in CandidateOf(a) /\ a.start >= c.ready
         /\ a.compute = c.compute /\ a.energy = c.energy /\ a.success = c.success
         /\ a.locations = c.locations
    BY <2>2, <2>5, <2>8 DEF Realizes, CandidateOf
  <2>12. QED
    BY <1>3, <2>10, <2>11 DEF AssignmentValid
<1>4. QED
  BY <1>2, <1>3

\* Every computation is reserved once.
LEMMA SoundReservations ==
  ASSUME EstimateInv, NEW p, PlanTyped(p), Assigns(p)
  PROVE  ReservationsValid(p)
<1> DEFINE R == p.reservations
           A == Assigned(p)
           id == [x \in R |-> x.id]
           task == [x \in R |-> x.task]
           of == [a \in A |-> a.task]
<1>1. WellFormed(problem)
  BY ProblemAssumption DEF EstimateInv, Setting
<1>2. ASSUME NEW x \in R
      PROVE  \E a \in A : /\ a.task = x.task /\ x.id = <<"plan", x.task>> /\ x.task \in Ready
                          /\ {y \in R : y.task = a.task} = {x}
  <2>1. PICK a \in A : a.task = x.task
    BY DEF Assigns
  <2>2. PICK c \in candidates : Realizes(p, a, c)
    BY AssignedIsRealized
  <2>3. a.task \in Ready
    BY DEF Assigns, Assigned
  <2>4. a \in Assigned(p) /\ x \in p.reservations /\ x.task = a.task
    BY <2>1
  <2>5. x.id = <<"plan", x.task>> /\ {y \in p.reservations : y.task = a.task} = {x}
    <3>1. Served(p, a, c, x)
      BY <2>2, <2>4, ReservedIsRealized
    <3>2. QED
      BY <3>1 DEF Served
  <2>6. QED
    BY <2>1, <2>3, <2>5
<1>3. \A x, y \in R : x.task = y.task => x = y
  <2>1. ASSUME NEW x \in R, NEW y \in R, x.task = y.task PROVE x = y
    <3>1. PICK a \in A : a.task = x.task /\ {z \in R : z.task = a.task} = {x}
      BY <1>2
    <3>2. y \in {z \in R : z.task = a.task}
      BY <2>1, <3>1
    <3>3. QED
      BY <3>1, <3>2
  <2>2. QED
    BY <2>1
<1>4. \A x, y \in R : x.id = y.id => x = y
  <2>1. ASSUME NEW x \in R, NEW y \in R, x.id = y.id PROVE x = y
    <3>1. x.id = <<"plan", x.task>> /\ y.id = <<"plan", y.task>>
      BY <1>2
    <3>2. x.id[2] = x.task /\ y.id[2] = y.task
      BY <3>1
    <3>3. QED
      BY <1>3, <2>1, <3>2
  <2>2. QED
    BY <2>1
<1>5. IsFiniteSet(R) /\ IsFiniteSet(A)
  BY AssignedDiffer DEF PlanTyped
<1>6. Cardinality({x.id : x \in R}) = Cardinality(R)
  <2>1. {x.id : x \in R} = {id[x] : x \in R} /\ id = [x \in R |-> id[x]]
        /\ \A x, y \in R : id[x] = id[y] => x = y
    BY <1>4
  <2> HIDE DEF id, R
  <2>2. QED
    BY <1>5, <2>1, AsMany
<1>7. {x.id : x \in R} \cap {x.id : x \in problem.carryIn} = {}
  <2>1. ASSUME NEW x \in R, NEW y \in problem.carryIn PROVE x.id # y.id
    <3>1. x.id = <<"plan", x.task>> /\ x.task \in Ready
      BY <1>2
    <3>2. QED
      BY <1>1, <3>1 DEF WellFormed, Ready
  <2>2. QED
    BY <2>1
<1>8. {x.task : x \in R} = {a.task : a \in A}
  <2>1. ASSUME NEW a \in A PROVE \E x \in R : x.task = a.task
    <3>1. PICK c \in candidates : Realizes(p, a, c)
      BY AssignedIsRealized
    <3>2. QED
      BY <3>1 DEF Realizes
  <2>2. QED
    BY <1>2, <2>1
<1>9. Cardinality(R) = Cardinality(A)
  <2>1. {x.task : x \in R} = {task[x] : x \in R} /\ task = [x \in R |-> task[x]]
        /\ \A x, y \in R : task[x] = task[y] => x = y
    BY <1>3
  <2>2. {a.task : a \in A} = {of[a] : a \in A} /\ of = [a \in A |-> of[a]]
        /\ \A a, b \in A : of[a] = of[b] => a = b
    BY AssignedDiffer DEF Assigned
  <2> HIDE DEF task, of, R, A
  <2>3. Cardinality({task[x] : x \in R}) = Cardinality(R)
    BY <1>5, <2>1, AsMany
  <2>4. Cardinality({of[a] : a \in A}) = Cardinality(A)
    BY <1>5, <2>2, AsMany
  <2>5. QED
    BY <1>8, <2>1, <2>2, <2>3, <2>4
<1>10. ASSUME NEW x \in R, NEW a \in A, x.task = a.task
       PROVE  /\ x.node = a.node
              /\ \A c \in CandidateOf(a) : x.demand = c.demand /\ x.finish - x.start = c.compute
              /\ x.start >= a.start /\ x.start >= problem.free[x.node]
              /\ x.finish = a.finish
  <2>1. PICK c \in candidates : /\ Realizes(p, a, c) /\ CandidateRight(c)
                                /\ \A d \in candidates : d.task = a.task /\ d.node = a.node => d = c
    BY AssignedIsRealized
  <2> DEFINE M == {x.start} \cup {y.start : y \in TransfersOf(p, a)}
  <2>2. /\ x.start \in Nat /\ x.finish = x.start + c.compute /\ x.node = a.node
        /\ x.demand = c.demand /\ problem.free[c.node] <= x.start
        /\ a.finish = x.finish /\ a.start = Min(M)
    <3>1. a \in Assigned(p) /\ x \in p.reservations /\ x.task = a.task
      BY <1>10
    <3>2. Served(p, a, c, x)
      BY <2>1, <3>1, ReservedIsRealized
    <3>3. QED
      BY <3>2 DEF Served
  <2>3. c.compute \in Nat /\ c.node = a.node /\ problem.free[c.node] \in Nat
    BY <2>1, CandidateIsPlaceable DEF EstimateInv, Placeable, Realizes
  <2>4. \A d \in CandidateOf(a) : d = c
    BY <2>1 DEF CandidateOf
  <2>5. M \in SUBSET Nat /\ M # {}
    <3>1. \A y \in TransfersOf(p, a) : y.start \in Nat
      BY <2>1 DEF Realizes, MadeFor
    <3>2. QED
      BY <2>2, <3>1
  <2>6. Min(M) \in Nat /\ Min(M) <= x.start
    <3>1. x.start \in M
      OBVIOUS
    <3> HIDE DEF M
    <3>2. QED
      BY <2>5, <3>1, MinOfSet
  <2>8. x.start >= Min(M) /\ a.start = Min(M)
    <3>1. a.start = Min(M)
      BY <2>2
    <3> HIDE DEF M
    <3>2. QED
      BY <2>2, <2>6, <3>1
  <2> HIDE DEF M
  <2>7. QED
    BY <2>2, <2>3, <2>4, <2>6, <2>8
<1>11. QED
  BY <1>6, <1>7, <1>8, <1>9, <1>10 DEF ReservationsValid

\* A node bears a plan at every moment the validation looks at.
LEMMA SoundCapacity ==
  ASSUME EstimateInv, NEW p, Assigns(p), Holds(p)
  PROVE  CapacityValid(p)
<1>1. WellFormed(problem)
  BY ProblemAssumption DEF EstimateInv, Setting
<1>2. ASSUME NEW x \in p.reservations PROVE x.node \in Nodes /\ x.start \in Nat /\ x.finish \in Nat
  <2>1. PICK a \in Assigned(p) : a.task = x.task
    BY DEF Assigns
  <2>2. PICK c \in candidates : Realizes(p, a, c) /\ CandidateRight(c)
    BY AssignedIsRealized
  <2>3. x.start \in Nat /\ x.finish = x.start + c.compute /\ x.node = a.node
    <3>1. x.task = a.task
      BY <2>1
    <3>2. Served(p, a, c, x)
      BY <2>2, <3>1, ReservedIsRealized
    <3>3. QED
      BY <3>2 DEF Served
  <2>4. c.compute \in Nat /\ c.node \in Nodes /\ c.node = a.node
    BY <2>2, CandidateIsPlaceable DEF EstimateInv, Placeable, Realizes
  <2>5. QED
    BY <2>3, <2>4
<1>3. \A x \in problem.carryIn : x.node \in Nodes /\ x.start \in Nat /\ x.finish \in Nat
  BY <1>1 DEF WellFormed
<1>4. problem.now \in Nat
  BY <1>1 DEF WellFormed
<1>5. ASSUME NEW n \in {x.node : x \in p.reservations \cup problem.carryIn}, NEW planned, NEW all,
             planned = {x \in p.reservations : x.node = n},
             all = planned \cup {x \in problem.carryIn : x.node = n},
             NEW u \in CapacityPoints(all, planned), ActiveAt(planned, n, u) # {}
      PROVE  Fits(n, ActiveAt(all, n, u))
  <2>1. n \in Nodes
    BY <1>2, <1>3
  <2>2. u \in Nat
    <3>1. CASE u = problem.now
      BY <1>4, <3>1
    <3>2. CASE u # problem.now
      <4>1. PICK x \in all : u \in {Max({problem.now, x.start}), x.finish}
        BY <1>5, <3>2 DEF CapacityPoints
      <4>2. x.start \in Nat /\ x.finish \in Nat
        BY <1>2, <1>3, <1>5, <4>1
      <4>3. Max({problem.now, x.start}) \in Nat
        BY <1>4, <4>2, MaxOfTwo
      <4>4. QED
        BY <4>1, <4>2, <4>3
    <3>3. QED
      BY <3>1, <3>2
  <2>3. ActiveAt(planned, n, u) = ActiveAt(p.reservations, n, u)
    BY <1>5 DEF ActiveAt
  <2>4. ActiveAt(all, n, u) = ActiveAt(problem.carryIn \cup p.reservations, n, u)
    BY <1>5 DEF ActiveAt
  <2>5. QED
    BY <1>5, <2>1, <2>2, <2>3, <2>4 DEF Holds
<1>6. QED
  BY <1>5 DEF CapacityValid

---------------------------------------------------------------------------
(* The transfers of a sound plan are those of its candidates. *)

\* What the validation looks at in a transfer.
Record(x) == [id |-> x.transfer, path |-> x.path, time |-> x.finish - x.start]

\* The transfer x is that of an input of c that moves.
Recorded(c, x) ==
  /\ x.task = c.task /\ x.path # <<>> /\ ToSet(x.path) \subseteq Links
  /\ \E i \in Moving(c) : x.id = <<c.task, i>> /\ Record(x) = c.transfers[i]

Sent(c) == TransfersRight(c.transfers, c.task, c.node)

\* The record of a transfer in the plan is that of an input that moves.
LEMMA TransferRecords ==
  ASSUME NEW c, Sent(c), NEW own, MadeFor(c, own)
  PROVE  /\ \A x \in own : Recorded(c, x)
         /\ \A i \in Moving(c) : c.transfers[i].id = i
         /\ IsFiniteSet(Moving(c))
<1>1. c.transfers \in Seq(Transfers) /\ \A i \in DOMAIN c.transfers : c.transfers[i].id = i
  BY DEF Sent, TransfersRight
<1>2. ASSUME NEW x \in own
      PROVE  Recorded(c, x)
  <2>1. PICK i \in Moving(c) : x = Transfer(c, i, x.start)
    BY DEF MadeFor
  <2>2. i \in DOMAIN c.transfers /\ c.transfers[i].path # <<>> /\ x.start \in Nat
    BY DEF Moving, MadeFor
  <2>3. PICK m : m = c.transfers[i]
    OBVIOUS
  <2>4. m \in Transfers
    BY <1>1, <2>2, <2>3
  <2>5. m = [id |-> m.id, path |-> m.path, time |-> m.time] /\ m.path \in Seq(Links) /\ m.time \in Nat
    BY <2>4 DEF Transfers
  <2>6. /\ x.id = <<c.task, i>> /\ x.task = c.task /\ x.transfer = m.id /\ x.path = m.path
        /\ x.finish = x.start + m.time
    BY <2>1, <2>3 DEF Transfer
  <2>7. x.finish - x.start = m.time
    BY <2>2, <2>5, <2>6
  <2>8. ToSet(m.path) \subseteq Links
    <3>1. \A k \in DOMAIN m.path : m.path[k] \in Links
      BY <2>5
    <3>2. QED
      BY <3>1 DEF ToSet
  <2>9. QED
    BY <2>2, <2>3, <2>5, <2>6, <2>7, <2>8 DEF Recorded, Record
<1>3. IsFiniteSet(Moving(c))
  <2>1. DOMAIN c.transfers = 1 .. Len(c.transfers) /\ Len(c.transfers) \in Nat
    BY <1>1
  <2>2. IsFiniteSet(1 .. Len(c.transfers))
    BY <2>1, FS_Interval
  <2>3. QED
    BY <2>1, <2>2, FS_Subset DEF Moving
<1>4. QED
  BY <1>1, <1>2, <1>3 DEF Moving

\* The transfers of a candidate are as many as its inputs that move, and finitely many.
LEMMA MadeAreFinite ==
  ASSUME NEW c, Sent(c), NEW own, MadeFor(c, own)
  PROVE  IsFiniteSet(own) /\ \A x, y \in own : Record(x) = Record(y) => x = y
<1> DEFINE place == [x \in own |-> x.id[2]]
<1>1. ASSUME NEW x \in own
      PROVE  \E i \in Moving(c) : /\ x.id = <<c.task, i>> /\ place[x] = i
                                  /\ Record(x).id = i
  <2>1. PICK i \in Moving(c) : x.id = <<c.task, i>> /\ Record(x) = c.transfers[i]
    BY TransferRecords DEF Recorded
  <2>2. c.transfers[i].id = i
    BY TransferRecords
  <2>3. x.id[2] = i
    BY <2>1
  <2>4. QED
    BY <2>1, <2>2, <2>3
<1>2. \A x, y \in own : x.id = y.id => x = y
  BY DEF MadeFor
<1>3. place = [x \in own |-> place[x]]
  OBVIOUS
<1> HIDE DEF place
<1>4. place \in [own -> Moving(c)]
  BY <1>1, <1>3
<1>5. \A x, y \in own : place[x] = place[y] => x = y
  BY <1>1, <1>2
<1>6. IsFiniteSet(own)
  <2>1. place \in Injection(own, Moving(c))
    BY <1>4, <1>5, Zenon DEF Injection, IsInjective
  <2>2. IsFiniteSet(Moving(c))
    BY TransferRecords
  <2>3. QED
    BY <2>1, <2>2, FS_Injection
<1>7. \A x, y \in own : Record(x) = Record(y) => x = y
  BY <1>1, <1>2
<1>8. QED
  BY <1>6, <1>7

\* The transfers of a plan are those its candidates need.
LEMMA SoundTransfers ==
  ASSUME EstimateInv, NEW p, PlanTyped(p), Assigns(p), Waits(p)
  PROVE  TransfersValid(p)
<1> DEFINE S == p.transfers
<1>1. ASSUME NEW a \in Assigned(p)
      PROVE  \E c \in candidates :
               /\ Realizes(p, a, c) /\ CandidateRight(c) /\ MadeFor(c, TransfersOf(p, a))
               /\ Sent(c)
               /\ \A d \in candidates : d.task = a.task /\ d.node = a.node => d = c
  <2>1. PICK c \in candidates :
               /\ Realizes(p, a, c) /\ CandidateRight(c)
               /\ \A d \in candidates : d.task = a.task /\ d.node = a.node => d = c
    BY AssignedIsRealized
  <2>2. MadeFor(c, TransfersOf(p, a))
    BY <2>1 DEF Realizes
  <2>3. Sent(c)
    BY <2>1 DEF CandidateRight, Sent
  <2>4. QED
    BY <2>1, <2>2, <2>3
<1>2. ASSUME NEW x \in S
      PROVE  \E a \in Assigned(p) : a.task = x.task /\ x \in TransfersOf(p, a)
  <2>1. PICK a \in Assigned(p) : a.task = x.task
    BY DEF Assigns
  <2>2. QED
    BY <2>1 DEF TransfersOf
<1>3. ASSUME NEW x \in S, NEW y \in S, x.id = y.id PROVE x = y
  <2>1. PICK a \in Assigned(p) : a.task = x.task /\ x \in TransfersOf(p, a)
    BY <1>2
  <2>2. PICK b \in Assigned(p) : b.task = y.task /\ y \in TransfersOf(p, b)
    BY <1>2
  <2>3. PICK c \in candidates : /\ Realizes(p, a, c) /\ MadeFor(c, TransfersOf(p, a))
                                /\ Sent(c)
    BY <1>1
  <2>4. PICK d \in candidates : /\ Realizes(p, b, d) /\ MadeFor(d, TransfersOf(p, b))
                                /\ Sent(d)
    BY <1>1
  <2>5. PICK i : x.id = <<c.task, i>> /\ x.task = c.task
    BY <2>1, <2>3, TransferRecords DEF Recorded
  <2>6. PICK j : y.id = <<d.task, j>> /\ y.task = d.task
    BY <2>2, <2>4, TransferRecords DEF Recorded
  <2>7. c.task = d.task
    <3>1. x.id[1] = c.task /\ y.id[1] = d.task
      BY <2>5, <2>6
    <3>2. QED
      BY <1>3, <3>1
  <2>8. y \in TransfersOf(p, a)
    BY <2>1, <2>2, <2>5, <2>6, <2>7 DEF TransfersOf
  <2>9. QED
    BY <1>3, <2>1, <2>3, <2>8 DEF MadeFor
<1>4. Cardinality({x.id : x \in S}) = Cardinality(S)
  <2> DEFINE id == [x \in S |-> x.id]
  <2>1. /\ {x.id : x \in S} = {id[x] : x \in S} /\ id = [x \in S |-> id[x]]
        /\ \A x, y \in S : id[x] = id[y] => x = y
    BY <1>3
  <2>2. IsFiniteSet(S)
    BY DEF Assigns
  <2>3. PICK g : g = id
    OBVIOUS
  <2> HIDE DEF id, S
  <2>4. Cardinality({g[x] : x \in S}) = Cardinality(S)
    BY <2>1, <2>2, <2>3, AsMany
  <2>5. {g[x] : x \in S} = {x.id : x \in S}
    BY <2>1, <2>3
  <2>6. QED
    BY <2>4, <2>5
<1>5. ASSUME NEW x \in S
      PROVE  /\ x.task \in {a.task : a \in Assigned(p)}
             /\ x.path # <<>> /\ ToSet(x.path) \subseteq Links
             /\ \A l \in ToSet(x.path) : x.start >= problem.linkFree[l]
  <2>1. PICK a \in Assigned(p) : a.task = x.task /\ x \in TransfersOf(p, a)
    BY <1>2
  <2>2. PICK c \in candidates : /\ Realizes(p, a, c) /\ MadeFor(c, TransfersOf(p, a))
                                /\ Sent(c)
    BY <1>1
  <2>3. x.path # <<>> /\ ToSet(x.path) \subseteq Links
    BY <2>1, <2>2, TransferRecords DEF Recorded
  <2>4. ASSUME NEW l \in ToSet(x.path) PROVE x.start >= problem.linkFree[l]
    <3>1. x.start \in Nat /\ problem.linkFree[l] \in Nat
      <4>1. WellFormed(problem)
        BY ProblemAssumption DEF EstimateInv, Setting
      <4>2. QED
        BY <2>1, <2>2, <2>3, <4>1 DEF MadeFor, WellFormed
    <3>2. QED
      BY <3>1 DEF Waits
  <2>5. QED
    BY <2>1, <2>3, <2>4
<1>6. ASSUME NEW a \in Assigned(p), NEW c \in candidates, c.task = a.task, c.node = a.node
      PROVE  LET own == TransfersOf(p, a)
                 Length(x) == x.finish - x.start
                 moves == {y \in ToSet(c.transfers) : y.path # <<>> /\ y.time > 0}
                 starts == {x.start : x \in {y \in p.reservations : y.task = a.task}}
             IN /\ {[id |-> x.transfer, path |-> x.path, time |-> Length(x)] : x \in own} = moves
                /\ Cardinality(own) = Cardinality(moves)
                /\ a.communication = MapThenSumSet(Length, own)
                /\ \A x \in own, s \in starts : x.finish <= s
                /\ a.start = Min(starts \cup {x.start : x \in own})
  <2>0. PICK own, moves, starts :
          /\ own = TransfersOf(p, a)
          /\ moves = {y \in ToSet(c.transfers) : y.path # <<>> /\ y.time > 0}
          /\ starts = {x.start : x \in {y \in p.reservations : y.task = a.task}}
    OBVIOUS
  <2>1. /\ Realizes(p, a, c) /\ CandidateRight(c) /\ MadeFor(c, own)
        /\ Sent(c)
    BY <1>1, <1>6, <2>0
  <2>2. moves = {c.transfers[i] : i \in Moving(c)}
    BY <1>6, <2>0 DEF Moving, ToSet
  <2>3. {Record(x) : x \in own} = moves
    <3>1. \A x \in own : Record(x) \in moves
      BY <2>1, <2>2, TransferRecords DEF Recorded
    <3>2. ASSUME NEW i \in Moving(c) PROVE \E x \in own : Record(x) = c.transfers[i]
      <4>1. PICK x \in own : x.id = <<c.task, i>>
        BY <2>1 DEF MadeFor
      <4>2. PICK j \in Moving(c) : x.id = <<c.task, j>> /\ Record(x) = c.transfers[j]
        BY <2>1, TransferRecords DEF Recorded
      <4>3. x.id[2] = i /\ x.id[2] = j
        BY <4>1, <4>2
      <4>4. QED
        BY <4>2, <4>3
    <3>3. QED
      BY <2>2, <3>1, <3>2
  <2>4. Cardinality(own) = Cardinality(moves)
    <3> DEFINE record == [x \in own |-> Record(x)]
    <3>1. \A x, y \in own : record[x] = record[y] => x = y
      BY <2>1, MadeAreFinite
    <3>2. IsFiniteSet(own) /\ record = [x \in own |-> record[x]]
      BY <2>1, MadeAreFinite
    <3>3. {record[x] : x \in own} = moves
      BY <2>3
    <3>4. PICK g : g = record
      OBVIOUS
    <3> HIDE DEF record
    <3>5. Cardinality({g[x] : x \in own}) = Cardinality(own)
      BY <3>1, <3>2, <3>4, AsMany
    <3>6. QED
      BY <3>3, <3>4, <3>5
  <2>5. a.communication = Spent(own)
    BY <1>6, <2>0, <2>1 DEF Realizes
  <2>6. PICK x \in p.reservations : x.task = a.task
    BY <2>1 DEF Realizes
  <2>7. Served(p, a, c, x)
    BY <1>6, <2>0, <2>1, <2>6, ReservedIsRealized
  <2>8. starts = {x.start}
    BY <1>6, <2>0, <2>7 DEF Served
  <2>9. \A y \in own, s \in starts : y.finish <= s
    BY <1>6, <2>0, <2>7, <2>8 DEF Served
  <2>10. a.start = Min(starts \cup {y.start : y \in own})
    BY <1>6, <2>0, <2>7, <2>8 DEF Served
  <2>11. QED
    BY <2>0, <2>3, <2>4, <2>5, <2>9, <2>10 DEF Spent, Record
<1>7. QED
  BY <1>4, <1>5, <1>6 DEF TransfersValid

---------------------------------------------------------------------------
(* What makes a plan valid, and the choice of the next decision. *)

\* A sound plan is valid, but for the batteries and the hard constraints.
LEMMA ProperIsValid ==
  ASSUME EstimateInv, NEW p, PlanTyped(p), Proper(p),
         problem.maxIterations > 0 => p.iterations <= problem.maxIterations
  PROVE  PlanValid(p) \/ ~EnergyValid(p) \/ HardViolation(p)
<1>1. /\ Assigns(p) /\ Holds(p) /\ LinksValid(p) /\ Waits(p) /\ Parted(p, <<>>)
      /\ p.status \notin {"infeasible", "error"}
  BY DEF Proper, Sound
<1>2. CoversEpoch(p) /\ ReservationsValid(p) /\ CapacityValid(p) /\ TransfersValid(p)
  BY <1>1, SoundCovers, SoundReservations, SoundCapacity, SoundTransfers
<1>3. \A a \in ToSet(p.assigned) : AssignmentValid(a)
  BY <1>1, SoundAssignments
<1>4. QED
  BY <1>1, <1>2, <1>3 DEF PlanValid

\* What is said of a plan is said of its assignments, reservations, transfers and
\* deferred tasks.
LEMMA SamePlan ==
  ASSUME NEW p, NEW q, q.assigned = p.assigned, q.reservations = p.reservations,
         q.transfers = p.transfers
  PROVE  /\ Sound(q) = Sound(p) /\ EnergyValid(q) = EnergyValid(p)
         /\ q.deferred = p.deferred =>
              (\A rest : Parted(q, rest) = Parted(p, rest)) /\ HardViolation(q) = HardViolation(p)
<1>1. Assigned(q) = Assigned(p)
  BY DEF Assigned
<1>2. EnergyValid(q) = EnergyValid(p)
  BY <1>1 DEF EnergyValid
<1>3. Sound(q) = Sound(p)
  <2>1. \A a, c : Realizes(q, a, c) = Realizes(p, a, c)
    BY DEF Realizes, TransfersOf
  <2>2. Assigns(q) = Assigns(p)
    BY <1>1, <2>1 DEF Assigns
  <2>3. Holds(q) = Holds(p) /\ LinksValid(q) = LinksValid(p) /\ Waits(q) = Waits(p)
    BY DEF Holds, LinksValid, Waits
  <2>4. QED
    BY <2>2, <2>3 DEF Sound
<1>4. ASSUME q.deferred = p.deferred
      PROVE  (\A rest : Parted(q, rest) = Parted(p, rest)) /\ HardViolation(q) = HardViolation(p)
  <2>1. \A rest : Parted(q, rest) = Parted(p, rest)
    BY <1>4 DEF Parted
  <2>2. \A m : PlanMetric(m, q) = PlanMetric(m, p)
    BY <1>1, <1>4 DEF PlanMetric
  <2>3. HardViolation(q) = HardViolation(p)
    BY <2>2 DEF HardViolation, Violation
  <2>4. QED
    BY <2>1, <2>3
<1>5. QED
  BY <1>2, <1>3, <1>4

\* The estimates of a candidate make its transfers.
Onward(task, transfers, ready, free) ==
  LET step[i \in 0 .. Len(transfers)] ==
        IF i = 0 THEN [at |-> Max({problem.now, ready}), links |-> free, made |-> {}]
        ELSE LET before == step[i - 1]
                 x == transfers[i]
                 start == Max({before.at} \cup {before.links[l] : l \in ToSet(x.path)})
             IN IF x.path = <<>> \/ x.time = 0 THEN before
                ELSE [at |-> start + x.time,
                      links |-> [l \in Links |-> IF l \in ToSet(x.path) THEN start + x.time
                                                                       ELSE before.links[l]],
                      made |-> before.made \cup
                                 {[id |-> <<task, i>>, task |-> task, transfer |-> transfers[i].id,
                                   path |-> transfers[i].path, start |-> start,
                                   finish |-> start + transfers[i].time]}]
  IN step[Len(transfers)]

\* Candidates with the same estimates have the same transfers and reservation.
LEMMA SameTransfers ==
  ASSUME NEW c, NEW d, SameEstimates(d, c)
  PROVE  /\ \A free : Transferred(d, free) = Transferred(c, free)
         /\ \A at : Reservation(d, at) = Reservation(c, at)
         /\ \A S, at : Free(S, d, at) = Free(S, c, at)
<1>1. \A e, free : Transferred(e, free) = Onward(e.task, e.transfers, e.ready, free)
  BY DEF Transferred, Onward, Transfer
<1>2. d.task = c.task /\ d.transfers = c.transfers /\ d.ready = c.ready
      /\ d.node = c.node /\ d.compute = c.compute /\ d.demand = c.demand
  BY DEF SameEstimates
<1>3. \A at : Reservation(d, at) = Reservation(c, at)
  BY <1>2 DEF Reservation
<1>4. \A S, at : Free(S, d, at) = Free(S, c, at)
  BY <1>2, <1>3 DEF Free
<1>5. QED
  BY <1>1, <1>2, <1>3, <1>4

\* Of finitely many things in a total order one is the least.
LEMMA LeastExists ==
  ASSUME NEW S, IsFiniteSet(S), S # {}, NEW R,
         \A x \in S : <<x, x>> \notin R,
         \A x, y \in S : x = y \/ <<x, y>> \in R \/ <<y, x>> \in R,
         \A x, y, z \in S : <<x, y>> \in R /\ <<y, z>> \in R => <<x, z>> \in R
  PROVE  \E x \in S : \A y \in S : x = y \/ <<x, y>> \in R
<1> DEFINE below(x) == {y \in S : <<y, x>> \in R}
           level == [x \in S |-> Cardinality(below(x))]
<1>1. \A x \in S : IsFiniteSet(below(x)) /\ Cardinality(below(x)) \in Nat
  BY FS_Subset, FS_CardinalityType
<1>2. PICK x \in S : \A y \in S : ~(level[y] < level[x])
  <2>1. \A x \in S : level[x] \in Nat
    BY <1>1
  <2> HIDE DEF level
  <2>2. QED
    BY <2>1, MinimalLevel
<1>3. ASSUME NEW y \in S, <<y, x>> \in R PROVE FALSE
  <2>1. below(y) \subseteq below(x) /\ y \in below(x) /\ y \notin below(y)
    BY <1>3
  <2>2. IsFiniteSet(below(x)) /\ Cardinality(below(x)) \in Nat /\ Cardinality(below(y)) \in Nat
    BY <1>1
  <2>3. Cardinality(below(y)) <= Cardinality(below(x))
        /\ Cardinality(below(y)) # Cardinality(below(x))
    <3> HIDE DEF below
    <3>1. below(y) # below(x)
      BY <2>1
    <3>2. QED
      BY <2>1, <2>2, <3>1, FS_Subset
  <2>4. level[y] < level[x]
    BY <2>2, <2>3
  <2>5. QED
    BY <1>2, <2>4
<1>4. QED
  BY <1>3

\* So one of finitely many decisions is taken next.
LEMMA NextDecision ==
  ASSUME NEW S, IsFiniteSet(S), S # {}, S \subseteq Seq(Nat)
  PROVE  (CHOOSE x \in S : \A y \in S : x = y \/ Precedes(x, y)) \in S
<1> DEFINE R == {z \in Seq(Int) \X Seq(Int) : Before(z[1], z[2])}
<1>1. S \subseteq Seq(Int) /\ \A x, y \in S : <<x, y>> \in R <=> Before(x, y)
  <2>1. \A x \in Seq(Nat) : x \in Seq(Int)
    OBVIOUS
  <2>2. QED
    BY <2>1
<1>2. \A x \in S : <<x, x>> \notin R
  BY <1>1, BeforeItself
<1>3. \A x, y \in S : x = y \/ <<x, y>> \in R \/ <<y, x>> \in R
  BY <1>1, BeforeTotal
<1>4. \A x, y, z \in S : <<x, y>> \in R /\ <<y, z>> \in R => <<x, z>> \in R
  BY <1>1, BeforeTrans
<1>5. \E x \in S : \A y \in S : x = y \/ <<x, y>> \in R
  <2> HIDE DEF R
  <2>1. QED
    BY <1>2, <1>3, <1>4, LeastExists
<1>6. \E x \in S : \A y \in S : x = y \/ Precedes(x, y)
  <2>1. \A x, y \in S : Before(x, y) => Precedes(x, y)
    BY <1>1, PrecedesIsBefore
  <2>2. QED
    BY <1>1, <1>5, <2>1
<1>7. QED
  BY <1>6

\* There are finitely many ways to choose.
LEMMA DecisionsFinite ==
  ASSUME NEW S, IsFiniteSet(S), NEW T, IsFiniteSet(T)
  PROVE  IsFiniteSet([S -> T])
<1> DEFINE graph == [f \in [S -> T] |-> {x \in S \X T : f[x[1]] = x[2]}]
<1>1. IsFiniteSet(SUBSET (S \X T))
  BY FS_Product, FS_SUBSET
<1>2. \A f \in [S -> T] : graph[f] \in SUBSET (S \X T)
  OBVIOUS
<1>3. ASSUME NEW f \in [S -> T], NEW h \in [S -> T], graph[f] = graph[h] PROVE f = h
  <2>1. ASSUME NEW x \in S PROVE f[x] = h[x]
    <3>1. <<x, f[x]>> \in graph[f]
      OBVIOUS
    <3>2. <<x, f[x]>> \in graph[h]
      BY <1>3, <3>1
    <3>3. QED
      BY <3>2
  <2>2. QED
    BY <2>1
<1>4. graph = [f \in [S -> T] |-> graph[f]]
  OBVIOUS
<1>5. graph \in Injection([S -> T], SUBSET (S \X T))
  <2> HIDE DEF graph
  <2>1. graph \in [[S -> T] -> SUBSET (S \X T)] /\ \A f, h \in [S -> T] : graph[f] = graph[h] => f = h
    BY <1>2, <1>3, <1>4
  <2>2. QED
    BY <2>1, Zenon DEF Injection, IsInjective
<1>6. QED
  BY <1>1, <1>5, FS_Injection

---------------------------------------------------------------------------
(* Batteries. *)

\* The energy of assignments or candidates is a sum.
LEMMA EnergyIsSum ==
  ASSUME NEW S
  PROVE  LET Energy(x) == x.energy
         IN SumOver(Energy, S) = SumFunctionOnSet([x \in S |-> x.energy], S)
<1> DEFINE Energy(x) == x.energy
           f == [x \in S |-> x.energy]
           Drawn(g) == g = [s \in SUBSET S |-> IF s = {} THEN 0
                                               ELSE Energy(Picked(s)) + g[s \ {Picked(s)}]]
<1>1. SumOver(Energy, S) = (CHOOSE g : Drawn(g))[S]
  BY DEF SumOver, MapThenSumSet, MapThenFoldSet, Picked
<1>2. SumFunctionOnSet(f, S) = (CHOOSE g : IsSum(g, f, S))[S]
  BY DEF SumFunctionOnSet, FoldFunctionOnSet, MapThenFoldSet, IsSum, Picked
<1>3. \A s \in SUBSET S : s # {} => Energy(Picked(s)) = f[Picked(s)]
  <2>1. \A s \in SUBSET S : s # {} => Picked(s) \in S
    BY DEF Picked
  <2>2. QED
    BY <2>1
<1>4. \A g : Drawn(g) <=> IsSum(g, f, S)
  <2> HIDE DEF f, Energy
  <2>1. QED
    BY <1>3 DEF IsSum
<1>5. (CHOOSE g : Drawn(g)) = (CHOOSE g : IsSum(g, f, S))
  <2> HIDE DEF f, Drawn
  <2>1. QED
    BY <1>4
<1>6. QED
  BY <1>1, <1>2, <1>5

\* If the batteries last for the candidates selected, they last for a plan of them.
LEMMA SelectionLasts ==
  ASSUME EstimateInv, NEW p, PlanTyped(p), Assigns(p), NEW cs, Affordable(cs),
         IsFiniteSet(ToSet(cs)), ToSet(cs) \subseteq candidates,
         \A a \in Assigned(p) : \E c \in ToSet(cs) : Matches(a, c)
  PROVE  EnergyValid(p)
<1> DEFINE Energy(x) == x.energy
<1>1. ASSUME NEW n \in DOMAIN problem.battery
      PROVE  SumOver(Energy, {a \in Assigned(p) : a.node = n}) <= problem.battery[n]
  <2> DEFINE A == {a \in Assigned(p) : a.node = n}
             C == {c \in ToSet(cs) : c.node = n}
             f == [a \in A |-> a.energy]
             h == [c \in C |-> c.energy]
             g == [a \in A |-> CHOOSE c \in C : Matches(a, c)]
  <2>1. \A a \in A : \E c \in C : Matches(a, c)
    BY DEF Matches
  <2>2. \A a \in A : g[a] \in C /\ Matches(a, g[a])
    BY <2>1
  <2>3. \A a, b \in Assigned(p) : a.task = b.task => a = b
    BY AssignedDiffer DEF Assigned
  <2>4. g = [a \in A |-> g[a]]
    OBVIOUS
  <2>5. IsFiniteSet(A) /\ IsFiniteSet(C)
    BY AssignedDiffer, FS_Subset
  <2>6. \A c \in C : h[c] \in Nat
    BY DEF EstimateInv, Estimated, CandidateRight
  <2>7. \A a \in A : f[a] = h[g[a]]
    <3> HIDE DEF g
    <3>1. QED
      BY <2>2 DEF Matches
  <2>8. g \in [A -> C] /\ \A a, b \in A : g[a] = g[b] => a = b
    <3> HIDE DEF g
    <3>1. \A a, b \in A : g[a] = g[b] => a = b
      BY <2>2, <2>3 DEF Matches
    <3>2. QED
      BY <2>2, <2>4, <3>1
  <2>9. g \in Injection(A, C)
    <3> HIDE DEF g, A, C
    <3>1. QED
      BY <2>8, Zenon DEF Injection, IsInjective
  <2>10. SumFunctionOnSet(f, A) <= SumFunctionOnSet(h, C)
    <3> HIDE DEF f, h, g, A, C
    <3>1. QED
      BY <2>5, <2>6, <2>7, <2>9, SumOfPart
  <2>11. SumFunctionOnSet(f, A) \in Nat /\ SumFunctionOnSet(h, C) \in Nat
    <3>1. \A a \in A : f[a] \in Nat
      <4> HIDE DEF f, h, g
      <4>1. QED
        BY <2>2, <2>6, <2>7
    <3> HIDE DEF f, h, g, A, C
    <3>2. QED
      BY <2>5, <2>6, <3>1, SumIsNumber
  <2>12. SumOver(Energy, A) = SumFunctionOnSet(f, A) /\ SumOver(Energy, C) = SumFunctionOnSet(h, C)
    <3>1. \A S : SumOver(Energy, S) = SumFunctionOnSet([x \in S |-> x.energy], S)
      BY EnergyIsSum
    <3>2. PICK T : T = A
      OBVIOUS
    <3>3. PICK U : U = C
      OBVIOUS
    <3>4. SumOver(Energy, T) = SumFunctionOnSet([x \in T |-> x.energy], T)
      BY <3>1
    <3>5. SumOver(Energy, U) = SumFunctionOnSet([x \in U |-> x.energy], U)
      BY <3>1
    <3>6. QED
      BY <3>2, <3>3, <3>4, <3>5
  <2>13. SumOver(Energy, C) <= problem.battery[n]
    BY DEF Affordable
  <2>14. problem.battery[n] \in Nat
    BY ProblemAssumption DEF EstimateInv, Setting, WellFormed
  <2>15. PICK i, j \in Nat : i = SumFunctionOnSet(f, A) /\ j = SumFunctionOnSet(h, C)
    BY <2>11
  <2>16. i <= problem.battery[n]
    <3>1. i <= j
      <4> HIDE DEF f, h, A, C
      <4>1. QED
        BY <2>10, <2>15
    <3>2. j <= problem.battery[n]
      BY <2>12, <2>13, <2>15
    <3>3. QED
      BY <2>14, <3>1, <3>2
  <2>17. QED
    BY <2>12, <2>15, <2>16
<1>2. QED
  BY <1>1 DEF EnergyValid

---------------------------------------------------------------------------
(* The steps that ask, and those that decide nothing. *)

Planned == PlanningInv /\ PlansRight /\ BuiltInInv

\* What has been kept stays.
LEMMA ReturnedStays ==
  ASSUME ReturnedRight, UNCHANGED <<problem, candidates, incumbent>>, pc' # "validate"
  PROVE  ReturnedRight'
<1>1. \A p : Proper(p)' = Proper(p) /\ Kept(p)' = Kept(p)
  BY SoundStays, KeptStays DEF Kept
<1>2. QED
  BY <1>1 DEF ReturnedRight

\* So does a draft while it is not worked on.
LEMMA DraftStays ==
  ASSUME DraftRight, UNCHANGED <<problem, candidates, optimizer, todo, draft, calendar, links>>,
         Drafting' => Drafting
  PROVE  DraftRight'
<1>1. \A p : Sound(p)' = Sound(p)
  BY SoundStays
<1>2. \A p, rest : Parted(p, rest)' = Parted(p, rest)
  BY SoundStays
<1>3. \A S, after : Freed(S, after)' = Freed(S, after)
  BY DEF Freed
<1>4. QED
  BY <1>1, <1>2, <1>3 DEF DraftRight

\* So does a decision.
LEMMA DecisionStays ==
  ASSUME DecisionRight,
         UNCHANGED <<problem, candidates, optimizer, todo, draft, remaining, selection>>,
         Drafting' => Drafting
  PROVE  DecisionRight'
<1>1. \A s : Decision(s)' = Decision(s)
  BY DEF Decision
<1>2. Chosen(selection)' = Chosen(selection)
  BY ChosenStays
<1>3. Affordable(Chosen(selection))' = Affordable(Chosen(selection))
  <2>1. PICK cs : cs = Chosen(selection)
    OBVIOUS
  <2>2. Affordable(cs)' = Affordable(cs)
    BY AffordableStays
  <2>3. QED
    BY <1>2, <2>1, <2>2
<1>4. OneHotAsked' = OneHotAsked /\ Decided' = Decided /\ Ready' = Ready
  BY DEF OneHotAsked, Decided, Ready
<1>5. QED
  BY <1>1, <1>2, <1>3, <1>4 DEF DecisionRight

\* The candidates are estimated.
LEMMA BuiltInBuilding ==
  ASSUME Planned, Building
  PROVE  BuiltInInv'
<1>1. /\ pc \in {"estimate", "route"} /\ pc' \in {"estimate", "route"}
      /\ UNCHANGED <<problem, optimizer, draft, remaining, incumbent>>
  BY DEF Building, Estimate, Routed, SearchRoute, NextPair, solveVars, searchVars, problemVars
<1>2. AskedRight' /\ incumbent' = <<>>
  BY <1>1 DEF Planned, BuiltInInv, AskedRight, OneHotAsked
<1>3. DraftRight' /\ PlacesRight'
  BY <1>1 DEF DraftRight, Drafting, PlacesRight
<1>4. DecisionRight'
  <2>1. \A s : Decision(s)' = Decision(s)
    BY <1>1 DEF Decision
  <2>2. ~Drafting' /\ OneHotAsked' = OneHotAsked
    BY <1>1 DEF Drafting, OneHotAsked
  <2>3. QED
    BY <1>1, <2>1, <2>2 DEF Planned, BuiltInInv, DecisionRight
<1>5. ReturnedRight' /\ BuiltInsAreAccepted'
  BY <1>1, <1>2 DEF ReturnedRight, BuiltInsAreAccepted
<1>6. QED
  BY <1>2, <1>3, <1>4, <1>5 DEF BuiltInInv

\* The formulation is compiled.
LEMMA BuiltInAskOneHot ==
  ASSUME Planned, NEW o \in Optimizers, AskOneHot(o)
  PROVE  BuiltInInv'
<1>1. /\ pc = "estimate" /\ pc' \in {"failed", "select"} /\ optimizer' = o
      /\ o \in {"greedy", "exhaustive"}
      /\ UNCHANGED <<problem, draft, incumbent>>
  BY DEF AskOneHot, Built, problemVars
<1>2. AskedRight' /\ incumbent' = <<>> /\ draft' = EmptyPlan
  BY <1>1 DEF Planned, BuiltInInv, AskedRight, OneHotAsked
<1>3. DraftRight' /\ PlacesRight' /\ ~Drafting'
  BY <1>1 DEF DraftRight, Drafting, PlacesRight
<1>4. remaining' \subseteq [DOMAIN problem.tasks -> 1 .. Cardinality(Nodes)]
  BY DEF AskOneHot, Decisions
<1>5. IsFiniteSet(remaining') /\ \A s \in remaining' : s \in Seq(Nat) /\ Len(s) = Len(problem.tasks)
  <2>1. problem \in Problems
    BY DEF Planned, PlanningInv, EstimateInv, Setting
  <2>2. Len(problem.tasks) \in Nat /\ DOMAIN problem.tasks = 1 .. Len(problem.tasks)
    BY <2>1, TasksDiffer
  <2>3. Cardinality(Nodes) \in Nat
    BY NetworkAssumption, FS_CardinalityType
  <2>4. IsFiniteSet(DOMAIN problem.tasks) /\ IsFiniteSet(1 .. Cardinality(Nodes))
    BY <2>2, <2>3, FS_Interval
  <2>5. IsFiniteSet([DOMAIN problem.tasks -> 1 .. Cardinality(Nodes)])
    BY <2>4, DecisionsFinite
  <2>6. \A s \in [DOMAIN problem.tasks -> 1 .. Cardinality(Nodes)] :
          s \in Seq(Nat) /\ Len(s) = Len(problem.tasks)
    BY <2>2, <2>3
  <2>7. QED
    BY <1>4, <2>5, <2>6, FS_Subset
<1>6. DecisionRight'
  <2>1. draft'.iterations \in Nat /\ (problem'.maxIterations > 0 => draft'.iterations <= problem'.maxIterations)
    <3>1. problem.maxIterations \in Nat
      BY ProblemAssumption DEF Planned, PlanningInv, EstimateInv, Setting, WellFormed
    <3>2. QED
      BY <1>1, <1>2, <3>1 DEF EmptyPlan
  <2>2. \A s \in remaining' : Decision(s)'
    BY <1>1, <1>5 DEF Decision
  <2>3. QED
    BY <1>3, <1>5, <2>1, <2>2 DEF DecisionRight
<1>7. ReturnedRight' /\ BuiltInsAreAccepted'
  BY <1>1, <1>2 DEF ReturnedRight, BuiltInsAreAccepted
<1>8. QED
  BY <1>2, <1>3, <1>6, <1>7 DEF BuiltInInv

\* A plug-in is asked, and makes its plan.
LEMMA BuiltInPlugIn ==
  ASSUME Planned, PlugIn
  PROVE  BuiltInInv'
<1>1. /\ optimizer' = "plugin" /\ pc' \in {"task", "validate"}
      /\ UNCHANGED <<problem, candidates, remaining, incumbent>>
  BY DEF PlugIn, AskPlugIn, Decide, Answer, Return, searchVars, problemVars
<1>2. AskedRight'
  BY <1>1 DEF AskedRight
<1>3. DraftRight' /\ PlacesRight' /\ ~Drafting' /\ ~OneHotAsked'
  BY <1>1 DEF DraftRight, Drafting, PlacesRight, OneHotAsked
<1>4. DecisionRight'
  <2>1. \A s : Decision(s)' = Decision(s)
    BY <1>1 DEF Decision
  <2>2. QED
    BY <1>1, <1>3, <2>1 DEF Planned, BuiltInInv, DecisionRight
<1>5. ReturnedRight'
  <2>1. \A p : Proper(p)' = Proper(p) /\ Kept(p)' = Kept(p)
    BY <1>1, SoundStays, KeptStays DEF Kept
  <2>2. QED
    BY <1>1, <2>1 DEF Planned, BuiltInInv, ReturnedRight
<1>6. BuiltInsAreAccepted'
  BY <1>1 DEF BuiltInsAreAccepted
<1>7. QED
  BY <1>2, <1>3, <1>4, <1>5, <1>6 DEF BuiltInInv

\* A decision is refused, or all of it is placed: the search goes on.
LEMMA BuiltInGoesOn ==
  ASSUME Planned, GoOn \/ AllPlaced
  PROVE  BuiltInInv'
<1>1. /\ UNCHANGED <<problem, candidates, optimizer, todo, draft, calendar, links, remaining,
                     selection, incumbent>>
      /\ \/ pc = "refused" /\ pc' = "select"
         \/ pc = "task" /\ pc' = "score" /\ todo = <<>> /\ optimizer \in {"greedy", "exhaustive"}
  BY DEF GoOn, AllPlaced, solveVars, searchVars, problemVars
<1>2. AskedRight'
  BY <1>1 DEF Planned, BuiltInInv, AskedRight, OneHotAsked
<1>3. Drafting' => Drafting
  BY <1>1 DEF Drafting
<1>4. DraftRight' /\ DecisionRight'
  BY <1>1, <1>3, DraftStays, DecisionStays DEF Planned, BuiltInInv
<1>5. ReturnedRight' /\ PlacesRight' /\ BuiltInsAreAccepted'
  BY <1>1, ReturnedStays DEF Planned, BuiltInInv, PlacesRight, BuiltInsAreAccepted
<1>6. QED
  BY <1>2, <1>4, <1>5 DEF BuiltInInv

\* The plan returned is judged.
LEMMA BuiltInValidate ==
  ASSUME Planned, Validate
  PROVE  BuiltInInv'
<1>1. /\ UNCHANGED <<problem, candidates, optimizer, todo, draft, calendar, links, remaining,
                     selection, incumbent, plan>>
      /\ pc = "validate" /\ pc' \in {"accepted", "rejected"}
      /\ pc' = "rejected" => ~PlanValid(plan[1])
  BY DEF Validate, solveVars, searchVars, problemVars
<1>2. AskedRight' /\ optimizer # ""
  BY <1>1 DEF Planned, BuiltInInv, AskedRight
<1>3. ~Drafting'
  BY <1>1 DEF Drafting
<1>4. DraftRight' /\ DecisionRight'
  BY <1>1, <1>3, DraftStays, DecisionStays DEF Planned, BuiltInInv
<1>5. ReturnedRight' /\ PlacesRight'
  BY <1>1, ReturnedStays DEF Planned, BuiltInInv, PlacesRight
<1>6. BuiltInsAreAccepted'
  <2>1. SUFFICES ASSUME pc' = "rejected", optimizer # "plugin"
                 PROVE  optimizer = "heuristic" /\ (~EnergyValid(plan[1]) \/ HardViolation(plan[1]))'
    BY <1>1 DEF BuiltInsAreAccepted
  <2>2. PICK p : p = plan[1]
    OBVIOUS
  <2>3. /\ Proper(p) /\ (optimizer # "heuristic" => Kept(p))
        /\ problem.maxIterations > 0 => p.iterations <= problem.maxIterations
    BY <1>1, <2>1, <2>2 DEF Planned, BuiltInInv, ReturnedRight
  <2>4. PlanTyped(p) /\ EstimateInv
    BY <1>1, <2>2 DEF Planned, PlansRight, PlanningInv
  <2>5. ~EnergyValid(p) \/ HardViolation(p)
    BY <1>1, <2>1, <2>2, <2>3, <2>4, ProperIsValid
  <2>6. optimizer = "heuristic"
    BY <2>3, <2>5 DEF Kept
  <2>7. (~EnergyValid(p) \/ HardViolation(p))'
    BY <1>1, <2>5, KeptStays
  <2>8. QED
    BY <1>1, <2>2, <2>6, <2>7
<1>7. QED
  BY <1>2, <1>4, <1>5, <1>6 DEF BuiltInInv

---------------------------------------------------------------------------
(* The steps that begin or end a pass. *)

\* Nothing happens.
LEMMA BuiltInStutters ==
  ASSUME Planned, UNCHANGED vars
  PROVE  BuiltInInv'
<1>1. UNCHANGED <<problem, candidates, optimizer, todo, draft, calendar, links, remaining,
                  selection, incumbent, plan, options, placed, placing, moved, cursor, pc>>
  BY DEF vars, solveVars, searchVars, problemVars, placeVars
<1>2. AskedRight' /\ (Drafting' => Drafting)
  BY <1>1 DEF Planned, BuiltInInv, AskedRight, OneHotAsked, Drafting
<1>3. DraftRight' /\ DecisionRight'
  BY <1>1, <1>2, DraftStays, DecisionStays DEF Planned, BuiltInInv
<1>4. PlacesRight'
  <2>1. Eligible' = Eligible /\ \A x : PlaceRight(x)' = PlaceRight(x)
    BY <1>1, PlaceStays
  <2>2. \A c : Transferred(c, links)' = Transferred(c, links)
    BY <1>1 DEF Transferred, Transfer
  <2>3. QED
    BY <1>1, <2>1, <2>2 DEF Planned, BuiltInInv, PlacesRight
<1>5. ReturnedRight' /\ BuiltInsAreAccepted'
  <2>1. \A p : Proper(p)' = Proper(p) /\ Kept(p)' = Kept(p)
               /\ EnergyValid(p)' = EnergyValid(p) /\ HardViolation(p)' = HardViolation(p)
    BY <1>1, SoundStays, KeptStays DEF Kept
  <2>2. QED
    BY <1>1, <2>1 DEF Planned, BuiltInInv, ReturnedRight, BuiltInsAreAccepted
<1>6. QED
  BY <1>2, <1>3, <1>4, <1>5 DEF BuiltInInv

\* The search is over.
LEMMA BuiltInFinishes ==
  ASSUME Planned, pc \in {"select", "refused", "score"},
         NEW status, status \notin {"infeasible", "error"}, Finish(status)
  PROVE  BuiltInInv'
<1>1. /\ UNCHANGED <<problem, candidates, optimizer, todo, draft, calendar, links, remaining,
                     selection, incumbent>>
      /\ \/ /\ pc' = "validate" /\ optimizer = "exhaustive" /\ incumbent # <<>>
            /\ plan' = <<[incumbent[1].plan EXCEPT !.status = status,
                                                   !.iterations = draft.iterations]>>
         \/ pc' = "failed"
  BY DEF Finish, Return, searchVars, problemVars
<1>2. AskedRight'
  BY <1>1 DEF Planned, BuiltInInv, AskedRight, OneHotAsked
<1>3. ~Drafting'
  BY <1>1 DEF Drafting
<1>4. DraftRight' /\ DecisionRight'
  BY <1>1, <1>3, DraftStays, DecisionStays DEF Planned, BuiltInInv
<1>5. PlacesRight' /\ BuiltInsAreAccepted'
  BY <1>1 DEF PlacesRight, BuiltInsAreAccepted
<1>6. CASE pc' = "failed"
  <2>1. ReturnedRight'
    BY <1>1, <1>6, ReturnedStays DEF Planned, BuiltInInv
  <2>2. QED
    BY <1>2, <1>4, <1>5, <2>1 DEF BuiltInInv
<1>7. CASE pc' = "validate"
  <2>1. PICK p, q : p = incumbent[1].plan /\ q = plan'[1]
    OBVIOUS
  <2>2. /\ Proper(p) /\ Kept(p) /\ PlanTyped(p)
    BY <1>1, <1>7, <2>1 DEF Planned, BuiltInInv, ReturnedRight, PlansRight
  <2>3. q = [p EXCEPT !.status = status, !.iterations = draft.iterations]
    BY <1>1, <1>7, <2>1
  <2>4. /\ q.assigned = p.assigned /\ q.reservations = p.reservations
        /\ q.transfers = p.transfers /\ q.deferred = p.deferred
        /\ q.status = status /\ q.iterations = draft.iterations
    BY <2>2, <2>3 DEF PlanTyped
  <2>5. Proper(q) /\ Kept(q)
    BY <2>2, <2>4, SamePlan DEF Proper, Kept
  <2>6. problem.maxIterations > 0 => q.iterations <= problem.maxIterations
    BY <1>1, <1>7, <2>4 DEF Planned, BuiltInInv, DecisionRight, OneHotAsked
  <2>7. \A r : Proper(r)' = Proper(r) /\ Kept(r)' = Kept(r)
    BY <1>1, SoundStays, KeptStays DEF Kept
  <2>8. ReturnedRight'
    BY <1>1, <2>1, <2>2, <2>5, <2>6, <2>7 DEF ReturnedRight
  <2>9. QED
    BY <1>2, <1>4, <1>5, <2>8 DEF BuiltInInv
<1>8. QED
  BY <1>1, <1>6, <1>7

LEMMA BuiltInSearchEnds ==
  ASSUME Planned, SearchEnds \/ SearchLimited \/ SearchExpires
  PROVE  BuiltInInv'
<1>1. PICK status \in {"optimal", "iteration_limit", "time_limit"} :
        Finish(status) /\ pc \in {"select", "refused", "score"}
  BY DEF SearchEnds, SearchLimited, SearchExpires
<1>2. QED
  BY <1>1, BuiltInFinishes

\* The heuristic returns what it has, and defers the rest.
LEMMA BuiltInHeuristicEnds ==
  ASSUME Planned, HeuristicExpires \/ HeuristicDone
  PROVE  BuiltInInv'
<1>1. /\ UNCHANGED <<problem, candidates, optimizer, todo, draft, calendar, links, remaining,
                     selection, incumbent>>
      /\ pc = "task" /\ pc' = "validate" /\ optimizer = "heuristic"
  BY DEF HeuristicExpires, HeuristicDone, Return, searchVars, problemVars
<1>2. AskedRight' /\ ~Drafting'
  BY <1>1 DEF Planned, BuiltInInv, AskedRight, OneHotAsked, Drafting
<1>3. DraftRight' /\ DecisionRight'
  BY <1>1, <1>2, DraftStays, DecisionStays DEF Planned, BuiltInInv
<1>4. PlacesRight' /\ BuiltInsAreAccepted'
  BY <1>1 DEF PlacesRight, BuiltInsAreAccepted
<1>5. /\ Sound(draft) /\ Parted(draft, todo) /\ draft.status = "feasible"
      /\ problem.maxIterations > 0 => Len(draft.assigned) + Len(todo) <= problem.maxIterations
  BY <1>1 DEF Planned, BuiltInInv, DraftRight, Drafting
<1>6. PlanTyped(draft)
  BY DEF Planned, PlansRight
<1>7. todo \in Seq(Ready) /\ \A i, j \in DOMAIN todo : todo[i] = todo[j] => i = j
  BY <1>1 DEF Planned, PlanningInv, TodoRight
<1>8. Len(draft.assigned) \in Nat /\ Len(todo) \in Nat /\ problem.maxIterations \in Nat
  <2>1. problem.maxIterations \in Nat
    BY ProblemAssumption DEF Planned, PlanningInv, EstimateInv, Setting, WellFormed
  <2>2. QED
    BY <1>6, <1>7, <2>1 DEF PlanTyped, Sequence
<1>9. PICK q : q = plan'[1]
  OBVIOUS
<1>10. /\ q.assigned = draft.assigned /\ q.reservations = draft.reservations
       /\ q.transfers = draft.transfers /\ q.iterations = Len(draft.assigned)
       /\ q.status \in {"feasible", "time_limit", "iteration_limit"}
       /\ \/ q.deferred = todo \o draft.deferred
          \/ q.deferred = draft.deferred /\ todo = <<>>
  <2>1. CASE HeuristicExpires
    <3>1. q = [draft EXCEPT !.status = "time_limit", !.deferred = todo \o @,
                            !.iterations = Len(draft.assigned)]
      BY <1>9, <2>1 DEF HeuristicExpires, Return
    <3>2. QED
      BY <1>6, <3>1 DEF PlanTyped
  <2>2. CASE HeuristicDone
    <3>1. /\ todo = <<>>
          /\ q = [draft EXCEPT !.status = IF @ # "feasible" \/ draft.deferred = <<>> THEN @
                                          ELSE "iteration_limit",
                               !.iterations = Len(draft.assigned)]
      BY <1>9, <2>2 DEF HeuristicDone, Return
    <3>2. QED
      BY <1>5, <1>6, <3>1 DEF PlanTyped
  <2>3. QED
    BY <2>1, <2>2
<1>11. Parted(q, <<>>)
  <2>1. CASE q.deferred = draft.deferred /\ todo = <<>>
    BY <1>5, <1>10, <2>1 DEF Parted
  <2>2. CASE q.deferred = todo \o draft.deferred
    <3>1. PICK d, n, m : d = draft.deferred /\ n = Len(todo) /\ m = Len(d)
      OBVIOUS
    <3>2. Sequence(d) /\ m \in Nat /\ n \in Nat /\ DOMAIN d = 1 .. m /\ DOMAIN todo = 1 .. n
      BY <1>6, <1>7, <3>1 DEF PlanTyped, Sequence
    <3>3. /\ DOMAIN q.deferred = 1 .. n + m
          /\ \A i \in 1 .. n : q.deferred[i] = todo[i]
          /\ \A i \in n + 1 .. n + m : q.deferred[i] = d[i - n] /\ i - n \in 1 .. m
          /\ \A i \in 1 .. m : q.deferred[n + i] = d[i] /\ n + i \in 1 .. n + m
      <4>1. todo \in Seq(Ready \cup {d[i] : i \in DOMAIN d})
            /\ d \in Seq(Ready \cup {d[i] : i \in DOMAIN d})
        <5>1. PICK E : E = {d[i] : i \in DOMAIN d}
          OBVIOUS
        <5>2. d \in Seq(E)
          BY <3>2, <5>1 DEF Sequence
        <5>3. QED
          BY <1>7, <5>1, <5>2
      <4>2. QED
        BY <2>2, <3>1, <3>2, <4>1
    <3>4. /\ \A i, j \in DOMAIN d : d[i] = d[j] => i = j
          /\ \A i \in DOMAIN d : d[i] \in Ready
          /\ \A a \in ToSet(draft.assigned) :
               /\ \A i \in DOMAIN todo : a.task # todo[i]
               /\ \A i \in DOMAIN d : a.task # d[i]
          /\ \A i \in DOMAIN d, j \in DOMAIN todo : d[i] # todo[j]
          /\ \A t \in Ready : \/ \E a \in ToSet(draft.assigned) : a.task = t
                              \/ \E i \in DOMAIN d : d[i] = t
                              \/ \E i \in DOMAIN todo : todo[i] = t
      BY <1>5, <3>1 DEF Parted
    <3>5. PICK e : e = q.deferred
      OBVIOUS
    <3>6. \A i \in DOMAIN e : /\ i \in 1 .. n + m
                              /\ \/ i \in 1 .. n /\ e[i] = todo[i]
                                 \/ i \in n + 1 .. n + m /\ i - n \in 1 .. m /\ e[i] = d[i - n]
      BY <3>2, <3>3, <3>5
    <3>7. \A i, j \in DOMAIN e : e[i] = e[j] => i = j
      <4>1. SUFFICES ASSUME NEW i \in DOMAIN e, NEW j \in DOMAIN e, e[i] = e[j] PROVE i = j
        OBVIOUS
      <4>2. i \in Int /\ j \in Int
        BY <3>2, <3>3, <3>5
      <4>3. CASE i \in 1 .. n /\ j \in 1 .. n /\ e[i] = todo[i] /\ e[j] = todo[j]
        BY <1>7, <3>2, <4>1, <4>3
      <4>4. CASE /\ i - n \in 1 .. m /\ j - n \in 1 .. m /\ e[i] = d[i - n] /\ e[j] = d[j - n]
        <5>1. i - n = j - n
          BY <3>2, <3>4, <4>1, <4>4
        <5>2. QED
          BY <3>2, <4>2, <5>1
      <4>5. QED
        BY <3>2, <3>4, <3>6, <4>1, <4>3, <4>4
    <3>8. \A i \in DOMAIN e : e[i] \in Ready
      BY <1>7, <3>2, <3>4, <3>6
    <3>9. \A a \in ToSet(q.assigned) : \A i \in DOMAIN e : a.task # e[i]
      BY <1>10, <3>2, <3>4, <3>6
    <3>10. ASSUME NEW t \in Ready
           PROVE  (\E a \in ToSet(q.assigned) : a.task = t) \/ \E i \in DOMAIN e : e[i] = t
      <4>1. CASE \E i \in DOMAIN d : d[i] = t
        <5>1. PICK i \in 1 .. m : d[i] = t
          BY <3>2, <4>1
        <5>2. e[n + i] = t /\ n + i \in DOMAIN e
          BY <3>3, <3>5, <5>1
        <5>3. QED
          BY <5>2
      <4>2. CASE \E i \in DOMAIN todo : todo[i] = t
        <5>1. PICK i \in 1 .. n : todo[i] = t
          BY <3>2, <4>2
        <5>2. i \in 1 .. n + m /\ e[i] = t
          BY <3>2, <3>3, <3>5, <5>1
        <5>3. QED
          BY <3>3, <3>5, <5>2
      <4>3. QED
        BY <1>10, <3>4, <4>1, <4>2
    <3>11. DOMAIN <<>> = {}
      OBVIOUS
    <3>12. QED
      BY <3>5, <3>7, <3>8, <3>9, <3>10, <3>11 DEF Parted
  <2>3. QED
    BY <1>10, <2>1, <2>2
<1>12. Proper(q)
  BY <1>5, <1>10, <1>11, SamePlan DEF Proper
<1>13. ReturnedRight'
  <2>1. \A r : Proper(r)' = Proper(r) /\ Kept(r)' = Kept(r)
    BY <1>1, SoundStays, KeptStays DEF Kept
  <2>2. problem.maxIterations > 0 => q.iterations <= problem.maxIterations
    BY <1>5, <1>8, <1>10
  <2>3. QED
    BY <1>1, <1>9, <1>12, <2>1, <2>2 DEF Planned, BuiltInInv, ReturnedRight
<1>14. QED
  BY <1>2, <1>3, <1>4, <1>13 DEF BuiltInInv

---------------------------------------------------------------------------
(* The search for the place of a task. *)

\* While a place is looked for only the places change.
LEMMA PlacingKeeps ==
  ASSUME Planned, optimizer # "plugin", pc \in {"task", "option", "place"},
         pc' \in {"option", "place"},
         UNCHANGED <<problem, candidates, optimizer, todo, draft, calendar, links, remaining,
                     selection, incumbent>>,
         PlacesRight'
  PROVE  BuiltInInv'
<1>1. AskedRight' /\ (Drafting' => Drafting)
  BY DEF Planned, BuiltInInv, AskedRight, OneHotAsked, Drafting
<1>2. DraftRight' /\ DecisionRight'
  BY <1>1, DraftStays, DecisionStays DEF Planned, BuiltInInv
<1>3. ReturnedRight' /\ BuiltInsAreAccepted'
  BY ReturnedStays DEF Planned, BuiltInInv, BuiltInsAreAccepted
<1>4. QED
  BY <1>1, <1>2, <1>3 DEF BuiltInInv

LEMMA BuiltInNextTask ==
  ASSUME Planned, NextTask
  PROVE  BuiltInInv'
<1>1. /\ UNCHANGED <<problem, candidates, optimizer, todo, draft, calendar, links, remaining,
                     selection, incumbent>>
      /\ pc = "task" /\ pc' = "option" /\ optimizer # "plugin" /\ placed' = {}
      /\ options' = Eligible
  BY DEF NextTask, Eligible, Decided, searchVars, problemVars
<1>2. Eligible' = Eligible
  BY <1>1, PlaceStays
<1>3. PlacesRight'
  BY <1>1, <1>2 DEF PlacesRight
<1>4. QED
  BY <1>1, <1>3, PlacingKeeps

LEMMA BuiltInTryOption ==
  ASSUME Planned, TryOption
  PROVE  BuiltInInv'
<1>1. /\ UNCHANGED <<problem, candidates, optimizer, todo, draft, calendar, links, remaining,
                     selection, incumbent, placed>>
      /\ pc = "option" /\ pc' \in {"option", "place"}
  BY DEF TryOption, BeginPlacing, placeVars, searchVars, problemVars
<1>2. optimizer # "plugin"
  BY <1>1 DEF Planned, PlanningInv, OptionsRight
<1>3. Eligible' = Eligible /\ \A x : PlaceRight(x)' = PlaceRight(x)
  BY <1>1, PlaceStays
<1>4. options \subseteq Eligible /\ \A x \in placed : PlaceRight(x)
  BY <1>1 DEF Planned, BuiltInInv, PlacesRight
<1>5. PICK c \in options : /\ options' = options \ {c}
                           /\ IF TooBig(c) THEN UNCHANGED <<placeVars, pc>>
                              ELSE BeginPlacing(c) /\ pc' = "place"
  BY DEF TryOption
<1>6. CASE TooBig(c)
  <2>1. pc' = "option"
    BY <1>1, <1>5, <1>6
  <2>2. PlacesRight'
    BY <1>1, <1>3, <1>4, <1>5, <2>1 DEF PlacesRight
  <2>3. QED
    BY <1>1, <1>2, <2>2, PlacingKeeps
<1>7. CASE ~TooBig(c)
  <2>1. /\ placing'[1] = c /\ moved' = Transferred(c, links) /\ pc' = "place"
        /\ cursor' = Max({Transferred(c, links).at, problem.free[c.node]})
    BY <1>5, <1>7 DEF BeginPlacing
  <2>2. Setting /\ CandidateRight(c)
    BY <1>1, <1>5 DEF Planned, PlanningInv, EstimateInv, OptionsRight, Concerns
  <2>3. /\ c.ready \in Nat /\ c.transfers \in Seq(Transfers) /\ problem.free[c.node] \in Nat
    BY <2>2, CandidateIsPlaceable
  <2>4. Transferred(c, links).at \in Nat
    BY <2>2, <2>3, TransfersArrive DEF Planned, PlanningInv, CalendarRight, Setting
  <2>5. moved'.at <= cursor' /\ problem.free[c.node] <= cursor'
    <3>1. PICK m, f : m = Transferred(c, links).at /\ f = problem.free[c.node]
      OBVIOUS
    <3>2. m \in Int /\ f \in Int
      BY <2>3, <2>4, <3>1
    <3>3. m <= Max({m, f}) /\ f <= Max({m, f})
      BY <3>2, MaxOfTwo
    <3>4. moved'.at = m /\ cursor' = Max({m, f})
      BY <2>1, <3>1
    <3>5. QED
      BY <3>1, <3>3, <3>4
  <2>6. Transferred(c, links)' = Transferred(c, links)
    BY <1>1 DEF Transferred, Transfer
  <2>7. moved' = Transferred(placing[1], links)'
    BY <2>1, <2>6
  <2>8. placing'[1] \in Eligible /\ problem'.free[placing'[1].node] <= cursor'
    BY <1>1, <1>4, <1>5, <2>1, <2>5
  <2>9. options' \subseteq Eligible' /\ \A x \in placed' : PlaceRight(x)'
    BY <1>1, <1>3, <1>4, <1>5
  <2>10. PlacesRight'
    BY <1>3, <2>1, <2>5, <2>7, <2>8, <2>9 DEF PlacesRight
  <2>11. QED
    BY <1>1, <1>2, <2>10, PlacingKeeps
<1>8. QED
  BY <1>6, <1>7

LEMMA BuiltInSearch ==
  ASSUME Planned, Search
  PROVE  BuiltInInv'
<1>1. /\ UNCHANGED <<problem, candidates, optimizer, todo, draft, calendar, links, remaining,
                     selection, incumbent, placed, options, placing, moved>>
      /\ pc = "place" /\ pc' = "place"
  BY DEF Search, Jump, solveVars, searchVars, problemVars
<1>2. optimizer # "plugin"
  BY <1>1 DEF Planned, PlanningInv, OptionsRight
<1>3. Eligible' = Eligible /\ \A x : PlaceRight(x)' = PlaceRight(x)
  BY <1>1, PlaceStays
<1>4. /\ options \subseteq Eligible /\ (\A x \in placed : PlaceRight(x))
      /\ placing[1] \in Eligible /\ moved = Transferred(placing[1], links)
      /\ moved.at <= cursor /\ problem.free[placing[1].node] <= cursor
  BY <1>1 DEF Planned, BuiltInInv, PlacesRight
<1>5. moved.at \in Nat /\ cursor \in Nat
  BY <1>1 DEF Planned, PlanningInv, PlacingRight
<1>6. problem.free[placing[1].node] \in Nat /\ CalendarFor(calendar, placing[1].task)
  BY <1>1, BeingPlaced DEF Planned
<1>7. cursor' \in Nat /\ cursor < cursor'
  <2>1. PICK R : R = Releases(placing[1], cursor)
    OBVIOUS
  <2>2. R \in SUBSET Nat /\ \A u \in R : cursor < u
    BY <1>6, <2>1 DEF Releases, Overlapping, CalendarFor, Reserved
  <2>3. R # {} /\ cursor' = Min(R)
    BY <2>1 DEF Search, Jump
  <2>4. cursor' \in R
    BY <2>2, <2>3, MinOfSet
  <2>5. QED
    BY <2>2, <2>4
<1>8. moved.at <= cursor' /\ problem.free[placing[1].node] <= cursor'
  BY <1>4, <1>5, <1>6, <1>7
<1>9. Transferred(placing[1], links)' = Transferred(placing[1], links)
  BY <1>1 DEF Transferred, Transfer
<1>10. PlacesRight'
  BY <1>1, <1>3, <1>4, <1>8, <1>9 DEF PlacesRight
<1>11. QED
  BY <1>1, <1>2, <1>10, PlacingKeeps

\* A place that is found is free, and its transfers are over.
LEMMA BuiltInPlace ==
  ASSUME Planned, Place
  PROVE  BuiltInInv'
<1>1. /\ UNCHANGED <<problem, candidates, optimizer, todo, draft, calendar, links, remaining,
                     selection, incumbent, options>>
      /\ pc = "place" /\ pc' = "option" /\ placed' = placed \cup {Placement} /\ Found
  BY DEF Place, searchVars, problemVars
<1>2. optimizer # "plugin"
  BY <1>1 DEF Planned, PlanningInv, OptionsRight
<1>3. Eligible' = Eligible /\ \A x : PlaceRight(x)' = PlaceRight(x)
  BY <1>1, PlaceStays
<1>4. /\ options \subseteq Eligible /\ (\A x \in placed : PlaceRight(x))
      /\ placing[1] \in Eligible /\ moved = Transferred(placing[1], links)
      /\ moved.at <= cursor /\ problem.free[placing[1].node] <= cursor
  BY <1>1 DEF Planned, BuiltInInv, PlacesRight
<1>5. PICK c : c = placing[1]
  OBVIOUS
<1>6. cursor \in Nat
  BY <1>1 DEF Planned, PlanningInv, PlacingRight
<1>7. /\ Concerns(c) /\ ~TooBig(c) /\ Placeable(c) /\ CalendarFor(calendar, c.task)
      /\ problem \in Problems
  BY <1>1, <1>5, BeingPlaced DEF Planned
<1>8. Free(calendar, c, cursor)
  BY <1>1, <1>5, <1>6, <1>7, FoundIsFree DEF Found
<1>9. PICK x : x = Placement
  OBVIOUS
<1>10. PICK d : d = x.candidate
  OBVIOUS
<1>11. /\ x.at = cursor /\ x.transfers = moved.made
       /\ d = [c EXCEPT !.start = Min({cursor} \cup {y.start : y \in moved.made}),
                        !.finish = cursor + c.compute,
                        !.communication = Spent(moved.made)]
  BY <1>5, <1>9, <1>10 DEF Placement, PlacedAt, Spent
<1>12. {"task", "node", "ready", "start", "finish", "compute", "communication", "energy", "demand",
        "success", "locations", "transfers"} \subseteq DOMAIN c
  BY <1>7 DEF Concerns, CandidateRight
<1>13. /\ d.start = Min({cursor} \cup {y.start : y \in moved.made})
       /\ d.finish = cursor + c.compute /\ d.communication = Spent(moved.made)
       /\ SameEstimates(d, c)
  <2> DEFINE a == Min({cursor} \cup {y.start : y \in moved.made})
             b == cursor + c.compute
             e == Spent(moved.made)
  <2>1. d = [c EXCEPT !.start = a, !.finish = b, !.communication = e]
    BY <1>11
  <2> HIDE DEF a, b, e
  <2>2. /\ d.start = a /\ d.finish = b /\ d.communication = e
        /\ d.task = c.task /\ d.node = c.node /\ d.ready = c.ready /\ d.compute = c.compute
        /\ d.demand = c.demand /\ d.energy = c.energy /\ d.transfers = c.transfers
        /\ d.success = c.success /\ d.locations = c.locations
    BY <1>12, <2>1
  <2>3. QED
    BY <2>2 DEF SameEstimates, a, b, e
<1>14. /\ Transferred(d, links) = moved /\ Free(calendar, d, cursor)
       /\ d.node = c.node /\ d.compute = c.compute
  BY <1>4, <1>5, <1>8, <1>13, SameTransfers DEF SameEstimates
<1>15. PlaceRight(x)
  BY <1>4, <1>5, <1>10, <1>11, <1>13, <1>14 DEF PlaceRight
<1>16. PlacesRight'
  <2>1. \A y \in placed' : PlaceRight(y)'
    BY <1>1, <1>3, <1>4, <1>9, <1>15
  <2>2. QED
    BY <1>1, <1>3, <1>4, <2>1 DEF PlacesRight
<1>17. QED
  BY <1>1, <1>2, <1>16, PlacingKeeps

---------------------------------------------------------------------------
(* The decisions of the formulation. *)

\* A plan without anything is sound.
LEMMA NothingIsSound ==
  ASSUME NEW p, p.assigned = <<>>, p.reservations = {}, p.transfers = {}
  PROVE  Sound(p) /\ ToSet(p.assigned) = {}
<1>1. ToSet(p.assigned) = {} /\ DOMAIN p.assigned = {}
  BY DEF ToSet
<1>2. IsFiniteSet(p.transfers)
  BY FS_EmptySet
<1>3. Assigns(p)
  BY <1>1, <1>2 DEF Assigns
<1>4. Holds(p)
  BY DEF Holds, ActiveAt
<1>5. LinksValid(p) /\ Waits(p)
  BY DEF LinksValid, Waits
<1>6. QED
  BY <1>1, <1>3, <1>4, <1>5 DEF Sound

\* The next decision is looked at.
LEMMA BuiltInSelect ==
  ASSUME Planned, Select
  PROVE  BuiltInInv'
<1>1. PICK s : /\ s = CHOOSE x \in remaining : \A y \in remaining : x = y \/ Precedes(x, y)
               /\ remaining' = remaining \ {s} /\ selection' = s
               /\ IF Affordable(Chosen(s)) THEN todo' = problem.tasks /\ pc' = "task"
                                           ELSE UNCHANGED todo /\ pc' = "refused"
  BY DEF Select
<1>2. /\ UNCHANGED <<problem, candidates, optimizer, incumbent>>
      /\ pc = "select" /\ remaining # {} /\ ~LimitReached
      /\ calendar' = problem.carryIn /\ links' = problem.linkFree
      /\ draft' = [EmptyPlan EXCEPT !.iterations = draft.iterations + 1]
  BY DEF Select, problemVars
<1>3. pc' \in {"task", "refused"}
  BY <1>1
<1>4. OneHotAsked /\ OneHotAsked' /\ optimizer \in {"greedy", "exhaustive"}
  BY <1>2 DEF Planned, BuiltInInv, AskedRight, OneHotAsked
<1>5. AskedRight'
  BY <1>2, <1>3, <1>4 DEF Planned, BuiltInInv, AskedRight, OneHotAsked
<1>6. /\ IsFiniteSet(remaining) /\ \A x \in remaining : Decision(x)
      /\ draft.iterations \in Nat
  BY <1>4 DEF Planned, BuiltInInv, DecisionRight
<1>7. s \in remaining
  <2>1. remaining \subseteq Seq(Nat)
    BY <1>6 DEF Decision
  <2>2. QED
    BY <1>1, <1>2, <1>6, <2>1, NextDecision
<1>8. Setting /\ problem \in Problems /\ WellFormed(problem)
  BY ProblemAssumption DEF Planned, PlanningInv, EstimateInv, Setting
<1>9. /\ draft'.status = "feasible" /\ draft'.assigned = <<>> /\ draft'.reservations = {}
      /\ draft'.transfers = {} /\ draft'.deferred = <<>>
      /\ draft'.iterations = draft.iterations + 1
  BY <1>2 DEF EmptyPlan
<1>10. Sound(draft') /\ ToSet(draft'.assigned) = {}
  BY <1>9, NothingIsSound
<1>11. /\ problem.tasks \in Seq(Ready) /\ Len(problem.tasks) \in Nat
       /\ Ready' = Ready /\ Ready = ToSet(problem.tasks)
  BY <1>2, <1>8, TasksDiffer DEF Ready
<1>12. DraftRight'
  <2>1. SUFFICES ASSUME pc' = "task" PROVE DraftRight'
    BY <1>3 DEF DraftRight, Drafting
  <2>2. todo' = problem.tasks
    BY <1>1, <2>1
  <2>3. Sound(draft)'
    <3>1. PICK p : p = draft'
      OBVIOUS
    <3>2. Sound(p)' = Sound(p)
      BY <1>2, SoundStays
    <3>3. QED
      BY <1>10, <3>1, <3>2
  <2>4. DOMAIN draft'.deferred = {}
    BY <1>9
  <2>5. Parted(draft, todo)'
    <3>1. \A t \in Ready : \E i \in DOMAIN todo' : todo'[i] = t
      BY <1>11, <2>2 DEF ToSet
    <3>2. QED
      BY <1>10, <1>11, <2>4, <3>1 DEF Parted
  <2>6. calendar' = problem'.carryIn \cup draft'.reservations
    BY <1>2, <1>9
  <2>7. Freed(draft.transfers, links)'
    BY <1>9 DEF Freed
  <2>8. \A l \in Links : problem'.linkFree[l] <= links'[l]
    <3>1. \A l \in Links : problem.linkFree[l] \in Nat
      BY <1>8 DEF WellFormed
    <3>2. QED
      BY <1>2, <3>1
  <2>9. QED
    BY <1>2, <1>4, <1>9, <2>3, <2>5, <2>6, <2>7, <2>8 DEF DraftRight
<1>13. DecisionRight'
  <2>1. \A x : Decision(x)' = Decision(x)
    BY <1>2 DEF Decision
  <2>2. IsFiniteSet(remaining') /\ \A x \in remaining' : Decision(x)'
    <3>1. remaining' \subseteq remaining
      BY <1>1
    <3>2. QED
      BY <1>6, <2>1, <3>1, FS_Subset
  <2>3. /\ draft'.iterations \in Nat
        /\ problem'.maxIterations > 0 => draft'.iterations <= problem'.maxIterations
    <3>1. problem.maxIterations \in Nat
      BY <1>8 DEF WellFormed
    <3>2. QED
      BY <1>2, <1>6, <1>9, <3>1 DEF LimitReached
  <2>4. ASSUME pc' = "task"
        PROVE  /\ Decision(selection)' /\ Affordable(Chosen(selection))'
               /\ todo' \in Seq(Ready') /\ Len(todo') <= Len(selection') /\ 1 .. Decided' = {}
    <3>1. todo' = problem.tasks /\ Affordable(Chosen(s))
      BY <1>1, <2>4
    <3>2. Decision(s) /\ selection' = s
      BY <1>1, <1>6, <1>7
    <3>3. Len(todo') = Len(selection') /\ Len(todo') \in Nat
      BY <1>11, <3>1, <3>2 DEF Decision
    <3>4. Decided' = 0
      BY <3>3 DEF Decided
    <3>5. Affordable(Chosen(selection))'
      <4>1. PICK cs : cs = Chosen(s)
        OBVIOUS
      <4>2. Chosen(selection)' = Chosen(s)
        BY <1>2, <3>2, ChosenStays
      <4>3. Affordable(cs)' = Affordable(cs)
        BY <1>2, AffordableStays
      <4>4. QED
        BY <3>1, <4>1, <4>2, <4>3
    <3>6. Decision(selection)'
      BY <2>1, <3>2
    <3>7. QED
      BY <1>11, <3>1, <3>3, <3>4, <3>5, <3>6
  <2>5. Drafting' => pc' = "task"
    BY <1>3 DEF Drafting
  <2>6. QED
    BY <1>10, <2>2, <2>3, <2>4, <2>5 DEF DecisionRight
<1>14. PlacesRight' /\ BuiltInsAreAccepted'
  BY <1>3 DEF PlacesRight, BuiltInsAreAccepted
<1>15. ReturnedRight'
  BY <1>2, <1>3, ReturnedStays DEF Planned, BuiltInInv
<1>16. QED
  BY <1>5, <1>12, <1>13, <1>14, <1>15 DEF BuiltInInv

\* A decision that has been placed is right, and what the batteries have.
LEMMA BuiltInScore ==
  ASSUME Planned, Score
  PROVE  BuiltInInv'
<1>1. /\ UNCHANGED <<problem, candidates, optimizer, todo, draft, calendar, links, remaining,
                     selection>>
      /\ pc = "score" /\ pc' \in {"select", "validate"}
      /\ \/ incumbent' = incumbent /\ pc' = "select"
         \/ /\ incumbent' = incumbent /\ pc' = "validate" /\ optimizer = "greedy"
            /\ plan' = <<draft>> /\ ~HardViolation(draft)
         \/ /\ pc' = "select" /\ ~HardViolation(draft)
            /\ \E k, n : incumbent' = <<[plan |-> draft, key |-> k, nodes |-> n]>>
  BY DEF Score, Return, searchVars, problemVars
<1>2. OneHotAsked /\ optimizer # "plugin" /\ optimizer # "heuristic" /\ todo = <<>>
  BY <1>1 DEF Planned, BuiltInInv, AskedRight, OneHotAsked
<1>3. AskedRight' /\ ~Drafting'
  BY <1>1, <1>2 DEF Planned, BuiltInInv, AskedRight, OneHotAsked, Drafting
<1>4. DraftRight' /\ DecisionRight'
  BY <1>1, <1>3, DraftStays, DecisionStays DEF Planned, BuiltInInv
<1>5. PlacesRight' /\ BuiltInsAreAccepted'
  BY <1>1 DEF PlacesRight, BuiltInsAreAccepted
<1>6. Drafting
  BY <1>1, <1>2 DEF Drafting
<1>7. Proper(draft)
  BY <1>2, <1>6 DEF Planned, BuiltInInv, DraftRight, Proper
<1>8. EnergyValid(draft)
  <2>1. PICK cs : cs = Chosen(selection)
    OBVIOUS
  <2>2. /\ Decision(selection) /\ Affordable(cs)
        /\ \A k \in 1 .. Decided : cs[k] \in candidates
        /\ \A a \in ToSet(draft.assigned) : a.node # 0 /\ \E k \in 1 .. Decided : Matches(a, cs[k])
    BY <1>2, <1>6, <2>1 DEF Planned, BuiltInInv, DecisionRight
  <2>3. DOMAIN cs = 1 .. Len(selection) /\ Len(selection) \in Nat /\ Decided = Len(selection)
    BY <1>2, <2>1, <2>2 DEF Chosen, Decision, Decided
  <2>4. ToSet(cs) = {cs[k] : k \in 1 .. Decided}
    BY <2>3 DEF ToSet
  <2>5. IsFiniteSet(ToSet(cs))
    <3>1. cs \in Seq({cs[i] : i \in DOMAIN cs})
      BY <2>1, <2>3 DEF Chosen
    <3>2. QED
      BY <3>1, RangeIsFinite DEF Sequence
  <2>6. ToSet(cs) \subseteq candidates
    BY <2>2, <2>4
  <2>7. \A a \in Assigned(draft) : \E c \in ToSet(cs) : Matches(a, c)
    BY <2>2, <2>4 DEF Assigned
  <2>8. PlanTyped(draft) /\ EstimateInv /\ Assigns(draft)
    BY <1>7 DEF Planned, PlansRight, PlanningInv, Proper, Sound
  <2>9. QED
    BY <2>2, <2>5, <2>6, <2>7, <2>8, SelectionLasts
<1>9. \A r : Proper(r)' = Proper(r) /\ Kept(r)' = Kept(r)
  BY <1>1, SoundStays, KeptStays DEF Kept
<1>10. ReturnedRight'
  <2>1. CASE incumbent' = incumbent /\ pc' = "select"
    BY <1>1, <2>1, ReturnedStays DEF Planned, BuiltInInv
  <2>2. CASE /\ incumbent' = incumbent /\ pc' = "validate" /\ optimizer = "greedy"
             /\ plan' = <<draft>> /\ ~HardViolation(draft)
    <3>1. plan'[1] = draft /\ Kept(draft)
      BY <1>8, <2>2 DEF Kept
    <3>2. problem.maxIterations > 0 => draft.iterations <= problem.maxIterations
      BY <1>2 DEF Planned, BuiltInInv, DecisionRight
    <3>3. PICK p : p = draft
      OBVIOUS
    <3>4. Proper(p)' /\ Kept(p)'
      BY <1>7, <1>9, <3>1, <3>3
    <3>5. incumbent' # <<>> => (Proper(incumbent[1].plan) /\ Kept(incumbent[1].plan))'
      BY <1>9, <2>2 DEF Planned, BuiltInInv, ReturnedRight
    <3>6. QED
      BY <1>1, <3>1, <3>2, <3>3, <3>4, <3>5 DEF ReturnedRight
  <2>3. CASE /\ pc' = "select" /\ ~HardViolation(draft)
             /\ \E k, n : incumbent' = <<[plan |-> draft, key |-> k, nodes |-> n]>>
    <3>1. incumbent'[1].plan = draft /\ Kept(draft)
      BY <1>8, <2>3 DEF Kept
    <3>2. PICK p : p = draft
      OBVIOUS
    <3>3. Proper(p)' /\ Kept(p)'
      BY <1>7, <1>9, <3>1, <3>2
    <3>4. QED
      BY <2>3, <3>1, <3>2, <3>3 DEF ReturnedRight
  <2>4. QED
    BY <1>1, <2>1, <2>2, <2>3
<1>11. QED
  BY <1>3, <1>4, <1>5, <1>10 DEF BuiltInInv

---------------------------------------------------------------------------
(* One task more. *)

\* What a sequence has with one element more.
LEMMA OneMore ==
  ASSUME NEW s, Sequence(s), NEW e
  PROVE  /\ ToSet(Append(s, e)) = ToSet(s) \cup {e}
         /\ Len(s) \in Nat /\ Len(Append(s, e)) = Len(s) + 1 /\ DOMAIN s = 1 .. Len(s)
         /\ DOMAIN Append(s, e) = 1 .. Len(s) + 1
         /\ \A i \in 1 .. Len(s) : Append(s, e)[i] = s[i]
         /\ Append(s, e)[Len(s) + 1] = e
<1>1. PICK n, z : n = Len(s) /\ z = Append(s, e)
  OBVIOUS
<1>2. /\ n \in Nat /\ DOMAIN s = 1 .. n /\ Len(z) = n + 1 /\ DOMAIN z = 1 .. n + 1
      /\ \A i \in 1 .. n : z[i] = s[i]
      /\ z[n + 1] = e
  <2>1. PICK S : S = {s[i] : i \in DOMAIN s}
    OBVIOUS
  <2>2. s \in Seq(S \cup {e})
    <3>1. s \in Seq(S)
      BY <2>1 DEF Sequence
    <3>2. QED
      BY <3>1
  <2>3. QED
    BY <1>1, <2>2
<1>3. ToSet(z) = ToSet(s) \cup {e}
  <2>1. \A i \in 1 .. n : i \in 1 .. n + 1
    BY <1>2
  <2>2. n + 1 \in 1 .. n + 1
    BY <1>2
  <2>3. \A i \in 1 .. n + 1 : i \in 1 .. n \/ i = n + 1
    BY <1>2
  <2>4. ToSet(s) \cup {e} \subseteq ToSet(z)
    BY <1>2, <2>1, <2>2 DEF ToSet
  <2>5. ToSet(z) \subseteq ToSet(s) \cup {e}
    BY <1>2, <2>3 DEF ToSet
  <2>6. QED
    BY <2>4, <2>5
<1>4. QED
  BY <1>1, <1>2, <1>3

\* What has been realized stays so with what is reserved for another task.
LEMMA OthersRealized ==
  ASSUME NEW p, NEW q, NEW t, NEW R, NEW T, \A x \in R \cup T : x.task = t,
         q.reservations = p.reservations \cup R, q.transfers = p.transfers \cup T,
         NEW a, a.task # t, NEW c, Realizes(p, a, c)
  PROVE  Realizes(q, a, c)
<1>1. {y \in q.reservations : y.task = a.task} = {y \in p.reservations : y.task = a.task}
  OBVIOUS
<1>2. TransfersOf(q, a) = TransfersOf(p, a)
  BY DEF TransfersOf
<1>3. \A x : {y \in p.reservations : y.task = a.task} = {x} => x \in p.reservations
  OBVIOUS
<1>4. PICK own : own = TransfersOf(p, a)
  OBVIOUS
<1>5. PICK x \in p.reservations :
        /\ {y \in p.reservations : y.task = a.task} = {x} /\ x = Reservation(c, x.start)
        /\ x.start \in Nat /\ problem.free[c.node] <= x.start /\ c.ready <= x.start
        /\ \A y \in own : y.finish <= x.start
        /\ a.finish = x.finish /\ a.start = Min({x.start} \cup {y.start : y \in own})
  BY <1>4 DEF Realizes
<1>6. x \in q.reservations
  OBVIOUS
<1>7. /\ c.task = a.task /\ c.node = a.node
      /\ a.compute = c.compute /\ a.energy = c.energy /\ a.success = c.success
      /\ a.locations = c.locations /\ a.communication = Spent(own) /\ MadeFor(c, own)
  BY <1>4 DEF Realizes
<1>8. QED
  BY <1>1, <1>2, <1>4, <1>5, <1>6, <1>7 DEF Realizes

\* A task that is not yet assigned is, as a candidate or dropped.
LEMMA AssignsMore ==
  ASSUME NEW p, Sequence(p.assigned), Assigns(p), NEW q, NEW a, a.task \in Ready,
         \A b \in ToSet(p.assigned) : b.task # a.task,
         q.assigned = Append(p.assigned, a), NEW R, NEW T, IsFiniteSet(T),
         q.reservations = p.reservations \cup R, q.transfers = p.transfers \cup T,
         \A x \in R \cup T : x.task = a.task,
         IF a.node = 0 THEN a = Dropped(a.task) /\ R \cup T = {}
                       ELSE \E c \in candidates : Realizes(q, a, c)
  PROVE  Assigns(q)
<1>1. PICK n, s, z : n = Len(p.assigned) /\ s = p.assigned /\ z = q.assigned
  OBVIOUS
<1>2. /\ ToSet(z) = ToSet(s) \cup {a}
      /\ n \in Nat /\ DOMAIN s = 1 .. n /\ DOMAIN z = 1 .. n + 1
      /\ \A i \in 1 .. n : z[i] = s[i]
      /\ z[n + 1] = a
  BY <1>1, OneMore
<1>3. IsFiniteSet(q.transfers)
  <2>1. IsFiniteSet(p.transfers)
    BY DEF Assigns
  <2>2. IsFiniteSet(p.transfers \cup T)
    BY <2>1, FS_Union
  <2>3. QED
    BY <2>2
<1>4. \A i, j \in DOMAIN z : z[i].task = z[j].task => i = j
  <2>1. \A i \in DOMAIN z : i \in 1 .. n \/ i = n + 1
    BY <1>2
  <2>2. \A i, j \in 1 .. n : s[i].task = s[j].task => i = j
    BY <1>1, <1>2 DEF Assigns
  <2>3. \A i \in 1 .. n : s[i].task # a.task
    BY <1>1, <1>2 DEF ToSet
  <2>4. QED
    BY <1>2, <2>1, <2>2, <2>3
<1>5. ASSUME NEW b \in ToSet(s)
      PROVE  b.task \in Ready /\ IF b.node = 0 THEN b = Dropped(b.task)
                                 ELSE \E c \in candidates : Realizes(q, b, c)
  <2>1. b.task # a.task
    BY <1>1
  <2>2. b.task \in Ready /\ IF b.node = 0 THEN b = Dropped(b.task)
                            ELSE \E c \in candidates : Realizes(p, b, c)
    BY <1>1 DEF Assigns
  <2>3. \A c : Realizes(p, b, c) => Realizes(q, b, c)
    BY <2>1, OthersRealized
  <2>4. QED
    BY <2>2, <2>3
<1>6. \A b \in ToSet(z) : b.task \in Ready /\ IF b.node = 0 THEN b = Dropped(b.task)
                                              ELSE \E c \in candidates : Realizes(q, b, c)
  BY <1>2, <1>5
<1>7. Assigned(p) \subseteq Assigned(q) /\ (R \cup T # {} => a \in Assigned(q))
  BY <1>1, <1>2 DEF Assigned
<1>8. /\ \A x \in q.reservations : \E b \in Assigned(q) : b.task = x.task
      /\ \A x \in q.transfers : \E b \in Assigned(q) : b.task = x.task
  BY <1>7 DEF Assigns
<1>9. QED
  BY <1>1, <1>3, <1>4, <1>6, <1>8 DEF Assigns

\* The first of the tasks still to be placed is not assigned.
LEMMA HeadIsApart ==
  ASSUME NEW p, NEW rest \in Seq(Ready), rest # <<>>, Parted(p, rest)
  PROVE  Head(rest) \in Ready /\ \A b \in ToSet(p.assigned) : b.task # Head(rest)
<1>1. 1 \in DOMAIN rest /\ Head(rest) = rest[1] /\ Head(rest) \in Ready
  OBVIOUS
<1>2. QED
  BY <1>1 DEF Parted

\* Such a task leaves those that are still to be placed.
LEMMA PartedOnward ==
  ASSUME NEW p, Sequence(p.assigned), NEW q, NEW rest \in Seq(Ready), rest # <<>>,
         \A i, j \in DOMAIN rest : rest[i] = rest[j] => i = j,
         Parted(p, rest), NEW a, a.task = Head(rest), q.assigned = Append(p.assigned, a),
         q.deferred = p.deferred
  PROVE  Parted(q, Tail(rest))
<1>1. PICK tail : tail = Tail(rest)
  OBVIOUS
<1>2. /\ \A i \in DOMAIN tail : \E j \in DOMAIN rest : tail[i] = rest[j]
      /\ \A i \in DOMAIN tail : tail[i] # Head(rest)
  BY <1>1, OthersLeft
<1>3. 1 \in DOMAIN rest /\ Head(rest) = rest[1] /\ Head(rest) \in Ready
  OBVIOUS
<1>4. \A j \in DOMAIN rest : rest[j] = Head(rest) \/ \E i \in DOMAIN tail : tail[i] = rest[j]
  <2>1. SUFFICES ASSUME NEW j \in DOMAIN rest, j # 1
                 PROVE  \E i \in DOMAIN tail : tail[i] = rest[j]
    BY <1>3
  <2>2. Len(rest) \in Nat /\ DOMAIN rest = 1 .. Len(rest)
    OBVIOUS
  <2>3. DOMAIN tail = 1 .. Len(rest) - 1 /\ \A i \in 1 .. Len(rest) - 1 : tail[i] = rest[i + 1]
    BY <1>1
  <2>4. j - 1 \in 1 .. Len(rest) - 1 /\ (j - 1) + 1 = j
    BY <2>1, <2>2
  <2>5. tail[j - 1] = rest[j]
    BY <2>3, <2>4
  <2>6. QED
    BY <2>3, <2>4, <2>5
<1>5. ToSet(q.assigned) = ToSet(p.assigned) \cup {a}
  BY OneMore
<1>7. /\ \A b \in ToSet(p.assigned) : \A i \in DOMAIN tail : b.task # tail[i]
      /\ \A i \in DOMAIN p.deferred, j \in DOMAIN tail : p.deferred[i] # tail[j]
  BY <1>2 DEF Parted
<1>8. /\ \A i \in DOMAIN tail : a.task # tail[i]
      /\ \A i \in DOMAIN p.deferred : a.task # p.deferred[i]
  BY <1>2, <1>3 DEF Parted
<1>9. \A t \in Ready : \/ \E b \in ToSet(q.assigned) : b.task = t
                       \/ \E i \in DOMAIN q.deferred : q.deferred[i] = t
                       \/ \E i \in DOMAIN tail : tail[i] = t
  <2>1. SUFFICES ASSUME NEW t \in Ready, ~\E b \in ToSet(q.assigned) : b.task = t,
                        ~\E i \in DOMAIN q.deferred : q.deferred[i] = t
                 PROVE  \E i \in DOMAIN tail : tail[i] = t
    OBVIOUS
  <2>2. PICK j \in DOMAIN rest : rest[j] = t
    BY <1>5, <2>1 DEF Parted
  <2>3. rest[j] # Head(rest)
    BY <1>5, <2>1, <2>2
  <2>4. QED
    BY <1>4, <2>2, <2>3
<1>10. Parted(q, tail)
  <2>1. /\ \A i, j \in DOMAIN q.deferred : q.deferred[i] = q.deferred[j] => i = j
        /\ \A i \in DOMAIN q.deferred : q.deferred[i] \in Ready
    BY DEF Parted
  <2>2. \A b \in ToSet(q.assigned) : /\ \A i \in DOMAIN tail : b.task # tail[i]
                                     /\ \A i \in DOMAIN q.deferred : b.task # q.deferred[i]
    BY <1>5, <1>7, <1>8 DEF Parted
  <2>3. QED
    BY <1>7, <1>9, <2>1, <2>2 DEF Parted
<1>11. QED
  BY <1>1, <1>10

\* With a task more a pass goes on.
LEMMA PassGoesOn ==
  ASSUME Planned, pc = "option", pc' = "task", optimizer # "plugin",
         UNCHANGED <<problem, candidates, optimizer, remaining, selection, incumbent>>,
         todo' = Tail(todo), NEW a, a.task = Head(todo), NEW q, q = draft',
         q.assigned = Append(draft.assigned, a), q.deferred = draft.deferred,
         q.status = draft.status, q.iterations = draft.iterations, Sound(q),
         calendar' = problem.carryIn \cup q.reservations, Freed(q.transfers, links'),
         \A l \in Links : problem.linkFree[l] <= links'[l],
         OneHotAsked => /\ a.node # 0 /\ Matches(a, Chosen(selection)[Decided + 1])
                        /\ Chosen(selection)[Decided + 1] \in candidates
  PROVE  BuiltInInv'
<1>1. Drafting /\ Drafting'
  BY DEF Drafting
<1>2. AskedRight'
  BY DEF Planned, BuiltInInv, AskedRight, OneHotAsked
<1>3. /\ todo # <<>> /\ todo \in Seq(Ready) /\ \A i, j \in DOMAIN todo : todo[i] = todo[j] => i = j
  BY DEF Planned, PlanningInv, OptionsRight, TodoRight
<1>4. Sequence(draft.assigned)
  BY DEF Planned, PlansRight, PlanTyped
<1>5. Parted(q, todo')
  BY <1>1, <1>3, <1>4, PartedOnward DEF Planned, BuiltInInv, DraftRight
<1>6. /\ Len(draft.assigned) \in Nat /\ Len(q.assigned) = Len(draft.assigned) + 1
      /\ ToSet(q.assigned) = ToSet(draft.assigned) \cup {a}
  BY <1>4, OneMore
<1>7. /\ Len(todo) \in Nat /\ Len(todo') = Len(todo) - 1 /\ todo' \in Seq(Ready) /\ Len(todo) >= 1
      /\ Len(todo') \in Nat
  BY <1>3
<1>8. DraftRight'
  <2>1. Sound(q)' /\ Parted(q, todo)'
    <3>1. PICK r : r = todo'
      OBVIOUS
    <3>2. Sound(q)' = Sound(q) /\ Parted(q, r)' = Parted(q, r)
      BY SoundStays
    <3>3. QED
      BY <1>5, <3>1, <3>2
  <2>2. Freed(q.transfers, links)'
    BY DEF Freed
  <2>3. optimizer = "heuristic" /\ problem.maxIterations > 0 =>
          Len(q.assigned) + Len(todo') <= problem.maxIterations
    <3>1. Len(q.assigned) + Len(todo') = Len(draft.assigned) + Len(todo)
      BY <1>6, <1>7
    <3>2. QED
      BY <1>1, <3>1 DEF Planned, BuiltInInv, DraftRight
  <2>4. q.status = "feasible"
    BY <1>1 DEF Planned, BuiltInInv, DraftRight
  <2>5. QED
    BY <2>1, <2>2, <2>3, <2>4 DEF DraftRight
<1>9. DecisionRight'
  <2>1. \A x : Decision(x)' = Decision(x)
    BY DEF Decision
  <2>2. /\ IsFiniteSet(remaining') /\ \A x \in remaining' : Decision(x)'
        /\ OneHotAsked' => /\ draft'.iterations \in Nat
                           /\ problem'.maxIterations > 0 => draft'.iterations <= problem'.maxIterations
    BY <2>1 DEF Planned, BuiltInInv, DecisionRight, OneHotAsked
  <2>3. ASSUME OneHotAsked'
        PROVE  /\ Decision(selection)' /\ Affordable(Chosen(selection))'
               /\ todo' \in Seq(Ready') /\ Len(todo') <= Len(selection')
               /\ \A k \in 1 .. Decided' : Chosen(selection)'[k] \in candidates'
               /\ \A b \in ToSet(draft'.assigned) :
                    b.node # 0 /\ \E k \in 1 .. Decided' : Matches(b, Chosen(selection)'[k])
    <3>1. OneHotAsked
      BY <2>3 DEF OneHotAsked
    <3>2. PICK cs, n : cs = Chosen(selection) /\ n = Decided
      OBVIOUS
    <3>3. /\ Decision(selection) /\ Affordable(cs) /\ Len(todo) <= Len(selection)
          /\ \A k \in 1 .. n : cs[k] \in candidates
          /\ \A b \in ToSet(draft.assigned) : b.node # 0 /\ \E k \in 1 .. n : Matches(b, cs[k])
      BY <1>1, <3>1, <3>2 DEF Planned, BuiltInInv, DecisionRight
    <3>4. Chosen(selection)' = cs
      BY <3>2, ChosenStays
    <3>5. Affordable(cs)' = Affordable(cs)
      BY AffordableStays
    <3>6. Len(selection) \in Nat /\ n \in Nat /\ Decided' = n + 1 /\ Len(todo') <= Len(selection)
      BY <1>7, <3>2, <3>3 DEF Decision, Decided
    <3>7. \A k \in 1 .. n + 1 : k \in 1 .. n \/ k = n + 1
      BY <3>6
    <3>8. \A k \in 1 .. n : k \in 1 .. n + 1
      BY <3>6
    <3>9. n + 1 \in 1 .. n + 1
      BY <3>6
    <3>10. a.node # 0 /\ Matches(a, cs[n + 1]) /\ cs[n + 1] \in candidates
      BY <3>1, <3>2
    <3>11. \A k \in 1 .. n + 1 : cs[k] \in candidates
      BY <3>3, <3>7, <3>10
    <3>12. \A b \in ToSet(q.assigned) : b.node # 0 /\ \E k \in 1 .. n + 1 : Matches(b, cs[k])
      BY <1>6, <3>3, <3>8, <3>9, <3>10
    <3>13. Ready' = Ready
      BY DEF Ready
    <3>14. Decision(selection)' /\ Affordable(Chosen(selection))'
      BY <2>1, <3>3, <3>4, <3>5
    <3>15. QED
      BY <1>7, <3>4, <3>6, <3>11, <3>12, <3>13, <3>14
  <2>4. QED
    BY <2>2, <2>3 DEF DecisionRight, Matches
<1>10. ReturnedRight' /\ PlacesRight' /\ BuiltInsAreAccepted'
  BY ReturnedStays DEF Planned, BuiltInInv, PlacesRight, BuiltInsAreAccepted
<1>11. QED
  BY <1>2, <1>8, <1>9, <1>10 DEF BuiltInInv

---------------------------------------------------------------------------
(* A task is placed, or has no place. *)

\* The transfers of a sound plan go over links.
LEMMA SoundPaths ==
  ASSUME EstimateInv, NEW p, Assigns(p), NEW x \in p.transfers
  PROVE  ToSet(x.path) \subseteq Links
<1>1. PICK a \in Assigned(p) : a.task = x.task
  BY DEF Assigns
<1>2. PICK c \in candidates : Realizes(p, a, c) /\ CandidateRight(c)
  BY AssignedIsRealized
<1>3. x \in TransfersOf(p, a)
  BY <1>1 DEF TransfersOf
<1>4. MadeFor(c, TransfersOf(p, a)) /\ Sent(c)
  BY <1>2 DEF Realizes, CandidateRight, Sent
<1>5. Recorded(c, x)
  BY <1>3, <1>4, TransferRecords
<1>6. QED
  BY <1>5 DEF Recorded

\* With a computation that is free to start, the nodes hold all that run.
LEMMA HoldsMore ==
  ASSUME NEW p, Holds(p), calendar = problem.carryIn \cup p.reservations,
         NEW c, Placeable(c), NEW at \in Nat, Free(calendar, c, at),
         NEW q, q.reservations = p.reservations \cup {Reservation(c, at)}
  PROVE  Holds(q)
<1>1. PICK r : r = Reservation(c, at)
  OBVIOUS
<1>2. r.node = c.node /\ r.start = at /\ r.finish = at + c.compute
  BY <1>1 DEF Reservation
<1>3. ASSUME NEW n \in Nodes, NEW u \in Nat, ActiveAt(q.reservations, n, u) # {}
      PROVE  Fits(n, ActiveAt(problem.carryIn \cup q.reservations, n, u))
  <2>1. problem.carryIn \cup q.reservations = calendar \cup {r}
    BY <1>1
  <2>2. CASE r.node = n /\ r.start <= u /\ u < r.finish
    <3>1. ActiveAt(calendar \cup {r}, n, u) = {r} \cup ActiveAt(calendar, n, u)
      BY <2>2 DEF ActiveAt
    <3>2. u \in at .. at + c.compute - 1
      BY <1>2, <2>2 DEF Placeable
    <3>3. QED
      BY <1>1, <1>2, <2>1, <2>2, <3>1, <3>2 DEF Free
  <2>3. CASE ~(r.node = n /\ r.start <= u /\ u < r.finish)
    <3>1. ActiveAt(calendar \cup {r}, n, u) = ActiveAt(calendar, n, u)
      BY <2>3 DEF ActiveAt
    <3>2. ActiveAt(q.reservations, n, u) = ActiveAt(p.reservations, n, u)
      BY <1>1, <2>3 DEF ActiveAt
    <3>3. QED
      BY <1>3, <2>1, <3>1, <3>2 DEF Holds
  <2>4. QED
    BY <2>2, <2>3
<1>4. QED
  BY <1>3 DEF Holds

\* The best place is taken: the plan stays sound.
LEMMA BuiltInCommit ==
  ASSUME Planned, Commit
  PROVE  BuiltInInv'
<1>1. /\ UNCHANGED <<problem, candidates, optimizer, remaining, selection, incumbent>>
      /\ pc = "option" /\ pc' = "task" /\ todo' = Tail(todo)
  BY DEF Commit, searchVars, problemVars
<1>2. PICK x \in placed : /\ draft' = With(draft, x)
                          /\ calendar' = calendar \cup {Reservation(x.candidate, x.at)}
                          /\ links' = Transferred(x.candidate, links).links
  BY DEF Commit
<1>3. PICK d, q, t : d = x.candidate /\ q = draft' /\ t = Head(todo)
  OBVIOUS
<1>4. /\ optimizer # "plugin" /\ Concerns(d) /\ x.at \in Nat
      /\ todo # <<>> /\ todo \in Seq(Ready) /\ \A i, j \in DOMAIN todo : todo[i] = todo[j] => i = j
  BY <1>1, <1>3 DEF Planned, PlanningInv, OptionsRight, TodoRight
<1>5. PlaceRight(x)
  BY <1>1 DEF Planned, BuiltInInv, PlacesRight
<1>6. PICK b : b = Transferred(d, links)
  OBVIOUS
<1>7. PICK c \in Eligible : SameEstimates(d, c)
  BY <1>3, <1>5 DEF PlaceRight
<1>8. PICK own : own = b.made
  OBVIOUS
<1>9. /\ x.transfers = own /\ b.at <= x.at /\ problem.free[d.node] <= x.at
      /\ d.start = Min({x.at} \cup {y.start : y \in own})
      /\ d.finish = x.at + d.compute /\ d.communication = Spent(own)
      /\ Free(calendar, d, x.at)
  BY <1>3, <1>5, <1>6, <1>8 DEF PlaceRight
<1>10. Setting /\ problem \in Problems /\ WellFormed(problem) /\ EstimateInv
  BY ProblemAssumption DEF Planned, PlanningInv, EstimateInv, Setting
<1>11. CandidateRight(d) /\ d.task = t
  BY <1>3, <1>4 DEF Concerns
<1>12. /\ Placeable(d) /\ d.task \in Ready /\ d.ready \in Nat /\ d.transfers \in Seq(Transfers)
       /\ problem.free[d.node] \in Nat
  BY <1>10, <1>11, CandidateIsPlaceable
<1>13. links \in [Links -> Nat]
  BY DEF Planned, PlanningInv, CalendarRight
<1>14. MovedRight(d, links, b, Len(d.transfers))
  BY <1>6, <1>10, <1>12, <1>13, TransfersMade
<1>15. MadeFor(d, own) /\ Sent(d)
  <2>1. Len(d.transfers) \in Nat /\ DOMAIN d.transfers = 1 .. Len(d.transfers)
    BY <1>12
  <2>2. \A i \in Moving(d) : i <= Len(d.transfers)
    BY <2>1 DEF Moving
  <2>3. QED
    BY <1>8, <1>11, <1>14, <2>2 DEF MovedRight, MadeFor, CandidateRight, Sent
<1>16. IsFiniteSet(own) /\ \A y \in own : y.task = t /\ ToSet(y.path) \subseteq Links
  BY <1>11, <1>15, MadeAreFinite, TransferRecords DEF Recorded
<1>17. PICK r : r = Reservation(d, x.at)
  OBVIOUS
<1>18. /\ r.task = t /\ r.node = d.node /\ r.start = x.at /\ r.finish = d.finish
       /\ r = Reservation(c, x.at)
  BY <1>7, <1>9, <1>11, <1>17, SameTransfers DEF Reservation
<1>19. PICK a : a = [task |-> d.task, node |-> d.node, start |-> d.start, finish |-> d.finish,
                     compute |-> d.compute, communication |-> d.communication,
                     energy |-> d.energy, success |-> d.success, locations |-> d.locations]
  OBVIOUS
<1>20. PlanTyped(draft)
  BY DEF Planned, PlansRight
<1>21. /\ q.assigned = Append(draft.assigned, a) /\ q.reservations = draft.reservations \cup {r}
       /\ q.transfers = draft.transfers \cup own /\ q.deferred = draft.deferred
       /\ q.status = draft.status /\ q.iterations = draft.iterations
  <2>1. q = [draft EXCEPT !.assigned = Append(@, a), !.reservations = @ \cup {r},
                          !.transfers = @ \cup own]
    BY <1>2, <1>3, <1>9, <1>17, <1>19 DEF With
  <2>2. QED
    BY <1>20, <2>1 DEF PlanTyped
<1>22. /\ a.task = d.task /\ a.node = d.node /\ a.start = d.start /\ a.finish = d.finish
       /\ a.compute = d.compute /\ a.communication = d.communication /\ a.energy = d.energy
       /\ a.success = d.success /\ a.locations = d.locations
  BY <1>19
<1>23. Drafting
  BY <1>1, <1>4 DEF Drafting
<1>24. /\ Sound(draft) /\ Parted(draft, todo) /\ Freed(draft.transfers, links)
       /\ calendar = problem.carryIn \cup draft.reservations
       /\ \A l \in Links : problem.linkFree[l] <= links[l]
  BY <1>23 DEF Planned, BuiltInInv, DraftRight
<1>25. Sequence(draft.assigned)
  BY <1>20 DEF PlanTyped
<1>26. t \in Ready /\ \A e \in ToSet(draft.assigned) : e.task # t
  BY <1>3, <1>4, <1>24, HeadIsApart
<1>27. a.node # 0
  BY <1>12, <1>22, TaskAssumption DEF Placeable
<1>28. /\ \A y \in draft.reservations : y.task # t
       /\ \A y \in draft.transfers : y.task # t
  BY <1>24, <1>26 DEF Sound, Assigns, Assigned
<1>29. Realizes(q, a, c)
  <2>1. TransfersOf(q, a) = own
    BY <1>11, <1>16, <1>21, <1>22, <1>28 DEF TransfersOf
  <2>2. {y \in q.reservations : y.task = a.task} = {r}
    BY <1>11, <1>18, <1>21, <1>22, <1>28
  <2>3. /\ c.task = a.task /\ c.node = a.node
        /\ a.compute = c.compute /\ a.energy = c.energy /\ a.success = c.success
        /\ a.locations = c.locations /\ a.communication = Spent(own)
    BY <1>7, <1>9, <1>22 DEF SameEstimates
  <2>4. MadeFor(c, own)
    <3>1. d.task = c.task /\ d.transfers = c.transfers /\ d.ready = c.ready
      BY <1>7 DEF SameEstimates
    <3>2. Moving(c) = Moving(d) /\ \A i, s : Transfer(c, i, s) = Transfer(d, i, s)
      BY <3>1 DEF Moving, Transfer
    <3>3. \A i \in Moving(c) : \E y \in own : y.id = <<c.task, i>>
      BY <1>15, <3>1, <3>2 DEF MadeFor
    <3>4. \A y \in own : /\ \E i \in Moving(c) : y = Transfer(c, i, y.start)
                         /\ y.start \in Nat /\ y.finish \in Nat
                         /\ c.ready <= y.start /\ y.start < y.finish
      <4>1. SUFFICES ASSUME NEW y \in own
                     PROVE  /\ \E i \in Moving(c) : y = Transfer(c, i, y.start)
                            /\ y.start \in Nat /\ y.finish \in Nat
                            /\ c.ready <= y.start /\ y.start < y.finish
        OBVIOUS
      <4>2. /\ y.start \in Nat /\ y.finish \in Nat /\ d.ready <= y.start /\ y.start < y.finish
        BY <1>15 DEF MadeFor
      <4>3. PICK i \in Moving(d) : y = Transfer(d, i, y.start)
        BY <1>15 DEF MadeFor
      <4>4. QED
        BY <3>1, <3>2, <4>2, <4>3
    <3>5. QED
      BY <1>15, <3>3, <3>4 DEF MadeFor
  <2>5. d.ready <= x.at /\ \A y \in own : y.finish <= x.at
    <3>1. /\ b.at \in Nat /\ d.ready <= b.at
          /\ \A y \in own : y.finish \in Nat /\ y.finish <= b.at
      BY <1>8, <1>14 DEF MovedRight
    <3>2. QED
      BY <1>4, <1>9, <1>12, <3>1
  <2>6. /\ r.start \in Nat /\ problem.free[c.node] <= r.start /\ c.ready <= r.start
        /\ \A y \in own : y.finish <= r.start
        /\ r = Reservation(c, r.start) /\ a.finish = r.finish
        /\ a.start = Min({r.start} \cup {y.start : y \in own})
    BY <1>4, <1>7, <1>9, <1>18, <1>22, <2>5 DEF SameEstimates
  <2>7. r \in q.reservations
    BY <1>21
  <2>8. QED
    BY <2>1, <2>2, <2>3, <2>4, <2>6, <2>7 DEF Realizes
<1>30. Assigns(q)
  <2>1. \A y \in {r} \cup own : y.task = a.task
    BY <1>11, <1>16, <1>18, <1>22
  <2>2. c \in candidates
    BY <1>7 DEF Eligible
  <2>3. a.task \in Ready /\ \A e \in ToSet(draft.assigned) : e.task # a.task
    BY <1>11, <1>22, <1>26
  <2>4. Assigns(draft)
    BY <1>24 DEF Sound
  <2>5. QED
    BY <1>16, <1>21, <1>25, <1>27, <1>29, <2>1, <2>2, <2>3, <2>4, AssignsMore
<1>31. Holds(q)
  <2>1. q.reservations = draft.reservations \cup {Reservation(d, x.at)}
    BY <1>17, <1>21
  <2>2. Holds(draft) /\ Placeable(d) /\ x.at \in Nat /\ Free(calendar, d, x.at)
    BY <1>4, <1>9, <1>12, <1>24 DEF Sound
  <2>3. QED
    BY <1>24, <2>1, <2>2, HoldsMore
<1>32. \A y \in own : \A l \in ToSet(y.path) : links[l] <= y.start /\ y.finish <= b.links[l]
  BY <1>8, <1>14 DEF MovedRight
<1>33. /\ \A y \in own : y.start \in Nat /\ y.finish \in Nat
       /\ \A y \in draft.transfers : y.start \in Nat /\ y.finish \in Int
       /\ \A y \in draft.transfers : ToSet(y.path) \subseteq Links
       /\ b.links \in [Links -> Nat] /\ \A l \in Links : links[l] <= b.links[l]
       /\ \A l \in Links : problem.linkFree[l] \in Nat
  BY <1>8, <1>10, <1>14, <1>20, <1>24, SoundPaths DEF MovedRight, PlanTyped, Timed, Sound, WellFormed
<1>34. LinksValid(q)
  <2>1. \A y \in draft.transfers, z \in own :
          ToSet(y.path) \cap ToSet(z.path) # {} => y.finish <= z.start
    <3>1. SUFFICES ASSUME NEW y \in draft.transfers, NEW z \in own,
                          NEW l \in ToSet(y.path) \cap ToSet(z.path)
                   PROVE  y.finish <= z.start
      OBVIOUS
    <3>2. y.finish <= links[l] /\ links[l] <= z.start /\ l \in Links
      BY <1>24, <1>32, <1>33 DEF Freed
    <3>3. links[l] \in Nat /\ y.finish \in Int /\ z.start \in Nat
      BY <1>13, <1>33, <3>2
    <3>4. QED
      BY <3>2, <3>3
  <2>2. \A y, z \in draft.transfers :
          y # z /\ ToSet(y.path) \cap ToSet(z.path) # {} => y.finish <= z.start \/ z.finish <= y.start
    BY <1>24 DEF Sound, LinksValid
  <2>3. \A y, z \in own : y # z => y.finish <= z.start \/ z.finish <= y.start
    BY <1>15 DEF MadeFor
  <2>4. SUFFICES ASSUME NEW y \in q.transfers, NEW z \in q.transfers,
                        y # z, ToSet(y.path) \cap ToSet(z.path) # {}
                 PROVE  y.finish <= z.start \/ z.finish <= y.start
    BY DEF LinksValid
  <2>5. y \in draft.transfers \cup own /\ z \in draft.transfers \cup own
    BY <1>21
  <2>6. ToSet(z.path) \cap ToSet(y.path) # {}
    BY <2>4
  <2>7. QED
    BY <2>1, <2>2, <2>3, <2>4, <2>5, <2>6
<1>35. Waits(q)
  <2>1. \A y \in own : \A l \in ToSet(y.path) : problem.linkFree[l] <= y.start
    <3>1. SUFFICES ASSUME NEW y \in own, NEW l \in ToSet(y.path)
                   PROVE  problem.linkFree[l] <= y.start
      OBVIOUS
    <3>2. l \in Links /\ links[l] <= y.start
      BY <1>16, <1>32
    <3>3. QED
      BY <1>13, <1>24, <1>33, <3>2
  <2>2. QED
    BY <1>21, <1>24, <2>1 DEF Sound, Waits
<1>36. Freed(q.transfers, b.links)
  <2>1. ASSUME NEW y \in draft.transfers, NEW l \in ToSet(y.path)
        PROVE  problem.linkFree[l] <= y.start /\ y.finish <= b.links[l]
    <3>1. l \in Links /\ problem.linkFree[l] <= y.start /\ y.finish <= links[l]
      BY <1>24, <1>33 DEF Freed
    <3>2. links[l] \in Nat /\ b.links[l] \in Nat /\ links[l] <= b.links[l]
      BY <1>13, <1>33, <3>1
    <3>3. QED
      BY <1>33, <3>1, <3>2
  <2>2. ASSUME NEW y \in own, NEW l \in ToSet(y.path)
        PROVE  problem.linkFree[l] <= y.start /\ y.finish <= b.links[l]
    BY <1>21, <1>32, <1>35 DEF Waits
  <2>3. QED
    BY <1>21, <2>1, <2>2 DEF Freed
<1>37. \A l \in Links : problem.linkFree[l] <= b.links[l]
  <2>1. SUFFICES ASSUME NEW l \in Links PROVE problem.linkFree[l] <= b.links[l]
    OBVIOUS
  <2>2. /\ links[l] \in Nat /\ b.links[l] \in Nat /\ problem.linkFree[l] \in Nat
        /\ links[l] <= b.links[l] /\ problem.linkFree[l] <= links[l]
    BY <1>13, <1>24, <1>33
  <2>3. QED
    BY <2>2
<1>38. links' = b.links /\ calendar' = problem.carryIn \cup q.reservations
  BY <1>2, <1>3, <1>6, <1>17, <1>21, <1>24
<1>39. OneHotAsked => /\ Matches(a, Chosen(selection)[Decided + 1])
                      /\ Chosen(selection)[Decided + 1] \in candidates
  <2>1. SUFFICES ASSUME OneHotAsked
                 PROVE  /\ Matches(a, Chosen(selection)[Decided + 1])
                        /\ Chosen(selection)[Decided + 1] \in candidates
    OBVIOUS
  <2>2. c = Chosen(selection)[Decided + 1] /\ c \in candidates
    BY <1>7, <2>1 DEF OneHotAsked, Eligible
  <2>3. Matches(a, c)
    BY <1>7, <1>22 DEF SameEstimates, Matches
  <2>4. QED
    BY <2>2, <2>3
<1>40. Sound(q)
  BY <1>30, <1>31, <1>34, <1>35 DEF Sound
<1>41. QED
  <2>1. a.task = Head(todo)
    BY <1>3, <1>11, <1>22
  <2>2. Freed(q.transfers, links') /\ \A l \in Links : problem.linkFree[l] <= links'[l]
    BY <1>36, <1>37, <1>38
  <2>3. QED
    BY <1>1, <1>3, <1>4, <1>21, <1>27, <1>38, <1>39, <1>40, <2>1, <2>2, PassGoesOn

\* A task without a place is dropped, or the decision is refused.
LEMMA BuiltInNoPlace ==
  ASSUME Planned, NoPlace
  PROVE  BuiltInInv'
<1>1. /\ UNCHANGED <<problem, candidates, optimizer, remaining, selection, incumbent, calendar,
                     links>>
      /\ pc = "option"
      /\ IF optimizer = "heuristic"
         THEN /\ draft' = [draft EXCEPT !.assigned = Append(@, Dropped(Head(todo)))]
              /\ todo' = Tail(todo) /\ pc' = "task"
         ELSE pc' = "refused" /\ UNCHANGED <<draft, todo>>
  BY DEF NoPlace, searchVars, problemVars
<1>2. /\ optimizer # "plugin" /\ todo # <<>> /\ todo \in Seq(Ready)
      /\ \A i, j \in DOMAIN todo : todo[i] = todo[j] => i = j
  BY <1>1 DEF Planned, PlanningInv, OptionsRight, TodoRight
<1>3. CASE optimizer = "heuristic"
  <2>1. PICK a, q : a = Dropped(Head(todo)) /\ q = draft'
    OBVIOUS
  <2>2. PlanTyped(draft) /\ Sequence(draft.assigned)
    BY DEF Planned, PlansRight, PlanTyped
  <2>3. /\ q.assigned = Append(draft.assigned, a) /\ q.reservations = draft.reservations
        /\ q.transfers = draft.transfers /\ q.deferred = draft.deferred
        /\ q.status = draft.status /\ q.iterations = draft.iterations
    BY <1>1, <1>3, <2>1, <2>2 DEF PlanTyped
  <2>4. a.task = Head(todo) /\ a.node = 0 /\ a = Dropped(a.task)
    BY <2>1 DEF Dropped
  <2>5. Drafting
    BY <1>1, <1>2 DEF Drafting
  <2>6. /\ Sound(draft) /\ Parted(draft, todo) /\ Freed(draft.transfers, links)
        /\ calendar = problem.carryIn \cup draft.reservations
        /\ \A l \in Links : problem.linkFree[l] <= links[l]
    BY <2>5 DEF Planned, BuiltInInv, DraftRight
  <2>7. a.task \in Ready /\ \A e \in ToSet(draft.assigned) : e.task # a.task
    BY <1>2, <2>4, <2>6, HeadIsApart
  <2>8. Assigns(q)
    <3>1. /\ q.reservations = draft.reservations \cup {} /\ q.transfers = draft.transfers \cup {}
          /\ \A x \in {} \cup {} : x.task = a.task
      BY <2>3
    <3>2. IsFiniteSet({}) /\ Assigns(draft)
      BY <2>6, FS_EmptySet DEF Sound
    <3>3. QED
      BY <2>2, <2>3, <2>4, <2>7, <3>1, <3>2, AssignsMore
  <2>9. Sound(q)
    BY <2>3, <2>6, <2>8 DEF Sound, Holds, LinksValid, Waits
  <2>10. ~OneHotAsked
    BY <1>3 DEF OneHotAsked
  <2>11. /\ calendar' = problem.carryIn \cup q.reservations /\ Freed(q.transfers, links')
         /\ \A l \in Links : problem.linkFree[l] <= links'[l]
    BY <1>1, <2>3, <2>6
  <2>12. QED
    BY <1>1, <1>2, <1>3, <2>1, <2>3, <2>4, <2>9, <2>10, <2>11, PassGoesOn
<1>4. CASE optimizer # "heuristic"
  <2>1. pc' = "refused" /\ UNCHANGED <<draft, todo>>
    BY <1>1, <1>4
  <2>2. AskedRight' /\ ~Drafting'
    BY <1>1, <1>2, <1>4, <2>1 DEF Planned, BuiltInInv, AskedRight, OneHotAsked, Drafting
  <2>3. DraftRight' /\ DecisionRight'
    BY <1>1, <2>1, <2>2, DraftStays, DecisionStays DEF Planned, BuiltInInv
  <2>4. ReturnedRight' /\ PlacesRight' /\ BuiltInsAreAccepted'
    BY <1>1, <2>1, ReturnedStays DEF Planned, BuiltInInv, PlacesRight, BuiltInsAreAccepted
  <2>5. QED
    BY <2>2, <2>3, <2>4 DEF BuiltInInv
<1>5. QED
  BY <1>3, <1>4

---------------------------------------------------------------------------
(* All steps. *)

\* The plain heuristic begins.
LEMMA BuiltInAskHeuristic ==
  ASSUME Planned, AskHeuristic
  PROVE  BuiltInInv'
<1>1. /\ UNCHANGED <<problem, candidates, calendar, incumbent, remaining>>
      /\ pc = "estimate" /\ pc' = "task" /\ optimizer' = "heuristic"
      /\ links' = [l \in Links |-> Max({problem.now, problem.linkFree[l]})]
  BY DEF AskHeuristic, Built, searchVars, problemVars
<1>2. problem \in Problems /\ WellFormed(problem)
  BY ProblemAssumption DEF Planned, PlanningInv, EstimateInv, Setting
<1>3. AskedRight' /\ incumbent' = <<>>
  BY <1>1 DEF Planned, BuiltInInv, AskedRight, OneHotAsked
<1> DEFINE m(s) == IF problem.maxIterations = 0 THEN Len(s)
                   ELSE Min({problem.maxIterations, Len(s)})
<1>4. PICK o \in [DOMAIN problem.tasks -> Ready] :
        /\ \A i, j \in DOMAIN o : i < j => Precedes(TaskOrder(o[i]), TaskOrder(o[j]))
        /\ todo' = SubSeq(o, 1, m(o))
        /\ draft' = [EmptyPlan EXCEPT !.deferred = SubSeq(o, m(o) + 1, Len(o))]
  BY DEF AskHeuristic
<1>5. PICK n, limit, q : n = Len(o) /\ limit = m(o) /\ q = draft'
  OBVIOUS
<1>6. /\ o \in Seq(Ready) /\ n \in Nat /\ DOMAIN o = 1 .. n
      /\ \A i, j \in 1 .. n : o[i] = o[j] => i = j
      /\ \A t \in Ready : \E i \in 1 .. n : o[i] = t
  BY <1>2, <1>4, <1>5, OrderedTasks
<1>7. problem.maxIterations \in Nat
  BY <1>2 DEF WellFormed
<1>8. limit \in Nat /\ limit <= n /\ (problem.maxIterations > 0 => limit <= problem.maxIterations)
  BY <1>5, <1>6, <1>7, MinOfTwo
<1> HIDE DEF m
<1>9. /\ q.status = "feasible" /\ q.assigned = <<>> /\ q.reservations = {} /\ q.transfers = {}
      /\ q.deferred = SubSeq(o, limit + 1, n)
  BY <1>4, <1>5 DEF EmptyPlan
<1>10. /\ Len(todo') = limit /\ DOMAIN todo' = 1 .. limit
       /\ \A i \in 1 .. limit : todo'[i] = o[i]
  BY <1>4, <1>5, <1>6, <1>8
<1>11. PICK e : e = q.deferred
  OBVIOUS
<1>12. /\ DOMAIN e = 1 .. n - limit
       /\ \A i \in 1 .. n - limit : e[i] = o[limit + i] /\ limit + i \in 1 .. n
  <2>1. e = SubSeq(o, limit + 1, n) /\ n - limit \in Nat
    BY <1>6, <1>8, <1>9, <1>11
  <2>2. DOMAIN e = 1 .. n - limit
    BY <1>5, <1>6, <1>8, <2>1
  <2>3. ASSUME NEW i \in 1 .. n - limit
        PROVE  e[i] = o[limit + i] /\ limit + i \in 1 .. n
    <3>1. limit + 1 \in Nat /\ limit + 1 + i - 1 = limit + i /\ limit + i \in 1 .. n
      BY <1>6, <1>8
    <3>2. e[i] = o[limit + 1 + i - 1]
      BY <1>6, <1>8, <2>1, <2>2
    <3>3. QED
      BY <3>1, <3>2
  <2>4. QED
    BY <2>2, <2>3
<1>13. Sound(q) /\ ToSet(q.assigned) = {}
  BY <1>9, NothingIsSound
<1>14. ASSUME NEW i \in 1 .. n PROVE i \in 1 .. limit \/ (i - limit \in 1 .. n - limit /\ limit + (i - limit) = i)
  BY <1>6, <1>8
<1>15. Parted(q, todo')
  <2>1. \A i, j \in DOMAIN e : e[i] = e[j] => i = j
    <3>1. SUFFICES ASSUME NEW i \in 1 .. n - limit, NEW j \in 1 .. n - limit, e[i] = e[j] PROVE i = j
      BY <1>12
    <3>2. limit + i = limit + j
      BY <1>6, <1>12, <3>1
    <3>3. QED
      BY <1>8, <3>2
  <2>2. \A i \in DOMAIN e : e[i] \in Ready
    BY <1>6, <1>12
  <2>3. \A i \in DOMAIN e, j \in DOMAIN todo' : e[i] # todo'[j]
    <3>1. SUFFICES ASSUME NEW i \in 1 .. n - limit, NEW j \in 1 .. limit, e[i] = todo'[j] PROVE FALSE
      BY <1>10, <1>12
    <3>2. limit + i = j
      <4>1. j \in 1 .. n
        BY <1>6, <1>8
      <4>2. e[i] = o[limit + i] /\ limit + i \in 1 .. n
        BY <1>12
      <4>3. todo'[j] = o[j]
        BY <1>10
      <4>4. o[limit + i] = o[j]
        BY <3>1, <4>2, <4>3
      <4>5. QED
        BY <1>6, <4>1, <4>2, <4>4
    <3>3. QED
      BY <1>6, <1>8, <3>2
  <2>4. ASSUME NEW t \in Ready
        PROVE  (\E i \in DOMAIN e : e[i] = t) \/ \E i \in DOMAIN todo' : todo'[i] = t
    <3>1. PICK i \in 1 .. n : o[i] = t
      BY <1>6
    <3>2. CASE i \in 1 .. limit
      BY <1>10, <3>1, <3>2
    <3>3. CASE i - limit \in 1 .. n - limit /\ limit + (i - limit) = i
      <4>1. e[i - limit] = t
        BY <1>12, <3>1, <3>3
      <4>2. QED
        BY <1>12, <3>3, <4>1
    <3>4. QED
      BY <1>14, <3>2, <3>3
  <2>5. QED
    BY <1>11, <1>13, <2>1, <2>2, <2>3, <2>4 DEF Parted
<1>16. calendar = problem.carryIn
  BY <1>1 DEF Planned, PlanningInv, CalendarRight
<1>17. \A l \in Links : problem.linkFree[l] <= links'[l]
  <2>1. SUFFICES ASSUME NEW l \in Links PROVE problem.linkFree[l] <= links'[l]
    OBVIOUS
  <2>2. PICK now, free : now = problem.now /\ free = problem.linkFree[l]
    OBVIOUS
  <2>3. now \in Int /\ free \in Int
    BY <1>2, <2>2 DEF WellFormed
  <2>4. free <= Max({now, free})
    BY <2>3, MaxOfTwo
  <2>5. QED
    BY <1>1, <2>2, <2>4
<1>18. DraftRight'
  <2>1. Sound(q)' /\ Parted(q, todo)'
    <3>1. PICK r : r = todo'
      OBVIOUS
    <3>2. Sound(q)' = Sound(q) /\ Parted(q, r)' = Parted(q, r)
      BY <1>1, SoundStays
    <3>3. QED
      BY <1>13, <1>15, <3>1, <3>2
  <2>2. Freed(q.transfers, links)'
    BY <1>9 DEF Freed
  <2>3. Len(q.assigned) = 0
    BY <1>9
  <2>4. problem'.maxIterations > 0 => Len(q.assigned) + Len(todo') <= problem'.maxIterations
    BY <1>1, <1>8, <1>10, <2>3
  <2>5. calendar' = problem'.carryIn \cup q.reservations
    BY <1>1, <1>9, <1>16
  <2>6. QED
    BY <1>1, <1>5, <1>9, <1>17, <2>1, <2>2, <2>4, <2>5 DEF DraftRight
<1>19. DecisionRight'
  <2>1. \A s : Decision(s)' = Decision(s)
    BY <1>1 DEF Decision
  <2>2. ~OneHotAsked'
    BY <1>1 DEF OneHotAsked
  <2>3. QED
    BY <1>1, <2>1, <2>2 DEF Planned, BuiltInInv, DecisionRight
<1>20. PlacesRight' /\ ReturnedRight' /\ BuiltInsAreAccepted'
  BY <1>1, <1>3 DEF PlacesRight, ReturnedRight, BuiltInsAreAccepted
<1>21. QED
  BY <1>3, <1>18, <1>19, <1>20 DEF BuiltInInv

\* It holds at the start.
LEMMA BuiltInInit == Init => BuiltInInv
<1>1. SUFFICES ASSUME Init PROVE BuiltInInv
  OBVIOUS
<1>2. pc = "estimate" /\ optimizer = "" /\ incumbent = <<>> /\ draft = EmptyPlan /\ remaining = {}
  BY <1>1 DEF Init, Begin
<1>3. AskedRight /\ ~Drafting /\ ~OneHotAsked
  BY <1>2 DEF AskedRight, Drafting, OneHotAsked
<1>4. IsFiniteSet(remaining)
  BY <1>2, FS_EmptySet
<1>5. DraftRight /\ DecisionRight /\ PlacesRight
  BY <1>2, <1>3, <1>4 DEF DraftRight, DecisionRight, PlacesRight
<1>6. ReturnedRight /\ BuiltInsAreAccepted
  BY <1>2 DEF ReturnedRight, BuiltInsAreAccepted
<1>7. QED
  BY <1>3, <1>5, <1>6 DEF BuiltInInv

\* Every step keeps it.
LEMMA BuiltInStep == Planned /\ [Next]_vars => BuiltInInv'
<1>1. SUFFICES ASSUME Planned, [Next]_vars PROVE BuiltInInv'
  OBVIOUS
<1>2. CASE Building
  BY <1>1, <1>2, BuiltInBuilding
<1>3. CASE Heuristic
  BY <1>1, <1>3, BuiltInAskHeuristic, BuiltInHeuristicEnds DEF Heuristic
<1>4. CASE OneHot
  BY <1>1, <1>4, BuiltInAskOneHot, BuiltInSearchEnds, BuiltInGoesOn, BuiltInSelect, BuiltInScore
  DEF OneHot
<1>5. CASE OneTask
  BY <1>1, <1>5, BuiltInNextTask, BuiltInTryOption, BuiltInSearch, BuiltInPlace, BuiltInCommit,
     BuiltInNoPlace
  DEF OneTask
<1>6. CASE PlugIn
  BY <1>1, <1>6, BuiltInPlugIn
<1>7. CASE Validate
  BY <1>1, <1>7, BuiltInValidate
<1>8. CASE UNCHANGED vars
  BY <1>1, <1>8, BuiltInStutters
<1>9. QED
  BY <1>1, <1>2, <1>3, <1>4, <1>5, <1>6, <1>7, <1>8 DEF Next

\* Whatever the problem, the validation accepts every plan of the exhaustive search
\* and of the heuristic under the formulation, and one of the plain heuristic unless
\* it uses up a battery or breaks a hard constraint, which that one does not look at.
THEOREM BuiltInsAreAcceptedHolds == Spec => []BuiltInsAreAccepted
<1>1. Init => Planned
  BY PlanningInit, PlansInit, BuiltInInit DEF Planned
<1>2. Planned /\ [Next]_vars => Planned'
  <2>1. SUFFICES ASSUME Planned, [Next]_vars PROVE Planned'
    OBVIOUS
  <2>2. PlanningInv' /\ PlansRight' /\ BuiltInInv'
    BY <2>1, PlanningStep, PlansStep, BuiltInStep DEF Planned
  <2>3. QED
    BY <2>2 DEF Planned
<1>3. Planned => BuiltInsAreAccepted
  BY DEF Planned, BuiltInInv
<1>4. QED
  BY <1>1, <1>2, <1>3, PTL DEF Spec
=============================================================================
