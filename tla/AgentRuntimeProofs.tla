------------------------- MODULE AgentRuntimeProofs -------------------------
(***************************************************************************)
(* Theorems about AgentRuntime, for all sets of nodes and attempts, all    *)
(* capacities and all bounds.                                              *)
(*                                                                         *)
(* The tables (Tables) and the calendars (Calendars) have to be known      *)
(* together: that a completion ends an interval where it was acknowledged  *)
(* is what keeps a node within its capacity, and the bound on times rests  *)
(* on an attempt being accepted only once.                                 *)
(***************************************************************************)
EXTENDS AgentRuntime, FiniteSetsExt, FiniteSetTheorems, TLAPS, WellFoundedInduction

---------------------------------------------------------------------------
(* Least and greatest elements. *)

\* Natural numbers are well-founded, so a least level is attained.
LEMMA MinimalLevel ==
  ASSUME NEW T, T # {}, NEW level, \A x \in T : level[x] \in Nat
  PROVE  \E x \in T : \A y \in T : ~(level[y] < level[x])
<1> DEFINE R == OpToRel(<, Nat)
           L == {level[x] : x \in T}
<1>1. IsWellFoundedOn(R, Nat)
  BY NatLessThanWellFounded
<1>2. \A m, n \in Nat : m < n => <<m, n>> \in R
  BY DEF OpToRel
<1>3. L \subseteq Nat /\ L # {}
  OBVIOUS
<1> HIDE DEF R, L
<1>4. PICK m \in L : \A n \in L : <<n, m>> \notin R
  BY <1>1, <1>3, WFMin
<1>5. PICK x \in T : level[x] = m
  BY <1>4 DEF L
<1>6. \A y \in T : ~(level[y] < level[x])
  BY <1>2, <1>4, <1>5 DEF L
<1>7. QED
  BY <1>6

\* The least element of a set of natural numbers.
LEMMA MinOfSet ==
  ASSUME NEW S \in SUBSET Nat, S # {}
  PROVE  Min(S) \in S /\ \A x \in S : Min(S) <= x
<1> DEFINE level == [x \in S |-> x]
<1>1. \A x \in S : level[x] \in Nat
  OBVIOUS
<1>2. PICK m \in S : \A x \in S : ~(level[x] < level[m])
  <2> HIDE DEF level
  <2>1. QED
    BY <1>1, MinimalLevel
<1>3. \E n \in S : \A x \in S : n <= x
  BY <1>2
<1>4. QED
  BY <1>3 DEF Min

\* The greatest element of a bounded set of natural numbers.
LEMMA MaxOfSet ==
  ASSUME NEW b \in Nat, NEW S \in SUBSET (0 .. b), S # {}
  PROVE  Max(S) \in S /\ \A x \in S : x <= Max(S)
<1> DEFINE level == [x \in S |-> b - x]
<1>1. \A x \in S : level[x] \in Nat
  OBVIOUS
<1>2. PICK m \in S : \A x \in S : ~(level[x] < level[m])
  <2> HIDE DEF level
  <2>1. QED
    BY <1>1, MinimalLevel
<1>3. \E n \in S : \A x \in S : n >= x
  BY <1>2
<1>4. QED
  BY <1>3 DEF Max

---------------------------------------------------------------------------
(* The inductive invariant. *)

RecordShape ==
  [attempt : Attempts, node : Nodes, start : Nat, finish : Nat,
   demand : 1 .. MaxDemand, terminal : BOOLEAN, cancelled : BOOLEAN]

\* The types without the bound on times.
RuntimeShape ==
  /\ reservations \subseteq RecordShape /\ IsFiniteSet(reservations)
  /\ pending \subseteq DispatchIds \X (Nat \X Nat)
  /\ dispatchOf \in [Attempts -> DispatchIds \cup {NoDispatch}]
  /\ consumed \subseteq DispatchIds
  /\ terminalAttempts \subseteq Attempts
  /\ cancelledAttempts \subseteq terminalAttempts
  /\ promised \in [Attempts -> Nat \X Nat]
  /\ received \subseteq Attempts \X (Nat \X Nat)

\* The attempts the runtime has accepted.
Accepted == {a \in Attempts : dispatchOf[a] # NoDispatch \/ a \in terminalAttempts}

\* Every accepted attempt may have moved the last end of an interval once.
LastFinish == MaxStart + MaxDuration * Cardinality(Accepted)

\* The runtime's tables: an outstanding attempt has one entry in each.
Tables ==
  /\ \A p \in pending :
       dispatchOf[p[1][2]] = p[1] /\ p[1] \notin consumed /\ promised[p[1][2]] = p[2]
  /\ \A a \in Attempts : dispatchOf[a] # NoDispatch =>
       /\ dispatchOf[a][2] = a /\ a \notin terminalAttempts
       /\ \E p \in pending : p[1] = dispatchOf[a]

\* The calendars: a node has one interval of an attempt at most; an open one is
\* that of an outstanding dispatch, with the acknowledged schedule; of an
\* accepted attempt that was not cancelled one interval counts.
Calendars ==
  /\ \A r, q \in reservations : r.node = q.node /\ r.attempt = q.attempt => r = q
  /\ \A r, q \in reservations :
       r.attempt = q.attempt /\ ~r.cancelled /\ ~q.cancelled => r = q
  /\ \A r \in reservations :
       /\ r.start <= r.finish /\ r.finish <= LastFinish
       /\ ~r.terminal => /\ dispatchOf[r.attempt] = <<r.node, r.attempt>>
                         /\ promised[r.attempt] = <<r.start, r.finish>> /\ ~r.cancelled
       /\ r.terminal /\ ~r.cancelled =>
            r.attempt \in terminalAttempts \ cancelledAttempts
  /\ \A a \in Attempts : dispatchOf[a] # NoDispatch => LiveReservation(dispatchOf[a]) # {}
  /\ \A a \in terminalAttempts \ cancelledAttempts :
       \E r \in reservations : r.attempt = a /\ ~r.cancelled

\* What an agent has accepted fits it, at every instant without bound.
WithinCapacity ==
  \A n \in Nodes, time \in Nat :
    /\ Cardinality(ActiveAt(On(n), time)) <= Concurrency[n]
    /\ Demand(ActiveAt(On(n), time)) <= Capacity[n]

\* Acknowledged schedules lie within the horizon.
SchedulesBounded ==
  /\ \A a \in Attempts : promised[a] \in Schedules
  /\ \A p \in pending : p[2] \in Schedules
  /\ received \subseteq Attempts \X Schedules

RuntimeInv ==
  RuntimeShape /\ Tables /\ Calendars /\ WithinCapacity /\ SchedulesBounded

---------------------------------------------------------------------------
(* Calendars. *)

\* The units that intervals hold together are finitely many.
LEMMA UnitsFinite ==
  ASSUME NEW S, IsFiniteSet(S), \A r \in S : r.demand \in 1 .. MaxDemand
  PROVE  /\ IsFiniteSet(UNION {{r} \X (1 .. r.demand) : r \in S})
         /\ Demand(S) \in Nat
<1> DEFINE U == UNION {{r} \X (1 .. r.demand) : r \in S}
<1>1. MaxDemand \in Nat
  BY RuntimeAssumption DEF RuntimeAssumption
<1>2. U \subseteq S \X (1 .. MaxDemand)
  BY <1>1
<1>3. IsFiniteSet(S \X (1 .. MaxDemand))
  <2>1. IsFiniteSet(1 .. MaxDemand)
    BY <1>1, FS_Interval
  <2>2. QED
    BY <2>1, FS_Product
<1>4. IsFiniteSet(U)
  BY <1>2, <1>3, FS_Subset
<1>5. QED
  BY <1>4, FS_CardinalityType DEF Demand

\* One interval more adds its demand at most.
LEMMA DemandAdded ==
  ASSUME NEW S, IsFiniteSet(S), \A r \in S : r.demand \in 1 .. MaxDemand,
         NEW q, q.demand \in 1 .. MaxDemand
  PROVE  Demand(S \cup {q}) <= Demand(S) + q.demand
<1> DEFINE U == UNION {{r} \X (1 .. r.demand) : r \in S}
           V == {q} \X (1 .. q.demand)
<1>1. IsFiniteSet(U) /\ Cardinality(U) \in Nat
  BY UnitsFinite DEF Demand
<1>2. IsFiniteSet({q}) /\ Cardinality({q}) = 1
  BY FS_Singleton
<1>3. IsFiniteSet(1 .. q.demand) /\ Cardinality(1 .. q.demand) = q.demand
  <2>1. q.demand \in Nat /\ ~(1 > q.demand)
    BY RuntimeAssumption DEF RuntimeAssumption
  <2>2. QED
    BY <2>1, FS_Interval
<1>4. IsFiniteSet(V) /\ Cardinality(V) = q.demand
  <2>1. IsFiniteSet(V) /\ Cardinality(V) = 1 * q.demand
    BY <1>2, <1>3, FS_Product
  <2>2. QED
    BY <2>1
<1>5. Cardinality(U \cup V) = Cardinality(U) + Cardinality(V) - Cardinality(U \cap V)
  BY <1>1, <1>4, FS_Union
<1>6. Cardinality(U \cap V) \in Nat
  BY <1>1, FS_Intersection, FS_CardinalityType
<1>7. UNION {{r} \X (1 .. r.demand) : r \in S \cup {q}} = U \cup V
  OBVIOUS
<1>8. Demand(S \cup {q}) = Cardinality(U \cup V) /\ Demand(S) = Cardinality(U)
  BY <1>7 DEF Demand
<1>9. QED
  BY <1>1, <1>4, <1>5, <1>6, <1>8

\* Nothing is held when nothing runs.
LEMMA NothingHeld == Cardinality({}) = 0 /\ Demand({}) = 0
<1>1. UNION {{r} \X (1 .. r.demand) : r \in {}} = {}
  OBVIOUS
<1>2. QED
  BY <1>1, FS_EmptySet DEF Demand

\* q is the interval r, as long or shorter.
Shortened(q, r) ==
  /\ q.node = r.node /\ q.attempt = r.attempt /\ q.start = r.start /\ q.demand = r.demand
  /\ q.finish <= r.finish

OnIn(R, n) == {r \in R : r.node = n}

OneEach(R) == \A r, q \in R : r.node = q.node /\ r.attempt = q.attempt => r = q

\* A calendar whose intervals are those of another one, or shorter, holds no
\* more at any instant.
LEMMA ShortenedHoldsLess ==
  ASSUME NEW R \in SUBSET RecordShape, IsFiniteSet(R),
         NEW Q \in SUBSET RecordShape, OneEach(Q),
         \A q \in Q : \E r \in R : Shortened(q, r),
         NEW n \in Nodes, NEW time \in Nat
  PROVE  /\ Cardinality(ActiveAt(OnIn(Q, n), time)) <= Cardinality(ActiveAt(OnIn(R, n), time))
         /\ Demand(ActiveAt(OnIn(Q, n), time)) <= Demand(ActiveAt(OnIn(R, n), time))
         /\ {Cardinality(ActiveAt(OnIn(Q, n), time)), Cardinality(ActiveAt(OnIn(R, n), time)),
             Demand(ActiveAt(OnIn(Q, n), time)), Demand(ActiveAt(OnIn(R, n), time))} \subseteq Nat
<1> DEFINE A == ActiveAt(OnIn(Q, n), time)
           B == ActiveAt(OnIn(R, n), time)
           f == [q \in A |-> CHOOSE r \in R : Shortened(q, r)]
           U == UNION {{q} \X (1 .. q.demand) : q \in A}
           V == UNION {{r} \X (1 .. r.demand) : r \in B}
           g == [u \in U |-> <<f[u[1]], u[2]>>]
<1>1. \A q \in A : q \in Q /\ q.node = n /\ q.start <= time /\ time < q.finish
  BY DEF ActiveAt, OnIn
<1>2. \A q \in A : f[q] \in R /\ Shortened(q, f[q])
  BY <1>1
<1>3. \A q \in A : f[q] \in B
  BY <1>1, <1>2 DEF ActiveAt, OnIn, Shortened, RecordShape
<1>4. \A p, q \in A : f[p] = f[q] => p = q
  BY <1>1, <1>2 DEF Shortened, OneEach
<1>5. IsFiniteSet(B)
  <2>1. B \subseteq R
    BY DEF ActiveAt, OnIn
  <2>2. QED
    BY <2>1, FS_Subset
<1>6. f \in Injection(A, B)
  <2>1. f \in [A -> B]
    BY <1>3
  <2>2. QED
    BY <2>1, <1>4 DEF Injection, IsInjective
<1>7. Cardinality(A) <= Cardinality(B)
  BY <1>5, <1>6, FS_Injection
<1>8. IsFiniteSet(V)
  <2>1. \A r \in B : r.demand \in 1 .. MaxDemand
    BY DEF ActiveAt, OnIn, RecordShape
  <2>2. QED
    BY <2>1, <1>5, UnitsFinite
<1>9. \A u \in U : u[1] \in A /\ u[2] \in 1 .. u[1].demand /\ u = <<u[1], u[2]>>
  OBVIOUS
<1>10. \A u \in U : g[u] \in V
  <2> HIDE DEF f, A, B
  <2> SUFFICES ASSUME NEW u \in U PROVE g[u] \in V
    OBVIOUS
  <2>1. u[1] \in A /\ u[2] \in 1 .. u[1].demand
    BY <1>9
  <2>2. f[u[1]] \in B /\ f[u[1]].demand = u[1].demand
    BY <2>1, <1>2, <1>3 DEF Shortened
  <2>3. QED
    BY <2>1, <2>2
<1>11. \A u, w \in U : g[u] = g[w] => u = w
  <2> HIDE DEF f, A, B
  <2> SUFFICES ASSUME NEW u \in U, NEW w \in U, g[u] = g[w] PROVE u = w
    OBVIOUS
  <2>1. f[u[1]] = f[w[1]] /\ u[2] = w[2]
    OBVIOUS
  <2>2. u[1] = w[1]
    BY <2>1, <1>4, <1>9
  <2>3. QED
    BY <2>1, <2>2, <1>9
<1>12. g \in Injection(U, V)
  <2> HIDE DEF f, A, B, U, V
  <2>1. g \in [U -> V]
    BY <1>10
  <2>2. QED
    BY <2>1, <1>11 DEF Injection, IsInjective
<1>13. Cardinality(U) <= Cardinality(V)
  <2> HIDE DEF g, U, V
  <2>1. QED
    BY <1>8, <1>12, FS_Injection
<1>14. Cardinality(A) \in Nat /\ Cardinality(B) \in Nat
  <2> HIDE DEF f, A, B
  <2>1. QED
    BY <1>5, <1>6, FS_Injection, FS_CardinalityType
<1>15. Cardinality(U) \in Nat /\ Cardinality(V) \in Nat
  <2> HIDE DEF g, U, V
  <2>1. QED
    BY <1>8, <1>12, FS_Injection, FS_CardinalityType
<1>16. QED
  BY <1>7, <1>13, <1>14, <1>15 DEF Demand

\* A dispatch id is not the absence of one.
LEMMA NoDispatchIsNone == NoDispatch \notin DispatchIds
BY RuntimeAssumption DEF RuntimeAssumption, DispatchIds

\* The last instant an interval can end at never leaves the horizon.
LEMMA LastFinishInHorizon ==
  /\ LastFinish <= MaxStart + MaxDuration * Cardinality(Attempts)
  /\ MaxStart + MaxDuration * Cardinality(Attempts) \in Nat
  /\ LastFinish \in Nat /\ MaxStart <= LastFinish
  /\ IsFiniteSet(Accepted) /\ Cardinality(Accepted) \in Nat
<1>1. IsFiniteSet(Accepted) /\ Cardinality(Accepted) \in Nat
      /\ Cardinality(Accepted) <= Cardinality(Attempts) /\ Cardinality(Attempts) \in Nat
  <2>1. Accepted \subseteq Attempts /\ IsFiniteSet(Attempts)
    BY RuntimeAssumption DEF Accepted, RuntimeAssumption
  <2>2. QED
    BY <2>1, FS_Subset, FS_CardinalityType
<1>2. MaxStart \in Nat /\ MaxDuration \in Nat
  BY RuntimeAssumption DEF RuntimeAssumption
<1>3. \A d, m, k \in Nat : m <= k => d * m \in Nat /\ d * k \in Nat /\ d * m <= d * k
  OBVIOUS
<1>4. QED
  BY <1>1, <1>2, <1>3 DEF LastFinish

LEMMA LastFinishNat == /\ LastFinish \in Nat /\ MaxStart <= LastFinish
                       /\ IsFiniteSet(Accepted) /\ Cardinality(Accepted) \in Nat
BY LastFinishInHorizon

\* If an interval of some length fits a node at all, the search finds a place for
\* one of any length: after the last end nothing is in the way.  It is no later
\* than that.
LEMMA FoundStart ==
  ASSUME RuntimeShape, Calendars, NEW n \in Nodes,
         NEW start \in 0 .. MaxStart, NEW demand \in 1 .. MaxDemand, NEW planned \in Nat,
         FeasibleStarts(On(n), n, start, planned, demand) # {}, NEW duration \in Nat
  PROVE  LET begin == Min(FeasibleStarts(On(n), n, start, duration, demand))
         IN /\ begin \in Nat /\ begin <= LastFinish
            /\ Fits(On(n), n, begin, duration, demand)
<1> DEFINE E == {start} \cup {r.finish : r \in On(n)}
           F == FeasibleStarts(On(n), n, start, duration, demand)
<1>1. On(n) \subseteq reservations /\ IsFiniteSet(On(n))
  <2>1. On(n) \subseteq reservations
    BY DEF On
  <2>2. QED
    BY <2>1, FS_Subset DEF RuntimeShape
<1>2. E \in SUBSET (0 .. LastFinish) /\ E # {}
  <2>1. start \in 0 .. LastFinish
    BY LastFinishNat, RuntimeAssumption DEF RuntimeAssumption
  <2>2. \A r \in On(n) : r.finish \in 0 .. LastFinish
    BY <1>1, LastFinishNat DEF RuntimeShape, RecordShape, Calendars
  <2>3. QED
    BY <2>1, <2>2
<1>3. Max(E) \in E /\ \A e \in E : e <= Max(E)
  <2> HIDE DEF E
  <2>1. QED
    BY <1>2, LastFinishNat, MaxOfSet
<1>4. demand <= Capacity[n]
  <2>1. PICK s \in {start} \cup {r.finish : r \in On(n)} : Fits(On(n), n, s, planned, demand)
    BY DEF FeasibleStarts
  <2> DEFINE running == ActiveAt(On(n), s)
  <2>2. Demand(running) + demand <= Capacity[n]
    BY <2>1 DEF Fits
  <2>3. running \subseteq reservations
    BY <1>1 DEF ActiveAt
  <2>4. IsFiniteSet(running) /\ \A r \in running : r.demand \in 1 .. MaxDemand
    BY <2>3, FS_Subset DEF RuntimeShape, RecordShape
  <2>5. Demand(running) \in Nat
    BY <2>4, UnitsFinite
  <2>6. QED
    BY <2>2, <2>5, RuntimeAssumption DEF RuntimeAssumption
<1>5. \A time \in Nat : time >= Max(E) => ActiveAt(On(n), time) = {}
  BY <1>1, <1>2, <1>3 DEF ActiveAt, RuntimeShape, RecordShape
<1>6. Fits(On(n), n, Max(E), duration, demand)
  <2> SUFFICES ASSUME NEW time \in {Max(E)} \cup Max(E) .. (Max(E) + duration - 1)
               PROVE  /\ Cardinality(ActiveAt(On(n), time)) < Concurrency[n]
                      /\ Demand(ActiveAt(On(n), time)) + demand <= Capacity[n]
    BY DEF Fits
  <2>1. time \in Nat /\ time >= Max(E)
    BY <1>2, <1>3, LastFinishNat
  <2>2. ActiveAt(On(n), time) = {}
    BY <2>1, <1>5
  <2>3. Cardinality(ActiveAt(On(n), time)) = 0 /\ Demand(ActiveAt(On(n), time)) = 0
    BY <2>2, NothingHeld
  <2>4. Concurrency[n] \in Nat \ {0} /\ Capacity[n] \in Nat
    BY RuntimeAssumption DEF RuntimeAssumption
  <2>5. QED
    BY <2>3, <2>4, <1>4
<1>7. Max(E) \in F
  BY <1>2, <1>3, <1>6 DEF FeasibleStarts
<1>8. F \subseteq E
  BY DEF FeasibleStarts
<1>9. F \in SUBSET Nat /\ F # {}
  BY <1>2, <1>7, <1>8, LastFinishNat
<1>10. Min(F) \in F
  <2> HIDE DEF F
  <2>1. QED
    BY <1>9, MinOfSet
<1>11. Fits(On(n), n, Min(F), duration, demand)
  BY <1>10 DEF FeasibleStarts
<1>12. QED
  BY <1>2, <1>8, <1>10, <1>11, LastFinishNat

---------------------------------------------------------------------------
(* Steps that end an interval. *)

\* An outstanding attempt has one open interval, the acknowledged one.
LEMMA OneOpenInterval ==
  ASSUME RuntimeShape, Calendars, NEW a \in Attempts, dispatchOf[a] # NoDispatch,
         dispatchOf[a][2] = a
  PROVE  \E r \in reservations :
           /\ LiveReservation(dispatchOf[a]) = {r}
           /\ r.attempt = a /\ ~r.terminal /\ ~r.cancelled
           /\ promised[a] = <<r.start, r.finish>>
<1>1. PICK r \in reservations : r.node = dispatchOf[a][1] /\ r.attempt = a /\ ~r.terminal
  BY DEF Calendars, LiveReservation
<1>2. LiveReservation(dispatchOf[a]) = {r}
  BY <1>1 DEF Calendars, LiveReservation
<1>3. promised[a] = <<r.start, r.finish>> /\ ~r.cancelled
  BY <1>1 DEF Calendars
<1>4. QED
  BY <1>1, <1>2, <1>3

\* The calendars keep their shape when an interval is replaced by a shorter one.
LEMMA IntervalReplaced ==
  ASSUME RuntimeShape, OneEach(reservations), NEW r \in reservations, NEW e \in RecordShape,
         Shortened(e, r), reservations' = (reservations \ {r}) \cup {e}
  PROVE  /\ reservations' \subseteq RecordShape /\ IsFiniteSet(reservations')
         /\ OneEach(reservations')
         /\ \A q \in reservations' : \E p \in reservations : Shortened(q, p)
<1>1. reservations' \subseteq RecordShape
  BY DEF RuntimeShape
<1>2. IsFiniteSet(reservations')
  <2>1. IsFiniteSet(reservations \ {r})
    BY FS_RemoveElement DEF RuntimeShape
  <2>2. QED
    BY <2>1, FS_AddElement
<1>3. OneEach(reservations')
  BY DEF OneEach, Shortened
<1>4. \A q \in reservations : Shortened(q, q)
  BY DEF RuntimeShape, RecordShape, Shortened
<1>5. QED
  BY <1>1, <1>2, <1>3, <1>4

LEMMA CapacityKept ==
  ASSUME RuntimeShape, WithinCapacity,
         reservations' \subseteq RecordShape, OneEach(reservations'),
         \A q \in reservations' : \E p \in reservations : Shortened(q, p)
  PROVE  WithinCapacity'
<1> SUFFICES ASSUME NEW n \in Nodes, NEW time \in Nat
             PROVE  /\ Cardinality(ActiveAt(OnIn(reservations', n), time)) <= Concurrency[n]
                    /\ Demand(ActiveAt(OnIn(reservations', n), time)) <= Capacity[n]
  BY DEF WithinCapacity, On, OnIn, ActiveAt, Demand
<1>1. /\ Cardinality(ActiveAt(OnIn(reservations, n), time)) <= Concurrency[n]
      /\ Demand(ActiveAt(OnIn(reservations, n), time)) <= Capacity[n]
  BY DEF WithinCapacity, On, OnIn
<1>2. Concurrency[n] \in Nat /\ Capacity[n] \in Nat
  BY RuntimeAssumption DEF RuntimeAssumption
<1> DEFINE A == ActiveAt(OnIn(reservations', n), time)
           B == ActiveAt(OnIn(reservations, n), time)
<1>3. /\ Cardinality(A) <= Cardinality(B) /\ Demand(A) <= Demand(B)
      /\ {Cardinality(A), Cardinality(B), Demand(A), Demand(B)} \subseteq Nat
  BY ShortenedHoldsLess DEF RuntimeShape
<1> HIDE DEF A, B
<1>4. Cardinality(A) <= Concurrency[n] /\ Demand(A) <= Capacity[n]
  BY <1>1, <1>2, <1>3 DEF A, B
<1>5. QED
  BY <1>4 DEF A

---------------------------------------------------------------------------
(* The actions. *)

LEMMA InitInv == Init => RuntimeInv
<1> SUFFICES ASSUME Init PROVE RuntimeInv
  OBVIOUS
<1>1. RuntimeShape
  BY FS_EmptySet DEF Init, RuntimeShape
<1>2. Tables /\ Calendars
  BY DEF Init, Tables, Calendars
<1>3. WithinCapacity
  <2>1. \A n \in Nodes, time \in Nat : ActiveAt(On(n), time) = {}
    BY DEF Init, ActiveAt, On
  <2>2. \A n \in Nodes, time \in Nat :
          Cardinality(ActiveAt(On(n), time)) = 0 /\ Demand(ActiveAt(On(n), time)) = 0
    BY <2>1, NothingHeld
  <2>3. \A n \in Nodes : Concurrency[n] \in Nat /\ Capacity[n] \in Nat
    BY RuntimeAssumption DEF RuntimeAssumption
  <2>4. QED
    BY <2>2, <2>3 DEF WithinCapacity
<1>4. SchedulesBounded
  <2>1. 0 \in Horizon
    BY LastFinishInHorizon, RuntimeAssumption DEF Horizon, RuntimeAssumption
  <2>2. QED
    BY <2>1 DEF Init, SchedulesBounded, Schedules
<1>5. QED
  BY <1>1, <1>2, <1>3, <1>4 DEF RuntimeInv

\* An interval is added where the search found room for it, or an empty one
\* that is over: no instant is overbooked.
LEMMA CapacityOfAdded ==
  ASSUME RuntimeShape, WithinCapacity, NEW q \in RecordShape, NEW duration \in Nat,
         reservations' = reservations \cup {q}, q.finish = q.start + duration,
         duration > 0 => Fits(On(q.node), q.node, q.start, duration, q.demand)
  PROVE  WithinCapacity'
<1> SUFFICES ASSUME NEW n \in Nodes, NEW time \in Nat
             PROVE  /\ Cardinality(ActiveAt(On(n)', time)) <= Concurrency[n]
                    /\ Demand(ActiveAt(On(n)', time)) <= Capacity[n]
  BY DEF WithinCapacity, ActiveAt, Demand
<1> DEFINE A == ActiveAt(On(n), time)
           A1 == ActiveAt(On(n)', time)
<1>1. Cardinality(A) <= Concurrency[n] /\ Demand(A) <= Capacity[n]
  BY DEF WithinCapacity
<1>2. CASE ~(q.node = n /\ q.start <= time /\ time < q.finish)
  <2>1. A1 = A
    BY <1>2 DEF ActiveAt, On
  <2>2. QED
    BY <1>1, <2>1
<1>3. CASE q.node = n /\ q.start <= time /\ time < q.finish
  <2>1. A1 = A \cup {q}
    BY <1>3 DEF ActiveAt, On
  <2>2. duration > 0 /\ time \in q.start .. (q.start + duration - 1)
    BY <1>3 DEF RecordShape
  <2>3. Cardinality(A) < Concurrency[n] /\ Demand(A) + q.demand <= Capacity[n]
    BY <2>2, <1>3 DEF Fits
  <2>4. IsFiniteSet(A) /\ A \subseteq RecordShape
    <3>1. A \subseteq reservations
      BY DEF ActiveAt, On
    <3>2. QED
      BY <3>1, FS_Subset DEF RuntimeShape
  <2>5. Cardinality(A1) <= Cardinality(A) + 1 /\ IsFiniteSet(A1)
        /\ Cardinality(A) \in Nat /\ Cardinality(A1) \in Nat
    <3> HIDE DEF A, A1
    <3>1. IsFiniteSet(A1) /\ Cardinality(A1) = IF q \in A THEN Cardinality(A) ELSE Cardinality(A) + 1
      BY <2>1, <2>4, FS_AddElement
    <3>2. Cardinality(A) \in Nat
      BY <2>4, FS_CardinalityType
    <3>3. QED
      BY <3>1, <3>2
  <2>6. (\A r \in A : r.demand \in 1 .. MaxDemand) /\ q.demand \in 1 .. MaxDemand
    BY <2>4 DEF RecordShape
  <2>7. \A r \in A1 : r.demand \in 1 .. MaxDemand
    BY <2>1, <2>6
  <2>8. Demand(A1) <= Demand(A) + q.demand
    <3> HIDE DEF A, A1
    <3>1. QED
      BY <2>1, <2>4, <2>6, DemandAdded
  <2>9. Demand(A) \in Nat /\ Demand(A1) \in Nat
    <3> HIDE DEF A, A1
    <3>1. QED
      BY <2>4, <2>5, <2>6, <2>7, UnitsFinite
  <2>10. Concurrency[n] \in Nat /\ Capacity[n] \in Nat /\ q.demand \in Nat
    BY <2>6, RuntimeAssumption DEF RuntimeAssumption
  <2> HIDE DEF A, A1
  <2>11. Cardinality(A1) <= Concurrency[n]
    BY <2>3, <2>5, <2>10
  <2>12. Demand(A1) <= Capacity[n]
    BY <2>3, <2>8, <2>9, <2>10
  <2>13. QED
    BY <2>11, <2>12 DEF A1
<1>4. QED
  BY <1>2, <1>3

\* One more accepted attempt lets the last end grow by one duration.
LEMMA AcceptedOneMore ==
  ASSUME NEW a \in Attempts, a \notin Accepted, Accepted' = Accepted \cup {a}
  PROVE  LastFinish' = LastFinish + MaxDuration
<1>1. Cardinality(Accepted') = Cardinality(Accepted) + 1
  BY LastFinishNat, FS_AddElement
<1>2. Cardinality(Accepted) \in Nat /\ MaxDuration \in Nat /\ MaxStart \in Nat
  BY LastFinishNat, RuntimeAssumption DEF RuntimeAssumption
<1>3. \A d, m \in Nat : d * (m + 1) = d * m + d
  OBVIOUS
<1>4. QED
  BY <1>1, <1>2, <1>3 DEF LastFinish

LEMMA DispatchInv ==
  ASSUME RuntimeInv, NEW a \in Attempts, NEW n \in Nodes, NEW start \in 0 .. MaxStart,
         NEW demand \in 1 .. MaxDemand, NEW planned \in 0 .. MaxDuration,
         NEW sampled \in 1 .. MaxDuration, Dispatch(a, n, start, planned, sampled, demand)
  PROVE  RuntimeInv'
<1> DEFINE begin == Min(FeasibleStarts(On(n), n, start, sampled, demand))
           finish == begin + sampled
           q == Reservation(a, n, begin, finish, demand)
<1>1. sampled \in Nat /\ planned \in Nat /\ sampled > 0 /\ sampled <= MaxDuration
      /\ MaxDuration \in Nat
  BY RuntimeAssumption DEF RuntimeAssumption
<1>2. begin \in Nat /\ begin <= LastFinish /\ Fits(On(n), n, begin, sampled, demand)
  BY <1>1, FoundStart DEF Dispatch, MayReserve, RuntimeInv
<1>3. /\ reservations' = reservations \cup {q}
      /\ pending' = pending \cup {<<<<n, a>>, <<begin, finish>>>>}
      /\ promised' = [promised EXCEPT ![a] = <<begin, finish>>]
      /\ dispatchOf' = [dispatchOf EXCEPT ![a] = <<n, a>>]
      /\ UNCHANGED <<consumed, terminalAttempts, cancelledAttempts, received>>
  BY DEF Dispatch
<1>4. /\ <<n, a>> \notin {p[1] : p \in pending} \cup consumed
      /\ dispatchOf[a] = NoDispatch /\ a \notin terminalAttempts
      /\ \A r \in reservations : r.node = n => r.attempt # a
  BY DEF Dispatch, MayReserve, On
<1>b. RuntimeShape /\ Tables /\ Calendars /\ WithinCapacity /\ SchedulesBounded
  BY DEF RuntimeInv
<1>a. /\ q.attempt = a /\ q.node = n /\ q.start = begin /\ q.finish = finish
      /\ q.demand = demand /\ ~q.terminal /\ ~q.cancelled
  BY DEF Reservation
<1> HIDE DEF begin
<1>5. finish \in Nat /\ q \in RecordShape /\ <<n, a>> # NoDispatch
  BY <1>1, <1>2, RuntimeAssumption
  DEF Reservation, RecordShape, RuntimeAssumption
<1>6. a \notin Accepted /\ Accepted' = Accepted \cup {a}
  BY <1>3, <1>4, <1>5 DEF Accepted, RuntimeInv, RuntimeShape
<1>7. LastFinish' = LastFinish + MaxDuration /\ LastFinish \in Nat
  BY <1>6, AcceptedOneMore, LastFinishNat
<1> HIDE DEF q
<1>8. RuntimeShape'
  <2>1. reservations' \subseteq RecordShape /\ IsFiniteSet(reservations')
    BY <1>3, <1>5, FS_AddElement DEF RuntimeInv, RuntimeShape
  <2>2. QED
    BY <1>2, <1>3, <1>5, <2>1 DEF RuntimeInv, RuntimeShape, DispatchIds
<1>9. Tables'
  <2>1. \A p \in pending : p[1][2] # a
    BY <1>b, <1>4, NoDispatchIsNone DEF RuntimeShape, Tables
  <2>2. \A p \in pending' :
          dispatchOf'[p[1][2]] = p[1] /\ p[1] \notin consumed' /\ promised'[p[1][2]] = p[2]
    BY <1>b, <1>3, <1>4, <2>1 DEF RuntimeShape, Tables, DispatchIds
  <2>3. \A b \in Attempts : dispatchOf'[b] # NoDispatch =>
          /\ dispatchOf'[b][2] = b /\ b \notin terminalAttempts'
          /\ \E p \in pending' : p[1] = dispatchOf'[b]
    <3>1. <<<<n, a>>, <<begin, finish>>>> \in pending' /\ dispatchOf'[a] = <<n, a>>
      BY <1>b, <1>3 DEF RuntimeShape
    <3>2. \A b \in Attempts : b # a => dispatchOf'[b] = dispatchOf[b]
      BY <1>b, <1>3 DEF RuntimeShape
    <3>3. QED
      <4> SUFFICES ASSUME NEW b \in Attempts, dispatchOf'[b] # NoDispatch
                   PROVE  /\ dispatchOf'[b][2] = b /\ b \notin terminalAttempts'
                          /\ \E p \in pending' : p[1] = dispatchOf'[b]
        OBVIOUS
      <4>1. CASE b = a
        <5> DEFINE entry == <<<<n, a>>, <<begin, finish>>>>
        <5>1. entry \in pending' /\ entry[1] = <<n, a>>
          BY <3>1
        <5>2. dispatchOf'[b] = <<n, a>> /\ <<n, a>>[2] = b
          BY <3>1, <4>1
        <5> HIDE DEF entry
        <5>3. \E p \in pending' : p[1] = dispatchOf'[b]
          BY <5>1, <5>2
        <5>4. b \notin terminalAttempts'
          BY <1>3, <1>4, <4>1
        <5>5. QED
          BY <5>2, <5>3, <5>4
      <4>2. CASE b # a
        BY <1>b, <1>3, <3>2, <4>2 DEF Tables
      <4>3. QED
        BY <4>1, <4>2
  <2>4. QED
    BY <2>2, <2>3 DEF Tables
<1>10. Calendars'
  <2>1. \A r \in reservations : r.attempt = a => r.cancelled /\ r.terminal
    BY <1>b, <1>4, NoDispatchIsNone DEF RuntimeShape, RecordShape, Calendars, DispatchIds
  <2>2. OneEach(reservations')
    BY <1>b, <1>3, <1>4, <1>a DEF OneEach, Calendars
  <2>3. \A r, p \in reservations' :
          r.attempt = p.attempt /\ ~r.cancelled /\ ~p.cancelled => r = p
    BY <1>b, <1>3, <2>1, <1>a DEF Calendars
  <2>4. \A r \in reservations : r.finish <= LastFinish'
    BY <1>b, <1>1, <1>7 DEF RuntimeShape, RecordShape, Calendars
  <2>5. \A r \in reservations :
          /\ r.start <= r.finish /\ r.finish <= LastFinish'
          /\ ~r.terminal => /\ dispatchOf'[r.attempt] = <<r.node, r.attempt>>
                            /\ promised'[r.attempt] = <<r.start, r.finish>> /\ ~r.cancelled
          /\ r.terminal /\ ~r.cancelled => r.attempt \in terminalAttempts' \ cancelledAttempts'
    BY <1>b, <1>3, <2>1, <2>4 DEF RuntimeShape, RecordShape, Calendars
  <2>6. /\ q.start <= q.finish /\ q.finish <= LastFinish'
        /\ dispatchOf'[q.attempt] = <<q.node, q.attempt>>
        /\ promised'[q.attempt] = <<q.start, q.finish>> /\ ~q.cancelled /\ ~q.terminal
    <3>1. dispatchOf'[a] = <<n, a>> /\ promised'[a] = <<begin, finish>>
      BY <1>b, <1>3 DEF RuntimeShape
    <3>2. begin <= finish /\ finish <= LastFinish'
      BY <1>1, <1>2, <1>7
    <3> HIDE DEF finish
    <3>3. QED
      BY <3>1, <3>2, <1>a
  <2>7. \A b \in Attempts : dispatchOf'[b] # NoDispatch =>
          \E r \in reservations' :
            r.node = dispatchOf'[b][1] /\ r.attempt = dispatchOf'[b][2] /\ ~r.terminal
    <3>1. q \in reservations' /\ dispatchOf'[a] = <<n, a>>
      BY <1>b, <1>3 DEF RuntimeShape
    <3>2. \A b \in Attempts : dispatchOf[b] # NoDispatch =>
            \E r \in reservations :
              r.node = dispatchOf[b][1] /\ r.attempt = dispatchOf[b][2] /\ ~r.terminal
      BY <1>b DEF Calendars, LiveReservation
    <3>3. \A b \in Attempts : b # a => dispatchOf'[b] = dispatchOf[b]
      BY <1>b, <1>3 DEF RuntimeShape
    <3>4. \A r \in reservations : r \in reservations'
      BY <1>3
    <3> QED
      BY <3>1, <3>2, <3>3, <3>4, <1>a
  <2>8. \A b \in terminalAttempts' \ cancelledAttempts' :
          \E r \in reservations' : r.attempt = b /\ ~r.cancelled
    BY <1>b, <1>3 DEF Calendars
  <2>9. \A r \in reservations' :
          /\ r.start <= r.finish /\ r.finish <= LastFinish'
          /\ ~r.terminal => /\ dispatchOf'[r.attempt] = <<r.node, r.attempt>>
                            /\ promised'[r.attempt] = <<r.start, r.finish>> /\ ~r.cancelled
          /\ r.terminal /\ ~r.cancelled => r.attempt \in terminalAttempts' \ cancelledAttempts'
    <3>1. \A r \in reservations' : r \in reservations \/ r = q
      BY <1>3
    <3>2. QED
      BY <3>1, <2>5, <2>6
  <2>10. QED
    BY <2>2, <2>3, <2>7, <2>8, <2>9 DEF Calendars, OneEach, LiveReservation
<1>11. WithinCapacity'
  BY <1>b, <1>1, <1>2, <1>3, <1>5, <1>a, CapacityOfAdded
<1>12. SchedulesBounded'
  <2>1. LastFinish' <= MaxStart + MaxDuration * Cardinality(Attempts)
    <3>1. (LastFinish <= MaxStart + MaxDuration * Cardinality(Attempts))'
      BY LastFinishInHorizon, PTL
    <3>2. QED
      BY <3>1
  <2>2. begin \in Horizon /\ finish \in Horizon
    BY <1>1, <1>2, <1>7, <2>1, LastFinishInHorizon, RuntimeAssumption
    DEF Horizon, RuntimeAssumption
  <2>3. QED
    BY <1>b, <1>3, <2>2 DEF SchedulesBounded, Schedules, RuntimeShape
<1>13. QED
  BY <1>8, <1>9, <1>10, <1>11, <1>12 DEF RuntimeInv

\* A dispatch whose execution raised leaves an empty interval that is over.
LEMMA DispatchRaisesInv ==
  ASSUME RuntimeInv, NEW a \in Attempts, NEW n \in Nodes, NEW start \in 0 .. MaxStart,
         NEW demand \in 1 .. MaxDemand, NEW planned \in 0 .. MaxDuration,
         DispatchRaises(a, n, start, planned, demand)
  PROVE  RuntimeInv'
<1> DEFINE begin == Min(FeasibleStarts(On(n), n, start, planned, demand))
           q == [Reservation(a, n, begin, begin, demand)
                   EXCEPT !.terminal = TRUE, !.cancelled = TRUE]
<1>1. RuntimeShape /\ Tables /\ Calendars /\ WithinCapacity /\ SchedulesBounded
  BY DEF RuntimeInv
<1>2. begin \in Nat /\ begin <= LastFinish
  <2>1. planned \in Nat
    BY RuntimeAssumption DEF RuntimeAssumption
  <2>2. QED
    BY <1>1, <2>1, FoundStart DEF DispatchRaises, MayReserve
<1>3. /\ reservations' = reservations \cup {q}
      /\ UNCHANGED <<pending, dispatchOf, consumed, terminalAttempts, cancelledAttempts,
                     promised, received>>
      /\ \A r \in reservations : r.node = n => r.attempt # a
  BY DEF DispatchRaises, MayReserve, On
<1> HIDE DEF begin
<1>4. /\ q \in RecordShape
      /\ q.attempt = a /\ q.node = n /\ q.start = begin /\ q.finish = begin
      /\ q.demand = demand /\ q.terminal /\ q.cancelled
  BY <1>2 DEF Reservation, RecordShape
<1> HIDE DEF q
<1>5. LastFinish' = LastFinish
  BY <1>3 DEF LastFinish, Accepted
<1>6. RuntimeShape'
  <2>1. reservations' \subseteq RecordShape /\ IsFiniteSet(reservations')
    BY <1>1, <1>3, <1>4, FS_AddElement DEF RuntimeShape
  <2>2. QED
    BY <1>1, <1>3, <2>1 DEF RuntimeShape
<1>7. Tables' /\ SchedulesBounded'
  BY <1>1, <1>3 DEF Tables, SchedulesBounded
<1>8. Calendars'
  <2>1. OneEach(reservations')
    BY <1>1, <1>3, <1>4 DEF OneEach, Calendars
  <2>2. \A r, p \in reservations' :
          r.attempt = p.attempt /\ ~r.cancelled /\ ~p.cancelled => r = p
    BY <1>1, <1>3, <1>4 DEF Calendars
  <2>3. \A r \in reservations' : r \in reservations \/ r = q
    BY <1>3
  <2>4. \A r \in reservations' :
          /\ r.start <= r.finish /\ r.finish <= LastFinish'
          /\ ~r.terminal => /\ dispatchOf'[r.attempt] = <<r.node, r.attempt>>
                            /\ promised'[r.attempt] = <<r.start, r.finish>> /\ ~r.cancelled
          /\ r.terminal /\ ~r.cancelled => r.attempt \in terminalAttempts' \ cancelledAttempts'
    BY <1>1, <1>2, <1>3, <1>4, <1>5, <2>3 DEF Calendars
  <2>5. \A b \in Attempts : dispatchOf'[b] # NoDispatch =>
          \E r \in reservations' :
            r.node = dispatchOf'[b][1] /\ r.attempt = dispatchOf'[b][2] /\ ~r.terminal
    BY <1>1, <1>3 DEF Calendars, LiveReservation
  <2>6. \A b \in terminalAttempts' \ cancelledAttempts' :
          \E r \in reservations' : r.attempt = b /\ ~r.cancelled
    BY <1>1, <1>3 DEF Calendars
  <2>7. QED
    BY <2>1, <2>2, <2>4, <2>5, <2>6 DEF Calendars, OneEach, LiveReservation
<1>9. WithinCapacity'
  <2>1. q.finish = q.start + 0 /\ ~(0 > 0)
    BY <1>2, <1>4
  <2>2. QED
    BY <1>1, <1>3, <1>4, <2>1, CapacityOfAdded
<1>10. QED
  BY <1>6, <1>7, <1>8, <1>9 DEF RuntimeInv

\* A reservation ends with its schedule when its completion is received.
LEMMA ReceiveCompletionInv ==
  ASSUME RuntimeInv, NEW p \in pending, ReceiveCompletion(p[1], p[2])
  PROVE  /\ RuntimeInv'
         /\ \A r \in reservations : \E q \in reservations' : Shortened(q, r) /\ (r.terminal => q = r)
         /\ dispatchOf[p[1][2]] # NoDispatch /\ promised[p[1][2]] = p[2]
         /\ p[1][2] \in Attempts /\ LiveReservation(p[1]) # {}
<1> DEFINE a == p[1][2]
<1>1. RuntimeShape /\ Tables /\ Calendars /\ WithinCapacity /\ SchedulesBounded
  BY DEF RuntimeInv
<1>2. /\ a \in Attempts /\ p = <<p[1], p[2]>> /\ p[1] \in DispatchIds /\ p[1] = <<p[1][1], a>>
      /\ p[1] # NoDispatch /\ p[2] \in Nat \X Nat
  BY <1>1, NoDispatchIsNone DEF RuntimeShape, DispatchIds
<1>3. dispatchOf[a] = p[1] /\ promised[a] = p[2]
  BY <1>1 DEF Tables
<1>4. a \notin terminalAttempts
  BY <1>1, <1>2, <1>3 DEF Tables
<1>5. PICK r \in reservations :
        /\ LiveReservation(p[1]) = {r}
        /\ r.attempt = a /\ ~r.terminal /\ ~r.cancelled
        /\ p[2] = <<r.start, r.finish>>
  BY <1>1, <1>2, <1>3, OneOpenInterval
<1> DEFINE e == [r EXCEPT !.terminal = TRUE]
<1>6. r.node = p[1][1]
  BY <1>5 DEF LiveReservation
<1>7. r \in RecordShape /\ r.start \in Nat /\ r.finish \in Nat /\ r.start <= r.finish
  BY <1>1 DEF RuntimeShape, RecordShape, Calendars
<1>8. Consumed(r, p[2][2]) = e
  <2>1. p[2][2] = r.finish
    BY <1>5
  <2>2. Max({r.start, r.finish}) = r.finish
    <3>1. {r.start, r.finish} \in SUBSET (0 .. r.finish)
      BY <1>7
    <3>2. Max({r.start, r.finish}) \in {r.start, r.finish}
          /\ \A x \in {r.start, r.finish} : x <= Max({r.start, r.finish})
      BY <1>7, <3>1, MaxOfSet
    <3>3. QED
      BY <1>7, <3>2
  <2>3. QED
    BY <1>7, <2>1, <2>2 DEF Consumed, RecordShape
<1>9. /\ e \in RecordShape /\ e.attempt = a /\ e.node = p[1][1] /\ e.start = r.start
      /\ e.finish = r.finish /\ e.demand = r.demand /\ e.terminal /\ ~e.cancelled
  BY <1>5, <1>6, <1>7 DEF RecordShape
<1> HIDE DEF e
<1>10. /\ pending' = pending \ {p}
       /\ reservations' = (reservations \ {r}) \cup {e}
       /\ dispatchOf' = [dispatchOf EXCEPT ![a] = NoDispatch]
       /\ consumed' = consumed \cup {p[1]}
       /\ terminalAttempts' = terminalAttempts \cup {a}
       /\ received' = received \cup {<<a, p[2]>>}
       /\ UNCHANGED <<cancelledAttempts, promised>>
  <2>1. LiveReservation(p[1]) # {}
    BY <1>5
  <2>2. /\ reservations' = {IF s \in LiveReservation(p[1]) THEN Consumed(s, p[2][2]) ELSE s
                             : s \in reservations}
        /\ pending' = pending \ {<<p[1], p[2]>>}
        /\ dispatchOf' = [dispatchOf EXCEPT ![a] = NoDispatch]
        /\ consumed' = consumed \cup {p[1]}
        /\ terminalAttempts' = terminalAttempts \cup {a}
        /\ received' = received \cup {<<a, p[2]>>}
        /\ UNCHANGED <<cancelledAttempts, promised>>
    BY <2>1 DEF ReceiveCompletion
  <2>3. reservations' = {IF s = r THEN e ELSE s : s \in reservations}
    BY <1>5, <1>8, <2>2
  <2>4. QED
    BY <1>2, <1>5, <2>2, <2>3
<1>11. Shortened(e, r)
  BY <1>5, <1>6, <1>7, <1>9 DEF Shortened
<1>12. OneEach(reservations)
  BY <1>1 DEF Calendars, OneEach
<1>13. /\ reservations' \subseteq RecordShape /\ IsFiniteSet(reservations')
       /\ OneEach(reservations')
       /\ \A q \in reservations' : \E s \in reservations : Shortened(q, s)
  BY <1>1, <1>9, <1>10, <1>11, <1>12, IntervalReplaced
<1>14. WithinCapacity'
  BY <1>1, <1>13, CapacityKept
<1>15. Accepted' = Accepted /\ LastFinish' = LastFinish
  <2>1. Accepted' = Accepted
    BY <1>1, <1>2, <1>3, <1>10 DEF Accepted, RuntimeShape
  <2>2. QED
    BY <2>1 DEF LastFinish
<1>16. RuntimeShape'
  BY <1>1, <1>2, <1>10, <1>13 DEF RuntimeShape
<1>17. \A b \in Attempts : dispatchOf'[b] = IF b = a THEN NoDispatch ELSE dispatchOf[b]
  BY <1>1, <1>2, <1>10 DEF RuntimeShape
<1>18. Tables'
  <2>1. \A s \in pending' : s \in pending /\ s # p /\ s[1][2] \in Attempts /\ s = <<s[1], s[2]>>
    BY <1>1, <1>10 DEF RuntimeShape, DispatchIds
  <2>2. \A s \in pending' : s[1][2] # a
    BY <1>1, <1>2, <1>3, <2>1 DEF Tables
  <2>3. \A s \in pending' :
          dispatchOf'[s[1][2]] = s[1] /\ s[1] \notin consumed' /\ promised'[s[1][2]] = s[2]
    BY <1>1, <1>10, <1>17, <2>1, <2>2 DEF Tables
  <2>4. \A b \in Attempts : dispatchOf'[b] # NoDispatch =>
          /\ dispatchOf'[b][2] = b /\ b \notin terminalAttempts'
          /\ \E s \in pending' : s[1] = dispatchOf'[b]
    BY <1>1, <1>2, <1>10, <1>17 DEF Tables
  <2>5. QED
    BY <2>3, <2>4 DEF Tables
<1>19. Calendars'
  <2>1. \A s \in reservations : s # r /\ s.attempt = a => s.cancelled /\ s.terminal
    BY <1>1, <1>2, <1>3, <1>5, <1>6 DEF Calendars, RuntimeShape, RecordShape
  <2>2. \A s, q \in reservations' :
          s.attempt = q.attempt /\ ~s.cancelled /\ ~q.cancelled => s = q
    BY <1>1, <1>9, <1>10, <2>1 DEF Calendars
  <2>3. a \notin cancelledAttempts
    BY <1>1, <1>4 DEF RuntimeShape
  <2>4. \A s \in reservations : s # r =>
          /\ s.start <= s.finish /\ s.finish <= LastFinish'
          /\ ~s.terminal => /\ dispatchOf'[s.attempt] = <<s.node, s.attempt>>
                            /\ promised'[s.attempt] = <<s.start, s.finish>> /\ ~s.cancelled
          /\ s.terminal /\ ~s.cancelled => s.attempt \in terminalAttempts' \ cancelledAttempts'
    BY <1>1, <1>10, <1>15, <1>17, <2>1 DEF Calendars, RuntimeShape, RecordShape
  <2>5. /\ e.start <= e.finish /\ e.finish <= LastFinish'
        /\ e.attempt \in terminalAttempts' \ cancelledAttempts'
    BY <1>1, <1>7, <1>9, <1>10, <1>15, <2>3 DEF Calendars
  <2>6. \A s \in reservations' : (s \in reservations /\ s # r) \/ s = e
    BY <1>10
  <2>7. \A s \in reservations' :
          /\ s.start <= s.finish /\ s.finish <= LastFinish'
          /\ ~s.terminal => /\ dispatchOf'[s.attempt] = <<s.node, s.attempt>>
                            /\ promised'[s.attempt] = <<s.start, s.finish>> /\ ~s.cancelled
          /\ s.terminal /\ ~s.cancelled => s.attempt \in terminalAttempts' \ cancelledAttempts'
    BY <1>9, <2>4, <2>5, <2>6
  <2>8. \A b \in Attempts : dispatchOf'[b] # NoDispatch =>
          \E s \in reservations' :
            s.node = dispatchOf'[b][1] /\ s.attempt = dispatchOf'[b][2] /\ ~s.terminal
    <3> SUFFICES ASSUME NEW b \in Attempts, dispatchOf'[b] # NoDispatch
                 PROVE  \E s \in reservations' :
                          /\ s.node = dispatchOf'[b][1] /\ s.attempt = dispatchOf'[b][2]
                          /\ ~s.terminal
      OBVIOUS
    <3>1. b # a /\ dispatchOf'[b] = dispatchOf[b] /\ dispatchOf[b][2] = b
      BY <1>1, <1>17 DEF Tables
    <3>2. PICK s \in reservations :
            s.node = dispatchOf[b][1] /\ s.attempt = dispatchOf[b][2] /\ ~s.terminal
      BY <1>1, <3>1 DEF Calendars, LiveReservation
    <3>3. s \in reservations'
      BY <1>5, <1>10, <3>1, <3>2
    <3>4. QED
      BY <3>1, <3>2, <3>3
  <2>9. \A b \in terminalAttempts' \ cancelledAttempts' :
          \E s \in reservations' : s.attempt = b /\ ~s.cancelled
    <3> SUFFICES ASSUME NEW b \in terminalAttempts' \ cancelledAttempts'
                 PROVE  \E s \in reservations' : s.attempt = b /\ ~s.cancelled
      OBVIOUS
    <3>1. CASE b = a
      BY <1>9, <1>10, <3>1
    <3>2. CASE b # a
      BY <1>1, <1>5, <1>10, <3>2 DEF Calendars
    <3>3. QED
      BY <3>1, <3>2
  <2>10. QED
    BY <1>13, <2>2, <2>7, <2>8, <2>9 DEF Calendars, OneEach, LiveReservation
<1>20. SchedulesBounded'
  BY <1>1, <1>2, <1>10 DEF SchedulesBounded
<1>21. \A s \in reservations : Shortened(s, s)
  BY <1>1 DEF RuntimeShape, RecordShape, Shortened
<1>22. \A s \in reservations : \E q \in reservations' : Shortened(q, s) /\ (s.terminal => q = s)
  BY <1>5, <1>10, <1>11, <1>21
<1>23. QED
  BY <1>2, <1>3, <1>5, <1>14, <1>16, <1>18, <1>19, <1>20, <1>22 DEF RuntimeInv

\* A cancellation ends the interval of an outstanding attempt, where it was
\* to end or before.
LEMMA CancelInv ==
  ASSUME RuntimeInv, NEW a \in Attempts, NEW time \in 0 .. MaxClock, Cancel(a, time)
  PROVE  /\ RuntimeInv'
         /\ \A r \in reservations : \E q \in reservations' : Shortened(q, r) /\ (r.terminal => q = r)
<1> DEFINE d == dispatchOf[a]
<1>1. RuntimeShape /\ Tables /\ Calendars /\ WithinCapacity /\ SchedulesBounded
  BY DEF RuntimeInv
<1>2. /\ d # NoDispatch /\ d \in DispatchIds /\ d = <<d[1], d[2]>> /\ d[2] = a
      /\ a \notin terminalAttempts
  BY <1>1 DEF Cancel, RuntimeShape, Tables, DispatchIds
<1>3. PICK r \in reservations :
        /\ LiveReservation(d) = {r}
        /\ r.attempt = a /\ ~r.terminal /\ ~r.cancelled
  BY <1>1, <1>2, OneOpenInterval
<1>4. r.node = d[1]
  BY <1>3 DEF LiveReservation
<1>5. r \in RecordShape /\ r.start \in Nat /\ r.finish \in Nat /\ r.start <= r.finish
  BY <1>1 DEF RuntimeShape, RecordShape, Calendars
<1> DEFINE e == Cancelled(r, time)
<1>6. e.finish \in Nat /\ r.start <= e.finish /\ e.finish <= r.finish
  <2>1. time \in Nat
    BY RuntimeAssumption DEF RuntimeAssumption
  <2> DEFINE m == Max({r.start, time})
             f == Min({r.finish, m})
  <2>2. m \in Nat /\ r.start <= m
    <3>1. {r.start, time} \in SUBSET (0 .. (r.start + time)) /\ r.start + time \in Nat
      BY <1>5, <2>1
    <3>2. Max({r.start, time}) \in {r.start, time}
          /\ \A x \in {r.start, time} : x <= Max({r.start, time})
      BY <3>1, MaxOfSet
    <3>3. QED
      BY <1>5, <2>1, <3>2
  <2> HIDE DEF m
  <2>3. f \in Nat /\ r.start <= f /\ f <= r.finish
    <3>1. Min({r.finish, m}) \in {r.finish, m} /\ \A x \in {r.finish, m} : Min({r.finish, m}) <= x
      BY <1>5, <2>2, MinOfSet
    <3>2. QED
      BY <1>5, <2>2, <3>1
  <2>4. e.finish = f
    BY <1>5 DEF Cancelled, RecordShape, m
  <2>5. QED
    BY <2>3, <2>4
<1>7. /\ e \in RecordShape /\ e.attempt = a /\ e.node = r.node /\ e.start = r.start
      /\ e.demand = r.demand /\ e.terminal /\ e.cancelled
  <2>1. e = [r EXCEPT !.finish = e.finish, !.terminal = TRUE, !.cancelled = TRUE]
    BY <1>5 DEF Cancelled, RecordShape
  <2>2. QED
    BY <1>3, <1>5, <1>6, <2>1 DEF RecordShape
<1> HIDE DEF e
<1>8. /\ pending' = {p \in pending : p[1] # d}
      /\ reservations' = (reservations \ {r}) \cup {e}
      /\ dispatchOf' = [dispatchOf EXCEPT ![a] = NoDispatch]
      /\ consumed' = consumed \cup {d}
      /\ terminalAttempts' = terminalAttempts \cup {a}
      /\ cancelledAttempts' = cancelledAttempts \cup {a}
      /\ UNCHANGED <<promised, received>>
  <2>1. reservations' = {IF s \in LiveReservation(d) THEN Cancelled(s, time) ELSE s
                           : s \in reservations}
    BY DEF Cancel
  <2>2. reservations' = {IF s = r THEN e ELSE s : s \in reservations}
    BY <1>3, <2>1 DEF e
  <2>3. reservations' = (reservations \ {r}) \cup {e}
    BY <1>3, <2>2
  <2>4. QED
    BY <2>3 DEF Cancel
<1>9. Shortened(e, r)
  BY <1>3, <1>5, <1>6, <1>7 DEF Shortened
<1>10. OneEach(reservations)
  BY <1>1 DEF Calendars, OneEach
<1>11. /\ reservations' \subseteq RecordShape /\ IsFiniteSet(reservations')
       /\ OneEach(reservations')
       /\ \A q \in reservations' : \E s \in reservations : Shortened(q, s)
  BY <1>1, <1>7, <1>8, <1>9, <1>10, IntervalReplaced
<1>12. WithinCapacity'
  BY <1>1, <1>11, CapacityKept
<1>13. LastFinish' = LastFinish
  <2>1. Accepted' = Accepted
    BY <1>1, <1>2, <1>8 DEF Accepted, RuntimeShape
  <2>2. QED
    BY <2>1 DEF LastFinish
<1>14. RuntimeShape'
  BY <1>1, <1>2, <1>8, <1>11 DEF RuntimeShape
<1>15. \A b \in Attempts : dispatchOf'[b] = IF b = a THEN NoDispatch ELSE dispatchOf[b]
  BY <1>1, <1>2, <1>8 DEF RuntimeShape
<1>16. Tables'
  <2>1. \A s \in pending' : s \in pending /\ s[1] # d /\ s[1][2] \in Attempts
    BY <1>1, <1>8 DEF RuntimeShape, DispatchIds
  <2>2. \A s \in pending' : s[1][2] # a
    BY <1>1, <1>2, <2>1 DEF Tables
  <2>3. \A s \in pending' :
          dispatchOf'[s[1][2]] = s[1] /\ s[1] \notin consumed' /\ promised'[s[1][2]] = s[2]
    BY <1>1, <1>8, <1>15, <2>1, <2>2 DEF Tables
  <2>4. \A b \in Attempts : dispatchOf'[b] # NoDispatch =>
          /\ dispatchOf'[b][2] = b /\ b \notin terminalAttempts'
          /\ \E s \in pending' : s[1] = dispatchOf'[b]
    BY <1>1, <1>2, <1>8, <1>15 DEF Tables
  <2>5. QED
    BY <2>3, <2>4 DEF Tables
<1>17. Calendars'
  <2>1. \A s \in reservations : s # r /\ s.attempt = a => s.cancelled /\ s.terminal
    BY <1>1, <1>2, <1>3, <1>4 DEF Calendars, RuntimeShape, RecordShape
  <2>2. \A s, q \in reservations' :
          s.attempt = q.attempt /\ ~s.cancelled /\ ~q.cancelled => s = q
    BY <1>1, <1>7, <1>8, <2>1 DEF Calendars
  <2>4. \A s \in reservations : s # r =>
          /\ s.start <= s.finish /\ s.finish <= LastFinish'
          /\ ~s.terminal => /\ dispatchOf'[s.attempt] = <<s.node, s.attempt>>
                            /\ promised'[s.attempt] = <<s.start, s.finish>> /\ ~s.cancelled
          /\ s.terminal /\ ~s.cancelled => s.attempt \in terminalAttempts' \ cancelledAttempts'
    BY <1>1, <1>8, <1>13, <1>15, <2>1 DEF Calendars, RuntimeShape, RecordShape
  <2>5. e.start <= e.finish /\ e.finish <= LastFinish'
    BY <1>1, <1>5, <1>6, <1>7, <1>13, LastFinishNat DEF Calendars
  <2>6. \A s \in reservations' : (s \in reservations /\ s # r) \/ s = e
    BY <1>8
  <2>7. \A s \in reservations' :
          /\ s.start <= s.finish /\ s.finish <= LastFinish'
          /\ ~s.terminal => /\ dispatchOf'[s.attempt] = <<s.node, s.attempt>>
                            /\ promised'[s.attempt] = <<s.start, s.finish>> /\ ~s.cancelled
          /\ s.terminal /\ ~s.cancelled => s.attempt \in terminalAttempts' \ cancelledAttempts'
    BY <1>7, <2>4, <2>5, <2>6
  <2>8. \A b \in Attempts : dispatchOf'[b] # NoDispatch =>
          \E s \in reservations' :
            s.node = dispatchOf'[b][1] /\ s.attempt = dispatchOf'[b][2] /\ ~s.terminal
    <3> SUFFICES ASSUME NEW b \in Attempts, dispatchOf'[b] # NoDispatch
                 PROVE  \E s \in reservations' :
                          /\ s.node = dispatchOf'[b][1] /\ s.attempt = dispatchOf'[b][2]
                          /\ ~s.terminal
      OBVIOUS
    <3>1. b # a /\ dispatchOf'[b] = dispatchOf[b] /\ dispatchOf[b][2] = b
      BY <1>1, <1>15 DEF Tables
    <3>2. PICK s \in reservations :
            s.node = dispatchOf[b][1] /\ s.attempt = dispatchOf[b][2] /\ ~s.terminal
      BY <1>1, <3>1 DEF Calendars, LiveReservation
    <3>3. s \in reservations'
      BY <1>3, <1>8, <3>1, <3>2
    <3>4. QED
      BY <3>1, <3>2, <3>3
  <2>9. \A b \in terminalAttempts' \ cancelledAttempts' :
          \E s \in reservations' : s.attempt = b /\ ~s.cancelled
    BY <1>1, <1>3, <1>8 DEF Calendars
  <2>10. QED
    BY <1>11, <2>2, <2>7, <2>8, <2>9 DEF Calendars, OneEach, LiveReservation
<1>18. SchedulesBounded'
  BY <1>1, <1>8 DEF SchedulesBounded
<1>19. \A s \in reservations : Shortened(s, s)
  BY <1>1 DEF RuntimeShape, RecordShape, Shortened
<1>20. \A s \in reservations : \E q \in reservations' : Shortened(q, s) /\ (s.terminal => q = s)
  BY <1>3, <1>8, <1>9, <1>19
<1>21. QED
  BY <1>12, <1>14, <1>16, <1>17, <1>18, <1>20 DEF RuntimeInv

LEMMA NextInv == RuntimeInv /\ [Next]_vars => RuntimeInv'
<1> SUFFICES ASSUME RuntimeInv, [Next]_vars PROVE RuntimeInv'
  OBVIOUS
<1>1. ASSUME NEW a \in Attempts, NEW n \in Nodes, NEW start \in 0 .. MaxStart,
             NEW demand \in 1 .. MaxDemand, NEW planned \in 0 .. MaxDuration,
             NEW sampled \in 1 .. MaxDuration, Dispatch(a, n, start, planned, sampled, demand)
      PROVE  RuntimeInv'
  BY <1>1, DispatchInv
<1>2. ASSUME NEW a \in Attempts, NEW n \in Nodes, NEW start \in 0 .. MaxStart,
             NEW demand \in 1 .. MaxDemand, NEW planned \in 0 .. MaxDuration,
             DispatchRaises(a, n, start, planned, demand)
      PROVE  RuntimeInv'
  BY <1>2, DispatchRaisesInv
<1>3. ASSUME NEW p \in pending, ReceiveCompletion(p[1], p[2]) PROVE RuntimeInv'
  BY <1>3, ReceiveCompletionInv
<1>4. ASSUME NEW a \in Attempts, NEW time \in 0 .. MaxClock, Cancel(a, time) PROVE RuntimeInv'
  BY <1>4, CancelInv
<1>5. CASE UNCHANGED vars
  <2>1. RuntimeShape' /\ Tables' /\ SchedulesBounded'
    BY <1>5 DEF vars, RuntimeInv, RuntimeShape, Tables, SchedulesBounded
  <2>2. Calendars'
    BY <1>5 DEF vars, RuntimeInv, Calendars, LastFinish, Accepted, LiveReservation
  <2>3. WithinCapacity'
    BY <1>5 DEF vars, RuntimeInv, WithinCapacity, On, ActiveAt, Demand
  <2>4. QED
    BY <2>1, <2>2, <2>3 DEF RuntimeInv
<1>6. QED
  BY <1>1, <1>2, <1>3, <1>4, <1>5 DEF Next

---------------------------------------------------------------------------
(* Theorems. *)

\* The tables of the runtime and the calendars of the agents belong together in
\* every reachable state.
THEOREM RuntimeInvariant == Spec => []RuntimeInv
<1>1. Init => RuntimeInv
  BY InitInv
<1>2. RuntimeInv /\ [Next]_vars => RuntimeInv'
  BY NextInv
<1>3. QED
  BY <1>1, <1>2, PTL DEF Spec

\* Every variable of the runtime holds a value of its kind; times stay within the
\* horizon, as every attempt is accepted once at most.
THEOREM RuntimeTypeCorrect == Spec => []RuntimeTypeOK
<1>1. RuntimeInv => RuntimeTypeOK
  <2> SUFFICES ASSUME RuntimeInv PROVE RuntimeTypeOK
    OBVIOUS
  <2>1. RuntimeShape /\ Calendars /\ SchedulesBounded
    BY DEF RuntimeInv
  <2>2. \A r \in reservations :
          r \in RecordShape /\ r.start \in Nat /\ r.finish \in Nat
          /\ r.start <= r.finish /\ r.finish <= LastFinish
    BY <2>1 DEF RuntimeShape, RecordShape, Calendars
  <2>3. \A r \in reservations : r.start \in Horizon /\ r.finish \in Horizon
    BY <2>2, LastFinishInHorizon DEF Horizon
  <2>4. reservations \subseteq
          [attempt : Attempts, node : Nodes, start : Horizon, finish : Horizon,
           demand : 1 .. MaxDemand, terminal : BOOLEAN, cancelled : BOOLEAN]
    BY <2>2, <2>3 DEF RecordShape
  <2>5. pending \subseteq DispatchIds \X Schedules
    BY <2>1 DEF RuntimeShape, SchedulesBounded
  <2>6. promised \in [Attempts -> Schedules]
    BY <2>1 DEF RuntimeShape, SchedulesBounded
  <2>7. QED
    BY <2>1, <2>4, <2>5, <2>6 DEF RuntimeTypeOK, RuntimeShape, SchedulesBounded
<1>2. QED
  BY <1>1, RuntimeInvariant, PTL

\* No sequence of dispatches, failures, completions and cancellations leaves a
\* node with more than it can hold or run at once, at any instant.
THEOREM CapacityRespectedHolds == Spec => []CapacityRespected
<1>1. RuntimeInv => CapacityRespected
  <2>1. Horizon \subseteq Nat
    BY LastFinishInHorizon DEF Horizon
  <2>2. QED
    BY <2>1 DEF RuntimeInv, WithinCapacity, CapacityRespected
<1>2. QED
  BY <1>1, RuntimeInvariant, PTL

\* The runtime's tables and the agents' calendars agree: no outstanding dispatch
\* without its interval, no open interval without its dispatch, and one interval
\* that counts of every attempt that is outstanding or completed.
THEOREM BooksAgreeHolds == Spec => []BooksAgree
<1>1. RuntimeInv => BooksAgree
  <2> SUFFICES ASSUME RuntimeInv PROVE BooksAgree
    OBVIOUS
  <2>1. RuntimeShape /\ Tables /\ Calendars
    BY DEF RuntimeInv
  <2>2. \A p \in pending : \E r \in LiveReservation(p[1]) : <<r.start, r.finish>> = p[2]
    <3> SUFFICES ASSUME NEW p \in pending
                 PROVE  \E r \in LiveReservation(p[1]) : <<r.start, r.finish>> = p[2]
      OBVIOUS
    <3>1. p[1][2] \in Attempts /\ p[1] # NoDispatch
      BY <2>1, NoDispatchIsNone DEF RuntimeShape, DispatchIds
    <3>2. dispatchOf[p[1][2]] = p[1] /\ promised[p[1][2]] = p[2]
      BY <2>1 DEF Tables
    <3>3. PICK r \in reservations :
            LiveReservation(p[1]) = {r} /\ promised[p[1][2]] = <<r.start, r.finish>>
      BY <2>1, <3>1, <3>2, OneOpenInterval
    <3>4. QED
      BY <3>2, <3>3
  <2>3. ASSUME NEW a \in Attempts
        PROVE  Cardinality({r \in reservations : r.attempt = a /\ ~r.cancelled}) =
                 IF dispatchOf[a] # NoDispatch \/ a \in terminalAttempts \ cancelledAttempts
                 THEN 1 ELSE 0
    <3> DEFINE counted == {r \in reservations : r.attempt = a /\ ~r.cancelled}
    <3>1. CASE dispatchOf[a] # NoDispatch \/ a \in terminalAttempts \ cancelledAttempts
      <4>1. \E r \in reservations : r.attempt = a /\ ~r.cancelled
        BY <2>1, <3>1, OneOpenInterval DEF Tables, Calendars
      <4>2. PICK r \in reservations : r.attempt = a /\ ~r.cancelled
        BY <4>1
      <4>3. counted = {r}
        BY <2>1, <4>2 DEF Calendars
      <4>4. QED
        BY <3>1, <4>3, FS_Singleton
    <3>2. CASE ~(dispatchOf[a] # NoDispatch \/ a \in terminalAttempts \ cancelledAttempts)
      <4>1. counted = {}
        BY <2>1, <3>2, NoDispatchIsNone DEF Calendars, RuntimeShape, RecordShape, DispatchIds
      <4>2. QED
        BY <3>2, <4>1, FS_EmptySet
    <3>3. QED
      BY <3>1, <3>2
  <2>4. QED
    BY <2>1, <2>2, <2>3 DEF BooksAgree, Tables, Calendars
<1>2. QED
  BY <1>1, RuntimeInvariant, PTL

\* No later call moves, extends or reopens the interval of an attempt that was
\* acknowledged, and one that has ended is not touched again.
THEOREM IntervalsStandHolds == Spec => IntervalsStand
<1> DEFINE Stands == \A r \in reservations : \E q \in reservations' :
                       /\ <<q.node, q.attempt, q.start, q.demand>>
                            = <<r.node, r.attempt, r.start, r.demand>>
                       /\ q.finish <= r.finish
                       /\ r.terminal => q = r
<1>1. RuntimeInv /\ [Next]_vars => [Stands]_vars
  <2> SUFFICES ASSUME RuntimeInv, Next PROVE Stands
    BY DEF vars
  <2>1. ASSUME \A r \in reservations :
                 \E q \in reservations' : Shortened(q, r) /\ (r.terminal => q = r)
        PROVE  Stands
    BY <2>1 DEF Shortened
  <2>2. ASSUME reservations \subseteq reservations' PROVE Stands
    <3>1. \A r \in reservations : Shortened(r, r)
      BY DEF RuntimeInv, RuntimeShape, RecordShape, Shortened
    <3>2. QED
      BY <2>1, <2>2, <3>1
  <2>3. ASSUME NEW a \in Attempts, NEW n \in Nodes, NEW start \in 0 .. MaxStart,
               NEW demand \in 1 .. MaxDemand, NEW planned \in 0 .. MaxDuration,
               \/ \E sampled \in 1 .. MaxDuration :
                    Dispatch(a, n, start, planned, sampled, demand)
               \/ DispatchRaises(a, n, start, planned, demand)
        PROVE  Stands
    <3>1. reservations \subseteq reservations'
      BY <2>3 DEF Dispatch, DispatchRaises
    <3>2. QED
      BY <3>1, <2>2
  <2>4. ASSUME NEW p \in pending, ReceiveCompletion(p[1], p[2]) PROVE Stands
    BY <2>1, <2>4, ReceiveCompletionInv
  <2>5. ASSUME NEW a \in Attempts, NEW time \in 0 .. MaxClock, Cancel(a, time) PROVE Stands
    BY <2>1, <2>5, CancelInv
  <2> HIDE DEF Stands
  <2>6. QED
    BY <2>3, <2>4, <2>5 DEF Next
<1>2. QED
  BY <1>1, RuntimeInvariant, PTL DEF Spec, IntervalsStand

\* The steps of the port that the methods take.
LEMMA StepsImplementPort ==
  RuntimeInv /\ RuntimeInv' /\ [Next]_vars => [Port!PortNext]_(Port!portVars)
<1> DEFINE life == [a \in Attempts |-> Life(a)]
<1> SUFFICES ASSUME RuntimeInv, RuntimeInv', [Next]_vars
             PROVE  Port!PortNext \/ UNCHANGED <<life, promised, received>>
  BY DEF Port!portVars
<1>1. RuntimeShape /\ Tables /\ SchedulesBounded'
  BY DEF RuntimeInv
<1>2. ASSUME NEW a \in Attempts, NEW n \in Nodes, NEW start \in 0 .. MaxStart,
             NEW demand \in 1 .. MaxDemand, NEW planned \in 0 .. MaxDuration,
             NEW sampled \in 1 .. MaxDuration, Dispatch(a, n, start, planned, sampled, demand)
      PROVE  Port!Accept(a)
  <2>1. PICK schedule : promised' = [promised EXCEPT ![a] = schedule]
    BY <1>2 DEF Dispatch
  <2>2. schedule \in Schedules
    BY <1>1, <2>1 DEF SchedulesBounded, RuntimeShape
  <2>3. Life(a) = "unused"
    BY <1>1, <1>2 DEF Dispatch, MayReserve, Life, RuntimeShape
  <2>4. life' = [life EXCEPT ![a] = "pending"]
    <3>1. Life(a)' = "pending"
      BY <1>1, <1>2, NoDispatchIsNone DEF Dispatch, MayReserve, Life, RuntimeShape, DispatchIds
    <3>2. \A b \in Attempts : b # a => Life(b)' = Life(b)
      BY <1>1, <1>2 DEF Dispatch, Life, RuntimeShape
    <3>3. QED
      BY <3>1, <3>2
  <2>5. QED
    BY <1>2, <2>1, <2>2, <2>3, <2>4 DEF Port!Accept, Dispatch
<1>3. ASSUME NEW a \in Attempts, NEW n \in Nodes, NEW start \in 0 .. MaxStart,
             NEW demand \in 1 .. MaxDemand, NEW planned \in 0 .. MaxDuration,
             DispatchRaises(a, n, start, planned, demand)
      PROVE  UNCHANGED <<life, promised, received>>
  BY <1>3 DEF DispatchRaises, Life
<1>4. ASSUME NEW p \in pending, ReceiveCompletion(p[1], p[2])
      PROVE  Port!Complete(p[1][2])
  <2> DEFINE a == p[1][2]
  <2>1. /\ dispatchOf[a] # NoDispatch /\ promised[a] = p[2] /\ a \in Attempts
        /\ LiveReservation(p[1]) # {}
    BY <1>4, ReceiveCompletionInv
  <2>2. a \notin terminalAttempts /\ a \notin cancelledAttempts
    BY <1>1, <2>1 DEF Tables, RuntimeShape
  <2>3. /\ dispatchOf' = [dispatchOf EXCEPT ![a] = NoDispatch]
        /\ terminalAttempts' = terminalAttempts \cup {a}
        /\ received' = received \cup {<<a, p[2]>>}
        /\ UNCHANGED <<cancelledAttempts, promised>>
    BY <1>4, <2>1 DEF ReceiveCompletion
  <2> HIDE DEF a
  <2>4. life[a] = "pending"
    BY <2>1, <2>2 DEF Life
  <2>5. life' = [life EXCEPT ![a] = "completed"]
    <3>1. Life(a)' = "completed"
      BY <2>2, <2>3 DEF Life
    <3>2. \A b \in Attempts : b # a => Life(b)' = Life(b)
      BY <1>1, <2>3 DEF Life, RuntimeShape
    <3>3. QED
      BY <3>1, <3>2
  <2>6. Port!Complete(a)
    BY <2>1, <2>3, <2>4, <2>5 DEF Port!Complete
  <2>7. QED
    BY <2>6 DEF a
<1>5. ASSUME NEW a \in Attempts, NEW time \in 0 .. MaxClock, Cancel(a, time)
      PROVE  Port!Withdraw(a)
  <2>1. /\ dispatchOf[a] # NoDispatch /\ a \notin terminalAttempts /\ a \notin cancelledAttempts
    BY <1>1, <1>5 DEF Cancel, Tables, RuntimeShape
  <2>2. /\ dispatchOf' = [dispatchOf EXCEPT ![a] = NoDispatch]
        /\ terminalAttempts' = terminalAttempts \cup {a}
        /\ cancelledAttempts' = cancelledAttempts \cup {a}
        /\ UNCHANGED <<promised, received>>
    BY <1>5 DEF Cancel
  <2>3. life[a] = "pending"
    BY <2>1 DEF Life
  <2>4. life' = [life EXCEPT ![a] = "cancelled"]
    <3>1. Life(a)' = "cancelled"
      BY <2>2 DEF Life
    <3>2. \A b \in Attempts : b # a => Life(b)' = Life(b)
      BY <1>1, <2>2 DEF Life, RuntimeShape
    <3>3. QED
      BY <3>1, <3>2
  <2>5. QED
    BY <2>2, <2>3, <2>4 DEF Port!Withdraw
<1>6. CASE UNCHANGED vars
  BY <1>6 DEF vars, Life
<1> HIDE DEF life
<1>7. \A p \in pending : p[1][2] \in Attempts
  BY <1>1 DEF RuntimeShape, DispatchIds
<1>8. QED
  BY <1>2, <1>3, <1>4, <1>5, <1>6, <1>7 DEF Next, Port!PortNext

\* The in-process runtime is a runtime adapter: an attempt is accepted at most
\* once, its completion is delivered at most once, with the acknowledged schedule,
\* and never after its cancellation.
THEOREM ImplementsPortHolds == Spec => ImplementsPort
<1>1. Init => Port!PortInit
  <2> SUFFICES ASSUME Init PROVE Port!PortInit
    OBVIOUS
  <2>1. <<0, 0>> \in Schedules
    BY LastFinishInHorizon DEF Horizon, Schedules
  <2>2. QED
    BY <2>1 DEF Init, Port!PortInit, Life
<1>2. RuntimeInv /\ RuntimeInv' /\ [Next]_vars => [Port!PortNext]_(Port!portVars)
  BY StepsImplementPort
<1>3. QED
  BY <1>1, <1>2, RuntimeInvariant, PTL DEF Spec, ImplementsPort, Port!PortSpec
============================================================================
