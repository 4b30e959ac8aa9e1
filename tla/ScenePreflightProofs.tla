------------------------ MODULE ScenePreflightProofs -----------------------
(***************************************************************************)
(* Theorems about DagValidation and about ScenePreflight, which runs it,   *)
(* for every finite set of tasks and every set of submissions and scenes.  *)
(* Kahn's algorithm accepts exactly what it can put in order, and its      *)
(* index is what the other components take it to be; on this order rests   *)
(* what an audit of a scene says, because it looks at every task once and  *)
(* at the locations its parents had by then.                               *)
(***************************************************************************)
EXTENDS ScenePreflight, Integers, FiniteSetsExt, FiniteSetTheorems, TLAPS, WellFoundedInduction

---------------------------------------------------------------------------
(* Least and greatest elements. *)

\* Natural numbers are well-founded, so a least level is attained.
LEMMA MinimalLevel ==
  ASSUME NEW T, T # {}, NEW level, \A x \in T : level[x] \in Nat
  PROVE  \E x \in T : \A y \in T : ~(level[y] < level[x])
<1> DEFINE R == OpToRel(<, Nat)
           L == {level[x] : x \in T}
<1>1. IsWellFoundedOn(R, Nat)
  BY NatLessThanWellFounded
<1>2. \A m, n \in Nat : m < n => <<m, n>> \in R
  BY DEF OpToRel
<1>3. L \subseteq Nat /\ L # {}
  OBVIOUS
<1> HIDE DEF R, L
<1>4. PICK m \in L : \A n \in L : <<n, m>> \notin R
  BY <1>1, <1>3, WFMin
<1>5. PICK x \in T : level[x] = m
  BY <1>4 DEF L
<1>6. \A y \in T : ~(level[y] < level[x])
  BY <1>2, <1>4, <1>5 DEF L
<1>7. QED
  BY <1>6

\* The least element of a set of natural numbers.
LEMMA MinOfSet ==
  ASSUME NEW S \in SUBSET Nat, S # {}
  PROVE  Min(S) \in S /\ \A x \in S : Min(S) <= x
<1> DEFINE level == [x \in S |-> x]
<1>1. \A x \in S : level[x] \in Nat
  OBVIOUS
<1>2. PICK m \in S : \A x \in S : ~(level[x] < level[m])
  <2> HIDE DEF level
  <2>1. QED
    BY <1>1, MinimalLevel
<1>3. \E n \in S : \A x \in S : n <= x
  BY <1>2
<1>4. QED
  BY <1>3 DEF Min

\* The greatest element of a bounded set of natural numbers.
LEMMA MaxOfSet ==
  ASSUME NEW b \in Nat, NEW S \in SUBSET (0 .. b), S # {}
  PROVE  Max(S) \in S /\ \A x \in S : x <= Max(S)
<1> DEFINE level == [x \in S |-> b - x]
<1>1. \A x \in S : level[x] \in Nat
  OBVIOUS
<1>2. PICK m \in S : \A x \in S : ~(level[x] < level[m])
  <2> HIDE DEF level
  <2>1. QED
    BY <1>1, MinimalLevel
<1>3. \E n \in S : \A x \in S : n >= x
  BY <1>2
<1>4. QED
  BY <1>3 DEF Max

---------------------------------------------------------------------------
(* The inductive invariant. *)

\* The index so far: indegree counts the parents still to come, the queue
\* holds the tasks that wait for none, and what is in the order comes after
\* its parents, with its level.
Counted ==
  /\ \A t \in Tasks : indegree[t] = Cardinality(parents[t] \ Items(order))
  /\ \A t \in Tasks : t \in queue <=> t \notin Items(order) /\ indegree[t] = 0

Ordered ==
  /\ Unique(order)
  /\ \A i \in DOMAIN order : \A p \in parents[order[i]] :
       \E j \in DOMAIN order : j < i /\ order[j] = p

LevelFrom(t) ==
  IF parents[t] = {} THEN levels[t] = 0
  ELSE levels[t] = 1 + Max({levels[p] : p \in parents[t]})

Levelled ==
  /\ \A t \in Items(order) : LevelFrom(t)
  /\ \A t \in Tasks : levels[t] <= Len(order)

Graphed == parents = [t \in Tasks |-> AllParents(submission, t)]

Phases ==
  /\ verdict = "checking" => order = <<>> /\ levels = [t \in Tasks |-> 0]
  /\ verdict \in {"cyclic", "accepted"} => queue = {}
  /\ verdict = "accepted" => Len(order) = Cardinality(Tasks)
  /\ verdict = "cyclic" => Len(order) # Cardinality(Tasks)

DagInv ==
  /\ DagTypeOK
  /\ Phases
  /\ verdict \in {"sorting", "cyclic", "accepted"} =>
       Graphed /\ Counted /\ Ordered /\ Levelled

---------------------------------------------------------------------------
(* Lemmas about the operators. *)

\* In a well-formed workflow the parents of a task are tasks.
LEMMA ParentsAreTasks ==
  ASSUME NEW w, WellFormed(w), NEW t \in Tasks
  PROVE  AllParents(w, t) \subseteq Tasks
BY DEF WellFormed, AllParents, EdgeValid

\* Appending a task adds it to the order and leaves the places of the others.
LEMMA AppendItems ==
  ASSUME NEW s \in Seq(Tasks), NEW t \in Tasks
  PROVE  /\ Append(s, t) \in Seq(Tasks)
         /\ Len(Append(s, t)) = Len(s) + 1
         /\ DOMAIN Append(s, t) = DOMAIN s \cup {Len(s) + 1}
         /\ \A i \in DOMAIN s : Append(s, t)[i] = s[i]
         /\ Append(s, t)[Len(s) + 1] = t
         /\ DOMAIN s = 1 .. Len(s) /\ Len(s) \in Nat
         /\ Items(Append(s, t)) = Items(s) \cup {t}
<1>1. /\ Append(s, t) \in Seq(Tasks)
      /\ Len(Append(s, t)) = Len(s) + 1
      /\ DOMAIN Append(s, t) = DOMAIN s \cup {Len(s) + 1}
      /\ \A i \in DOMAIN s : Append(s, t)[i] = s[i]
      /\ Append(s, t)[Len(s) + 1] = t
      /\ DOMAIN s = 1 .. Len(s) /\ Len(s) \in Nat
  OBVIOUS
<1>2. Items(Append(s, t)) = Items(s) \cup {t}
  BY <1>1 DEF Items
<1>3. QED
  BY <1>1, <1>2

\* A sequence without repetitions has as many items as places.
LEMMA UniqueLength ==
  ASSUME NEW s \in Seq(Tasks), Unique(s)
  PROVE  IsFiniteSet(Items(s)) /\ Cardinality(Items(s)) = Len(s)
<1>1. Len(s) \in Nat /\ DOMAIN s = 1 .. Len(s)
  OBVIOUS
<1> DEFINE f == [i \in 1 .. Len(s) |-> s[i]]
<1>2. f \in Bijection(1 .. Len(s), Items(s))
  BY <1>1 DEF Unique, Items, Bijection, Injection, Surjection, IsInjective
<1>3. ExistsBijection(1 .. Len(s), Items(s))
  BY <1>2 DEF ExistsBijection
<1>4. IsFiniteSet(1 .. Len(s)) /\ Cardinality(1 .. Len(s)) = Len(s)
  BY <1>1, FS_Interval
<1>5. QED
  BY <1>3, <1>4, FS_Bijection

---------------------------------------------------------------------------
(* The invariant is inductive. *)

LEMMA InitDag == Init => DagInv
BY DEF Init, DagInv, DagTypeOK, Phases

LEMMA RejectKeeps == DagInv /\ RejectMalformed => DagInv'
BY DEF DagInv, RejectMalformed, DagTypeOK, Phases

LEMMA BuildKeeps == DagInv /\ BuildGraph => DagInv'
<1> SUFFICES ASSUME DagInv, BuildGraph PROVE DagInv'
  OBVIOUS
<1>1. /\ DagTypeOK /\ WellFormed(submission) /\ verdict' = "sorting"
      /\ order = <<>> /\ levels = [t \in Tasks |-> 0]
      /\ UNCHANGED <<submission, order, levels>>
      /\ Graphed'
  BY DEF DagInv, Phases, BuildGraph, Graphed
<1>2. \A t \in Tasks : AllParents(submission, t) \subseteq Tasks
  BY <1>1, ParentsAreTasks
<1>3. \A t \in Tasks : Cardinality(AllParents(submission, t)) \in Nat
  <2> SUFFICES ASSUME NEW t \in Tasks
               PROVE  Cardinality(AllParents(submission, t)) \in Nat
    OBVIOUS
  <2>1. IsFiniteSet(AllParents(submission, t))
    BY <1>2, SubmissionAssumption, FS_Subset
  <2>2. QED
    BY <2>1, FS_CardinalityType
<1>4. /\ parents' \in [Tasks -> SUBSET Tasks]
      /\ indegree' \in [Tasks -> Nat]
      /\ queue' \subseteq Tasks
      /\ \A t \in Tasks : indegree'[t] = Cardinality(parents'[t])
      /\ \A t \in Tasks : t \in queue' <=> indegree'[t] = 0
  BY <1>2, <1>3 DEF BuildGraph
<1>5. Items(order') = {}
  BY <1>1 DEF Items
<1>6. Counted'
  <2>1. \A t \in Tasks : parents'[t] \ Items(order') = parents'[t]
    BY <1>5
  <2>2. QED
    BY <1>4, <1>5, <2>1 DEF Counted
<1>7. Ordered'
  BY <1>1 DEF Ordered, Unique
<1>8. Levelled'
  <2>1. Len(order') = 0
    BY <1>1
  <2>2. QED
    BY <1>1, <1>5, <2>1 DEF Levelled
<1>9. DagTypeOK' /\ Phases'
  BY <1>1, <1>4 DEF DagTypeOK, Phases
<1>10. QED
  BY <1>1, <1>6, <1>7, <1>8, <1>9 DEF DagInv

LEMMA VisitKeeps ==
  ASSUME DagInv, NEW t \in Tasks, Visit(t)
  PROVE  DagInv'
<1>1. /\ DagTypeOK /\ Graphed /\ Counted /\ Ordered /\ Levelled
      /\ verdict = "sorting" /\ t \in queue /\ order' = Append(order, t)
      /\ UNCHANGED <<submission, verdict, parents>>
  BY DEF DagInv, Visit
<1>2. /\ order' \in Seq(Tasks)
      /\ Len(order') = Len(order) + 1
      /\ DOMAIN order' = DOMAIN order \cup {Len(order) + 1}
      /\ \A i \in DOMAIN order : order'[i] = order[i]
      /\ order'[Len(order) + 1] = t
      /\ DOMAIN order = 1 .. Len(order) /\ Len(order) \in Nat
      /\ Items(order') = Items(order) \cup {t}
  BY <1>1, AppendItems DEF DagTypeOK
<1>3. Items(order) \subseteq Tasks
  BY <1>1, <1>2 DEF Items, DagTypeOK
<1>4. \A c \in Tasks : /\ parents[c] \subseteq Tasks
                       /\ IsFiniteSet(parents[c] \ Items(order))
                       /\ Cardinality(parents[c] \ Items(order)) \in Nat
  <2> SUFFICES ASSUME NEW c \in Tasks
               PROVE  /\ parents[c] \subseteq Tasks
                      /\ IsFiniteSet(parents[c] \ Items(order))
                      /\ Cardinality(parents[c] \ Items(order)) \in Nat
    OBVIOUS
  <2>1. parents[c] \subseteq Tasks
    BY <1>1 DEF DagTypeOK
  <2>2. IsFiniteSet(parents[c] \ Items(order))
    BY <2>1, SubmissionAssumption, FS_Subset
  <2>3. QED
    BY <2>1, <2>2, FS_CardinalityType
<1>5. \A c \in Tasks : indegree[c] = 0 <=> parents[c] \subseteq Items(order)
  <2> SUFFICES ASSUME NEW c \in Tasks
               PROVE  indegree[c] = 0 <=> parents[c] \subseteq Items(order)
    OBVIOUS
  <2>1. Cardinality(parents[c] \ Items(order)) = 0 <=> parents[c] \ Items(order) = {}
    BY <1>4, FS_EmptySet
  <2>2. QED
    BY <1>1, <2>1 DEF Counted
<1>6. t \notin Items(order) /\ parents[t] \subseteq Items(order) /\ t \notin parents[t]
  BY <1>1, <1>5 DEF Counted
<1>7. \A c \in Items(order) : parents[c] \subseteq Items(order) /\ t \notin parents[c]
  BY <1>1, <1>6 DEF Ordered, Items
<1>8. \A c \in Tasks :
        /\ c \in Children(t) <=> t \in parents[c]
        /\ indegree'[c] = IF c \in Children(t) THEN indegree[c] - 1 ELSE indegree[c]
        /\ indegree'[c] = Cardinality(parents[c] \ Items(order'))
        /\ indegree'[c] \in Nat
  <2> SUFFICES ASSUME NEW c \in Tasks
               PROVE  /\ c \in Children(t) <=> t \in parents[c]
                      /\ indegree'[c] = IF c \in Children(t) THEN indegree[c] - 1
                                        ELSE indegree[c]
                      /\ indegree'[c] = Cardinality(parents[c] \ Items(order'))
                      /\ indegree'[c] \in Nat
    OBVIOUS
  <2>1. c \in Children(t) <=> t \in parents[c]
    BY DEF Children
  <2>2. indegree'[c] = IF c \in Children(t) THEN indegree[c] - 1 ELSE indegree[c]
    BY DEF Visit
  <2>3. parents[c] \ Items(order') = (parents[c] \ Items(order)) \ {t}
    BY <1>2
  <2>4. /\ IsFiniteSet((parents[c] \ Items(order)) \ {t})
        /\ Cardinality((parents[c] \ Items(order)) \ {t}) =
             IF t \in parents[c] \ Items(order)
             THEN Cardinality(parents[c] \ Items(order)) - 1
             ELSE Cardinality(parents[c] \ Items(order))
    BY <1>4, FS_RemoveElement
  <2>5. Cardinality((parents[c] \ Items(order)) \ {t}) \in Nat
    BY <2>4, FS_CardinalityType
  <2>6. indegree[c] = Cardinality(parents[c] \ Items(order))
    BY <1>1 DEF Counted
  <2>7. QED
    BY <1>6, <2>1, <2>2, <2>3, <2>4, <2>5, <2>6
<1>9. queue' = (queue \ {t}) \cup {c \in Children(t) : indegree'[c] = 0}
  BY DEF Visit
<1>10. \A c \in Tasks : c \in queue' <=> c \notin Items(order') /\ indegree'[c] = 0
  <2> SUFFICES ASSUME NEW c \in Tasks
               PROVE  c \in queue' <=> c \notin Items(order') /\ indegree'[c] = 0
    OBVIOUS
  <2>1. c \in queue <=> c \notin Items(order) /\ indegree[c] = 0
    BY <1>1 DEF Counted
  <2>2. CASE t \in parents[c]
    <3>1. c \notin Items(order') /\ c \notin queue
      BY <1>2, <1>5, <1>6, <1>7, <2>1, <2>2
    <3>2. QED
      BY <1>8, <1>9, <2>2, <3>1
  <2>3. CASE t \notin parents[c]
    BY <1>2, <1>8, <1>9, <2>1, <2>3
  <2>4. QED
    BY <2>2, <2>3
<1>11. Counted'
  BY <1>1, <1>8, <1>10 DEF Counted
<1>12. Ordered'
  <2>1. Unique(order')
    BY <1>1, <1>2, <1>6 DEF Ordered, Unique, Items
  <2>2. ASSUME NEW i \in DOMAIN order', NEW p \in parents[order'[i]]
        PROVE  \E j \in DOMAIN order' : j < i /\ order'[j] = p
    <3>1. CASE i \in DOMAIN order
      <4>1. PICK j \in DOMAIN order : j < i /\ order[j] = p
        BY <1>1, <1>2, <2>2, <3>1 DEF Ordered
      <4>2. QED
        BY <1>2, <4>1
    <3>2. CASE i = Len(order) + 1
      <4>1. PICK j \in DOMAIN order : order[j] = p
        BY <1>2, <1>6, <2>2, <3>2 DEF Items
      <4>2. j < i
        BY <1>2, <3>2, <4>1
      <4>3. QED
        BY <1>2, <4>1, <4>2
    <3>3. QED
      BY <1>2, <2>2, <3>1, <3>2
  <2>3. QED
    BY <1>1, <2>1, <2>2 DEF Ordered
<1>13. /\ levels' \in [Tasks -> Nat]
       /\ \A x \in Tasks \ {t} : levels'[x] = levels[x]
       /\ \A x \in Tasks : levels'[x] <= Len(order')
       /\ IF parents[t] = {} THEN levels'[t] = 0
          ELSE levels'[t] = 1 + Max({levels[p] : p \in parents[t]})
  <2> DEFINE above == {levels[p] : p \in parents[t]}
  <2>1. /\ levels \in [Tasks -> Nat]
        /\ levels' = [levels EXCEPT ![t] = IF parents[t] = {} THEN 0 ELSE 1 + Max(above)]
        /\ \A x \in Tasks : levels[x] <= Len(order)
    BY <1>1 DEF Visit, DagTypeOK, Levelled
  <2>2. parents[t] \subseteq Tasks
    BY <1>4
  <2>3. above \subseteq 0 .. Len(order)
    BY <1>2, <2>1, <2>2
  <2>4. parents[t] # {} => Max(above) \in 0 .. Len(order)
    <3>1. parents[t] # {} => above # {}
      OBVIOUS
    <3> HIDE DEF above
    <3>2. QED
      BY <1>2, <2>3, <3>1, MaxOfSet
  <2> HIDE DEF above
  <2>5. CASE parents[t] = {}
    BY <1>2, <2>1, <2>5
  <2>6. CASE parents[t] # {}
    <3>1. levels' = [levels EXCEPT ![t] = 1 + Max(above)]
      BY <2>1, <2>6
    <3>2. 1 + Max(above) \in Nat /\ 1 + Max(above) <= Len(order')
      BY <1>2, <2>4, <2>6
    <3> HIDE DEF above
    <3>3. /\ levels'[t] = 1 + Max(above)
          /\ levels' \in [Tasks -> Nat]
          /\ \A x \in Tasks \ {t} : levels'[x] = levels[x]
      BY <2>1, <3>1, <3>2
    <3>4. \A x \in Tasks : levels'[x] <= Len(order')
      BY <1>2, <2>1, <3>2, <3>3
    <3>5. QED
      BY <2>6, <3>3, <3>4 DEF above
  <2>7. QED
    BY <2>5, <2>6
<1>14. Levelled'
  <2>1. ASSUME NEW x \in Items(order') PROVE LevelFrom(x)'
    <3>1. x \in Tasks /\ t \notin parents[x]
      BY <1>2, <1>3, <1>6, <1>7
    <3>2. {levels'[p] : p \in parents[x]} = {levels[p] : p \in parents[x]}
      BY <1>4, <1>13, <3>1
    <3>3. CASE x = t
      BY <1>1, <1>13, <3>2, <3>3 DEF LevelFrom
    <3>4. CASE x # t
      <4>1. LevelFrom(x) /\ levels'[x] = levels[x]
        BY <1>1, <1>2, <1>13, <3>1, <3>4 DEF Levelled
      <4>2. QED
        BY <1>1, <3>2, <4>1 DEF LevelFrom
    <3>5. QED
      BY <3>3, <3>4
  <2>2. QED
    BY <1>13, <2>1 DEF Levelled
<1>15. indegree' \in [Tasks -> Nat]
  <2>1. indegree' = [c \in Tasks |-> IF c \in Children(t) THEN indegree[c] - 1
                                     ELSE indegree[c]]
    BY DEF Visit
  <2>2. QED
    BY <1>8, <2>1
<1>16. queue' \subseteq Tasks
  BY <1>1, <1>9 DEF DagTypeOK, Children
<1>17. DagTypeOK' /\ Phases' /\ Graphed'
  BY <1>1, <1>2, <1>13, <1>15, <1>16 DEF DagTypeOK, Phases, Graphed
<1>18. QED
  BY <1>11, <1>12, <1>14, <1>17 DEF DagInv

\* What is said of the index holds on when its variables stay.
LEMMA IndexKept ==
  ASSUME Graphed, Counted, Ordered, Levelled,
         UNCHANGED <<submission, parents, indegree, queue, order, levels>>
  PROVE  Graphed' /\ Counted' /\ Ordered' /\ Levelled'
<1>1. Graphed' /\ Counted' /\ Ordered'
  BY DEF Graphed, Counted, Ordered
<1>2. \A t \in Tasks \cup Items(order) : LevelFrom(t)' <=> LevelFrom(t)
  BY DEF LevelFrom
<1>3. Levelled'
  BY <1>2 DEF Levelled
<1>4. QED
  BY <1>1, <1>3

LEMMA ConcludeKeeps == DagInv /\ Conclude => DagInv'
<1> SUFFICES ASSUME DagInv, Conclude PROVE DagInv'
  OBVIOUS
<1>1. DagTypeOK' /\ Phases'
  BY DEF DagInv, Conclude, DagTypeOK, Phases
<1>2. Graphed' /\ Counted' /\ Ordered' /\ Levelled'
  BY IndexKept DEF DagInv, Conclude
<1>3. QED
  BY <1>1, <1>2 DEF DagInv

\* Between any two steps of the validation the index built so far is right.
THEOREM DagInvariant == Spec => []DagInv
<1>1. DagInv /\ [Next]_vars => DagInv'
  <2> SUFFICES ASSUME DagInv, [Next]_vars PROVE DagInv'
    OBVIOUS
  <2>1. CASE UNCHANGED vars
    <3>1. DagTypeOK' /\ Phases'
      BY <2>1 DEF vars, DagInv, DagTypeOK, Phases
    <3>2. QED
      BY <2>1, <3>1, IndexKept DEF vars, DagInv
  <2>2. QED
    BY <2>1, RejectKeeps, BuildKeeps, VisitKeeps, ConcludeKeeps DEF Next
<1>2. QED
  BY InitDag, <1>1, PTL DEF Spec

\* The validation's variables keep their types; a count never goes below zero.
THEOREM DagTypeCorrect == Spec => []DagTypeOK
<1>1. DagInv => DagTypeOK
  BY DEF DagInv
<1>2. QED
  BY DagInvariant, <1>1, PTL

---------------------------------------------------------------------------
(* What the index promises. *)

\* The index has the edge relation of the submission.
LEMMA PrecedesParents ==
  ASSUME Graphed, NEW p, NEW t \in Tasks
  PROVE  p \in parents[t] <=> Precedes(p, t)
BY DEF Graphed, AllParents, Precedes

\* The order of an accepted workflow is complete.
LEMMA AcceptedComplete ==
  ASSUME DagInv, verdict = "accepted"
  PROVE  Items(order) = Tasks
<1>1. order \in Seq(Tasks) /\ Unique(order) /\ Len(order) = Cardinality(Tasks)
  BY DEF DagInv, DagTypeOK, Phases, Ordered
<1>2. Items(order) \subseteq Tasks
  BY <1>1 DEF Items
<1>3. Cardinality(Items(order)) = Cardinality(Tasks)
  BY <1>1, UniqueLength
<1>4. QED
  BY <1>2, <1>3, SubmissionAssumption, FS_Subset

\* The levels of a task's parents, and of the task, in a finished order.
LEMMA LevelAbove ==
  ASSUME DagInv, verdict = "accepted", NEW t \in Tasks
  PROVE  /\ \A p \in parents[t] : levels[p] < levels[t]
         /\ parents[t] = {} => levels[t] = 0
         /\ parents[t] # {} => \E p \in parents[t] : levels[t] = levels[p] + 1
<1> DEFINE above == {levels[p] : p \in parents[t]}
<1>1. /\ levels \in [Tasks -> Nat] /\ parents[t] \subseteq Tasks
      /\ \A x \in Tasks : levels[x] <= Len(order)
      /\ Len(order) \in Nat
  BY DEF DagInv, DagTypeOK, Levelled
<1>2. IF parents[t] = {} THEN levels[t] = 0 ELSE levels[t] = 1 + Max(above)
  BY AcceptedComplete DEF DagInv, Levelled, LevelFrom
<1>3. above \subseteq 0 .. Len(order)
  BY <1>1
<1>4. CASE parents[t] # {}
  <2>1. above # {}
    BY <1>4
  <2>2. Max(above) \in above /\ \A x \in above : x <= Max(above)
    <3> HIDE DEF above
    <3>1. QED
      BY <1>1, <1>3, <2>1, MaxOfSet
  <2>3. \A p \in parents[t] : levels[p] \in Nat /\ levels[p] <= Max(above)
    BY <1>1, <2>2
  <2>4. PICK q \in parents[t] : levels[q] = Max(above)
    BY <2>2
  <2> HIDE DEF above
  <2>5. Max(above) \in Nat
    BY <1>1, <2>4
  <2>6. QED
    BY <1>2, <1>4, <2>3, <2>4, <2>5
<1>5. QED
  BY <1>2, <1>4

\* Whatever workflow is accepted, its order lists every task once and after
\* all it waits for, and its levels rise along every edge.
THEOREM IndexInOrderHolds == Spec => []IndexInOrder
<1>1. DagInv => IndexInOrder
  <2> SUFFICES ASSUME DagInv, verdict = "accepted" PROVE IndexInOrder
    BY DEF IndexInOrder
  <2>1. Items(order) = Tasks
    BY AcceptedComplete
  <2>2. Graphed /\ Ordered /\ order \in Seq(Tasks)
    BY DEF DagInv, DagTypeOK
  <2>3. ASSUME NEW i \in DOMAIN order, NEW j \in DOMAIN order,
               Precedes(order[i], order[j])
        PROVE  i < j
    <3>1. order[j] \in Tasks
      BY <2>1, <2>3 DEF Items
    <3>2. order[i] \in parents[order[j]]
      BY <2>2, <2>3, <3>1, PrecedesParents
    <3>3. PICK k \in DOMAIN order : k < j /\ order[k] = order[i]
      BY <2>2, <2>3, <3>2 DEF Ordered
    <3>4. k = i
      BY <2>2, <2>3, <3>3 DEF Ordered, Unique
    <3>5. QED
      BY <3>3, <3>4
  <2>4. ASSUME NEW p \in Tasks, NEW t \in Tasks, Precedes(p, t)
        PROVE  levels[p] < levels[t]
    BY <2>2, <2>4, PrecedesParents, LevelAbove
  <2>5. QED
    BY <2>1, <2>2, <2>3, <2>4 DEF IndexInOrder, Ordered
<1>2. QED
  BY DagInvariant, <1>1, PTL

\* No level of an accepted workflow is higher than its edges require.
THEOREM LevelsTightHolds == Spec => []LevelsTight
<1>1. DagInv => LevelsTight
  <2> SUFFICES ASSUME DagInv, verdict = "accepted", NEW t \in Tasks, levels[t] > 0
               PROVE  \E p \in Tasks : Precedes(p, t) /\ levels[t] = levels[p] + 1
    BY DEF LevelsTight
  <2>1. Graphed /\ parents[t] \subseteq Tasks
    BY DEF DagInv, DagTypeOK
  <2>2. parents[t] # {}
    BY LevelAbove
  <2>3. PICK p \in parents[t] : levels[t] = levels[p] + 1
    BY <2>2, LevelAbove
  <2>4. QED
    BY <2>1, <2>3, PrecedesParents
<1>2. QED
  BY DagInvariant, <1>1, PTL

\* Only a workflow with tasks that wait for each other is refused as cyclic:
\* those left over when the queue is empty.
THEOREM CyclicIsCyclicHolds == Spec => []CyclicIsCyclic
<1>1. DagInv => CyclicIsCyclic
  <2> SUFFICES ASSUME DagInv, verdict = "cyclic"
               PROVE  LET rest == Tasks \ Items(order)
                      IN /\ rest # {}
                         /\ \A t \in rest : \E p \in rest : Precedes(p, t)
    BY Zenon DEF CyclicIsCyclic
  <2>1. /\ order \in Seq(Tasks) /\ parents \in [Tasks -> SUBSET Tasks]
        /\ queue = {} /\ Len(order) # Cardinality(Tasks)
        /\ Graphed /\ Counted /\ Ordered
    BY DEF DagInv, DagTypeOK, Phases
  <2>2. Items(order) \subseteq Tasks
    BY <2>1 DEF Items
  <2>3. Items(order) # Tasks
    BY <2>1, UniqueLength DEF Ordered
  <2>4. ASSUME NEW t \in Tasks \ Items(order)
        PROVE  \E p \in Tasks \ Items(order) : Precedes(p, t)
    <3>1. indegree[t] # 0 /\ indegree[t] = Cardinality(parents[t] \ Items(order))
      BY <2>1, <2>4 DEF Counted
    <3>2. parents[t] \ Items(order) # {}
      BY <3>1, FS_EmptySet
    <3>3. PICK p \in parents[t] : p \notin Items(order)
      BY <3>2
    <3>4. QED
      BY <2>1, <2>4, <3>3, PrecedesParents
  <2>5. QED
    BY <2>2, <2>3, <2>4
<1>2. QED
  BY DagInvariant, <1>1, PTL

---------------------------------------------------------------------------
(* The preflight: the invariant. *)

PreflightShape ==
  /\ scene \in Scenes
  /\ load \in [Nodes -> [Resources -> Nat]]
  /\ locations \in [Tasks -> SUBSET Nodes]
  /\ cursor \in 0 .. Len(order) /\ repaired \in BOOLEAN
  /\ stage = "validate" => cursor = 0
  /\ stage \in {"validate", "audit", "repair", "accepted", "refused", "invalid"}
  /\ stage \in {"audit", "repair", "accepted", "refused"} => verdict = "accepted"

\* A load is only ever lowered.
LoadLowered == \A n \in Nodes, r \in Resources : load[n][r] <= scene.load[n][r]

\* What the audit says of a task, given what it has said of the others.
Located(t) == {n \in ToSet(scene.allowed[t]) : Executable(t, n) /\ HasRoom(t, n)}

\* The tasks for which the last report is up to date: those the audit has seen, and,
\* when it is complete, all of them until a load is changed.
UpToDate ==
  IF stage = "audit" THEN 1 .. cursor
  ELSE IF (stage = "repair" /\ ~repaired) \/ stage \in {"accepted", "refused"} THEN DOMAIN order
  ELSE {}

AuditStands == \A i \in UpToDate : locations[order[i]] = Located(order[i])

Decided ==
  /\ stage = "accepted" => \A t \in Tasks : locations[t] # {}
  /\ stage = "refused" => \E t \in Tasks : locations[t] = {}

SceneInv == PreflightShape /\ LoadLowered /\ AuditStands /\ Decided

---------------------------------------------------------------------------
(* Lemmas about the audit and the repair. *)

\* Once the workflow is accepted, the order is what the audit takes it to be.
LEMMA OrderOfAccepted ==
  ASSUME DagInv, verdict = "accepted"
  PROVE  /\ order \in Seq(Tasks) /\ DOMAIN order = 1 .. Len(order) /\ Len(order) \in Nat
         /\ \A i \in DOMAIN order : order[i] \in Tasks
         /\ \A t \in Tasks : \E i \in DOMAIN order : order[i] = t
         /\ \A i, j \in DOMAIN order : order[i] = order[j] => i = j
         /\ \A t \in Tasks : parents[t] \subseteq Tasks
         /\ \A i \in DOMAIN order : \A p \in parents[order[i]] :
              \E j \in DOMAIN order : j < i /\ order[j] = p
         /\ \A p, t \in Tasks : Precedes(p, t) <=> p \in parents[t]
<1>1. /\ order \in Seq(Tasks) /\ Graphed /\ Ordered /\ parents \in [Tasks -> SUBSET Tasks]
  BY DEF DagInv, DagTypeOK
<1>2. Items(order) = Tasks
  BY AcceptedComplete
<1>3. \A t \in Tasks : \E i \in DOMAIN order : order[i] = t
  BY <1>2 DEF Items
<1>4. \A p, t \in Tasks : Precedes(p, t) <=> p \in parents[t]
  BY <1>1, PrecedesParents
<1>5. QED
  BY <1>1, <1>3, <1>4 DEF Ordered, Unique

\* The report of a task changes only with the load and with the reports of its parents.
LEMMA LocatedKept ==
  ASSUME UNCHANGED <<scene, parents, load>>, NEW t \in Tasks,
         \A p \in parents[t] : locations'[p] = locations[p]
  PROVE  Located(t)' = Located(t)
<1>1. \A n : HasRoom(t, n)' <=> HasRoom(t, n)
  BY DEF HasRoom
<1>2. \A n : Executable(t, n)' <=> Executable(t, n)
  BY DEF Executable, Reaches
<1>3. QED
  BY <1>1, <1>2 DEF Located

\* What a scene is made of.
LEMMA SceneFacts ==
  ASSUME SceneInv, NEW t \in Tasks, NEW n \in Nodes, NEW r \in Resources
  PROVE  /\ load[n][r] \in Nat /\ scene.capacity[n][r] \in Nat /\ scene.need[t][n][r] \in Nat
         /\ scene.load[n][r] \in Nat /\ load[n][r] <= scene.load[n][r]
         /\ scene.allowed[t] \in Seq(Nodes)
<1>1. /\ scene \in Scenes /\ load \in [Nodes -> [Resources -> Nat]]
      /\ load[n][r] <= scene.load[n][r]
  BY DEF SceneInv, PreflightShape, LoadLowered
<1>2. /\ scene.need \in [Tasks -> [Nodes -> [Resources -> Nat]]]
      /\ scene.capacity \in [Nodes -> [Resources -> Nat]]
      /\ scene.load \in [Nodes -> [Resources -> Nat]] /\ scene.allowed \in [Tasks -> Seq(Nodes)]
  BY <1>1, SceneAssumption
<1>3. QED
  BY <1>1, <1>2

\* A repair leaves a load, and no higher one.
LEMMA LoweredFacts ==
  ASSUME SceneInv, NEW t \in Tasks, NEW n \in Nodes
  PROVE  /\ Lowered(t, n) \in [Resources -> Nat]
         /\ \A r \in Resources : Lowered(t, n)[r] <= load[n][r]
<1> SUFFICES ASSUME NEW r \in Resources
             PROVE  /\ Min({load[n][r], Spare(t, n, r)}) \in Nat
                    /\ Min({load[n][r], Spare(t, n, r)}) <= load[n][r]
  BY DEF Lowered
<1>1. load[n][r] \in Nat /\ scene.capacity[n][r] \in Nat /\ scene.need[t][n][r] \in Nat
  BY SceneFacts
<1>2. Spare(t, n, r) \in Nat
  <2>1. PICK x \in Int :
          x = scene.capacity[n][r] - scene.need[t][n][r] - scene.capacity[n][r] \div 20
    BY <1>1
  <2>2. \E m \in {0, x} : \A y \in {0, x} : m >= y
    BY <2>1
  <2>3. Max({0, x}) \in {0, x} /\ Max({0, x}) >= 0
    BY <2>2 DEF Max
  <2>4. QED
    BY <2>1, <2>3 DEF Spare
<1>3. PICK E \in SUBSET Nat : E = {load[n][r], Spare(t, n, r)}
  BY <1>1, <1>2
<1>4. Min(E) \in E /\ \A x \in E : Min(E) <= x
  BY <1>3, MinOfSet
<1>5. QED
  BY <1>3, <1>4

---------------------------------------------------------------------------
(* The preflight: its invariant is inductive, beside that of the validation. *)

LEMMA PreflightStart ==
  ASSUME PreflightInit
  PROVE  SceneInv
<1>1. /\ scene \in Scenes /\ load = scene.load /\ stage = "validate" /\ cursor = 0
      /\ repaired = FALSE /\ locations = [t \in Tasks |-> {}] /\ order = <<>>
  BY DEF PreflightInit, Init, NoReports
<1>2. /\ scene.load \in [Nodes -> [Resources -> Nat]]
  BY <1>1, SceneAssumption
<1>3. cursor \in 0 .. Len(order)
  BY <1>1
<1>4. PreflightShape
  BY <1>1, <1>2, <1>3 DEF PreflightShape
<1>5. LoadLowered
  BY <1>1, <1>2 DEF LoadLowered
<1>6. AuditStands /\ Decided
  BY <1>1 DEF AuditStands, UpToDate, Decided
<1>7. QED
  BY <1>4, <1>5, <1>6 DEF SceneInv

\* While the workflow is validated, and when it has been, nothing is reported yet.
LEMMA ValidationKeeps ==
  ASSUME DagInv, DagInv', SceneInv, ValidateStep \/ Validated
  PROVE  SceneInv'
<1>1. PreflightShape /\ LoadLowered /\ stage = "validate" /\ cursor \in Nat
  BY DEF SceneInv, ValidateStep, Validated, DagInv, DagTypeOK, PreflightShape
<1>2. CASE ValidateStep
  <2>1. UNCHANGED preflightVars /\ Len(order') \in Nat /\ Len(order) <= Len(order')
    <3>1. order \in Seq(Tasks) /\ order' \in Seq(Tasks)
      BY DEF DagInv, DagTypeOK
    <3>2. order' = order \/ \E t \in Tasks : order' = Append(order, t)
      BY <1>2 DEF ValidateStep, Next, RejectMalformed, BuildGraph, Visit, Conclude
    <3>3. QED
      BY <1>2, <3>1, <3>2 DEF ValidateStep
  <2>2. PreflightShape'
    <3>1. cursor' \in 0 .. Len(order')
      BY <1>1, <2>1 DEF PreflightShape, preflightVars, DagInv, DagTypeOK
    <3>2. QED
      BY <1>1, <2>1, <3>1 DEF PreflightShape, preflightVars
  <2>3. LoadLowered' /\ AuditStands' /\ Decided'
    BY <1>1, <2>1 DEF preflightVars, LoadLowered, AuditStands, UpToDate, Decided
  <2>4. QED
    BY <2>2, <2>3 DEF SceneInv
<1>3. CASE Validated
  <2>1. /\ UNCHANGED <<vars, scene, load, locations, deficits, cursor, repaired>>
        /\ stage' = "invalid" \/ (stage' = "audit" /\ verdict = "accepted")
    BY <1>3 DEF Validated
  <2>2. PreflightShape' /\ LoadLowered'
    BY <1>1, <2>1 DEF vars, PreflightShape, LoadLowered
  <2>3. cursor = 0
    BY <1>1 DEF SceneInv, PreflightShape
  <2>4. AuditStands' /\ Decided'
    BY <2>1, <2>3 DEF AuditStands, UpToDate, Decided
  <2>5. QED
    BY <2>2, <2>4 DEF SceneInv
<1>4. QED
  BY <1>2, <1>3

\* The report of the next task leaves the earlier ones as they are, because their
\* parents come before them.
LEMMA AuditKeeps ==
  ASSUME DagInv, SceneInv, Audit
  PROVE  SceneInv'
<1>1. PreflightShape /\ LoadLowered /\ AuditStands /\ verdict = "accepted" /\ stage = "audit"
  BY DEF SceneInv, Audit, PreflightShape
<1>2. /\ DOMAIN order = 1 .. Len(order) /\ Len(order) \in Nat
      /\ \A i \in DOMAIN order : order[i] \in Tasks
      /\ \A i, j \in DOMAIN order : order[i] = order[j] => i = j
      /\ \A t \in Tasks : parents[t] \subseteq Tasks
      /\ \A i \in DOMAIN order : \A p \in parents[order[i]] :
           \E j \in DOMAIN order : j < i /\ order[j] = p
  BY <1>1, OrderOfAccepted
<1>3. PICK k \in DOMAIN order : k = cursor + 1
  BY <1>1, <1>2 DEF Audit, PreflightShape
<1>4. PICK t \in Tasks : t = order[k]
  BY <1>2
<1>5. /\ locations' = [locations EXCEPT ![t] = Located(t)] /\ cursor' = k
      /\ UNCHANGED <<vars, scene, load, repaired, stage>>
  BY <1>3, <1>4 DEF Audit, Located
<1>6. Located(t) \subseteq Nodes
  BY <1>1, SceneAssumption DEF PreflightShape, Located, ToSet
<1>7. /\ locations' \in [Tasks -> SUBSET Nodes] /\ locations'[t] = Located(t)
      /\ \A s \in Tasks : s # t => locations'[s] = locations[s]
  BY <1>1, <1>5, <1>6 DEF PreflightShape
<1>8. PreflightShape' /\ LoadLowered'
  BY <1>1, <1>2, <1>5, <1>7 DEF PreflightShape, LoadLowered, vars
<1>9. AuditStands'
  <2> SUFFICES ASSUME NEW i \in 1 .. k
               PROVE  locations'[order[i]] = Located(order[i])'
    BY <1>1, <1>5 DEF AuditStands, UpToDate, vars
  <2>1. i \in DOMAIN order /\ order[i] \in Tasks
    BY <1>2, <1>3
  <2>2. \A p \in parents[order[i]] : p \in Tasks /\ p # t
    <3> SUFFICES ASSUME NEW p \in parents[order[i]], p = t
                 PROVE  FALSE
      BY <1>2, <2>1
    <3>1. PICK j \in DOMAIN order : j < i /\ order[j] = p
      BY <1>2, <2>1
    <3>2. j = k
      BY <1>2, <1>4, <3>1
    <3>3. QED
      BY <1>2, <3>1, <3>2
  <2>3. Located(order[i])' = Located(order[i])
    <3>1. PICK s \in Tasks : s = order[i]
      BY <2>1
    <3>2. \A p \in parents[s] : locations'[p] = locations[p]
      BY <1>7, <2>2, <3>1
    <3>3. Located(s)' = Located(s)
      BY <1>5, <3>2, LocatedKept DEF vars
    <3>4. QED
      BY <1>5, <3>1, <3>3 DEF vars
  <2>4. CASE i = k
    BY <1>4, <1>7, <2>3, <2>4
  <2>5. CASE i # k
    <3>1. i \in 1 .. cursor
      BY <1>1, <1>2, <1>3, <2>5 DEF PreflightShape
    <3>2. locations[order[i]] = Located(order[i])
      BY <1>1, <3>1 DEF AuditStands, UpToDate
    <3>3. order[i] # t
      BY <1>2, <1>4, <2>1, <2>5
    <3>4. QED
      BY <1>7, <2>1, <2>3, <3>2, <3>3
  <2>6. QED
    BY <2>4, <2>5
<1>10. Decided'
  BY <1>1, <1>5 DEF Decided
<1>11. QED
  BY <1>8, <1>9, <1>10 DEF SceneInv

\* A repair lowers a load, or leaves every load and with it every report.
LEMMA RepairKeeps ==
  ASSUME DagInv, SceneInv, Repair
  PROVE  SceneInv'
<1>1. PreflightShape /\ LoadLowered /\ AuditStands /\ verdict = "accepted" /\ stage = "repair"
  BY DEF SceneInv, Repair, PreflightShape
<1>2. /\ UNCHANGED <<vars, scene, locations, deficits, stage>>
      /\ cursor' = cursor + 1 /\ cursor < Len(order)
      /\ repaired' = (repaired \/ load' # load)
  BY DEF Repair
<1>3. /\ order \in Seq(Tasks) /\ cursor + 1 \in DOMAIN order /\ order[cursor + 1] \in Tasks
  <2>1. /\ order \in Seq(Tasks) /\ cursor \in Nat
    BY <1>1, OrderOfAccepted DEF PreflightShape
  <2>2. QED
    BY <1>2, <2>1
<1>4. PICK t \in Tasks : t = order[cursor + 1]
  BY <1>3
<1>5. load' = load \/ \E n : load' = [load EXCEPT ![n] = Lowered(t, n)]
  BY <1>4 DEF Repair
<1>6. /\ load' \in [Nodes -> [Resources -> Nat]]
      /\ \A n \in Nodes, r \in Resources : load'[n][r] <= load[n][r]
  <2>1. \A n \in Nodes, r \in Resources : load[n][r] \in Nat
    BY <1>1 DEF PreflightShape
  <2>2. CASE load' = load
    BY <1>1, <2>1, <2>2 DEF PreflightShape
  <2>3. ASSUME NEW n, load' = [load EXCEPT ![n] = Lowered(t, n)]
        PROVE  /\ load' \in [Nodes -> [Resources -> Nat]]
               /\ \A m \in Nodes, r \in Resources : load'[m][r] <= load[m][r]
    <3>1. CASE n \in Nodes
      <4>1. PICK l \in [Resources -> Nat] :
              l = Lowered(t, n) /\ \A r \in Resources : l[r] <= load[n][r]
        BY <3>1, LoweredFacts
      <4>2. QED
        BY <1>1, <2>1, <2>3, <3>1, <4>1 DEF PreflightShape
    <3>2. CASE n \notin Nodes
      <4>1. load' = load
        BY <1>1, <2>3, <3>2 DEF PreflightShape
      <4>2. QED
        BY <1>1, <2>1, <4>1 DEF PreflightShape
    <3>3. QED
      BY <3>1, <3>2
  <2>4. QED
    BY <1>5, <2>2, <2>3
<1>7. PreflightShape'
  <2>1. cursor' \in 0 .. Len(order) /\ repaired' \in BOOLEAN
    BY <1>1, <1>2, <1>3 DEF PreflightShape
  <2>2. QED
    BY <1>1, <1>2, <1>6, <2>1 DEF PreflightShape, vars
<1>8. LoadLowered'
  <2> SUFFICES ASSUME NEW n \in Nodes, NEW r \in Resources
               PROVE  load'[n][r] <= scene.load[n][r]
    BY <1>2 DEF LoadLowered
  <2>1. /\ load'[n][r] \in Nat /\ load[n][r] \in Nat /\ scene.load[n][r] \in Nat
        /\ load'[n][r] <= load[n][r] /\ load[n][r] <= scene.load[n][r]
    BY <1>3, <1>6, SceneFacts
  <2>2. QED
    BY <2>1
<1>9. AuditStands'
  <2>1. CASE repaired'
    BY <1>1, <1>2, <2>1 DEF AuditStands, UpToDate
  <2>2. CASE ~repaired'
    <3>1. ~repaired /\ load' = load
      BY <1>2, <2>2
    <3>2. \A s \in Tasks : Located(s)' = Located(s)
      BY <1>2, <3>1, LocatedKept DEF vars
    <3>3. \A i \in DOMAIN order : order[i] \in Tasks
      BY <1>3
    <3>4. \A i \in DOMAIN order : locations[order[i]] = Located(order[i])
      BY <1>1, <3>1 DEF AuditStands, UpToDate
    <3>5. UpToDate' = DOMAIN order
      BY <1>1, <1>2, <2>2 DEF UpToDate, vars
    <3>6. \A i \in DOMAIN order : Located(order[i])' = Located(order[i])
      <4> SUFFICES ASSUME NEW i \in DOMAIN order
                   PROVE  Located(order[i])' = Located(order[i])
        OBVIOUS
      <4>1. PICK s \in Tasks : s = order[i]
        BY <3>3
      <4>2. QED
        BY <1>2, <3>2, <4>1 DEF vars
    <3>7. QED
      BY <1>2, <3>4, <3>5, <3>6 DEF AuditStands, vars
  <2>3. QED
    BY <2>1, <2>2
<1>10. Decided'
  BY <1>1, <1>2 DEF Decided
<1>11. QED
  BY <1>7, <1>8, <1>9, <1>10 DEF SceneInv

\* The turns between audits and repairs change no report that is up to date.
LEMMA TurnKeeps ==
  ASSUME DagInv, SceneInv, Audited \/ AuditAgain \/ Decide
  PROVE  SceneInv'
<1>1. PreflightShape /\ LoadLowered /\ AuditStands /\ verdict = "accepted"
  BY DEF SceneInv, Audited, AuditAgain, Decide, PreflightShape
<1>2. /\ UNCHANGED <<vars, scene, load>>
      /\ \/ locations' = locations
         \/ locations' = NoReports
  BY DEF Audited, AuditAgain, Decide
<1>3. /\ order \in Seq(Tasks) /\ Len(order) \in Nat /\ DOMAIN order = 1 .. Len(order)
      /\ \A t \in Tasks : \E i \in DOMAIN order : order[i] = t
  BY <1>1, OrderOfAccepted
<1>4. PreflightShape' /\ LoadLowered'
  <2>1. locations' \in [Tasks -> SUBSET Nodes]
    BY <1>1, <1>2 DEF PreflightShape, NoReports
  <2>2. /\ cursor' \in {0, cursor} /\ repaired' \in {FALSE, repaired}
        /\ stage' \in {"audit", "repair", "accepted", "refused"}
    BY DEF Audited, AuditAgain, Decide
  <2>3. QED
    <3>1. cursor' \in 0 .. Len(order') /\ repaired' \in BOOLEAN
      <4>1. order' = order
        BY <1>2 DEF vars
      <4>2. cursor \in 0 .. Len(order) /\ repaired \in BOOLEAN /\ 0 \in 0 .. Len(order)
        BY <1>1, <1>3 DEF PreflightShape
      <4>3. QED
        BY <2>2, <4>1, <4>2
    <3>2. LoadLowered'
      BY <1>1, <1>2 DEF LoadLowered
    <3>3. QED
      BY <1>1, <1>2, <2>1, <2>2, <3>1, <3>2 DEF PreflightShape, vars
<1>5. \A i \in DOMAIN order : locations' = locations => Located(order[i])' = Located(order[i])
  BY <1>2 DEF Located, Executable, Reaches, HasRoom, vars
<1>6. AuditStands'
  <2>1. CASE Audited \/ Decide
    <3>1. UpToDate = DOMAIN order /\ UpToDate' = DOMAIN order /\ locations' = locations
      BY <1>2, <1>3, <2>1 DEF UpToDate, Audited, Decide, vars
    <3>2. QED
      BY <1>1, <1>2, <1>5, <3>1 DEF AuditStands, vars
  <2>2. CASE AuditAgain
    BY <2>2 DEF AuditAgain, AuditStands, UpToDate
  <2>3. QED
    BY <2>1, <2>2
<1>7. Decided'
  BY DEF Decided, Audited, AuditAgain, Decide
<1>8. QED
  BY <1>4, <1>6, <1>7 DEF SceneInv

LEMMA PreflightStep ==
  ASSUME DagInv, DagInv', SceneInv, [PreflightNext]_<<vars, preflightVars>>
  PROVE  SceneInv'
<1>1. CASE UNCHANGED <<vars, preflightVars>>
  <2>1. PreflightShape' /\ LoadLowered' /\ Decided'
    BY <1>1 DEF vars, preflightVars, SceneInv, PreflightShape, LoadLowered, Decided
  <2>2. AuditStands'
    BY <1>1 DEF vars, preflightVars, SceneInv, AuditStands, UpToDate, Located, Executable,
                Reaches, HasRoom
  <2>3. QED
    BY <2>1, <2>2 DEF SceneInv
<1>2. QED
  BY <1>1, ValidationKeeps, AuditKeeps, RepairKeeps, TurnKeeps DEF PreflightNext

---------------------------------------------------------------------------
(* Theorems about the preflight. *)

\* The preflight validates its workflow as DagValidation does, so that everything
\* that is proved of the validation holds of it.
THEOREM PreflightValidates == PreflightSpec => Spec
<1>1. PreflightInit => Init
  BY DEF PreflightInit
<1>2. [PreflightNext]_<<vars, preflightVars>> => [Next]_vars
  BY DEF PreflightNext, ValidateStep, Validated, Audit, Audited, Repair, AuditAgain, Decide
<1>3. QED
  BY <1>1, <1>2, PTL DEF PreflightSpec, Spec

\* The reports of an audit agree with each other and with the load, in whatever order
\* audits and repairs have followed each other, and no load is ever raised.
THEOREM PreflightInvariant == PreflightSpec => []SceneInv
<1>1. PreflightInit => SceneInv
  BY PreflightStart
<1>2. DagInv /\ DagInv' /\ SceneInv /\ [PreflightNext]_<<vars, preflightVars>> => SceneInv'
  BY PreflightStep
<1>3. PreflightSpec => []DagInv
  BY PreflightValidates, DagInvariant
<1>4. QED
  BY <1>1, <1>2, <1>3, PTL DEF PreflightSpec

\* A scene is refused only if no placement of its tasks would do under the load that
\* is left, and in one that is handed out every task can be placed where its parents'
\* locations reach it (preflight_scene of schedulability.py).
THEOREM VerdictIsRightHolds == PreflightSpec => []VerdictIsRight
<1>1. DagInv /\ SceneInv => VerdictIsRight
  <2> SUFFICES ASSUME DagInv, SceneInv
               PROVE  VerdictIsRight
    OBVIOUS
  <2>1. stage \in {"accepted", "refused"} =>
          /\ verdict = "accepted"
          /\ \A t \in Tasks : locations[t] = Located(t)
    <3> SUFFICES ASSUME stage \in {"accepted", "refused"}
                 PROVE  verdict = "accepted" /\ \A t \in Tasks : locations[t] = Located(t)
      OBVIOUS
    <3>1. verdict = "accepted"
      BY DEF SceneInv, PreflightShape
    <3>2. \A t \in Tasks : \E i \in DOMAIN order : order[i] = t
      BY <3>1, OrderOfAccepted
    <3>3. QED
      BY <3>1, <3>2 DEF SceneInv, AuditStands, UpToDate
  <2>2. ASSUME stage = "refused", NEW f \in [Tasks -> Nodes],
               \A t \in Tasks : Suits(t, f[t]) /\ \A p \in Tasks :
                 Precedes(p, t) => <<f[p], f[t]>> \in scene.wide[t]
        PROVE  FALSE
    <3> DEFINE T == {t \in Tasks : f[t] \notin locations[t]}
    <3>1. T # {}
      BY <2>2 DEF SceneInv, Decided
    <3>2. \A t \in T : levels[t] \in Nat
      BY DEF DagInv, DagTypeOK
    <3>3. PICK t \in T : \A y \in T : ~(levels[y] < levels[t])
      <4> HIDE DEF T
      <4>1. QED
        BY <3>1, <3>2, MinimalLevel
    <3>4. verdict = "accepted" /\ locations[t] = Located(t)
      BY <2>1, <2>2
    <3>5. \A p \in parents[t] : p \in Tasks /\ f[p] \in locations[p] /\ Precedes(p, t)
      <4>1. \A p \in parents[t] : p \in Tasks /\ levels[p] < levels[t] /\ Precedes(p, t)
        BY <3>4, OrderOfAccepted, LevelAbove
      <4>2. QED
        BY <3>3, <4>1
    <3>6. \A p \in parents[t] : Reaches(p, t, f[t])
      BY <2>2, <3>5 DEF Reaches
    <3>7. parents[t] = {} => <<scene.source[t], f[t]>> \in scene.wide[t]
      <4>1. parents[t] = {} => \A p \in Tasks : ~Precedes(p, t)
        BY <3>4, OrderOfAccepted
      <4>2. QED
        BY <2>2, <4>1 DEF Suits
    <3>8. \A r \in Resources : scene.need[t][f[t]][r] <= scene.capacity[f[t]][r]
      <4> SUFFICES ASSUME NEW r \in Resources
                   PROVE  scene.need[t][f[t]][r] <= scene.capacity[f[t]][r]
        OBVIOUS
      <4>1. /\ load[f[t]][r] \in Nat /\ scene.capacity[f[t]][r] \in Nat
            /\ scene.need[t][f[t]][r] \in Nat
        BY SceneFacts
      <4>2. scene.need[t][f[t]][r] <= scene.capacity[f[t]][r] - load[f[t]][r]
        BY <2>2 DEF Suits, HasRoom
      <4>3. QED
        BY <4>1, <4>2
    <3>9. f[t] \in Located(t)
      BY <2>2, <3>6, <3>7, <3>8 DEF Located, Executable, Suits
    <3>10. QED
      BY <3>4, <3>9
  <2>3. ASSUME stage = "accepted"
        PROVE  \E F \in [Tasks -> (SUBSET Nodes) \ {{}}] : \A t \in Tasks : \A n \in F[t] :
                 Suits(t, n) /\ \A p \in Tasks :
                   Precedes(p, t) => \E m \in F[p] : <<m, n>> \in scene.wide[t]
    <3>1. locations \in [Tasks -> (SUBSET Nodes) \ {{}}]
      BY <2>3 DEF SceneInv, PreflightShape, Decided
    <3>2. ASSUME NEW t \in Tasks, NEW n \in locations[t]
          PROVE  Suits(t, n) /\ \A p \in Tasks :
                   Precedes(p, t) => \E m \in locations[p] : <<m, n>> \in scene.wide[t]
      <4>1. n \in Located(t) /\ \A p \in Tasks : Precedes(p, t) <=> p \in parents[t]
        BY <2>1, <2>3, OrderOfAccepted
      <4>2. parents[t] \subseteq Tasks
        BY <2>1, <2>3, OrderOfAccepted
      <4>3. QED
        BY <4>1, <4>2 DEF Located, Executable, Reaches, Suits
    <3>3. QED
      BY <3>1, <3>2
  <2>4. QED
    BY <2>2, <2>3 DEF VerdictIsRight, SceneInv, LoadLowered
<1>2. PreflightSpec => []DagInv
  BY PreflightValidates, DagInvariant
<1>3. QED
  BY <1>1, <1>2, PreflightInvariant, PTL
=============================================================================
