---------------------------- MODULE AgentRuntime ----------------------------
(***************************************************************************)
(* The in-process runtime: class InProcessRuntime with the reservations of *)
(* its _SimulatedAgents (src/mars/runtime/inprocess.py).                   *)
(*                                                                         *)
(* An agent keeps, in virtual time, one interval per attempt it accepted.  *)
(* dispatch finds the earliest interval in which the attempt fits, runs    *)
(* the attempt at once and moves the interval to the sampled duration;     *)
(* receive_completion and cancel end it.  The methods never await, so each *)
(* is one action.  The caller is the environment: it may dispatch an       *)
(* attempt again, on any node, and cancel at any clock value.              *)
(*                                                                         *)
(* cpu, gpu and memory are checked alike and are one resource here.        *)
(***************************************************************************)
EXTENDS Integers, FiniteSets, FiniteSetsExt

CONSTANTS
  Nodes,         \* the nodes, one agent each
  Attempts,      \* the attempt ids a caller uses
  Capacity,      \* what the background load leaves of a node's resource
  Concurrency,   \* max_concurrency of a node
  MaxStart,      \* bound on planned start times
  MaxClock,      \* bound on the caller's clock at a cancel
  MaxDuration,   \* bound on planned and sampled durations
  MaxDemand,     \* bound on the demand of an attempt
  NoDispatch     \* no dispatch id

ASSUME RuntimeAssumption ==
  /\ IsFiniteSet(Nodes) /\ IsFiniteSet(Attempts)
  /\ Capacity \in [Nodes -> Nat]
  /\ Concurrency \in [Nodes -> Nat \ {0}]
  /\ MaxStart \in Nat /\ MaxClock \in Nat /\ MaxDuration \in Nat \ {0} /\ MaxDemand \in Nat
  /\ NoDispatch \notin Nodes \X Attempts

VARIABLES
  reservations,       \* _reservations of all agents, ended ones included
  pending,            \* _pending: the schedule of every outstanding dispatch
  dispatchOf,         \* _dispatch_by_attempt
  consumed,           \* _consumed_dispatches
  terminalAttempts,   \* _terminal_attempts
  cancelledAttempts,  \* the keys of _cancelled_attempts
  promised,           \* the schedule of the last accepted acknowledgement
  received            \* the completions the caller has been handed

vars == <<reservations, pending, dispatchOf, consumed, terminalAttempts,
          cancelledAttempts, promised, received>>

DispatchIds == Nodes \X Attempts

Init ==
  /\ reservations = {}
  /\ pending = {}
  /\ dispatchOf = [a \in Attempts |-> NoDispatch]
  /\ consumed = {}
  /\ terminalAttempts = {}
  /\ cancelledAttempts = {}
  /\ promised = [a \in Attempts |-> <<0, 0>>]
  /\ received = {}

---------------------------------------------------------------------------
(* The calendar of one agent. *)

On(n) == {r \in reservations : r.node = n}

ActiveAt(held, time) == {r \in held : r.start <= time /\ time < r.finish}

\* The units of the resource they hold together.
Demand(held) == Cardinality(UNION {{r} \X (1 .. r.demand) : r \in held})

\* The agent can hold demand more from start on for the duration; an empty
\* interval counts at its start.
Fits(held, n, start, duration, demand) ==
  \A time \in {start} \cup start .. (start + duration - 1) :
    LET running == ActiveAt(held, time)
    IN /\ Cardinality(running) < Concurrency[n]
       /\ Demand(running) + demand <= Capacity[n]

\* _earliest_feasible_start: the search moves from the planned start to ever
\* later ends of the intervals in the way, and gives up when there is none.
FeasibleStarts(held, n, start, duration, demand) ==
  {s \in {start} \cup {r.finish : r \in held} :
     s >= start /\ Fits(held, n, s, duration, demand)}

\* _validate_command, the duplicate check and reserve.
MayReserve(a, n, start, planned, demand) ==
  /\ <<n, a>> \notin {p[1] : p \in pending} \cup consumed
  /\ dispatchOf[a] = NoDispatch
  /\ a \notin terminalAttempts
  /\ \A r \in On(n) : r.attempt # a
  /\ FeasibleStarts(On(n), n, start, planned, demand) # {}

Reservation(a, n, start, finish, demand) ==
  [attempt |-> a, node |-> n, start |-> start, finish |-> finish,
   demand |-> demand, terminal |-> FALSE, cancelled |-> FALSE]

---------------------------------------------------------------------------
(* The methods of the runtime. *)

\* (The sampled duration is written into the planned interval in place.)
Dispatch_Stretch(a, n, start, planned, sampled, demand) ==
  /\ MayReserve(a, n, start, planned, demand)
  /\ LET begin == Min(FeasibleStarts(On(n), n, start, planned, demand))
         schedule == <<begin, begin + sampled>>
     IN /\ reservations' = reservations
             \cup {Reservation(a, n, schedule[1], schedule[2], demand)}
        /\ pending' = pending \cup {<<<<n, a>>, schedule>>}
        /\ promised' = [promised EXCEPT ![a] = schedule]
  /\ dispatchOf' = [dispatchOf EXCEPT ![a] = <<n, a>>]
  /\ UNCHANGED <<consumed, terminalAttempts, cancelledAttempts, received>>

\* (The acknowledgement carries the planned interval.)
Dispatch_AcksPlan(a, n, start, planned, sampled, demand) ==
  /\ MayReserve(a, n, start, planned, demand)
  /\ LET begin == Min(FeasibleStarts(On(n), n, start, sampled, demand))
         schedule == <<begin, begin + sampled>>
     IN /\ reservations' = reservations
             \cup {Reservation(a, n, schedule[1], schedule[2], demand)}
        /\ pending' = pending \cup {<<<<n, a>>, schedule>>}
        /\ promised' = [promised EXCEPT ![a] = <<begin, begin + planned>>]
  /\ dispatchOf' = [dispatchOf EXCEPT ![a] = <<n, a>>]
  /\ UNCHANGED <<consumed, terminalAttempts, cancelledAttempts, received>>

\* dispatch: the interval reserved for the planned duration is given up for
\* the earliest one of the sampled duration.
Dispatch(a, n, start, planned, sampled, demand) ==
  /\ MayReserve(a, n, start, planned, demand)
  /\ LET begin == Min(FeasibleStarts(On(n), n, start, sampled, demand))
         schedule == <<begin, begin + sampled>>
     IN /\ reservations' = reservations
             \cup {Reservation(a, n, schedule[1], schedule[2], demand)}
        /\ pending' = pending \cup {<<<<n, a>>, schedule>>}
        /\ promised' = [promised EXCEPT ![a] = schedule]
  /\ dispatchOf' = [dispatchOf EXCEPT ![a] = <<n, a>>]
  /\ UNCHANGED <<consumed, terminalAttempts, cancelledAttempts, received>>

\* The execution raises: the planned interval is released at its start.
DispatchRaises(a, n, start, planned, demand) ==
  /\ MayReserve(a, n, start, planned, demand)
  /\ LET begin == Min(FeasibleStarts(On(n), n, start, planned, demand))
     IN reservations' = reservations
          \cup {[Reservation(a, n, begin, begin, demand)
                   EXCEPT !.terminal = TRUE, !.cancelled = TRUE]}
  /\ UNCHANGED <<pending, dispatchOf, consumed, terminalAttempts,
                 cancelledAttempts, promised, received>>

\* (A cancel may push the end of an interval out.)
Cancelled_NoCap(r, time) ==
  [r EXCEPT !.finish = Max({r.start, time}), !.terminal = TRUE, !.cancelled = TRUE]

\* release without consumption: the interval ends now, if it has begun.
Cancelled(r, time) ==
  [r EXCEPT !.finish = Min({r.finish, Max({r.start, time})}),
            !.terminal = TRUE, !.cancelled = TRUE]

\* release with consumption: the interval stays, as the completion ends with it.
Consumed(r, finish) == [r EXCEPT !.finish = Max({r.start, finish}), !.terminal = TRUE]

LiveReservation(d) ==
  {r \in reservations : r.node = d[1] /\ r.attempt = d[2] /\ ~r.terminal}

\* receive_completion; it raises, after the dispatch is gone, when the agent
\* holds no reservation for it.
ReceiveCompletion(d, schedule) ==
  /\ d \notin consumed
  /\ <<d, schedule>> \in pending
  /\ pending' = pending \ {<<d, schedule>>}
  /\ IF LiveReservation(d) # {}
     THEN /\ reservations' = {IF r \in LiveReservation(d)
                              THEN Consumed(r, schedule[2]) ELSE r
                                : r \in reservations}
          /\ dispatchOf' = [dispatchOf EXCEPT ![d[2]] = NoDispatch]
          /\ consumed' = consumed \cup {d}
          /\ terminalAttempts' = terminalAttempts \cup {d[2]}
          /\ received' = received \cup {<<d[2], schedule>>}
     ELSE UNCHANGED <<reservations, dispatchOf, consumed, terminalAttempts, received>>
  /\ UNCHANGED <<cancelledAttempts, promised>>

\* (The attempt is forgotten but its interval is kept.)
Cancel_KeepsReservation(a, time) ==
  LET d == dispatchOf[a]
  IN /\ d # NoDispatch
     /\ dispatchOf' = [dispatchOf EXCEPT ![a] = NoDispatch]
     /\ pending' = {p \in pending : p[1] # d}
     /\ consumed' = consumed \cup {d}
     /\ terminalAttempts' = terminalAttempts \cup {a}
     /\ cancelledAttempts' = cancelledAttempts \cup {a}
     /\ UNCHANGED <<reservations, promised, received>>

\* cancel of an attempt that is outstanding; any other cancel changes nothing.
Cancel(a, time) ==
  LET d == dispatchOf[a]
  IN /\ d # NoDispatch
     /\ dispatchOf' = [dispatchOf EXCEPT ![a] = NoDispatch]
     /\ pending' = {p \in pending : p[1] # d}
     /\ reservations' = {IF r \in LiveReservation(d) THEN Cancelled(r, time) ELSE r
                           : r \in reservations}
     /\ consumed' = consumed \cup {d}
     /\ terminalAttempts' = terminalAttempts \cup {a}
     /\ cancelledAttempts' = cancelledAttempts \cup {a}
     /\ UNCHANGED <<promised, received>>

Next ==
  \/ \E a \in Attempts, n \in Nodes, start \in 0 .. MaxStart, demand \in 1 .. MaxDemand,
        planned \in 0 .. MaxDuration :
       \/ \E sampled \in 1 .. MaxDuration : Dispatch(a, n, start, planned, sampled, demand)
       \/ DispatchRaises(a, n, start, planned, demand)
  \/ \E p \in pending : ReceiveCompletion(p[1], p[2])
  \/ \E a \in Attempts, time \in 0 .. MaxClock : Cancel(a, time)

Spec == Init /\ [][Next]_vars

---------------------------------------------------------------------------
(* Properties. *)

Horizon == 0 .. (MaxStart + MaxDuration * Cardinality(Attempts))
Schedules == Horizon \X Horizon

\* Every variable holds a value of its kind.
RuntimeTypeOK ==
  /\ reservations \subseteq
       [attempt : Attempts, node : Nodes, start : Horizon, finish : Horizon,
        demand : 1 .. MaxDemand, terminal : BOOLEAN, cancelled : BOOLEAN]
  /\ pending \subseteq DispatchIds \X Schedules
  /\ dispatchOf \in [Attempts -> DispatchIds \cup {NoDispatch}]
  /\ consumed \subseteq DispatchIds
  /\ terminalAttempts \subseteq Attempts
  /\ cancelledAttempts \subseteq terminalAttempts
  /\ promised \in [Attempts -> Schedules]
  /\ received \subseteq Attempts \X Schedules

\* At every instant, past and future, what an agent has accepted fits it:
\* delivering, cancelling and failing dispatches never leave it overbooked.
CapacityRespected ==
  \A n \in Nodes : \A time \in Horizon :
    LET running == ActiveAt(On(n), time)
    IN Cardinality(running) <= Concurrency[n] /\ Demand(running) <= Capacity[n]

\* The runtime's tables and the agents' calendars agree.  An outstanding
\* dispatch has one open reservation with the acknowledged schedule, a
\* reservation is open only for an outstanding dispatch (no leak), a completed
\* attempt keeps exactly one interval that counts and any other attempt that
\* is not outstanding keeps none.
BooksAgree ==
  /\ \A p \in pending :
       /\ dispatchOf[p[1][2]] = p[1]
       /\ p[1] \notin consumed
       /\ \E r \in LiveReservation(p[1]) : <<r.start, r.finish>> = p[2]
  /\ \A a \in Attempts : dispatchOf[a] # NoDispatch =>
       \E p \in pending : p[1] = dispatchOf[a]
  /\ \A r \in reservations : ~r.terminal => dispatchOf[r.attempt] = <<r.node, r.attempt>>
  /\ \A a \in Attempts :
       Cardinality({r \in reservations : r.attempt = a /\ ~r.cancelled}) =
         IF dispatchOf[a] # NoDispatch \/ a \in terminalAttempts \ cancelledAttempts
         THEN 1 ELSE 0

\* What was acknowledged stands: no later call moves, extends or reopens the
\* interval of an attempt, and only an open one can be cut short.
IntervalsStand ==
  [][\A r \in reservations : \E q \in reservations' :
       /\ <<q.node, q.attempt, q.start, q.demand>> = <<r.node, r.attempt, r.start, r.demand>>
       /\ q.finish <= r.finish
       /\ r.terminal => q = r]_vars

\* The life of an attempt as the coordinator sees it.
Life(a) ==
  IF a \in cancelledAttempts THEN "cancelled"
  ELSE IF a \in terminalAttempts THEN "completed"
  ELSE IF dispatchOf[a] # NoDispatch THEN "pending"
  ELSE "unused"

Port == INSTANCE RuntimePort WITH
  life <- [a \in Attempts |-> Life(a)], promise <- promised, delivered <- received

\* The in-process runtime is a runtime adapter: every attempt is accepted and
\* completed at most once, with the schedule that was acknowledged, and not at
\* all after its cancellation.
ImplementsPort == Port!PortSpec
============================================================================
