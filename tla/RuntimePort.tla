---------------------------- MODULE RuntimePort ----------------------------
(***************************************************************************)
(* What a runtime adapter promises to the coordinator, the abstract        *)
(* specification behind RuntimePort of src/mars/runtime/base.py: an        *)
(* attempt is accepted at most once, its acknowledged schedule is the one  *)
(* its completion reports, it is completed at most once, and never after   *)
(* it has been cancelled.                                                  *)
(***************************************************************************)
CONSTANTS
  Attempts,    \* the attempt ids
  Schedules    \* the execution intervals an acknowledgement may carry

VARIABLES
  life,        \* "unused", "pending", "completed" or "cancelled"
  promise,     \* the schedule acknowledged for an attempt
  delivered    \* the completions handed out: <<attempt, schedule>>

portVars == <<life, promise, delivered>>

PortInit ==
  /\ life = [a \in Attempts |-> "unused"]
  /\ promise \in [Attempts -> Schedules]
  /\ delivered = {}

Accept(a) ==
  /\ life[a] = "unused"
  /\ life' = [life EXCEPT ![a] = "pending"]
  /\ \E schedule \in Schedules : promise' = [promise EXCEPT ![a] = schedule]
  /\ UNCHANGED delivered

Complete(a) ==
  /\ life[a] = "pending"
  /\ life' = [life EXCEPT ![a] = "completed"]
  /\ delivered' = delivered \cup {<<a, promise[a]>>}
  /\ UNCHANGED promise

Withdraw(a) ==
  /\ life[a] = "pending"
  /\ life' = [life EXCEPT ![a] = "cancelled"]
  /\ UNCHANGED <<promise, delivered>>

PortNext ==
  \E a \in Attempts : Accept(a) \/ Complete(a) \/ Withdraw(a)

PortSpec == PortInit /\ [][PortNext]_portVars
============================================================================
