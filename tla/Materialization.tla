--------------------------- MODULE Materialization --------------------------
(***************************************************************************)
(* materialize_candidate and earliest_resource_start                       *)
(* (src/mars/optimizers/materialization.py): the transfers of a candidate, *)
(* one after the other, each as soon as all links of its path are free,    *)
(* then the first time at which its node has room for it.                  *)
(***************************************************************************)
EXTENDS SchedulingProblem

VARIABLES
  calendar,   \* reservations_by_node: the carry-in and what the plan has added
  links,      \* link_available
  placing,    \* the candidate being placed, if any
  moved,      \* its transfers
  cursor      \* where the search for its start has come to

placeVars == <<placing, moved, cursor>>

Transfer(c, i, start) ==
  [id |-> <<c.task, i>>, task |-> c.task, transfer |-> c.transfers[i].id,
   path |-> c.transfers[i].path, start |-> start, finish |-> start + c.transfers[i].time]

\* Bug: the links of a path stay as they were.
Transferred_LinksKept(c, free) ==
  LET step[i \in 0 .. Len(c.transfers)] ==
        IF i = 0 THEN [at |-> Max({problem.now, c.ready}), links |-> free, made |-> {}]
        ELSE LET before == step[i - 1]
                 x == c.transfers[i]
                 start == Max({before.at} \cup {free[l] : l \in ToSet(x.path)})
             IN IF x.path = <<>> \/ x.time = 0 THEN before
                ELSE [at |-> start + x.time, links |-> free,
                      made |-> before.made \cup {Transfer(c, i, start)}]
  IN step[Len(c.transfers)]

\* The time reached, the links and the reservations after the transfers of c over
\* links that become free as given.  One that needs no link or no time is not
\* reserved.
Transferred(c, free) ==
  LET step[i \in 0 .. Len(c.transfers)] ==
        IF i = 0 THEN [at |-> Max({problem.now, c.ready}), links |-> free, made |-> {}]
        ELSE LET before == step[i - 1]
                 x == c.transfers[i]
                 start == Max({before.at} \cup {before.links[l] : l \in ToSet(x.path)})
             IN IF x.path = <<>> \/ x.time = 0 THEN before
                ELSE [at |-> start + x.time,
                      links |-> [l \in Links |-> IF l \in ToSet(x.path) THEN start + x.time
                                                                       ELSE before.links[l]],
                      made |-> before.made \cup {Transfer(c, i, start)}]
  IN step[Len(c.transfers)]

Reservation(c, start) ==
  [id |-> <<"plan", c.task>>, task |-> c.task, node |-> c.node,
   start |-> start, finish |-> start + c.compute, demand |-> c.demand]

\* The node could not even hold c alone: CandidateMaterializationError.
TooBig(c) ==
  \E r \in Resources : Background(c.node, r) + c.demand[r] > problem.capacity[c.node][r]

\* The transfers, and where the search for a start begins.
BeginPlacing(c) ==
  /\ placing' = <<c>>
  /\ moved' = Transferred(c, links)
  /\ cursor' = Max({Transferred(c, links).at, problem.free[c.node]})

Overlapping(c, start) ==
  {x \in calendar : x.node = c.node /\ x.start < start + c.compute /\ x.finish > start}

\* c fits at every point where the load may change while it runs.
FitsFrom(c, start) ==
  LET over == Overlapping(c, start)
      points == {start} \cup {Max({start, x.start}) : x \in over}
                        \cup {Min({start + c.compute, x.finish}) : x \in over}
  IN \A u \in points : u < start + c.compute =>
       Fits(c.node, {Reservation(c, start)} \cup {x \in over : x.start <= u /\ u < x.finish})

Releases(c, start) == {x.finish : x \in Overlapping(c, start)}

\* Bug: the search goes on at the last release, not at the first.
Jump_Last ==
  /\ placing # <<>>
  /\ ~FitsFrom(placing[1], cursor) /\ Releases(placing[1], cursor) # {}
  /\ cursor' = Max(Releases(placing[1], cursor))
  /\ UNCHANGED <<placing, moved>>

\* No room from cursor on: the search goes on at the first release after it.
Jump ==
  /\ placing # <<>>
  /\ ~FitsFrom(placing[1], cursor) /\ Releases(placing[1], cursor) # {}
  /\ cursor' = Min(Releases(placing[1], cursor))
  /\ UNCHANGED <<placing, moved>>

\* The start is found.
Found ==
  /\ placing # <<>>
  /\ FitsFrom(placing[1], cursor) \/ Releases(placing[1], cursor) = {}

\* The materialized candidate, with the links and the start of the computation.
PlacedAt(c, made, at) ==
  LET Length(x) == x.finish - x.start
  IN [candidate |-> [c EXCEPT !.start = Min({at} \cup {x.start : x \in made}),
                              !.finish = at + c.compute,
                              !.communication = MapThenSumSet(Length, made)],
      transfers |-> made, at |-> at]

Placement == PlacedAt(placing[1], moved.made, cursor)

---------------------------------------------------------------------------

\* At every moment of its computation c fits with the reservations S.
Free(S, c, start) ==
  \A u \in start .. start + c.compute - 1 :
    Fits(c.node, {Reservation(c, start)} \cup ActiveAt(S, c.node, u))

\* The search for a start never jumps over a time at which the candidate could
\* start, and where it stops the candidate fits at every moment of its
\* computation, not only at those at which the search has looked.
EarliestIsEarliest ==
  placing # <<>> =>
    LET c == placing[1]
    IN /\ \A t \in Max({moved.at, problem.free[c.node]}) .. cursor - 1 : ~Free(calendar, c, t)
       /\ FitsFrom(c, cursor) \/ Releases(c, cursor) = {} => Free(calendar, c, cursor)
=============================================================================
