-------------------------- MODULE NetworkTopology --------------------------
(***************************************************************************)
(* NetworkTopology.estimate (src/mars/network.py): the route of one        *)
(* payload over the directed links that are up, found by a best-first      *)
(* search over a heap of labels.                                           *)
(*                                                                         *)
(* Nodes and links are numbers, ordered as the code orders their ids.  The *)
(* time a payload takes on a link is its latency plus its pace, the time   *)
(* per unit of payload that bandwidth and packet loss leave.               *)
(***************************************************************************)
EXTENDS Integers, Sequences, FiniteSets

CONSTANTS
  Nodes, Links,   \* their ids
  From, To,       \* source_node_id and target_node_id of a link
  Networks        \* the states the links and nodes can be in

ASSUME NetworkAssumption ==
  /\ Nodes \subseteq Nat /\ IsFiniteSet(Nodes) /\ Links \subseteq Nat
  /\ From \in [Links -> Nodes] /\ To \in [Links -> Nodes]
  /\ \A l, k \in Links : From[l] = From[k] /\ To[l] = To[k] => l = k
  /\ \A n \in Networks : n.up \subseteq Nodes /\ n.bandwidth \in [Links -> Nat]
                         /\ n.latency \in [Links -> Nat] /\ n.pace \in [Links -> Nat \ {0}]

VARIABLES
  net,        \* which nodes are online, and the bandwidth, latency and pace of a link
  request,    \* the payload: its source, target, size and required bandwidth
  frontier,   \* the heap: labels with the time, path and node they reach
  best,       \* the best label of every node reached so far
  route       \* the answer, once there is one

routeVars == <<request, frontier, best, route>>

\* The order of tuples of ids.
Precedes(p, q) ==
  \/ Len(p) < Len(q) /\ p = SubSeq(q, 1, Len(p))
  \/ \E i \in DOMAIN p \cap DOMAIN q :
       SubSeq(p, 1, i - 1) = SubSeq(q, 1, i - 1) /\ p[i] < q[i]

\* The order of the heap, by total_ms and then by path.
Better(a, b) ==
  a.total < b.total \/ (a.total = b.total /\ Precedes(a.path, b.path))

\* A link that an online node may use: it leads to an online node, is online
\* itself and has bandwidth left.
Alive(l) == To[l] \in net.up /\ net.bandwidth[l] > 0

\* The bottleneck of a path is wide enough if every link of it is.
Usable(l) == Alive(l) /\ net.bandwidth[l] >= request.minimum

EdgeTime(l) == net.latency[l] + request.size * net.pace[l]

\* _has_online_path: nodes reachable over links that are alive.
Reachable ==
  LET reach[k \in 0 .. Cardinality(Nodes)] ==
        IF k = 0 THEN {request.source}
        ELSE reach[k - 1] \cup {To[l] : l \in {m \in Links : Alive(m) /\ From[m] \in reach[k - 1]}}
  IN reach[Cardinality(Nodes)]

NoRoute(reason) == <<[feasible |-> FALSE, path |-> <<>>, time |-> 0, reason |-> reason]>>
Route(path, time) == <<[feasible |-> TRUE, path |-> path, time |-> time, reason |-> ""]>>

\* The cases that need no search, and the start of one.
Ask(r) ==
  /\ request' = r
  /\ LET start == [total |-> 0, path |-> <<>>, node |-> r.source]
     IN frontier' = {start} /\ best' = [n \in {r.source} |-> start]
  /\ route' = IF ~{r.source, r.target} \subseteq net.up THEN NoRoute("no_online_link_path")
              ELSE IF r.source = r.target \/ r.size = 0 THEN Route(<<>>, 0)
              ELSE <<>>

\* Bug: of two paths as fast as each other the one found first is kept.
Improves_ByTime(a) == a.node \in DOMAIN best => a.total < best[a.node].total

\* A label for a node that has none yet, or a worse one.
Improves(a) == a.node \in DOMAIN best => Better(a, best[a.node])

\* x is the label the heap gives next.
Popped(x) == x \in frontier /\ \A y \in frontier : y # x => Better(x, y)

\* One round of the loop: the label is stale, at the target, or expanded along
\* every usable link that improves on what is known of the node it leads to.
Expand ==
  /\ route = <<>>
  /\ \E x \in frontier :
     LET label(l) == [total |-> x.total + EdgeTime(l), path |-> Append(x.path, l), node |-> To[l]]
         improved == {label(l) : l \in {m \in Links : From[m] = x.node /\ Usable(m) /\ Improves(label(m))}}
     IN /\ Popped(x)
        /\ IF best[x.node] # x
           THEN frontier' = frontier \ {x} /\ UNCHANGED <<best, route>>
           ELSE IF x.node = request.target
           THEN route' = Route(x.path, x.total) /\ UNCHANGED <<frontier, best>>
           ELSE /\ frontier' = (frontier \ {x}) \cup improved
                /\ best' = [n \in DOMAIN best \cup {y.node : y \in improved} |->
                              IF \E y \in improved : y.node = n
                              THEN CHOOSE y \in improved : y.node = n ELSE best[n]]
                /\ UNCHANGED route
  /\ UNCHANGED request

\* The heap is empty: no path, or none that is wide enough.
Exhaust ==
  /\ route = <<>> /\ frontier = {}
  /\ route' = NoRoute(IF request.minimum > 0 /\ request.target \in Reachable
                      THEN "bandwidth_below_requirement" ELSE "no_online_link_path")
  /\ UNCHANGED <<request, frontier, best>>

---------------------------------------------------------------------------
(* The reference: all simple paths. *)

IsPath(p) ==
  /\ From[p[1]] = request.source /\ To[p[Len(p)]] = request.target
  /\ \A i \in 1 .. Len(p) - 1 : To[p[i]] = From[p[i + 1]]
  /\ \A i, j \in DOMAIN p : To[p[i]] = To[p[j]] => i = j
  /\ \A i \in DOMAIN p : To[p[i]] # request.source

Paths == {p \in UNION {[1 .. k -> Links] : k \in 1 .. Cardinality(Nodes) - 1} : IsPath(p)}

PathTime(p) ==
  LET upTo[i \in 0 .. Len(p)] == IF i = 0 THEN 0 ELSE upTo[i - 1] + EdgeTime(p[i])
  IN upTo[Len(p)]

\* The route is the fastest of all paths for this payload whose links are alive
\* and wide enough, and of several as fast the first in the order of link ids,
\* so it does not depend on the order in which links or nodes are listed; it is
\* missing only if there is no such path, and then the reason tells a missing
\* path from a narrow one.
RoutesAreCheapest ==
  LET searched == {request.source, request.target} \subseteq net.up
                  /\ request.source # request.target /\ request.size > 0
      open == {p \in Paths : \A i \in DOMAIN p : Usable(p[i])}
      label(p) == [total |-> PathTime(p), path |-> p]
  IN route # <<>> /\ searched =>
       IF open = {}
       THEN /\ ~route[1].feasible
            /\ route[1].reason = "bandwidth_below_requirement" <=>
                 \E p \in Paths : \A i \in DOMAIN p : Alive(p[i])
       ELSE /\ route[1].feasible /\ route[1].path \in open
            /\ route[1].time = PathTime(route[1].path)
            /\ \A p \in open : p = route[1].path \/ Better(label(route[1].path), label(p))
=============================================================================
