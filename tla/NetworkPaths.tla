--------------------------- MODULE NetworkPaths ----------------------------
(***************************************************************************)
(* provider/simgrid/simulation_executor.go, resolveNetworkPath: the path   *)
(* that a transfer takes, its seconds and its cost, found by Dijkstra's    *)
(* algorithm.  One step settles a resource, in any order among the equally *)
(* near ones (they come from a Go map), or follows one of its links.       *)
(***************************************************************************)
EXTENDS Naturals, Sequences

CONSTANTS
  Resources,   \* the ids that links name
  Topologies,  \* sets of links; a bidirectional link is two of them
  MaxHops      \* bound: links of the routes that a path is compared with

Links == [from : Resources, to : Resources, seconds : Nat, cost : Nat]

\* Latencies and prices are not negative (database/network/repository.go:139).
ASSUME NetworkAssumption ==
  /\ \A links \in Topologies : links \subseteq Links
  /\ MaxHops \in Nat

VARIABLES
  search,      \* "idle", "settle", "found", "unreachable"
  query,       \* links, source and target
  distance,    \* [resources reached so far -> seconds]
  cost,        \* [resources reached so far -> cost]
  trail,       \* history: [resources reached so far -> links that led there]
  expanded,    \* the resources whose distance is final
  pending      \* the links of the last of them that are yet to be followed

reached == <<distance, cost, trail>>
networkVars == <<search, query, reached, expanded, pending>>

FindPath(links, source, target) ==
  /\ search = "idle"
  /\ search' = "settle"
  /\ query' = [links |-> links, source |-> source, target |-> target]
  /\ distance' = [n \in {source} |-> 0]
  /\ cost' = [n \in {source} |-> 0]
  /\ trail' = [n \in {source} |-> <<>>]
  /\ UNCHANGED <<expanded, pending>>

Frontier == DOMAIN distance \ expanded

\* The first resource reached is expanded, not the nearest.
Nearest_Any == Frontier

Nearest == {n \in Frontier : \A m \in Frontier : distance[n] <= distance[m]}

Settle ==
  /\ search = "settle" /\ pending = {}
  /\ \E n \in Nearest :
       /\ n # query.target
       /\ expanded' = expanded \cup {n}
       /\ pending' = {l \in query.links : l.from = n}
  /\ UNCHANGED <<search, query, reached>>

\* Every resource that can be reached is expanded, or the target is the nearest.
EndSearch ==
  /\ search = "settle" /\ pending = {}
  /\ \/ Frontier = {} /\ search' = "unreachable"
     \/ query.target \in Nearest /\ search' = "found"
  /\ UNCHANGED <<query, reached, expanded, pending>>

Extended(f, n, x) == [m \in DOMAIN f \cup {n} |-> IF m = n THEN x ELSE f[m]]

Through(l) == distance[l.from] + l.seconds
Shortens(l) == l.to \in DOMAIN distance => Through(l) < distance[l.to]

FollowLink ==
  \E l \in pending :
    /\ pending' = pending \ {l}
    /\ \/ /\ Shortens(l)
          /\ distance' = Extended(distance, l.to, Through(l))
          /\ cost' = Extended(cost, l.to, cost[l.from] + l.cost)
          /\ trail' = Extended(trail, l.to, Append(trail[l.from], l))
       \/ ~Shortens(l) /\ UNCHANGED reached
    /\ UNCHANGED <<search, query, expanded>>

NetworkInit ==
  /\ search = "idle"
  /\ query = [links |-> {}, source |-> "", target |-> ""]
  /\ distance = <<>> /\ cost = <<>> /\ trail = <<>>
  /\ expanded = {} /\ pending = {}

NetworkNext ==
  \/ \E links \in Topologies, s, t \in Resources : FindPath(links, s, t)
  \/ Settle \/ EndSearch \/ FollowLink

NetworkSpec == NetworkInit /\ [][NetworkNext]_networkVars

----------------------------------------------------------------------------
\* Properties.

\* The sums of the first numbers of a sequence
Sums(amounts) ==
  LET sum[i \in 0..Len(amounts)] == IF i = 0 THEN 0 ELSE sum[i - 1] + amounts[i]
  IN sum
Total(amounts) == Sums(amounts)[Len(amounts)]
SecondsOf(route) == [i \in 1..Len(route) |-> route[i].seconds]
CostsOf(route) == [i \in 1..Len(route) |-> route[i].cost]

\* Where a route from a source is after some of its links
After(route, source, i) == IF i = 0 THEN source ELSE route[i].to

Leads(route, source, target) ==
  /\ \A i \in 1..Len(route) : route[i].from = After(route, source, i - 1)
  /\ After(route, source, Len(route)) = target

Routes(links) == UNION {[1..k -> links] : k \in 0..MaxHops}

\* simulation_executor.go:310-352: the seconds and the cost that are answered
\* belong to one route from the source to the target, no route takes fewer
\* seconds, and a target is unreachable only if there is none.
PathsAreShortest ==
  /\ search = "found" =>
       LET found == trail[query.target]
       IN /\ found \in Seq(query.links) /\ Leads(found, query.source, query.target)
          /\ Total(SecondsOf(found)) = distance[query.target]
          /\ Total(CostsOf(found)) = cost[query.target]
  /\ \A route \in Routes(query.links) :
       Leads(route, query.source, query.target) =>
         /\ search # "unreachable"
         /\ search = "found" => distance[query.target] <= Total(SecondsOf(route))
=============================================================================
