----------------------------- MODULE Planning ------------------------------
(***************************************************************************)
(* A plan and its simulation: the validator that accepts a plan for a      *)
(* workflow, and the deterministic simulator that executes an accepted     *)
(* plan.  The network path that prices a transfer is in NetworkPaths.      *)
(*                                                                         *)
(* A request is submitted and then validated (Kahn's algorithm one vertex  *)
(* at a time, in any order: the queue is filled from a Go map) and         *)
(* simulated, one visit of the loop over the activities at a time.  Times  *)
(* are natural numbers.                                                    *)
(***************************************************************************)
EXTENDS Naturals, Sequences, FiniteSets, Functions

CONSTANTS
  Tasks,            \* the activities of the workflow, a sequence
  Hosts,            \* the resources that the request carries
  Schedulables,     \* the schedulable ones inside the execution scope
  Places,           \* the assignments a plan may make: host, slot and order
  Dependencies,     \* the dependencies <<activity, predecessor>> a workflow may have
  Carrying,         \* the dependencies with data, <<activity, predecessor>>
  Networks,         \* sets of links (NetworkPaths)
  Durations,        \* of each network: the seconds from one host to another that it reaches
  RuntimeOf         \* [activity -> seconds], with the assignment's overhead

VARIABLES
  request,          \* dependencies, assignments and links
  stage,            \* "waiting", "validate", "sort", "orders", "simulate", "done", "rejected", "stuck", "unreachable"
  degree, ready, visited,     \* Kahn's algorithm
  position, progress, finished \* the simulator: the loop index, progress, [activity -> times]

kahn == <<degree, ready, visited>>
simulator == <<position, progress, finished>>
planningVars == <<request, stage, kahn, simulator>>

Acts == Range(Tasks)
Lane(a) == <<request.assign[a].host, request.assign[a].slot>>
Order(a) == request.assign[a].order

ASSUME PlanningAssumption ==
  /\ Tasks \in Seq(Acts) /\ IsFiniteSet(Acts)
  /\ Schedulables \subseteq Hosts
  /\ Dependencies \subseteq Acts \X Acts
  /\ \A p \in Places : p.host \in Hosts /\ p.order \in Nat
  /\ \A n \in Networks : \A path \in DOMAIN Durations[n] : Durations[n][path] \in Nat
  /\ \A a \in Acts : RuntimeOf[a] \in Nat

----------------------------------------------------------------------------
\* Validate: the checks on the assignments, validateDAG, validateResourceOrders.

SubmitPlan(deps, assign, links) ==
  /\ stage' = "validate"
  /\ request' = [deps |-> deps, assign |-> assign, links |-> links]
  /\ UNCHANGED <<kahn, simulator>>

\* Resources outside the scope, or not schedulable, are refused; a dependency of
\* an activity on itself is refused while the degrees are counted.
ValidateAssignments ==
  /\ stage = "validate"
  /\ LET fine == /\ \A a \in Acts : request.assign[a].host \in Schedulables
                 /\ \A d \in request.deps : d[1] # d[2]
     IN stage' = IF fine THEN "sort" ELSE "rejected"
  /\ degree' = [a \in Acts |-> Cardinality({d \in request.deps : d[1] = a})]
  /\ ready' = {a \in Acts : degree'[a] = 0}
  /\ visited' = 0
  /\ UNCHANGED <<request, simulator>>

\* One vertex leaves the queue.
SortStep ==
  /\ stage = "sort"
  /\ \E a \in ready :
       /\ degree' = [b \in Acts |-> IF <<b, a>> \in request.deps THEN degree[b] - 1 ELSE degree[b]]
       /\ ready' = (ready \ {a}) \cup {b \in Acts : <<b, a>> \in request.deps /\ degree'[b] = 0}
       /\ visited' = visited + 1
  /\ UNCHANGED <<request, stage, simulator>>

\* A workflow is accepted as soon as some activity could start.
Sorted_Some == visited > 0

Sorted == visited = Cardinality(Acts)

SortEnd ==
  /\ stage = "sort"
  /\ ready = {}
  /\ stage' = IF Sorted THEN "orders" ELSE "rejected"
  /\ UNCHANGED <<request, kahn, simulator>>

\* Orders on a lane are distinct, and a direct dependency within a lane agrees
\* with them; nothing is said of two lanes that wait for each other.
Ordered ==
  /\ \A a, b \in Acts : (a # b /\ Lane(a) = Lane(b)) => Order(a) # Order(b)
  /\ \A d \in request.deps : Lane(d[1]) = Lane(d[2]) => Order(d[1]) > Order(d[2])

ValidateOrders ==
  /\ stage = "orders"
  /\ stage' = IF Ordered THEN "simulate" ELSE "rejected"
  /\ UNCHANGED <<request, kahn, simulator>>

----------------------------------------------------------------------------
\* simulate.

predecessors(a) == {d[2] : d \in {x \in request.deps : x[1] = a}}
Earlier(a) == {b \in Acts : Lane(b) = Lane(a) /\ Order(b) < Order(a)}
lanePrevious(a) == {b \in Earlier(a) : \A c \in Earlier(a) : Order(c) <= Order(b)}
Finished == DOMAIN finished

Largest(times) == CHOOSE t \in times : \A u \in times : u <= t

\* resolveTransfers: a predecessor's data crosses the network to another resource.
Route(p, a) == <<request.assign[p].host, request.assign[a].host>>
Crosses(p, a) == <<a, p>> \in Carrying /\ request.assign[p].host # request.assign[a].host
Reaches(p, a) == Crosses(p, a) => Route(p, a) \in DOMAIN Durations[request.links]
Crossing(p, a) == IF Crosses(p, a) THEN Durations[request.links][Route(p, a)] ELSE 0

Arrival(p, a) == finished[p].finish + Crossing(p, a)

\* The lane's previous activity is not waited for.
StartOf_Data(a) == Largest({0} \cup {Arrival(p, a) : p \in predecessors(a)})

StartOf(a) ==
  Largest({0} \cup {Arrival(p, a) : p \in predecessors(a)}
              \cup {finished[b].finish : b \in lanePrevious(a)})

\* An activity that cannot start yet is skipped.
Blocked(a) == a \in Finished \/ ~(predecessors(a) \cup lanePrevious(a) \subseteq Finished)

Visit ==
  /\ stage = "simulate"
  /\ position <= Len(Tasks)
  /\ LET a == Tasks[position]
     IN \/ /\ Blocked(a)
           /\ position' = position + 1
           /\ UNCHANGED <<stage, progress, finished>>
        \/ /\ ~Blocked(a)
           /\ \E p \in predecessors(a) : ~Reaches(p, a)
           /\ stage' = "unreachable"
           /\ UNCHANGED simulator
        \/ /\ ~Blocked(a)
           /\ \A p \in predecessors(a) : Reaches(p, a)
           /\ position' = position + 1
           /\ progress' = TRUE
           /\ finished' = [b \in Finished \cup {a} |->
                IF b = a THEN [start |-> StartOf(a), finish |-> StartOf(a) + RuntimeOf[a]]
                ELSE finished[b]]
           /\ UNCHANGED stage
  /\ UNCHANGED <<request, kahn>>

\* A single pass over the activities.
EndPass_Once ==
  /\ stage = "simulate"
  /\ position > Len(Tasks)
  /\ stage' = IF Finished = Acts THEN "done" ELSE "stuck"
  /\ position' = 1
  /\ progress' = FALSE
  /\ UNCHANGED <<request, kahn, finished>>

\* A pass that completes nothing ends the simulation, even the first.
EndPass ==
  /\ stage = "simulate"
  /\ position > Len(Tasks)
  /\ stage' = IF Finished = Acts THEN "done" ELSE IF progress THEN "simulate" ELSE "stuck"
  /\ position' = 1
  /\ progress' = FALSE
  /\ UNCHANGED <<request, kahn, finished>>

PlanningInit ==
  /\ request = [deps |-> {}, assign |-> <<>>, links |-> {}]
  /\ stage = "waiting"
  /\ degree = [a \in Acts |-> 0] /\ ready = {} /\ visited = 0
  /\ position = 1 /\ progress = FALSE /\ finished = <<>>

PlanningNext ==
  \/ /\ stage = "waiting"
     /\ \E deps \in SUBSET Dependencies, assign \in [Acts -> Places], links \in Networks :
          SubmitPlan(deps, assign, links)
  \/ ValidateAssignments \/ SortStep \/ SortEnd \/ ValidateOrders \/ Visit \/ EndPass

PlanningSpec == PlanningInit /\ [][PlanningNext]_planningVars

----------------------------------------------------------------------------
\* Properties.

\* Every set of activities has one that is related to none of them.
Acyclic(rel) == \A set \in SUBSET Acts : set # {} => \E a \in set : \A b \in set : <<a, b>> \notin rel

\* What an activity waits for: its predecessors and the previous one on its lane.
Waits == request.deps \cup {w \in Acts \X Acts : w[2] \in lanePrevious(w[1])}

\* validateDAG: the queue algorithm accepts exactly the workflows without a cycle.
AcceptsExactlyDAGs ==
  /\ stage \in {"orders", "simulate", "done", "stuck", "unreachable"} => Acyclic(request.deps)
  /\ (stage = "sort" /\ ready = {} /\ Acyclic(request.deps)) => visited = Cardinality(Acts)

\* simulate: an accepted plan gets stuck only when its lanes and dependencies
\* wait for each other in a circle, and never completes when they do.  The circle
\* leads over more than one lane, as validateResourceOrders refuses the others.
StuckMeansCircle ==
  /\ stage = "stuck" =>
       /\ ~Acyclic(Waits)
       /\ \A a \in Acts : Acyclic({w \in Waits : Lane(w[1]) = Lane(a) /\ Lane(w[2]) = Lane(a)})
  /\ stage = "done"  => Acyclic(Waits)

\* simulate: the schedule is the earliest there is.  No two activities of a lane
\* overlap, in the order of the plan, none starts before the outputs of its
\* predecessors have crossed the network, and each starts at zero or exactly when
\* something it waited for ended.
ScheduleIsEarliest ==
  /\ \A a, b \in Finished :
       /\ (a # b /\ Lane(a) = Lane(b) /\ Order(a) < Order(b)) => finished[a].finish <= finished[b].start
       /\ <<b, a>> \in request.deps => finished[b].start >= finished[a].finish + Crossing(a, b)
  /\ \A a \in Finished :
       \/ finished[a].start = 0
       \/ \E p \in predecessors(a) : finished[a].start = Arrival(p, a)
       \/ \E b \in lanePrevious(a) : finished[a].start = finished[b].finish

=============================================================================
