----------------------------- MODULE PlansProofs -----------------------------
(***************************************************************************)
(* Proofs about plans and their simulation, for every workflow, plan and   *)
(* network: the validator and the deterministic simulator (Planning), and  *)
(* the program that simulates a plan with actors (Runner).                 *)
(***************************************************************************)
EXTENDS Planning, Runner, FiniteSetTheorems, WellFoundedInduction, TLAPS

-----------------------------------------------------------------------------
(* Least and greatest numbers *)

(* The natural numbers are well-founded.                                     *)
LEMMA LeastNatural ==
    ASSUME NEW S, S \subseteq Nat, S # {}
    PROVE  \E m \in S : \A n \in S : m <= n
<1> DEFINE R == {ss \in Nat \X Nat : ss[1] < ss[2]}
<1>1. IsWellFoundedOn(R, Nat)
  BY Zenon, NatLessThanWellFounded DEF OpToRel
<1> HIDE DEF R
<1>2. PICK m \in S : \A n \in S : ~(<<n, m>> \in R)
  BY Zenon, <1>1, WFMin
<1>3. \A n \in S : <<n, m>> \in Nat \X Nat
  BY <1>2
<1>4. \A n \in S : ~(n < m)
  BY <1>2, <1>3 DEF R
<1> QED BY <1>2, <1>4

Greatest(S, m) == m \in S /\ \A n \in S : n <= m

(* A finite set of numbers has a greatest one: a smallest set without one    *)
(* would have one after all, with or without any of its elements.            *)
LEMMA GreatestNatural ==
    ASSUME NEW S, S \subseteq Nat, IsFiniteSet(S), S # {}
    PROVE  \E m : Greatest(S, m)
<1> DEFINE Bad(T) == T # {} /\ ~\E m : Greatest(T, m)
           Sizes == {Cardinality(T) : T \in {U \in SUBSET S : Bad(U)}}
<1> SUFFICES ASSUME Bad(S) PROVE FALSE
  BY Zenon
<1>1. \A T \in SUBSET S : IsFiniteSet(T) /\ Cardinality(T) \in Nat
  BY Zenon, FS_Subset, FS_CardinalityType
<1>2. Sizes \subseteq Nat /\ Sizes # {}
  <2>1. Cardinality(S) \in Sizes
    BY Zenon
  <2> QED BY Zenon, <1>1, <2>1
<1>3. PICK k \in Sizes : \A n \in Sizes : k <= n
  BY Zenon, <1>2, LeastNatural
<1>4. PICK T \in SUBSET S : Bad(T) /\ k = Cardinality(T)
  BY Zenon, <1>3
<1>5. PICK x \in T : TRUE
  BY Zenon, <1>4
<1> DEFINE U == T \ {x}
<1>6. U \in SUBSET S /\ IsFiniteSet(T) /\ x \in Nat
  BY Zenon, <1>1, <1>5
<1>7. Cardinality(U) = k - 1 /\ k \in Nat /\ Cardinality(U) \in Nat
  <2>1. Cardinality(U) = Cardinality(T) - 1
    BY Zenon, <1>5, <1>6, FS_RemoveElement
  <2> QED BY Zenon, <1>1, <1>4, <1>6, <2>1
<1>8. ~Bad(U)
  <2>1. ASSUME Bad(U) PROVE FALSE
    <3>1. Cardinality(U) \in Sizes
      BY Zenon, <1>6, <2>1
    <3>2. k <= Cardinality(U)
      BY Zenon, <1>3, <3>1
    <3> HIDE DEF U
    <3> QED BY <1>7, <3>2
  <2> QED BY Zenon, <2>1
<1>9. CASE U = {}
  <2>1. T = {x}
    BY Zenon, <1>5, <1>9
  <2>2. Greatest(T, x)
    BY <1>6, <2>1 DEF Greatest
  <2> QED BY Zenon, <1>4, <2>2
<1>10. CASE \E m : Greatest(U, m)
  <2>1. PICK m : Greatest(U, m)
    BY Zenon, <1>10
  <2>2. m \in Nat /\ U \subseteq Nat
    BY Zenon, <1>6, <2>1 DEF Greatest
  <2>3. CASE x <= m
    <3>1. Greatest(T, m)
      BY Zenon, <2>1, <2>3 DEF Greatest
    <3> QED BY Zenon, <1>4, <3>1
  <2>4. CASE ~(x <= m)
    <3>1. \A n \in U : n <= x
      BY <1>6, <2>1, <2>2, <2>4 DEF Greatest
    <3>2. x <= x
      BY <1>6
    <3>3. Greatest(T, x)
      BY Zenon, <1>5, <3>1, <3>2 DEF Greatest
    <3> QED BY Zenon, <1>4, <3>3
  <2> QED BY Zenon, <2>3, <2>4
<1> QED BY Zenon, <1>8, <1>9, <1>10

(* The values of a function on a finite set are finitely many.               *)
LEMMA ImageFinite ==
    ASSUME NEW S, IsFiniteSet(S), NEW f
    PROVE  IsFiniteSet({f[x] : x \in S})
<1> DEFINE T == {f[x] : x \in S}
           g == [x \in S |-> f[x]]
<1>1. g \in Surjection(S, T)
  BY Zenon DEF Surjection
<1> HIDE DEF g, T
<1>2. IsFiniteSet(T)
  BY Zenon, <1>1, FS_Surjection
<1> QED BY Zenon, <1>2 DEF T

-----------------------------------------------------------------------------
(* Relations without a cycle *)

\* V is closed under a relation on all, which has no cycle within it.
Grounded(all, V, rel) ==
  /\ V \in SUBSET all
  /\ \A a \in V, b \in all : <<a, b>> \in rel => b \in V
  /\ \A set \in SUBSET V : set # {} => \E a \in set : \A b \in set : <<a, b>> \notin rel

(* Nothing is a good place to start.                                         *)
LEMMA GroundedStart ==
    ASSUME NEW all, NEW rel
    PROVE  Grounded(all, {}, rel)
BY Zenon DEF Grounded

(* What waits only for members can join them.                                *)
LEMMA GroundedGrows ==
    ASSUME NEW all, NEW V, NEW rel, NEW a \in all,
           Grounded(all, V, rel), a \notin V, \A b \in all : <<a, b>> \in rel => b \in V
    PROVE  Grounded(all, V \cup {a}, rel)
<1>1. V \cup {a} \in SUBSET all
  BY Zenon DEF Grounded
<1>2. \A x \in V \cup {a}, b \in all : <<x, b>> \in rel => b \in V
  BY Zenon DEF Grounded
<1>3. ASSUME NEW set \in SUBSET (V \cup {a}), set # {}
      PROVE  \E x \in set : \A b \in set : <<x, b>> \notin rel
  <2>1. \A x \in set : <<x, a>> \notin rel
    BY Zenon, <1>2, <1>3
  <2>2. CASE set \ {a} = {}
    <3>1. a \in set /\ \A b \in set : b = a
      BY Zenon, <1>3, <2>2
    <3> QED BY Zenon, <2>1, <3>1
  <2>3. CASE set \ {a} # {}
    <3>1. set \ {a} \in SUBSET V
      BY Zenon, <1>3
    <3>2. PICK x \in set \ {a} : \A b \in set \ {a} : <<x, b>> \notin rel
      BY Zenon, <2>3, <3>1 DEF Grounded
    <3>3. \A b \in set : <<x, b>> \notin rel
      BY Zenon, <2>1, <3>2
    <3> QED BY Zenon, <3>2, <3>3
  <2> QED BY Zenon, <2>2, <2>3
<1> QED BY Zenon, <1>1, <1>2, <1>3 DEF Grounded

-----------------------------------------------------------------------------
(* validateDAG *)

(* A relation that reaches all activities this way has no cycle.             *)
LEMMA GroundedIsAcyclic ==
    ASSUME NEW rel, Grounded(Acts, Acts, rel)
    PROVE  Acyclic(rel)
BY Zenon DEF Grounded, Acyclic

\* The predecessors that still keep an activity from the queue.
Open(b, V) == {d \in request.deps : d[1] = b /\ d[2] \notin V}

\* The activities V have left the queue.
Counted(V) ==
  /\ Grounded(Acts, V, request.deps)
  /\ visited = Cardinality(V)
  /\ degree = [b \in Acts |-> Cardinality(Open(b, V))]
  /\ ready = {b \in Acts \ V : Open(b, V) = {}}

RequestOK ==
  /\ request.deps \in SUBSET Dependencies
  /\ request.assign \in [Acts -> Places]
  /\ request.links \in Networks

Accepted == {"orders", "simulate", "done", "stuck", "unreachable"}

SortInv ==
  /\ stage \in {"waiting", "validate", "sort", "rejected"} \cup Accepted
  /\ stage # "waiting" => RequestOK
  /\ stage = "sort" => \E V : Counted(V)
  /\ stage \in Accepted => Acyclic(request.deps)

(* The dependencies of a request are pairs of activities, finitely many.     *)
LEMMA DependenciesFinite ==
    ASSUME RequestOK
    PROVE  /\ request.deps \subseteq Acts \X Acts
           /\ \A b, V : IsFiniteSet(Open(b, V)) /\ Cardinality(Open(b, V)) \in Nat
<1>1. request.deps \subseteq Acts \X Acts
  BY Zenon, PlanningAssumption DEF RequestOK
<1>2. IsFiniteSet(Acts \X Acts)
  BY Zenon, PlanningAssumption, FS_Product
<1>3. \A b, V : Open(b, V) \subseteq Acts \X Acts
  BY Zenon, <1>1 DEF Open
<1> QED BY Zenon, <1>1, <1>2, <1>3, FS_Subset, FS_CardinalityType

(* The degrees are counted before any activity has left the queue.           *)
LEMMA CountStart ==
    ASSUME RequestOK, request' = request, visited' = 0,
           degree' = [a \in Acts |-> Cardinality({d \in request.deps : d[1] = a})],
           ready' = {a \in Acts : degree'[a] = 0}
    PROVE  Counted({})'
<1>1. \A b : Open(b, {})' = {d \in request.deps : d[1] = b} /\ Open(b, {}) = Open(b, {})'
  BY Zenon DEF Open
<1>2. degree' = [b \in Acts |-> Cardinality(Open(b, {})')]
  BY Zenon, <1>1
<1>3. \A b : Cardinality(Open(b, {})') = 0 <=> Open(b, {})' = {}
  BY Zenon, <1>1, DependenciesFinite, FS_EmptySet
<1>4. ready' = {b \in Acts \ {} : Open(b, {})' = {}}
  <2>1. \A b \in Acts : b \in ready' <=> Open(b, {})' = {}
    BY Zenon, <1>2, <1>3
  <2> QED BY Zenon, <2>1
<1>5. visited' = Cardinality({})
  BY Zenon, FS_EmptySet
<1>6. Grounded(Acts, {}, request.deps)'
  BY Zenon, GroundedStart
<1> QED BY Zenon, <1>2, <1>4, <1>5, <1>6 DEF Counted

(* When a vertex leaves the queue, the degrees count what is still open.     *)
LEMMA CountStep ==
    ASSUME RequestOK, NEW V, Counted(V), NEW a \in ready, request' = request,
           degree' = [b \in Acts |-> IF <<b, a>> \in request.deps THEN degree[b] - 1 ELSE degree[b]],
           ready' = (ready \ {a}) \cup {b \in Acts : <<b, a>> \in request.deps /\ degree'[b] = 0},
           visited' = visited + 1
    PROVE  Counted(V \cup {a})'
<1> DEFINE W == V \cup {a}
<1>1. a \in Acts /\ a \notin V /\ Open(a, V) = {} /\ V \in SUBSET Acts
  BY Zenon DEF Counted, Grounded
<1>2. \A b : Open(b, W)' = Open(b, W)
  BY Zenon DEF Open
<1>3. \A b \in Acts : <<b, a>> \in request.deps <=> <<b, a>> \in Open(b, V)
  BY <1>1 DEF Open
<1>4. \A b \in Acts : Open(b, W) = Open(b, V) \ {<<b, a>>}
  <2> TAKE b \in Acts
  <2>1. \A d \in request.deps : d \in Acts \X Acts
    BY Zenon, DependenciesFinite
  <2> QED BY <2>1 DEF Open
<1>5. \A b \in Acts : degree'[b] = Cardinality(Open(b, W))
  <2> TAKE b \in Acts
  <2>1. degree[b] = Cardinality(Open(b, V)) /\ degree'[b] = IF <<b, a>> \in request.deps THEN degree[b] - 1 ELSE degree[b]
    BY Zenon DEF Counted
  <2>2. CASE <<b, a>> \in request.deps
    <3>1. Cardinality(Open(b, V) \ {<<b, a>>}) = Cardinality(Open(b, V)) - 1
      BY Zenon, <1>3, <2>2, DependenciesFinite, FS_RemoveElement
    <3> QED BY Zenon, <1>4, <2>1, <2>2, <3>1
  <2>3. CASE <<b, a>> \notin request.deps
    <3>1. Open(b, V) \ {<<b, a>>} = Open(b, V)
      BY Zenon, <1>3, <2>3
    <3> QED BY Zenon, <1>4, <2>1, <2>3, <3>1
  <2> QED BY Zenon, <2>2, <2>3
<1>6. degree' = [b \in Acts |-> Cardinality(Open(b, W)')]
  BY Zenon, <1>2, <1>5
<1>7. \A b \in Acts : degree'[b] = 0 <=> Open(b, W) = {}
  BY Zenon, <1>5, DependenciesFinite, FS_EmptySet
<1>8. Grounded(Acts, W, request.deps)
  <2>1. \A b \in Acts : <<a, b>> \in request.deps => b \in V
    BY <1>1 DEF Open
  <2> HIDE DEF W
  <2>2. Grounded(Acts, V, request.deps)
    BY Zenon DEF Counted
  <2> QED BY Zenon, <1>1, <2>1, <2>2, GroundedGrows DEF W
<1>9. \A b \in Acts : b \in ready' <=> (b \notin W /\ Open(b, W) = {})
  <2> TAKE b \in Acts
  <2>1. b \in ready <=> b \notin V /\ Open(b, V) = {}
    BY Zenon DEF Counted
  <2>2. ASSUME b \in ready' PROVE b \notin W /\ Open(b, W) = {}
    <3>1. CASE b \in ready \ {a}
      BY Zenon, <1>4, <2>1, <3>1
    <3>2. CASE <<b, a>> \in request.deps /\ degree'[b] = 0
      <4>1. Open(b, W) = {}
        BY Zenon, <1>7, <3>2
      <4>2. b \notin V
        BY Zenon, <1>1, <3>2 DEF Counted, Grounded
      <4>3. b # a
        BY Zenon, <1>1, <1>3, <3>2
      <4> QED BY Zenon, <4>1, <4>2, <4>3
    <3> QED BY Zenon, <2>2, <3>1, <3>2
  <2>3. ASSUME b \notin W, Open(b, W) = {} PROVE b \in ready'
    <3>1. CASE Open(b, V) = {}
      BY Zenon, <2>1, <2>3, <3>1
    <3>2. CASE Open(b, V) # {}
      <4>1. <<b, a>> \in request.deps
        BY Zenon, <1>3, <1>4, <2>3, <3>2
      <4> QED BY Zenon, <1>7, <2>3, <4>1
    <3> QED BY Zenon, <3>1, <3>2
  <2> QED BY Zenon, <2>2, <2>3
<1>10. ready' = {b \in Acts \ W : Open(b, W)' = {}}
  <2>1. ready' \subseteq Acts
    BY Zenon DEF Counted
  <2> HIDE DEF W
  <2> QED BY Zenon, <1>2, <1>9, <2>1
<1>11. visited' = Cardinality(W)
  <2>1. Cardinality(V \cup {a}) = Cardinality(V) + 1
    BY Zenon, <1>1, PlanningAssumption, FS_Subset, FS_AddElement
  <2> QED BY Zenon, <2>1 DEF Counted
<1> HIDE DEF W
<1>12. Grounded(Acts, W, request.deps)'
  BY Zenon, <1>8 DEF Grounded
<1>13. Counted(W)'
  BY Zenon, <1>6, <1>10, <1>11, <1>12 DEF Counted
<1> QED BY Zenon, <1>13 DEF W

(* When the queue is empty, all activities have left it or some of the       *)
(* others wait for each other in a circle.                                   *)
LEMMA CountEnd ==
    ASSUME RequestOK, NEW V, Counted(V), ready = {}
    PROVE  Acyclic(request.deps) <=> visited = Cardinality(Acts)
<1>1. V \in SUBSET Acts /\ visited = Cardinality(V) /\ IsFiniteSet(Acts)
  BY Zenon, PlanningAssumption DEF Counted, Grounded
<1>2. ASSUME visited = Cardinality(Acts) PROVE Acyclic(request.deps)
  <2>1. V = Acts
    BY Zenon, <1>1, <1>2, FS_Subset
  <2> QED BY Zenon, <2>1, GroundedIsAcyclic DEF Counted
<1>3. ASSUME Acyclic(request.deps), V # Acts PROVE FALSE
  <2>1. Acts \ V \in SUBSET Acts /\ Acts \ V # {}
    BY Zenon, <1>1, <1>3
  <2>2. PICK a \in Acts \ V : \A b \in Acts \ V : <<a, b>> \notin request.deps
    BY Zenon, <1>3, <2>1 DEF Acyclic
  <2>3. PICK d \in Open(a, V) : TRUE
    BY Zenon, <2>2 DEF Counted
  <2>4. d \in request.deps /\ d[1] = a /\ d[2] \notin V /\ d \in Acts \X Acts
    BY Zenon, <2>3, DependenciesFinite DEF Open
  <2>5. d = <<a, d[2]>> /\ d[2] \in Acts
    BY <2>4
  <2> QED BY Zenon, <2>2, <2>4, <2>5
<1> QED BY Zenon, <1>1, <1>2, <1>3

(* validateDAG's invariant holds before a plan is submitted ...              *)
LEMMA SortInvInit ==
    ASSUME PlanningInit
    PROVE  SortInv
BY Zenon DEF PlanningInit, SortInv, Accepted

(* ... and every step keeps it.                                              *)
LEMMA SortInvNext ==
    ASSUME SortInv, [PlanningNext]_planningVars
    PROVE  SortInv'
<1> DEFINE Stages == {"waiting", "validate", "sort", "rejected"} \cup Accepted
<1> USE DEF Accepted
<1>1. ASSUME NEW deps \in SUBSET Dependencies, NEW assign \in [Acts -> Places], NEW links \in Networks,
             SubmitPlan(deps, assign, links)
      PROVE  SortInv'
  <2>1. stage' = "validate" /\ RequestOK'
    BY <1>1 DEF SubmitPlan, RequestOK
  <2> QED BY Zenon, <2>1 DEF SortInv
<1>2. ASSUME request' = request
      PROVE  (RequestOK => RequestOK') /\ (Acyclic(request.deps) => Acyclic(request.deps)')
  BY Zenon, <1>2 DEF RequestOK, Acyclic
<1>3. CASE ValidateAssignments
  <2>1. RequestOK /\ request' = request /\ stage' \in {"sort", "rejected"}
    BY Zenon, <1>3 DEF ValidateAssignments, SortInv
  <2>2. Counted({})'
    BY Zenon, <1>3, <2>1, CountStart DEF ValidateAssignments
  <2> QED BY Zenon, <1>2, <2>1, <2>2 DEF SortInv
<1>4. CASE SortStep
  <2>1. RequestOK /\ request' = request /\ stage' = "sort"
    BY Zenon, <1>4 DEF SortStep, SortInv
  <2>2. PICK V : Counted(V)
    BY Zenon, <1>4 DEF SortStep, SortInv
  <2>3. \E a \in ready : Counted(V \cup {a})'
    BY Zenon, <1>4, <2>1, <2>2, CountStep DEF SortStep
  <2> QED BY Zenon, <1>2, <2>1, <2>3 DEF SortInv
<1>5. CASE SortEnd
  <2>1. RequestOK /\ request' = request /\ ready = {} /\ stage' \in {"orders", "rejected"}
    BY Zenon, <1>5 DEF SortEnd, SortInv
  <2>2. PICK V : Counted(V)
    BY Zenon, <1>5 DEF SortEnd, SortInv
  <2>3. stage' = "orders" => visited = Cardinality(Acts)
    BY Zenon, <1>5 DEF SortEnd, Sorted
  <2>4. stage' = "orders" => Acyclic(request.deps)
    BY Zenon, <2>1, <2>2, <2>3, CountEnd
  <2> QED BY Zenon, <1>2, <2>1, <2>4 DEF SortInv
<1>6. ASSUME request' = request, stage \in Accepted, stage' \in Accepted \cup {"rejected"}
      PROVE  SortInv'
  BY Zenon, <1>2, <1>6 DEF SortInv
<1>7. CASE ValidateOrders
  BY Zenon, <1>6, <1>7 DEF ValidateOrders
<1>8. CASE Visit
  BY Zenon, <1>6, <1>8 DEF Visit
<1>9. CASE EndPass
  BY Zenon, <1>6, <1>9 DEF EndPass
<1>10. CASE UNCHANGED planningVars
  <2>1. request' = request /\ stage' = stage /\ UNCHANGED kahn
    BY Zenon, <1>10 DEF planningVars
  <2>2. \A V : Counted(V) => Counted(V)'
    BY Zenon, <2>1 DEF Counted, kahn, Open, Grounded
  <2> QED BY Zenon, <1>2, <2>1, <2>2 DEF SortInv
<1> QED BY Zenon, <1>1, <1>3, <1>4, <1>5, <1>7, <1>8, <1>9, <1>10 DEF PlanningNext

(* The invariant says what validateDAG promises.                             *)
LEMMA SortInvAccepts ==
    ASSUME SortInv
    PROVE  AcceptsExactlyDAGs
<1>1. ASSUME stage = "sort", ready = {}, Acyclic(request.deps) PROVE visited = Cardinality(Acts)
  <2>1. RequestOK /\ \E V : Counted(V)
    BY Zenon, <1>1 DEF SortInv
  <2> QED BY Zenon, <1>1, <2>1, CountEnd
<1> QED BY Zenon, <1>1 DEF SortInv, Accepted, AcceptsExactlyDAGs

(* validator.go, validateDAG: for every workflow, the queue algorithm        *)
(* accepts it exactly when its dependencies have no cycle, whatever the      *)
(* order in which the queue is filled.                                       *)
THEOREM ValidatorAcceptsDAGs == PlanningSpec => []AcceptsExactlyDAGs
<1>1. PlanningInit => SortInv
  BY Zenon, SortInvInit
<1>2. SortInv /\ [PlanningNext]_planningVars => SortInv'
  BY Zenon, SortInvNext
<1>3. SortInv => AcceptsExactlyDAGs
  BY Zenon, SortInvAccepts
<1> QED BY <1>1, <1>2, <1>3, PTL DEF PlanningSpec

-----------------------------------------------------------------------------
(* simulate *)

Simulated == {"simulate", "done", "stuck", "unreachable"}

\* Each activity of a lane that has finished came after all earlier ones.
Timed ==
  /\ \A a \in Finished : /\ finished[a].start \in Nat /\ finished[a].finish \in Nat
                          /\ finished[a].start <= finished[a].finish
  /\ \A a \in Finished : Earlier(a) \subseteq Finished

\* What the simulator has completed is a schedule.
Schedule == Grounded(Acts, Finished, Waits) /\ Timed /\ ScheduleIsEarliest

\* A pass without progress so far has skipped everything it visited.
SimInv ==
  /\ stage \notin Simulated => position = 1 /\ progress = FALSE /\ finished = <<>>
  /\ stage \in Simulated => Ordered
  /\ position \in Nat \ {0} /\ progress \in BOOLEAN
  /\ (stage = "simulate" /\ progress = FALSE) => \A i \in 1..Len(Tasks) : i < position => Blocked(Tasks[i])
  /\ stage = "stuck" => Finished # Acts /\ \A a \in Acts : Blocked(a)
  /\ stage = "done" => Finished = Acts
  /\ Schedule

(* Nothing that a request determines changes while it is simulated.          *)
LEMMA RequestStays ==
    ASSUME request' = request
    PROVE  /\ Waits' = Waits /\ Ordered' = Ordered
           /\ \A a : /\ Lane(a)' = Lane(a) /\ Order(a)' = Order(a) /\ predecessors(a)' = predecessors(a)
                    /\ Earlier(a)' = Earlier(a) /\ lanePrevious(a)' = lanePrevious(a)
           /\ \A p, a : Crossing(p, a)' = Crossing(p, a)
BY Zenon DEF Waits, Ordered, Lane, Order, predecessors, Earlier, lanePrevious, Crossing, Crosses, Route

(* What a request says of an activity.                                       *)
LEMMA RequestTypes ==
    ASSUME RequestOK
    PROVE  /\ \A a \in Acts : Order(a) \in Nat
           /\ \A a, b : b \in predecessors(a) <=> <<a, b>> \in request.deps
           /\ \A a : predecessors(a) \subseteq Acts /\ IsFiniteSet(predecessors(a))
           /\ \A a : lanePrevious(a) \subseteq Earlier(a) /\ Earlier(a) \subseteq Acts
           /\ \A a : IsFiniteSet(Earlier(a)) /\ IsFiniteSet(lanePrevious(a))
           /\ \A a \in Acts, b \in Acts : <<a, b>> \in Waits <=> b \in predecessors(a) \cup lanePrevious(a)
<1>1. \A a \in Acts : Order(a) \in Nat
  BY Zenon, PlanningAssumption DEF RequestOK, Order
<1>2. \A a, b : b \in predecessors(a) <=> <<a, b>> \in request.deps
  <2> TAKE a, b
  <2>1. ASSUME b \in predecessors(a) PROVE <<a, b>> \in request.deps
    <3>1. PICK d \in request.deps : d[1] = a /\ d[2] = b
      BY Zenon, <2>1 DEF predecessors
    <3>2. d \in Acts \X Acts
      BY Zenon, DependenciesFinite
    <3> QED BY <3>1, <3>2
  <2>2. ASSUME <<a, b>> \in request.deps PROVE b \in predecessors(a)
    BY <2>2 DEF predecessors
  <2> QED BY Zenon, <2>1, <2>2
<1>3. \A a : predecessors(a) \subseteq Acts
  <2> SUFFICES ASSUME NEW a, NEW b \in predecessors(a) PROVE b \in Acts
    BY Zenon
  <2>1. <<a, b>> \in Acts \X Acts
    BY Zenon, <1>2, DependenciesFinite
  <2> QED BY <2>1
<1>4. \A a : lanePrevious(a) \subseteq Earlier(a) /\ Earlier(a) \subseteq Acts
  BY Zenon DEF lanePrevious, Earlier
<1>5. \A a : lanePrevious(a) \subseteq Acts
  BY Zenon, <1>4
<1>6. \A S : S \subseteq Acts => IsFiniteSet(S)
  BY Zenon, PlanningAssumption, FS_Subset
<1>7. \A a \in Acts, b \in Acts : <<a, b>> \in Waits <=> b \in predecessors(a) \cup lanePrevious(a)
  <2> TAKE a \in Acts, b \in Acts
  <2>1. <<a, b>> \in Waits <=> <<a, b>> \in request.deps \/ b \in lanePrevious(a)
    BY DEF Waits
  <2> QED BY Zenon, <1>2, <2>1
<1> QED BY Zenon, <1>1, <1>2, <1>3, <1>4, <1>5, <1>6, <1>7

(* An activity's lane has a last earlier one, and all the others precede it. *)
LEMMA LaneHasPrevious ==
    ASSUME RequestOK, Ordered, NEW a \in Acts, NEW c \in Earlier(a)
    PROVE  \E b \in lanePrevious(a) : b = c \/ c \in Earlier(b)
<1> DEFINE S == {Order(x) : x \in Earlier(a)}
<1>1. S \subseteq Nat /\ IsFiniteSet(S) /\ S # {}
  <2> DEFINE f == [x \in Earlier(a) |-> Order(x)]
  <2>1. IsFiniteSet({f[x] : x \in Earlier(a)})
    BY Zenon, RequestTypes, ImageFinite
  <2>2. S = {f[x] : x \in Earlier(a)}
    BY Zenon
  <2>3. S \subseteq Nat /\ S # {}
    BY Zenon, RequestTypes
  <2> QED BY Zenon, <2>1, <2>2, <2>3
<1>2. PICK m : Greatest(S, m)
  BY Zenon, <1>1, GreatestNatural
<1>3. PICK b \in Earlier(a) : m = Order(b)
  BY Zenon, <1>2 DEF Greatest
<1>4. \A x \in Earlier(a) : Order(x) <= Order(b)
  BY Zenon, <1>2, <1>3 DEF Greatest
<1>5. b \in lanePrevious(a)
  BY Zenon, <1>3, <1>4 DEF lanePrevious
<1>6. ASSUME b # c PROVE c \in Earlier(b)
  <2>1. b \in Acts /\ c \in Acts /\ Lane(b) = Lane(c)
    BY Zenon, <1>3 DEF Earlier
  <2>2. Order(b) # Order(c)
    BY Zenon, <1>6, <2>1 DEF Ordered
  <2>3. Order(b) \in Nat /\ Order(c) \in Nat /\ Order(c) <= Order(b)
    BY Zenon, <1>4, <2>1, RequestTypes
  <2>4. Order(c) < Order(b)
    BY <2>2, <2>3
  <2> QED BY Zenon, <2>1, <2>4 DEF Earlier
<1> QED BY Zenon, <1>5, <1>6

(* Largest is the greatest of finitely many times.                           *)
LEMMA LargestIsGreatest ==
    ASSUME NEW S, S \subseteq Nat, IsFiniteSet(S), S # {}
    PROVE  Greatest(S, Largest(S))
<1>1. PICK m : Greatest(S, m)
  BY Zenon, GreatestNatural
<1> QED BY Zenon, <1>1 DEF Greatest, Largest

Starts(a, start) ==
  /\ start \in Nat
  /\ \A p \in predecessors(a) : Arrival(p, a) <= start
  /\ \A b \in lanePrevious(a) : finished[b].finish <= start
  /\ \/ start = 0
     \/ \E p \in predecessors(a) : start = Arrival(p, a)
     \/ \E b \in lanePrevious(a) : start = finished[b].finish

(* An activity starts when the last of what it waits for has ended.          *)
LEMMA StartIsLatest ==
    ASSUME RequestOK, Timed, NEW a \in Acts,
           predecessors(a) \cup lanePrevious(a) \subseteq Finished,
           \A p \in predecessors(a) : Reaches(p, a)
    PROVE  Starts(a, StartOf(a))
<1> DEFINE A == {Arrival(p, a) : p \in predecessors(a)}
           B == {finished[b].finish : b \in lanePrevious(a)}
           S == {0} \cup A \cup B
<1>1. \A p \in predecessors(a) : Crossing(p, a) \in Nat
  BY Zenon, PlanningAssumption DEF RequestOK, Crossing, Reaches
<1>2. \A x \in Finished : finished[x].finish \in Nat
  BY Zenon DEF Timed
<1>3. \A p \in predecessors(a) : Arrival(p, a) \in Nat
  BY <1>1, <1>2 DEF Arrival
<1>4. IsFiniteSet(A) /\ IsFiniteSet(B) /\ IsFiniteSet({0})
  <2> DEFINE f == [p \in predecessors(a) |-> Arrival(p, a)]
             g == [b \in lanePrevious(a) |-> finished[b].finish]
  <2>1. IsFiniteSet({f[p] : p \in predecessors(a)}) /\ IsFiniteSet({g[b] : b \in lanePrevious(a)})
    BY Zenon, RequestTypes, ImageFinite
  <2>2. A = {f[p] : p \in predecessors(a)} /\ B = {g[b] : b \in lanePrevious(a)}
    BY Zenon
  <2> QED BY Zenon, <2>1, <2>2, FS_Singleton
<1>5. IsFiniteSet(S)
  BY Zenon, <1>4, FS_Union
<1>6. S \subseteq Nat /\ S # {}
  <2>1. 0 \in Nat
    OBVIOUS
  <2> QED BY Zenon, <1>2, <1>3, <2>1
<1>7. StartOf(a) = Largest(S)
  BY Zenon DEF StartOf
<1> HIDE DEF A, B, S
<1>8. Greatest(S, StartOf(a))
  BY Zenon, <1>5, <1>6, <1>7, LargestIsGreatest
<1> QED BY Zenon, <1>6, <1>8 DEF Greatest, Starts, A, B, S

(* Completing an activity extends the schedule.                              *)
LEMMA FinishStep ==
    ASSUME RequestOK, Ordered, Schedule, NEW a \in Acts, a \notin Finished,
           predecessors(a) \cup lanePrevious(a) \subseteq Finished,
           \A p \in predecessors(a) : Reaches(p, a),
           request' = request,
           finished' = [b \in Finished \cup {a} |->
             IF b = a THEN [start |-> StartOf(a), finish |-> StartOf(a) + RuntimeOf[a]] ELSE finished[b]]
    PROVE  Schedule'
<1> DEFINE s == StartOf(a)
<1>1. Starts(a, s) /\ RuntimeOf[a] \in Nat
  BY Zenon, StartIsLatest, PlanningAssumption DEF Schedule
<1> HIDE DEF s
<1>2. Finished' = Finished \cup {a} /\ \A b \in Finished : finished'[b] = finished[b]
  BY Zenon DEF Finished
<1>3. finished'[a].start = s /\ finished'[a].finish = s + RuntimeOf[a]
  BY DEF s
<1>4. \A x : /\ Lane(x)' = Lane(x) /\ Order(x)' = Order(x) /\ predecessors(x)' = predecessors(x)
             /\ Earlier(x)' = Earlier(x) /\ lanePrevious(x)' = lanePrevious(x)
  BY Zenon, RequestStays
<1>5. Waits' = Waits /\ \A x, y : Crossing(x, y)' = Crossing(x, y)
  BY Zenon, RequestStays
<1>6. \A x \in Finished : \A y : Arrival(x, y)' = Arrival(x, y)
  BY Zenon, <1>2, <1>5 DEF Arrival
<1>7. Grounded(Acts, Finished, Waits)'
  <2>1. \A b \in Acts : <<a, b>> \in Waits => b \in Finished
    BY Zenon, RequestTypes
  <2>2. Grounded(Acts, Finished \cup {a}, Waits)
    BY Zenon, <2>1, GroundedGrows DEF Schedule
  <2>3. Grounded(Acts, Finished', Waits')
    BY Zenon, <1>2, <1>5, <2>2
  <2> QED BY Zenon, <2>3 DEF Grounded
<1>8. Finished \subseteq Acts /\ \A x \in Finished, y \in Acts : <<x, y>> \in Waits => y \in Finished
  BY Zenon DEF Schedule, Grounded
<1>9. \A c \in Earlier(a) : c \in Finished /\ finished[c].finish <= s
  <2> TAKE c \in Earlier(a)
  <2>1. PICK b \in lanePrevious(a) : b = c \/ c \in Earlier(b)
    BY Zenon, LaneHasPrevious
  <2>2. b \in Finished /\ finished[b].finish <= s
    BY Zenon, <1>1, <2>1 DEF Starts
  <2>3. CASE c \in Earlier(b)
    <3>1. c \in Finished
      BY Zenon, <2>2, <2>3 DEF Schedule, Timed
    <3>2. Lane(c) = Lane(b) /\ Order(c) < Order(b) /\ b \in Acts /\ c \in Acts
      BY Zenon, <1>8, <2>2, <2>3 DEF Earlier
    <3>3. Order(c) \in Nat
      BY Zenon, <3>2, RequestTypes
    <3>4. c # b
      BY <3>2, <3>3
    <3>5. finished[c].finish <= finished[b].start
      BY Zenon, <2>2, <3>1, <3>2, <3>4 DEF Schedule, ScheduleIsEarliest
    <3>6. /\ finished[c].finish \in Nat /\ finished[b].start \in Nat /\ finished[b].finish \in Nat
          /\ finished[b].start <= finished[b].finish /\ s \in Nat
      BY Zenon, <1>1, <2>2, <3>1 DEF Schedule, Timed, Starts
    <3> HIDE DEF Finished
    <3>7. finished[c].finish <= s
      BY <2>2, <3>5, <3>6
    <3> QED BY Zenon, <3>1, <3>7
  <2> QED BY Zenon, <2>1, <2>2, <2>3
<1>10. Timed'
  <2>1. ASSUME NEW x \in Finished'
        PROVE  /\ finished'[x].start \in Nat /\ finished'[x].finish \in Nat
               /\ finished'[x].start <= finished'[x].finish
    <3>1. CASE x = a
      <4>1. s \in Nat
        BY Zenon, <1>1 DEF Starts
      <4> QED BY <1>1, <1>3, <3>1, <4>1
    <3>2. CASE x \in Finished
      BY Zenon, <1>2, <3>2 DEF Schedule, Timed
    <3> QED BY Zenon, <1>2, <2>1, <3>1, <3>2
  <2>2. ASSUME NEW x \in Finished' PROVE Earlier(x)' \subseteq Finished'
    <3>1. CASE x = a
      BY Zenon, <1>2, <1>4, <1>9, <3>1
    <3>2. CASE x \in Finished
      BY Zenon, <1>2, <1>4, <3>2 DEF Schedule, Timed
    <3> QED BY Zenon, <1>2, <2>2, <3>1, <3>2
  <2> QED BY Zenon, <2>1, <2>2 DEF Timed
<1>11. ASSUME NEW x \in Finished', NEW y \in Finished', x # y, Lane(x) = Lane(y), Order(x) < Order(y)
       PROVE  finished'[x].finish <= finished'[y].start
  <2>1. x \in Acts /\ y \in Acts
    BY Zenon, <1>2, <1>8, <1>11
  <2>2. x \in Earlier(y)
    BY Zenon, <1>11, <2>1 DEF Earlier
  <2>3. CASE y = a
    BY Zenon, <1>2, <1>3, <1>9, <2>2, <2>3
  <2>4. CASE y \in Finished
    <3>1. x \in Finished
      BY Zenon, <2>2, <2>4 DEF Schedule, Timed
    <3> QED BY Zenon, <1>2, <1>11, <2>4, <3>1 DEF Schedule, ScheduleIsEarliest
  <2> QED BY Zenon, <1>2, <1>11, <2>3, <2>4
<1>12. ASSUME NEW x \in Finished', NEW y \in Finished', <<y, x>> \in request.deps
       PROVE  finished'[y].start >= finished'[x].finish + Crossing(x, y)
  <2>1. x \in Acts /\ y \in Acts /\ x \in predecessors(y) /\ <<y, x>> \in Waits
    BY Zenon, <1>2, <1>8, <1>12, RequestTypes
  <2>2. CASE y = a
    <3>1. x \in Finished
      BY Zenon, <2>1, <2>2
    <3>2. Arrival(x, a) <= s
      BY Zenon, <1>1, <2>1, <2>2 DEF Starts
    <3>3. finished[x].finish + Crossing(x, y) <= s
      BY Zenon, <2>2, <3>2 DEF Arrival
    <3>4. s >= finished[x].finish + Crossing(x, y)
      BY <3>3
    <3> QED BY Zenon, <1>2, <1>3, <2>2, <3>1, <3>4
  <2>3. CASE y \in Finished
    <3>1. x \in Finished
      BY Zenon, <1>8, <2>1, <2>3
    <3> QED BY Zenon, <1>2, <1>12, <2>3, <3>1 DEF Schedule, ScheduleIsEarliest
  <2> QED BY Zenon, <1>2, <1>12, <2>2, <2>3
<1>13. ASSUME NEW x \in Finished'
       PROVE  \/ finished'[x].start = 0
              \/ \E p \in predecessors(x) : finished'[x].start = Arrival(p, x)'
              \/ \E b \in lanePrevious(x) : finished'[x].start = finished'[b].finish
  <2>1. x \in Acts
    BY Zenon, <1>2, <1>8, <1>13
  <2>2. predecessors(x) \subseteq Finished /\ lanePrevious(x) \subseteq Finished
    <3>1. CASE x = a
      BY Zenon, <3>1
    <3>2. CASE x \in Finished
      BY Zenon, <1>8, <2>1, <3>2, RequestTypes
    <3> QED BY Zenon, <1>2, <1>13, <3>1, <3>2
  <2>3. CASE x = a
    BY Zenon, <1>1, <1>2, <1>3, <1>6, <2>2, <2>3 DEF Starts
  <2>4. CASE x \in Finished
    BY Zenon, <1>2, <1>6, <2>2, <2>4 DEF Schedule, ScheduleIsEarliest
  <2> QED BY Zenon, <1>2, <1>13, <2>3, <2>4
<1>14. ScheduleIsEarliest'
  BY Zenon, <1>4, <1>5, <1>11, <1>12, <1>13 DEF ScheduleIsEarliest
<1> QED BY Zenon, <1>7, <1>10, <1>14 DEF Schedule

(* Before anything has completed there is nothing to say.                    *)
LEMMA EmptySchedule ==
    /\ finished = <<>> => Schedule
    /\ finished' = <<>> => Schedule'
<1>1. DOMAIN <<>> = {}
  OBVIOUS
<1>2. finished = <<>> => Schedule
  BY Zenon, <1>1 DEF Schedule, Grounded, Timed, ScheduleIsEarliest, Finished
<1>3. finished' = <<>> => Schedule'
  BY Zenon, <1>1 DEF Schedule, Grounded, Timed, ScheduleIsEarliest, Finished
<1> QED BY Zenon, <1>2, <1>3

(* What has completed stays a schedule when nothing completes.               *)
LEMMA ScheduleStays ==
    ASSUME request' = request, finished' = finished
    PROVE  Schedule' = Schedule /\ Finished' = Finished /\ \A a : Blocked(a)' = Blocked(a)
<1>1. Finished' = Finished
  BY Zenon DEF Finished
<1>2. /\ Waits' = Waits
      /\ \A a : /\ Lane(a)' = Lane(a) /\ Order(a)' = Order(a) /\ predecessors(a)' = predecessors(a)
               /\ Earlier(a)' = Earlier(a) /\ lanePrevious(a)' = lanePrevious(a)
      /\ \A p, a : Crossing(p, a)' = Crossing(p, a)
  BY Zenon, RequestStays
<1>3. \A a : Blocked(a)' = Blocked(a)
  BY Zenon, <1>1, <1>2 DEF Blocked
<1>4. Grounded(Acts, Finished, Waits)' = Grounded(Acts, Finished, Waits)
  BY Zenon, <1>1, <1>2 DEF Grounded
<1>5. Timed' = Timed
  BY Zenon, <1>1, <1>2 DEF Timed
<1>6. ScheduleIsEarliest' = ScheduleIsEarliest
  BY Zenon, <1>1, <1>2 DEF ScheduleIsEarliest, Arrival
<1> QED BY Zenon, <1>1, <1>3, <1>4, <1>5, <1>6 DEF Schedule

(* The activities are those of the workflow's list.                          *)
LEMMA TasksIndexed == Len(Tasks) \in Nat /\ DOMAIN Tasks = 1..Len(Tasks)
BY PlanningAssumption

(* The simulator's invariant holds before a plan is submitted ...            *)
LEMMA SimInvInit ==
    ASSUME PlanningInit
    PROVE  SimInv
<1>1. position \in Nat \ {0}
  BY DEF PlanningInit
<1> QED BY Zenon, <1>1, EmptySchedule DEF PlanningInit, SimInv, Simulated

(* ... each visit of an activity keeps it ...                                *)
LEMMA SimInvVisit ==
    ASSUME RequestOK, SimInv, Visit
    PROVE  SimInv'
<1> DEFINE a == Tasks[position]
<1>1. /\ stage = "simulate" /\ position <= Len(Tasks) /\ request' = request
      /\ position \in Nat \ {0} /\ Ordered /\ Schedule /\ Len(Tasks) \in Nat
  BY Zenon, TasksIndexed DEF Visit, SimInv, Simulated
<1>2. position \in 1..Len(Tasks) /\ position + 1 \in Nat \ {0}
  BY <1>1
<1>3. a \in Acts
  BY Zenon, <1>2, TasksIndexed DEF Acts, Range
<1>4. Ordered'
  BY Zenon, <1>1, RequestStays
<1>5. CASE Blocked(a) /\ position' = position + 1 /\ UNCHANGED <<stage, progress, finished>>
  <2>1. Schedule' /\ \A x : Blocked(x)' = Blocked(x)
    BY Zenon, <1>1, <1>5, ScheduleStays
  <2>2. ASSUME progress' = FALSE, NEW i \in 1..Len(Tasks), i < position' PROVE Blocked(Tasks[i])'
    <3>1. i < position \/ i = position
      BY <1>1, <1>5, <2>2
    <3>2. i < position => Blocked(Tasks[i])
      BY Zenon, <1>1, <1>5, <2>2 DEF SimInv
    <3> QED BY Zenon, <1>5, <2>1, <3>1, <3>2
  <2>3. stage' = "simulate" /\ position' \in Nat \ {0} /\ progress' \in BOOLEAN
    BY Zenon, <1>1, <1>2, <1>5 DEF SimInv
  <2> QED BY Zenon, <1>4, <2>1, <2>2, <2>3 DEF SimInv, Simulated
<1>6. CASE stage' = "unreachable" /\ UNCHANGED simulator
  <2>1. position' = position /\ progress' = progress /\ finished' = finished
    BY Zenon, <1>6 DEF simulator
  <2>2. Schedule'
    BY Zenon, <1>1, <2>1, ScheduleStays
  <2> QED BY Zenon, <1>4, <1>6, <2>1, <2>2 DEF SimInv, Simulated
<1>7. CASE /\ ~Blocked(a)
           /\ \A p \in predecessors(a) : Reaches(p, a)
           /\ position' = position + 1
           /\ progress' = TRUE
           /\ finished' = [b \in Finished \cup {a} |->
                IF b = a THEN [start |-> StartOf(a), finish |-> StartOf(a) + RuntimeOf[a]]
                ELSE finished[b]]
           /\ UNCHANGED stage
  <2>1. a \notin Finished /\ predecessors(a) \cup lanePrevious(a) \subseteq Finished
    BY Zenon, <1>7 DEF Blocked
  <2> HIDE DEF a
  <2>2. Schedule'
    BY Zenon, <1>1, <1>3, <1>7, <2>1, FinishStep
  <2>3. stage' = "simulate" /\ position' \in Nat \ {0} /\ progress' = TRUE
    BY Zenon, <1>1, <1>2, <1>7
  <2> QED BY Zenon, <1>4, <2>2, <2>3 DEF SimInv, Simulated
<1> QED BY Zenon, <1>5, <1>6, <1>7 DEF Visit

(* ... and so does the end of a pass.                                        *)
LEMMA SimInvPass ==
    ASSUME SimInv, EndPass
    PROVE  SimInv'
<1>1. /\ stage = "simulate" /\ position > Len(Tasks) /\ request' = request /\ finished' = finished
      /\ position' = 1 /\ progress' = FALSE
      /\ stage' = IF Finished = Acts THEN "done" ELSE IF progress THEN "simulate" ELSE "stuck"
  BY Zenon DEF EndPass
<1>2. Schedule' /\ Finished' = Finished /\ \A x : Blocked(x)' = Blocked(x)
  BY Zenon, <1>1, ScheduleStays DEF SimInv
<1>3. Ordered'
  BY Zenon, <1>1, RequestStays DEF SimInv, Simulated
<1>4. position' \in Nat \ {0} /\ progress' \in BOOLEAN
  <2>1. 1 \in Nat \ {0}
    OBVIOUS
  <2> QED BY Zenon, <1>1, <2>1
<1>5. \A i \in 1..Len(Tasks) : ~(i < position')
  BY <1>1
<1>6. ASSUME stage' = "stuck" PROVE Finished' # Acts /\ \A x \in Acts : Blocked(x)'
  <2>1. Finished # Acts /\ ~progress /\ progress \in BOOLEAN
    BY Zenon, <1>1, <1>6 DEF SimInv
  <2>2. \A i \in 1..Len(Tasks) : i < position
    <3>1. position \in Nat /\ Len(Tasks) \in Nat
      BY Zenon, TasksIndexed DEF SimInv
    <3> QED BY <1>1, <3>1
  <2>3. \A i \in 1..Len(Tasks) : Blocked(Tasks[i])
    BY Zenon, <1>1, <2>1, <2>2 DEF SimInv
  <2>4. \A x \in Acts : \E i \in 1..Len(Tasks) : x = Tasks[i]
    BY Zenon, TasksIndexed DEF Acts, Range
  <2> QED BY Zenon, <1>2, <2>1, <2>3, <2>4
<1>7. stage' \in {"done", "simulate", "stuck"} /\ (stage' = "done" => Finished' = Acts)
  BY Zenon, <1>1, <1>2
<1> QED BY Zenon, <1>2, <1>3, <1>4, <1>5, <1>6, <1>7 DEF SimInv, Simulated

(* Every step keeps the simulator's invariant.                               *)
LEMMA SimInvNext ==
    ASSUME SortInv, SimInv, [PlanningNext]_planningVars
    PROVE  SimInv'
<1> USE DEF Simulated
<1>1. ASSUME UNCHANGED simulator, stage \notin Simulated, stage' \notin Simulated PROVE SimInv'
  <2>1. position' = position /\ progress' = progress /\ finished' = finished
    BY Zenon, <1>1 DEF simulator
  <2>2. finished' = <<>> /\ position' = 1 /\ progress' = FALSE /\ position' \in Nat \ {0} /\ progress' \in BOOLEAN
    BY Zenon, <1>1, <2>1 DEF SimInv
  <2> QED BY Zenon, <1>1, <2>2, EmptySchedule DEF SimInv
<1>2. ASSUME NEW deps \in SUBSET Dependencies, NEW assign \in [Acts -> Places], NEW links \in Networks,
             stage = "waiting", SubmitPlan(deps, assign, links)
      PROVE  SimInv'
  BY Zenon, <1>1, <1>2 DEF SubmitPlan
<1>3. CASE ValidateAssignments
  BY Zenon, <1>1, <1>3 DEF ValidateAssignments
<1>4. CASE SortStep
  BY Zenon, <1>1, <1>4 DEF SortStep
<1>5. CASE SortEnd
  BY Zenon, <1>1, <1>5 DEF SortEnd
<1>6. CASE ValidateOrders
  <2>1. CASE stage' = "simulate"
    <3>1. Ordered /\ request' = request /\ stage = "orders" /\ position' = position /\ progress' = progress /\ finished' = finished
      BY Zenon, <1>6, <2>1 DEF ValidateOrders, simulator
    <3>2. Ordered'
      BY Zenon, <3>1, RequestStays
    <3>3. finished' = <<>> /\ position' = 1 /\ progress' = FALSE /\ position' \in Nat \ {0} /\ progress' \in BOOLEAN
      BY Zenon, <3>1 DEF SimInv
    <3>4. \A i \in 1..Len(Tasks) : ~(i < position')
      BY <3>3
    <3> QED BY Zenon, <2>1, <3>2, <3>3, <3>4, EmptySchedule DEF SimInv
  <2> QED BY Zenon, <1>1, <1>6, <2>1 DEF ValidateOrders
<1>7. CASE Visit
  BY Zenon, <1>7, SimInvVisit DEF SortInv, Visit
<1>8. CASE EndPass
  BY Zenon, <1>8, SimInvPass
<1>9. CASE UNCHANGED planningVars
  <2>1. /\ request' = request /\ stage' = stage /\ position' = position /\ progress' = progress
        /\ finished' = finished
    BY Zenon, <1>9 DEF planningVars, simulator
  <2>2. /\ Schedule' = Schedule /\ Finished' = Finished /\ Ordered' = Ordered
        /\ \A x : Blocked(x)' = Blocked(x)
    BY Zenon, <2>1, ScheduleStays, RequestStays
  <2> QED BY Zenon, <2>1, <2>2 DEF SimInv
<1> QED BY Zenon, <1>2, <1>3, <1>4, <1>5, <1>6, <1>7, <1>8, <1>9 DEF PlanningNext

(* A simulation that is stuck or complete.                                   *)
LEMMA SimInvCircle ==
    ASSUME SortInv, SimInv
    PROVE  StuckMeansCircle
<1>1. ASSUME stage = "stuck" PROVE ~Acyclic(Waits)
  <2>1. RequestOK /\ Finished # Acts /\ (\A a \in Acts : Blocked(a)) /\ Finished \in SUBSET Acts
    BY Zenon, <1>1 DEF SortInv, SimInv, Schedule, Grounded
  <2> DEFINE set == Acts \ Finished
  <2>2. set \in SUBSET Acts /\ set # {}
    BY Zenon, <2>1
  <2>3. ASSUME NEW a \in set PROVE \E b \in set : <<a, b>> \in Waits
    <3>1. PICK b \in predecessors(a) \cup lanePrevious(a) : b \notin Finished
      BY Zenon, <2>1, <2>3 DEF Blocked
    <3>2. b \in Acts
      BY Zenon, <2>1, <3>1, RequestTypes
    <3> QED BY Zenon, <2>1, <2>3, <3>1, <3>2, RequestTypes
  <2> QED BY Zenon, <2>2, <2>3 DEF Acyclic
<1>2. ASSUME stage = "stuck", NEW l \in Acts
      PROVE  Acyclic({w \in Waits : Lane(w[1]) = Lane(l) /\ Lane(w[2]) = Lane(l)})
  <2> DEFINE W == {w \in Waits : Lane(w[1]) = Lane(l) /\ Lane(w[2]) = Lane(l)}
  <2>1. RequestOK /\ Ordered
    BY Zenon, <1>2 DEF SortInv, SimInv, Simulated
  <2>2. ASSUME NEW a \in Acts, NEW b \in Acts, <<a, b>> \in W PROVE Order(b) < Order(a)
    <3>1. <<a, b>> \in Waits /\ Lane(a) = Lane(b)
      BY <2>2
    <3>2. CASE b \in lanePrevious(a)
      BY Zenon, <3>2 DEF lanePrevious, Earlier
    <3>3. CASE b \in predecessors(a)
      <4>1. <<a, b>> \in request.deps
        BY Zenon, <2>1, <3>3, RequestTypes
      <4>2. Order(a) > Order(b)
        <5>1. \A d \in request.deps : Lane(d[1]) = Lane(d[2]) => Order(d[1]) > Order(d[2])
          BY Zenon, <2>1 DEF Ordered
        <5> HIDE DEF W
        <5>2. PICK d \in request.deps : d = <<a, b>>
          BY Zenon, <4>1
        <5>3. d[1] = a /\ d[2] = b
          BY <5>2
        <5> QED BY Zenon, <3>1, <5>1, <5>3
      <4>3. Order(a) \in Nat /\ Order(b) \in Nat
        BY Zenon, <2>1, RequestTypes
      <4> QED BY <4>2, <4>3
    <3> QED BY Zenon, <2>1, <3>1, <3>2, <3>3, RequestTypes
  <2> HIDE DEF W
  <2>3. ASSUME NEW set \in SUBSET Acts, set # {}
        PROVE  \E a \in set : \A b \in set : <<a, b>> \notin W
    <3> DEFINE S == {Order(a) : a \in set}
    <3>1. S \subseteq Nat /\ S # {}
      BY Zenon, <2>1, <2>3, RequestTypes
    <3>2. PICK m \in S : \A n \in S : m <= n
      BY Zenon, <3>1, LeastNatural
    <3>3. PICK a \in set : m = Order(a)
      BY Zenon, <3>2
    <3>4. \A b \in set : Order(a) <= Order(b) /\ Order(a) \in Nat /\ Order(b) \in Nat
      BY Zenon, <2>1, <3>2, <3>3, RequestTypes
    <3>5. \A b \in set : ~(Order(b) < Order(a))
      BY <3>4
    <3> QED BY Zenon, <2>2, <3>3, <3>5
  <2> QED BY Zenon, <2>3 DEF Acyclic, W
<1>3. ASSUME stage = "done" PROVE Acyclic(Waits)
  BY Zenon, <1>3, GroundedIsAcyclic DEF SimInv, Schedule
<1> QED BY Zenon, <1>1, <1>2, <1>3 DEF StuckMeansCircle

(* simulation_executor.go, simulate: for every workflow and plan, a          *)
(* simulation that stops without progress has a circle of activities that    *)
(* wait for each other, over more than one lane, and one that completes has  *)
(* none.                                                                     *)
THEOREM SimulationStuckMeansCircle == PlanningSpec => []StuckMeansCircle
<1>1. PlanningInit => SortInv /\ SimInv
  BY Zenon, SortInvInit, SimInvInit
<1>2. SortInv /\ SimInv /\ [PlanningNext]_planningVars => SortInv' /\ SimInv'
  BY Zenon, SortInvNext, SimInvNext
<1>3. SortInv /\ SimInv => StuckMeansCircle
  BY Zenon, SimInvCircle
<1> QED BY <1>1, <1>2, <1>3, PTL DEF PlanningSpec

(* simulation_executor.go, simulate: for every workflow, plan and network,   *)
(* the schedule respects the lanes and the transfers, and starts everything  *)
(* as early as they allow, at every point of the simulation.                 *)
THEOREM SimulationIsEarliest == PlanningSpec => []ScheduleIsEarliest
<1>1. PlanningInit => SortInv /\ SimInv
  BY Zenon, SortInvInit, SimInvInit
<1>2. SortInv /\ SimInv /\ [PlanningNext]_planningVars => SortInv' /\ SimInv'
  BY Zenon, SortInvNext, SimInvNext
<1>3. SimInv => ScheduleIsEarliest
  BY Zenon DEF SimInv, Schedule
<1> QED BY <1>1, <1>2, <1>3, PTL DEF PlanningSpec

-----------------------------------------------------------------------------
(* The simulation runner *)

RunnerTypeOK ==
    /\ phase \in [SimTasks -> {"none", "waiting", "computing", "finished"}]
    /\ carrier \in [Pairs -> {"none", "waiting", "putting", "sent"}]
    /\ tokens \in [Mailboxes -> Nat]
    /\ gets \in [SimTasks -> SUBSET (Nat \X Mailboxes)]
    /\ input.dependencies \in Seq(Pairs) /\ input.lanes \subseteq Pairs

Past(t) == phase[t] = "finished"

\* The reads that stand for dependency number i and for a lane
InputItem(i) ==
    <<i, mailbox_name(IF Apart(input.dependencies[i]) THEN "data" ELSE "ready", input.dependencies[i])>>
LaneItem(d) == <<Len(input.dependencies) + 1, mailbox_name("lane", d)>>

\* What a dependency stands for when it was read
Got(d) == Past(d[1]) /\ (d \in input.data /\ Apart(d) => carrier[d] = "sent")

\* A message, or a transfer under way, tells that its producer has finished.
SignalInv ==
    /\ \A m \in Mailboxes : tokens[m] > 0 => Past(m[2])
    /\ \A d \in Pairs : carrier[d] \in {"putting", "sent"} => Past(d[1])
    /\ runner = "none" => \A m \in Mailboxes : tokens[m] = 0

\* What a task need not read any more has arrived.
ReadInv(t) ==
    phase[t] # "none" =>
        /\ \A i \in DOMAIN input.dependencies :
              input.dependencies[i][2] = t => InputItem(i) \in gets[t] \/ Got(input.dependencies[i])
        /\ \A d \in input.lanes : d[2] = t => LaneItem(d) \in gets[t] \/ Past(d[1])
        /\ phase[t] # "waiting" => gets[t] = {}

RunnerIInv == RunnerTypeOK /\ SignalInv /\ \A t \in SimTasks : ReadInv(t)

(* The mailbox of two tasks names them (mailbox_name).                       *)
LEMMA MailboxNames ==
    /\ \A kind \in {"ready", "data", "lane"}, d \in Pairs :
          /\ mailbox_name(kind, d) \in Mailboxes
          /\ mailbox_name(kind, d)[1] = kind
          /\ mailbox_name(kind, d)[2] = d[1] /\ mailbox_name(kind, d)[3] = d[2]
          /\ <<d[1], d[2]>> = d
    /\ \A d \in Pairs : d[1] \in SimTasks /\ d[2] \in SimTasks
    /\ \A m \in Mailboxes : m[2] \in SimTasks /\ m[3] \in SimTasks
<1>1. \A d \in Pairs : d[1] \in SimTasks /\ d[2] \in SimTasks /\ <<d[1], d[2]>> = d
  BY DEF Pairs
<1>2. \A kind, d : /\ mailbox_name(kind, d)[1] = kind
                   /\ mailbox_name(kind, d)[2] = d[1] /\ mailbox_name(kind, d)[3] = d[2]
  BY DEF mailbox_name
<1>3. \A kind \in {"ready", "data", "lane"}, d \in Pairs : mailbox_name(kind, d) \in Mailboxes
  BY <1>1 DEF Mailboxes, mailbox_name
<1>4. \A m \in Mailboxes : m[2] \in SimTasks /\ m[3] \in SimTasks
  BY DEF Mailboxes
<1> QED BY Zenon, <1>1, <1>2, <1>3, <1>4

(* While the input stays, what was read stays read: nobody un-finishes and   *)
(* nothing that was sent comes back.                                         *)
LEMMA ReadsStay ==
    ASSUME RunnerIInv, input' = input, NEW t \in SimTasks,
           \A u \in SimTasks : Past(u) => Past(u)',
           \A d \in Pairs : carrier[d] = "sent" => carrier'[d] = "sent",
           gets'[t] = gets[t], phase'[t] # "none" => phase[t] # "none",
           phase'[t] \notin {"none", "waiting"} => gets[t] = {}
    PROVE  ReadInv(t)'
<1>1. \A i \in DOMAIN input.dependencies : input.dependencies[i] \in Pairs
  BY DEF RunnerIInv, RunnerTypeOK
<1>2. \A d \in Pairs : Got(d) => Got(d)'
  BY Zenon, MailboxNames DEF Got, Apart
<1>3. ReadInv(t)
  BY Zenon DEF RunnerIInv
<1>4. \A i \in DOMAIN input.dependencies : InputItem(i)' = InputItem(i)
  BY Zenon DEF InputItem, Apart
<1>5. \A d \in input.lanes : LaneItem(d)' = LaneItem(d) /\ (Past(d[1]) => Past(d[1])')
  BY Zenon, MailboxNames DEF LaneItem, RunnerIInv, RunnerTypeOK
<1> QED BY Zenon, <1>1, <1>2, <1>3, <1>4, <1>5 DEF ReadInv

(* A task reads a mailbox (main.cpp, run_simulation).                        *)
LEMMA ReceiveStep ==
    ASSUME RunnerIInv, NEW t \in SimTasks, Receive(t)
    PROVE  RunnerIInv'
<1>t. RunnerTypeOK /\ SignalInv
  BY Zenon DEF RunnerIInv
<1>1. PICK g \in gets[t] :
          /\ gets' = [gets EXCEPT ![t] = @ \ {g}]
          /\ \/ /\ g[2][1] # "data" /\ tokens[g[2]] > 0
                /\ tokens' = [tokens EXCEPT ![g[2]] = @ - 1]
                /\ UNCHANGED carrier
             \/ /\ g[2][1] = "data" /\ <<g[2][2], g[2][3]>> \in Transfers
                /\ carrier[<<g[2][2], g[2][3]>>] = "putting"
                /\ carrier' = [carrier EXCEPT ![<<g[2][2], g[2][3]>>] = "sent"]
                /\ UNCHANGED tokens
  BY Zenon DEF Receive, NextGets, LeftBehind, BeingPut
<1>2. UNCHANGED <<input, phase, runner>> /\ phase[t] = "waiting" /\ runner = "running"
  BY Zenon DEF Receive, ActorWaits
<1>3. g[2] \in Mailboxes
  BY <1>t DEF RunnerTypeOK
<1>4. <<g[2][2], g[2][3]>> \in Pairs
  BY Zenon, <1>3, MailboxNames DEF Pairs
<1>5. tokens' \in [Mailboxes -> Nat] /\ \A m \in Mailboxes : tokens'[m] > 0 => tokens[m] > 0
  <2>1. tokens \in [Mailboxes -> Nat]
    BY Zenon, <1>t DEF RunnerTypeOK
  <2>2. CASE UNCHANGED tokens
    BY Zenon, <2>1, <2>2
  <2>3. CASE tokens[g[2]] > 0 /\ tokens' = [tokens EXCEPT ![g[2]] = @ - 1]
    BY <1>3, <2>1, <2>3
  <2> QED BY Zenon, <1>1, <2>2, <2>3
<1>6. /\ carrier' \in [Pairs -> {"none", "waiting", "putting", "sent"}]
      /\ \A d \in Pairs : carrier'[d] = carrier[d] \/ (carrier[d] = "putting" /\ carrier'[d] = "sent")
  BY Zenon, <1>1, <1>4, <1>t DEF RunnerTypeOK
<1>7. RunnerTypeOK'
  <2>1. gets' \in [SimTasks -> SUBSET (Nat \X Mailboxes)]
    BY Zenon, <1>1, <1>t DEF RunnerTypeOK
  <2> QED BY Zenon, <1>2, <1>5, <1>6, <1>t, <2>1 DEF RunnerTypeOK
<1>8. SignalInv'
  BY Zenon, <1>2, <1>5, <1>6, <1>t DEF SignalInv, Past
<1>9. ASSUME NEW u \in SimTasks PROVE ReadInv(u)'
  <2>1. CASE u # t
    <3>1. gets'[u] = gets[u]
      BY Zenon, <1>1, <1>t, <2>1 DEF RunnerTypeOK
    <3>2. phase[u] \notin {"none", "waiting"} => gets[u] = {}
      BY Zenon DEF RunnerIInv, ReadInv
    <3> QED BY Zenon, <1>2, <1>6, <3>1, <3>2, ReadsStay DEF Past
  <2>2. CASE u = t
    <3>0. gets'[t] = gets[t] \ {g} /\ ReadInv(t)
      BY Zenon, <1>1, <1>t DEF RunnerTypeOK, RunnerIInv
    <3>1. ASSUME NEW i \in DOMAIN input.dependencies, input.dependencies[i][2] = t
          PROVE  (InputItem(i) \in gets[t] \/ Got(input.dependencies[i]))'
      <4> DEFINE d == input.dependencies[i]
      <4>1. d \in Pairs
        BY <1>t DEF RunnerTypeOK
      <4>2. InputItem(i)' = InputItem(i)
        BY Zenon, <1>2 DEF InputItem, Apart
      <4>3. Got(d) => Got(d)'
        BY Zenon, <1>2, <1>6, <4>1 DEF Got, Apart, Past
      <4>4. CASE InputItem(i) = g
        <5>0. PICK kind \in {"ready", "data", "lane"} : kind = IF Apart(d) THEN "data" ELSE "ready"
          BY Zenon
        <5>1. g[2] = mailbox_name(kind, d)
          BY Zenon, <4>4, <5>0 DEF InputItem
        <5>2. g[2][1] = kind /\ g[2][2] = d[1] /\ <<g[2][2], g[2][3]>> = d
          <6>1. g[2][1] = kind /\ g[2][2] = d[1] /\ g[2][3] = d[2] /\ <<d[1], d[2]>> = d
            BY <4>1, <5>1 DEF mailbox_name, Pairs
          <6> QED BY Zenon, <6>1
        <5>3. CASE Apart(d)
          <6>1. g[2][1] = "data" /\ <<g[2][2], g[2][3]>> = d
            BY Zenon, <5>0, <5>2, <5>3
          <6>2. carrier[d] = "putting" /\ carrier' = [carrier EXCEPT ![d] = "sent"]
            BY Zenon, <1>1, <6>1
          <6>3. carrier'[d] = "sent"
            BY Zenon, <1>t, <4>1, <6>2 DEF RunnerTypeOK
          <6>4. phase[d[1]] = "finished"
            BY Zenon, <4>1, <6>2, <1>t DEF SignalInv, Past
          <6> QED BY Zenon, <1>2, <6>3, <6>4 DEF Got, Past
        <5>4. CASE ~Apart(d)
          BY Zenon, <1>1, <1>2, <1>3, <1>t, <5>0, <5>2, <5>4 DEF SignalInv, Got, Past, Apart
        <5> QED BY Zenon, <1>2, <5>3, <5>4
      <4> QED BY Zenon, <1>2, <3>0, <3>1, <4>2, <4>3, <4>4 DEF ReadInv
    <3>2. ASSUME NEW d \in input.lanes, d[2] = t
          PROVE  (LaneItem(d) \in gets[t] \/ Past(d[1]))'
      <4>1. d \in Pairs
        BY Zenon, <1>t DEF RunnerTypeOK
      <4>2. LaneItem(d)' = LaneItem(d) /\ (Past(d[1]) => Past(d[1])')
        BY Zenon, <1>2 DEF LaneItem, Past
      <4>3. CASE LaneItem(d) = g
        <5>1. g[2] = mailbox_name("lane", d)
          BY Zenon, <4>3 DEF LaneItem
        <5>2. g[2][1] = "lane" /\ g[2][2] = d[1]
          BY <5>1 DEF mailbox_name
        <5> QED BY Zenon, <1>1, <1>3, <1>t, <4>2, <5>2 DEF SignalInv
      <4> QED BY Zenon, <1>2, <3>0, <3>2, <4>2, <4>3 DEF ReadInv
    <3> QED BY Zenon, <1>2, <2>2, <3>1, <3>2 DEF ReadInv
  <2> QED BY Zenon, <2>1, <2>2
<1> QED BY Zenon, <1>7, <1>8, <1>9 DEF RunnerIInv

(* A task finishes and leaves its messages behind.                           *)
LEMMA ConcludeStep ==
    ASSUME RunnerIInv, NEW t \in SimTasks, Conclude(t)
    PROVE  RunnerIInv'
<1>t. RunnerTypeOK /\ SignalInv
  BY Zenon DEF RunnerIInv
<1>1. /\ runner = "running" /\ phase[t] = "computing" /\ UNCHANGED <<input, gets, carrier, runner>>
      /\ phase' = [phase EXCEPT ![t] = "finished"]
      /\ tokens' = [m \in Mailboxes |-> tokens[m] + IF m \in SignalsOf(t) THEN 1 ELSE 0]
  BY Zenon DEF Conclude
<1>2. \A u \in SimTasks : phase'[u] = IF u = t THEN "finished" ELSE phase[u]
  BY Zenon, <1>1, <1>t DEF RunnerTypeOK
<1>3. \A m \in SignalsOf(t) : m[2] = t
  <2>1. \A d \in Range(input.dependencies) : d \in Pairs
    BY <1>t DEF RunnerTypeOK, Range
  <2>2. \A d \in input.lanes : d \in Pairs
    BY Zenon, <1>t DEF RunnerTypeOK
  <2>3. \A d \in Pairs : mailbox_name("ready", d)[2] = d[1] /\ mailbox_name("lane", d)[2] = d[1]
    BY DEF mailbox_name
  <2> QED BY Zenon, <2>1, <2>2, <2>3 DEF SignalsOf
<1>4. /\ tokens' \in [Mailboxes -> Nat]
      /\ \A m \in Mailboxes : tokens'[m] > 0 => tokens[m] > 0 \/ m \in SignalsOf(t)
  BY <1>1, <1>t DEF RunnerTypeOK
<1>5. RunnerTypeOK'
  BY Zenon, <1>1, <1>4, <1>t DEF RunnerTypeOK
<1>6. SignalInv'
  <2>1. \A u \in SimTasks : Past(u) => Past(u)'
    BY Zenon, <1>2 DEF Past
  <2>2. Past(t)'
    BY Zenon, <1>2 DEF Past
  <2>3. \A m \in Mailboxes : tokens'[m] > 0 => Past(m[2])'
    <3>1. \A m \in Mailboxes : m[2] \in SimTasks
      BY Zenon, MailboxNames
    <3> QED BY Zenon, <1>3, <1>4, <1>t, <2>1, <2>2, <3>1 DEF SignalInv
  <2>4. \A d \in Pairs : carrier'[d] \in {"putting", "sent"} => Past(d[1])'
    BY Zenon, <1>1, <1>t, <2>1, MailboxNames DEF SignalInv
  <2> QED BY Zenon, <1>1, <2>3, <2>4 DEF SignalInv
<1>7. ASSUME NEW u \in SimTasks PROVE ReadInv(u)'
  <2>1. phase[u] \notin {"none", "waiting"} => gets[u] = {}
    BY Zenon DEF RunnerIInv, ReadInv
  <2> QED BY Zenon, <1>1, <1>2, <2>1, ReadsStay DEF Past
<1> QED BY Zenon, <1>5, <1>6, <1>7 DEF RunnerIInv

(* A transfer leaves when its producer has told it to.                       *)
LEMMA DepartStep ==
    ASSUME RunnerIInv, NEW d \in Pairs, Depart(d)
    PROVE  RunnerIInv'
<1>t. RunnerTypeOK /\ SignalInv
  BY Zenon DEF RunnerIInv
<1>1. /\ runner = "running" /\ carrier[d] = "waiting" /\ UNCHANGED <<input, gets, phase, runner>>
      /\ tokens[mailbox_name("ready", d)] > 0
      /\ tokens' = [tokens EXCEPT ![mailbox_name("ready", d)] = @ - 1]
      /\ carrier' = [carrier EXCEPT ![d] = "putting"]
  BY Zenon DEF Depart, MayDepart
<1>2. mailbox_name("ready", d) \in Mailboxes /\ mailbox_name("ready", d)[2] = d[1]
  BY Zenon, MailboxNames
<1>3. tokens' \in [Mailboxes -> Nat] /\ \A m \in Mailboxes : tokens'[m] > 0 => tokens[m] > 0
  BY <1>1, <1>2, <1>t DEF RunnerTypeOK
<1>4. RunnerTypeOK'
  BY Zenon, <1>1, <1>3, <1>t DEF RunnerTypeOK
<1>5. SignalInv'
  <2>1. Past(d[1])
    BY Zenon, <1>1, <1>2, <1>t DEF SignalInv
  <2>2. \A e \in Pairs : carrier'[e] = IF e = d THEN "putting" ELSE carrier[e]
    BY Zenon, <1>1, <1>t DEF RunnerTypeOK
  <2> QED BY Zenon, <1>1, <1>3, <1>t, <2>1, <2>2 DEF SignalInv, Past
<1>6. ASSUME NEW u \in SimTasks PROVE ReadInv(u)'
  <2>1. phase[u] \notin {"none", "waiting"} => gets[u] = {}
    BY Zenon DEF RunnerIInv, ReadInv
  <2>2. \A e \in Pairs : carrier[e] = "sent" => carrier'[e] = "sent"
    BY Zenon, <1>1, <1>t DEF RunnerTypeOK
  <2> QED BY Zenon, <1>1, <2>1, <2>2, ReadsStay DEF Past
<1> QED BY Zenon, <1>4, <1>5, <1>6 DEF RunnerIInv

(* The actors are started: each has its reads before it.                     *)
LEMMA LaunchedStep ==
    ASSUME RunnerIInv, NEW place \in Assignments, NEW order \in Orders, NEW data, Launched(place, order, data)
    PROVE  RunnerIInv'
<1>t. RunnerTypeOK /\ SignalInv
  BY Zenon DEF RunnerIInv
<1>1. CASE /\ runner = "none" /\ runner' = "refused" /\ UNCHANGED <<input, gets, phase, carrier, tokens>>
  <2>1. ASSUME NEW u \in SimTasks PROVE ReadInv(u)'
    <3>1. phase[u] \notin {"none", "waiting"} => gets[u] = {}
      BY Zenon DEF RunnerIInv, ReadInv
    <3> QED BY Zenon, <1>1, <3>1, ReadsStay DEF Past
  <2> QED BY Zenon, <1>1, <1>t, <2>1 DEF RunnerIInv, RunnerTypeOK, SignalInv, Past
<1>2. CASE /\ runner = "none" /\ runner' = "running" /\ UNCHANGED tokens
           /\ input' = buildRunnerInput(place, order, data)
           /\ gets' = [t \in SimTasks |-> GetsOf(t)']
           /\ phase' = [t \in SimTasks |-> "waiting"]
           /\ carrier' = [d \in Pairs |-> "waiting"]
  <2>1. input'.dependencies = order /\ input'.lanes = LanesOf(place)
    BY <1>2 DEF buildRunnerInput
  <2>2. order \in Seq(Pairs) /\ LanesOf(place) \subseteq Pairs
    BY RunnerAssumption DEF Pairs, LanesOf
  <2>3. \A i \in DOMAIN order : order[i] \in Pairs /\ i \in Nat
    BY <2>2
  <2>4. Len(order) + 1 \in Nat
    BY <2>2
  <2>5. ASSUME NEW t \in SimTasks
        PROVE  gets'[t] \in SUBSET (Nat \X Mailboxes)
    <3>1. gets'[t] = GetsOf(t)'
      BY Zenon, <1>2
    <3>2. ASSUME NEW g \in GetsOf(t)' PROVE g \in Nat \X Mailboxes
      <4>1. \/ \E i \in DOMAIN order : \E kind \in {"ready", "data"} : g = <<i, mailbox_name(kind, order[i])>>
            \/ \E d \in LanesOf(place) : g = <<Len(order) + 1, mailbox_name("lane", d)>>
        BY Zenon, <2>1, <3>2 DEF GetsOf, InputsOf
      <4>0. \A kind \in {"ready", "data", "lane"}, d \in Pairs : mailbox_name(kind, d) \in Mailboxes
        BY Zenon, MailboxNames
      <4>2. \E i \in Nat : \E m \in Mailboxes : g = <<i, m>>
        <5>1. CASE \E i \in DOMAIN order : \E kind \in {"ready", "data"} : g = <<i, mailbox_name(kind, order[i])>>
          BY Zenon, <2>3, <4>0, <5>1
        <5>2. CASE \E d \in LanesOf(place) : g = <<Len(order) + 1, mailbox_name("lane", d)>>
          BY Zenon, <2>2, <2>4, <4>0, <5>2
        <5> QED BY Zenon, <4>1, <5>1, <5>2
      <4> QED BY <4>2
    <3> QED BY Zenon, <3>1, <3>2
  <2>6. RunnerTypeOK'
    <3>1. gets' \in [SimTasks -> SUBSET (Nat \X Mailboxes)]
      BY Zenon, <1>2, <2>5
    <3>2. phase' \in [SimTasks -> {"none", "waiting", "computing", "finished"}]
      BY Zenon, <1>2
    <3>3. carrier' \in [Pairs -> {"none", "waiting", "putting", "sent"}]
      BY Zenon, <1>2
    <3>4. (input.dependencies \in Seq(Pairs) /\ input.lanes \subseteq Pairs)'
      BY Zenon, <2>1, <2>2
    <3>5. tokens' \in [Mailboxes -> Nat]
      BY Zenon, <1>2, <1>t DEF RunnerTypeOK
    <3> QED BY Zenon, <3>1, <3>2, <3>3, <3>4, <3>5 DEF RunnerTypeOK
  <2>7. SignalInv'
    <3>1. \A m \in Mailboxes : ~(tokens'[m] > 0)
      BY <1>2, <1>t DEF SignalInv
    <3>2. \A d \in Pairs : carrier'[d] = "waiting"
      BY Zenon, <1>2
    <3> QED BY Zenon, <1>2, <3>1, <3>2 DEF SignalInv
  <2>8. ASSUME NEW t \in SimTasks PROVE ReadInv(t)'
    <3>1. gets'[t] = GetsOf(t)' /\ phase'[t] = "waiting"
      BY Zenon, <1>2
    <3>2. \A i \in DOMAIN input'.dependencies : input'.dependencies[i][2] = t => InputItem(i)' \in gets'[t]
      BY Zenon, <3>1 DEF GetsOf, InputsOf, InputItem
    <3>3. \A d \in input'.lanes : d[2] = t => LaneItem(d)' \in gets'[t]
      BY Zenon, <3>1 DEF GetsOf, LaneItem
    <3> QED BY Zenon, <3>1, <3>2, <3>3 DEF ReadInv
  <2> QED BY Zenon, <2>6, <2>7, <2>8 DEF RunnerIInv
<1> QED BY Zenon, <1>1, <1>2 DEF Launched

(* Every step of the actors and the engine keeps what messages stand for.    *)
LEMMA RunnerStep == RunnerIInv /\ [RunnerNext]_runnerVars => RunnerIInv'
<1> SUFFICES ASSUME RunnerIInv, [RunnerNext]_runnerVars PROVE RunnerIInv'
  BY Zenon
<1>t. RunnerTypeOK /\ SignalInv
  BY Zenon DEF RunnerIInv
<1>1. ASSUME NEW t \in SimTasks, Compute(t) PROVE RunnerIInv'
  <2>1. /\ phase[t] = "waiting" /\ gets[t] = {} /\ UNCHANGED <<input, gets, carrier, tokens, runner>>
        /\ phase' = [phase EXCEPT ![t] = "computing"]
    BY Zenon, <1>1 DEF Compute, ActorWaits
  <2>2. \A u \in SimTasks : phase'[u] = IF u = t THEN "computing" ELSE phase[u]
    BY Zenon, <1>t, <2>1 DEF RunnerTypeOK
  <2>3. \A u \in SimTasks : Past(u)' <=> Past(u)
    BY <2>1, <2>2 DEF Past
  <2>4. RunnerTypeOK'
    BY Zenon, <1>t, <2>1 DEF RunnerTypeOK
  <2>5. SignalInv'
    BY Zenon, <1>t, <2>1, <2>3, MailboxNames DEF SignalInv
  <2>6. ASSUME NEW u \in SimTasks PROVE ReadInv(u)'
    <3>1. phase'[u] \notin {"none", "waiting"} => gets[u] = {}
      BY Zenon, <2>1, <2>2 DEF RunnerIInv, ReadInv
    <3> QED BY Zenon, <2>1, <2>2, <2>3, <3>1, ReadsStay
  <2> QED BY Zenon, <2>4, <2>5, <2>6 DEF RunnerIInv
<1>2. CASE EngineStops \/ UNCHANGED runnerVars
  <2>1. UNCHANGED <<input, gets, phase, carrier, tokens>> /\ (runner' = "none" => runner = "none")
    BY Zenon, <1>2 DEF EngineStops, runnerVars
  <2>2. RunnerTypeOK' /\ SignalInv'
    BY Zenon, <1>t, <2>1 DEF RunnerTypeOK, SignalInv, Past
  <2>3. ASSUME NEW u \in SimTasks PROVE ReadInv(u)'
    <3>1. phase[u] \notin {"none", "waiting"} => gets[u] = {}
      BY Zenon DEF RunnerIInv, ReadInv
    <3> QED BY Zenon, <2>1, <3>1, ReadsStay DEF Past
  <2> QED BY Zenon, <2>2, <2>3 DEF RunnerIInv
<1> QED BY Zenon, <1>1, <1>2, ReceiveStep, ConcludeStep, DepartStep, LaunchedStep DEF RunnerNext

(* Before the actors are started there is nothing to read.                   *)
LEMMA RunnerIInvInit == RunnerInit => RunnerIInv
<1> SUFFICES ASSUME RunnerInit PROVE RunnerIInv
  BY Zenon
<1>1. input.dependencies \in Seq(Pairs) /\ input.lanes \subseteq Pairs
  <2>1. input.dependencies = <<>> /\ input.lanes = {}
    BY Zenon DEF RunnerInit, NoInput
  <2>2. <<>> \in Seq(Pairs)
    OBVIOUS
  <2> QED BY Zenon, <2>1, <2>2
<1>2. RunnerTypeOK
  <2>1. tokens \in [Mailboxes -> Nat] /\ gets \in [SimTasks -> SUBSET (Nat \X Mailboxes)]
    BY Zenon DEF RunnerInit
  <2> QED BY Zenon, <1>1, <2>1 DEF RunnerInit, RunnerTypeOK
<1>3. SignalInv
  <2>1. \A m \in Mailboxes : tokens[m] = 0 /\ ~(tokens[m] > 0)
    BY DEF RunnerInit
  <2> QED BY Zenon, <2>1 DEF RunnerInit, SignalInv
<1> QED BY Zenon, <1>2, <1>3 DEF RunnerInit, RunnerIInv, ReadInv

(* In every simulation, of every plan and in every order the actors may run, *)
(* a task computes only when its producers and the task before it in its     *)
(* lane have finished and its data have arrived (run_simulation).            *)
THEOREM InputsAlwaysArrived == RunnerSpec => []InputsArrived
<1>1. RunnerInit => RunnerIInv
  BY Zenon, RunnerIInvInit
<1>2. RunnerIInv => InputsArrived
  <2> SUFFICES ASSUME RunnerIInv, NEW t \in SimTasks, phase[t] \in {"computing", "finished"}
               PROVE  /\ \A d \in Range(input.dependencies) : d[2] = t => Got(d)
                      /\ \A d \in input.lanes : d[2] = t => Past(d[1])
    BY Zenon DEF InputsArrived, Got, Past
  <2>1. /\ \A i \in DOMAIN input.dependencies : input.dependencies[i][2] = t => Got(input.dependencies[i])
        /\ \A d \in input.lanes : d[2] = t => Past(d[1])
    BY Zenon DEF RunnerIInv, ReadInv
  <2> QED BY Zenon, <2>1 DEF Range
<1> QED BY <1>1, <1>2, RunnerStep, PTL DEF RunnerSpec


-----------------------------------------------------------------------------
(* Deadlocks of the simulation runner *)

Dep(i) == input.dependencies[i]

\* Whoever still has to read a message can get it once its producer has finished:
\* nobody else has taken it.
OwesInput(i) ==
    InputItem(i) \in gets[Dep(i)[2]] =>
        IF Apart(Dep(i)) THEN carrier[Dep(i)] # "sent"
        ELSE Past(Dep(i)[1]) => tokens[mailbox_name("ready", Dep(i))] > 0
OwesTransfer(d) == Past(d[1]) /\ carrier[d] = "waiting" => tokens[mailbox_name("ready", d)] > 0
OwesLane(d) == Past(d[1]) /\ LaneItem(d) \in gets[d[2]] => tokens[mailbox_name("lane", d)] > 0

\* What was read from another host was data.
KnowsData(i) ==
    Apart(Dep(i)) /\ phase[Dep(i)[2]] # "none" => InputItem(i) \in gets[Dep(i)[2]] \/ Dep(i) \in input.data

InputOK ==
    /\ IsInjective(input.dependencies)
    /\ input.data \subseteq Range(input.dependencies)
    /\ \A t \in SimTasks : gets[t] \subseteq GetsOf(t)
    /\ runner = "running" => (\A t \in SimTasks : phase[t] # "none") /\ (\A d \in Pairs : carrier[d] # "none")

OwedInv ==
    /\ \A i \in DOMAIN input.dependencies : OwesInput(i) /\ KnowsData(i)
    /\ \A d \in Transfers : OwesTransfer(d)
    /\ \A d \in input.lanes : OwesLane(d)

\* Who waits for whom; those that have started waited in no circle.
AwaitsWhom == {<<d[2], d[1]>> : d \in Range(input.dependencies) \cup input.lanes}
Begun == {t \in SimTasks : phase[t] \in {"computing", "finished"}}
BegunInv == Grounded(SimTasks, Begun, AwaitsWhom)

DeadlockInv == RunnerIInv /\ InputOK /\ OwedInv /\ BegunInv /\ DeadlocksAreExplained

(* A mailbox is named after its two tasks and its use, and after nothing     *)
(* else.                                                                     *)
LEMMA MailboxApart ==
    ASSUME NEW j, NEW k, NEW d \in Pairs, NEW e \in Pairs, mailbox_name(j, d) = mailbox_name(k, e)
    PROVE  j = k /\ d = e
<1>1. j = k /\ d[1] = e[1] /\ d[2] = e[2]
  BY DEF mailbox_name
<1>2. d = <<d[1], d[2]>> /\ e = <<e[1], e[2]>>
  BY DEF Pairs
<1> QED BY Zenon, <1>1, <1>2

(* What a mailbox is called.                                                 *)
LEMMA MailboxParts ==
    ASSUME NEW kind, NEW d \in Pairs, NEW m, m = mailbox_name(kind, d)
    PROVE  m[1] = kind /\ <<m[2], m[3]>> = d
BY DEF mailbox_name, Pairs

(* Dependencies and lanes are pairs of tasks.                                *)
LEMMA DepsArePairs ==
    ASSUME RunnerTypeOK
    PROVE  /\ \A i \in DOMAIN input.dependencies : Dep(i) \in Pairs /\ i \in Nat
           /\ \A d \in Range(input.dependencies) \cup input.lanes : d \in Pairs
           /\ \A d \in Range(input.dependencies) : \E i \in DOMAIN input.dependencies : d = Dep(i)
           /\ \A i \in DOMAIN input.dependencies : Dep(i) \in Range(input.dependencies)
<1>1. \A i \in DOMAIN input.dependencies : Dep(i) \in Pairs /\ i \in Nat
  BY DEF RunnerTypeOK, Dep
<1>2. \A d \in Range(input.dependencies) : \E i \in DOMAIN input.dependencies : d = Dep(i)
  BY Zenon DEF Range, Dep
<1>3. \A i \in DOMAIN input.dependencies : Dep(i) \in Range(input.dependencies)
  BY Zenon DEF Range, Dep
<1>4. \A d \in input.lanes : d \in Pairs
  BY Zenon DEF RunnerTypeOK
<1> QED BY Zenon, <1>1, <1>2, <1>3, <1>4

(* A read stands for a dependency or a lane.                                 *)
LEMMA ReadsStandFor ==
    ASSUME RunnerTypeOK, InputOK, NEW t \in SimTasks, NEW g \in gets[t]
    PROVE  \/ \E i \in DOMAIN input.dependencies : Dep(i)[2] = t /\ g = InputItem(i)
           \/ \E d \in input.lanes : d[2] = t /\ g = LaneItem(d)
<1>1. g \in GetsOf(t)
  BY Zenon DEF InputOK
<1>2. CASE g \in InputsOf(t)
  BY Zenon, <1>2 DEF InputsOf, InputItem, Dep
<1>3. CASE g \in {<<Len(input.dependencies) + 1, mailbox_name("lane", d)>> : d \in {e \in input.lanes : e[2] = t}}
  BY Zenon, <1>3 DEF LaneItem
<1> QED BY Zenon, <1>1, <1>2, <1>3 DEF GetsOf

(* The mailbox of a read tells which one it is.                              *)
LEMMA ReadIsTheOne ==
    ASSUME RunnerTypeOK, InputOK, NEW t \in SimTasks, NEW g \in gets[t]
    PROVE  /\ \A i \in DOMAIN input.dependencies : \A kind \in {"ready", "data"} :
                g[2] = mailbox_name(kind, Dep(i)) =>
                  g = InputItem(i) /\ Dep(i)[2] = t /\ kind = (IF Apart(Dep(i)) THEN "data" ELSE "ready")
           /\ \A d \in input.lanes : g[2] = mailbox_name("lane", d) => g = LaneItem(d) /\ d[2] = t
           /\ g[2][1] = "data" => \E i \in DOMAIN input.dependencies :
                g = InputItem(i) /\ Apart(Dep(i)) /\ Dep(i)[2] = t /\ <<g[2][2], g[2][3]>> = Dep(i)
<1>1. ASSUME NEW i \in DOMAIN input.dependencies
      PROVE  /\ InputItem(i)[2] = mailbox_name(IF Apart(Dep(i)) THEN "data" ELSE "ready", Dep(i))
             /\ Dep(i) \in Pairs
  <2>1. InputItem(i)[2] = mailbox_name(IF Apart(Dep(i)) THEN "data" ELSE "ready", Dep(i))
    BY DEF InputItem, Dep
  <2> QED BY Zenon, <2>1, DepsArePairs
<1>2. ASSUME NEW d \in input.lanes PROVE LaneItem(d)[2] = mailbox_name("lane", d) /\ d \in Pairs
  <2>1. LaneItem(d)[2] = mailbox_name("lane", d)
    BY DEF LaneItem
  <2> QED BY Zenon, <2>1, DepsArePairs
<1>3. ASSUME NEW i \in DOMAIN input.dependencies, NEW kind \in {"ready", "data"}, g[2] = mailbox_name(kind, Dep(i))
      PROVE  g = InputItem(i) /\ Dep(i)[2] = t /\ kind = (IF Apart(Dep(i)) THEN "data" ELSE "ready")
  <2>1. CASE \E k \in DOMAIN input.dependencies : Dep(k)[2] = t /\ g = InputItem(k)
    <3>1. PICK k \in DOMAIN input.dependencies : Dep(k)[2] = t /\ g = InputItem(k)
      BY Zenon, <2>1
    <3> DEFINE other == IF Apart(Dep(k)) THEN "data" ELSE "ready"
    <3>4. mailbox_name(kind, Dep(i)) = mailbox_name(other, Dep(k)) /\ Dep(i) \in Pairs /\ Dep(k) \in Pairs
      BY Zenon, <1>1, <1>3, <3>1
    <3> HIDE DEF other
    <3>5. Dep(k) = Dep(i) /\ kind = other
      BY <3>4, MailboxApart
    <3>2. Dep(k) = Dep(i) /\ kind = (IF Apart(Dep(k)) THEN "data" ELSE "ready")
      BY Zenon, <3>5 DEF other
    <3>3. k = i
      BY Zenon, <3>2 DEF InputOK, IsInjective, Dep
    <3> QED BY Zenon, <3>1, <3>2, <3>3
  <2>2. CASE \E d \in input.lanes : d[2] = t /\ g = LaneItem(d)
    <3>1. PICK d \in input.lanes : mailbox_name(kind, Dep(i)) = mailbox_name("lane", d) /\ d \in Pairs /\ Dep(i) \in Pairs
      BY Zenon, <1>1, <1>2, <1>3, <2>2
    <3>2. kind = "lane"
      BY Zenon, <3>1, MailboxApart
    <3> QED BY <3>2
  <2> QED BY Zenon, <2>1, <2>2, ReadsStandFor
<1>4. ASSUME NEW d \in input.lanes, g[2] = mailbox_name("lane", d)
      PROVE  g = LaneItem(d) /\ d[2] = t
  <2>1. CASE \E e \in input.lanes : e[2] = t /\ g = LaneItem(e)
    <3>1. PICK e \in input.lanes : e[2] = t /\ g = LaneItem(e)
      BY Zenon, <2>1
    <3>2. mailbox_name("lane", d) = mailbox_name("lane", e) /\ d \in Pairs /\ e \in Pairs
      BY Zenon, <1>2, <1>4, <3>1
    <3>3. d = e
      BY <3>2, MailboxApart
    <3> QED BY Zenon, <3>1, <3>3
  <2>2. CASE \E k \in DOMAIN input.dependencies : Dep(k)[2] = t /\ g = InputItem(k)
    <3>1. PICK k \in DOMAIN input.dependencies : g = InputItem(k)
      BY Zenon, <2>2
    <3>2. PICK kind \in {"ready", "data"} : kind = IF Apart(Dep(k)) THEN "data" ELSE "ready"
      BY Zenon
    <3>3. mailbox_name("lane", d) = mailbox_name(kind, Dep(k)) /\ d \in Pairs /\ Dep(k) \in Pairs
      BY Zenon, <1>1, <1>2, <1>4, <3>1, <3>2
    <3>4. kind = "lane"
      BY Zenon, <3>3, MailboxApart
    <3> QED BY <3>4
  <2> QED BY Zenon, <2>1, <2>2, ReadsStandFor
<1>5. ASSUME g[2][1] = "data"
      PROVE  \E i \in DOMAIN input.dependencies :
                g = InputItem(i) /\ Apart(Dep(i)) /\ Dep(i)[2] = t /\ <<g[2][2], g[2][3]>> = Dep(i)
  <2>1. CASE \E i \in DOMAIN input.dependencies : Dep(i)[2] = t /\ g = InputItem(i)
    <3>1. PICK i \in DOMAIN input.dependencies : Dep(i)[2] = t /\ g = InputItem(i)
      BY Zenon, <2>1
    <3>2. PICK kind \in {"ready", "data", "lane"} : kind = IF Apart(Dep(i)) THEN "data" ELSE "ready"
      BY Zenon
    <3>3. g[2] = mailbox_name(kind, Dep(i)) /\ Dep(i) \in Pairs
      BY Zenon, <1>1, <3>1, <3>2
    <3>4. g[2][1] = kind /\ <<g[2][2], g[2][3]>> = Dep(i)
      BY Zenon, <3>3, MailboxParts
    <3>5. Apart(Dep(i))
      BY Zenon, <1>5, <3>2, <3>4
    <3> QED BY Zenon, <3>1, <3>4, <3>5
  <2>2. CASE \E d \in input.lanes : d[2] = t /\ g = LaneItem(d)
    <3>1. PICK d \in input.lanes : g[2] = mailbox_name("lane", d) /\ d \in Pairs
      BY Zenon, <1>2, <2>2
    <3>2. g[2][1] = "lane"
      BY Zenon, <3>1, MailboxParts
    <3> QED BY Zenon, <1>5, <3>2
  <2> QED BY Zenon, <2>1, <2>2, ReadsStandFor
<1> QED BY Zenon, <1>3, <1>4, <1>5

(* Nothing that the input determines changes while the actors run.           *)
LEMMA InputSame ==
    ASSUME input' = input
    PROVE  /\ \A i : Dep(i)' = Dep(i) /\ InputItem(i)' = InputItem(i)
           /\ \A d : Apart(d)' = Apart(d) /\ LaneItem(d)' = LaneItem(d)
           /\ \A t : GetsOf(t)' = GetsOf(t)
           /\ Transfers' = Transfers /\ AwaitsWhom' = AwaitsWhom
           /\ WaitCircle' = WaitCircle /\ NobodySends' = NobodySends
<1>1. \A d : Apart(d)' = Apart(d) /\ LaneItem(d)' = LaneItem(d)
  BY Zenon DEF Apart, LaneItem
<1>2. \A i : Dep(i)' = Dep(i) /\ InputItem(i)' = InputItem(i)
  BY Zenon, <1>1 DEF Dep, InputItem
<1>3. \A t : GetsOf(t)' = GetsOf(t)
  BY Zenon, <1>1 DEF GetsOf, InputsOf
<1>4. Transfers' = Transfers /\ AwaitsWhom' = AwaitsWhom
  BY Zenon, <1>1 DEF Transfers, AwaitsWhom
<1>5. WaitCircle' = WaitCircle /\ NobodySends' = NobodySends
  BY Zenon, <1>1 DEF WaitCircle, NobodySends
<1> QED BY Zenon, <1>1, <1>2, <1>3, <1>4, <1>5

(* The reads that are left become fewer.                                     *)
LEMMA InputStays ==
    ASSUME InputOK, input' = input, \A t \in SimTasks : gets'[t] \subseteq gets[t],
           runner' = "running" => runner = "running",
           \A t \in SimTasks : phase[t] # "none" => phase'[t] # "none",
           \A d \in Pairs : carrier[d] # "none" => carrier'[d] # "none"
    PROVE  InputOK'
<1>1. \A t : GetsOf(t)' = GetsOf(t)
  BY Zenon, InputSame
<1> QED BY Zenon, <1>1 DEF InputOK, Range

(* A message that is read is taken from nobody else (Receive).               *)
LEMMA OwedReceive ==
    ASSUME RunnerTypeOK, InputOK, OwedInv, NEW t \in SimTasks, Receive(t)
    PROVE  OwedInv' /\ InputOK'
<1>1. PICK g \in gets[t] :
          /\ gets' = [gets EXCEPT ![t] = @ \ {g}]
          /\ \/ LeftBehind(g[2]) /\ tokens' = [tokens EXCEPT ![g[2]] = @ - 1] /\ UNCHANGED carrier
             \/ /\ BeingPut(g[2]) /\ carrier' = [carrier EXCEPT ![<<g[2][2], g[2][3]>>] = "sent"]
                /\ UNCHANGED tokens
  BY Zenon DEF Receive, NextGets
<1>2. input' = input /\ phase' = phase /\ runner' = runner
  BY Zenon DEF Receive
<1>3. \A u \in SimTasks : gets'[u] = IF u = t THEN gets[u] \ {g} ELSE gets[u]
  BY Zenon, <1>1 DEF RunnerTypeOK
<1>4. \A m \in Mailboxes : tokens'[m] = tokens[m] \/ (m = g[2] /\ LeftBehind(m))
  BY Zenon, <1>1 DEF RunnerTypeOK
<1>5. \A d \in Pairs : \/ carrier'[d] = carrier[d]
                       \/ BeingPut(g[2]) /\ d = <<g[2][2], g[2][3]>> /\ carrier'[d] = "sent" /\ d \in Transfers
  BY Zenon, <1>1 DEF RunnerTypeOK, BeingPut
<1>6. InputOK'
  <2>1. \A u \in SimTasks : gets'[u] \subseteq gets[u]
    BY Zenon, <1>3
  <2>2. \A d \in Pairs : carrier[d] # "none" => carrier'[d] # "none"
    BY Zenon, <1>5
  <2> QED BY Zenon, <1>2, <2>1, <2>2, InputStays
<1>7. \A d \in Pairs : d[1] \in SimTasks /\ d[2] \in SimTasks
  BY Zenon, MailboxNames
<1>8. \A kind \in {"ready", "data", "lane"}, d \in Pairs : mailbox_name(kind, d) \in Mailboxes
  BY Zenon, MailboxNames
<1>r. /\ \A i \in DOMAIN input.dependencies : g[2] = mailbox_name("ready", Dep(i)) =>
            g = InputItem(i) /\ Dep(i)[2] = t /\ ~Apart(Dep(i))
      /\ \A d \in input.lanes : g[2] = mailbox_name("lane", d) => g = LaneItem(d) /\ d[2] = t
      /\ g[2][1] = "data" => \E i \in DOMAIN input.dependencies :
            g = InputItem(i) /\ Apart(Dep(i)) /\ Dep(i)[2] = t /\ <<g[2][2], g[2][3]>> = Dep(i)
  BY ReadIsTheOne
<1>9. ASSUME NEW i \in DOMAIN input.dependencies PROVE OwesInput(i)' /\ KnowsData(i)'
  <2> DEFINE d == Dep(i)
  <2>1. d \in Pairs /\ OwesInput(i) /\ KnowsData(i)
    BY Zenon, DepsArePairs DEF OwedInv
  <2>2. Dep(i)' = Dep(i) /\ InputItem(i)' = InputItem(i) /\ Apart(d)' = Apart(d) /\ Past(d[1])' = Past(d[1])
    BY Zenon, <1>2, InputSame DEF Past
  <2>3. ASSUME InputItem(i) \in gets'[d[2]], Apart(d) PROVE carrier'[d] # "sent"
    <3>1. InputItem(i) \in gets[d[2]]
      BY Zenon, <1>3, <1>7, <2>1, <2>3
    <3>2. carrier[d] # "sent"
      BY Zenon, <2>1, <2>3, <3>1 DEF OwesInput
    <3>3. ASSUME BeingPut(g[2]), d = <<g[2][2], g[2][3]>> PROVE FALSE
      <4>1. PICK k \in DOMAIN input.dependencies : g = InputItem(k) /\ Dep(k)[2] = t /\ <<g[2][2], g[2][3]>> = Dep(k)
        <5>1. g[2][1] = "data"
          BY Zenon, <3>3 DEF BeingPut
        <5> QED BY Zenon, <1>r, <5>1
      <4>2. k = i
        BY Zenon, <3>3, <4>1 DEF InputOK, IsInjective, Dep
      <4> QED BY Zenon, <1>3, <2>3, <4>1, <4>2
    <3> QED BY Zenon, <1>5, <2>1, <3>2, <3>3
  <2>4. ASSUME InputItem(i) \in gets'[d[2]], ~Apart(d), Past(d[1]) PROVE tokens'[mailbox_name("ready", d)] > 0
    <3>1. InputItem(i) \in gets[d[2]]
      BY Zenon, <1>3, <1>7, <2>1, <2>4
    <3>2. tokens[mailbox_name("ready", d)] > 0 /\ mailbox_name("ready", d) \in Mailboxes
      BY Zenon, <1>8, <2>1, <2>4, <3>1 DEF OwesInput
    <3>3. ASSUME mailbox_name("ready", d) = g[2] PROVE FALSE
      <4>0. g[2] = mailbox_name("ready", Dep(i))
        BY Zenon, <3>3
      <4>1. g = InputItem(i) /\ Dep(i)[2] = t
        BY Zenon, <1>r, <4>0
      <4> QED BY Zenon, <1>3, <2>4, <4>1
    <3> QED BY Zenon, <1>4, <3>2, <3>3
  <2>5. ASSUME Apart(d), phase[d[2]] # "none", InputItem(i) \notin gets'[d[2]] PROVE d \in input.data
    <3>1. CASE InputItem(i) \notin gets[d[2]]
      BY Zenon, <2>1, <2>5, <3>1 DEF KnowsData
    <3>2. CASE InputItem(i) \in gets[d[2]]
      <4>1. InputItem(i) = g
        BY Zenon, <1>3, <1>7, <2>1, <2>5, <3>2
      <4>2. g[2] = mailbox_name("data", d)
        <5>1. InputItem(i)[2] = mailbox_name(IF Apart(d) THEN "data" ELSE "ready", d)
          BY DEF InputItem, Dep
        <5> QED BY Zenon, <2>5, <4>1, <5>1
      <4>3. g[2][1] = "data" /\ <<g[2][2], g[2][3]>> = d
        BY Zenon, <2>1, <4>2, MailboxParts
      <4>4. BeingPut(g[2])
        BY Zenon, <1>1, <4>3 DEF LeftBehind
      <4> QED BY Zenon, <4>3, <4>4 DEF BeingPut, Transfers
    <3> QED BY Zenon, <3>1, <3>2
  <2>6. OwesInput(i)'
    BY Zenon, <2>2, <2>3, <2>4 DEF OwesInput
  <2>7. KnowsData(i)'
    BY Zenon, <1>2, <2>2, <2>5 DEF KnowsData
  <2> QED BY Zenon, <2>6, <2>7
<1>10. ASSUME NEW d \in Transfers PROVE OwesTransfer(d)'
  <2>1. d \in Pairs /\ Apart(d) /\ d \in Range(input.dependencies)
    BY Zenon, DepsArePairs DEF Transfers, InputOK
  <2>2. ASSUME Past(d[1]), carrier'[d] = "waiting" PROVE tokens'[mailbox_name("ready", d)] > 0
    <3>1. carrier[d] = "waiting"
      BY Zenon, <1>5, <2>1, <2>2
    <3>2. tokens[mailbox_name("ready", d)] > 0 /\ mailbox_name("ready", d) \in Mailboxes
      BY Zenon, <1>8, <2>1, <2>2, <3>1 DEF OwedInv, OwesTransfer
    <3>3. PICK i \in DOMAIN input.dependencies : d = Dep(i)
      BY Zenon, <2>1, DepsArePairs
    <3>4. mailbox_name("ready", d) # g[2]
      <4>1. ASSUME g[2] = mailbox_name("ready", Dep(i)) PROVE FALSE
        BY Zenon, <1>r, <2>1, <3>3, <4>1
      <4> QED BY Zenon, <3>3, <4>1
    <3> QED BY Zenon, <1>4, <3>2, <3>4
  <2> QED BY Zenon, <1>2, <2>2 DEF OwesTransfer, Past
<1>11. ASSUME NEW d \in input.lanes PROVE OwesLane(d)'
  <2>1. d \in Pairs
    BY Zenon, DepsArePairs
  <2>2. ASSUME Past(d[1]), LaneItem(d) \in gets'[d[2]] PROVE tokens'[mailbox_name("lane", d)] > 0
    <3>1. LaneItem(d) \in gets[d[2]]
      BY Zenon, <1>3, <1>7, <2>1, <2>2
    <3>2. tokens[mailbox_name("lane", d)] > 0 /\ mailbox_name("lane", d) \in Mailboxes
      BY Zenon, <1>8, <2>1, <2>2, <3>1 DEF OwedInv, OwesLane
    <3>3. ASSUME mailbox_name("lane", d) = g[2] PROVE FALSE
      <4>1. g = LaneItem(d) /\ d[2] = t
        BY Zenon, <1>r, <3>3
      <4> QED BY Zenon, <1>3, <2>2, <4>1
    <3> QED BY Zenon, <1>4, <3>2, <3>3
  <2>3. LaneItem(d)' = LaneItem(d) /\ Past(d[1])' = Past(d[1])
    BY Zenon, <1>2, InputSame DEF Past
  <2> QED BY Zenon, <2>2, <2>3 DEF OwesLane
<1>12. Transfers' = Transfers
  BY Zenon, <1>2, InputSame
<1> QED BY Zenon, <1>2, <1>6, <1>9, <1>10, <1>11, <1>12 DEF OwedInv

(* A task that finishes leaves a message for each of its readers (Conclude). *)
LEMMA OwedConclude ==
    ASSUME RunnerTypeOK, InputOK, OwedInv, NEW t \in SimTasks, Conclude(t)
    PROVE  OwedInv' /\ InputOK'
<1>1. /\ phase' = [phase EXCEPT ![t] = "finished"] /\ UNCHANGED <<input, gets, carrier, runner>>
      /\ tokens' = [m \in Mailboxes |-> tokens[m] + IF m \in SignalsOf(t) THEN 1 ELSE 0]
      /\ phase[t] = "computing"
  BY Zenon DEF Conclude
<1>2. \A u \in SimTasks : phase'[u] = IF u = t THEN "finished" ELSE phase[u]
  BY Zenon, <1>1 DEF RunnerTypeOK
<1>3. \A u \in SimTasks : (Past(u)' => u = t \/ Past(u)) /\ (phase'[u] # "none" => phase[u] # "none")
                          /\ (phase[u] # "none" => phase'[u] # "none")
  BY <1>1, <1>2 DEF Past
<1>4. \A m \in Mailboxes : (tokens[m] > 0 => tokens'[m] > 0) /\ (m \in SignalsOf(t) => tokens'[m] > 0)
  BY <1>1 DEF RunnerTypeOK
<1>5. InputOK'
  BY Zenon, <1>1, <1>3, InputStays
<1>6. \A d \in Pairs : d[1] \in SimTasks /\ d[2] \in SimTasks
  BY Zenon, MailboxNames
<1>7. \A kind \in {"ready", "data", "lane"}, d \in Pairs : mailbox_name(kind, d) \in Mailboxes
  BY Zenon, MailboxNames
<1>8. ASSUME NEW i \in DOMAIN input.dependencies PROVE OwesInput(i)' /\ KnowsData(i)'
  <2>1. Dep(i) \in Pairs /\ Dep(i) \in Range(input.dependencies) /\ OwesInput(i) /\ KnowsData(i)
    BY Zenon, DepsArePairs DEF OwedInv
  <2>2. Dep(i)' = Dep(i) /\ InputItem(i)' = InputItem(i) /\ Apart(Dep(i))' = Apart(Dep(i))
    BY Zenon, <1>1, InputSame
  <2>3. Dep(i)[1] = t => mailbox_name("ready", Dep(i)) \in SignalsOf(t)
    BY Zenon, <2>1 DEF SignalsOf
  <2>4. OwesInput(i)'
    BY Zenon, <1>1, <1>3, <1>4, <1>6, <1>7, <2>1, <2>2, <2>3 DEF OwesInput
  <2>5. KnowsData(i)'
    BY Zenon, <1>1, <1>3, <1>6, <2>1, <2>2 DEF KnowsData
  <2> QED BY Zenon, <2>4, <2>5
<1>9. ASSUME NEW d \in Transfers PROVE OwesTransfer(d)'
  <2>1. d \in Pairs /\ d \in Range(input.dependencies) /\ OwesTransfer(d)
    BY Zenon, DepsArePairs DEF Transfers, InputOK, OwedInv
  <2>2. d[1] = t => mailbox_name("ready", d) \in SignalsOf(t)
    BY Zenon, <2>1 DEF SignalsOf
  <2> QED BY Zenon, <1>1, <1>3, <1>4, <1>6, <1>7, <2>1, <2>2 DEF OwesTransfer
<1>10. ASSUME NEW d \in input.lanes PROVE OwesLane(d)'
  <2>1. d \in Pairs /\ OwesLane(d) /\ LaneItem(d)' = LaneItem(d)
    BY Zenon, <1>1, DepsArePairs, InputSame DEF OwedInv
  <2>2. d[1] = t => mailbox_name("lane", d) \in SignalsOf(t)
    BY Zenon DEF SignalsOf
  <2> QED BY Zenon, <1>1, <1>3, <1>4, <1>6, <1>7, <2>1, <2>2 DEF OwesLane
<1>11. Transfers' = Transfers
  BY Zenon, <1>1, InputSame
<1> QED BY Zenon, <1>1, <1>5, <1>8, <1>9, <1>10, <1>11 DEF OwedInv

(* The message that a transfer takes was meant for it (Depart).              *)
LEMMA OwedDepart ==
    ASSUME RunnerTypeOK, InputOK, OwedInv, NEW e \in Pairs, Depart(e)
    PROVE  OwedInv' /\ InputOK'
<1>1. /\ UNCHANGED <<input, gets, phase, runner>> /\ e \in Transfers /\ carrier[e] = "waiting"
      /\ tokens' = [tokens EXCEPT ![mailbox_name("ready", e)] = @ - 1]
      /\ carrier' = [carrier EXCEPT ![e] = "putting"]
  BY Zenon DEF Depart, MayDepart
<1>2. \A m \in Mailboxes : tokens'[m] = tokens[m] \/ m = mailbox_name("ready", e)
  BY Zenon, <1>1 DEF RunnerTypeOK
<1>3. \A d \in Pairs : carrier'[d] = IF d = e THEN "putting" ELSE carrier[d]
  BY Zenon, <1>1 DEF RunnerTypeOK
<1>4. InputOK'
  <2>1. \A d \in Pairs : carrier[d] # "none" => carrier'[d] # "none"
    BY Zenon, <1>3
  <2> QED BY Zenon, <1>1, <2>1, InputStays
<1>5. \A kind \in {"ready", "data", "lane"}, d \in Pairs : mailbox_name(kind, d) \in Mailboxes
  BY Zenon, MailboxNames
<1>6. \A d \in Pairs : d # e => mailbox_name("ready", d) # mailbox_name("ready", e)
  BY MailboxApart
<1>7. \A d \in Pairs : mailbox_name("lane", d) # mailbox_name("ready", e)
  BY MailboxApart
<1>8. Apart(e)
  BY Zenon, <1>1 DEF Transfers
<1>9. ASSUME NEW i \in DOMAIN input.dependencies PROVE OwesInput(i)' /\ KnowsData(i)'
  <2>1. Dep(i) \in Pairs /\ OwesInput(i) /\ KnowsData(i)
    BY Zenon, DepsArePairs DEF OwedInv
  <2>2. Dep(i)' = Dep(i) /\ InputItem(i)' = InputItem(i) /\ Apart(Dep(i))' = Apart(Dep(i))
        /\ Past(Dep(i)[1])' = Past(Dep(i)[1])
    BY Zenon, <1>1, InputSame DEF Past
  <2>3. CASE Apart(Dep(i))
    <3>1. carrier[Dep(i)] # "sent" => carrier'[Dep(i)] # "sent"
      BY Zenon, <1>3, <2>1
    <3>2. OwesInput(i)'
      BY Zenon, <1>1, <2>1, <2>2, <2>3, <3>1 DEF OwesInput
    <3>3. KnowsData(i)'
      BY Zenon, <1>1, <2>1, <2>2 DEF KnowsData
    <3> QED BY Zenon, <3>2, <3>3
  <2>4. CASE ~Apart(Dep(i))
    <3>1. Dep(i) # e
      BY Zenon, <1>8, <2>4
    <3>2. tokens'[mailbox_name("ready", Dep(i))] = tokens[mailbox_name("ready", Dep(i))]
      BY Zenon, <1>2, <1>5, <1>6, <2>1, <3>1
    <3> QED BY Zenon, <1>1, <2>1, <2>2, <2>4, <3>2 DEF OwesInput, KnowsData
  <2> QED BY Zenon, <2>3, <2>4
<1>10. ASSUME NEW d \in Transfers PROVE OwesTransfer(d)'
  <2>1. d \in Pairs /\ OwesTransfer(d) /\ Past(d[1])' = Past(d[1])
    BY Zenon, <1>1, DepsArePairs DEF Transfers, InputOK, OwedInv, Past
  <2>2. CASE d = e
    BY Zenon, <1>3, <2>1, <2>2 DEF OwesTransfer
  <2>3. CASE d # e
    <3>1. tokens'[mailbox_name("ready", d)] = tokens[mailbox_name("ready", d)]
      BY Zenon, <1>2, <1>5, <1>6, <2>1, <2>3
    <3> QED BY Zenon, <1>3, <2>1, <2>3, <3>1 DEF OwesTransfer
  <2> QED BY Zenon, <2>2, <2>3
<1>11. ASSUME NEW d \in input.lanes PROVE OwesLane(d)'
  <2>1. d \in Pairs /\ OwesLane(d) /\ LaneItem(d)' = LaneItem(d) /\ Past(d[1])' = Past(d[1])
    BY Zenon, <1>1, DepsArePairs, InputSame DEF OwedInv, Past
  <2>2. tokens'[mailbox_name("lane", d)] = tokens[mailbox_name("lane", d)]
    BY Zenon, <1>2, <1>5, <1>7, <2>1
  <2> QED BY Zenon, <1>1, <2>1, <2>2 DEF OwesLane
<1>12. Transfers' = Transfers
  BY Zenon, <1>1, InputSame
<1> QED BY Zenon, <1>1, <1>4, <1>9, <1>10, <1>11, <1>12 DEF OwedInv

(* When the actors are started nobody has finished and all reads are left.   *)
LEMMA OwedLaunched ==
    ASSUME RunnerIInv', NEW place \in Assignments, NEW order \in Orders, NEW data,
           runner' = "running",
           input' = buildRunnerInput(place, order, data),
           gets' = [t \in SimTasks |-> GetsOf(t)'],
           phase' = [t \in SimTasks |-> "waiting"],
           carrier' = [d \in Pairs |-> "waiting"]
    PROVE  OwedInv' /\ InputOK' /\ BegunInv'
<1>1. input'.dependencies = order /\ input'.data = data \cap Range(order)
  BY DEF buildRunnerInput
<1>2. \A t \in SimTasks : phase'[t] = "waiting" /\ ~Past(t)' /\ gets'[t] = GetsOf(t)'
  BY Zenon DEF Past
<1>3. \A d \in Pairs : carrier'[d] = "waiting" /\ d[1] \in SimTasks /\ d[2] \in SimTasks
  BY Zenon, MailboxNames
<1>4. InputOK'
  <2>1. IsInjective(order)
    BY Zenon, RunnerAssumption
  <2> QED BY Zenon, <1>1, <1>2, <1>3, <2>1 DEF InputOK
<1>5. order \in Seq(Pairs)
  BY Zenon, RunnerAssumption DEF Pairs
<1>6. \A i \in DOMAIN order : order[i] \in Pairs
  BY <1>5
<1>7. ASSUME NEW i \in DOMAIN input'.dependencies PROVE OwesInput(i)' /\ KnowsData(i)'
  <2>1. Dep(i)' = order[i] /\ Dep(i)' \in Pairs
    BY Zenon, <1>1, <1>6 DEF Dep
  <2>2. InputItem(i)' \in GetsOf(Dep(i)[2])'
    BY Zenon DEF GetsOf, InputsOf, InputItem, Dep
  <2>3. OwesInput(i)'
    BY Zenon, <1>2, <1>3, <2>1 DEF OwesInput
  <2>4. KnowsData(i)'
    BY Zenon, <1>2, <1>3, <2>1, <2>2 DEF KnowsData
  <2> QED BY Zenon, <2>3, <2>4
<1>8. \A d \in Range(order) : d \in Pairs
  BY Zenon, <1>6 DEF Range
<1>9. ASSUME NEW d \in Transfers' PROVE OwesTransfer(d)'
  BY Zenon, <1>1, <1>2, <1>3, <1>8 DEF OwesTransfer, Transfers
<1>10. ASSUME NEW d \in input'.lanes PROVE OwesLane(d)'
  <2>1. d \in Pairs
    BY Zenon DEF RunnerIInv, RunnerTypeOK
  <2> QED BY Zenon, <1>2, <1>3, <2>1 DEF OwesLane
<1>11. Begun' = {}
  BY Zenon, <1>2 DEF Begun
<1>12. BegunInv'
  BY Zenon, <1>11, GroundedStart DEF BegunInv, Grounded
<1> QED BY Zenon, <1>4, <1>7, <1>9, <1>10, <1>12 DEF OwedInv

(* A task that starts waited for tasks that have started before it.          *)
LEMMA BegunGrows ==
    ASSUME RunnerIInv, RunnerIInv', BegunInv, NEW t \in SimTasks, Compute(t)
    PROVE  BegunInv'
<1>1. input' = input /\ phase[t] = "waiting" /\ phase' = [phase EXCEPT ![t] = "computing"]
  BY Zenon DEF Compute, ActorWaits
<1>2. Begun' = Begun \cup {t} /\ t \notin Begun
  <2>1. \A u \in SimTasks : phase'[u] = IF u = t THEN "computing" ELSE phase[u]
    BY Zenon, <1>1 DEF RunnerIInv, RunnerTypeOK
  <2> QED BY Zenon, <1>1, <2>1 DEF Begun
<1>3. ASSUME NEW u \in SimTasks, <<t, u>> \in AwaitsWhom PROVE u \in Begun
  <2>1. PICK d \in Range(input.dependencies) \cup input.lanes : <<t, u>> = <<d[2], d[1]>>
    BY Zenon, <1>3 DEF AwaitsWhom
  <2>2. d[2] = t /\ d[1] = u
    BY <2>1
  <2>3. gets[t] = {} /\ ReadInv(t)
    BY Zenon DEF Compute, RunnerIInv
  <2>4. Past(d[1])
    <3>1. CASE d \in input.lanes
      BY Zenon, <1>1, <2>2, <2>3, <3>1 DEF ReadInv
    <3>2. CASE d \in Range(input.dependencies)
      <4>1. PICK i \in DOMAIN input.dependencies : d = input.dependencies[i]
        BY Zenon, <3>2 DEF Range
      <4> QED BY Zenon, <1>1, <2>2, <2>3, <4>1 DEF ReadInv, Got
    <3> QED BY Zenon, <3>1, <3>2
  <2> QED BY Zenon, <2>2, <2>4 DEF Begun, Past
<1>4. AwaitsWhom' = AwaitsWhom
  BY Zenon, <1>1, InputSame
<1>5. Grounded(SimTasks, Begun \cup {t}, AwaitsWhom)
  BY Zenon, <1>2, <1>3, GroundedGrows DEF BegunInv
<1>6. Grounded(SimTasks, Begun', AwaitsWhom')
  BY Zenon, <1>2, <1>4, <1>5
<1> QED BY Zenon, <1>6 DEF BegunInv, Grounded

(* What has started stays the same when nothing starts.                      *)
LEMMA BegunStays ==
    ASSUME BegunInv, input' = input, \A t \in SimTasks : t \in Begun' <=> t \in Begun
    PROVE  BegunInv'
<1>1. Begun' = Begun
  BY Zenon DEF Begun
<1>2. AwaitsWhom' = AwaitsWhom
  BY Zenon, InputSame
<1> QED BY Zenon, <1>1, <1>2 DEF BegunInv, Grounded

(* A task that cannot go on waits for one that has not finished.             *)
LEMMA StuckAwaits ==
    ASSUME DeadlockInv, runner = "running", ~CanMove, ~NobodySends,
           NEW t \in SimTasks, phase[t] # "finished"
    PROVE  \E u \in SimTasks : phase[u] # "finished" /\ <<u, t>> \in Range(input.dependencies) \cup input.lanes
<1>t. RunnerTypeOK /\ InputOK /\ OwedInv
  BY Zenon DEF DeadlockInv, RunnerIInv
<1>1. phase[t] = "waiting" /\ gets[t] # {} /\ \A g \in NextGets(t) : ~LeftBehind(g[2]) /\ ~BeingPut(g[2])
  <2>1. phase[t] \in {"none", "waiting", "computing", "finished"} /\ phase[t] # "none"
    BY Zenon, <1>t DEF RunnerTypeOK, InputOK
  <2> QED BY Zenon, <2>1 DEF CanMove
<1>2. PICK g \in gets[t] : g \in NextGets(t)
  <2> DEFINE S == {h[1] : h \in gets[t]}
  <2>1. gets[t] \subseteq Nat \X Mailboxes
    BY Zenon, <1>t DEF RunnerTypeOK
  <2>2. \A h \in gets[t] : h[1] \in Nat
    BY <2>1
  <2>3. S \subseteq Nat /\ S # {}
    BY Zenon, <1>1, <2>2
  <2>4. PICK m \in S : \A n \in S : m <= n
    BY Zenon, <2>3, LeastNatural
  <2> QED BY Zenon, <2>4 DEF NextGets
<1>3. ~LeftBehind(g[2]) /\ ~BeingPut(g[2])
  BY Zenon, <1>1, <1>2
<1>4. ASSUME NEW d \in Pairs, d \in Range(input.dependencies) \cup input.lanes, d[2] = t, ~Past(d[1])
      PROVE  \E u \in SimTasks : phase[u] # "finished" /\ <<u, t>> \in Range(input.dependencies) \cup input.lanes
  <2>1. d[1] \in SimTasks /\ d = <<d[1], t>>
    BY <1>4 DEF Pairs
  <2> QED BY Zenon, <1>4, <2>1 DEF Past
<1>5. CASE \E i \in DOMAIN input.dependencies : Dep(i)[2] = t /\ g = InputItem(i)
  <2>1. PICK i \in DOMAIN input.dependencies : Dep(i)[2] = t /\ g = InputItem(i)
    BY Zenon, <1>5
  <2>2. Dep(i) \in Pairs /\ Dep(i) \in Range(input.dependencies) /\ OwesInput(i) /\ InputItem(i) \in gets[Dep(i)[2]]
    BY Zenon, <1>t, <2>1, DepsArePairs DEF OwedInv
  <2>3. InputItem(i)[2] = mailbox_name(IF Apart(Dep(i)) THEN "data" ELSE "ready", Dep(i))
    BY DEF InputItem, Dep
  <2>4. CASE Apart(Dep(i))
    <3>1. Dep(i) \in Transfers
      BY Zenon, <2>2, <2>4 DEF NobodySends, Transfers
    <3>2. g[2] = mailbox_name("data", Dep(i))
      BY Zenon, <2>1, <2>3, <2>4
    <3>3. g[2][1] = "data" /\ <<g[2][2], g[2][3]>> = Dep(i)
      BY Zenon, <2>2, <3>2, MailboxParts
    <3>4. carrier[Dep(i)] # "putting"
      BY Zenon, <1>3, <3>1, <3>3 DEF BeingPut
    <3>5. carrier[Dep(i)] # "sent"
      BY Zenon, <2>2, <2>4 DEF OwesInput
    <3>6. carrier[Dep(i)] = "waiting"
      <4>1. carrier[Dep(i)] \in {"none", "waiting", "putting", "sent"} /\ carrier[Dep(i)] # "none"
        BY Zenon, <1>t, <2>2 DEF RunnerTypeOK, InputOK
      <4> QED BY Zenon, <3>4, <3>5, <4>1
    <3>7. ~(tokens[mailbox_name("ready", Dep(i))] > 0)
      BY Zenon, <2>2, <3>1, <3>6 DEF CanMove, MayDepart
    <3>8. ~Past(Dep(i)[1])
      BY Zenon, <1>t, <3>1, <3>6, <3>7 DEF OwedInv, OwesTransfer
    <3> QED BY Zenon, <1>4, <2>1, <2>2, <3>8
  <2>5. CASE ~Apart(Dep(i))
    <3>1. g[2] = mailbox_name("ready", Dep(i))
      BY Zenon, <2>1, <2>3, <2>5
    <3>2. g[2][1] = "ready"
      BY Zenon, <2>2, <3>1, MailboxParts
    <3>3. ~(tokens[mailbox_name("ready", Dep(i))] > 0)
      BY Zenon, <1>3, <3>1, <3>2 DEF LeftBehind
    <3>4. ~Past(Dep(i)[1])
      BY Zenon, <2>2, <2>5, <3>3 DEF OwesInput
    <3> QED BY Zenon, <1>4, <2>1, <2>2, <3>4
  <2> QED BY Zenon, <2>4, <2>5
<1>6. CASE \E d \in input.lanes : d[2] = t /\ g = LaneItem(d)
  <2>1. PICK d \in input.lanes : d[2] = t /\ g = LaneItem(d)
    BY Zenon, <1>6
  <2>2. d \in Pairs /\ OwesLane(d)
    BY Zenon, <1>t, DepsArePairs DEF OwedInv
  <2>3. g[2] = mailbox_name("lane", d)
    BY <2>1 DEF LaneItem
  <2>4. g[2][1] = "lane"
    BY Zenon, <2>2, <2>3, MailboxParts
  <2>5. ~(tokens[mailbox_name("lane", d)] > 0)
    BY Zenon, <1>3, <2>3, <2>4 DEF LeftBehind
  <2>6. ~Past(d[1])
    BY Zenon, <2>1, <2>2, <2>5 DEF OwesLane
  <2> QED BY Zenon, <1>4, <2>1, <2>2, <2>6
<1> QED BY Zenon, <1>t, <1>5, <1>6, ReadsStandFor

(* engine.run returns.                                                       *)
LEMMA EngineExplained ==
    ASSUME DeadlockInv, EngineStops
    PROVE  DeadlocksAreExplained'
<1>1. /\ runner = "running" /\ ~CanMove /\ input' = input
      /\ runner' = IF AllFinished THEN "written" ELSE "deadlock"
  BY Zenon DEF EngineStops
<1>2. WaitCircle' = WaitCircle /\ NobodySends' = NobodySends
  BY Zenon, <1>1, InputSame
<1>3. ASSUME ~AllFinished, ~NobodySends PROVE WaitCircle
  <2> DEFINE set == {t \in SimTasks : phase[t] # "finished"}
  <2>1. set \in (SUBSET SimTasks) \ {{}}
    BY Zenon, <1>3 DEF AllFinished
  <2>2. \A t \in set : \E u \in set : <<u, t>> \in Range(input.dependencies) \cup input.lanes
    BY Zenon, <1>1, <1>3, StuckAwaits
  <2> QED BY Zenon, <2>1, <2>2 DEF WaitCircle
<1>4. ASSUME AllFinished, WaitCircle PROVE FALSE
  <2>1. PICK set \in (SUBSET SimTasks) \ {{}} : \A t \in set : \E u \in set :
            <<u, t>> \in Range(input.dependencies) \cup input.lanes
    BY Zenon, <1>4 DEF WaitCircle
  <2>2. set \in SUBSET Begun /\ set # {}
    BY Zenon, <1>4, <2>1 DEF AllFinished, Begun
  <2>3. PICK t \in set : \A u \in set : <<t, u>> \notin AwaitsWhom
    BY Zenon, <2>2 DEF DeadlockInv, BegunInv, Grounded
  <2>4. PICK u \in set : <<u, t>> \in Range(input.dependencies) \cup input.lanes
    BY Zenon, <2>1, <2>3
  <2>5. <<t, u>> = << <<u, t>>[2], <<u, t>>[1] >>
    OBVIOUS
  <2> QED BY Zenon, <2>3, <2>4, <2>5 DEF AwaitsWhom
<1>5. ASSUME AllFinished, NobodySends PROVE FALSE
  <2>t. RunnerTypeOK /\ OwedInv
    BY Zenon DEF DeadlockInv, RunnerIInv
  <2>1. PICK d \in Range(input.dependencies) : Apart(d) /\ d \notin input.data
    BY Zenon, <1>5 DEF NobodySends
  <2>2. PICK i \in DOMAIN input.dependencies : d = Dep(i) /\ Dep(i) \in Pairs
    BY Zenon, <2>t, DepsArePairs
  <2>3. d[2] \in SimTasks
    BY Zenon, <2>2, MailboxNames
  <2>4. phase[d[2]] = "finished" /\ gets[d[2]] = {}
    BY Zenon, <1>5, <2>3 DEF AllFinished, DeadlockInv, RunnerIInv, ReadInv
  <2> QED BY Zenon, <2>t, <2>1, <2>2, <2>4 DEF OwedInv, KnowsData
<1> QED BY Zenon, <1>1, <1>2, <1>3, <1>4, <1>5 DEF DeadlocksAreExplained

(* Every step keeps what the messages are owed to.                           *)
LEMMA DeadlockStep == DeadlockInv /\ [RunnerNext]_runnerVars => DeadlockInv'
<1> SUFFICES ASSUME DeadlockInv, [RunnerNext]_runnerVars PROVE DeadlockInv'
  BY Zenon
<1>t. RunnerTypeOK /\ InputOK /\ OwedInv /\ BegunInv /\ RunnerIInv /\ RunnerIInv'
  BY Zenon, RunnerStep DEF DeadlockInv, RunnerIInv
<1>f. \A t \in SimTasks : phase[t] \in {"none", "waiting", "computing", "finished"}
  BY Zenon, <1>t DEF RunnerTypeOK
<1>1. ASSUME NEW t \in SimTasks, Receive(t) PROVE DeadlockInv'
  <2>1. input' = input /\ phase' = phase /\ runner' = "running"
    BY Zenon, <1>1 DEF Receive, ActorWaits
  <2>2. BegunInv'
    BY Zenon, <1>t, <2>1, BegunStays DEF Begun
  <2> QED BY Zenon, <1>1, <1>t, <2>1, <2>2, OwedReceive DEF DeadlockInv, DeadlocksAreExplained
<1>2. ASSUME NEW t \in SimTasks, Compute(t) PROVE DeadlockInv'
  <2>1. /\ UNCHANGED <<input, gets, carrier, tokens, runner>> /\ runner = "running" /\ phase[t] = "waiting"
        /\ phase' = [phase EXCEPT ![t] = "computing"]
    BY Zenon, <1>2 DEF Compute, ActorWaits
  <2>2. \A u \in SimTasks : phase'[u] = IF u = t THEN "computing" ELSE phase[u]
    BY Zenon, <1>t, <2>1 DEF RunnerTypeOK
  <2>3. \A u \in SimTasks : Past(u)' = Past(u) /\ ((phase'[u] # "none") = (phase[u] # "none"))
    BY <2>1, <2>2 DEF Past
  <2>4. InputOK'
    BY Zenon, <1>t, <2>1, <2>3, InputStays
  <2>5. OwedInv'
    <3>1. /\ \A i : Dep(i)' = Dep(i) /\ InputItem(i)' = InputItem(i)
          /\ \A d : Apart(d)' = Apart(d) /\ LaneItem(d)' = LaneItem(d)
          /\ Transfers' = Transfers
      BY Zenon, <2>1, InputSame
    <3>2. \A d \in Pairs : d[1] \in SimTasks /\ d[2] \in SimTasks
      BY Zenon, MailboxNames
    <3>3. ASSUME NEW i \in DOMAIN input.dependencies PROVE OwesInput(i)' /\ KnowsData(i)'
      <4>1. Dep(i) \in Pairs /\ OwesInput(i) /\ KnowsData(i)
        BY Zenon, <1>t, DepsArePairs DEF OwedInv
      <4>2. Past(Dep(i)[1])' = Past(Dep(i)[1]) /\ (phase'[Dep(i)[2]] # "none") = (phase[Dep(i)[2]] # "none")
        BY Zenon, <2>3, <3>1, <3>2, <4>1
      <4>3. OwesInput(i)'
        BY Zenon, <2>1, <3>1, <4>1, <4>2 DEF OwesInput
      <4>4. KnowsData(i)'
        BY Zenon, <2>1, <3>1, <4>1, <4>2 DEF KnowsData
      <4> QED BY Zenon, <4>3, <4>4
    <3>4. ASSUME NEW d \in Transfers PROVE OwesTransfer(d)'
      <4>1. d \in Pairs /\ OwesTransfer(d)
        BY Zenon, <1>t, DepsArePairs DEF Transfers, InputOK, OwedInv
      <4> QED BY Zenon, <2>1, <2>3, <3>2, <4>1 DEF OwesTransfer
    <3>5. ASSUME NEW d \in input.lanes PROVE OwesLane(d)'
      <4>1. d \in Pairs /\ OwesLane(d)
        BY Zenon, <1>t, DepsArePairs DEF OwedInv
      <4> QED BY Zenon, <2>1, <2>3, <3>1, <3>2, <4>1 DEF OwesLane
    <3> QED BY Zenon, <2>1, <3>1, <3>3, <3>4, <3>5 DEF OwedInv
  <2>6. BegunInv'
    BY Zenon, <1>2, <1>t, BegunGrows
  <2> QED BY Zenon, <1>t, <2>1, <2>4, <2>5, <2>6 DEF DeadlockInv, DeadlocksAreExplained
<1>3. ASSUME NEW t \in SimTasks, Conclude(t) PROVE DeadlockInv'
  <2>1. /\ input' = input /\ runner' = "running" /\ phase[t] = "computing"
        /\ phase' = [phase EXCEPT ![t] = "finished"]
    BY Zenon, <1>3 DEF Conclude
  <2>2. \A u \in SimTasks : phase'[u] = IF u = t THEN "finished" ELSE phase[u]
    BY Zenon, <1>t, <2>1 DEF RunnerTypeOK
  <2>3. \A u \in SimTasks : u \in Begun' <=> u \in Begun
    BY Zenon, <2>1, <2>2 DEF Begun
  <2>4. BegunInv'
    BY Zenon, <1>t, <2>1, <2>3, BegunStays
  <2> QED BY Zenon, <1>3, <1>t, <2>1, <2>4, OwedConclude DEF DeadlockInv, DeadlocksAreExplained
<1>4. ASSUME NEW d \in Pairs, Depart(d) PROVE DeadlockInv'
  <2>1. input' = input /\ phase' = phase /\ runner' = "running"
    BY Zenon, <1>4 DEF Depart
  <2>2. BegunInv'
    BY Zenon, <1>t, <2>1, BegunStays DEF Begun
  <2> QED BY Zenon, <1>4, <1>t, <2>1, <2>2, OwedDepart DEF DeadlockInv, DeadlocksAreExplained
<1>5. ASSUME UNCHANGED <<input, gets, phase, carrier, tokens>>, runner' # "running" \/ runner' = runner
      PROVE  InputOK' /\ OwedInv' /\ BegunInv'
  <2>1. BegunInv'
    BY Zenon, <1>5, <1>t, BegunStays DEF Begun
  <2>2. InputOK'
    BY Zenon, <1>5, <1>t, InputStays
  <2>3. /\ \A i : Dep(i)' = Dep(i) /\ InputItem(i)' = InputItem(i)
        /\ \A d : Apart(d)' = Apart(d) /\ LaneItem(d)' = LaneItem(d)
        /\ Transfers' = Transfers
    BY Zenon, <1>5, InputSame
  <2>4. \A i : OwesInput(i)' = OwesInput(i) /\ KnowsData(i)' = KnowsData(i)
    BY Zenon, <1>5, <2>3 DEF OwesInput, KnowsData, Past
  <2>5. \A d : OwesTransfer(d)' = OwesTransfer(d) /\ OwesLane(d)' = OwesLane(d)
    BY Zenon, <1>5, <2>3 DEF OwesTransfer, OwesLane, Past
  <2>6. OwedInv'
    BY Zenon, <1>5, <1>t, <2>3, <2>4, <2>5 DEF OwedInv
  <2> QED BY Zenon, <2>1, <2>2, <2>6
<1>6. CASE EngineStops
  <2>1. UNCHANGED <<input, gets, phase, carrier, tokens>> /\ runner' # "running"
    BY Zenon, <1>6 DEF EngineStops
  <2> QED BY Zenon, <1>5, <1>6, <1>t, <2>1, EngineExplained DEF DeadlockInv
<1>7. CASE UNCHANGED runnerVars
  <2>1. UNCHANGED <<input, gets, phase, carrier, tokens>> /\ runner' = runner
    BY Zenon, <1>7 DEF runnerVars
  <2>2. WaitCircle' = WaitCircle /\ NobodySends' = NobodySends
    BY Zenon, <2>1, InputSame
  <2> QED BY Zenon, <1>5, <1>t, <2>1, <2>2 DEF DeadlockInv, DeadlocksAreExplained
<1>8. ASSUME NEW place \in Assignments, NEW order \in Orders, NEW data, Launched(place, order, data)
      PROVE  DeadlockInv'
  <2>1. CASE runner' = "refused" /\ UNCHANGED <<input, gets, phase, carrier, tokens>>
    <3>1. InputOK' /\ OwedInv' /\ BegunInv'
      BY Zenon, <1>5, <2>1
    <3> QED BY Zenon, <1>t, <2>1, <3>1 DEF DeadlockInv, DeadlocksAreExplained
  <2>2. CASE /\ runner' = "running"
             /\ input' = buildRunnerInput(place, order, data)
             /\ gets' = [t \in SimTasks |-> GetsOf(t)']
             /\ phase' = [t \in SimTasks |-> "waiting"]
             /\ carrier' = [d \in Pairs |-> "waiting"]
    <3>1. OwedInv' /\ InputOK' /\ BegunInv'
      BY Zenon, <1>t, <2>2, OwedLaunched
    <3> QED BY Zenon, <1>t, <2>2, <3>1 DEF DeadlockInv, DeadlocksAreExplained
  <2> QED BY Zenon, <1>8, <2>1, <2>2 DEF Launched
<1> QED BY Zenon, <1>1, <1>2, <1>3, <1>4, <1>6, <1>7, <1>8 DEF RunnerNext

(* main.cpp, create_transfers and run_simulation: in every simulation of     *)
(* every plan, the engine stops before all tasks have finished only on a     *)
(* circle of dependencies and lanes or on a dependency without data between  *)
(* two hosts, and when it writes a result there is neither.                  *)
THEOREM DeadlocksAlwaysExplained == RunnerSpec => []DeadlocksAreExplained
<1>1. RunnerInit => DeadlockInv
  <2> SUFFICES ASSUME RunnerInit PROVE DeadlockInv
    BY Zenon
  <2>1. RunnerIInv
    BY Zenon, RunnerIInvInit
  <2>2. input.dependencies = <<>> /\ input.data = {} /\ input.lanes = {} /\ runner = "none"
    BY Zenon DEF RunnerInit, NoInput
  <2>3. DOMAIN input.dependencies = {}
    BY <2>2
  <2>4. \A t \in SimTasks : gets[t] = {} /\ phase[t] = "none"
    BY Zenon DEF RunnerInit
  <2>5. InputOK
    BY Zenon, <2>2, <2>3, <2>4 DEF InputOK, IsInjective
  <2>6. OwedInv
    BY Zenon, <2>2, <2>3 DEF OwedInv, Transfers
  <2>7. Begun = {}
    BY Zenon, <2>4 DEF Begun
  <2>8. BegunInv
    BY Zenon, <2>7, GroundedStart DEF BegunInv
  <2>9. DeadlocksAreExplained
    BY Zenon, <2>2 DEF DeadlocksAreExplained
  <2> QED BY Zenon, <2>1, <2>5, <2>6, <2>8, <2>9 DEF DeadlockInv
<1>2. DeadlockInv => DeadlocksAreExplained
  BY Zenon DEF DeadlockInv
<1> QED BY <1>1, <1>2, DeadlockStep, PTL DEF RunnerSpec

=============================================================================
