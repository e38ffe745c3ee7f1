------------------------------ MODULE MCPlans ------------------------------
(* One instance for TLC of a run and of what it starts from: workflows,      *)
(* plans, the paths of a network, the registry of runtimes, the index of a   *)
(* storage, the simulator's program and the observer of workspaces.          *)
(* Their models share no variables, so a behaviour is one of a single        *)
(* component, chosen once: the numbers of states add up.                     *)
EXTENDS ExecutionRun, Planning, NetworkPaths, RuntimeRegistry, StorageIndex, Runner, Observer, MCWorkflows

VARIABLE component

\* A run: three activities that depend on nothing and one that depends on two
\* of them, on three runtimes
MCActivities == 1..4
MCPred == (1 :> {}) @@ (2 :> {}) @@ (3 :> {}) @@ (4 :> {1, 2})
MCMixed == (1 :> "slurm") @@ (2 :> "local") @@ (3 :> "kubernetes") @@ (4 :> "local")

\* Plans: three activities with any of six dependencies, circles among them
MCTasks == <<"a", "b", "c">>
MCDependencies == {<<"b","a">>, <<"c","b">>, <<"c","a">>, <<"b","c">>, <<"a","c">>, <<"a","a">>}
MCCarrying == MCDependencies \ {<<"c","a">>}
MCPlaces == [host : {"h1", "h2"}, slot : {"s"}, order : {1, 2}]
  \cup {[host |-> "h3", slot |-> "s", order |-> 1], [host |-> "h1", slot |-> "s", order |-> 3]}

\* Networks: the direct link may be the longer way, two ways may be equally long
\* and differ in cost, and a link may take no time.
MCLink(from, to, s, c) == [from |-> from, to |-> to, seconds |-> s, cost |-> c]
MCNetworks ==
  {{}, {MCLink("h1", "h3", 1, 2), MCLink("h3", "h2", 1, 0), MCLink("h1", "h2", 3, 0), MCLink("h2", "h1", 2, 1)}}
MCTopologies == MCNetworks \cup
  {{MCLink("h1", "h3", 1, 1), MCLink("h1", "h2", 1, 2), MCLink("h3", "h4", 1, 0), MCLink("h2", "h4", 1, 3),
    MCLink("h1", "h4", 3, 0), MCLink("h4", "h1", 0, 0)}}
MCLengths(links, s, t) == {Total(SecondsOf(route)) : route \in {r \in Routes(links) : Leads(r, s, t)}}
MCDurations == [n \in MCNetworks |->
  [path \in {p \in Hosts \X Hosts : MCLengths(n, p[1], p[2]) # {}} |->
     CHOOSE d \in MCLengths(n, path[1], path[2]) : \A e \in MCLengths(n, path[1], path[2]) : d <= e]]
MCRuntimeOf == ("a" :> 1 @@ "b" :> 2 @@ "c" :> 0)

\* Indexes: every tree of four names
MCNames == 1..4
MCTrees ==
    {t \in [in : {f \in [MCNames -> 0..3] : \A x \in MCNames : f[x] < x}, type : [MCNames -> {"file", "directory"}]] :
        \A x \in MCNames : t.in[x] # 0 => t.type[t.in[x]] = "directory"}
MCPolicies == [limit : {0, 1, 3}, depth : {0, 1}, roots : {<<>>, <<0>>, <<0, 1>>}, exclude : {{}, {2}}, include : {{1, 2, 4}}]
MCBrowseRoots == <<5>>

\* Simulations: three tasks on two hosts or a host that is gone, with
\* dependencies among which are a fork, a chain and a circle
MCSimTasks == {"a", "b", "c"}
MCSimPlaces == [host : {"h1", "h2"}, order : {1, 2}]
  \cup {[host |-> "h1", order |-> 3], [host |-> "gone", order |-> 1]}
MCOrders == {<<>>, <<<<"a","b">>>>, <<<<"a","b">>, <<"b","a">>>>, <<<<"a","c">>, <<"b","c">>>>,
             <<<<"b","c">>, <<"a","c">>>>, <<<<"a","b">>, <<"b","c">>>>}

\* Workspaces: one that two activities share; two contents of one size
MCDeclared == "a" :> "work" @@ "b" :> "work"
MCContents == [size : {1}, digest : {"x", "y"}]

-----------------------------------------------------------------------------
MCVars == <<runVars, registryVars, planningVars, networkVars, workflowVars, indexVars, runnerVars, observerVars, component>>

MCInit ==
  /\ component \in {"run", "registry", "planning", "paths", "workflows", "index", "runner", "observer"}
  /\ RunInit /\ RegistryInit /\ PlanningInit /\ NetworkInit /\ WorkflowsInit /\ IndexInit /\ RunnerInit /\ ObserverInit
  /\ component # "observer" => \A w \in DOMAIN disk, f \in Files : disk[w][f] = Absent

MCNext ==
  /\ UNCHANGED component
  /\ \/ /\ component = "run" /\ RunNext
        /\ UNCHANGED <<registryVars, planningVars, networkVars, workflowVars, indexVars, runnerVars, observerVars>>
     \/ /\ component = "registry" /\ RegistryNext
        /\ UNCHANGED <<runVars, planningVars, networkVars, workflowVars, indexVars, runnerVars, observerVars>>
     \/ /\ component = "planning" /\ PlanningNext
        /\ UNCHANGED <<runVars, registryVars, networkVars, workflowVars, indexVars, runnerVars, observerVars>>
     \/ /\ component = "paths" /\ NetworkNext
        /\ UNCHANGED <<runVars, registryVars, planningVars, workflowVars, indexVars, runnerVars, observerVars>>
     \/ /\ component = "workflows" /\ WorkflowsNext
        /\ UNCHANGED <<runVars, registryVars, planningVars, networkVars, indexVars, runnerVars, observerVars>>
     \/ /\ component = "index" /\ IndexNext
        /\ UNCHANGED <<runVars, registryVars, planningVars, networkVars, workflowVars, runnerVars, observerVars>>
     \/ /\ component = "runner" /\ RunnerNext
        /\ UNCHANGED <<runVars, registryVars, planningVars, networkVars, workflowVars, indexVars, observerVars>>
     \/ /\ component = "observer" /\ ObserverNext
        /\ UNCHANGED <<runVars, registryVars, planningVars, networkVars, workflowVars, indexVars, runnerVars>>

MCSpec == MCInit /\ [][MCNext]_MCVars
=============================================================================
