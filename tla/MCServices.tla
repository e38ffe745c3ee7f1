---------------------------- MODULE MCServices ----------------------------
(* One instance for TLC of the components that must come to an end by        *)
(* themselves: a run, the storage browser's jobs, the console,               *)
(* the pool of simulators, the cleaner of the cluster, a start of the server. *)
(* Their models share no variables, so a behaviour is one of a single        *)
(* component, chosen once: the numbers of states add up.                     *)
EXTENDS ExecutionRun, Storage, Console, SimulationPool, JobHistory, Bootstrap, TLC

VARIABLE component

\* A run: a chain of two activities on Slurm
MCPair == 1..2
MCChain == (1 :> {}) @@ (2 :> {1})
MCSlurm == [a \in MCPair |-> "slurm"]

\* Storages: three drivers, copies between them, a download and an archive
MCStores == {"local", "cluster", "bucket"}
MCPaths == 1..6
MCDriver == "local" :> "filesystem" @@ "cluster" :> "ssh" @@ "bucket" :> "s3"
\* 1 a directory, 2 a directory in it, 3 a file and 4 a link there, 5 a file in 1, 6 the archive of 1
MCParent == <<0, 1, 2, 2, 1, 0>>
MCLinkTo == <<1, 1, 1, 3, 1, 1>>
MCOutput == [x \in 1..6 |-> 6]
Nowhere == [x \in 1..6 |-> Absent]
Data(x) == File({<<x, 0>>})
MCTree == "local" :> <<Directory, Directory, Data(3), [type |-> "symlink", holds |-> {}], Data(5), Absent>> @@
          "cluster" :> [Nowhere EXCEPT ![1] = Directory, ![5] = Data(5)] @@
          "bucket" :> [Nowhere EXCEPT ![1] = Directory, ![5] = Data(5)]
MCRequest ==
    "copy" :> [op |-> "copy", from |-> "cluster", path |-> 5, to |-> "local"] @@
    "again" :> [op |-> "copy", from |-> "bucket", path |-> 5, to |-> "local"] @@
    "up" :> [op |-> "copy", from |-> "local", path |-> 5, to |-> "cluster"] @@
    "store" :> [op |-> "copy", from |-> "local", path |-> 5, to |-> "bucket"] @@
    "down" :> [op |-> "download", from |-> "bucket", path |-> 5, to |-> "local"] @@
    "tar" :> [op |-> "archive", from |-> "local", path |-> 1, to |-> "local"]
MCDownloads == DOMAIN MCRequest

\* Simulations: two calls for one run, as after an expired lease, and another run
MCRunOf == "c1" :> "r" @@ "c2" :> "r" @@ "c3" :> "s"

\* Databases: a new file, the two older schemas, the current one, a foreign one
MCDatabases ==
    {[parts |-> PartsOf(sum), checksum |-> sum] : sum \in {"none", "legacy", "before metrics", "current"}}
        \cup {[parts |-> {"base"}, checksum |-> "other"]}

-----------------------------------------------------------------------------
MCVars == <<runVars, storageVars, consoleVars, poolVars, historyVars, bootVars, component>>

MCInit ==
    /\ component \in {"run", "storage", "console", "pool", "history", "bootstrap"}
    /\ RunInit /\ StorageInit /\ ConsoleInit /\ PoolInit /\ JobHistoryInit /\ BootstrapInit
    /\ component # "console" => target = "none"
    /\ component # "bootstrap" => checksum = "none" /\ fleet = Servers

MCNext ==
    /\ UNCHANGED component
    /\ \/ /\ component = "run" /\ RunNext
          /\ UNCHANGED <<storageVars, consoleVars, poolVars, historyVars, bootVars>>
       \/ /\ component = "storage" /\ StorageNext
          /\ UNCHANGED <<runVars, consoleVars, poolVars, historyVars, bootVars>>
       \/ /\ component = "console" /\ ConsoleNext
          /\ UNCHANGED <<runVars, storageVars, poolVars, historyVars, bootVars>>
       \/ /\ component = "pool" /\ PoolNext
          /\ UNCHANGED <<runVars, storageVars, consoleVars, historyVars, bootVars>>
       \/ /\ component = "history" /\ JobHistoryNext
          /\ UNCHANGED <<runVars, storageVars, consoleVars, poolVars, bootVars>>
       \/ /\ component = "bootstrap" /\ BootstrapNext
          /\ UNCHANGED <<runVars, storageVars, consoleVars, poolVars, historyVars>>

\* The fairness of each component's own specification
MCSpec ==
    /\ MCInit /\ [][MCNext]_MCVars
    /\ WF_runVars(component = "run" /\ \E e \in Executors : Begin(e))
    /\ \A e \in Executors : WF_runVars(component = "run" /\ ExecutorStep(e))
    /\ \A a \in Activities : WF_runVars(component = "run" /\ JobStep(a))
    /\ WF_storageVars(component = "storage" /\ Calm /\ \E d \in Downloads : DownloadStep(d))
    /\ WF_consoleVars(component = "console" /\ ServerStep)
    /\ \A k \in Calls : WF_poolVars(component = "pool" /\ CallStep(k)) /\ WF_poolVars(component = "pool" /\ ChildEnds(k))
    /\ WF_historyVars(component = "history" /\ Online /\ CleanerStep)
    /\ \A k \in Servers : WF_bootVars(component = "bootstrap" /\ BootStep(k))

\* What was begun comes to its end: a run is settled (supervisor.go, RunSettles),
\* a copy or archive ends and its row says so (DownloadsSettle), a simulation
\* returns (process_executor.go, CallsReturn), sessions and commands end
\* (terminal.go and service.go, ConsoleSettles), a server alone on a file the
\* engine knows serves (bootstrap.go, UpgradeGetsThrough), and jobs whose
\* retention is over are removed (history_cleaner.go, HistoryIsCleaned).
WorkIsSettled ==
    []<>CASE component = "run"       -> attempts > 0 => settled # "no"
          [] component = "storage"   -> AllSettled
          [] component = "pool"      -> AllReturned
          [] component = "console"   -> ConsoleIsQuiet
          [] component = "bootstrap" -> IsUp
          [] component = "history"   -> Clean
=============================================================================
