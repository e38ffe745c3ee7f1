# akoflow workflow engine: formal specification

TLA+ modules for the control plane of the akoflow workflow engine (the Go code
under `src/`, and the C++ simulator it calls), the TLC models that check them on
small instances, and proofs for TLAPS. Paths below are relative to `src/`.
`PROJECT.json` lists every component, run, theorem and hazard, and maps each
definition to the lines it models.

## 1. The system

A server process (`cmd/server`) serves an HTTP API over one SQLite database and
runs an event loop. A client describes environments, stores a workflow and a
plan, then asks for an execution. The request becomes a job of the durable
queue; the loop leases it and hands it to the execution supervisor, which walks
the activity graph, prepares and starts activities on runtimes (local processes,
Kubernetes jobs, Slurm jobs, a simulator) and records what it sees. Goroutines
beside it build artifacts, copy files, serve terminals, watch connections and
remove old jobs. Several server processes may share one database.

| Part | State | Operations that change it | Module |
| --- | --- | --- | --- |
| Job queue, `internal/infrastructure/database/queue` | `queue_jobs`: status, lease, attempts, availability | Publish, Lease, Complete, RenewLease, Retry, Cancel, ReleaseExpired | `JobQueue` |
| Event loop, `internal/controlplane/eventloop` | handler slots, wake-up channel | Run, drain, handle, keepLeaseAlive, Notify | `EventLoop` |
| Supervisor, controller and store of runs, `internal/controlplane/execution`, `internal/application/execution`, `database/execution` | maps of a call of Execute; runs, tasks, handles | Execute, Start, Inspect; CreateRun, Save, SaveTask, CompleteRun, FailRun | `ExecutionRun`, `WorkflowRun` |
| Runtime adapters, `internal/provider/{local,kubernetes,slurm}` | jobs of the runtime | Start, Inspect, Stop | `ExecutionRun` |
| Registry of runtimes, `internal/provider/registry` | cache of adapters | Resolve | `RuntimeRegistry` |
| Artifact observer, `internal/provider/artifact_observer.go` | two walks of a workspace | snapshot, compare | `Observer` |
| Materialization, `internal/application/transfer`, `internal/infrastructure/transfer` | files at the destination, catalog rows | Prepare, Materialize; Open, Put, Commit | `Transfer` |
| Builds, `internal/application/build`, `database/data` | contexts, build runs, outputs | Upload, Start, Execute, publish | `Build` |
| Workflow definitions, `internal/api/requests`, `database/workflow` | definitions, activities, dependencies | Create, Duplicate, export | `Workflows` |
| Planning, `internal/infrastructure/plugins/planning` | a request | Validate | `Planning` |
| Simulation, `internal/provider/simgrid`, `simgrid-runner` | calls, processes, actors and mailboxes | Execute; the runner's actors | `Planning`, `NetworkPaths`, `SimulationPool`, `Runner` |
| Inventory and discovery, `database/{environment,resource,...}`, `internal/application/environment` | environments, resources, scopes, topologies, plans | Create, Replace, Delete, DiscoverConnection | `Inventory` |
| Connection monitor, `internal/application/environment` | checks, status, schedule | Check, CheckAll | `Connections` |
| Storage browser, `internal/application/storage` | files, download runs, index runs | StartDownload, QueueCopy, QueueArchive, StartIndex | `Storage`, `StorageIndex` |
| Console, `internal/application/console` | sessions, viewers, log, audit | OpenSession, StreamSession, CloseSession, ExecuteCommand | `Console` |
| Job history, `internal/provider/kubernetes/history_cleaner.go` | jobs, pods, services of the cluster | one sweep | `JobHistory` |
| Bootstrap, `internal/infrastructure/database/bootstrap.go` | schema and checksum of the file | install, upgrade, validate | `Bootstrap` |

What makes it hard: processes that crash, shut down and restart while jobs are
leased and external jobs run on; leases that expire under a working handler;
calls of the database and of the runtimes that fail between two steps that
belong together; answers that get lost; attempts that meet the leftovers of
earlier ones; lists and rows that are stale when they are used; two of
everything: executors of one run, preparations of one file, lookups of one
runtime, servers on one database.

## 2. Modules

Operators whose name carries an underscore and a suffix (`Retry_OffByOne`) are
mutated forms of the definition that follows them: each property was seen to fail
for at least one of them, and none is used by a specification.

**JobQueue.** One action per repository method, in the repository's own terms:
`status`, `availableAt`, `lease`, `attempts`. `answer` is what a publication
returned; `expiries` counts how often a job's lease ran out. Times are relative to
now, so `Tick` moves every stamp one unit closer, and stops at the past because no statement
tells two past stamps apart. A renewed stamp may be off by `UtcOffset`: the loop
passes the local time of its ticker, the driver writes it in its own zone and SQL
compares text.

**EventLoop** (extends JobQueue). `loop[l]` is where `Run` of process `l` is, `wakeUp[l]`
its channel of capacity one, and every slot has a program counter, its job and the
attempt it was started for. `Drain` leases a batch and starts handlers in one action, as nothing of the
process can come between; `TickerFires` releases expired leases and drains; `Renew` is a
tick of keepLeaseAlive; `Settle` calls Complete or Retry. `Crash` loses the process;
`Shutdown` cancels the context, after which outcomes cannot be written. A handler here
is any code that returns; what the run handler does is `ExecutionRun`.

**ExecutionRun.** An executor is one call of `Supervisor.Execute`; `pc` names the call of store
or runtime it is about to make, so that a crash, a cancelled context, a failing
call or another executor may come between any two. `handle`, `task` and `runStatus` are the
three tables, `external[a]` the jobs the runtime was given for `a` with their states,
`completed` and `running` the maps of the call, `seen` the handle it holds. The adapters
differ in what they make of a handle: *local* finds the result stored under run and
activity, and results die with the server; *kubernetes* refuses a name that is taken and
reports a job with a failed pod as failed even while its backoff limit lets it go on;
*slurm* asks by job id, and a handle without one reports nothing. `"running"` stands for
starting as well, `"failed"` for stopped as well. A second overlapping call costs a
fault, the lease that ran out.

**WorkflowRun.** What a run promises, without executors, handles, retries or faults: activities are given out
in the order of their dependencies, may succeed once given out, and the run is called completed
when all have. `ExecutionRun` implements it with the mapping `given` = activities with
an external job, `done` = activities with one that succeeded, `recorded` = the row's status.

**Transfer.** A preparation is a call of `Coordinator.Prepare` that is repeated until it succeeds.
`partial` and `final` are the files `<digest>.partial` and `<digest>` at the destination, sequences of
bytes in which a byte of the right blob is its position. A file system writes
byte by byte into the file it has open, rsync replaces or leaves a file, an object store
replaces objects as a whole and commits by a copy and a removal. What rsync makes of
`--append-verify`, and what a web server answers to a range, is external.

**Build.** A build run is a goroutine that `Manager.Start` leaves behind. `archive` are the stored contexts,
`workspace` the directory each is extracted into, file by file, `file` the outputs, `row` and
`variant` the rows of run and catalog. An output is told apart by its build, the files it
was built from and, unless the build is `Reproducible`, its run. The status `running` violates the CHECK
of `build_runs.status` and the error is ignored, so a row is queued until it is publishing.

**Storage, StorageIndex.** Copies and archives are goroutines that write a temporary file
and rename it (file system), run a script (ssh) or put an object (S3); an archive is a walk and a
writer joined by a pipe. `body` is what a job has read, `part` who has a temporary file open, `temp` what is in it.
`Torn(t)` marks what was written at the place `t` and is not whole: a temporary file that is not full yet, an archive whose walk
failed, the empty file of the ssh driver, the mixed bytes of two writers (`shared` are the places where two had one temporary file open). `Above` are the directories above a path: those in every set that holds its directory and is closed
under going up. An index is one call on any small tree under any small policy; its recursion is the stack of directories
it is in, with the entries left in each, and `counted` a history of what it counted.

**Console.** One session (sessions share only a map), its reader, its viewers and one remote command. Chunks
of output are numbered; `transcript` are the rows of `console_session_logs`, `log` the buffer in memory, `past` the history a viewer copied when joining,
`screen` what it has received. `closeOnce` is taken by whoever comes first: shell, client or failing start.

**Inventory.** `db` has one field per table, with identities and references only. A transaction
is an operator from `db` to `db` that takes effect when its result satisfies the constraints of
`schema.sql`, and is rolled back otherwise. A discovery reads, asks the cluster and writes
one statement at a time, between the transactions of clients. Identifiers of partitions (`Ident`) are given. Clients choose the identifiers of scopes and
may use one again after its scope was deleted; `current` is a history that tells whether the scope a plan was drafted in is still the same.

**Connections.** The monitor, which goes through the connections of an environment, and requested checks. Each probes, saves a row,
writes the status of the environment and schedules the connection's next check. Time counts ticks of the monitor. The rows are not kept, as only listings read them.

**Workflows.** A document becomes rows under identifiers made from names (`Slug`), in one transaction;
a stored workflow is exported and, in the handler's steps, duplicated.

**Planning.** The validator (Kahn's algorithm in any order, as the queue is filled from a Go map; then
the orders of each lane) and the Go simulator's passes over a plan. What a transfer takes is a constant of the network
(`Durations`), which **NetworkPaths** computes: Dijkstra's algorithm, one resource or link at a time, with the
route behind each distance as a history (`trail`).

**Runner.** Tasks and transfers of the C++ program as actors that wait for each other at
mailboxes. **SimulationPool.** Calls of the process executor with permits, a directory each, a
time limit and a child process. **RuntimeRegistry.** Racing calls of Resolve, between whose
lookup and LoadOrStore the catalog may change, in one execution mode (the mode is part of the key). **Observer.** The walks over a workspace before and
after a process, file by file. **JobHistory.** The cleaner lists jobs once and then deletes pods, service and job
by name, while the adapter stops and creates jobs. **Bootstrap.** The statements of a starting server, which may die between any two.

`MCPlans`, `MCServices` and `MCInventory` put components that share no variables into one
instance: a behaviour chooses one of them at the start, so numbers of states add up
and nothing is hidden by the others.

## 3. What the runs show

| Run | Instance | Result |
| --- | --- | --- |
| `queue` | 3 publications, two with one key, 2 owners, any order of calls; or 2 processes of 2 slots with late renewals | `AttemptsBounded`: a job is leased `max_attempts` times and once more per lease that ran out; `HandlersBounded`: every further handler of a job is paid for by an expired lease |
| `loop` | 2 processes of one slot, 2 jobs, timely renewals, a fault | `ExclusiveHandling`; the loops implement `QueueSpec`; `EventuallySettled` |
| `loop_west_of_utc` | the same, three units west of UTC, no faults | violation: a running handler loses its lease |
| `plans` | a run of 4 activities on three runtimes, one joining two others, 2 attempts, 2 faults; plans of 3 activities with any of 6 dependencies; 2 racing lookups; workflows with clashing names; indexes of every tree of 4 names; paths through networks of 4 resources; simulations of 3 tasks on 2 hosts; 2 activities in one workspace | safety of the run (`DependenciesSucceeded`, `CompletedMeansSucceeded`, `SubmissionsBounded`, `OutcomesAgree`) and of each of the others |
| `run_two_executors` | chain of two on Kubernetes, 2 executors, 2 faults | `ImplementsWorkflowRun`, in spite of an expired lease |
| `run_restart_local` | chain of two, local runtime, one fault | violation: after a restart a handle stays running |
| `inventory` | 2 preparations of blobs of 3 bytes through every connector, or one from two kinds of web server, 2 faults; 5 changes by clients beside a discovery, or 3 beside two; 2 connections of one environment, one of them also checked on request | `GateHolds`, `RepeatedIsDelivered`; `UnusedStaysEditable`, `PlansStayInScope`, `DiscoveryIsComplete`; `StatusIsMonitored` |
| `transfer_resume_ssh` | file system to ssh, one fault | violation: an interrupted copy never becomes complete |
| `transfer_shared` | 2 preparations of one blob, no faults | violation: a gate for an incomplete file |
| `build` | 2 runs of one context of two files and a pull of an image, an upload, a fault | rows, catalog and files agree, a run alone with its context builds from all of it, runs settle |
| `services` | a run on Slurm; 2 of 6 storage requests over three drivers; a session of one viewer on 4 kinds of target; 3 simulations with 2 permits; 2 jobs of the cluster; 2 servers starting on any of 5 files; one or two faults each | safety of each, `WorkIsSettled` |
| `duplicate_workflow` | workflows with clashing names, 2 duplications | violation: a duplicate under a free name is refused |

What the other properties say. `AcceptsExactlyDAGs`: the validator's sort accepts a workflow exactly when it has no
circle. `StuckMeansCircle` and `ScheduleIsEarliest`: the simulator stops only where lanes and dependencies wait
in a circle, and otherwise every activity starts when the last thing it waits for has ended. `PathsAreShortest`: no path is
faster than the one a transfer is priced with. `OneAdapter`: all lookups of a connection get one adapter. `DefinitionsAreWhole`, `ExportIsFaithful`: a stored workflow has all its rows, no
dependency of another's, and exports to the document it came from. `IndexCounts`: an index
counts the entries its policy allows, up to its limit. `InputsArrived`, `DeadlocksAreExplained`: a simulated task runs only after its inputs, and a simulation that
gets stuck has a circle or a dependency without data between two hosts. `AloneIsExact`: the manifest of an activity that had its workspace to itself lists what
its process changed. `UnusedStaysEditable`: an environment that nothing uses can be replaced and deleted.
`PlansStayInScope`: the resources of a stored plan stay under a version of its scope, if that is the scope the client had copied and not another under its identifier. `DiscoveryIsComplete`: what an undisturbed discovery reports is in the tables, also beside other discoveries.
`RepeatedIsDelivered`: a preparation that is repeated succeeds once the faults are over. It does not hold of every connector: destinations over ssh are left to `transfer_resume_ssh`, and
a web server may be unable to resume a partial file (`Unresumable`), which then holds the preparation up for ever; the property says that nothing else does.
`NothingHalfWritten`: a path shows what was there before or all of what a run was to write, while runs write and after they broke off. It does not hold in three cases, which `Spoilt` names: two runs wrote
there at once, the driver is the one for ssh, or the walk of an archive failed and what it had written was renamed all the same; copies carry any of these on.
`DownloadsArrive`: what is called completed has arrived in its file system or object store, an archive with every file
below its directory, unless another run wrote to the destination or below the directory (`Undisturbed`) or a client changed files.
`StatusIsMonitored`: an environment whose connections all stay up is connected in the end, one whose connections all stay down unreachable; between them the status never settles.
`ViewersMissNothing`, `SessionsEndOnce`: a viewer has every chunk once, and a session ends once, as its row and its trail say, and releases its pod. `SimulatorsAreBounded`, `TraceIsOwn`,
`ServedIsWhole`, `RemovesWhatItListed` are about the pool, the start of a server and the cleaner.

Bounds. Two attempts are the smallest number that has a retry with leftovers, two
faults let one happen while the consequences of the other are being handled, two
processes and two jobs give every pair of actors that share something. Three independent
activities and a parallelism of two make a run wait for a free place. Three
bytes let the rest of a blob be longer than, as long as, or shorter than its beginning, which rsync tells
apart. Two connections are enough for one to contradict the other. A log of one chunk overflows with the second. Five changes reach an
environment that was created, scoped, planned on, replaced and deleted, and a plan under an identifier that was used again. The other bounds
(`MaxExpiries`, `MaxLag`, `MaxShift`, `MaxLength`, `MaxRequests`, `MaxUpsets`, `MaxEdits`, `MaxTroubles`, `MaxUpdates`, `MaxFlips`,
`MaxMishaps`, `MaxHours`, `MaxJobs`, `MaxOutages`, `MaxDeaths`) stand in the guards of the actions they limit. Deadlock checking is off where the system may
stop: when everything is settled and the bounds are used up.

### Five disagreements between the code and what it says of itself

- `keepLeaseAlive` renews with the ticker's local time (`eventloop.go:134`), all other
  calls pass UTC. West of UTC a renewed lease looks expired, and the job is leased again under a
  working handler. `eventloop_test.go:139-140` asserts the contrary; it uses the real repository on SQLite in memory, so what it finds
  depends on the time zone of the machine it runs on.
- The local adapter keeps results in memory (`local/adapter.go:116`). Its comment
  (`adapter.go:144-145`) promises that the next inspection reads the exit status; after a
  restart none does, and the run polls until its job is cancelled by hand.
- `RsyncSSH.Put` gives `rsync --append-verify` a temporary file with the rest of the blob
  (`rsync_ssh.go:135`), which rsync takes for the whole: the partial file is skipped or replaced, the
  checksum never matches, and nothing removes it. `service.go:87-88` counts on resumption.
- The partial file is named after the digest alone (`transfer/service.go:72`), so two runs that need one
  artifact at one destination share it: one may truncate it between the other's verification and
  rename. `coordinator.go:15` promises "only verified, committed materializations".
- `activityDomain` (`internal/api/requests/workflow.go:176`) names an activity by its name alone, in a table whose
  key spans all workflows, so a duplicate of a workflow with activities is always refused. The handler's comment says: "A caller
  must provide a new name, which produces a new stable workflow and activity ID namespace."

### Behaviour the models show that no run is about

No assertion of the repository is violated by these, or only in prose; the properties are stated around them.

- Builds: a directory under `workspaces/` that exists is taken for the whole context (`manager.go:137`), so a run that starts
  while another extracts it, or after an interrupted extraction, builds from what is there. `BuiltFromWholeContext` speaks of runs that are `Alone`.
- Runs: a second executor may overwrite the outcome of a run; `OutcomesAgree` speaks of one executor at a time. On Kubernetes a handle without external id polls for ever.
- Transfers: a partial file that has all its bytes makes `HTTPDownload.Open` ask for a range that begins at the end, which a web server refuses; a server that ignores ranges sends the whole blob, which
  is appended (`infrastructure/transfer/http.go:40-55`). Nothing removes the partial file, so every later preparation fails in the same way.
- Storage: a copy to ssh stores an empty file and is reported as completed. Two runs that write one path at once share its temporary file, and later copies carry the
  torn bytes on. A walk that fails closes its pipe without an error (`storage/service.go:439`), so `Write` takes what it got for the whole and gives the truncated archive its final name
  (`filesystem/driver.go:161-167`); the run's row says failed. The row of an archive that is ready keeps the path of the directory, as `SaveDownload` does not update it
  (`database/storage/repository.go:204-209`). A write of an archive that breaks off while the walk still feeds the pipe waits for ever.
- Connections: an environment has one status for all its connections, and each check writes its own result there (`connection_monitor.go:80`). With one connection up and another one down it changes
  between connected and unreachable with every check.
- Plans: a client may delete a scope and create another under the same identifier (`scope_repository.go:25-29`, `39-59`) between reading it and submitting a plan. The validator sees the copy in
  the request and the foreign key the new scope, so a plan may be stored under a scope that none of its resources is in.
- Console: live output may reach a viewer before the history it continues; viewers of an ended session are not told; a stalled viewer blocks
  `readTerminal`; the row stays `starting` when saving `connected` fails; rows stay connected or running after a crash; an EIO at the
  shell's end is recorded as failed; the row of a command stays running when its client leaves.
- Planning: the validator compares orders of direct dependencies within a lane only, so plans whose lanes wait for each other in a circle are accepted
  and get stuck; the process executor does not validate at all. The UNIQUE of plan assignments leaves out the slot that the validator's lane has.
- Simulation: the C++ runner deadlocks on a dependency without data between two hosts, which the Go simulator accepts.
- Discovery updates rows that plans were made on. A cached adapter may belong to an earlier connection.
- The cleaner counts a job that is between two tries as expired from its creation; `examples/kind/README.md:91-94` says it deletes "only completed or failed Jobs" after their completion.
- Two servers that upgrade one older file may leave an older checksum beside newer columns, which no server accepts again. `bootstrap.go:13-14` calls older
  files unsupported while `bootstrap.go:41-43` upgrades them.
- Activities that share a workspace may find each other's files in their manifests.

### Fairness

Weak fairness only, of what the code or its surroundings keep doing; nothing is assumed of clients, faults or results.
`EventLoop`: goroutines that can run do run (Go's scheduler), time passes, a process that is
down is started again (a supervised service), handlers return. `ExecutionRun`: the queue
hands the job out again until it is settled, which is `EventuallySettled`; a call of Execute goes
on while its process lives; the runtime finishes its jobs. On Kubernetes a handle without external
id polls for ever, so a run's liveness is checked on Slurm. `Transfer`: a preparation goes on and is tried again, as
the queue retries its run. `Build`: goroutines go on, and builders end, although the code gives them no
timeout; a run that died with the server or whose one save of its failure broke is excepted. `Storage`, `Console`, `JobHistory`: goroutines of the server
go on, and calls do not break for ever. `Connections`: minutes pass, the ticker fires and both callers go on. `SimulationPool`: calls go on and a simulator ends or
meets its time limit. `Bootstrap`: a server is started again and goes on.

The loop starts event jobs and runs on the same slots (`eventloop.go:81`), so long runs may
keep events waiting; the code promises no order between them and none is stated.

## 4. What is proved

For every value of the constants that satisfies the assumption named in the component's
module. Most assumptions say that bounds are natural numbers, that sets that are counted are finite and that functions have the
right domains. Those that say more state a fact of the code or its tables:

- `NetworkAssumption`: latencies and prices are not negative (`database/network/repository.go:139`), and `PlanningAssumption` the same of durations;
- `RunnerAssumption`: a plan names a dependency once (the primary key of `activity_dependencies`, `schema.sql:206-212`);
- `IndexAssumption`, `StorageAssumption`: a tree has entries in directories only, each numbered after its directory, and an archive is
  written beside the directory it packs (`Output`).

A theorem about a component is about its own specification; the run
with the property checks a small instance of it. 34 of the 40 properties the passing runs check are proved.

**`ServerProofs`** (`JobQueue`, `EventLoop`, `Bootstrap`, `StorageIndex`).
Of the queue: type correctness, `LeaseConsistent`, `AttemptsBounded`, `OneJobPerKey`, `SettledStays`. `QueueIInv` is inductive as a
conjunction: attempts stay in bounds only because a pending job has an attempt left or an expiry to
pay for it, and answers stay unique only because rows with one key are one row.
Of the loops: `LoopSpec => QueueSpec`, so all of the above holds of them; for `Timely` loops
(`MaxLag < LeaseDuration`, not west of UTC) `HandlersHoldLease` and `ExclusiveHandling`; timely or not, `HandlersBounded`.
`HandlersHoldLease` is not inductive because time passes; what stays is that the time left on a lease and the age of its stamp make
up its duration. `HandlersBounded` is not inductive because a pending job may be given one more handler: the
invariant gives every job a budget of its expiries and its current lease (`Budget`), and every step that adds a handler to a job
turns a pending job into a leased one.
Of a starting server, `ChecksumIsCovered` and `ServedIsWhole`: it acts on a checksum it read some statements before; what it saw stays true of the tables, which only grow, though not of the checksum.
Of an index, `IndexCounts`, for every tree, policy and list of roots: each call on the stack is as deep as the path to its directory is long (`CallInv`), an entry is counted after the directory it is in, and the path to whatever
is still to be counted leads over an entry that is left in some call (`CompleteInv`). At the end nothing is left, so what was counted are the indexable names or the limit was reached.

**`ExecutionRunProofs`**: type correctness, `DependenciesSucceeded` and `CompletedMeansSucceeded` for every
graph, runtime, number of executors and of faults. The invariant follows the evidence: a handle in the store or
in an executor's hands says completed only of an activity that has a job that succeeded; so
do the maps; what is chosen to start depends on these only. On top of it:
- `ImplementsWorkflowRun`: every step is invisible from outside, gives out one activity whose predecessors have succeeded,
  is the first success of one, or records an outcome that is true.
- `SubmissionsBounded`: an activity is submitted once and once more for every fault, or twice where another executor may join. An activity
  without a handle may be submitted by every executor still at work that has not tried it; one with a handle only by those about to submit it. `CountIInv` bounds the jobs
  there are *and* those to come by the faults paid, with one for free while an executor works alone and undisturbed (`Grace`).
- `OutcomesAgree`: a run with one executor at a time ends as its queue job does, unless its outcome could not be written.

**`DataProofs`** (`Transfer`, `Workflows`, `NetworkPaths`).
- `GateHolds`, `CommittedIsThere` and `FinalStays` for every plan, blob size, pair of connectors and number of interruptions, provided no two preparations
  share a blob (`Disjoint`; without it `transfer_shared` is the counterexample). The invariant follows one blob: its partial file is
  written only by the preparation that is at it, so what was verified is what is renamed;
  final files change by renames only; the blobs behind the current one have been seen complete.
  Types of the byte sequences are not needed and stay with TLC.
- `DefinitionsAreWhole`, `ExportIsFaithful`, for every set of documents and every `Slug`: each stored definition was made from a submitted document and
  has that document's rows (`MadeFrom`), and since identifiers of activities are global, the rows of one never mix with those of another (`RowsInv`). A duplicate
  is written from what its handler read, which is what it would read now (`CopiesInv`).
- `PathsAreShortest`, for every network and every bound `MaxHops`: a distance is the length of the route behind it; nothing open is nearer than anything expanded, and the links of what is expanded have been
  followed (`SettledInv`). A route to the target therefore leaves the expanded resources over an open one that is no farther than the route is long.

**`InventoryProofs`** (`Inventory`).
- `PlansStayInScope` for any definitions, observations and scopes: what the validator saw are copies, and a copy may be stale. It is
  not inductive without what a draft is still worth (`DraftInv`): while the draft's scope has not been deleted (`current`) a scope with its identifier
  is the one that was copied, as the primary key admits no second, and its foreign key keeps
  its versions, hence their resources, from being removed; replacing and discovering leave a resource under a version of the same environment's.
- `UnusedStaysEditable`, for any definitions that can be stored in an empty database (`Storable`) and share no identifier across environments (`Separate`; `MCInventory` assumes both
  of its instance, so TLC evaluates them). Constraints alone are not inductive: a foreign key might lead from the rows of one environment into those of another, and the delete
  list of the first would leave a dangling one. The invariant (`Sound`) adds that every row carries identifiers of one environment. So what `Cleared` takes is closed under references,
  what it leaves has no identifier of a new definition, and the constraints of what is left and of the definition in an empty database add up to those of both (`ConsistentTogether`).
  A discovery writes long after it read: `FindingInv` says that all it will write is named after the environment it read (`Fit`), so a late statement either hits the rows of that environment or is refused.

**`RuntimeProofs`** (`RuntimeRegistry`, `Build`, `Observer`).
- `OneAdapter`: an adapter that was built and is not stored yet is its builder's; the cache changes only while it is empty.
- `CompletedIsPublished`, `PublishedIsStored`, `BuiltFromWholeContext`, `StoredIsUsable` and `OutputsStay`
  for any contexts, builds, runs and faults. The invariant says for each program counter what is in the workspace, in the output file and in the row.
  `Alone` can only become false, which is why what a run knows of its workspace is preserved by the steps of others.
- `AloneIsExact`: while an activity is alone in its workspace, each walk has read what is there of the files it has passed, and the files that differ are no more than those written.

**`PlansProofs`** (`Planning`, `Runner`). Three of these results are about circles. A set of nodes is `Grounded` when it has all they wait for and every part of it
has a member that waits for none of that part, so none lies on a circle; it stays so when a node is added that waits for its members only.
- `AcceptsExactlyDAGs`: what Kahn's algorithm has visited is grounded, and the degree of every other vertex is the number of its predecessors not visited; if the queue runs dry before all
  are visited, each of the rest waits for another of the rest.
- `StuckMeansCircle`, `ScheduleIsEarliest`: what the simulator has completed is grounded in the order of lanes and dependencies and timed as early as what it waits for allows; a pass without
  progress has skipped everything it visited (`SimInv`), so at its end everything left waits for something left.
- `InputsArrived`, for every plan and order of dependencies: a message, or a transfer under way, tells that its producer has finished, and a task that stopped waiting has read all its mailboxes.
- `DeadlocksAreExplained`: what is owed to a waiting task (`OwedInv`) is a message that is there, a transfer under way or a producer that has not finished; so when nothing can move, either
  a dependency between hosts carries no data and nobody sends, or every task that is left waits for one that is left.

**`ServicesProofs`** (`Storage`, `SimulationPool`).
- `NothingHalfWritten`: the property says nothing of temporary files, which are torn while they are filled and become visible by a rename. The invariant adds that one which is about to be renamed is full, unless
  its place is `Spoilt` (`Filling`); that two runs have one open only at a place that is `shared` from then on; and that a torn piece carries the name of its place, which reads, renames and copies carry on
  unchanged, so it speaks of all trees, all temporary files and all that was read. `Spoilt` only grows, because a walk that failed is never begun again (`WalksLater`).
- `DownloadsArrive`: while nobody disturbs an archive, what is below its directory is what was there at first, and every file there has been packed or lies below a directory the walk has yet to read (`Walking`); an entry that is
  written stays until its run is reported, because nobody else writes there (`OnCourse`). Only runs that have begun count as disturbing, and a run that begins later makes the claim void rather than false.
- `SimulatorsAreBounded`, `TraceIsOwn`: permits count the calls that hold one, a process runs only while its call does, and a directory is written by the call it was made for.

**`ConsoleProofs`** (`Console`, `JobHistory`).
- `SessionsEndOnce`, for any number of viewers and failures: `finishSession` can be reached only after the session was registered (`Finishable`), before `closeOnce` is done
  the trail has no end, and after it row, verdict and trail agree.
- `ViewersMissNothing`: the chunks told so far, those a viewer has and those publish still owes it (`Due`) fit together: history and live output are two intervals that meet, of which the first is cut by the length of the log.
  The property alone says nothing while a chunk is between log and viewers.
- `RemovesWhatItListed`, an action property: numbers of jobs are given once, so of a name still on the list either the job is the one that was listed, and its end lies in the past, or it was stopped meanwhile.

Facts about data that would need an induction are shown by a least exception (`LeastNatural`: a nonempty set of natural numbers has a least element), about the sums of
a route, the directories above an entry and the concatenation of the statements of a discovery, or by a definition as a closure (`Above`), whose minimality is the induction.

Only model-checked:
- all liveness (`EventuallySettled`, `RunsSettle`, `RepeatedIsDelivered`, `WorkIsSettled`, `StatusIsMonitored`): fairness is out of the prover's reach;
- `DiscoveryIsComplete`: it rests on what the instance reports and defines (identifiers made of names are distinct, a partition has one definition in one environment), and its invariant would
  follow every statement of a discovery to the end against those of another; TLC checks it for one and for two discoveries at a time.

## 5. What is not modelled

- The outbox: an event is two rows in the transaction of the change it reports, so what could be said is the atomicity of SQLite's transactions. Its job is
  delivered like any other, and its handler changes nothing.
- In runs: interactive mode, requests that `validateRequest` refuses, measures and costs of a trace. In the inventory: the creation of single resources and of new connections by their own handlers, preferences.
- In plans: the validator's comparisons of versions, topology, selectors, CPU and memory, each of which refuses a request on its own; no property depends on them.
- Planner plugins, builders, SimGrid's numbers, commands that ask a cluster, manifests and scripts: external processes and data.
- The command line client, request decoding, listings, previews, logging: input and output without state.

## 6. Running

    tlc -config MCJobQueue.cfg MCJobQueue
    tlc -config EventLoopFair.cfg MCEventLoop        # also EventLoopWest
    tlc -config Plans.cfg MCPlans
    tlc -config RunTwo.cfg MCExecutionRun            # also RunRestart
    tlc -config Inventory.cfg MCInventory
    tlc -config TransferResume.cfg MCTransfer        # also TransferShared
    tlc -config Build.cfg MCBuild
    tlc -config Services.cfg MCServices
    tlc -config Duplicate.cfg MCWorkflows
    tlapm ServerProofs.tla                           # also ExecutionRunProofs, DataProofs, RuntimeProofs,
                                                     # PlansProofs, InventoryProofs, ServicesProofs, ConsoleProofs
