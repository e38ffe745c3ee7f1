---------------------------- MODULE ExecutionRun ----------------------------
(***************************************************************************)
(* One execution run in real mode: the supervisor                          *)
(* (internal/controlplane/execution/supervisor.go) walks the activity      *)
(* graph, the activity controller                                          *)
(* (internal/application/execution/controller.go) starts and inspects      *)
(* activities on a runtime, and both record what they do in the execution  *)
(* store (internal/infrastructure/database/execution/repository.go).       *)
(*                                                                         *)
(* The queue hands the run's job to an executor, a call of                 *)
(* Supervisor.Execute, again and again until the job is settled.  One      *)
(* executor is the event loop with timely leases (EventLoop.tla,           *)
(* ExclusiveHandling); with two, a lease ran out while a call was going    *)
(* on.  Every call of the store or of the runtime is a step of its own, so *)
(* that a crash, a cancelled context, a failing call or the other executor *)
(* may come between any two of them.                                       *)
(***************************************************************************)
EXTENDS Integers, FiniteSets, Sequences

CONSTANTS
    Activities,     \* positive numbers: activities are started in this order
    Pred,           \* the activities each one depends on
    Executors,      \* calls of Execute that may be going on at the same time
    MaxParallel,    \* Config.MaxParallel
    Runtime,        \* the adapter of the runtime each one is assigned to
    MaxAttempts,    \* max_attempts of the run's job
    MaxFaults       \* bound: crashes, cancellations and failing calls

ASSUME RunAssumption ==
    /\ Activities \subseteq Nat \ {0}
    /\ Pred \in [Activities -> SUBSET Activities]
    /\ IsFiniteSet(Executors)
    /\ MaxParallel \in Nat \ {0}
    /\ Runtime \in [Activities -> {"local", "kubernetes", "slurm"}]
    /\ MaxAttempts \in Nat \ {0}
    /\ MaxFaults \in Nat

VARIABLES
    runStatus,   \* execution_runs.status, "none" before the row exists
    task,        \* task_executions.status of every activity
    handle,      \* activity_handles: status and external job of every activity
    external,    \* the jobs the runtime was given for every activity, in order
    lost,        \* how many of these the local adapter knows no more
    settled,     \* the outcome of the run's queue job, "no" before it is settled
    attempts,    \* how often the job was handed to an executor
    pc,          \* where the call of Execute is
    cancelled,   \* is its context cancelled
    completed,   \* its map of completed activities
    running,     \* its map of running activities
    todo,        \* the activities its current loop has still to visit
    current,     \* the activity it is visiting, 0 if none
    seen,        \* the handle it holds of that activity
    faults,      \* how many faults happened
    unrecorded   \* history: an outcome of the run could not be written

store == <<runStatus, task, handle>>
runtime == <<external, lost>>
queue == <<settled, attempts>>
maps == <<completed, running>>
cursor == <<todo, current, seen>>
runVars == <<store, runtime, queue, pc, cancelled, maps, cursor, faults, unrecorded>>

\* "running" stands for starting as well, "failed" for stopped as well: the
\* supervisor treats them alike.
Statuses == {"none", "running", "completed", "failed"}
Handles == [status : Statuses \ {"none"}, job : Nat]
NoHandle == [status |-> "none", job |-> 0]
JobStates == {"running", "retrying", "succeeded", "failed", "stopped"}

PCs == {"idle", "top", "inspect", "observe", "saveObserved", "saveTask", "start", "submit",
        "saveSubmitted", "recordHandle", "recordTask", "saveStarted", "complete", "failing",
        "ok", "error"}

(* The store, the runtime's jobs and the maps of the supervisor have values  *)
(* of their types.                                                           *)
RunTypeOK ==
    /\ runStatus \in Statuses
    /\ task \in [Activities -> Statuses]
    /\ handle \in [Activities -> Handles \cup {NoHandle}]
    /\ external \in [Activities -> Seq(JobStates)]
    /\ lost \in [Activities -> Nat]
    /\ settled \in {"no", "succeeded", "failed"}
    /\ attempts \in Nat
    /\ pc \in [Executors -> PCs]
    /\ cancelled \in [Executors -> BOOLEAN]
    /\ completed \in [Executors -> SUBSET Activities]
    /\ running \in [Executors -> SUBSET Activities]
    /\ todo \in [Executors -> SUBSET Activities]
    /\ current \in [Executors -> Activities \cup {0}]
    /\ seen \in [Executors -> Handles \cup {NoHandle}]
    /\ faults \in Nat
    /\ unrecorded \in BOOLEAN

RunInit ==
    /\ runStatus = "none"
    /\ task = [a \in Activities |-> "none"]
    /\ handle = [a \in Activities |-> NoHandle]
    /\ external = [a \in Activities |-> <<>>]
    /\ lost = [a \in Activities |-> 0]
    /\ settled = "no"
    /\ attempts = 0
    /\ pc = [e \in Executors |-> "idle"]
    /\ cancelled = [e \in Executors |-> FALSE]
    /\ completed = [e \in Executors |-> {}]
    /\ running = [e \in Executors |-> {}]
    /\ todo = [e \in Executors |-> {}]
    /\ current = [e \in Executors |-> 0]
    /\ seen = [e \in Executors |-> NoHandle]
    /\ faults = 0
    /\ unrecorded = FALSE

-----------------------------------------------------------------------------
(* Calls and what may go wrong with them *)

Fault == faults < MaxFaults /\ faults' = faults + 1

\* A call that observes the context ends well, or with an error.
Works(e) == ~cancelled[e] /\ faults' = faults
Breaks(e) == (cancelled[e] /\ faults' = faults) \/ Fault

\* The same for a call of the runtime: the local adapter ignores the context.
Heeds(e) == cancelled[e] /\ Runtime[current[e]] # "local"
RuntimeWorks(e) == ~Heeds(e) /\ faults' = faults
RuntimeBreaks(e) == (Heeds(e) /\ faults' = faults) \/ Fault

At(e, l) == pc[e] = l
Goto(e, l) == pc' = [pc EXCEPT ![e] = l]

Live(state) == state \in {"running", "retrying"}
JobsOf(a) == 1..Len(external[a])
Succeeded(a) == \E i \in JobsOf(a) : external[a][i] = "succeeded"

-----------------------------------------------------------------------------
(* Supervisor.Execute *)

\* CreateRun, which inserts the row only once, and the empty maps of
\* executeActivities.  Requests that validateRequest refuses are left out.
\* Another executor is at work only when its lease ran out.
Begin(e) ==
    /\ At(e, "idle") /\ settled = "no"
    /\ \/ (\A f \in Executors : At(f, "idle")) /\ faults' = faults
       \/ (\E f \in Executors : ~At(f, "idle")) /\ Fault
    /\ attempts' = attempts + 1
    /\ runStatus' = IF runStatus = "none" THEN "running" ELSE runStatus
    /\ Goto(e, "top")
    /\ UNCHANGED <<task, handle, runtime, settled, cancelled, maps, cursor, unrecorded>>

\* CreateRun fails: Execute returns before FailRun is deferred.
CreateRunFails(e) ==
    /\ At(e, "idle") /\ settled = "no"
    /\ \A f \in Executors : At(f, "idle")
    /\ Fault
    /\ attempts' = attempts + 1
    /\ unrecorded' = TRUE
    /\ Goto(e, "error")
    /\ UNCHANGED <<store, runtime, settled, cancelled, maps, cursor>>

\* The head of the loop of executeActivities.
Top(e) ==
    /\ At(e, "top")
    /\ \/ /\ completed[e] = Activities
          /\ Goto(e, "complete")
          /\ UNCHANGED <<todo, faults>>
       \/ /\ completed[e] # Activities
          /\ Works(e)
          /\ Goto(e, "inspect")
          /\ todo' = [todo EXCEPT ![e] = running[e]]
       \/ /\ completed[e] # Activities
          /\ cancelled[e]
          /\ Goto(e, "failing")
          /\ UNCHANGED <<todo, faults>>
    /\ UNCHANGED <<store, runtime, queue, cancelled, maps, current, seen, unrecorded>>

\* CompleteRun, one transaction.
Complete(e) ==
    /\ At(e, "complete")
    /\ \/ /\ Works(e)
          /\ runStatus' = "completed"
          /\ task' = [a \in Activities |-> "completed"]
          /\ Goto(e, "ok")
       \/ Breaks(e) /\ Goto(e, "failing") /\ UNCHANGED <<runStatus, task>>
    /\ UNCHANGED <<handle, runtime, queue, cancelled, maps, cursor, unrecorded>>

Fail_InContext(e) ==
    /\ At(e, "failing")
    /\ \/ ~cancelled[e] /\ runStatus' = "failed" /\ UNCHANGED <<faults, unrecorded>>
       \/ cancelled[e] /\ UNCHANGED <<runStatus, faults, unrecorded>>
       \/ Fault /\ unrecorded' = TRUE /\ UNCHANGED runStatus
    /\ Goto(e, "error")
    /\ UNCHANGED <<task, handle, runtime, queue, cancelled, maps, cursor>>

\* The deferred FailRun: outside the cancelled context, its error ignored.
Fail(e) ==
    /\ At(e, "failing")
    /\ \/ runStatus' = "failed" /\ UNCHANGED <<faults, unrecorded>>
       \/ Fault /\ unrecorded' = TRUE /\ UNCHANGED runStatus
    /\ Goto(e, "error")
    /\ UNCHANGED <<task, handle, runtime, queue, cancelled, maps, cursor>>

Forget(D) ==
    /\ pc' = [e \in Executors |-> IF e \in D THEN "idle" ELSE pc[e]]
    /\ cancelled' = [e \in Executors |-> IF e \in D THEN FALSE ELSE cancelled[e]]
    /\ completed' = [e \in Executors |-> IF e \in D THEN {} ELSE completed[e]]
    /\ running' = [e \in Executors |-> IF e \in D THEN {} ELSE running[e]]
    /\ todo' = [e \in Executors |-> IF e \in D THEN {} ELSE todo[e]]
    /\ current' = [e \in Executors |-> IF e \in D THEN 0 ELSE current[e]]
    /\ seen' = [e \in Executors |-> IF e \in D THEN NoHandle ELSE seen[e]]

\* Execute returns to the event loop, which completes the job, or retries it
\* until its attempts are used up (JobQueue.tla, Retry).  Neither has an
\* effect when the database fails, or when the lease or the context is gone.
Return(e) ==
    /\ pc[e] \in {"ok", "error"}
    /\ \/ /\ settled = "no"
          /\ settled' = IF At(e, "ok") THEN "succeeded"
                        ELSE IF attempts >= MaxAttempts THEN "failed" ELSE "no"
          /\ faults' = faults
       \/ Breaks(e) /\ UNCHANGED settled
       \/ settled # "no" /\ UNCHANGED <<settled, faults>>
    /\ Forget({e})
    /\ UNCHANGED <<store, runtime, attempts, unrecorded>>

-----------------------------------------------------------------------------
(* inspectRunning and Controller.Inspect *)

\* The next activity of the map, in any order, and its handle.
Inspect(e) ==
    /\ At(e, "inspect")
    /\ \E a \in todo[e] :
          /\ current' = [current EXCEPT ![e] = a]
          /\ todo' = [todo EXCEPT ![e] = @ \ {a}]
          /\ \/ Works(e) /\ Goto(e, "observe") /\ seen' = [seen EXCEPT ![e] = handle[a]]
             \/ Breaks(e) /\ Goto(e, "failing") /\ UNCHANGED seen
    /\ UNCHANGED <<store, runtime, queue, cancelled, maps, unrecorded>>

\* What the runtime reports of a job.  A Kubernetes job that lost a pod counts
\* as failed although it may start another one (status.failed > 0).
Report(state) ==
    CASE state = "running" -> "running"
      [] state = "succeeded" -> "completed"
      [] OTHER -> "failed"

\* The local adapter finds results by run and activity, not by process, and
\* leaves the handle alone while it has none.
InspectLocal(a, h) ==
    LET results == {i \in JobsOf(a) : i > lost[a] /\ ~Live(external[a][i])}
    IN  IF results = {} THEN {h.status} ELSE {Report(external[a][i]) : i \in results}

\* For an empty name Kubernetes lists all jobs, which reads as a job that is
\* starting, or refuses.
InspectKubernetes(a, h) ==
    IF h.job = 0 THEN {"running", "failed"} ELSE {Report(external[a][h.job])}

\* Slurm knows no job with an empty id: the handle stays as it is.
InspectSlurm(a, h) ==
    IF h.job = 0 THEN {h.status} ELSE {Report(external[a][h.job])}

\* The statuses an inspection of handle h may find.
Observed(a, h) ==
    CASE Runtime[a] = "local" -> InspectLocal(a, h)
      [] Runtime[a] = "kubernetes" -> InspectKubernetes(a, h)
      [] Runtime[a] = "slurm" -> InspectSlurm(a, h)

\* runtime.Inspect; an error makes the handle a failed one.
Observe(e) ==
    /\ At(e, "observe")
    /\ \/ /\ RuntimeWorks(e)
          /\ \E status \in Observed(current[e], seen[e]) : seen' = [seen EXCEPT ![e].status = status]
       \/ RuntimeBreaks(e) /\ seen' = [seen EXCEPT ![e].status = "failed"]
    /\ Goto(e, "saveObserved")
    /\ UNCHANGED <<store, runtime, queue, cancelled, maps, todo, current, unrecorded>>

\* The whole handle is written, whatever it is in the store by now.
SaveObserved(e) ==
    /\ At(e, "saveObserved")
    /\ \/ /\ Works(e)
          /\ handle' = [handle EXCEPT ![current[e]] = seen[e]]
          /\ Goto(e, IF seen[e].status = "running" THEN "inspect" ELSE "saveTask")
       \/ Breaks(e) /\ Goto(e, "failing") /\ UNCHANGED handle
    /\ UNCHANGED <<runStatus, task, runtime, queue, cancelled, maps, cursor, unrecorded>>

\* The task of a handle that ended; a failed one ends the attempt, whether its
\* task could be written or not.
SaveTask(e) ==
    /\ At(e, "saveTask")
    /\ \/ /\ Works(e)
          /\ task' = [task EXCEPT ![current[e]] = seen[e].status]
          /\ \/ /\ seen[e].status = "completed"
                /\ completed' = [completed EXCEPT ![e] = @ \cup {current[e]}]
                /\ running' = [running EXCEPT ![e] = @ \ {current[e]}]
                /\ Goto(e, "inspect")
             \/ seen[e].status = "failed" /\ Goto(e, "failing") /\ UNCHANGED maps
       \/ Breaks(e) /\ Goto(e, "failing") /\ UNCHANGED <<task, maps>>
    /\ UNCHANGED <<runStatus, handle, runtime, queue, cancelled, cursor, unrecorded>>

-----------------------------------------------------------------------------
(* The rest of a round: readyActivities and startReadyActivities with        *)
(* Controller.Start and recordStartFailure                                   *)

ReadyActivities_OneSuffices(e) ==
    {a \in Activities \ (completed[e] \cup running[e]) :
        Pred[a] = {} \/ Pred[a] \cap completed[e] # {}}

ReadyActivities_NoneRunning(e) ==
    {a \in Activities \ (completed[e] \cup running[e]) : Pred[a] \cap running[e] = {}}

\* Neither completed nor running, every predecessor completed.
ReadyActivities(e) ==
    {a \in Activities \ (completed[e] \cup running[e]) : Pred[a] \subseteq completed[e]}

\* ready[:n], sorted by name
First(n, S) == {a \in S : Cardinality({b \in S : b < a}) < n}

\* Every running activity was inspected: choose what to start, or give up when
\* nothing runs and nothing can be started.
Select(e) ==
    /\ At(e, "inspect") /\ todo[e] = {}
    /\ LET ready == ReadyActivities(e)
           stuck == running[e] = {} /\ ready = {} /\ completed[e] # Activities
       IN  /\ todo' = [todo EXCEPT ![e] = First(MaxParallel - Cardinality(running[e]), ready)]
           /\ Goto(e, IF stuck THEN "failing" ELSE "start")
    /\ current' = [current EXCEPT ![e] = 0]
    /\ seen' = [seen EXCEPT ![e] = NoHandle]
    /\ UNCHANGED <<store, runtime, queue, cancelled, maps, faults, unrecorded>>

\* All are started: the loop waits for the poll interval and starts over.
Poll(e) ==
    /\ At(e, "start") /\ todo[e] = {}
    /\ Goto(e, "top")
    /\ current' = [current EXCEPT ![e] = 0]
    /\ seen' = [seen EXCEPT ![e] = NoHandle]
    /\ UNCHANGED <<store, runtime, queue, cancelled, maps, todo, faults, unrecorded>>

Start_AgainIfFailed(e) ==
    /\ At(e, "start")
    /\ \E a \in First(1, todo[e]) :
          /\ current' = [current EXCEPT ![e] = a]
          /\ todo' = [todo EXCEPT ![e] = @ \ {a}]
          /\ \/ Works(e) /\ handle[a].status \in {"none", "failed"} /\ Goto(e, "submit") /\ UNCHANGED seen
             \/ /\ Works(e) /\ handle[a].status \in {"running", "completed"}
                /\ seen' = [seen EXCEPT ![e] = handle[a]]
                /\ Goto(e, "saveStarted")
             \/ Breaks(e) /\ Goto(e, "recordHandle") /\ UNCHANGED seen
    /\ UNCHANGED <<store, runtime, queue, cancelled, maps, unrecorded>>

\* The next activity in order.  An existing handle is taken as it is.  Missing
\* resources, failing preparations and a failing Find are recorded as a failed
\* start, before or without a look at the handle in the store.
Start(e) ==
    /\ At(e, "start")
    /\ \E a \in First(1, todo[e]) :
          /\ current' = [current EXCEPT ![e] = a]
          /\ todo' = [todo EXCEPT ![e] = @ \ {a}]
          /\ \/ Works(e) /\ handle[a] = NoHandle /\ Goto(e, "submit") /\ UNCHANGED seen
             \/ /\ Works(e) /\ handle[a] # NoHandle
                /\ seen' = [seen EXCEPT ![e] = handle[a]]
                /\ Goto(e, "saveStarted")
             \/ Breaks(e) /\ Goto(e, "recordHandle") /\ UNCHANGED seen
    /\ UNCHANGED <<store, runtime, queue, cancelled, maps, unrecorded>>

\* A new job for the activity.
NewJob(a, state) == external' = [external EXCEPT ![a] = Append(@, state)]

\* Kubernetes refuses a job whose name is taken.
NameTaken(a) == Runtime[a] = "kubernetes" /\ \E i \in JobsOf(a) : external[a][i] # "stopped"

\* runtime.Start: the job is accepted; or refused; or accepted and the answer
\* is lost, or (a Kubernetes service could not be created) it is deleted again.
Submit(e) ==
    /\ At(e, "submit")
    /\ \/ /\ RuntimeWorks(e) /\ ~NameTaken(current[e])
          /\ NewJob(current[e], "running")
          /\ seen' = [seen EXCEPT ![e] = [status |-> "running", job |-> Len(external[current[e]]) + 1]]
          /\ Goto(e, "saveSubmitted")
       \/ /\ (RuntimeWorks(e) /\ NameTaken(current[e])) \/ RuntimeBreaks(e)
          /\ Goto(e, "recordHandle")
          /\ UNCHANGED <<external, seen>>
       \/ /\ Runtime[current[e]] # "local" /\ Fault /\ ~NameTaken(current[e])
          /\ \/ NewJob(current[e], "running")
             \/ Runtime[current[e]] = "kubernetes" /\ NewJob(current[e], "stopped")
          /\ Goto(e, "recordHandle")
          /\ UNCHANGED seen
    /\ UNCHANGED <<store, lost, queue, cancelled, maps, todo, current, unrecorded>>

\* Save; when it fails runtime.Stop, which may fail as well (or, for a local
\* process, be ignored).
SaveSubmitted(e) ==
    /\ At(e, "saveSubmitted")
    /\ LET a == current[e]
           i == seen[e].job
       IN  \/ /\ Works(e)
              /\ handle' = [handle EXCEPT ![a] = seen[e]]
              /\ Goto(e, "saveStarted")
              /\ UNCHANGED external
           \/ /\ Breaks(e)
              /\ \/ UNCHANGED external
                 \/ /\ Live(external[a][i]) /\ ~Heeds(e)
                    /\ external' = [external EXCEPT ![a][i] = "stopped"]
              /\ Goto(e, "recordHandle")
              /\ UNCHANGED handle
    /\ UNCHANGED <<runStatus, task, lost, queue, cancelled, maps, cursor, unrecorded>>

\* recordStartFailure, first half: a failed handle without external id
\* replaces whatever handle the activity has.
RecordHandle(e) ==
    /\ At(e, "recordHandle")
    /\ \/ /\ Works(e)
          /\ handle' = [handle EXCEPT ![current[e]] = [status |-> "failed", job |-> 0]]
          /\ Goto(e, "recordTask")
       \/ Breaks(e) /\ Goto(e, "failing") /\ UNCHANGED handle
    /\ UNCHANGED <<runStatus, task, runtime, queue, cancelled, maps, cursor, unrecorded>>

\* recordStartFailure, second half.
RecordTask(e) ==
    /\ At(e, "recordTask")
    /\ \/ Works(e) /\ task' = [task EXCEPT ![current[e]] = "failed"]
       \/ Breaks(e) /\ UNCHANGED task
    /\ Goto(e, "failing")
    /\ UNCHANGED <<runStatus, handle, runtime, queue, cancelled, maps, cursor, unrecorded>>

SaveStarted_NotRunning(e) ==
    /\ At(e, "saveStarted")
    /\ LET a == current[e]
           status == IF seen[e].status = "running" THEN "running" ELSE "completed"
       IN  /\ completed' = [completed EXCEPT ![e] = @ \cup (IF status = "completed" THEN {a} ELSE {})]
           /\ running' = [running EXCEPT ![e] = @ \cup (IF status = "running" THEN {a} ELSE {})]
           /\ \/ Works(e) /\ Goto(e, "start") /\ task' = [task EXCEPT ![a] = status]
              \/ Breaks(e) /\ Goto(e, "failing") /\ UNCHANGED task
    /\ UNCHANGED <<runStatus, handle, runtime, queue, cancelled, cursor, unrecorded>>

\* The started activity enters the maps: completed if its handle is, and
\* running otherwise, even if its handle is a failed one.
SaveStarted(e) ==
    /\ At(e, "saveStarted")
    /\ LET a == current[e]
           status == IF seen[e].status = "completed" THEN "completed" ELSE "running"
       IN  /\ completed' = [completed EXCEPT ![e] = @ \cup (IF status = "completed" THEN {a} ELSE {})]
           /\ running' = [running EXCEPT ![e] = @ \cup (IF status = "running" THEN {a} ELSE {})]
           /\ \/ Works(e) /\ Goto(e, "start") /\ task' = [task EXCEPT ![a] = status]
              \/ Breaks(e) /\ Goto(e, "failing") /\ UNCHANGED task
    /\ UNCHANGED <<runStatus, handle, runtime, queue, cancelled, cursor, unrecorded>>

-----------------------------------------------------------------------------
(* The surroundings *)

\* The event loop cancels the context: the server shuts down, or the lease
\* could not be renewed, which needs no fault when the job is settled or
\* leased to another executor.
Cancel(e) ==
    /\ ~At(e, "idle") /\ ~cancelled[e]
    /\ \/ (settled # "no" \/ \E f \in Executors \ {e} : ~At(f, "idle")) /\ faults' = faults
       \/ Fault
    /\ cancelled' = [cancelled EXCEPT ![e] = TRUE]
    /\ UNCHANGED <<store, runtime, queue, pc, maps, cursor, unrecorded>>

\* A server dies with its executors.  The results of the local adapter are in
\* its memory; the executors of a local runtime are in one server.
Crash(D) ==
    /\ Fault
    /\ \E e \in D : ~At(e, "idle")
    /\ (\E a \in Activities : Runtime[a] = "local") => D = Executors
    /\ Forget(D)
    /\ lost' = [a \in Activities |-> IF Runtime[a] = "local" THEN Len(external[a]) ELSE lost[a]]
    /\ UNCHANGED <<store, external, queue, unrecorded>>

\* A job makes progress in the runtime.
JobMoves(a, i) ==
    /\ \/ /\ Live(external[a][i])
          /\ \E state \in {"succeeded", "failed"} : external' = [external EXCEPT ![a][i] = state]
       \/ /\ Runtime[a] = "kubernetes" /\ external[a][i] = "running"
          /\ external' = [external EXCEPT ![a][i] = "retrying"]
    /\ UNCHANGED <<store, lost, queue, pc, cancelled, maps, cursor, faults, unrecorded>>

-----------------------------------------------------------------------------

ExecutorStep(e) ==
    \/ Top(e) \/ Complete(e) \/ Fail(e) \/ Return(e)
    \/ Inspect(e) \/ Observe(e) \/ SaveObserved(e) \/ SaveTask(e)
    \/ Select(e) \/ Poll(e) \/ Start(e) \/ Submit(e) \/ SaveSubmitted(e)
    \/ RecordHandle(e) \/ RecordTask(e) \/ SaveStarted(e)

JobStep(a) == \E i \in JobsOf(a) : JobMoves(a, i)

RunNext ==
    \/ \E e \in Executors : Begin(e) \/ CreateRunFails(e) \/ ExecutorStep(e) \/ Cancel(e)
    \/ \E D \in SUBSET Executors : Crash(D)
    \/ \E a \in Activities : JobStep(a)

RunSpec == RunInit /\ [][RunNext]_runVars

(* The queue hands the job out again until it is settled (EventLoop.tla,     *)
(* EventuallySettled), a call of Execute goes on while its process lives,    *)
(* and the runtime finishes its jobs.                                        *)
FairRunSpec ==
    /\ RunSpec
    /\ WF_runVars(\E e \in Executors : Begin(e))
    /\ \A e \in Executors : WF_runVars(ExecutorStep(e))
    /\ \A a \in Activities : WF_runVars(JobStep(a))

-----------------------------------------------------------------------------
(* Properties *)

(* An activity is given to the runtime only when a job of every activity it  *)
(* depends on has succeeded there (supervisor.go:440-465): also in a retry   *)
(* that works from handles of an earlier attempt, after crashes, with stale  *)
(* handles written back and with two executors at work.                      *)
DependenciesSucceeded ==
    \A a \in Activities : external[a] # <<>> => \A p \in Pred[a] : Succeeded(p)

(* A run is recorded as completed only when a job of every activity has      *)
(* succeeded in the runtime (supervisor.go:69, repository.go:387).           *)
CompletedMeansSucceeded == runStatus = "completed" => \A a \in Activities : Succeeded(a)

\* The job of a run is with one executor at a time, as EventLoop.tla guarantees
\* for timely leases.
Alone == \A e, f \in Executors : e = f

(* Start is idempotent (controller.go:53-60): without faults an activity is  *)
(* given to the runtime once over all attempts of the run, and every further *)
(* job of it is paid for by a fault: one by each, and two by the lease that  *)
(* runs out and lets a second executor begin, whose own job and that of the  *)
(* first one may both be lost from the store.                                *)
SubmissionsBounded ==
    \A a \in Activities : Len(external[a]) <= 1 + faults * (IF Alone THEN 1 ELSE 2)

(* When the queue job of the run is settled the run has the same outcome,    *)
(* unless that could not be written: a client never sees a run that goes on  *)
(* for ever or failed although its job succeeded (supervisor.go:53-73 with   *)
(* eventloop.go:112-118).  A second executor may write its own outcome over  *)
(* that of the first.                                                        *)
OutcomesAgree ==
    Alone =>
        /\ settled = "succeeded" => runStatus = "completed"
        /\ settled = "failed" /\ ~unrecorded => runStatus = "failed"

(* A run that was begun is settled: the polling of a call of Execute ends,   *)
(* and so do the attempts (supervisor.go:88-119).                            *)
RunSettles == attempts > 0 ~> settled # "no"

(* adapter.go:143-146 of the local provider: an inspection that comes too    *)
(* early leaves the handle running, and "the next inspection reads the       *)
(* authoritative exit status".                                               *)
InspectionCatchesUp ==
    \A a \in Activities :
        (handle[a].status = "running" /\ \A i \in JobsOf(a) : ~Live(external[a][i]))
            ~> (handle[a].status # "running" \/ settled # "no")

-----------------------------------------------------------------------------
(* The abstract run this one implements *)

\* A run as seen from outside: the activities that have a job, those that have
\* one that succeeded, and the row.
Life == INSTANCE WorkflowRun WITH
            given    <- {a \in Activities : external[a] # <<>>},
            done     <- {a \in Activities : Succeeded(a)},
            recorded <- runStatus

(* supervisor.go:88-119 and 440-465 with the store: whatever executors,      *)
(* retries, stale handles, lost answers and crashes do, each step changes    *)
(* nothing of this, gives out one activity whose predecessors have           *)
(* succeeded, is a first success, or records an outcome that is true.        *)
ImplementsWorkflowRun == Life!LifeSpec
=============================================================================
