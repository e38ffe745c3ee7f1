------------------------------ MODULE JobHistory ------------------------------
(* provider/kubernetes/history_cleaner.go: a goroutine of the server that    *)
(* removes old jobs, their pods and services from the cluster, next to the   *)
(* adapter that creates and stops jobs under the same names.                 *)
EXTENDS Integers, FiniteSets

CONSTANTS
    JobNames,     \* kubernetesName of run and activity
    Served,       \* the names whose activity has ports, hence a service
    Retries,      \* the names whose job has a backoffLimit above 0
    Retention,    \* AKOFLOW_KUBERNETES_HISTORY_RETENTION
    MaxHours,     \* bound: the clock
    MaxJobs,      \* bound: jobs that are created
    MaxOutages    \* bound: failing calls of the API and restarts of the server

ASSUME HistoryAssumption == Retention \in Nat /\ MaxHours \in Nat /\ MaxJobs \in Nat /\ MaxOutages \in Nat

VARIABLES
    kjob,      \* [JobNames -> the job of that name]
    pods,      \* names whose job has pods
    services,  \* names that have a service
    hours,     \* the clock
    sweep,     \* what the cleaner does: [at, names it has yet to visit, name, listed]
    disturbed, \* history: names a deletion failed for, or that were stopped while
               \* the cleaner had them on its list
    launches,  \* jobs created so far
    outages

historyVars == <<kjob, pods, services, hours, sweep, disturbed, launches, outages>>

NoKJob == [state |-> "none", number |-> 0, since |-> 0, ended |-> 0]
Resting == [at |-> "resting", left |-> {}, name |-> "", listed |-> [n \in JobNames |-> 0]]

JobHistoryInit ==
    /\ kjob = [n \in JobNames |-> NoKJob]
    /\ pods = {} /\ services = {}
    /\ hours = 0
    /\ sweep = Resting
    /\ disturbed = {}
    /\ launches = 0
    /\ outages = 0

Online == UNCHANGED outages
Outage == outages < MaxOutages /\ outages' = outages + 1

-----------------------------------------------------------------------------
(* The adapter and the cluster *)

PlaceJob(n) ==
    /\ kjob' = [kjob EXCEPT ![n] =
          [state |-> "active", number |-> launches', since |-> hours, ended |-> 0]]
    /\ pods' = pods \cup {n}

\* Adapter.Start: the job, then its service; without the service the job goes,
\* unless its deletion fails as well.
StartJob(n) ==
    /\ launches < MaxJobs /\ kjob[n] = NoKJob
    /\ launches' = launches + 1
    /\ \/ /\ n \in Served => n \notin services
          /\ PlaceJob(n) /\ services' = services \cup ({n} \cap Served) /\ Online
       \/ n \in services /\ Online /\ UNCHANGED <<kjob, pods, services>>
       \/ n \in Served /\ Outage /\ UNCHANGED <<kjob, pods, services>>
       \/ n \in Served /\ Outage /\ PlaceJob(n) /\ UNCHANGED services
    /\ UNCHANGED <<hours, sweep, disturbed>>

RemoveJob(n) == kjob' = [kjob EXCEPT ![n] = NoKJob] /\ pods' = pods \ {n}

\* Adapter.Stop: either deletion may fail; the cluster deletes the pods of a
\* deleted job.
StopJob(n) ==
    /\ kjob[n] # NoKJob
    /\ \/ /\ RemoveJob(n) /\ services' = services \ {n} /\ Online
          /\ disturbed' = IF sweep.listed[n] = 0 THEN disturbed ELSE disturbed \cup {n}
       \/ /\ RemoveJob(n) /\ n \in services /\ Outage
          /\ disturbed' = disturbed \cup {n} /\ UNCHANGED services
       \/ /\ services' = services \ {n} /\ Outage
          /\ UNCHANGED <<kjob, pods, disturbed>>
    /\ UNCHANGED <<hours, sweep, launches>>

\* A pod ends: the job succeeds, waits before it tries again, or fails.
PodEnds(n) ==
    /\ kjob[n].state = "active"
    /\ \E s \in {"succeeded", "failed"} \cup (IF n \in Retries THEN {"backoff"} ELSE {}) :
          kjob' = [kjob EXCEPT ![n] = [@ EXCEPT !.state = s, !.ended = IF s = "backoff" THEN 0 ELSE hours]]
    /\ UNCHANGED <<pods, services, hours, sweep, disturbed, launches, outages>>

PodRetried(n) ==
    /\ kjob[n].state = "backoff"
    /\ kjob' = [kjob EXCEPT ![n] = [@ EXCEPT !.state = "active"]]
    /\ UNCHANGED <<pods, services, hours, sweep, disturbed, launches, outages>>

Hour ==
    /\ hours < MaxHours /\ hours' = hours + 1
    /\ UNCHANGED <<kjob, pods, services, sweep, disturbed, launches, outages>>

-----------------------------------------------------------------------------
(* The cleaner *)

\* A job between two tries is not active and has no completion time: what
\* counts is when it was created.
expired(n) ==
    /\ kjob[n].state \in {"backoff", "succeeded", "failed"}
    /\ (IF kjob[n].state = "backoff" THEN kjob[n].since ELSE kjob[n].ended) <= hours - Retention

\* Cleanup: the jobs are listed once.
Cleanup ==
    LET old == {n \in JobNames : expired(n)} IN
    /\ sweep.at = "resting" /\ old # {}
    /\ sweep' = [at |-> "choosing", left |-> old, name |-> "",
                 listed |-> [n \in JobNames |-> IF n \in old THEN kjob[n].number ELSE 0]]
    /\ UNCHANGED <<kjob, pods, services, hours, disturbed, launches, outages>>

NextJob ==
    /\ sweep.at = "choosing"
    /\ \/ /\ sweep.left = {} /\ sweep' = Resting
       \/ \E n \in sweep.left :
             sweep' = [sweep EXCEPT !.at = "pods", !.name = n, !.left = @ \ {n}]
    /\ UNCHANGED <<kjob, pods, services, hours, disturbed, launches, outages>>

Then(at) == sweep' = [sweep EXCEPT !.at = at]

\* jobPods fails and the job is left for the next sweep, or each pod is deleted,
\* or some deletion fails and the rest goes on.
DeletePods ==
    /\ sweep.at = "pods"
    /\ \/ pods' = pods \ {sweep.name} /\ Then("services") /\ Online
       \/ UNCHANGED pods /\ Then("choosing") /\ Outage
       \/ UNCHANGED pods /\ Then("services") /\ Outage
    /\ UNCHANGED <<kjob, services, hours, disturbed, launches>>

\* The error is collected and the job deleted all the same.
DeleteService ==
    /\ sweep.at = "services"
    /\ \/ services' = services \ {sweep.name} /\ Online /\ UNCHANGED disturbed
       \/ Outage /\ disturbed' = disturbed \cup {sweep.name} /\ UNCHANGED services
    /\ Then("jobs")
    /\ UNCHANGED <<kjob, pods, hours, launches>>

DeleteJob_First ==
    /\ sweep.at \in {"services", "jobs"}
    /\ IF sweep.at = "services"
       THEN kjob' = [kjob EXCEPT ![sweep.name] = NoKJob] /\ pods' = pods \ {sweep.name} /\ UNCHANGED services /\ Then("jobs")
       ELSE services' = services \ {sweep.name} /\ UNCHANGED <<kjob, pods>> /\ Then("choosing")
    /\ UNCHANGED <<hours, disturbed, launches, outages>>
DeleteJob ==
    /\ sweep.at = "jobs"
    /\ \/ /\ kjob' = [kjob EXCEPT ![sweep.name] = NoKJob]
          /\ pods' = pods \ {sweep.name} /\ Online
       \/ Outage /\ UNCHANGED <<kjob, pods>>
    /\ Then("choosing")
    /\ UNCHANGED <<services, hours, disturbed, launches>>

\* The server goes down in the middle of a sweep.
ServerRestarts ==
    /\ sweep.at # "resting" /\ Outage
    /\ sweep' = Resting
    /\ UNCHANGED <<kjob, pods, services, hours, disturbed, launches>>

CleanerStep == Cleanup \/ NextJob \/ DeletePods \/ DeleteService \/ DeleteJob

JobHistoryNext ==
    \/ \E n \in JobNames : StartJob(n) \/ StopJob(n) \/ PodEnds(n) \/ PodRetried(n)
    \/ Hour \/ CleanerStep \/ ServerRestarts

JobHistorySpec == JobHistoryInit /\ [][JobHistoryNext]_historyVars

\* The ticker fires as long as the server runs, and calls return.
JobHistoryFairness == WF_historyVars(Online /\ CleanerStep)

FairJobHistorySpec == JobHistorySpec /\ JobHistoryFairness

-----------------------------------------------------------------------------
(* Properties *)

\* A step of the cleaner that takes something of a name away
Removes(n) ==
    /\ sweep.at \in {"pods", "services", "jobs"} /\ sweep.name = n /\ sweep' # sweep
    /\ (n \in pods /\ n \notin pods') \/ (n \in services /\ n \notin services')
         \/ (kjob[n] # NoKJob /\ kjob'[n] = NoKJob)

(* deleteJobHistory works on names, long after the list was read: still it   *)
(* removes pods, service and job of the job that was listed and never those  *)
(* of a new one, unless the listed job was stopped meanwhile.  And it leaves *)
(* ended jobs their retention (expired): examples/kind/README.md:91-94 says  *)
(* that a job is deleted when its "completion time is older than the         *)
(* retention period".  A job that retries is left out: between two tries it  *)
(* counts as ended.                                                          *)
RemovesWhatItListed ==
    [][\A n \in JobNames : Removes(n) =>
         /\ kjob[n].number = sweep.listed[n] \/ n \in disturbed
         /\ (kjob[n].number = sweep.listed[n] /\ kjob[n].state \in {"succeeded", "failed"} /\ n \notin Retries) =>
              kjob[n].ended <= hours - Retention]_historyVars

Clean == \A n \in JobNames : ~expired(n)

(* Run: jobs whose retention is over are removed in the end, whatever fails  *)
(* for a while.                                                              *)
HistoryIsCleaned == []<>Clean
=============================================================================
