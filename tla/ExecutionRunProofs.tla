------------------------- MODULE ExecutionRunProofs -------------------------
(***************************************************************************)
(* Proofs about ExecutionRun: whatever the graph, the runtime, the number  *)
(* of executors and of faults, activities are submitted after the success  *)
(* of their predecessors and runs are completed after the success of all.  *)
(*                                                                         *)
(* The argument follows the evidence of success.  A job that succeeded     *)
(* stays succeeded.  A handle in the store, or in the hands of an          *)
(* executor, says "completed" only of an activity that has such a job, and *)
(* names a job the runtime was given; so the activities in an executor's   *)
(* map of completed ones have succeeded, and what it has chosen to start   *)
(* depends on these only.                                                  *)
(*                                                                         *)
(* On this evidence rest the theorems in the second half.  A run           *)
(* implements WorkflowRun: each step is invisible from outside, gives out  *)
(* one activity whose predecessors have succeeded, is the first success of *)
(* one, or records an outcome that is true.                                *)
(*                                                                         *)
(* How often a run submits an activity, and that it ends as its queue job  *)
(* does.  An activity without a handle may be submitted by every executor  *)
(* that is at work and has not tried it yet.  While an executor works      *)
(* alone, was not cancelled and met no fault, the handle it is going to    *)
(* write is for free (Grace); everything else is paid for by faults.  Once *)
(* an activity has a handle, only the executors that are about to submit   *)
(* it do so.                                                               *)
(***************************************************************************)
EXTENDS ExecutionRun, FiniteSetTheorems, TLAPS

\* Where an executor is visiting the activity current[e], and where it holds
\* the handle of that activity in seen[e].
Holding == {"observe", "saveObserved", "saveTask", "saveSubmitted", "saveStarted"}
Visiting == Holding \cup {"submit", "recordHandle", "recordTask"}
Starting == {"start", "submit", "saveSubmitted", "saveStarted"}

\* The activities that have succeeded, and how many jobs each was given.
Done == {a \in Activities : Succeeded(a)}
Given == [a \in Activities |-> Len(external[a])]

Evidence(h, a) == (h.status = "completed" => a \in Done) /\ h.job <= Given[a]

VisitInv == \A e \in Executors : pc[e] \in Visiting => current[e] \in Activities
StoreInv == \A a \in Activities : Evidence(handle[a], a)
SeenInv ==
    \A e \in Executors :
        /\ pc[e] \in Holding => Evidence(seen[e], current[e])
        /\ pc[e] = "saveSubmitted" => seen[e].job # 0
CompletedInv ==
    \A e \in Executors :
        /\ completed[e] \subseteq Done
        /\ pc[e] = "complete" => completed[e] = Activities
StartInv ==
    \A e \in Executors :
        /\ pc[e] \in Starting => \A a \in todo[e] : Pred[a] \subseteq completed[e]
        /\ pc[e] = "submit" => Pred[current[e]] \subseteq completed[e]

RunIInv ==
    /\ RunTypeOK
    /\ VisitInv
    /\ StoreInv
    /\ SeenInv
    /\ CompletedInv
    /\ StartInv
    /\ DependenciesSucceeded
    /\ CompletedMeansSucceeded

-----------------------------------------------------------------------------
(* The steps that give jobs to the runtime, stop them or let them move       *)

\* Jobs are added, and a job that succeeded stays succeeded.
Grows ==
    \A a \in Activities :
        /\ Len(external[a]) <= Len(external'[a])
        /\ \A i \in JobsOf(a) : external[a][i] = "succeeded" => external'[a][i] = "succeeded"

(* Giving the runtime a job (controller.go:68) appends to the jobs of one    *)
(* activity.                                                                 *)
LEMMA NewJobGrows ==
    ASSUME RunTypeOK, NEW a \in Activities, NEW state \in JobStates, NewJob(a, state)
    PROVE  /\ external' \in [Activities -> Seq(JobStates)]
           /\ Len(external'[a]) = Len(external[a]) + 1
           /\ Grows
<1>1. external[a] \in Seq(JobStates) /\ external' = [external EXCEPT ![a] = Append(external[a], state)]
  BY Zenon DEF RunTypeOK, NewJob
<1>2. /\ Append(external[a], state) \in Seq(JobStates)
      /\ Len(Append(external[a], state)) = Len(external[a]) + 1
      /\ \A i \in 1..Len(external[a]) : Append(external[a], state)[i] = external[a][i]
  BY <1>1
<1>3. external' \in [Activities -> Seq(JobStates)] /\ Len(external'[a]) = Len(external[a]) + 1
  BY Zenon, <1>1, <1>2 DEF RunTypeOK
<1>4. ASSUME NEW b \in Activities
      PROVE  /\ Len(external[b]) <= Len(external'[b])
             /\ \A i \in JobsOf(b) : external'[b][i] = external[b][i]
  <2>1. CASE b = a
    BY <1>1, <1>2, <2>1 DEF RunTypeOK, JobsOf
  <2>2. CASE b # a
    BY <1>1, <2>2 DEF RunTypeOK, JobsOf
  <2> QED BY Zenon, <2>1, <2>2
<1> QED BY Zenon, <1>3, <1>4 DEF Grows

(* A job that is alive is stopped (controller.go:84) or moves in the runtime *)
(* without any other job being touched.                                      *)
LEMMA MovedJobGrows ==
    ASSUME RunTypeOK, NEW a \in Activities, NEW i \in JobsOf(a), NEW state \in JobStates,
           Live(external[a][i]), external' = [external EXCEPT ![a][i] = state]
    PROVE  /\ external' \in [Activities -> Seq(JobStates)]
           /\ \A b \in Activities : Len(external'[b]) = Len(external[b])
           /\ Grows
<1>1. external[a] \in Seq(JobStates) /\ i \in 1..Len(external[a])
  BY Zenon DEF RunTypeOK, JobsOf
<1> DEFINE moved == [external[a] EXCEPT ![i] = state]
<1>2. /\ moved \in Seq(JobStates)
      /\ Len(moved) = Len(external[a])
      /\ \A k \in 1..Len(external[a]) : k # i => moved[k] = external[a][k]
  BY <1>1
<1>3. external' = [external EXCEPT ![a] = moved]
  BY Zenon
<1>4. external' \in [Activities -> Seq(JobStates)]
  BY Zenon, <1>2, <1>3 DEF RunTypeOK
<1>5. external[a][i] # "succeeded"
  BY Zenon DEF Live
<1>6. ASSUME NEW b \in Activities
      PROVE  /\ Len(external'[b]) = Len(external[b]) /\ Len(external[b]) <= Len(external'[b])
             /\ \A k \in JobsOf(b) : external[b][k] = "succeeded" => external'[b][k] = "succeeded"
  <2>1. CASE b = a
    BY <1>1, <1>2, <1>3, <1>5, <2>1 DEF RunTypeOK, JobsOf
  <2>2. CASE b # a
    BY <1>1, <1>3, <2>2 DEF RunTypeOK, JobsOf
  <2> QED BY Zenon, <2>1, <2>2
<1> QED BY Zenon, <1>4, <1>6 DEF Grows

(* Evidence of success is never lost: what a handle says stays true.         *)
LEMMA EvidenceStays ==
    ASSUME RunTypeOK, RunTypeOK', Grows
    PROVE  /\ Done \subseteq Done'
           /\ Given \in [Activities -> Nat] /\ Given' \in [Activities -> Nat]
           /\ \A a \in Activities : Given[a] <= Given'[a]
<1>1. \A a \in Activities :
          /\ Len(external[a]) \in Nat /\ Len(external'[a]) \in Nat
          /\ Len(external[a]) <= Len(external'[a])
  BY DEF RunTypeOK, Grows
<1>2. Done \subseteq Done'
  BY <1>1 DEF Done, Succeeded, Grows, JobsOf
<1> QED BY Zenon, <1>1, <1>2 DEF Given

-----------------------------------------------------------------------------
(* Type correctness *)

(* What the runtime reports (adapter.go:114-148 and its siblings) is a       *)
(* status a handle may have.                                                 *)
LEMMA ObservedStatus ==
    ASSUME NEW a \in Activities, NEW h \in Handles \cup {NoHandle}, NEW status \in Observed(a, h)
    PROVE  [h EXCEPT !.status = status] \in Handles \cup {NoHandle}
<1>1. \A state : Report(state) \in {"running", "completed", "failed"}
  BY Zenon DEF Report
<1>2. status \in {"running", "completed", "failed"} \/ status = h.status
  BY Zenon, <1>1, RunAssumption DEF Observed, InspectLocal, InspectKubernetes, InspectSlurm
<1> QED BY <1>2 DEF Handles, NoHandle, Statuses

\* The parts of RunTypeOK, for proofs that look at one of them at a time
StoreType ==
    /\ runStatus \in Statuses
    /\ task \in [Activities -> Statuses]
    /\ handle \in [Activities -> Handles \cup {NoHandle}]
    /\ settled \in {"no", "succeeded", "failed"}
    /\ attempts \in Nat
    /\ faults \in Nat
MemoryType ==
    /\ pc \in [Executors -> PCs]
    /\ completed \in [Executors -> SUBSET Activities]
    /\ running \in [Executors -> SUBSET Activities]
    /\ todo \in [Executors -> SUBSET Activities]
    /\ current \in [Executors -> Activities \cup {0}]
    /\ seen \in [Executors -> Handles \cup {NoHandle}]
FlagType == cancelled \in [Executors -> BOOLEAN] /\ unrecorded \in BOOLEAN
RuntimeType == external \in [Activities -> Seq(JobStates)] /\ lost \in [Activities -> Nat]

(* The flags of a step: set by Cancel, CreateRunFails and Fail.              *)
LEMMA FlagTypeStep ==
    ASSUME FlagType, RunNext
    PROVE  FlagType'
<1>1. ASSUME NEW e \in Executors, Begin(e)
      PROVE  FlagType'
  BY Zenon, <1>1 DEF Begin, Works, Breaks, Fault, Goto, At, store, runtime, queue, maps, cursor, FlagType
<1>2. ASSUME NEW e \in Executors, CreateRunFails(e)
      PROVE  FlagType'
  BY Zenon, <1>2 DEF CreateRunFails, Works, Breaks, Fault, Goto, At, store, runtime, queue, maps, cursor, FlagType
<1>3. ASSUME NEW e \in Executors, Cancel(e)
      PROVE  FlagType'
  BY Zenon, <1>3 DEF Cancel, Works, Breaks, Fault, Goto, At, store, runtime, queue, maps, cursor, FlagType
<1>4. ASSUME NEW e \in Executors, Top(e)
      PROVE  FlagType'
  BY Zenon, <1>4 DEF Top, Works, Breaks, Fault, Goto, At, store, runtime, queue, maps, cursor, FlagType
<1>5. ASSUME NEW e \in Executors, Complete(e)
      PROVE  FlagType'
  BY Zenon, <1>5 DEF Complete, Works, Breaks, Fault, Goto, At, store, runtime, queue, maps, cursor, FlagType
<1>6. ASSUME NEW e \in Executors, Fail(e)
      PROVE  FlagType'
  BY Zenon, <1>6 DEF Fail, Works, Breaks, Fault, Goto, At, store, runtime, queue, maps, cursor, FlagType
<1>7. ASSUME NEW e \in Executors, Return(e)
      PROVE  FlagType'
  BY Zenon, <1>7 DEF Return, Forget, Works, Breaks, Fault, Goto, At, store, runtime, queue, maps, cursor, FlagType
<1>8. ASSUME NEW e \in Executors, Inspect(e)
      PROVE  FlagType'
  BY Zenon, <1>8 DEF Inspect, Works, Breaks, Fault, Goto, At, store, runtime, queue, maps, cursor, FlagType
<1>9. ASSUME NEW e \in Executors, Observe(e)
      PROVE  FlagType'
  BY Zenon, <1>9 DEF Observe, RuntimeWorks, RuntimeBreaks, Works, Breaks, Fault, Goto, At, store, runtime, queue, maps, cursor, FlagType
<1>10. ASSUME NEW e \in Executors, SaveObserved(e)
      PROVE  FlagType'
  BY Zenon, <1>10 DEF SaveObserved, VisitInv, Visiting, Holding, Works, Breaks, Fault, Goto, At, store, runtime, queue, maps, cursor, FlagType
<1>11. ASSUME NEW e \in Executors, SaveTask(e)
      PROVE  FlagType'
  BY Zenon, <1>11 DEF SaveTask, VisitInv, Visiting, Holding, Works, Breaks, Fault, Goto, At, store, runtime, queue, maps, cursor, FlagType
<1>12. ASSUME NEW e \in Executors, Select(e)
      PROVE  FlagType'
  BY Zenon, <1>12 DEF Select, First, ReadyActivities, Works, Breaks, Fault, Goto, At, store, runtime, queue, maps, cursor, FlagType
<1>13. ASSUME NEW e \in Executors, Poll(e)
      PROVE  FlagType'
  BY Zenon, <1>13 DEF Poll, Works, Breaks, Fault, Goto, At, store, runtime, queue, maps, cursor, FlagType
<1>14. ASSUME NEW e \in Executors, Start(e)
      PROVE  FlagType'
  BY Zenon, <1>14 DEF Start, First, ReadyActivities, Works, Breaks, Fault, Goto, At, store, runtime, queue, maps, cursor, FlagType
<1>15. ASSUME NEW e \in Executors, Submit(e)
      PROVE  FlagType'
  BY Zenon, <1>15 DEF Submit, RuntimeWorks, RuntimeBreaks, Works, Breaks, Fault, Goto, At, store, runtime, queue, maps, cursor, FlagType
<1>16. ASSUME NEW e \in Executors, SaveSubmitted(e)
      PROVE  FlagType'
  BY Zenon, <1>16 DEF SaveSubmitted, VisitInv, Visiting, Holding, Works, Breaks, Fault, Goto, At, store, runtime, queue, maps, cursor, FlagType
<1>17. ASSUME NEW e \in Executors, RecordHandle(e)
      PROVE  FlagType'
  BY Zenon, <1>17 DEF RecordHandle, VisitInv, Visiting, Holding, Works, Breaks, Fault, Goto, At, store, runtime, queue, maps, cursor, FlagType
<1>18. ASSUME NEW e \in Executors, RecordTask(e)
      PROVE  FlagType'
  BY Zenon, <1>18 DEF RecordTask, VisitInv, Visiting, Holding, Works, Breaks, Fault, Goto, At, store, runtime, queue, maps, cursor, FlagType
<1>19. ASSUME NEW e \in Executors, SaveStarted(e)
      PROVE  FlagType'
  BY Zenon, <1>19 DEF SaveStarted, VisitInv, Visiting, Holding, Works, Breaks, Fault, Goto, At, store, runtime, queue, maps, cursor, FlagType
<1>20. ASSUME NEW D \in SUBSET Executors, Crash(D)
      PROVE  FlagType'
  BY Zenon, <1>20 DEF Crash, Forget, Works, Breaks, Fault, Goto, At, store, runtime, queue, maps, cursor, FlagType
<1>21. ASSUME NEW a \in Activities, NEW i \in JobsOf(a), JobMoves(a, i)
      PROVE  FlagType'
  BY Zenon, <1>21 DEF JobMoves, store, queue, maps, cursor, FlagType
<1> QED
  BY Zenon, <1>1, <1>2, <1>3, <1>4, <1>5, <1>6, <1>7, <1>8, <1>9, <1>10, <1>11, <1>12, <1>13, <1>14, <1>15, <1>16, <1>17, <1>18, <1>19, <1>20, <1>21 DEF RunNext, ExecutorStep, JobStep

(* The store and the queue keep their types: every statement writes a status *)
(* of its table.                                                             *)
LEMMA StoreTypeStep ==
    ASSUME StoreType, MemoryType, VisitInv, RunNext
    PROVE  StoreType'
<1>h. /\ [status |-> "failed", job |-> 0] \in Handles
      /\ \A h \in Handles \cup {NoHandle} : h.status \in Statuses
      /\ {"running", "completed", "failed"} \subseteq Statuses
  BY DEF Handles, NoHandle, Statuses
<1>1. ASSUME NEW e \in Executors, Begin(e)
      PROVE  StoreType'
  BY <1>1, <1>h DEF Begin, Works, Breaks, Fault, Goto, At, store, runtime, queue, maps, cursor, StoreType, MemoryType
<1>2. ASSUME NEW e \in Executors, CreateRunFails(e)
      PROVE  StoreType'
  BY <1>2, <1>h DEF CreateRunFails, Works, Breaks, Fault, Goto, At, store, runtime, queue, maps, cursor, StoreType, MemoryType
<1>3. ASSUME NEW e \in Executors, Cancel(e)
      PROVE  StoreType'
  BY <1>3, <1>h DEF Cancel, Works, Breaks, Fault, Goto, At, store, runtime, queue, maps, cursor, StoreType, MemoryType
<1>4. ASSUME NEW e \in Executors, Top(e)
      PROVE  StoreType'
  BY Zenon, <1>4, <1>h DEF Top, Works, Breaks, Fault, Goto, At, store, runtime, queue, maps, cursor, StoreType, MemoryType
<1>5. ASSUME NEW e \in Executors, Complete(e)
      PROVE  StoreType'
  BY <1>5, <1>h DEF Complete, Works, Breaks, Fault, Goto, At, store, runtime, queue, maps, cursor, StoreType, MemoryType
<1>6. ASSUME NEW e \in Executors, Fail(e)
      PROVE  StoreType'
  BY <1>6, <1>h DEF Fail, Works, Breaks, Fault, Goto, At, store, runtime, queue, maps, cursor, StoreType, MemoryType
<1>7. ASSUME NEW e \in Executors, Return(e)
      PROVE  StoreType'
  BY <1>7, <1>h DEF Return, Forget, Works, Breaks, Fault, Goto, At, store, runtime, queue, maps, cursor, StoreType, MemoryType
<1>8. ASSUME NEW e \in Executors, Inspect(e)
      PROVE  StoreType'
  BY <1>8, <1>h DEF Inspect, Works, Breaks, Fault, Goto, At, store, runtime, queue, maps, cursor, StoreType, MemoryType
<1>9. ASSUME NEW e \in Executors, Observe(e)
      PROVE  StoreType'
  BY <1>9, <1>h DEF Observe, RuntimeWorks, RuntimeBreaks, Works, Breaks, Fault, Goto, At, store, runtime, queue, maps, cursor, StoreType, MemoryType
<1>10. ASSUME NEW e \in Executors, SaveObserved(e)
      PROVE  StoreType'
  BY <1>10, <1>h DEF SaveObserved, VisitInv, Visiting, Holding, Works, Breaks, Fault, Goto, At, store, runtime, queue, maps, cursor, StoreType, MemoryType
<1>11. ASSUME NEW e \in Executors, SaveTask(e)
      PROVE  StoreType'
  BY <1>11, <1>h DEF SaveTask, VisitInv, Visiting, Holding, Works, Breaks, Fault, Goto, At, store, runtime, queue, maps, cursor, StoreType, MemoryType
<1>12. ASSUME NEW e \in Executors, Select(e)
      PROVE  StoreType'
  BY Zenon, <1>12, <1>h DEF Select, First, ReadyActivities, Works, Breaks, Fault, Goto, At, store, runtime, queue, maps, cursor, StoreType, MemoryType
<1>13. ASSUME NEW e \in Executors, Poll(e)
      PROVE  StoreType'
  BY Zenon, <1>13, <1>h DEF Poll, Works, Breaks, Fault, Goto, At, store, runtime, queue, maps, cursor, StoreType, MemoryType
<1>14. ASSUME NEW e \in Executors, Start(e)
      PROVE  StoreType'
  BY <1>14, <1>h DEF Start, First, ReadyActivities, Works, Breaks, Fault, Goto, At, store, runtime, queue, maps, cursor, StoreType, MemoryType
<1>15. ASSUME NEW e \in Executors, Submit(e)
      PROVE  StoreType'
  BY <1>15, <1>h DEF Submit, RuntimeWorks, RuntimeBreaks, Works, Breaks, Fault, Goto, At, store, runtime, queue, maps, cursor, StoreType, MemoryType
<1>16. ASSUME NEW e \in Executors, SaveSubmitted(e)
      PROVE  StoreType'
  BY <1>16, <1>h DEF SaveSubmitted, VisitInv, Visiting, Holding, Works, Breaks, Fault, Goto, At, store, runtime, queue, maps, cursor, StoreType, MemoryType
<1>17. ASSUME NEW e \in Executors, RecordHandle(e)
      PROVE  StoreType'
  BY <1>17, <1>h DEF RecordHandle, VisitInv, Visiting, Holding, Works, Breaks, Fault, Goto, At, store, runtime, queue, maps, cursor, StoreType, MemoryType
<1>18. ASSUME NEW e \in Executors, RecordTask(e)
      PROVE  StoreType'
  BY <1>18, <1>h DEF RecordTask, VisitInv, Visiting, Holding, Works, Breaks, Fault, Goto, At, store, runtime, queue, maps, cursor, StoreType, MemoryType
<1>19. ASSUME NEW e \in Executors, SaveStarted(e)
      PROVE  StoreType'
  BY <1>19, <1>h DEF SaveStarted, VisitInv, Visiting, Holding, Works, Breaks, Fault, Goto, At, store, runtime, queue, maps, cursor, StoreType, MemoryType
<1>20. ASSUME NEW D \in SUBSET Executors, Crash(D)
      PROVE  StoreType'
  BY <1>20, <1>h DEF Crash, Forget, Works, Breaks, Fault, Goto, At, store, runtime, queue, maps, cursor, StoreType, MemoryType
<1>21. ASSUME NEW a \in Activities, NEW i \in JobsOf(a), JobMoves(a, i)
      PROVE  StoreType'
  BY Zenon, <1>21, <1>h DEF JobMoves, store, queue, maps, cursor, StoreType, MemoryType
<1> QED
  BY Zenon, <1>1, <1>2, <1>3, <1>4, <1>5, <1>6, <1>7, <1>8, <1>9, <1>10, <1>11, <1>12, <1>13, <1>14, <1>15, <1>16, <1>17, <1>18, <1>19, <1>20, <1>21 DEF RunNext, ExecutorStep, JobStep

(* The maps and the cursor of an executor keep their types.                  *)
LEMMA MemoryTypeStep ==
    ASSUME StoreType, MemoryType, RuntimeType, VisitInv, RunNext
    PROVE  MemoryType'
<1>1. ASSUME NEW e \in Executors, Begin(e)
      PROVE  MemoryType'
  BY Zenon, <1>1 DEF Begin, Works, Breaks, Fault, Goto, At, store, runtime, queue, maps, cursor, MemoryType, StoreType, PCs
<1>2. ASSUME NEW e \in Executors, CreateRunFails(e)
      PROVE  MemoryType'
  BY Zenon, <1>2 DEF CreateRunFails, Works, Breaks, Fault, Goto, At, store, runtime, queue, maps, cursor, MemoryType, StoreType, PCs
<1>3. ASSUME NEW e \in Executors, Cancel(e)
      PROVE  MemoryType'
  BY Zenon, <1>3 DEF Cancel, Works, Breaks, Fault, Goto, At, store, runtime, queue, maps, cursor, MemoryType, StoreType, PCs
<1>4. ASSUME NEW e \in Executors, Top(e)
      PROVE  MemoryType'
  BY Zenon, <1>4 DEF Top, Works, Breaks, Fault, Goto, At, store, runtime, queue, maps, cursor, MemoryType, StoreType, PCs
<1>5. ASSUME NEW e \in Executors, Complete(e)
      PROVE  MemoryType'
  BY Zenon, <1>5 DEF Complete, Works, Breaks, Fault, Goto, At, store, runtime, queue, maps, cursor, MemoryType, StoreType, PCs
<1>6. ASSUME NEW e \in Executors, Fail(e)
      PROVE  MemoryType'
  BY Zenon, <1>6 DEF Fail, Works, Breaks, Fault, Goto, At, store, runtime, queue, maps, cursor, MemoryType, StoreType, PCs
<1>7. ASSUME NEW e \in Executors, Return(e)
      PROVE  MemoryType'
  BY Zenon, <1>7 DEF Return, Forget, Works, Breaks, Fault, Goto, At, store, runtime, queue, maps, cursor, MemoryType, StoreType, PCs
<1>8. ASSUME NEW e \in Executors, Inspect(e)
      PROVE  MemoryType'
  BY <1>8 DEF Inspect, Works, Breaks, Fault, Goto, At, store, runtime, queue, maps, cursor, MemoryType, StoreType, PCs
<1>9. ASSUME NEW e \in Executors, Observe(e)
      PROVE  MemoryType'
  <2>1. current[e] \in Activities /\ seen[e] \in Handles \cup {NoHandle}
    BY Zenon, <1>9 DEF Observe, At, MemoryType, VisitInv, Visiting, Holding
  <2>2. seen' \in [Executors -> Handles \cup {NoHandle}]
    <3>1. ASSUME NEW status \in Observed(current[e], seen[e]),
                 seen' = [seen EXCEPT ![e].status = status]
          PROVE  seen' \in [Executors -> Handles \cup {NoHandle}]
      <4>1. [seen[e] EXCEPT !.status = status] \in Handles \cup {NoHandle}
        BY Zenon, <2>1, ObservedStatus
      <4> QED BY Zenon, <3>1, <4>1 DEF MemoryType
    <3>2. ASSUME seen' = [seen EXCEPT ![e].status = "failed"]
          PROVE  seen' \in [Executors -> Handles \cup {NoHandle}]
      <4>1. [seen[e] EXCEPT !.status = "failed"] \in Handles
        BY <2>1 DEF Handles, NoHandle, Statuses
      <4> QED BY Zenon, <3>2, <4>1 DEF MemoryType
    <3> QED BY Zenon, <1>9, <3>1, <3>2 DEF Observe
  <2> QED BY Zenon, <1>9, <2>2 DEF Observe, Goto, maps, MemoryType, PCs
<1>10. ASSUME NEW e \in Executors, SaveObserved(e)
      PROVE  MemoryType'
  BY Zenon, <1>10 DEF SaveObserved, VisitInv, Visiting, Holding, Works, Breaks, Fault, Goto, At, store, runtime, queue, maps, cursor, MemoryType, StoreType, PCs
<1>11. ASSUME NEW e \in Executors, SaveTask(e)
      PROVE  MemoryType'
  BY <1>11 DEF SaveTask, VisitInv, Visiting, Holding, Works, Breaks, Fault, Goto, At, store, runtime, queue, maps, cursor, MemoryType, StoreType, PCs
<1>12. ASSUME NEW e \in Executors, Select(e)
      PROVE  MemoryType'
  BY Zenon, <1>12 DEF Select, First, ReadyActivities, Works, Breaks, Fault, Goto, At, store, runtime, queue, maps, cursor, MemoryType, StoreType, PCs
<1>13. ASSUME NEW e \in Executors, Poll(e)
      PROVE  MemoryType'
  BY Zenon, <1>13 DEF Poll, Works, Breaks, Fault, Goto, At, store, runtime, queue, maps, cursor, MemoryType, StoreType, PCs
<1>14. ASSUME NEW e \in Executors, Start(e)
      PROVE  MemoryType'
  BY <1>14 DEF Start, First, ReadyActivities, Works, Breaks, Fault, Goto, At, store, runtime, queue, maps, cursor, MemoryType, StoreType, PCs
<1>15. ASSUME NEW e \in Executors, Submit(e)
      PROVE  MemoryType'
  <2>1. current[e] \in Activities
    BY Zenon, <1>15 DEF Submit, At, VisitInv, Visiting, Holding
  <2>2. [status |-> "running", job |-> Len(external[current[e]]) + 1] \in Handles
    BY <2>1 DEF RuntimeType, Handles, Statuses
  <2>3. seen' \in [Executors -> Handles \cup {NoHandle}]
    BY Zenon, <1>15, <2>2 DEF Submit, MemoryType
  <2> QED BY Zenon, <1>15, <2>3 DEF Submit, Goto, maps, MemoryType, PCs
<1>16. ASSUME NEW e \in Executors, SaveSubmitted(e)
      PROVE  MemoryType'
  BY Zenon, <1>16 DEF SaveSubmitted, VisitInv, Visiting, Holding, Works, Breaks, Fault, Goto, At, store, runtime, queue, maps, cursor, MemoryType, StoreType, PCs
<1>17. ASSUME NEW e \in Executors, RecordHandle(e)
      PROVE  MemoryType'
  BY Zenon, <1>17 DEF RecordHandle, VisitInv, Visiting, Holding, Works, Breaks, Fault, Goto, At, store, runtime, queue, maps, cursor, MemoryType, StoreType, PCs
<1>18. ASSUME NEW e \in Executors, RecordTask(e)
      PROVE  MemoryType'
  BY Zenon, <1>18 DEF RecordTask, VisitInv, Visiting, Holding, Works, Breaks, Fault, Goto, At, store, runtime, queue, maps, cursor, MemoryType, StoreType, PCs
<1>19. ASSUME NEW e \in Executors, SaveStarted(e)
      PROVE  MemoryType'
  BY <1>19 DEF SaveStarted, VisitInv, Visiting, Holding, Works, Breaks, Fault, Goto, At, store, runtime, queue, maps, cursor, MemoryType, StoreType, PCs
<1>20. ASSUME NEW D \in SUBSET Executors, Crash(D)
      PROVE  MemoryType'
  BY Zenon, <1>20 DEF Crash, Forget, Works, Breaks, Fault, Goto, At, store, runtime, queue, maps, cursor, MemoryType, StoreType, PCs
<1>21. ASSUME NEW a \in Activities, NEW i \in JobsOf(a), JobMoves(a, i)
      PROVE  MemoryType'
  BY Zenon, <1>21 DEF JobMoves, store, queue, maps, cursor, MemoryType, StoreType, PCs
<1> QED
  BY Zenon, <1>1, <1>2, <1>3, <1>4, <1>5, <1>6, <1>7, <1>8, <1>9, <1>10, <1>11, <1>12, <1>13, <1>14, <1>15, <1>16, <1>17, <1>18, <1>19, <1>20, <1>21 DEF RunNext, ExecutorStep, JobStep

(* Jobs are only added and moved, also by a crash, which makes the local     *)
(* adapter lose sight of them (adapter.go:43-52).                            *)
LEMMA RuntimeTypeStep ==
    ASSUME RunTypeOK, VisitInv, SeenInv, RunNext
    PROVE  RuntimeType' /\ Grows
<1>0. ASSUME UNCHANGED external PROVE external' \in [Activities -> Seq(JobStates)] /\ Grows
  BY <1>0 DEF Grows, RunTypeOK, JobsOf
<1>1. ASSUME NEW e \in Executors, Begin(e)
      PROVE  RuntimeType' /\ Grows
  BY Zenon, <1>1, <1>0 DEF Begin, runtime, RuntimeType, RunTypeOK
<1>2. ASSUME NEW e \in Executors, CreateRunFails(e)
      PROVE  RuntimeType' /\ Grows
  BY Zenon, <1>2, <1>0 DEF CreateRunFails, runtime, RuntimeType, RunTypeOK
<1>3. ASSUME NEW e \in Executors, Cancel(e)
      PROVE  RuntimeType' /\ Grows
  BY Zenon, <1>3, <1>0 DEF Cancel, runtime, RuntimeType, RunTypeOK
<1>4. ASSUME NEW e \in Executors, Top(e)
      PROVE  RuntimeType' /\ Grows
  BY Zenon, <1>4, <1>0 DEF Top, runtime, RuntimeType, RunTypeOK
<1>5. ASSUME NEW e \in Executors, Complete(e)
      PROVE  RuntimeType' /\ Grows
  BY Zenon, <1>5, <1>0 DEF Complete, runtime, RuntimeType, RunTypeOK
<1>6. ASSUME NEW e \in Executors, Fail(e)
      PROVE  RuntimeType' /\ Grows
  BY Zenon, <1>6, <1>0 DEF Fail, runtime, RuntimeType, RunTypeOK
<1>7. ASSUME NEW e \in Executors, Return(e)
      PROVE  RuntimeType' /\ Grows
  BY Zenon, <1>7, <1>0 DEF Return, runtime, RuntimeType, RunTypeOK
<1>8. ASSUME NEW e \in Executors, Inspect(e)
      PROVE  RuntimeType' /\ Grows
  BY Zenon, <1>8, <1>0 DEF Inspect, runtime, RuntimeType, RunTypeOK
<1>9. ASSUME NEW e \in Executors, Observe(e)
      PROVE  RuntimeType' /\ Grows
  BY Zenon, <1>9, <1>0 DEF Observe, runtime, RuntimeType, RunTypeOK
<1>10. ASSUME NEW e \in Executors, SaveObserved(e)
      PROVE  RuntimeType' /\ Grows
  BY Zenon, <1>10, <1>0 DEF SaveObserved, runtime, RuntimeType, RunTypeOK
<1>11. ASSUME NEW e \in Executors, SaveTask(e)
      PROVE  RuntimeType' /\ Grows
  BY Zenon, <1>11, <1>0 DEF SaveTask, runtime, RuntimeType, RunTypeOK
<1>12. ASSUME NEW e \in Executors, Select(e)
      PROVE  RuntimeType' /\ Grows
  BY Zenon, <1>12, <1>0 DEF Select, runtime, RuntimeType, RunTypeOK
<1>13. ASSUME NEW e \in Executors, Poll(e)
      PROVE  RuntimeType' /\ Grows
  BY Zenon, <1>13, <1>0 DEF Poll, runtime, RuntimeType, RunTypeOK
<1>14. ASSUME NEW e \in Executors, Start(e)
      PROVE  RuntimeType' /\ Grows
  BY Zenon, <1>14, <1>0 DEF Start, runtime, RuntimeType, RunTypeOK
<1>15. ASSUME NEW e \in Executors, Submit(e)
      PROVE  RuntimeType' /\ Grows
  <2>1. current[e] \in Activities
    BY Zenon, <1>15 DEF Submit, At, VisitInv, Visiting, Holding
  <2>2. ASSUME NEW state \in JobStates, NewJob(current[e], state)
        PROVE  external' \in [Activities -> Seq(JobStates)] /\ Grows
    BY Zenon, <2>1, <2>2, NewJobGrows
  <2>3. external' \in [Activities -> Seq(JobStates)] /\ Grows
    BY Zenon, <1>15, <1>0, <2>2 DEF Submit, JobStates
  <2> QED BY Zenon, <1>15, <2>3 DEF Submit, RuntimeType, RunTypeOK
<1>16. ASSUME NEW e \in Executors, SaveSubmitted(e)
      PROVE  RuntimeType' /\ Grows
  <2>1. current[e] \in Activities /\ seen[e] \in Handles \cup {NoHandle}
    BY Zenon, <1>16 DEF SaveSubmitted, At, RunTypeOK, VisitInv, Visiting, Holding
  <2>2. ASSUME Live(external[current[e]][seen[e].job]),
               external' = [external EXCEPT ![current[e]][seen[e].job] = "stopped"]
        PROVE  external' \in [Activities -> Seq(JobStates)] /\ Grows
    <3>1. seen[e].job \in Nat /\ Len(external[current[e]]) \in Nat
      BY <2>1 DEF RunTypeOK, Handles, NoHandle
    <3>2. seen[e].job # 0 /\ seen[e].job <= Len(external[current[e]])
      BY Zenon, <1>16, <2>1 DEF SaveSubmitted, At, SeenInv, Holding, Evidence, Given
    <3>3. seen[e].job \in JobsOf(current[e])
      BY <3>1, <3>2 DEF JobsOf
    <3> QED BY Zenon, <2>1, <2>2, <3>3, MovedJobGrows DEF JobStates
  <2>3. external' \in [Activities -> Seq(JobStates)] /\ Grows
    BY Zenon, <1>16, <1>0, <2>2 DEF SaveSubmitted
  <2> QED BY Zenon, <1>16, <2>3 DEF SaveSubmitted, RuntimeType, RunTypeOK
<1>17. ASSUME NEW e \in Executors, RecordHandle(e)
      PROVE  RuntimeType' /\ Grows
  BY Zenon, <1>17, <1>0 DEF RecordHandle, runtime, RuntimeType, RunTypeOK
<1>18. ASSUME NEW e \in Executors, RecordTask(e)
      PROVE  RuntimeType' /\ Grows
  BY Zenon, <1>18, <1>0 DEF RecordTask, runtime, RuntimeType, RunTypeOK
<1>19. ASSUME NEW e \in Executors, SaveStarted(e)
      PROVE  RuntimeType' /\ Grows
  BY Zenon, <1>19, <1>0 DEF SaveStarted, runtime, RuntimeType, RunTypeOK
<1>20. ASSUME NEW D \in SUBSET Executors, Crash(D)
      PROVE  RuntimeType' /\ Grows
  <2>1. UNCHANGED external /\ \A a \in Activities : Len(external[a]) \in Nat
    BY <1>20 DEF Crash, RunTypeOK
  <2> QED BY Zenon, <1>20, <1>0, <2>1 DEF Crash, RuntimeType, RunTypeOK
<1>21. ASSUME NEW a \in Activities, NEW i \in JobsOf(a), JobMoves(a, i)
      PROVE  RuntimeType' /\ Grows
  <2>1. PICK state \in {"succeeded", "failed", "retrying"} :
            Live(external[a][i]) /\ external' = [external EXCEPT ![a][i] = state]
    BY Zenon, <1>21 DEF JobMoves, Live
  <2>2. external' \in [Activities -> Seq(JobStates)] /\ Grows
    BY Zenon, <2>1, MovedJobGrows DEF JobStates
  <2> QED BY Zenon, <1>21, <2>2 DEF JobMoves, RuntimeType, RunTypeOK
<1> QED
  BY Zenon, <1>1, <1>2, <1>3, <1>4, <1>5, <1>6, <1>7, <1>8, <1>9, <1>10, <1>11, <1>12, <1>13, <1>14, <1>15, <1>16, <1>17, <1>18, <1>19, <1>20, <1>21 DEF RunNext, ExecutorStep, JobStep

(* Type correctness of every step, and the growth of the runtime's jobs.     *)
LEMMA RunTypeStep ==
    ASSUME RunTypeOK, VisitInv, SeenInv, RunNext
    PROVE  RunTypeOK' /\ Grows
<1>1. FlagType /\ StoreType /\ MemoryType /\ RuntimeType
  BY Zenon DEF RunTypeOK, FlagType, StoreType, MemoryType, RuntimeType
<1>2. FlagType' /\ StoreType' /\ MemoryType' /\ RuntimeType' /\ Grows
  BY Zenon, <1>1, FlagTypeStep, StoreTypeStep, MemoryTypeStep, RuntimeTypeStep
<1> QED BY Zenon, <1>2 DEF RunTypeOK, FlagType, StoreType, MemoryType, RuntimeType

-----------------------------------------------------------------------------
(* The evidence of success *)

(* A runtime reports "completed" only of an activity that has succeeded: for *)
(* a handle with an external id by its job, for the local adapter by the     *)
(* results it holds of the activity.                                         *)
LEMMA ObservedEvidence ==
    ASSUME RunTypeOK, NEW a \in Activities, NEW h \in Handles \cup {NoHandle}, Evidence(h, a),
           NEW status \in Observed(a, h), status = "completed"
    PROVE  a \in Done
<1>1. \A state : Report(state) = "completed" => state = "succeeded"
  BY Zenon DEF Report
<1>2. h.job \in Nat /\ Len(external[a]) \in Nat /\ h.job <= Len(external[a])
  BY DEF Handles, NoHandle, RunTypeOK, Evidence, Given
<1>3. CASE h.status = "completed"
  BY Zenon, <1>3 DEF Evidence
<1>4. CASE h.status # "completed"
  <2>1. \E i \in JobsOf(a) : Report(external[a][i]) = "completed"
    BY SMTT(20), <1>2, <1>4, RunAssumption
       DEF Observed, InspectLocal, InspectKubernetes, InspectSlurm, JobsOf
  <2> QED BY Zenon, <1>1, <2>1 DEF Done, Succeeded
<1> QED BY Zenon, <1>3, <1>4

\* What the invariant says of one executor
ExecutorInv(e) ==
    /\ pc[e] \in Visiting => current[e] \in Activities
    /\ pc[e] \in Holding => Evidence(seen[e], current[e])
    /\ pc[e] = "saveSubmitted" => seen[e].job # 0
    /\ completed[e] \subseteq Done
    /\ pc[e] = "complete" => completed[e] = Activities
    /\ pc[e] \in Starting => \A a \in todo[e] : Pred[a] \subseteq completed[e]
    /\ pc[e] = "submit" => Pred[current[e]] \subseteq completed[e]

(* No step of any actor disturbs the evidence an executor works from.        *)
LEMMA ExecutorInvStep ==
    ASSUME RunIInv, RunTypeOK', Grows, RunNext, NEW f \in Executors
    PROVE  ExecutorInv(f)'
<1> USE RunAssumption
<1>a. ExecutorInv(f) /\ RunTypeOK
  BY Zenon DEF RunIInv, ExecutorInv, VisitInv, SeenInv, CompletedInv, StartInv
<1>b. /\ Done \subseteq Done'
      /\ Given \in [Activities -> Nat] /\ Given' \in [Activities -> Nat]
      /\ \A a \in Activities : Given[a] <= Given'[a]
  BY Zenon, <1>a, EvidenceStays
<1>c. /\ \A a \in Activities : handle[a] \in Handles \cup {NoHandle} /\ Evidence(handle[a], a)
      /\ \A h \in Handles \cup {NoHandle} : h.job \in Nat
  BY DEF RunIInv, StoreInv, RunTypeOK, Handles, NoHandle
<1>d. MemoryType
  BY Zenon, <1>a DEF RunTypeOK, MemoryType
\* A step that leaves f alone
<1>0. ASSUME pc'[f] = pc[f], completed'[f] = completed[f], todo'[f] = todo[f],
             current'[f] = current[f], seen'[f] = seen[f]
      PROVE  ExecutorInv(f)'
  <2>1. ASSUME current[f] \in Activities, Evidence(seen[f], current[f])
        PROVE  Evidence(seen[f], current[f])'
    <3>1. seen[f].job \in Nat
      BY Zenon, <1>c, <1>d DEF MemoryType
    <3>2. Given[current[f]] <= Given'[current[f]] /\ Given[current[f]] \in Nat /\ Given'[current[f]] \in Nat
      BY <1>b, <2>1
    <3>3. seen[f].job <= Given[current[f]]
      BY Zenon, <2>1 DEF Evidence
    <3> HIDE DEF Given, Done
    <3>4. seen[f].job <= Given'[current[f]]
      BY <3>1, <3>2, <3>3
    <3> QED BY Zenon, <1>0, <1>b, <2>1, <3>4 DEF Evidence
  <2> QED BY Zenon, <1>0, <1>a, <1>b, <2>1 DEF ExecutorInv, Visiting, Holding
\* A step of f to a place where it visits no activity
<1>q. ASSUME pc'[f] \in PCs \ (Visiting \cup Starting \cup {"complete"}),
             completed'[f] \subseteq Done
      PROVE  ExecutorInv(f)'
  BY Zenon, <1>q, <1>b DEF ExecutorInv, Visiting, Holding, Starting
<1>1. ASSUME NEW e \in Executors, Begin(e)
      PROVE  ExecutorInv(f)'
  <2>1. CASE e # f
    BY Zenon, <1>0, <1>d, <1>1, <2>1 DEF Begin, Goto, maps, cursor, MemoryType
  <2>2. CASE e = f
    <3>1. pc'[f] \in PCs \ (Visiting \cup Starting \cup {"complete"})
      BY Zenon, <1>d, <1>1, <2>2 DEF Begin, Goto, At, MemoryType, PCs, Visiting, Holding, Starting
    <3>2. completed'[f] = completed[f]
      BY Zenon, <1>1 DEF Begin, maps
    <3> QED BY Zenon, <1>a, <1>q, <3>1, <3>2 DEF ExecutorInv
  <2> QED BY Zenon, <2>1, <2>2
<1>2. ASSUME NEW e \in Executors, CreateRunFails(e)
      PROVE  ExecutorInv(f)'
  <2>1. CASE e # f
    BY Zenon, <1>0, <1>d, <1>2, <2>1 DEF CreateRunFails, Goto, maps, cursor, MemoryType
  <2>2. CASE e = f
    <3>1. pc'[f] \in PCs \ (Visiting \cup Starting \cup {"complete"})
      BY Zenon, <1>d, <1>2, <2>2 DEF CreateRunFails, Goto, At, MemoryType, PCs, Visiting, Holding, Starting
    <3>2. completed'[f] = completed[f]
      BY Zenon, <1>2 DEF CreateRunFails, maps
    <3> QED BY Zenon, <1>a, <1>q, <3>1, <3>2 DEF ExecutorInv
  <2> QED BY Zenon, <2>1, <2>2
<1>3. ASSUME NEW e \in Executors, Cancel(e)
      PROVE  ExecutorInv(f)'
  BY Zenon, <1>0, <1>3 DEF Cancel, maps, cursor
<1>4. ASSUME NEW e \in Executors, Top(e)
      PROVE  ExecutorInv(f)'
  <2>1. CASE e # f
    BY Zenon, <1>0, <1>d, <1>4, <2>1 DEF Top, Goto, maps, cursor, MemoryType
  <2>2. CASE e = f
    BY <1>a, <1>b, <1>c, <1>d, <1>4, <2>2 DEF Top, Goto, At, maps, cursor, ExecutorInv, Evidence, MemoryType, Visiting, Holding, Starting
  <2> QED BY Zenon, <2>1, <2>2
<1>5. ASSUME NEW e \in Executors, Complete(e)
      PROVE  ExecutorInv(f)'
  <2>1. CASE e # f
    BY Zenon, <1>0, <1>d, <1>5, <2>1 DEF Complete, Goto, maps, cursor, MemoryType
  <2>2. CASE e = f
    <3>1. pc'[f] \in PCs \ (Visiting \cup Starting \cup {"complete"})
      BY <1>d, <1>5, <2>2 DEF Complete, Goto, At, MemoryType, PCs, Visiting, Holding, Starting
    <3>2. completed'[f] = completed[f]
      BY Zenon, <1>5 DEF Complete, maps
    <3> QED BY Zenon, <1>a, <1>q, <3>1, <3>2 DEF ExecutorInv
  <2> QED BY Zenon, <2>1, <2>2
<1>6. ASSUME NEW e \in Executors, Fail(e)
      PROVE  ExecutorInv(f)'
  <2>1. CASE e # f
    BY Zenon, <1>0, <1>d, <1>6, <2>1 DEF Fail, Goto, maps, cursor, MemoryType
  <2>2. CASE e = f
    <3>1. pc'[f] \in PCs \ (Visiting \cup Starting \cup {"complete"})
      BY Zenon, <1>d, <1>6, <2>2 DEF Fail, Goto, At, MemoryType, PCs, Visiting, Holding, Starting
    <3>2. completed'[f] = completed[f]
      BY Zenon, <1>6 DEF Fail, maps
    <3> QED BY Zenon, <1>a, <1>q, <3>1, <3>2 DEF ExecutorInv
  <2> QED BY Zenon, <2>1, <2>2
<1>7. ASSUME NEW e \in Executors, Return(e)
      PROVE  ExecutorInv(f)'
  <2>1. CASE e # f
    BY Zenon, <1>0, <1>d, <1>7, <2>1 DEF Return, Forget, Goto, maps, cursor, MemoryType
  <2>2. CASE e = f
    BY Zenon, <1>a, <1>b, <1>c, <1>d, <1>7, <2>2 DEF Return, Forget, Goto, At, maps, cursor, ExecutorInv, Evidence, MemoryType, Visiting, Holding, Starting
  <2> QED BY Zenon, <2>1, <2>2
<1>8. ASSUME NEW e \in Executors, Inspect(e)
      PROVE  ExecutorInv(f)'
  <2>1. CASE e # f
    BY Zenon, <1>0, <1>d, <1>8, <2>1 DEF Inspect, Goto, maps, cursor, MemoryType
  <2>2. CASE e = f
    BY <1>a, <1>b, <1>c, <1>d, <1>8, <2>2 DEF Inspect, Goto, At, maps, cursor, ExecutorInv, Evidence, MemoryType, Visiting, Holding, Starting
  <2> QED BY Zenon, <2>1, <2>2
<1>9. ASSUME NEW e \in Executors, Observe(e)
      PROVE  ExecutorInv(f)'
  <2>1. CASE e # f
    BY Zenon, <1>0, <1>d, <1>9, <2>1 DEF Observe, Goto, maps, cursor, MemoryType
  <2>2. CASE e = f
    <3>1. current[e] \in Activities /\ Evidence(seen[e], current[e]) /\ seen[e] \in Handles \cup {NoHandle}
      BY Zenon, <1>a, <1>d, <1>9, <2>2 DEF Observe, At, ExecutorInv, MemoryType, Visiting, Holding
    <3>2. seen'[e].job = seen[e].job /\ (seen'[e].status = "completed" => current[e] \in Done)
      BY <1>a, <1>d, <1>9, <3>1, ObservedEvidence DEF Observe, MemoryType, Handles, NoHandle
    <3> QED BY <1>a, <1>b, <1>c, <1>d, <1>9, <2>2, <3>1, <3>2 DEF Observe, Goto, At, maps, ExecutorInv, Evidence, MemoryType, Visiting, Holding, Starting
  <2> QED BY Zenon, <2>1, <2>2
<1>10. ASSUME NEW e \in Executors, SaveObserved(e)
      PROVE  ExecutorInv(f)'
  <2>1. CASE e # f
    BY Zenon, <1>0, <1>d, <1>10, <2>1 DEF SaveObserved, Goto, maps, cursor, MemoryType
  <2>2. CASE e = f
    <3>1. /\ pc'[e] \in {"inspect", "saveTask", "failing"}
          /\ UNCHANGED <<completed, todo, current, seen>>
      BY Zenon, <1>d, <1>10 DEF SaveObserved, Goto, maps, cursor, MemoryType
    <3>2. /\ current[e] \in Activities /\ Evidence(seen[e], current[e])
          /\ seen[e] \in Handles \cup {NoHandle} /\ completed[e] \subseteq Done
      BY Zenon, <1>a, <1>d, <1>10, <2>2 DEF SaveObserved, At, ExecutorInv, MemoryType, Visiting, Holding
    <3>3. Evidence(seen[e], current[e])' /\ completed'[e] \subseteq Done'
      <4>1. seen[e].job \in Nat /\ Given[current[e]] \in Nat /\ Given'[current[e]] \in Nat
        BY Zenon, <1>b, <1>c, <3>2
      <4>2. seen'[e] = seen[e] /\ current'[e] = current[e] /\ completed'[e] = completed[e]
        BY Zenon, <3>1
      <4>3. seen[e].job <= Given'[current[e]]
        <5>1. seen[e].job <= Given[current[e]]
          BY Zenon, <3>2 DEF Evidence
        <5>2. Given[current[e]] <= Given'[current[e]]
          BY Zenon, <1>b, <3>2
        <5> QED BY <4>1, <5>1, <5>2
      <4>4. seen[e].status = "completed" => current[e] \in Done'
        BY Zenon, <1>b, <3>2 DEF Evidence
      <4>5. Evidence(seen[e], current[e])'
        BY Zenon, <4>2, <4>3, <4>4 DEF Evidence
      <4>6. completed'[e] \subseteq Done'
        BY Zenon, <1>b, <3>2, <4>2
      <4> QED BY Zenon, <4>5, <4>6
    <3> QED BY Zenon, <2>2, <3>1, <3>2, <3>3 DEF ExecutorInv, Visiting, Holding, Starting
  <2> QED BY Zenon, <2>1, <2>2
<1>11. ASSUME NEW e \in Executors, SaveTask(e)
      PROVE  ExecutorInv(f)'
  <2>1. CASE e # f
    BY Zenon, <1>0, <1>d, <1>11, <2>1 DEF SaveTask, Goto, maps, cursor, MemoryType
  <2>2. CASE e = f
    <3>1. /\ pc[f] = "saveTask"
          /\ pc'[f] \in {"inspect", "failing"}
      BY Zenon, <1>d, <1>11, <2>2 DEF SaveTask, Goto, At, MemoryType
    <3>2. \/ completed'[f] = completed[f]
          \/ seen[f].status = "completed" /\ completed'[f] = completed[f] \cup {current[f]}
      BY Zenon, <1>d, <1>11, <2>2 DEF SaveTask, maps, MemoryType
    <3>3. completed[f] \subseteq Done /\ Evidence(seen[f], current[f])
      BY Zenon, <1>a, <3>1 DEF ExecutorInv, Holding
    <3>4. completed'[f] \subseteq Done
      BY Zenon, <3>2, <3>3 DEF Evidence
    <3>5. pc'[f] \in PCs \ (Visiting \cup Starting \cup {"complete"})
      BY Zenon, <3>1 DEF PCs, Visiting, Holding, Starting
    <3> QED BY Zenon, <1>q, <3>4, <3>5
  <2> QED BY Zenon, <2>1, <2>2
<1>12. ASSUME NEW e \in Executors, Select(e)
      PROVE  ExecutorInv(f)'
  <2>1. CASE e # f
    BY Zenon, <1>0, <1>d, <1>12, <2>1 DEF Select, Goto, maps, cursor, MemoryType
  <2>2. CASE e = f
    BY Zenon, <1>a, <1>b, <1>c, <1>d, <1>12, <2>2 DEF Select, First, ReadyActivities, Goto, At, maps, cursor, ExecutorInv, Evidence, MemoryType, Visiting, Holding, Starting
  <2> QED BY Zenon, <2>1, <2>2
<1>13. ASSUME NEW e \in Executors, Poll(e)
      PROVE  ExecutorInv(f)'
  <2>1. CASE e # f
    BY Zenon, <1>0, <1>d, <1>13, <2>1 DEF Poll, Goto, maps, cursor, MemoryType
  <2>2. CASE e = f
    BY Zenon, <1>a, <1>b, <1>c, <1>d, <1>13, <2>2 DEF Poll, Goto, At, maps, cursor, ExecutorInv, Evidence, MemoryType, Visiting, Holding, Starting
  <2> QED BY Zenon, <2>1, <2>2
<1>14. ASSUME NEW e \in Executors, Start(e)
      PROVE  ExecutorInv(f)'
  <2>1. CASE e # f
    BY <1>0, <1>d, <1>14, <2>1 DEF Start, Goto, maps, cursor, MemoryType
  <2>2. CASE e = f
    <3>1. PICK a \in First(1, todo[f]) :
             /\ current' = [current EXCEPT ![f] = a]
             /\ todo' = [todo EXCEPT ![f] = @ \ {a}]
             /\ \/ Goto(f, "submit")
                \/ Goto(f, "saveStarted") /\ seen' = [seen EXCEPT ![f] = handle[a]]
                \/ Goto(f, "recordHandle")
      BY Zenon, <1>14, <2>2 DEF Start
    <3>2. a \in todo[f] /\ a \in Activities
      BY Zenon, <1>d, <3>1 DEF First, MemoryType
    <3>3. pc[f] = "start" /\ UNCHANGED completed
      BY Zenon, <1>14, <2>2 DEF Start, At, maps
    <3>4. /\ current'[f] = a
          /\ todo'[f] \subseteq todo[f]
          /\ pc'[f] \in {"submit", "saveStarted", "recordHandle"}
          /\ pc'[f] = "saveStarted" => seen'[f] = handle[a]
      BY Zenon, <1>d, <3>1 DEF MemoryType, Goto
    <3>5. /\ completed[f] \subseteq Done'
          /\ \A b \in todo[f] : Pred[b] \subseteq completed[f]
      BY Zenon, <1>a, <1>b, <3>3 DEF ExecutorInv, Starting
    <3>6. pc'[f] = "saveStarted" => Evidence(seen[f], current[f])'
      <4>1. handle[a].job \in Nat /\ Given[a] \in Nat /\ Given'[a] \in Nat /\ Given[a] <= Given'[a]
        BY Zenon, <1>b, <1>c, <3>2
      <4>2. handle[a].job <= Given'[a] /\ (handle[a].status = "completed" => a \in Done')
        BY <1>b, <1>c, <3>2, <4>1 DEF Evidence
      <4> QED BY Zenon, <3>4, <4>2 DEF Evidence
    <3> QED BY Zenon, <3>2, <3>3, <3>4, <3>5, <3>6 DEF ExecutorInv, Visiting, Holding, Starting
  <2> QED BY Zenon, <2>1, <2>2
<1>15. ASSUME NEW e \in Executors, Submit(e)
      PROVE  ExecutorInv(f)'
  <2>1. CASE e # f
    BY Zenon, <1>0, <1>d, <1>15, <2>1 DEF Submit, Goto, maps, cursor, MemoryType
  <2>2. CASE e = f
    <3>1. current[e] \in Activities
      BY Zenon, <1>a, <1>15, <2>2 DEF Submit, At, ExecutorInv, Visiting
    <3>2. ASSUME pc'[e] = "saveSubmitted"
          PROVE  Evidence(seen[e], current[e])' /\ seen'[e].job # 0
      <4>1. NewJob(current[e], "running")
            /\ seen' = [seen EXCEPT ![e] = [status |-> "running", job |-> Len(external[current[e]]) + 1]]
            /\ UNCHANGED current
        BY Zenon, <1>d, <1>15, <3>2 DEF Submit, Goto, MemoryType
      <4>2. Len(external'[current[e]]) = Len(external[current[e]]) + 1 /\ Len(external[current[e]]) \in Nat
        <5>1. "running" \in JobStates
          BY Zenon DEF JobStates
        <5>2. Len(external'[current[e]]) = Len(external[current[e]]) + 1
          BY Zenon, <1>a, <3>1, <4>1, <5>1, NewJobGrows
        <5> QED BY <1>a, <3>1, <5>2 DEF RunTypeOK
      <4>3. seen'[e] = [status |-> "running", job |-> Len(external[current[e]]) + 1]
        BY Zenon, <1>d, <4>1 DEF MemoryType
      <4> QED BY <3>1, <4>1, <4>2, <4>3 DEF Evidence, Given
    <3> QED BY Zenon, <1>a, <1>b, <1>d, <1>15, <2>2, <3>1, <3>2 DEF Submit, Goto, At, maps, ExecutorInv, MemoryType, Visiting, Holding, Starting
  <2> QED BY Zenon, <2>1, <2>2
<1>16. ASSUME NEW e \in Executors, SaveSubmitted(e)
      PROVE  ExecutorInv(f)'
  <2>1. CASE e # f
    BY Zenon, <1>0, <1>d, <1>16, <2>1 DEF SaveSubmitted, Goto, maps, cursor, MemoryType
  <2>2. CASE e = f
    BY <1>a, <1>b, <1>c, <1>d, <1>16, <2>2 DEF SaveSubmitted, Goto, At, maps, cursor, ExecutorInv, Evidence, MemoryType, Visiting, Holding, Starting
  <2> QED BY Zenon, <2>1, <2>2
<1>17. ASSUME NEW e \in Executors, RecordHandle(e)
      PROVE  ExecutorInv(f)'
  <2>1. CASE e # f
    BY Zenon, <1>0, <1>d, <1>17, <2>1 DEF RecordHandle, Goto, maps, cursor, MemoryType
  <2>2. CASE e = f
    BY <1>a, <1>b, <1>c, <1>d, <1>17, <2>2 DEF RecordHandle, Goto, At, maps, cursor, ExecutorInv, Evidence, MemoryType, Visiting, Holding, Starting
  <2> QED BY Zenon, <2>1, <2>2
<1>18. ASSUME NEW e \in Executors, RecordTask(e)
      PROVE  ExecutorInv(f)'
  <2>1. CASE e # f
    BY Zenon, <1>0, <1>d, <1>18, <2>1 DEF RecordTask, Goto, maps, cursor, MemoryType
  <2>2. CASE e = f
    <3>1. pc'[f] \in PCs \ (Visiting \cup Starting \cup {"complete"})
      BY Zenon, <1>d, <1>18, <2>2 DEF RecordTask, Goto, At, MemoryType, PCs, Visiting, Holding, Starting
    <3>2. completed'[f] = completed[f]
      BY Zenon, <1>18 DEF RecordTask, maps
    <3> QED BY Zenon, <1>a, <1>q, <3>1, <3>2 DEF ExecutorInv
  <2> QED BY Zenon, <2>1, <2>2
<1>19. ASSUME NEW e \in Executors, SaveStarted(e)
      PROVE  ExecutorInv(f)'
  <2>1. CASE e # f
    BY Zenon, <1>0, <1>d, <1>19, <2>1 DEF SaveStarted, Goto, maps, cursor, MemoryType
  <2>2. CASE e = f
    BY <1>a, <1>b, <1>c, <1>d, <1>19, <2>2 DEF SaveStarted, Goto, At, maps, cursor, ExecutorInv, Evidence, MemoryType, Visiting, Holding, Starting
  <2> QED BY Zenon, <2>1, <2>2
<1>20. ASSUME NEW D \in SUBSET Executors, Crash(D)
      PROVE  ExecutorInv(f)'
  <2>1. CASE f \notin D
    BY Zenon, <1>0, <1>20, <2>1 DEF Crash, Forget
  <2>2. CASE f \in D
    BY Zenon, <1>20, <2>2 DEF Crash, Forget, ExecutorInv, Visiting, Holding, Starting
  <2> QED BY Zenon, <2>1, <2>2
<1>21. ASSUME NEW a \in Activities, NEW i \in JobsOf(a), JobMoves(a, i)
      PROVE  ExecutorInv(f)'
  BY Zenon, <1>0, <1>21 DEF JobMoves, maps, cursor
<1> QED
  BY Zenon, <1>1, <1>2, <1>3, <1>4, <1>5, <1>6, <1>7, <1>8, <1>9, <1>10, <1>11, <1>12, <1>13, <1>14, <1>15, <1>16, <1>17, <1>18, <1>19, <1>20, <1>21 DEF RunNext, ExecutorStep, JobStep

\* Handles are written by Controller.Inspect, by Controller.Start and by
\* recordStartFailure only (controller.go:83 and 121, supervisor.go:292), jobs
\* are given to the runtime and stopped by Controller.Start only
\* (controller.go:68 and 84), the run's row is written by CreateRun,
\* CompleteRun and FailRun only, and only CompleteRun completes a run.
Attributed ==
    /\ \/ UNCHANGED handle
       \/ \E e \in Executors : SaveObserved(e) \/ SaveSubmitted(e) \/ RecordHandle(e)
    /\ \/ UNCHANGED external
       \/ \E e \in Executors : Submit(e) \/ SaveSubmitted(e)
       \/ \E a \in Activities : JobStep(a)
    /\ \/ runStatus' = "completed" => runStatus = "completed"
       \/ \E e \in Executors : pc[e] = "complete"
    /\ \/ UNCHANGED runStatus
       \/ \E e \in Executors : Begin(e) \/ Complete(e) \/ Fail(e)

(* Every change of the store or the runtime is the work of the step that the *)
(* code has for it.                                                          *)
LEMMA WhoWrites ==
    ASSUME RunNext
    PROVE  Attributed
<1> DEFINE Quiet == UNCHANGED <<runStatus, handle, external>>
<1>q. ASSUME Quiet PROVE Attributed
  BY Zenon, <1>q DEF Attributed
<1> HIDE DEF Quiet
<1>1. ASSUME NEW e \in Executors, Begin(e) PROVE Attributed
  <2>1. UNCHANGED <<handle, external>> /\ (runStatus' = "completed" => runStatus = "completed")
    BY Zenon, <1>1 DEF Begin, runtime
  <2> QED BY Zenon, <1>1, <2>1 DEF Attributed
<1>2. ASSUME NEW e \in Executors, CreateRunFails(e) PROVE Attributed
  <2>1. Quiet
    BY Zenon, <1>2 DEF Quiet, CreateRunFails, store, runtime
  <2> QED BY Zenon, <1>q, <2>1
<1>3. ASSUME NEW e \in Executors, Cancel(e) PROVE Attributed
  <2>1. Quiet
    BY Zenon, <1>3 DEF Quiet, Cancel, store, runtime
  <2> QED BY Zenon, <1>q, <2>1
<1>4. ASSUME NEW e \in Executors, Top(e) PROVE Attributed
  <2>1. Quiet
    BY Zenon, <1>4 DEF Quiet, Top, store, runtime
  <2> QED BY Zenon, <1>q, <2>1
<1>5. ASSUME NEW e \in Executors, Return(e) PROVE Attributed
  <2>1. Quiet
    BY Zenon, <1>5 DEF Quiet, Return, store, runtime
  <2> QED BY Zenon, <1>q, <2>1
<1>6. ASSUME NEW e \in Executors, Inspect(e) PROVE Attributed
  <2>1. Quiet
    BY Zenon, <1>6 DEF Quiet, Inspect, store, runtime
  <2> QED BY Zenon, <1>q, <2>1
<1>7. ASSUME NEW e \in Executors, Observe(e) PROVE Attributed
  <2>1. Quiet
    BY Zenon, <1>7 DEF Quiet, Observe, store, runtime
  <2> QED BY Zenon, <1>q, <2>1
<1>8. ASSUME NEW e \in Executors, SaveTask(e) PROVE Attributed
  <2>1. Quiet
    BY Zenon, <1>8 DEF Quiet, SaveTask, runtime
  <2> QED BY Zenon, <1>q, <2>1
<1>9. ASSUME NEW e \in Executors, Select(e) PROVE Attributed
  <2>1. Quiet
    BY Zenon, <1>9 DEF Quiet, Select, store, runtime
  <2> QED BY Zenon, <1>q, <2>1
<1>10. ASSUME NEW e \in Executors, Poll(e) PROVE Attributed
  <2>1. Quiet
    BY Zenon, <1>10 DEF Quiet, Poll, store, runtime
  <2> QED BY Zenon, <1>q, <2>1
<1>11. ASSUME NEW e \in Executors, Start(e) PROVE Attributed
  <2>1. Quiet
    BY Zenon, <1>11 DEF Quiet, Start, store, runtime
  <2> QED BY Zenon, <1>q, <2>1
<1>12. ASSUME NEW e \in Executors, RecordTask(e) PROVE Attributed
  <2>1. Quiet
    BY Zenon, <1>12 DEF Quiet, RecordTask, runtime
  <2> QED BY Zenon, <1>q, <2>1
<1>13. ASSUME NEW e \in Executors, SaveStarted(e) PROVE Attributed
  <2>1. Quiet
    BY Zenon, <1>13 DEF Quiet, SaveStarted, runtime
  <2> QED BY Zenon, <1>q, <2>1
<1>14. ASSUME NEW e \in Executors, SaveObserved(e) PROVE Attributed
  <2>1. UNCHANGED <<runStatus, external>>
    BY Zenon, <1>14 DEF SaveObserved, runtime
  <2> QED BY Zenon, <1>14, <2>1 DEF Attributed
<1>15. ASSUME NEW e \in Executors, Submit(e) PROVE Attributed
  <2>1. UNCHANGED <<runStatus, handle>>
    BY Zenon, <1>15 DEF Submit, store
  <2> QED BY Zenon, <1>15, <2>1 DEF Attributed
<1>16. ASSUME NEW e \in Executors, SaveSubmitted(e) PROVE Attributed
  <2>1. UNCHANGED runStatus
    BY Zenon, <1>16 DEF SaveSubmitted
  <2> QED BY Zenon, <1>16, <2>1 DEF Attributed
<1>17. ASSUME NEW e \in Executors, RecordHandle(e) PROVE Attributed
  <2>1. UNCHANGED <<runStatus, external>>
    BY Zenon, <1>17 DEF RecordHandle, runtime
  <2> QED BY Zenon, <1>17, <2>1 DEF Attributed
<1>18. ASSUME NEW e \in Executors, Complete(e) PROVE Attributed
  <2>1. UNCHANGED <<handle, external>> /\ pc[e] = "complete"
    BY Zenon, <1>18 DEF Complete, At, runtime
  <2> QED BY Zenon, <1>18, <2>1 DEF Attributed
<1>19. ASSUME NEW e \in Executors, Fail(e) PROVE Attributed
  <2>1. UNCHANGED <<handle, external>> /\ (runStatus' = "completed" => runStatus = "completed")
    BY Zenon, <1>19 DEF Fail, runtime
  <2> QED BY Zenon, <1>19, <2>1 DEF Attributed
<1>20. ASSUME NEW D \in SUBSET Executors, Crash(D) PROVE Attributed
  <2>1. Quiet
    BY Zenon, <1>20 DEF Quiet, Crash, store
  <2> QED BY Zenon, <1>q, <2>1
<1>21. ASSUME NEW a \in Activities, JobStep(a) PROVE Attributed
  <2>1. UNCHANGED <<runStatus, handle>>
    BY Zenon, <1>21 DEF JobStep, JobMoves, store
  <2> QED BY Zenon, <1>21, <2>1 DEF Attributed
<1> QED
  BY Zenon, <1>1, <1>2, <1>3, <1>4, <1>5, <1>6, <1>7, <1>8, <1>9, <1>10, <1>11, <1>12, <1>13, <1>14, <1>15, <1>16, <1>17, <1>18, <1>19, <1>20, <1>21 DEF RunNext, ExecutorStep

(* No step puts a handle into the store that says more than is true.         *)
LEMMA StoreInvStep ==
    ASSUME RunIInv, RunTypeOK', Grows, RunNext
    PROVE  StoreInv'
<1> SUFFICES ASSUME NEW a \in Activities PROVE Evidence(handle[a], a)'
  BY Zenon DEF StoreInv
<1>a. RunTypeOK /\ Evidence(handle[a], a)
  BY Zenon DEF RunIInv, StoreInv
<1>b. /\ Done \subseteq Done'
      /\ Given \in [Activities -> Nat] /\ Given' \in [Activities -> Nat]
      /\ Given[a] <= Given'[a]
  BY Zenon, <1>a, EvidenceStays
<1>c. \A h \in Handles \cup {NoHandle} : h.job \in Nat
  BY DEF Handles, NoHandle
\* Evidence that was true of a handle value stays true of it.
<1>d. ASSUME NEW h \in Handles \cup {NoHandle}, Evidence(h, a), handle'[a] = h
      PROVE  Evidence(handle[a], a)'
  <2>1. h.job \in Nat /\ Given[a] \in Nat /\ Given'[a] \in Nat
    BY Zenon, <1>b, <1>c
  <2>2. h.job <= Given'[a] /\ (h.status = "completed" => a \in Done')
    BY <1>b, <1>d, <2>1 DEF Evidence
  <2> QED BY Zenon, <1>d, <2>2 DEF Evidence
<1>e. handle[a] \in Handles \cup {NoHandle}
  BY Zenon, <1>a DEF RunTypeOK
<1>1. CASE handle'[a] = handle[a]
  BY Zenon, <1>1, <1>a, <1>d, <1>e
<1>2. ASSUME NEW e \in Executors, SaveObserved(e) \/ SaveSubmitted(e), handle'[a] # handle[a]
      PROVE  Evidence(handle[a], a)'
  <2>1. a = current[e] /\ handle'[a] = seen[e] /\ pc[e] \in Holding
    BY Zenon, <1>2, <1>a DEF SaveObserved, SaveSubmitted, At, Holding, RunTypeOK
  <2>2. Evidence(seen[e], a) /\ seen[e] \in Handles \cup {NoHandle}
    BY Zenon, <2>1 DEF RunIInv, SeenInv, RunTypeOK
  <2> QED BY Zenon, <1>d, <2>1, <2>2
<1>3. ASSUME NEW e \in Executors, RecordHandle(e), handle'[a] # handle[a]
      PROVE  Evidence(handle[a], a)'
  <2>1. handle'[a] = [status |-> "failed", job |-> 0]
    BY Zenon, <1>3, <1>a DEF RecordHandle, RunTypeOK
  <2>2. Given'[a] \in Nat
    BY Zenon, <1>b
  <2> QED BY <2>1, <2>2 DEF Evidence
<1>4. \/ UNCHANGED handle
      \/ \E e \in Executors : SaveObserved(e) \/ SaveSubmitted(e) \/ RecordHandle(e)
  BY Zenon, WhoWrites DEF Attributed
<1> QED BY Zenon, <1>1, <1>2, <1>3, <1>4

(* Jobs are given to the runtime by Controller.Start only (controller.go:68) *)
(* and never taken back.                                                     *)
LEMMA JobGivers ==
    ASSUME RunTypeOK, VisitInv, SeenInv, RunNext, NEW a \in Activities,
           external[a] = <<>>, external'[a] # <<>>
    PROVE  \E e \in Executors : pc[e] = "submit" /\ current[e] = a
<1>1. CASE \E e \in Executors : Submit(e)
  BY Zenon, <1>1 DEF Submit, NewJob, At, RunTypeOK
<1>2. ASSUME NEW e \in Executors, SaveSubmitted(e)
      PROVE  FALSE
  <2>1. seen[e] \in Handles \cup {NoHandle} /\ current[e] \in Activities
    BY Zenon, <1>2 DEF SaveSubmitted, At, RunTypeOK, VisitInv, Visiting, Holding
  <2>2. pc[e] = "saveSubmitted"
    BY Zenon, <1>2 DEF SaveSubmitted, At
  <2>3. seen[e].job # 0 /\ Evidence(seen[e], current[e])
    BY Zenon, <2>2 DEF SeenInv, Holding
  <2>4. seen[e].job <= Given[current[e]] /\ seen[e].job \in Nat
    BY <2>1, <2>3 DEF Evidence, Handles, NoHandle
  <2>5. current[e] = a
    BY Zenon, <1>2, <2>1 DEF SaveSubmitted, RunTypeOK
  <2>6. Given[a] = 0
    BY Zenon DEF Given
  <2> QED BY <2>3, <2>4, <2>5, <2>6
<1>3. ASSUME NEW b \in Activities, NEW i \in JobsOf(b), JobMoves(b, i)
      PROVE  FALSE
  <2>1. b = a
    BY Zenon, <1>3 DEF JobMoves, RunTypeOK
  <2> QED BY <2>1 DEF JobsOf
<1>4. CASE UNCHANGED external
  BY Zenon, <1>4
<1>5. \/ \E e \in Executors : Submit(e) \/ SaveSubmitted(e)
      \/ \E b \in Activities : \E i \in JobsOf(b) : JobMoves(b, i)
      \/ UNCHANGED external
  BY Zenon, WhoWrites DEF Attributed, JobStep
<1> QED BY Zenon, <1>1, <1>2, <1>3, <1>4, <1>5

(* An activity gets its first job from an executor that has all of its       *)
(* predecessors among its completed activities.                              *)
LEMMA DependenciesStep ==
    ASSUME RunIInv, RunTypeOK', Grows, RunNext
    PROVE  DependenciesSucceeded'
<1> SUFFICES ASSUME NEW a \in Activities, external'[a] # <<>>, NEW p \in Pred[a]
             PROVE  p \in Done'
  BY Zenon, RunAssumption DEF DependenciesSucceeded, Done
<1>1. p \in Activities /\ Done \subseteq Done'
  BY Zenon, RunAssumption, EvidenceStays DEF RunIInv
<1>2. CASE external[a] # <<>>
  BY Zenon, <1>1, <1>2 DEF RunIInv, DependenciesSucceeded, Done
<1>3. CASE external[a] = <<>>
  <2>1. PICK e \in Executors : pc[e] = "submit" /\ current[e] = a
    BY Zenon, <1>3, JobGivers DEF RunIInv
  <2>2. p \in completed[e] /\ completed[e] \subseteq Done
    BY Zenon, <2>1 DEF RunIInv, StartInv, CompletedInv
  <2> QED BY Zenon, <1>1, <2>2
<1> QED BY Zenon, <1>2, <1>3

(* A run becomes completed by CompleteRun only (repository.go:387), which an *)
(* executor calls when all activities are in its map.                        *)
LEMMA CompletedStep ==
    ASSUME RunIInv, RunTypeOK', Grows, RunNext
    PROVE  CompletedMeansSucceeded'
<1>1. Done \subseteq Done'
  BY Zenon, EvidenceStays DEF RunIInv
<1>2. CASE runStatus' = "completed" /\ runStatus = "completed"
  BY Zenon, <1>1, <1>2 DEF RunIInv, CompletedMeansSucceeded, Done
<1>3. ASSUME runStatus' = "completed", runStatus # "completed"
      PROVE  \E e \in Executors : pc[e] = "complete"
  BY Zenon, <1>3, WhoWrites DEF Attributed
<1>4. CASE runStatus' = "completed" /\ runStatus # "completed"
  <2>1. PICK e \in Executors : pc[e] = "complete"
    BY Zenon, <1>3, <1>4
  <2>2. Activities \subseteq Done
    BY Zenon, <2>1 DEF RunIInv, CompletedInv
  <2> QED BY Zenon, <1>1, <2>2 DEF CompletedMeansSucceeded, Done
<1>5. CASE runStatus' # "completed"
  BY Zenon, <1>5 DEF CompletedMeansSucceeded
<1> QED BY Zenon, <1>2, <1>4, <1>5

-----------------------------------------------------------------------------
(* The theorems *)

(* A run starts without rows, jobs or executors at work.                     *)
LEMMA RunInitIInv == RunInit => RunIInv
<1> SUFFICES ASSUME RunInit PROVE RunIInv
  BY Zenon
<1>1. RunTypeOK
  <2>1. /\ runStatus \in Statuses /\ task \in [Activities -> Statuses]
        /\ handle \in [Activities -> Handles \cup {NoHandle}]
    BY Zenon DEF RunInit, Statuses
  <2>2. external \in [Activities -> Seq(JobStates)] /\ lost \in [Activities -> Nat]
    BY DEF RunInit
  <2>3. cancelled \in [Executors -> BOOLEAN] /\ unrecorded \in BOOLEAN
    BY Zenon DEF RunInit
  <2>4. /\ settled \in {"no", "succeeded", "failed"} /\ attempts \in Nat /\ faults \in Nat
        /\ pc \in [Executors -> PCs]
    BY Zenon DEF RunInit, PCs
  <2>5. /\ completed \in [Executors -> SUBSET Activities]
        /\ running \in [Executors -> SUBSET Activities]
        /\ todo \in [Executors -> SUBSET Activities]
        /\ current \in [Executors -> Activities \cup {0}]
        /\ seen \in [Executors -> Handles \cup {NoHandle}]
    BY Zenon DEF RunInit
  <2> QED BY Zenon, <2>1, <2>2, <2>3, <2>4, <2>5 DEF RunTypeOK
<1>2. VisitInv /\ SeenInv /\ CompletedInv /\ StartInv
  BY Zenon DEF RunInit, VisitInv, SeenInv, CompletedInv, StartInv, Visiting, Holding, Starting
<1>3. StoreInv
  BY DEF RunInit, StoreInv, Evidence, Given, NoHandle
<1>4. DependenciesSucceeded /\ CompletedMeansSucceeded
  BY Zenon DEF RunInit, DependenciesSucceeded, CompletedMeansSucceeded
<1> QED BY Zenon, <1>1, <1>2, <1>3, <1>4 DEF RunIInv

(* Every step keeps the evidence of success.                                 *)
LEMMA RunNextIInv == RunIInv /\ [RunNext]_runVars => RunIInv'
<1> SUFFICES ASSUME RunIInv, [RunNext]_runVars PROVE RunIInv'
  BY Zenon
<1>1. CASE RunNext
  <2>1. RunTypeOK' /\ Grows
    BY Zenon, <1>1, RunTypeStep DEF RunIInv
  <2>2. \A f \in Executors : ExecutorInv(f)'
    BY Zenon, <1>1, <2>1, ExecutorInvStep
  <2>3. VisitInv' /\ SeenInv' /\ CompletedInv' /\ StartInv'
    BY Zenon, <2>2 DEF ExecutorInv, VisitInv, SeenInv, CompletedInv, StartInv
  <2>4. StoreInv' /\ DependenciesSucceeded' /\ CompletedMeansSucceeded'
    BY Zenon, <1>1, <2>1, StoreInvStep, DependenciesStep, CompletedStep
  <2> QED BY Zenon, <2>1, <2>3, <2>4 DEF RunIInv
<1>2. CASE UNCHANGED runVars
  <2> USE <1>2 DEF RunIInv, runVars, store, runtime, queue, maps, cursor
  <2>1. RunTypeOK'
    BY Zenon DEF RunTypeOK
  <2>2. Done' = Done /\ Given' = Given
    BY Zenon DEF Done, Given, Succeeded, JobsOf
  <2>3. StoreInv' /\ SeenInv'
    BY Zenon, <2>2 DEF StoreInv, SeenInv, Evidence
  <2>4. VisitInv' /\ CompletedInv' /\ StartInv'
    BY Zenon, <2>2 DEF VisitInv, CompletedInv, StartInv
  <2>5. DependenciesSucceeded' /\ CompletedMeansSucceeded'
    BY Zenon DEF DependenciesSucceeded, CompletedMeansSucceeded, Succeeded, JobsOf
  <2> QED BY Zenon, <2>1, <2>3, <2>4, <2>5 DEF RunIInv
<1> QED BY Zenon, <1>1, <1>2

(* The invariant holds of every run, on every runtime, with any number of    *)
(* executors, crashes, cancellations and failing calls.                      *)
THEOREM RunInvariant == RunSpec => []RunIInv
  BY RunInitIInv, RunNextIInv, PTL DEF RunSpec

(* The store, the runtime's jobs and the maps of the supervisor always have  *)
(* values of their types.                                                    *)
THEOREM RunTypeCorrect == RunSpec => []RunTypeOK
<1>1. RunIInv => RunTypeOK
  BY Zenon DEF RunIInv
<1> QED BY <1>1, RunInvariant, PTL

(* Whatever was retried, lost, written back late or done twice, an activity  *)
(* is given to the runtime only after the success of all its predecessors    *)
(* (supervisor.go:440-465).                                                  *)
THEOREM SubmittedAfterPredecessors == RunSpec => []DependenciesSucceeded
<1>1. RunIInv => DependenciesSucceeded
  BY Zenon DEF RunIInv
<1> QED BY <1>1, RunInvariant, PTL

(* A run is never recorded as completed before all of its activities have    *)
(* succeeded in the runtime (supervisor.go:69).                              *)
THEOREM CompletedRunsSucceeded == RunSpec => []CompletedMeansSucceeded
<1>1. RunIInv => CompletedMeansSucceeded
  BY Zenon DEF RunIInv
<1> QED BY <1>1, RunInvariant, PTL

-----------------------------------------------------------------------------
(* The run as it looks from outside *)

Handed == {a \in Activities : external[a] # <<>>}

(* A new job (controller.go:68) makes its activity one that was given out,   *)
(* and no success.                                                           *)
LEMMA NewJobSeen ==
    ASSUME RunTypeOK, NEW a \in Activities, NEW state \in {"running", "stopped"}, NewJob(a, state)
    PROVE  Handed' = Handed \cup {a} /\ Done' = Done
<1>1. /\ external[a] \in Seq(JobStates)
      /\ external' = [external EXCEPT ![a] = Append(external[a], state)]
  BY Zenon DEF RunTypeOK, NewJob
<1>2. /\ external'[a] = Append(external[a], state)
      /\ \A b \in Activities : b # a => external'[b] = external[b]
  BY Zenon, <1>1 DEF RunTypeOK
<1>3. /\ external'[a] # <<>>
      /\ Len(external'[a]) = Len(external[a]) + 1 /\ Len(external[a]) \in Nat
      /\ external'[a][Len(external[a]) + 1] = state
      /\ \A i \in 1..Len(external[a]) : external'[a][i] = external[a][i]
  <2>1. state \in JobStates
    BY DEF JobStates
  <2>2. Len(Append(external[a], state)) = Len(external[a]) + 1 /\ Len(external[a]) \in Nat
    BY <1>1, <2>1
  <2> QED BY <1>1, <1>2, <2>1, <2>2
<1>4. Succeeded(a)' <=> Succeeded(a)
  <2>1. JobsOf(a)' = JobsOf(a) \cup {Len(external[a]) + 1}
    BY <1>3 DEF JobsOf
  <2> QED BY Zenon, <1>3, <2>1 DEF Succeeded, JobsOf
<1>5. \A b \in Activities : b # a => (Succeeded(b)' <=> Succeeded(b))
  BY Zenon, <1>2 DEF Succeeded, JobsOf
<1>6. Done' = Done
  BY Zenon, <1>4, <1>5 DEF Done
<1>7. Handed' = Handed \cup {a}
  BY Zenon, <1>2, <1>3 DEF Handed
<1> QED BY Zenon, <1>6, <1>7

(* A job that moves or is stopped (controller.go:84) was given out before,   *)
(* and its activity is the only one that may succeed by it.                  *)
LEMMA MovedJobSeen ==
    ASSUME RunTypeOK, NEW a \in Activities, NEW i \in JobsOf(a), NEW state \in JobStates,
           Live(external[a][i]), external' = [external EXCEPT ![a][i] = state]
    PROVE  /\ Handed' = Handed /\ a \in Handed
           /\ Done \subseteq Done' /\ Done' \subseteq Done \cup {a}
           /\ state # "succeeded" => Done' = Done
<1>1. external[a] \in Seq(JobStates) /\ i \in 1..Len(external[a])
  BY Zenon DEF RunTypeOK, JobsOf
<1> DEFINE moved == [external[a] EXCEPT ![i] = state]
<1>2. /\ external'[a] = moved
      /\ \A b \in Activities : b # a => external'[b] = external[b]
  BY Zenon DEF RunTypeOK
<1>3. /\ Len(moved) = Len(external[a]) /\ Len(external[a]) \in Nat
      /\ \A j \in 1..Len(external[a]) : moved[j] = IF j = i THEN state ELSE external[a][j]
      /\ moved # <<>> /\ external[a] # <<>>
  BY <1>1
<1> HIDE DEF moved
<1>4. Handed' = Handed /\ a \in Handed
  BY Zenon, <1>2, <1>3 DEF Handed
<1>5. \A b \in Activities : b # a => (Succeeded(b)' <=> Succeeded(b))
  BY Zenon, <1>2 DEF Succeeded, JobsOf
<1>6. external[a][i] # "succeeded"
  BY Zenon DEF Live
<1>7. /\ JobsOf(a)' = JobsOf(a)
      /\ \A j \in JobsOf(a) : external'[a][j] = IF j = i THEN state ELSE external[a][j]
  BY <1>2, <1>3 DEF JobsOf
<1>8. Succeeded(a) => Succeeded(a)'
  BY Zenon, <1>6, <1>7 DEF Succeeded
<1>9. state # "succeeded" => (Succeeded(a)' => Succeeded(a))
  BY Zenon, <1>7 DEF Succeeded
<1>10. Done \subseteq Done' /\ Done' \subseteq Done \cup {a}
  BY Zenon, <1>5, <1>8 DEF Done
<1>11. state # "succeeded" => Done' = Done
  BY Zenon, <1>5, <1>8, <1>9 DEF Done
<1> QED BY Zenon, <1>4, <1>10, <1>11

-----------------------------------------------------------------------------
\* A step of the abstract run, or one that nobody sees.
Visible == [Life!LifeNext]_(Life!lifeVars)

(* What clients cannot tell apart is a stuttering step.                      *)
LEMMA Unseen ==
    ASSUME UNCHANGED <<Handed, Done, runStatus>>
    PROVE  Visible
  BY Zenon DEF Visible, Life!lifeVars, Handed, Done

(* Jobs that stay as they are leave the abstract activities alone.           *)
LEMMA SameJobs ==
    ASSUME UNCHANGED external
    PROVE  UNCHANGED <<Handed, Done>>
  BY Zenon DEF Handed, Done, Succeeded, JobsOf

(* CreateRun, CompleteRun and FailRun (repository.go) write the row, and     *)
(* CompleteRun does so when all activities have succeeded.                   *)
LEMMA RowWritten ==
    ASSUME RunIInv, NEW e \in Executors, Begin(e) \/ Complete(e) \/ Fail(e)
    PROVE  Visible
<1>1. UNCHANGED external
  BY Zenon DEF Begin, Complete, Fail, runtime
<1>2. UNCHANGED <<Handed, Done>>
  BY Zenon, <1>1, SameJobs
<1>3. CASE UNCHANGED runStatus
  BY Zenon, <1>2, <1>3, Unseen
<1>4. ASSUME NEW status \in {"running", "completed", "failed"},
             status = "running" => runStatus = "none",
             status = "completed" => Done = Activities,
             runStatus' = status
      PROVE  Visible
  <2>1. Life!Record(status)
    BY Zenon, <1>2, <1>4 DEF Life!Record, Handed, Done
  <2> QED BY Zenon, <2>1 DEF Visible, Life!LifeNext
<1>5. CASE Begin(e)
  <2>1. UNCHANGED runStatus \/ (runStatus = "none" /\ runStatus' = "running")
    BY Zenon, <1>5 DEF Begin
  <2> QED BY Zenon, <1>3, <1>4, <2>1
<1>6. CASE Complete(e)
  <2>1. Done = Activities
    <3>1. pc[e] = "complete"
      BY Zenon, <1>6 DEF Complete, At
    <3>2. Activities \subseteq Done
      BY Zenon, <3>1 DEF RunIInv, CompletedInv
    <3> QED BY Zenon, <3>2 DEF Done
  <2>2. UNCHANGED runStatus \/ runStatus' = "completed"
    BY Zenon, <1>6 DEF Complete
  <2> QED BY Zenon, <1>3, <1>4, <2>1, <2>2
<1>7. CASE Fail(e)
  <2>1. UNCHANGED runStatus \/ runStatus' = "failed"
    BY Zenon, <1>7 DEF Fail
  <2> QED BY Zenon, <1>3, <1>4, <2>1
<1> QED BY Zenon, <1>5, <1>6, <1>7

(* Controller.Start gives the runtime an activity that startReadyActivities  *)
(* chose (supervisor.go:440-465): its predecessors have succeeded.           *)
LEMMA JobSubmitted ==
    ASSUME RunIInv, NEW e \in Executors, Submit(e)
    PROVE  Visible
<1>1. UNCHANGED runStatus
  BY Zenon DEF Submit, store
<1>2. CASE UNCHANGED external
  BY Zenon, <1>1, <1>2, SameJobs, Unseen
<1>3. ASSUME NEW state \in {"running", "stopped"}, NewJob(current[e], state)
      PROVE  Visible
  <2>1. pc[e] = "submit"
    BY Zenon DEF Submit, At
  <2>2. PICK a \in Activities : a = current[e]
    BY Zenon, <2>1 DEF RunIInv, VisitInv, Visiting
  <2>3. Pred[a] \subseteq Done
    BY Zenon, <2>1, <2>2 DEF RunIInv, StartInv, CompletedInv
  <2>4. Handed' = Handed \cup {a} /\ Done' = Done
    BY Zenon, <1>3, <2>2, NewJobSeen DEF RunIInv
  <2>5. CASE a \in Handed
    <3>1. UNCHANGED <<Handed, Done>>
      BY Zenon, <2>4, <2>5
    <3> QED BY Zenon, <1>1, <3>1, Unseen
  <2>6. CASE a \notin Handed
    <3>1. Life!Give(a)
      BY Zenon, <1>1, <2>3, <2>4, <2>6 DEF Life!Give, Handed, Done
    <3> QED BY Zenon, <3>1 DEF Visible, Life!LifeNext
  <2> QED BY Zenon, <2>5, <2>6
<1>4. \/ UNCHANGED external
      \/ \E state \in {"running", "stopped"} : NewJob(current[e], state)
  BY Zenon DEF Submit
<1> QED BY Zenon, <1>2, <1>3, <1>4

(* A job that is stopped after its handle could not be saved                 *)
(* (controller.go:83-86) has not succeeded by that.                          *)
LEMMA JobStopped ==
    ASSUME RunIInv, NEW e \in Executors, SaveSubmitted(e)
    PROVE  Visible
<1>1. UNCHANGED runStatus
  BY Zenon DEF SaveSubmitted
<1>2. CASE UNCHANGED external
  BY Zenon, <1>1, <1>2, SameJobs, Unseen
<1>3. ASSUME NEW a, a = current[e], NEW i, i = seen[e].job,
             Live(external[a][i]), external' = [external EXCEPT ![a][i] = "stopped"]
      PROVE  Visible
  <2>1. pc[e] = "saveSubmitted"
    BY Zenon DEF SaveSubmitted, At
  <2>2. a \in Activities /\ seen[e] \in Handles \cup {NoHandle}
    BY Zenon, <1>3, <2>1 DEF RunIInv, VisitInv, Visiting, Holding, RunTypeOK
  <2>3. i # 0 /\ i <= Given[a]
    BY Zenon, <1>3, <2>1 DEF RunIInv, SeenInv, Holding, Evidence
  <2>4. i \in JobsOf(a)
    <3>1. i \in Nat
      BY <1>3, <2>2 DEF Handles, NoHandle
    <3>2. Given[a] = Len(external[a]) /\ external[a] \in Seq(JobStates)
      BY Zenon, <2>2 DEF Given, RunIInv, RunTypeOK
    <3> QED BY <2>3, <3>1, <3>2 DEF JobsOf
  <2>5. "stopped" \in JobStates /\ "stopped" # "succeeded"
    BY DEF JobStates
  <2>6. Handed' = Handed /\ Done' = Done
    BY Zenon, <1>3, <2>2, <2>4, <2>5, MovedJobSeen DEF RunIInv
  <2> QED BY Zenon, <1>1, <2>6, Unseen
<1>4. \/ UNCHANGED external
      \/ /\ Live(external[current[e]][seen[e].job])
         /\ external' = [external EXCEPT ![current[e]][seen[e].job] = "stopped"]
  BY Zenon DEF SaveSubmitted
<1> QED BY Zenon, <1>2, <1>3, <1>4

(* Only a job that was given out can be the success of its activity.         *)
LEMMA JobMoved ==
    ASSUME RunIInv, NEW a \in Activities, NEW i \in JobsOf(a), JobMoves(a, i)
    PROVE  Visible
<1>1. UNCHANGED runStatus
  BY Zenon DEF JobMoves, store
<1>2. PICK state \in {"succeeded", "failed", "retrying"} :
          Live(external[a][i]) /\ external' = [external EXCEPT ![a][i] = state]
  BY Zenon DEF JobMoves, Live
<1>3. state \in JobStates
  BY DEF JobStates
<1>4. /\ Handed' = Handed /\ a \in Handed
      /\ Done \subseteq Done' /\ Done' \subseteq Done \cup {a}
  BY Zenon, <1>2, <1>3, MovedJobSeen DEF RunIInv
<1>5. CASE a \in Done'
  <2>1. Done' = Done \cup {a}
    BY Zenon, <1>4, <1>5
  <2>2. Life!Succeed(a)
    BY Zenon, <1>1, <1>4, <2>1 DEF Life!Succeed, Handed, Done
  <2> QED BY Zenon, <2>2 DEF Visible, Life!LifeNext
<1>6. CASE a \notin Done'
  <2>1. UNCHANGED <<Handed, Done>>
    BY Zenon, <1>4, <1>6
  <2> QED BY Zenon, <1>1, <2>1, Unseen
<1> QED BY Zenon, <1>5, <1>6

-----------------------------------------------------------------------------
(* A new run is a new abstract run.                                          *)
LEMMA RunInitLife == RunInit => Life!LifeInit
<1> SUFFICES ASSUME RunInit PROVE Life!LifeInit
  BY Zenon
<1>1. \A a \in Activities : external[a] = <<>>
  BY Zenon DEF RunInit
<1>2. \A a \in Activities : JobsOf(a) = {}
  BY <1>1 DEF JobsOf
<1>3. Handed = {} /\ Done = {}
  BY Zenon, <1>1, <1>2 DEF Handed, Done, Succeeded
<1> QED BY Zenon, <1>3 DEF RunInit, Life!LifeInit, Handed, Done

(* Every step of a run is one of the abstract run.                           *)
LEMMA RunStepLife == RunIInv /\ [RunNext]_runVars => [Life!LifeNext]_(Life!lifeVars)
<1> SUFFICES ASSUME RunIInv, [RunNext]_runVars PROVE Visible
  BY Zenon DEF Visible
<1>1. CASE RunNext
  <2>1. /\ \/ UNCHANGED external
           \/ \E e \in Executors : Submit(e) \/ SaveSubmitted(e)
           \/ \E a \in Activities : \E i \in JobsOf(a) : JobMoves(a, i)
        /\ \/ UNCHANGED runStatus
           \/ \E e \in Executors : Begin(e) \/ Complete(e) \/ Fail(e)
    BY Zenon, <1>1, WhoWrites DEF Attributed, JobStep
  <2>2. CASE UNCHANGED <<external, runStatus>>
    BY Zenon, <2>2, SameJobs, Unseen
  <2> QED BY Zenon, <2>1, <2>2, RowWritten, JobSubmitted, JobStopped, JobMoved
<1>2. CASE UNCHANGED runVars
  <2>1. UNCHANGED <<external, runStatus>>
    BY Zenon, <1>2 DEF runVars, store, runtime
  <2> QED BY Zenon, <2>1, SameJobs, Unseen
<1> QED BY Zenon, <1>1, <1>2

(* The supervisor with its store and controller (supervisor.go,              *)
(* controller.go, repository.go) implements the abstract run: for every      *)
(* graph, every assignment of runtimes, any number of executors and faults.  *)
THEOREM RunImplementsWorkflowRun == RunSpec => ImplementsWorkflowRun
<1>1. ImplementsWorkflowRun <=> Life!LifeInit /\ [][Life!LifeNext]_(Life!lifeVars)
  BY DEF ImplementsWorkflowRun, Life!LifeSpec
<1> QED BY <1>1, RunInitLife, RunStepLife, RunInvariant, PTL DEF RunSpec

-----------------------------------------------------------------------------
(* Submissions and outcomes *)

\* Where an executor may still submit activities, or has just done so
Working == {"top", "inspect", "observe", "saveObserved", "saveTask", "start", "submit",
            "saveSubmitted", "saveStarted"}

Known == {a \in Activities : handle[a] # NoHandle}
Willing(a) == {e \in Executors : pc[e] \in Working /\ ~(pc[e] = "saveSubmitted" /\ current[e] = a)}
Submitting(a) == {e \in Executors : pc[e] = "submit" /\ current[e] = a}

OnItsOwn(e) == pc[e] \in Working /\ ~cancelled[e] /\ \A f \in Executors \ {e} : pc[f] = "idle"
Grace == IF settled = "no" /\ \E e \in Executors : OnItsOwn(e) THEN 1 ELSE 0
Paid == faults * (IF Alone THEN 1 ELSE 2)

\* Activities that an executor inspects have a handle, and keep it.
KnownInv(e) ==
    /\ running[e] \subseteq Known
    /\ pc[e] \in {"inspect", "observe", "saveObserved", "saveTask"} => todo[e] \subseteq Known
    /\ pc[e] \in {"observe", "saveObserved"} => seen[e] \in Handles
    /\ pc[e] = "saveStarted" => current[e] \in Known
    /\ pc[e] = "idle" => ~cancelled[e]

SubmissionInv(a) ==
    /\ a \notin Known => Len(external[a]) + Cardinality(Willing(a)) <= Paid + Grace
    /\ a \in Known => Len(external[a]) + Cardinality(Submitting(a)) <= Paid + 1

OutcomeInv ==
    Alone => \A e \in Executors :
        /\ settled # "no" => pc[e] = "idle"
        /\ pc[e] = "ok" => runStatus = "completed"
        /\ pc[e] = "error" => unrecorded \/ runStatus = "failed"

CountIInv ==
    /\ RunIInv
    /\ \A e \in Executors : KnownInv(e)
    /\ \A a \in Activities : SubmissionInv(a)
    /\ OutcomeInv /\ OutcomesAgree

-----------------------------------------------------------------------------
(* What a step of an executor may do, as far as counting is concerned        *)

\* Nobody else moves, and an executor that stopped working does not resume.
MovesAlone(e) ==
    /\ \A f \in Executors \ {e} : pc'[f] = pc[f] /\ current'[f] = current[f] /\ cancelled'[f] = cancelled[f]
    /\ pc[e] # "idle"
    /\ faults' = faults \/ faults' = faults + 1
    /\ pc'[e] \in Working => pc[e] \in Working /\ cancelled'[e] = cancelled[e] /\ settled' = settled

\* A job is given to the runtime in "submit" and followed by its handle, unless
\* there was a fault or the executor is cancelled.
Submits(e) ==
    /\ pc'[e] = "submit" => pc[e] = "start" /\ current'[e] \notin Known
    /\ pc'[e] = "saveSubmitted" => pc[e] = "submit" /\ current'[e] = current[e]
    /\ pc[e] = "saveSubmitted" =>
          \/ pc'[e] \in Working /\ current[e] \in Known'
          \/ pc'[e] \notin Working /\ (cancelled[e] \/ faults' = faults + 1)

Lengthens(e) ==
    \A a \in Activities :
        \/ Len(external'[a]) = Len(external[a])
        \/ /\ a = current[e] /\ pc[e] = "submit" /\ Len(external'[a]) = Len(external[a]) + 1
           /\ \/ pc'[e] = "saveSubmitted" /\ faults' = faults
              \/ pc'[e] \notin Working /\ faults' = faults + 1

\* The outcome is written before the queue hears of it.
Concludes(e) ==
    /\ pc'[e] = "ok" => runStatus' = "completed"
    /\ pc'[e] = "error" => unrecorded' \/ runStatus' = "failed"
    /\ settled' # settled =>
          /\ pc'[e] = "idle" /\ UNCHANGED <<runStatus, unrecorded>>
          /\ \/ pc[e] = "ok" /\ settled' = "succeeded"
             \/ pc[e] = "error" /\ settled' = "failed"

(* The steps of Execute (supervisor.go:53-119) move one executor.            *)
LEMMA StepsMoveAlone ==
    ASSUME RunTypeOK, NEW e \in Executors, ExecutorStep(e)
    PROVE  MovesAlone(e)
<1>t. MemoryType /\ FlagType /\ StoreType
  BY Zenon DEF RunTypeOK, MemoryType, FlagType, StoreType
<1>1. CASE Top(e)
  BY Zenon, <1>t, <1>1 DEF Top, Works, Breaks, Fault, Goto, At, store, runtime, queue, maps, cursor, MemoryType, FlagType, MovesAlone, Working
<1>2. CASE Complete(e)
  BY Zenon, <1>t, <1>2 DEF Complete, Works, Breaks, Fault, Goto, At, store, runtime, queue, maps, cursor, MemoryType, FlagType, MovesAlone, Working
<1>3. CASE Fail(e)
  BY Zenon, <1>t, <1>3 DEF Fail, Works, Breaks, Fault, Goto, At, store, runtime, queue, maps, cursor, MemoryType, FlagType, MovesAlone, Working
<1>4. CASE Return(e)
  BY Zenon, <1>t, <1>4 DEF Return, Forget, Breaks, Works, Breaks, Fault, Goto, At, store, runtime, queue, maps, cursor, MemoryType, FlagType, MovesAlone, Working
<1>5. CASE Inspect(e)
  BY Zenon, <1>t, <1>5 DEF Inspect, Works, Breaks, Fault, Goto, At, store, runtime, queue, maps, cursor, MemoryType, FlagType, MovesAlone, Working
<1>6. CASE Observe(e)
  BY Zenon, <1>t, <1>6 DEF Observe, RuntimeWorks, RuntimeBreaks, Works, Breaks, Fault, Goto, At, store, runtime, queue, maps, cursor, MemoryType, FlagType, MovesAlone, Working
<1>7. CASE SaveObserved(e)
  BY Zenon, <1>t, <1>7 DEF SaveObserved, Works, Breaks, Fault, Goto, At, store, runtime, queue, maps, cursor, MemoryType, FlagType, MovesAlone, Working
<1>8. CASE SaveTask(e)
  BY Zenon, <1>t, <1>8 DEF SaveTask, Works, Breaks, Fault, Goto, At, store, runtime, queue, maps, cursor, MemoryType, FlagType, MovesAlone, Working
<1>9. CASE Select(e)
  BY Zenon, <1>t, <1>9 DEF Select, Works, Breaks, Fault, Goto, At, store, runtime, queue, maps, cursor, MemoryType, FlagType, MovesAlone, Working
<1>10. CASE Poll(e)
  BY Zenon, <1>t, <1>10 DEF Poll, Works, Breaks, Fault, Goto, At, store, runtime, queue, maps, cursor, MemoryType, FlagType, MovesAlone, Working
<1>11. CASE Start(e)
  BY Zenon, <1>t, <1>11 DEF Start, Works, Breaks, Fault, Goto, At, store, runtime, queue, maps, cursor, MemoryType, FlagType, MovesAlone, Working
<1>12. CASE Submit(e)
  BY Zenon, <1>t, <1>12 DEF Submit, RuntimeWorks, RuntimeBreaks, Works, Breaks, Fault, Goto, At, store, runtime, queue, maps, cursor, MemoryType, FlagType, MovesAlone, Working
<1>13. CASE SaveSubmitted(e)
  BY Zenon, <1>t, <1>13 DEF SaveSubmitted, Works, Breaks, Fault, Goto, At, store, runtime, queue, maps, cursor, MemoryType, FlagType, MovesAlone, Working
<1>14. CASE RecordHandle(e)
  BY Zenon, <1>t, <1>14 DEF RecordHandle, Works, Breaks, Fault, Goto, At, store, runtime, queue, maps, cursor, MemoryType, FlagType, MovesAlone, Working
<1>15. CASE RecordTask(e)
  BY Zenon, <1>t, <1>15 DEF RecordTask, Works, Breaks, Fault, Goto, At, store, runtime, queue, maps, cursor, MemoryType, FlagType, MovesAlone, Working
<1>16. CASE SaveStarted(e)
  BY Zenon, <1>t, <1>16 DEF SaveStarted, Works, Breaks, Fault, Goto, At, store, runtime, queue, maps, cursor, MemoryType, FlagType, MovesAlone, Working
<1> QED BY Zenon, <1>1, <1>2, <1>3, <1>4, <1>5, <1>6, <1>7, <1>8, <1>9, <1>10, <1>11, <1>12, <1>13, <1>14, <1>15, <1>16 DEF ExecutorStep

(* A job is submitted when the store has no handle (controller.go:53-60),    *)
(* and its handle is saved next (controller.go:78-90).                       *)
LEMMA StepsSubmit ==
    ASSUME RunTypeOK, VisitInv, SeenInv, NEW e \in Executors, ExecutorStep(e)
    PROVE  Submits(e)
<1>t. MemoryType /\ FlagType /\ StoreType
  BY Zenon DEF RunTypeOK, MemoryType, FlagType, StoreType
<1>1. CASE Top(e)
  BY Zenon, <1>t, <1>1 DEF Top, Works, Breaks, Fault, Goto, At, store, runtime, queue, maps, cursor, MemoryType, Submits, Working
<1>2. CASE Complete(e)
  BY Zenon, <1>t, <1>2 DEF Complete, Works, Breaks, Fault, Goto, At, store, runtime, queue, maps, cursor, MemoryType, Submits, Working
<1>3. CASE Fail(e)
  BY Zenon, <1>t, <1>3 DEF Fail, Works, Breaks, Fault, Goto, At, store, runtime, queue, maps, cursor, MemoryType, Submits, Working
<1>4. CASE Return(e)
  BY Zenon, <1>t, <1>4 DEF Return, Forget, Breaks, Works, Breaks, Fault, Goto, At, store, runtime, queue, maps, cursor, MemoryType, Submits, Working
<1>5. CASE Inspect(e)
  BY Zenon, <1>t, <1>5 DEF Inspect, Works, Breaks, Fault, Goto, At, store, runtime, queue, maps, cursor, MemoryType, Submits, Working
<1>6. CASE Observe(e)
  BY Zenon, <1>t, <1>6 DEF Observe, RuntimeWorks, RuntimeBreaks, Works, Breaks, Fault, Goto, At, store, runtime, queue, maps, cursor, MemoryType, Submits, Working
<1>7. CASE SaveObserved(e)
  BY Zenon, <1>t, <1>7 DEF SaveObserved, Works, Breaks, Fault, Goto, At, store, runtime, queue, maps, cursor, MemoryType, Submits, Working
<1>8. CASE SaveTask(e)
  BY Zenon, <1>t, <1>8 DEF SaveTask, Works, Breaks, Fault, Goto, At, store, runtime, queue, maps, cursor, MemoryType, Submits, Working
<1>9. CASE Select(e)
  BY Zenon, <1>t, <1>9 DEF Select, Works, Breaks, Fault, Goto, At, store, runtime, queue, maps, cursor, MemoryType, Submits, Working
<1>10. CASE Poll(e)
  BY Zenon, <1>t, <1>10 DEF Poll, Works, Breaks, Fault, Goto, At, store, runtime, queue, maps, cursor, MemoryType, Submits, Working
<1>11. CASE Start(e)
  <2>1. PICK a \in First(1, todo[e]) : /\ current' = [current EXCEPT ![e] = a]
                                      /\ \/ handle[a] = NoHandle /\ Goto(e, "submit")
                                         \/ Goto(e, "saveStarted") \/ Goto(e, "recordHandle")
    BY Zenon, <1>11 DEF Start
  <2>2. a \in Activities /\ pc[e] = "start"
    BY Zenon, <1>t, <1>11 DEF Start, At, First, MemoryType
  <2> QED BY Zenon, <1>t, <2>1, <2>2 DEF Goto, MemoryType, Submits, Known
<1>12. CASE Submit(e)
  BY Zenon, <1>t, <1>12 DEF Submit, RuntimeWorks, RuntimeBreaks, Works, Breaks, Fault, Goto, At, store, runtime, queue, maps, cursor, MemoryType, Submits, Working
<1>13. CASE SaveSubmitted(e)
  <2>1. pc[e] = "saveSubmitted" /\ current[e] \in Activities /\ seen[e] # NoHandle
    <3>1. pc[e] = "saveSubmitted" /\ seen[e].job # 0
      BY Zenon, <1>13 DEF SaveSubmitted, At, SeenInv
    <3>2. current[e] \in Activities
      BY Zenon, <3>1 DEF VisitInv, Visiting, Holding
    <3> QED BY <3>1, <3>2 DEF NoHandle
  <2>2. CASE Works(e) /\ handle' = [handle EXCEPT ![current[e]] = seen[e]] /\ Goto(e, "saveStarted")
    BY Zenon, <1>t, <2>1, <2>2 DEF Goto, MemoryType, StoreType, Submits, Working, Known
  <2>3. CASE Breaks(e) /\ Goto(e, "recordHandle")
    BY Zenon, <1>t, <2>1, <2>3 DEF Breaks, Fault, Goto, MemoryType, Submits, Working
  <2> QED BY Zenon, <1>13, <2>2, <2>3 DEF SaveSubmitted
<1>14. CASE RecordHandle(e)
  BY Zenon, <1>t, <1>14 DEF RecordHandle, Works, Breaks, Fault, Goto, At, store, runtime, queue, maps, cursor, MemoryType, Submits, Working
<1>15. CASE RecordTask(e)
  BY Zenon, <1>t, <1>15 DEF RecordTask, Works, Breaks, Fault, Goto, At, store, runtime, queue, maps, cursor, MemoryType, Submits, Working
<1>16. CASE SaveStarted(e)
  BY Zenon, <1>t, <1>16 DEF SaveStarted, Works, Breaks, Fault, Goto, At, store, runtime, queue, maps, cursor, MemoryType, Submits, Working
<1> QED BY Zenon, <1>1, <1>2, <1>3, <1>4, <1>5, <1>6, <1>7, <1>8, <1>9, <1>10, <1>11, <1>12, <1>13, <1>14, <1>15, <1>16 DEF ExecutorStep

\* What the others hold in their maps is theirs.
Keeps(f) == running'[f] = running[f] /\ todo'[f] = todo[f] /\ seen'[f] = seen[f]

(* An executor writes its own maps and cursor only.                          *)
LEMMA OthersKeep ==
    ASSUME RunTypeOK, NEW e \in Executors, ExecutorStep(e), NEW f \in Executors, f # e
    PROVE  Keeps(f)
<1>t. MemoryType
  BY Zenon DEF RunTypeOK, MemoryType
<1>1. CASE Top(e)
  BY Zenon, <1>t, <1>1 DEF Top, maps, cursor, MemoryType, Keeps
<1>2. CASE Complete(e)
  BY Zenon, <1>t, <1>2 DEF Complete, maps, cursor, MemoryType, Keeps
<1>3. CASE Fail(e)
  BY Zenon, <1>t, <1>3 DEF Fail, maps, cursor, MemoryType, Keeps
<1>4. CASE Return(e)
  BY Zenon, <1>t, <1>4 DEF Return, Forget, maps, cursor, MemoryType, Keeps
<1>5. CASE Inspect(e)
  BY Zenon, <1>t, <1>5 DEF Inspect, maps, cursor, MemoryType, Keeps
<1>6. CASE Observe(e)
  BY Zenon, <1>t, <1>6 DEF Observe, maps, cursor, MemoryType, Keeps
<1>7. CASE SaveObserved(e)
  BY Zenon, <1>t, <1>7 DEF SaveObserved, maps, cursor, MemoryType, Keeps
<1>8. CASE SaveTask(e)
  BY Zenon, <1>t, <1>8 DEF SaveTask, maps, cursor, MemoryType, Keeps
<1>9. CASE Select(e)
  BY Zenon, <1>t, <1>9 DEF Select, maps, cursor, MemoryType, Keeps
<1>10. CASE Poll(e)
  BY Zenon, <1>t, <1>10 DEF Poll, maps, cursor, MemoryType, Keeps
<1>11. CASE Start(e)
  BY Zenon, <1>t, <1>11 DEF Start, maps, cursor, MemoryType, Keeps
<1>12. CASE Submit(e)
  BY Zenon, <1>t, <1>12 DEF Submit, maps, cursor, MemoryType, Keeps
<1>13. CASE SaveSubmitted(e)
  BY Zenon, <1>t, <1>13 DEF SaveSubmitted, maps, cursor, MemoryType, Keeps
<1>14. CASE RecordHandle(e)
  BY Zenon, <1>t, <1>14 DEF RecordHandle, maps, cursor, MemoryType, Keeps
<1>15. CASE RecordTask(e)
  BY Zenon, <1>t, <1>15 DEF RecordTask, maps, cursor, MemoryType, Keeps
<1>16. CASE SaveStarted(e)
  BY Zenon, <1>t, <1>16 DEF SaveStarted, maps, cursor, MemoryType, Keeps
<1> QED BY Zenon, <1>1, <1>2, <1>3, <1>4, <1>5, <1>6, <1>7, <1>8, <1>9, <1>10, <1>11, <1>12, <1>13, <1>14, <1>15, <1>16 DEF ExecutorStep

(* An inspection leaves a handle a handle.                                   *)
LEMMA ObservedIsHandle ==
    ASSUME NEW a \in Activities, NEW h \in Handles, NEW status,
           status = "failed" \/ status \in Observed(a, h)
    PROVE  [h EXCEPT !.status = status] \in Handles
<1>1. \A state : Report(state) \in {"running", "completed", "failed"}
  BY Zenon DEF Report
<1>2. status \in {"running", "completed", "failed"} \/ status = h.status
  BY Zenon, <1>1, RunAssumption DEF Observed, InspectLocal, InspectKubernetes, InspectSlurm
<1> QED BY <1>2 DEF Handles, Statuses

(* The handle an executor is about to save names a job of its activity       *)
(* (controller.go:68-78).                                                    *)
LEMMA SubmittedJob ==
    ASSUME RunTypeOK, SeenInv, NEW e \in Executors, pc[e] = "saveSubmitted", current[e] \in Activities
    PROVE  seen[e].job \in JobsOf(current[e])
<1>1. seen[e] \in Handles \cup {NoHandle} /\ seen[e].job # 0 /\ Evidence(seen[e], current[e])
  BY Zenon DEF RunTypeOK, SeenInv, Holding
<1>2. seen[e].job \in Nat
  BY <1>1 DEF Handles, NoHandle
<1>3. seen[e].job <= Len(external[current[e]]) /\ Len(external[current[e]]) \in Nat
  BY SMTT(20), <1>1 DEF Evidence, Given, RunTypeOK
<1> QED BY <1>1, <1>2, <1>3 DEF JobsOf

(* Only runtime.Start (controller.go:68) makes a job.                        *)
LEMMA StepsLengthen ==
    ASSUME RunTypeOK, VisitInv, SeenInv, NEW e \in Executors, ExecutorStep(e)
    PROVE  Lengthens(e)
<1>t. MemoryType /\ FlagType /\ StoreType
  BY Zenon DEF RunTypeOK, MemoryType, FlagType, StoreType
<1>1. CASE Top(e)
  BY Zenon, <1>1 DEF Top, runtime, Lengthens
<1>2. CASE Complete(e)
  BY Zenon, <1>2 DEF Complete, runtime, Lengthens
<1>3. CASE Fail(e)
  BY Zenon, <1>3 DEF Fail, runtime, Lengthens
<1>4. CASE Return(e)
  BY Zenon, <1>4 DEF Return, runtime, Lengthens
<1>5. CASE Inspect(e)
  BY Zenon, <1>5 DEF Inspect, runtime, Lengthens
<1>6. CASE Observe(e)
  BY Zenon, <1>6 DEF Observe, runtime, Lengthens
<1>7. CASE SaveObserved(e)
  BY Zenon, <1>7 DEF SaveObserved, runtime, Lengthens
<1>8. CASE SaveTask(e)
  BY Zenon, <1>8 DEF SaveTask, runtime, Lengthens
<1>9. CASE Select(e)
  BY Zenon, <1>9 DEF Select, runtime, Lengthens
<1>10. CASE Poll(e)
  BY Zenon, <1>10 DEF Poll, runtime, Lengthens
<1>11. CASE Start(e)
  BY Zenon, <1>11 DEF Start, runtime, Lengthens
<1>12. CASE Submit(e)
  <2>1. pc[e] = "submit" /\ current[e] \in Activities
    BY Zenon, <1>12 DEF Submit, At, VisitInv, Visiting
  <2>2. ASSUME NEW state \in JobStates, NewJob(current[e], state), NEW a \in Activities
        PROVE  \/ Len(external'[a]) = Len(external[a])
               \/ a = current[e] /\ Len(external'[a]) = Len(external[a]) + 1
    <3>1. CASE a = current[e]
      BY Zenon, <2>1, <2>2, <3>1, NewJobGrows
    <3>2. CASE a # current[e]
      BY Zenon, <2>1, <2>2, <3>2 DEF NewJob, RunTypeOK
    <3> QED BY Zenon, <3>1, <3>2
  <2>3. "running" \in JobStates /\ "stopped" \in JobStates
    BY Zenon DEF JobStates
  <2>4. CASE NewJob(current[e], "running") /\ Goto(e, "saveSubmitted") /\ RuntimeWorks(e)
    BY Zenon, <1>t, <2>1, <2>2, <2>3, <2>4 DEF Goto, RuntimeWorks, MemoryType, Lengthens
  <2>5. CASE UNCHANGED external
    BY Zenon, <2>5 DEF Lengthens
  <2>6. CASE /\ NewJob(current[e], "running") \/ NewJob(current[e], "stopped")
             /\ Goto(e, "recordHandle") /\ Fault
    BY Zenon, <1>t, <2>1, <2>2, <2>3, <2>6 DEF Goto, Fault, MemoryType, Lengthens, Working
  <2> QED BY Zenon, <1>12, <2>4, <2>5, <2>6 DEF Submit
<1>13. CASE SaveSubmitted(e)
  <2>1. CASE UNCHANGED external
    BY Zenon, <2>1 DEF Lengthens
  <2>2. CASE /\ Live(external[current[e]][seen[e].job])
             /\ external' = [external EXCEPT ![current[e]][seen[e].job] = "stopped"]
    <3>1. pc[e] = "saveSubmitted" /\ current[e] \in Activities
      BY Zenon, <1>13 DEF SaveSubmitted, At, VisitInv, Visiting, Holding
    <3>2. seen[e].job \in JobsOf(current[e])
      BY Zenon, <3>1, SubmittedJob
    <3>3. "stopped" \in JobStates
      BY Zenon DEF JobStates
    <3>4. \A a \in Activities : Len(external'[a]) = Len(external[a])
      BY Zenon, <2>2, <3>1, <3>2, <3>3, MovedJobGrows
    <3> QED BY Zenon, <3>4 DEF Lengthens
  <2> QED BY Zenon, <1>13, <2>1, <2>2 DEF SaveSubmitted
<1>14. CASE RecordHandle(e)
  BY Zenon, <1>14 DEF RecordHandle, runtime, Lengthens
<1>15. CASE RecordTask(e)
  BY Zenon, <1>15 DEF RecordTask, runtime, Lengthens
<1>16. CASE SaveStarted(e)
  BY Zenon, <1>16 DEF SaveStarted, runtime, Lengthens
<1> QED BY Zenon, <1>1, <1>2, <1>3, <1>4, <1>5, <1>6, <1>7, <1>8, <1>9, <1>10, <1>11, <1>12, <1>13, <1>14, <1>15, <1>16 DEF ExecutorStep

(* Execute returns after the outcome was written, or could not be            *)
(* (supervisor.go:53-73).                                                    *)
LEMMA StepsConclude ==
    ASSUME RunTypeOK, NEW e \in Executors, ExecutorStep(e)
    PROVE  Concludes(e)
<1>t. MemoryType /\ FlagType /\ StoreType
  BY Zenon DEF RunTypeOK, MemoryType, FlagType, StoreType
<1>1. CASE Top(e)
  BY Zenon, <1>t, <1>1 DEF Top, Works, Breaks, Fault, Goto, At, store, runtime, queue, maps, cursor, MemoryType, FlagType, StoreType, Concludes
<1>2. CASE Complete(e)
  BY Zenon, <1>t, <1>2 DEF Complete, Works, Breaks, Fault, Goto, At, store, runtime, queue, maps, cursor, MemoryType, FlagType, StoreType, Concludes
<1>3. CASE Fail(e)
  BY Zenon, <1>t, <1>3 DEF Fail, Works, Breaks, Fault, Goto, At, store, runtime, queue, maps, cursor, MemoryType, FlagType, StoreType, Concludes
<1>4. CASE Return(e)
  BY Zenon, <1>t, <1>4 DEF Return, Forget, Breaks, Works, Breaks, Fault, Goto, At, store, runtime, queue, maps, cursor, MemoryType, FlagType, StoreType, Concludes
<1>5. CASE Inspect(e)
  BY Zenon, <1>t, <1>5 DEF Inspect, Works, Breaks, Fault, Goto, At, store, runtime, queue, maps, cursor, MemoryType, FlagType, StoreType, Concludes
<1>6. CASE Observe(e)
  BY Zenon, <1>t, <1>6 DEF Observe, RuntimeWorks, RuntimeBreaks, Works, Breaks, Fault, Goto, At, store, runtime, queue, maps, cursor, MemoryType, FlagType, StoreType, Concludes
<1>7. CASE SaveObserved(e)
  BY Zenon, <1>t, <1>7 DEF SaveObserved, Works, Breaks, Fault, Goto, At, store, runtime, queue, maps, cursor, MemoryType, FlagType, StoreType, Concludes
<1>8. CASE SaveTask(e)
  BY Zenon, <1>t, <1>8 DEF SaveTask, Works, Breaks, Fault, Goto, At, store, runtime, queue, maps, cursor, MemoryType, FlagType, StoreType, Concludes
<1>9. CASE Select(e)
  BY Zenon, <1>t, <1>9 DEF Select, Works, Breaks, Fault, Goto, At, store, runtime, queue, maps, cursor, MemoryType, FlagType, StoreType, Concludes
<1>10. CASE Poll(e)
  BY Zenon, <1>t, <1>10 DEF Poll, Works, Breaks, Fault, Goto, At, store, runtime, queue, maps, cursor, MemoryType, FlagType, StoreType, Concludes
<1>11. CASE Start(e)
  BY Zenon, <1>t, <1>11 DEF Start, Works, Breaks, Fault, Goto, At, store, runtime, queue, maps, cursor, MemoryType, FlagType, StoreType, Concludes
<1>12. CASE Submit(e)
  BY Zenon, <1>t, <1>12 DEF Submit, RuntimeWorks, RuntimeBreaks, Works, Breaks, Fault, Goto, At, store, runtime, queue, maps, cursor, MemoryType, FlagType, StoreType, Concludes
<1>13. CASE SaveSubmitted(e)
  BY Zenon, <1>t, <1>13 DEF SaveSubmitted, Works, Breaks, Fault, Goto, At, store, runtime, queue, maps, cursor, MemoryType, FlagType, StoreType, Concludes
<1>14. CASE RecordHandle(e)
  BY Zenon, <1>t, <1>14 DEF RecordHandle, Works, Breaks, Fault, Goto, At, store, runtime, queue, maps, cursor, MemoryType, FlagType, StoreType, Concludes
<1>15. CASE RecordTask(e)
  BY Zenon, <1>t, <1>15 DEF RecordTask, Works, Breaks, Fault, Goto, At, store, runtime, queue, maps, cursor, MemoryType, FlagType, StoreType, Concludes
<1>16. CASE SaveStarted(e)
  BY Zenon, <1>t, <1>16 DEF SaveStarted, Works, Breaks, Fault, Goto, At, store, runtime, queue, maps, cursor, MemoryType, FlagType, StoreType, Concludes
<1> QED BY Zenon, <1>1, <1>2, <1>3, <1>4, <1>5, <1>6, <1>7, <1>8, <1>9, <1>10, <1>11, <1>12, <1>13, <1>14, <1>15, <1>16 DEF ExecutorStep

-----------------------------------------------------------------------------
(* Handles *)

(* Once an activity has a handle it keeps one: handles are overwritten       *)
(* (repository.go, SaveHandle) and never deleted.                            *)
LEMMA HandlesStay ==
    ASSUME RunIInv, \A f \in Executors : KnownInv(f), RunNext
    PROVE  Known \subseteq Known'
<1> SUFFICES ASSUME NEW a \in Activities, handle[a] # NoHandle, handle'[a] # handle[a]
             PROVE  handle'[a] # NoHandle
  BY Zenon DEF Known
<1>t. RunTypeOK
  BY Zenon DEF RunIInv
<1>n. NoHandle \notin Handles /\ [status |-> "failed", job |-> 0] # NoHandle
  BY DEF Handles, NoHandle, Statuses
<1>1. ASSUME NEW e \in Executors, SaveObserved(e)
      PROVE  handle'[a] # NoHandle
  <2>1. handle'[a] = seen[e] /\ seen[e] \in Handles
    BY Zenon, <1>1, <1>t DEF SaveObserved, At, RunTypeOK, KnownInv
  <2> QED BY Zenon, <1>n, <2>1
<1>2. ASSUME NEW e \in Executors, SaveSubmitted(e)
      PROVE  handle'[a] # NoHandle
  <2>1. handle'[a] = seen[e] /\ seen[e].job # 0
    BY Zenon, <1>2, <1>t DEF SaveSubmitted, At, RunTypeOK, RunIInv, SeenInv
  <2> QED BY <2>1 DEF NoHandle
<1>3. ASSUME NEW e \in Executors, RecordHandle(e)
      PROVE  handle'[a] # NoHandle
  BY Zenon, <1>3, <1>t, <1>n DEF RecordHandle, RunTypeOK
<1> QED BY Zenon, <1>1, <1>2, <1>3, WhoWrites DEF Attributed

(* What an executor works from has a handle: the activities in its map of    *)
(* running ones, those it inspects and the one it has just started.          *)
LEMMA KnownInvStep ==
    ASSUME RunIInv, \A g \in Executors : KnownInv(g), RunNext, Known \subseteq Known', NEW f \in Executors
    PROVE  KnownInv(f)'
<1>t. MemoryType /\ FlagType /\ StoreType /\ RunTypeOK
  BY Zenon DEF RunIInv, RunTypeOK, MemoryType, FlagType, StoreType
<1>k. KnownInv(f)
  BY Zenon
<1>n. NoHandle \notin Handles
  BY DEF Handles, NoHandle, Statuses
\* A step that leaves f alone, and one to a place where it has nothing to inspect
<1>0. ASSUME pc'[f] = pc[f], running'[f] = running[f], todo'[f] = todo[f],
             current'[f] = current[f], seen'[f] = seen[f], pc[f] = "idle" => cancelled'[f] = cancelled[f]
      PROVE  KnownInv(f)'
  BY Zenon, <1>0, <1>k DEF KnownInv
<1>q. ASSUME pc'[f] \notin {"inspect", "observe", "saveObserved", "saveTask", "saveStarted", "idle"},
             running'[f] = running[f]
      PROVE  KnownInv(f)'
  BY Zenon, <1>q, <1>k DEF KnownInv
<1>1. ASSUME NEW e \in Executors, Begin(e) PROVE KnownInv(f)'
  <2>1. CASE e # f
    BY Zenon, <1>0, <1>t, <1>1, <2>1 DEF Begin, Goto, maps, cursor, MemoryType
  <2>2. CASE e = f
    BY Zenon, <1>q, <1>t, <1>1, <2>2 DEF Begin, Goto, maps, MemoryType
  <2> QED BY Zenon, <2>1, <2>2
<1>2. ASSUME NEW e \in Executors, CreateRunFails(e) PROVE KnownInv(f)'
  <2>1. CASE e # f
    BY Zenon, <1>0, <1>t, <1>2, <2>1 DEF CreateRunFails, Goto, maps, cursor, MemoryType
  <2>2. CASE e = f
    BY Zenon, <1>q, <1>t, <1>2, <2>2 DEF CreateRunFails, Goto, maps, MemoryType
  <2> QED BY Zenon, <2>1, <2>2
<1>3. ASSUME NEW e \in Executors, Cancel(e) PROVE KnownInv(f)'
  BY Zenon, <1>0, <1>t, <1>3 DEF Cancel, At, maps, cursor, FlagType
<1>4. ASSUME NEW D \in SUBSET Executors, Crash(D) PROVE KnownInv(f)'
  <2>1. CASE f \in D
    BY Zenon, <1>4, <2>1 DEF Crash, Forget, KnownInv
  <2>2. CASE f \notin D
    BY Zenon, <1>0, <1>4, <2>2 DEF Crash, Forget
  <2> QED BY Zenon, <2>1, <2>2
<1>5. ASSUME NEW a \in Activities, JobStep(a) PROVE KnownInv(f)'
  BY Zenon, <1>0, <1>5 DEF JobStep, JobMoves, maps, cursor
<1>6. ASSUME NEW e \in Executors, ExecutorStep(e), e # f PROVE KnownInv(f)'
  <2>1. pc'[f] = pc[f] /\ current'[f] = current[f] /\ cancelled'[f] = cancelled[f]
    BY Zenon, <1>t, <1>6, StepsMoveAlone DEF MovesAlone
  <2>2. running'[f] = running[f] /\ todo'[f] = todo[f] /\ seen'[f] = seen[f]
    BY Zenon, <1>t, <1>6, OthersKeep DEF Keeps
  <2> QED BY Zenon, <1>0, <2>1, <2>2
<1>7. ASSUME ExecutorStep(f) PROVE KnownInv(f)'
  <2>1. CASE Top(f)
    <3>1. CASE pc'[f] = "inspect"
      BY Zenon, <1>k, <1>t, <2>1, <3>1 DEF Top, Goto, maps, MemoryType, KnownInv
    <3>2. CASE pc'[f] # "inspect"
      BY Zenon, <1>q, <1>t, <2>1, <3>2 DEF Top, Goto, maps, MemoryType
    <3> QED BY Zenon, <3>1, <3>2
  <2>2. CASE Complete(f) \/ Fail(f)
    BY Zenon, <1>q, <1>t, <2>2 DEF Complete, Fail, Goto, maps, MemoryType
  <2>3. CASE Return(f)
    BY Zenon, <2>3 DEF Return, Forget, KnownInv
  <2>4. CASE Inspect(f)
    <3>1. PICK a \in todo[f] :
              /\ todo' = [todo EXCEPT ![f] = @ \ {a}]
              /\ \/ Goto(f, "observe") /\ seen' = [seen EXCEPT ![f] = handle[a]]
                 \/ Goto(f, "failing")
      BY Zenon, <2>4 DEF Inspect
    <3>2. a \in Known /\ handle[a] \in Handles /\ todo'[f] \subseteq Known
      BY Zenon, <1>k, <1>t, <2>4, <3>1 DEF Inspect, At, KnownInv, Known, MemoryType, StoreType
    <3>3. running'[f] = running[f]
      BY Zenon, <2>4 DEF Inspect, maps
    <3>4. CASE Goto(f, "failing")
      BY Zenon, <1>q, <1>t, <3>3, <3>4 DEF Goto, MemoryType
    <3>5. CASE Goto(f, "observe") /\ seen' = [seen EXCEPT ![f] = handle[a]]
      BY Zenon, <1>k, <1>t, <3>2, <3>3, <3>5 DEF Goto, MemoryType, KnownInv
    <3> QED BY Zenon, <3>1, <3>4, <3>5
  <2>5. CASE Observe(f)
    <3>1. seen[f] \in Handles /\ todo[f] \subseteq Known /\ current[f] \in Activities
      BY Zenon, <1>k, <2>5 DEF Observe, At, KnownInv, RunIInv, VisitInv, Visiting, Holding
    <3>2. \E status : /\ seen' = [seen EXCEPT ![f].status = status]
                      /\ status = "failed" \/ status \in Observed(current[f], seen[f])
      BY Zenon, <2>5 DEF Observe
    <3>3. PICK status : /\ seen' = [seen EXCEPT ![f].status = status]
                        /\ status = "failed" \/ status \in Observed(current[f], seen[f])
      BY Zenon, <3>2
    <3>4. [seen[f] EXCEPT !.status = status] \in Handles
      BY Zenon, <3>1, <3>3, ObservedIsHandle
    <3>5. seen'[f] \in Handles
      BY Zenon, <1>t, <3>3, <3>4 DEF MemoryType
    <3>6. pc'[f] = "saveObserved" /\ running'[f] = running[f] /\ todo'[f] = todo[f]
      BY Zenon, <1>t, <2>5 DEF Observe, Goto, maps, MemoryType
    <3> QED BY Zenon, <1>k, <3>1, <3>5, <3>6 DEF KnownInv
  <2>6. CASE SaveObserved(f)
    <3>1. todo[f] \subseteq Known /\ todo'[f] = todo[f] /\ running'[f] = running[f]
      BY Zenon, <1>k, <2>6 DEF SaveObserved, At, KnownInv, maps, cursor
    <3>2. pc'[f] \in {"inspect", "saveTask", "failing"}
      BY Zenon, <1>t, <2>6 DEF SaveObserved, Goto, MemoryType
    <3> QED BY Zenon, <1>k, <3>1, <3>2 DEF KnownInv
  <2>7. CASE SaveTask(f)
    <3>1. todo[f] \subseteq Known /\ todo'[f] = todo[f] /\ running'[f] \subseteq running[f]
      BY ZenonT(30), <1>k, <1>t, <2>7 DEF SaveTask, At, KnownInv, maps, cursor, MemoryType
    <3>2. pc'[f] \in {"inspect", "failing"}
      BY Zenon, <1>t, <2>7 DEF SaveTask, Goto, MemoryType
    <3> QED BY Zenon, <1>k, <3>1, <3>2 DEF KnownInv
  <2>8. CASE Select(f) \/ Poll(f)
    BY Zenon, <1>q, <1>t, <2>8 DEF Select, Poll, Goto, maps, MemoryType
  <2>9. CASE Start(f)
    <3>1. PICK a \in First(1, todo[f]) :
              /\ current' = [current EXCEPT ![f] = a]
              /\ \/ Goto(f, "submit") \/ Goto(f, "recordHandle")
                 \/ handle[a] # NoHandle /\ Goto(f, "saveStarted")
      BY Zenon, <2>9 DEF Start
    <3>2. a \in Activities /\ running'[f] = running[f]
      BY Zenon, <1>t, <2>9 DEF Start, First, maps, MemoryType
    <3>3. CASE Goto(f, "submit") \/ Goto(f, "recordHandle")
      BY Zenon, <1>q, <1>t, <3>2, <3>3 DEF Goto, MemoryType
    <3>4. CASE handle[a] # NoHandle /\ Goto(f, "saveStarted")
      BY Zenon, <1>k, <1>t, <3>1, <3>2, <3>4 DEF Goto, MemoryType, KnownInv, Known
    <3> QED BY Zenon, <3>1, <3>3, <3>4
  <2>10. CASE Submit(f)
    BY Zenon, <1>q, <1>t, <2>10 DEF Submit, Goto, maps, MemoryType
  <2>11. CASE SaveSubmitted(f)
    <3>1. pc[f] = "saveSubmitted" /\ pc'[f] \in {"saveStarted", "recordHandle"}
      BY Zenon, <1>t, <2>11 DEF SaveSubmitted, At, Goto, MemoryType
    <3>2. running'[f] = running[f] /\ current'[f] = current[f]
      BY Zenon, <2>11 DEF SaveSubmitted, maps, cursor
    <3>3. pc'[f] = "saveStarted" => current[f] \in Known'
      BY Zenon, <1>t, <1>7, <3>1, StepsSubmit DEF Submits, RunIInv, Working
    <3> QED BY Zenon, <1>k, <3>1, <3>2, <3>3 DEF KnownInv
  <2>12. CASE RecordHandle(f) \/ RecordTask(f)
    BY Zenon, <1>q, <1>t, <2>12 DEF RecordHandle, RecordTask, Goto, maps, MemoryType
  <2>13. CASE SaveStarted(f)
    <3>1. current[f] \in Known /\ running'[f] \subseteq running[f] \cup {current[f]}
      BY Zenon, <1>k, <1>t, <2>13 DEF SaveStarted, At, KnownInv, MemoryType
    <3>2. pc'[f] \in {"start", "failing"}
      BY Zenon, <1>t, <2>13 DEF SaveStarted, Goto, MemoryType
    <3> QED BY Zenon, <1>k, <3>1, <3>2 DEF KnownInv
  <2> QED BY Zenon, <1>7, <2>1, <2>2, <2>3, <2>4, <2>5, <2>6, <2>7, <2>8, <2>9, <2>10, <2>11, <2>12, <2>13 DEF ExecutorStep
<1> QED BY Zenon, <1>1, <1>2, <1>3, <1>4, <1>5, <1>6, <1>7 DEF RunNext

-----------------------------------------------------------------------------
(* Counting *)

(* There are finitely many executors, so those who may submit can be counted.*)
LEMMA WillingFinite ==
    ASSUME NEW a
    PROVE  /\ IsFiniteSet(Willing(a)) /\ Cardinality(Willing(a)) \in Nat
           /\ IsFiniteSet(Submitting(a)) /\ Cardinality(Submitting(a)) \in Nat
           /\ Submitting(a) \subseteq Willing(a)
           /\ Cardinality(Submitting(a)) <= Cardinality(Willing(a))
<1>1. Willing(a) \subseteq Executors /\ Submitting(a) \subseteq Willing(a)
  BY Zenon DEF Willing, Submitting, Working
<1>2. IsFiniteSet(Willing(a))
  BY Zenon, <1>1, RunAssumption, FS_Subset
<1>3. IsFiniteSet(Submitting(a)) /\ Cardinality(Submitting(a)) <= Cardinality(Willing(a))
  BY Zenon, <1>1, <1>2, FS_Subset
<1> QED BY Zenon, <1>1, <1>2, <1>3, FS_CardinalityType

(* Removing one member or more leaves fewer.                                 *)
LEMMA Fewer ==
    ASSUME NEW S, IsFiniteSet(S), NEW T, T \subseteq S
    PROVE  /\ Cardinality(T) <= Cardinality(S)
           /\ \A x \in S : x \notin T => Cardinality(T) <= Cardinality(S) - 1
<1>1. Cardinality(T) <= Cardinality(S)
  BY Zenon, FS_Subset
<1>2. ASSUME NEW x \in S, x \notin T
      PROVE  Cardinality(T) <= Cardinality(S) - 1
  <2>1. IsFiniteSet(S \ {x}) /\ Cardinality(S \ {x}) = Cardinality(S) - 1
    BY Zenon, FS_RemoveElement
  <2>2. T \subseteq S \ {x}
    BY Zenon, <1>2
  <2>3. Cardinality(T) <= Cardinality(S \ {x})
    BY Zenon, <2>1, <2>2, FS_Subset
  <2> QED BY <2>1, <2>3
<1> QED BY Zenon, <1>1, <1>2

LEMMA Prices ==
    ASSUME NEW n \in Nat
    PROVE  /\ n * 1 \in Nat /\ (n + 1) * 1 >= n * 1 + 1
           /\ n * 2 \in Nat /\ (n + 1) * 2 >= n * 2 + 1 /\ (n + 1) * 2 = n * 2 + 2
OBVIOUS

(* What faults pay for: each for one job, or for two where a lease may run   *)
(* out.                                                                      *)
LEMMA Payments ==
    ASSUME faults \in Nat, faults' \in Nat
    PROVE  /\ Paid \in Nat /\ Paid' \in Nat
           /\ faults' = faults => Paid' = Paid
           /\ faults' = faults + 1 => Paid' >= Paid + 1
           /\ faults' = faults + 1 /\ ~Alone => Paid' = Paid + 2
           /\ Grace \in {0, 1} /\ Grace' \in {0, 1}
<1>1. Alone' = Alone
  BY Zenon DEF Alone
<1>2. Grace \in {0, 1} /\ Grace' \in {0, 1}
  BY Zenon DEF Grace
<1>3. CASE Alone
  <2>1. Paid = faults * 1 /\ Paid' = faults' * 1
    BY Zenon, <1>1, <1>3 DEF Paid
  <2>2. /\ faults * 1 \in Nat /\ faults' * 1 \in Nat
        /\ faults' = faults + 1 => faults' * 1 >= faults * 1 + 1
    BY Zenon, Prices
  <2> QED BY Zenon, <1>2, <1>3, <2>1, <2>2
<1>4. CASE ~Alone
  <2>1. Paid = faults * 2 /\ Paid' = faults' * 2
    BY Zenon, <1>1, <1>4 DEF Paid
  <2>2. /\ faults * 2 \in Nat /\ faults' * 2 \in Nat
        /\ faults' = faults + 1 => faults' * 2 >= faults * 2 + 1
        /\ faults' = faults + 1 => faults' * 2 = faults * 2 + 2
    BY Zenon, Prices
  <2> QED BY Zenon, <1>2, <1>4, <2>1, <2>2
<1> QED BY Zenon, <1>3, <1>4

(* The sums that are compared, as numbers.                                   *)
LEMMA SumsAreNumbers ==
    ASSUME NEW p \in Nat, NEW q \in Nat
    PROVE  p + q \in Int
OBVIOUS

LEMMA SumsChain ==
    ASSUME NEW i \in Int, NEW j \in Int, NEW k \in Int, NEW l \in Int, i <= j, j <= k, k <= l
    PROVE  i <= l
OBVIOUS

LEMMA SumsGrow ==
    ASSUME NEW p \in Nat, NEW g \in {0, 1}, NEW p2 \in Nat, NEW g2 \in {0, 1},
           p2 >= p, p2 >= p + 1 \/ g = g2 \/ g2 = 1
    PROVE  p + g <= p2 + g2
OBVIOUS

LEMMA SubmitterLeaves ==
    ASSUME NEW l \in Nat, NEW s \in Nat, NEW l2 \in Nat, NEW s2 \in Nat,
           s2 <= s, l2 = l \/ (l2 = l + 1 /\ s2 <= s - 1)
    PROVE  l2 + s2 <= l + s
OBVIOUS

(* A step that lets nobody begin, makes no job and loses no credit.          *)
LEMMA QuietCounts ==
    ASSUME RunTypeOK, RunTypeOK', NEW a \in Activities, SubmissionInv(a), handle' = handle,
           Len(external'[a]) = Len(external[a]),
           Willing(a)' \subseteq Willing(a), Submitting(a)' \subseteq Submitting(a),
           faults' = faults \/ faults' = faults + 1,
           faults' = faults => Grace' = Grace
    PROVE  SubmissionInv(a)'
<1>0. faults \in Nat /\ faults' \in Nat
  BY Zenon DEF RunTypeOK
<1>1. /\ Paid \in Nat /\ Paid' \in Nat /\ Grace \in Nat /\ Grace' \in Nat
      /\ Paid' >= Paid /\ Paid + Grace <= Paid' + Grace'
  BY <1>0, Payments, SumsGrow
<1>2. /\ Cardinality(Willing(a)) \in Nat /\ Cardinality(Willing(a)') \in Nat
      /\ Cardinality(Willing(a)') <= Cardinality(Willing(a))
  BY Zenon, WillingFinite, Fewer, FS_Subset, FS_CardinalityType
<1>3. /\ Cardinality(Submitting(a)) \in Nat /\ Cardinality(Submitting(a)') \in Nat
      /\ Cardinality(Submitting(a)') <= Cardinality(Submitting(a))
  BY Zenon, WillingFinite, Fewer, FS_Subset, FS_CardinalityType
<1>4. Len(external[a]) \in Nat /\ Known' = Known
  BY DEF RunTypeOK, Known
<1>5. CASE a \in Known
  <2>1. Len(external[a]) + Cardinality(Submitting(a)) <= Paid + 1
    BY Zenon, <1>5 DEF SubmissionInv
  <2>2. Len(external'[a]) + Cardinality(Submitting(a)') <= Paid' + 1
    BY <1>1, <1>3, <1>4, <2>1
  <2> QED BY Zenon, <1>4, <1>5, <2>2 DEF SubmissionInv
<1>6. CASE a \notin Known
  <2>1. Len(external[a]) + Cardinality(Willing(a)) <= Paid + Grace
    BY Zenon, <1>6 DEF SubmissionInv
  <2>2. Len(external[a]) + Cardinality(Willing(a)') <= Len(external[a]) + Cardinality(Willing(a))
    BY <1>2, <1>4
  <2>i. /\ Len(external[a]) + Cardinality(Willing(a)) \in Int /\ Paid + Grace \in Int
        /\ Len(external[a]) + Cardinality(Willing(a)') \in Int /\ Paid' + Grace' \in Int
    BY Zenon, <1>1, <1>2, <1>4, SumsAreNumbers
  <2>3. Len(external'[a]) + Cardinality(Willing(a)') <= Paid' + Grace'
    BY Zenon, <1>1, <2>1, <2>2, <2>i, SumsChain
  <2> QED BY Zenon, <1>4, <1>6, <2>3 DEF SubmissionInv
<1> QED BY Zenon, <1>5, <1>6

(* A step of an executor that is at work.  Whoever submits gives up being    *)
(* willing, whoever stops without having written a handle was cancelled or   *)
(* met a fault.                                                              *)
LEMMA ExecutorCounts ==
    ASSUME RunTypeOK, RunTypeOK', NEW a \in Activities, SubmissionInv(a), Known \subseteq Known',
           NEW e \in Executors, MovesAlone(e), Submits(e), Lengthens(e)
    PROVE  SubmissionInv(a)'
<1> DEFINE L == Len(external[a])
           W == Cardinality(Willing(a))
           S == Cardinality(Submitting(a))
<1>0. faults \in Nat /\ faults' \in Nat /\ (faults' = faults \/ faults' = faults + 1)
  BY Zenon DEF RunTypeOK, MovesAlone
<1>1. /\ Paid \in Nat /\ Paid' \in Nat /\ Grace \in {0, 1} /\ Grace' \in {0, 1}
      /\ Paid' >= Paid /\ (faults' = faults + 1 => Paid' >= Paid + 1)
  BY <1>0, Payments
<1>n. Grace \in Nat /\ Grace' \in Nat
  BY <1>1
<1>2. L \in Nat /\ W \in Nat /\ S \in Nat /\ L' \in Nat /\ S <= W
  BY WillingFinite DEF RunTypeOK
<1>3. /\ IsFiniteSet(Willing(a)) /\ IsFiniteSet(Submitting(a))
      /\ e \in Submitting(a) => e \in Willing(a)
  BY Zenon, WillingFinite
<1>o. 1 \in {0, 1} /\ 1 \in Nat
  OBVIOUS
<1>g. \A T : T \subseteq Willing(a) => Cardinality(T) \in Nat
  BY Zenon, <1>3, FS_Subset, FS_CardinalityType
<1>4. \/ L' = L
      \/ /\ e \in Submitting(a) /\ L' = L + 1
         /\ \/ pc'[e] = "saveSubmitted" /\ current'[e] = a /\ faults' = faults
            \/ pc'[e] \notin Working /\ faults' = faults + 1
  BY Zenon DEF Lengthens, Submits, Submitting
<1>5. CASE a \in Known
  <2>1. Submitting(a)' \subseteq Submitting(a) /\ e \notin Submitting(a)'
    BY Zenon, <1>5 DEF Submitting, MovesAlone, Submits
  <2>2. S' \in Nat /\ S' <= S /\ (e \in Submitting(a) => S' <= S - 1)
    BY Zenon, <1>3, <2>1, Fewer, FS_Subset, FS_CardinalityType
  <2>3. L + S <= Paid + 1
    BY Zenon, <1>5 DEF SubmissionInv
  <2>p. L' = L \/ (L' = L + 1 /\ S' <= S - 1)
    BY Zenon, <1>4, <2>2
  <2>q. L' + S' <= L + S
    BY Zenon, <1>2, <2>2, <2>p, SubmitterLeaves
  <2>r. Paid + 1 <= Paid' + 1
    BY Zenon, <1>1, <1>o, SumsGrow
  <2>i. L' + S' \in Int /\ L + S \in Int /\ Paid + 1 \in Int /\ Paid' + 1 \in Int
    BY Zenon, <1>1, <1>n, <1>2, <1>o, <2>2, SumsAreNumbers
  <2>4. L' + S' <= Paid' + 1
    BY Zenon, <2>3, <2>i, <2>q, <2>r, SumsChain
  <2> QED BY Zenon, <1>5, <2>4 DEF SubmissionInv
<1>6. CASE a \notin Known /\ a \in Known'
  <2>1. Submitting(a)' \subseteq Willing(a) /\ (e \in Submitting(a) => e \notin Submitting(a)')
    BY Zenon DEF Submitting, Willing, Working, MovesAlone, Submits
  <2>2. S' \in Nat /\ S' <= W /\ (e \in Submitting(a) => S' <= W - 1)
    BY Zenon, <1>3, <2>1, Fewer, FS_Subset, FS_CardinalityType
  <2>3. L + W <= Paid + Grace
    BY Zenon, <1>6 DEF SubmissionInv
  <2>p. L' = L \/ (L' = L + 1 /\ S' <= W - 1)
    BY Zenon, <1>4, <2>2
  <2>q. L' + S' <= L + W
    BY Zenon, <1>2, <2>2, <2>p, SubmitterLeaves
  <2>r. Paid + Grace <= Paid' + 1
    BY Zenon, <1>1, <1>o, SumsGrow
  <2>i. L' + S' \in Int /\ L + W \in Int /\ Paid + Grace \in Int /\ Paid' + 1 \in Int
    BY Zenon, <1>1, <1>n, <1>2, <1>o, <2>2, SumsAreNumbers
  <2>4. L' + S' <= Paid' + 1
    BY Zenon, <2>3, <2>i, <2>q, <2>r, SumsChain
  <2> QED BY Zenon, <1>6, <2>4 DEF SubmissionInv
<1>7. CASE a \notin Known'
  <2> SUFFICES L' + W' <= Paid' + Grace'
    BY Zenon, <1>7 DEF SubmissionInv
  <2>0. L + W <= Paid + Grace
    BY Zenon, <1>7 DEF SubmissionInv
  <2>1. Willing(a)' \subseteq Willing(a)
    BY Zenon, <1>7 DEF Willing, MovesAlone, Submits
  <2>2. W' \in Nat /\ W' <= W /\ (e \in Willing(a) /\ e \notin Willing(a)' => W' <= W - 1)
    BY Zenon, <1>3, <2>1, Fewer, FS_Subset, FS_CardinalityType
  <2>i. L + W \in Int /\ L' + W' \in Int /\ Paid + Grace \in Int /\ Paid' + Grace' \in Int
    BY Zenon, <1>1, <1>2, <1>n, <2>2, SumsAreNumbers
  <2>3. CASE pc'[e] \in Working
    <3>1. Grace = 1 => Grace' = 1
      <4> SUFFICES ASSUME settled = "no", NEW g \in Executors, OnItsOwn(g) PROVE OnItsOwn(e)' /\ settled' = "no"
        BY Zenon DEF Grace
      <4>1. g = e
        BY Zenon DEF OnItsOwn, MovesAlone
      <4> QED BY Zenon, <2>3, <4>1 DEF OnItsOwn, MovesAlone
    <3>2. L' = L \/ (L' = L + 1 /\ W' <= W - 1)
      BY Zenon, <1>3, <1>4, <2>2, <2>3 DEF Willing
    <3>3. L' + W' <= L + W
      BY <1>2, <2>2, <3>2
    <3>4. Paid + Grace <= Paid' + Grace'
      <4>1. Grace = Grace' \/ Grace' = 1
        BY SMTT(20), <1>1, <3>1
      <4> QED BY Zenon, <1>1, <4>1, SumsGrow
    <3> QED BY Zenon, <2>0, <2>i, <3>3, <3>4, SumsChain
  <2>4. CASE pc'[e] \notin Working /\ faults' = faults + 1
    <3>1. e \notin Willing(a)'
      BY Zenon, <2>4 DEF Willing
    <3>2. L' = L \/ (L' = L + 1 /\ W' <= W - 1)
      BY Zenon, <1>3, <1>4, <2>2, <3>1
    <3>3. L' + W' <= L + W
      BY <1>2, <2>2, <3>2
    <3>4. Paid + Grace <= Paid' + Grace'
      BY Zenon, <1>1, <2>4, SumsGrow
    <3> QED BY Zenon, <2>0, <2>i, <3>3, <3>4, SumsChain
  <2>5. CASE pc'[e] \notin Working /\ faults' = faults
    <3>1. e \notin Willing(a)'
      BY Zenon, <2>5 DEF Willing
    <3>2. L' = L
      <4>1. faults # faults + 1
        BY DEF RunTypeOK
      <4> QED BY Zenon, <1>4, <2>5, <4>1 DEF Working
    <3>3. CASE e \in Willing(a)
      BY SMTT(20), <1>1, <1>2, <2>0, <2>2, <3>1, <3>2, <3>3
    <3>4. CASE e \notin Willing(a)
      <4>1. faults # faults + 1
        BY DEF RunTypeOK
      <4>2. pc[e] \notin Working \/ cancelled[e]
        BY Zenon, <2>5, <3>4, <4>1 DEF Willing, Submits
      <4>3. \A g \in Executors : ~OnItsOwn(g)
        BY Zenon, <4>2 DEF OnItsOwn, MovesAlone
      <4>4. Grace = 0
        BY Zenon, <4>3 DEF Grace
      <4> QED BY <1>1, <1>2, <2>0, <2>2, <3>2, <4>4
    <3> QED BY Zenon, <3>3, <3>4
  <2> QED BY Zenon, <1>0, <2>3, <2>4, <2>5
<1> QED BY Zenon, <1>5, <1>6, <1>7

(* Every step keeps to what faults have paid for.                            *)
LEMMA SubmissionStep ==
    ASSUME RunIInv, RunTypeOK', \A f \in Executors : KnownInv(f), Known \subseteq Known', RunNext,
           NEW a \in Activities, SubmissionInv(a)
    PROVE  SubmissionInv(a)'
<1>t. MemoryType /\ FlagType /\ RunTypeOK
  BY Zenon DEF RunIInv, RunTypeOK, MemoryType, FlagType
<1>1. ASSUME NEW e \in Executors, ExecutorStep(e)
      PROVE  SubmissionInv(a)'
  BY Zenon, <1>1, <1>t, StepsMoveAlone, StepsSubmit, StepsLengthen, ExecutorCounts DEF RunIInv
<1>2. ASSUME NEW e \in Executors, Begin(e)
      PROVE  SubmissionInv(a)'
  <2>1. /\ pc[e] = "idle" /\ settled = "no" /\ ~cancelled[e] /\ UNCHANGED <<settled, cancelled, handle, external, current>>
        /\ pc'[e] = "top" /\ \A f \in Executors \ {e} : pc'[f] = pc[f]
    BY Zenon, <1>2, <1>t DEF Begin, At, Goto, MemoryType, KnownInv, runtime, cursor
  <2>2. /\ Willing(a)' = Willing(a) \cup {e} /\ e \notin Willing(a)
        /\ Submitting(a)' = Submitting(a)
    BY Zenon, <2>1 DEF Willing, Submitting, Working
  <2>3. /\ Cardinality(Willing(a)) \in Nat /\ Cardinality(Submitting(a)) \in Nat
        /\ Cardinality(Willing(a)') = Cardinality(Willing(a)) + 1
    BY Zenon, <2>2, WillingFinite, FS_AddElement
  <2>4. Len(external[a]) \in Nat /\ Known' = Known /\ faults \in Nat /\ faults' \in Nat
    BY SMTT(20), <1>t, <2>1 DEF RunTypeOK, Known
  <2>5. CASE (\A f \in Executors : At(f, "idle")) /\ faults' = faults
    <3>1. Willing(a) = {} /\ Submitting(a) = {} /\ OnItsOwn(e)' /\ \A f \in Executors : ~OnItsOwn(f)
      BY Zenon, <2>1, <2>5 DEF Willing, Submitting, OnItsOwn, Working, At
    <3>2. Grace = 0 /\ Grace' = 1
      BY Zenon, <2>1, <3>1 DEF Grace
    <3>3. Paid' = Paid /\ Paid \in Nat
      BY Zenon, <2>4, <2>5, Payments
    <3> QED BY SMTT(20), <2>1, <2>2, <2>3, <2>4, <3>2, <3>3 DEF SubmissionInv
  <2>6. CASE (\E f \in Executors : ~At(f, "idle")) /\ Fault
    <3>1. ~Alone
      BY Zenon, <2>1, <2>6 DEF At, Alone
    <3>2. faults' = faults + 1
      BY Zenon, <2>6 DEF Fault
    <3>3. Paid' = Paid + 2 /\ Paid \in Nat /\ Grace \in {0, 1} /\ Grace' \in {0, 1}
      BY Zenon, <2>4, <3>1, <3>2, Payments
    <3> QED BY SMTT(20), <2>1, <2>2, <2>3, <2>4, <3>3 DEF SubmissionInv
  <2> QED BY Zenon, <1>2, <2>5, <2>6 DEF Begin
<1>3. ASSUME NEW e \in Executors, CreateRunFails(e)
      PROVE  SubmissionInv(a)'
  <2>1. /\ UNCHANGED <<handle, external, current>> /\ pc'[e] = "error" /\ pc[e] = "idle"
        /\ \A f \in Executors \ {e} : pc'[f] = pc[f]
    BY Zenon, <1>3, <1>t DEF CreateRunFails, At, Goto, MemoryType, store, runtime, cursor
  <2>2. Willing(a)' \subseteq Willing(a) /\ Submitting(a)' \subseteq Submitting(a)
    BY Zenon, <2>1 DEF Willing, Submitting, Working
  <2>3. faults' = faults + 1 /\ faults' # faults
    BY <1>3 DEF CreateRunFails, Fault, RunIInv, RunTypeOK
  <2>4. handle' = handle /\ Len(external'[a]) = Len(external[a])
    BY Zenon, <2>1
  <2> QED BY Zenon, <1>t, <2>2, <2>3, <2>4, QuietCounts
<1>4. ASSUME NEW e \in Executors, Cancel(e)
      PROVE  SubmissionInv(a)'
  <2>1. /\ UNCHANGED <<handle, external, pc, current, settled>> /\ pc[e] # "idle"
        /\ \A f \in Executors \ {e} : cancelled'[f] = cancelled[f]
    BY Zenon, <1>4, <1>t DEF Cancel, At, FlagType, store, runtime, cursor, queue
  <2>2. Willing(a)' \subseteq Willing(a) /\ Submitting(a)' \subseteq Submitting(a)
    BY Zenon, <2>1 DEF Willing, Submitting, Working
  <2>3. CASE Fault
    <3>1. faults' = faults + 1 /\ faults' # faults
      BY <2>3 DEF Fault, RunIInv, RunTypeOK
    <3>2. handle' = handle /\ Len(external'[a]) = Len(external[a])
      BY Zenon, <2>1
    <3> QED BY Zenon, <1>t, <2>2, <3>1, <3>2, QuietCounts
  <2>4. CASE (settled # "no" \/ \E f \in Executors \ {e} : ~At(f, "idle")) /\ faults' = faults
    <3>1. ASSUME settled # "no" PROVE Grace' = Grace
      BY Zenon, <2>1, <3>1 DEF Grace
    <3>2. ASSUME NEW f \in Executors \ {e}, ~At(f, "idle") PROVE Grace' = Grace
      <4>1. \A g \in Executors : ~OnItsOwn(g) /\ ~OnItsOwn(g)'
        BY Zenon, <2>1, <3>2 DEF OnItsOwn, At
      <4> QED BY Zenon, <4>1 DEF Grace
    <3>3. Grace' = Grace
      BY Zenon, <2>4, <3>1, <3>2
    <3>4. handle' = handle /\ Len(external'[a]) = Len(external[a])
      BY Zenon, <2>1
    <3> QED BY Zenon, <1>t, <2>2, <2>4, <3>3, <3>4, QuietCounts
  <2> QED BY Zenon, <1>4, <2>3, <2>4 DEF Cancel
<1>5. ASSUME NEW D \in SUBSET Executors, Crash(D)
      PROVE  SubmissionInv(a)'
  <2>1. /\ UNCHANGED <<handle, external>>
        /\ \A f \in Executors : pc'[f] = "idle" \/ (pc'[f] = pc[f] /\ current'[f] = current[f])
    BY Zenon, <1>5 DEF Crash, Forget, store
  <2>2. Willing(a)' \subseteq Willing(a) /\ Submitting(a)' \subseteq Submitting(a)
    BY Zenon, <2>1 DEF Willing, Submitting, Working
  <2>3. faults' = faults + 1 /\ faults' # faults
    BY <1>5 DEF Crash, Fault, RunIInv, RunTypeOK
  <2>4. handle' = handle /\ Len(external'[a]) = Len(external[a])
    BY Zenon, <2>1
  <2> QED BY Zenon, <1>t, <2>2, <2>3, <2>4, QuietCounts
<1>6. ASSUME NEW b \in Activities, NEW i \in JobsOf(b), JobMoves(b, i)
      PROVE  SubmissionInv(a)'
  <2>1. UNCHANGED <<handle, pc, current, cancelled, settled, faults>>
    BY Zenon, <1>6 DEF JobMoves, store, queue, cursor
  <2>2. Willing(a)' = Willing(a) /\ Submitting(a)' = Submitting(a) /\ Grace' = Grace
    BY Zenon, <2>1 DEF Willing, Submitting, Grace, OnItsOwn
  <2>3. PICK state \in {"succeeded", "failed", "retrying"} :
            Live(external[b][i]) /\ external' = [external EXCEPT ![b][i] = state]
    BY Zenon, <1>6 DEF JobMoves, Live
  <2>4. state \in JobStates
    BY Zenon DEF JobStates
  <2>5. Len(external'[a]) = Len(external[a])
    BY Zenon, <1>t, <2>3, <2>4, MovedJobGrows
  <2> QED BY Zenon, <1>t, <2>1, <2>2, <2>5, QuietCounts
<1> QED BY Zenon, <1>1, <1>2, <1>3, <1>4, <1>5, <1>6 DEF RunNext, JobStep

-----------------------------------------------------------------------------
(* Outcomes *)

(* Where there is no executor nothing is settled.                            *)
LEMMA Deserted ==
    ASSUME RunIInv, OutcomesAgree, RunNext, Executors = {}
    PROVE  OutcomesAgree'
<1>1. PICK a \in Activities : JobStep(a)
  <2>1. \A D \in SUBSET Executors : ~Crash(D)
    BY Zenon DEF Crash
  <2> QED BY Zenon, <2>1 DEF RunNext
<1>2. UNCHANGED <<runStatus, settled, unrecorded>>
  BY Zenon, <1>1 DEF JobStep, JobMoves, store, queue
<1> QED BY Zenon, <1>2 DEF OutcomesAgree, Alone

(* An executor that is alone writes the outcome of the run before it reports *)
(* to the queue, and nobody writes another one afterwards.                   *)
LEMMA OutcomeStep ==
    ASSUME RunIInv, OutcomeInv, OutcomesAgree, RunNext
    PROVE  OutcomeInv' /\ OutcomesAgree'
<1>a. Alone' = Alone
  BY Zenon DEF Alone
<1> SUFFICES ASSUME Alone, NEW e \in Executors
             PROVE  /\ settled' # "no" => pc'[e] = "idle"
                    /\ pc'[e] = "ok" => runStatus' = "completed"
                    /\ pc'[e] = "error" => unrecorded' \/ runStatus' = "failed"
                    /\ settled' = "succeeded" => runStatus' = "completed"
                    /\ settled' = "failed" /\ ~unrecorded' => runStatus' = "failed"
  <2>1. CASE Executors # {}
    BY Zenon, <1>a, <2>1 DEF OutcomeInv, OutcomesAgree
  <2>2. CASE Executors = {}
    BY Zenon, <1>a, <2>2, Deserted DEF OutcomeInv, OutcomesAgree
  <2> QED BY Zenon, <2>1, <2>2
<1>b. /\ settled # "no" => pc[e] = "idle"
      /\ pc[e] = "ok" => runStatus = "completed"
      /\ pc[e] = "error" => unrecorded \/ runStatus = "failed"
      /\ settled = "succeeded" => runStatus = "completed"
      /\ settled = "failed" /\ ~unrecorded => runStatus = "failed"
  BY Zenon DEF OutcomeInv, OutcomesAgree
<1>t. MemoryType
  BY Zenon DEF RunIInv, RunTypeOK, MemoryType
<1>1. CASE ExecutorStep(e)
  <2>1. Concludes(e) /\ pc[e] # "idle"
    BY Zenon, <1>1, StepsConclude, StepsMoveAlone DEF RunIInv, MovesAlone
  <2>2. CASE settled' = settled
    BY Zenon, <1>b, <2>1, <2>2 DEF Concludes
  <2>3. CASE settled' # settled
    <3>1. pc'[e] = "idle" /\ runStatus' = runStatus /\ unrecorded' = unrecorded
      BY Zenon, <2>1, <2>3 DEF Concludes
    <3>2. \/ pc[e] = "ok" /\ settled' = "succeeded"
          \/ pc[e] = "error" /\ settled' = "failed"
      BY Zenon, <2>1, <2>3 DEF Concludes
    <3> QED BY <1>b, <3>1, <3>2
  <2> QED BY Zenon, <2>2, <2>3
<1>2. CASE Begin(e)
  BY Zenon, <1>2, <1>t DEF Begin, At, Goto, MemoryType
<1>3. CASE CreateRunFails(e)
  BY Zenon, <1>3, <1>t DEF CreateRunFails, At, Goto, MemoryType
<1>4. CASE Cancel(e)
  BY Zenon, <1>4, <1>b DEF Cancel, store, queue
<1>5. ASSUME NEW D \in SUBSET Executors, Crash(D)
      PROVE  /\ UNCHANGED <<runStatus, settled, unrecorded>>
             /\ pc'[e] = "idle" \/ pc'[e] = pc[e]
  BY Zenon, <1>5 DEF Crash, Forget, store, queue
<1>6. ASSUME NEW a \in Activities, JobStep(a)
      PROVE  UNCHANGED <<runStatus, settled, unrecorded, pc>>
  BY Zenon, <1>6 DEF JobStep, JobMoves, store, queue
<1>7. CASE (\E D \in SUBSET Executors : Crash(D)) \/ \E a \in Activities : JobStep(a)
  <2>1. /\ UNCHANGED <<runStatus, settled, unrecorded>>
        /\ pc'[e] = "idle" \/ pc'[e] = pc[e]
    BY Zenon, <1>5, <1>6, <1>7
  <2> QED BY Zenon, <1>b, <2>1
<1>8. \A f \in Executors : f = e
  BY Zenon DEF Alone
<1> QED BY Zenon, <1>1, <1>2, <1>3, <1>4, <1>7, <1>8 DEF RunNext

-----------------------------------------------------------------------------
(* The theorems *)

(* Nothing is submitted or settled before the first attempt.                 *)
LEMMA RunInitCounts == RunInit => CountIInv
<1> SUFFICES ASSUME RunInit PROVE CountIInv
  BY Zenon
<1>1. RunIInv
  BY Zenon, RunInitIInv
<1>2. \A e \in Executors : KnownInv(e)
  BY Zenon DEF RunInit, KnownInv
<1>3. ASSUME NEW a \in Activities PROVE SubmissionInv(a)
  <2>1. a \notin Known /\ Willing(a) = {}
    BY Zenon DEF RunInit, Known, Willing, Working
  <2>2. Len(external[a]) = 0 /\ Cardinality(Willing(a)) = 0
    <3>1. Len(external[a]) = 0
      BY DEF RunInit
    <3> QED BY Zenon, <2>1, <3>1, FS_EmptySet
  <2>3. Paid \in Nat /\ Grace \in {0, 1}
    BY Payments DEF RunInit, Paid, Grace
  <2> QED BY <2>1, <2>2, <2>3 DEF SubmissionInv
<1>4. OutcomeInv /\ OutcomesAgree
  BY Zenon DEF RunInit, OutcomeInv, OutcomesAgree
<1> QED BY Zenon, <1>1, <1>2, <1>3, <1>4 DEF CountIInv

(* Every step keeps the books.                                               *)
LEMMA RunNextCounts == CountIInv /\ [RunNext]_runVars => CountIInv'
<1> SUFFICES ASSUME CountIInv, [RunNext]_runVars PROVE CountIInv'
  BY Zenon
<1>1. RunIInv /\ RunIInv' /\ RunTypeOK'
  BY Zenon, RunNextIInv DEF CountIInv, RunIInv
<1>2. CASE RunNext
  <2>1. Known \subseteq Known'
    BY Zenon, <1>1, <1>2, HandlesStay DEF CountIInv
  <2>2. \A e \in Executors : KnownInv(e)'
    BY Zenon, <1>1, <1>2, <2>1, KnownInvStep DEF CountIInv
  <2>3. \A a \in Activities : SubmissionInv(a)'
    BY Zenon, <1>1, <1>2, <2>1, SubmissionStep DEF CountIInv
  <2>4. OutcomeInv' /\ OutcomesAgree'
    BY Zenon, <1>1, <1>2, OutcomeStep DEF CountIInv
  <2> QED BY Zenon, <1>1, <2>2, <2>3, <2>4 DEF CountIInv
<1>3. CASE UNCHANGED runVars
  <2> USE <1>3 DEF runVars, store, runtime, queue, maps, cursor
  <2>1. \A e \in Executors : KnownInv(e)'
    BY Zenon DEF CountIInv, KnownInv, Known
  <2>2. /\ Known' = Known /\ Paid' = Paid /\ Grace' = Grace
        /\ \A a \in Activities : Willing(a)' = Willing(a) /\ Submitting(a)' = Submitting(a)
    BY Zenon DEF Known, Paid, Grace, Alone, OnItsOwn, Willing, Submitting
  <2>3. \A a \in Activities : SubmissionInv(a)'
    BY Zenon, <2>2 DEF CountIInv, SubmissionInv
  <2>4. OutcomeInv' /\ OutcomesAgree'
    BY Zenon DEF CountIInv, OutcomeInv, OutcomesAgree, Alone
  <2> QED BY Zenon, <1>1, <2>1, <2>3, <2>4 DEF CountIInv
<1> QED BY Zenon, <1>2, <1>3

(* The books are kept in every run.                                          *)
LEMMA RunCounts == RunSpec => []CountIInv
  BY RunInitCounts, RunNextCounts, PTL DEF RunSpec

(* An activity is given to the runtime once over all attempts of a run, plus *)
(* once for every fault, or twice where a fault is a lease that ran out      *)
(* (controller.go:53-60): for any graph, runtimes and number of executors.   *)
THEOREM SubmissionsAlwaysBounded == RunSpec => []SubmissionsBounded
<1>1. CountIInv => SubmissionsBounded
  <2> SUFFICES ASSUME CountIInv, NEW a \in Activities
               PROVE  Len(external[a]) <= 1 + Paid
    BY Zenon DEF SubmissionsBounded, Paid
  <2>1. faults \in Nat /\ Len(external[a]) \in Nat
    BY DEF CountIInv, RunIInv, RunTypeOK
  <2>2. Paid \in Nat /\ Grace \in {0, 1}
    <3>1. CASE Alone
      BY <2>1, <3>1 DEF Paid, Grace
    <3>2. CASE ~Alone
      BY <2>1, <3>2 DEF Paid, Grace
    <3> QED BY Zenon, <3>1, <3>2
  <2>3. Cardinality(Willing(a)) \in Nat /\ Cardinality(Submitting(a)) \in Nat
    BY Zenon, WillingFinite
  <2>4. SubmissionInv(a)
    BY Zenon DEF CountIInv
  <2> QED BY <2>1, <2>2, <2>3, <2>4 DEF SubmissionInv
<1> QED BY <1>1, RunCounts, PTL

(* A run whose lease does not run out ends as its queue job does             *)
(* (supervisor.go:53-73 with eventloop.go:112-118), unless its outcome could *)
(* not be written.                                                           *)
THEOREM OutcomesAlwaysAgree == RunSpec => []OutcomesAgree
<1>1. CountIInv => OutcomesAgree
  BY Zenon DEF CountIInv
<1> QED BY <1>1, RunCounts, PTL
==============================================================================
