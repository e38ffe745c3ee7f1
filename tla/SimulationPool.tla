--------------------------- MODULE SimulationPool ---------------------------
(* provider/simgrid/process_executor.go: calls of Execute share a semaphore, *)
(* write their input into a directory of their own, run the simulator there  *)
(* as a child process with a time limit and read the trace it leaves.        *)
EXTENDS Integers, FiniteSets

CONSTANTS
    Calls,         \* calls of ProcessExecutor.Execute
    RunOf,         \* the run each call is for; a retried run has several
    Concurrent,    \* ProcessConfig.MaxConcurrent, as configured
    MaxMishaps     \* bound: failing steps and cancellations

\* NewProcessExecutor
Permits == IF Concurrent < 1 THEN 1 ELSE Concurrent

VARIABLES
    stage,      \* where each call is
    permits,       \* messages in the semaphore's channel
    directory,  \* of each call: the call that made it, or none
    child,      \* the process of each call
    written,    \* [directories -> the call whose process wrote result.json there]
    trace,      \* what each call returned: the call whose trace it is, or none
    canceled,   \* calls whose context is done
    mishaps

poolVars == <<stage, permits, directory, child, written, trace, canceled, mishaps>>

NoCall == "none"

ASSUME PoolAssumption ==
    /\ IsFiniteSet(Calls) /\ NoCall \notin Calls
    /\ Concurrent \in Int /\ MaxMishaps \in Nat

Misfortune == mishaps < MaxMishaps /\ mishaps' = mishaps + 1

PoolInit ==
    /\ stage = [c \in Calls |-> "idle"]
    /\ permits = 0
    /\ directory = [c \in Calls |-> NoCall]
    /\ child = [c \in Calls |-> "none"]
    /\ written = [c \in Calls |-> NoCall]
    /\ trace = [c \in Calls |-> NoCall]
    /\ canceled = {}
    /\ mishaps = 0

In(c, s) == stage[c] = s
Move(c, s) == stage' = [stage EXCEPT ![c] = s]

-----------------------------------------------------------------------------
Simulate(c) ==
    /\ In(c, "idle") /\ Move(c, "acquiring")
    /\ UNCHANGED <<permits, directory, child, written, trace, canceled, mishaps>>

\* The semaphore's channel has room; select may choose this even for a context
\* that is done.
Acquire(c) ==
    /\ In(c, "acquiring") /\ permits < Permits
    /\ permits' = permits + 1 /\ Move(c, "bundling")
    /\ UNCHANGED <<directory, child, written, trace, canceled, mishaps>>

GiveUp(c) ==
    /\ In(c, "acquiring") /\ c \in canceled
    /\ Move(c, "returned")
    /\ UNCHANGED <<permits, directory, child, written, trace, canceled, mishaps>>

\* The name of the directory ends in an identifier made for the call.
DirectoryOf_Run(c) == CHOOSE d \in Calls : RunOf[d] = RunOf[c]
DirectoryOf(c) == c

createBundle(c) ==
    /\ In(c, "bundling")
    /\ \/ /\ directory' = [directory EXCEPT ![c] = DirectoryOf(c)]
          /\ child' = [child EXCEPT ![c] = "alive"]
          /\ Move(c, "running") /\ UNCHANGED mishaps
       \/ /\ Misfortune
          /\ Move(c, "returning") /\ UNCHANGED <<directory, child>>
    /\ UNCHANGED <<permits, written, trace, canceled>>

\* The simulator writes its result and exits, fails, or never ends.
ChildEnds(c) ==
    /\ child[c] = "alive"
    /\ \/ /\ child' = [child EXCEPT ![c] = "succeeded"]
          /\ written' = [written EXCEPT ![directory[c]] = c] /\ UNCHANGED mishaps
       \/ Misfortune /\ child' = [child EXCEPT ![c] = "failed"] /\ UNCHANGED written
       \/ Misfortune /\ child' = [child EXCEPT ![c] = "hangs"] /\ UNCHANGED written
    /\ UNCHANGED <<stage, permits, directory, trace, canceled>>

\* CommandContext kills the child when the time limit is over or the caller's
\* context is done, and Run returns once the child is gone.
KillChild_Abandons(c) ==
    /\ In(c, "running") /\ child[c] \in {"alive", "hangs"}
    /\ child[c] = "hangs" \/ c \in canceled
    /\ Move(c, "returning") /\ UNCHANGED child
    /\ UNCHANGED <<permits, directory, written, trace, canceled, mishaps>>
KillChild(c) ==
    /\ In(c, "running") /\ child[c] \in {"alive", "hangs"}
    /\ child[c] = "hangs" \/ c \in canceled
    /\ child' = [child EXCEPT ![c] = "failed"]
    /\ UNCHANGED <<stage, permits, directory, written, trace, canceled, mishaps>>

CommandReturns(c) ==
    /\ In(c, "running") /\ child[c] \in {"succeeded", "failed"}
    /\ Move(c, IF child[c] = "succeeded" THEN "reading" ELSE "returning")
    /\ UNCHANGED <<permits, directory, child, written, trace, canceled, mishaps>>

\* The trace must be of the same run.
readTrace(c) ==
    LET w == written[directory[c]] IN
    /\ In(c, "reading")
    /\ \/ /\ w # NoCall /\ RunOf[w] = RunOf[c]
          /\ trace' = [trace EXCEPT ![c] = w] /\ UNCHANGED mishaps
       \/ Misfortune /\ UNCHANGED trace
    /\ Move(c, "returning")
    /\ UNCHANGED <<permits, directory, child, written, canceled>>

\* The deferred release
ReleasePermit(c) ==
    /\ In(c, "returning")
    /\ permits' = permits - 1 /\ Move(c, "returned")
    /\ UNCHANGED <<directory, child, written, trace, canceled, mishaps>>

\* The lease of the job was lost, or the server shuts down.
CancelCall(c) ==
    /\ c \notin canceled /\ ~In(c, "returned") /\ Misfortune
    /\ canceled' = canceled \cup {c}
    /\ UNCHANGED <<stage, permits, directory, child, written, trace>>

CallStep(c) ==
    \/ Acquire(c) \/ GiveUp(c) \/ createBundle(c) \/ KillChild(c) \/ CommandReturns(c)
    \/ readTrace(c) \/ ReleasePermit(c)

PoolNext == \E c \in Calls : Simulate(c) \/ CallStep(c) \/ ChildEnds(c) \/ CancelCall(c)

PoolSpec == PoolInit /\ [][PoolNext]_poolVars

\* Goroutines run, timers fire, and a child that does not hang ends.
PoolFairness ==
    \A c \in Calls : WF_poolVars(CallStep(c)) /\ WF_poolVars(ChildEnds(c))

FairPoolSpec == PoolSpec /\ PoolFairness

-----------------------------------------------------------------------------
(* Properties *)

(* NewProcessExecutor and Execute: never more simulators run than there are  *)
(* permits, whatever call failed, was canceled or ran out of time before, and *)
(* every permit in use belongs to a call that will return it.                *)
SimulatorsAreBounded ==
    /\ Cardinality({c \in Calls : child[c] \in {"alive", "hangs"}}) <= Permits
    /\ permits = Cardinality({c \in Calls : stage[c] \in {"bundling", "running", "reading", "returning"}})

(* createBundle, readTrace: a call returns the trace of its own simulator,   *)
(* also when an expired lease made a second call for the same run.           *)
TraceIsOwn == \A c \in Calls : trace[c] \in {NoCall, c}

AllReturned == \A c \in Calls : stage[c] \in {"idle", "returned"}

(* acquire, release and the time limit: every call of Execute returns.       *)
CallsReturn == []<>AllReturned
=============================================================================
