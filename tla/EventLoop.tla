----------------------------- MODULE EventLoop -----------------------------
(***************************************************************************)
(* The event loop of internal/controlplane/eventloop/eventloop.go on the   *)
(* job queue: server processes that drain the queue into a bounded number  *)
(* of handler goroutines, renew the leases of running handlers, settle     *)
(* jobs when handlers return, shut down, crash and restart.                *)
(*                                                                         *)
(* A loop is one server process and is its own lease owner.  A restarted   *)
(* process keeps its identity: the owner is hostname-pid                   *)
(* (cmd/server/events.go:34-35), which a container reuses.  The owner is   *)
(* that of the process, not of the handler.                                *)
(*                                                                         *)
(* A slot is a place in the semaphore together with the handler goroutine  *)
(* that holds it.  What a handler does is left open: it returns, with or   *)
(* without an error, whenever it likes.                                    *)
(***************************************************************************)
EXTENDS JobQueue, Functions

CONSTANTS
    Concurrency,  \* Config.Concurrency, the capacity of the semaphore
    MaxFaults     \* bound: crashes, shutdowns and database errors

ASSUME LoopAssumption ==
    /\ IsFiniteSet(Owners)
    /\ Concurrency \in Nat \ {0}
    /\ Concurrency <= MaxBatch
    /\ MaxFaults \in Nat

Slots == Owners \X (1..Concurrency)

VARIABLES
    loop,     \* where the goroutine of Run is
    wakeUp,   \* does the wakeUp channel hold a token
    pc,       \* where the handler goroutine of a slot is
    work,     \* the job a slot handles
    attempt,  \* job.Attempts as the slot leased it
    since,    \* time since the stamp the slot's lease was last computed from
    faults    \* how many faults happened

loopVars == <<loop, wakeUp, pc, work, attempt, since, faults>>
vars == <<queueVars, loopVars>>

LoopStates == {"down", "draining", "selecting", "stopping"}

\* "running": Dispatch, with the lease kept alive; "cancelled": Dispatch, with
\* the job's context cancelled; "succeeded", "failed": Dispatch has returned.
SlotStates == {"free", "running", "cancelled", "succeeded", "failed"}

Busy(s) == pc[s] # "free"
Free(l) == {s \in Slots : s[1] = l /\ pc[s] = "free"}

(* The variables of the loops have values of their types, and those of the   *)
(* queue have theirs.                                                        *)
LoopTypeOK ==
    /\ QueueTypeOK
    /\ loop \in [Owners -> LoopStates]
    /\ wakeUp \in [Owners -> BOOLEAN]
    /\ pc \in [Slots -> SlotStates]
    /\ work \in [Slots -> Jobs \cup {NoJob}]
    /\ attempt \in [Slots -> Nat]
    /\ since \in [Slots -> Nat]
    /\ faults \in Nat

LoopInit ==
    /\ QueueInit
    /\ loop = [l \in Owners |-> "down"]
    /\ wakeUp = [l \in Owners |-> FALSE]
    /\ pc = [s \in Slots |-> "free"]
    /\ work = [s \in Slots |-> NoJob]
    /\ attempt = [s \in Slots |-> 0]
    /\ since = [s \in Slots |-> 0]
    /\ faults = 0

-----------------------------------------------------------------------------
(* The goroutine of Run *)

Start_ReleasesLeases(l) ==
    /\ loop[l] = "down"
    /\ loop' = [loop EXCEPT ![l] = "draining"]
    /\ wakeUp' = [wakeUp EXCEPT ![l] = FALSE]
    /\ status' = [j \in Jobs |-> IF Holds(j, l) THEN "pending" ELSE status[j]]
    /\ lease' = [j \in Jobs |-> IF Holds(j, l) THEN NoLease ELSE lease[j]]
    /\ UNCHANGED <<availableAt, attempts, answer, expiries, pc, work, attempt, since, faults>>

\* Run starts with a drain; the wakeUp channel is new.
Start(l) ==
    /\ loop[l] = "down"
    /\ loop' = [loop EXCEPT ![l] = "draining"]
    /\ wakeUp' = [wakeUp EXCEPT ![l] = FALSE]
    /\ UNCHANGED <<queueVars, pc, work, attempt, since, faults>>

\* A handler goroutine for every job of the leased batch.  The semaphore was
\* read before the transaction and slots only become free meanwhile, so the
\* limit may be smaller than the number of slots that are free by now.
Drain(l) ==
    /\ loop[l] = "draining"
    /\ loop' = [loop EXCEPT ![l] = "selecting"]
    /\ \E limit \in 1..Concurrency : \E S \in Batches(limit) :
          /\ limit <= Cardinality(Free(l))
          /\ S # {}
          /\ LeaseBatch(S, l)
          /\ \E T \in SUBSET Free(l) : \E jobOf \in Bijection(T, S) :
                /\ pc' = [s \in Slots |-> IF s \in T THEN "running" ELSE pc[s]]
                /\ work' = [s \in Slots |-> IF s \in T THEN jobOf[s] ELSE work[s]]
                /\ attempt' = [s \in Slots |-> IF s \in T THEN attempts'[jobOf[s]] ELSE attempt[s]]
                /\ since' = [s \in Slots |-> IF s \in T THEN 0 ELSE since[s]]
    /\ UNCHANGED <<wakeUp, faults>>

\* The semaphore is full, or there is nothing to lease.
DrainNothing(l) ==
    /\ loop[l] = "draining"
    /\ Free(l) = {} \/ Eligible = {}
    /\ loop' = [loop EXCEPT ![l] = "selecting"]
    /\ UNCHANGED <<queueVars, wakeUp, pc, work, attempt, since, faults>>

TickerFires_NoRelease(l) ==
    /\ loop[l] = "selecting"
    /\ loop' = [loop EXCEPT ![l] = "draining"]
    /\ UNCHANGED <<queueVars, wakeUp, pc, work, attempt, since, faults>>

\* case <-ticker.C: leases that ran out are released, then a drain.
TickerFires(l) ==
    /\ loop[l] = "selecting"
    /\ ReleaseExpired
    /\ loop' = [loop EXCEPT ![l] = "draining"]
    /\ UNCHANGED <<wakeUp, pc, work, attempt, since, faults>>

\* case <-l.wakeUp
WakeUp(l) ==
    /\ loop[l] = "selecting"
    /\ wakeUp[l]
    /\ wakeUp' = [wakeUp EXCEPT ![l] = FALSE]
    /\ loop' = [loop EXCEPT ![l] = "draining"]
    /\ UNCHANGED <<queueVars, pc, work, attempt, since, faults>>

\* Lease or ReleaseExpired fails: its error is ignored.
QueueFails(l) ==
    /\ faults < MaxFaults
    /\ faults' = faults + 1
    /\ \/ loop[l] = "draining" /\ loop' = [loop EXCEPT ![l] = "selecting"]
       \/ loop[l] = "selecting" /\ loop' = [loop EXCEPT ![l] = "draining"]
    /\ UNCHANGED <<queueVars, wakeUp, pc, work, attempt, since>>

\* The context of the process is cancelled: no more drains, every job's
\* context is cancelled with it.
Shutdown(l) ==
    /\ faults < MaxFaults
    /\ faults' = faults + 1
    /\ loop[l] \in {"draining", "selecting"}
    /\ loop' = [loop EXCEPT ![l] = "stopping"]
    /\ pc' = [s \in Slots |-> IF s[1] = l /\ pc[s] = "running" THEN "cancelled" ELSE pc[s]]
    /\ UNCHANGED <<queueVars, wakeUp, work, attempt, since>>

\* Run waits for the handlers (running.Wait) and returns.
Stopped(l) ==
    /\ loop[l] = "stopping"
    /\ \A s \in Slots : s[1] = l => ~Busy(s)
    /\ loop' = [loop EXCEPT ![l] = "down"]
    /\ UNCHANGED <<queueVars, wakeUp, pc, work, attempt, since, faults>>

\* The process dies with its handlers: killed, or main returned first, which
\* does not wait for Run (cmd/server/processes.go:17-23).
Crash(l) ==
    /\ faults < MaxFaults
    /\ faults' = faults + 1
    /\ loop[l] # "down"
    /\ loop' = [loop EXCEPT ![l] = "down"]
    /\ pc' = [s \in Slots |-> IF s[1] = l THEN "free" ELSE pc[s]]
    /\ work' = [s \in Slots |-> IF s[1] = l THEN NoJob ELSE work[s]]
    /\ attempt' = [s \in Slots |-> IF s[1] = l THEN 0 ELSE attempt[s]]
    /\ since' = [s \in Slots |-> IF s[1] = l THEN 0 ELSE since[s]]
    /\ UNCHANGED <<queueVars, wakeUp>>

-----------------------------------------------------------------------------
(* The goroutines of a slot: keepLeaseAlive and handle *)

\* A tick of the keep-alive ticker is handled.  The new expiry counts from the
\* time the tick was sent, age units ago; it is written in local time.
Renew(s, age) ==
    /\ pc[s] = "running"
    /\ age = 0 \/ age < since[s]
    /\ RenewLease(work[s], s[1], LeaseDuration + UtcOffset - age)
    /\ since' = [since EXCEPT ![s] = age]
    /\ UNCHANGED <<loop, wakeUp, pc, work, attempt, faults>>

\* RenewLease affects no row or the database fails: the job is cancelled and
\* the lease is not renewed any more.
RenewFails(s) ==
    /\ pc[s] = "running"
    /\ \/ ~Holds(work[s], s[1]) /\ faults' = faults
       \/ faults < MaxFaults /\ faults' = faults + 1
    /\ pc' = [pc EXCEPT ![s] = "cancelled"]
    /\ UNCHANGED <<queueVars, loop, wakeUp, work, attempt, since>>

\* Dispatch returns; the keep-alive goroutine is stopped and awaited.
Return(s, result) ==
    /\ pc[s] \in {"running", "cancelled"}
    /\ pc' = [pc EXCEPT ![s] = result]
    /\ UNCHANGED <<queueVars, loop, wakeUp, work, attempt, since, faults>>

\* The handler goroutine ends: the semaphore is released, then Notify.
Leave(s) ==
    /\ pc' = [pc EXCEPT ![s] = "free"]
    /\ work' = [work EXCEPT ![s] = NoJob]
    /\ attempt' = [attempt EXCEPT ![s] = 0]
    /\ since' = [since EXCEPT ![s] = 0]
    /\ wakeUp' = [wakeUp EXCEPT ![s[1]] = TRUE]

Smaller(a, b) == IF a < b THEN a ELSE b

\* handle after Dispatch: Complete, or Retry after a growing delay.
Settle(s) ==
    /\ pc[s] \in {"succeeded", "failed"}
    /\ loop[s[1]] # "stopping"
    /\ Holds(work[s], s[1])
    /\ \/ pc[s] = "succeeded" /\ Complete(work[s], s[1])
       \/ pc[s] = "failed" /\ Retry(work[s], s[1], RetryDelay(Smaller(attempt[s] - 1, MaxShift)))
    /\ Leave(s)
    /\ UNCHANGED <<loop, faults>>

\* The lease is not held any more, the context is cancelled or the database
\* fails: the error of Complete or Retry is ignored.
SettleFails(s) ==
    /\ pc[s] \in {"succeeded", "failed"}
    /\ \/ (~Holds(work[s], s[1]) \/ loop[s[1]] = "stopping") /\ faults' = faults
       \/ faults < MaxFaults /\ faults' = faults + 1
    /\ Leave(s)
    /\ UNCHANGED <<queueVars, loop>>

-----------------------------------------------------------------------------
(* Time.  MaxLag bounds the time from the stamp a lease was computed from to *)
(* the next renewal, or to the end of the handler when it is not renewed any *)
(* more.  MaxLag < LeaseDuration says that goroutines and the database are   *)
(* timely; a larger MaxLag allows renewals that come too late.               *)

TimePasses ==
    /\ \A s \in Slots : Busy(s) => since[s] < MaxLag
    /\ Tick
    /\ since' = [s \in Slots |-> IF Busy(s) THEN since[s] + 1 ELSE since[s]]
    /\ UNCHANGED <<loop, wakeUp, pc, work, attempt, faults>>

\* A client of the API publishes a job (no Notify: the ticker finds it).
Submit(j) == Publish(j) /\ UNCHANGED loopVars

-----------------------------------------------------------------------------

LoopStep(l) ==
    \/ Start(l) \/ Drain(l) \/ DrainNothing(l) \/ TickerFires(l) \/ WakeUp(l)
    \/ QueueFails(l) \/ Shutdown(l) \/ Stopped(l) \/ Crash(l)

SlotStep(s) ==
    \/ \E age \in 0..MaxLag : Renew(s, age)
    \/ RenewFails(s)
    \/ \E result \in {"succeeded", "failed"} : Return(s, result)
    \/ Settle(s)
    \/ SettleFails(s)

LoopNext ==
    \/ \E l \in Owners : LoopStep(l)
    \/ \E s \in Slots : SlotStep(s)
    \/ \E j \in Jobs : Submit(j)
    \/ TimePasses

LoopSpec == LoopInit /\ [][LoopNext]_vars

(* Goroutines that can run do run, time passes, a process that is down is    *)
(* started again, and handlers return.  Nothing is assumed of clients, of    *)
(* faults or of the result of a handler.                                     *)
Fairness ==
    /\ \A l \in Owners :
          /\ WF_vars(Start(l))
          /\ WF_vars(Drain(l) \/ DrainNothing(l))
          /\ WF_vars(TickerFires(l))
          /\ WF_vars(WakeUp(l))
          /\ WF_vars(Stopped(l))
    /\ \A s \in Slots :
          /\ WF_vars(\E result \in {"succeeded", "failed"} : Return(s, result))
          /\ WF_vars(Settle(s) \/ SettleFails(s))
    /\ WF_vars(TimePasses)

FairLoopSpec == LoopSpec /\ Fairness

-----------------------------------------------------------------------------
(* Properties *)

(* Renewals are never later than the lease they renew, and a renewed stamp   *)
(* does not look older than it is.                                           *)
Timely == MaxLag < LeaseDuration /\ UtcOffset >= 0

(* While a handler is at work its job stays leased to its process, under the *)
(* attempt the handler was started for, and the lease does not look expired  *)
(* to the statement that releases leases: keepLeaseAlive (eventloop.go:      *)
(* 121-140) does its work.  Holds for timely loops on a server that is not   *)
(* west of UTC.                                                              *)
HandlersHoldLease ==
    \A s \in Slots : Busy(s) =>
        /\ Holds(work[s], s[1])
        /\ lease[work[s]].expires > 0
        /\ attempt[s] = attempts[work[s]]

(* A handler whose context was not cancelled works on a leased job:          *)
(* eventloop_test.go:139-141 asserts it of a handler that outlives the first *)
(* lease.                                                                    *)
RunningIsLeased == \A s \in Slots : pc[s] = "running" => status[work[s]] = "leased"

(* No two handlers work on the same job at the same time, neither of one     *)
(* process nor of two, across crashes, shutdowns and restarts                *)
(* (eventloop.go:80-119): what the lease is for.                             *)
ExclusiveHandling ==
    \A s, t \in Slots : Busy(s) /\ Busy(t) /\ work[s] = work[t] => s = t

HandlersOf(j) == {s \in Slots : Busy(s) /\ work[s] = j}

(* Even when renewals come too late, every handler that works on a job       *)
(* beside another one is paid for by a lease that ran out: late calls of a   *)
(* former holder (eventloop.go:112-118), which the queue cannot tell from    *)
(* those of the new one, do not multiply the handlers of a job.              *)
HandlersBounded == \A j \in Jobs : Cardinality(HandlersOf(j)) <= 1 + expiries[j]

(* Every job that was published is completed or failed in the end, whatever  *)
(* crashes, shutdowns and database errors happened before (eventloop.go:     *)
(* 56-119): a wake-up that was lost, a lease nobody gives back or an outcome *)
(* that could not be recorded delays a job but does not strand it.           *)
EventuallySettled ==
    \A j \in Jobs : (status[j] = "pending") ~> (status[j] \in Settled)

=============================================================================
