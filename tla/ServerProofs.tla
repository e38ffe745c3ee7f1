--------------------------- MODULE ServerProofs ------------------------------
(***************************************************************************)
(* Proofs about the server's queue and loops (JobQueue, EventLoop), its    *)
(* start (Bootstrap) and the index it makes of a storage (StorageIndex),   *)
(* for any number of jobs, owners, servers and faults, any tree and policy.*)
(*                                                                         *)
(* - The loops use the queue only through its operations, so everything    *)
(*   proved of the queue holds of them, and the handlers of timely loops   *)
(*   hold their leases and are alone with their jobs.                      *)
(* - A server acts on a checksum it read some steps before: what it saw    *)
(*   then stays true of the tables, which only grow, though not of the     *)
(*   checksum.                                                             *)
(* - The directories above an entry are a recursive function.  That there  *)
(*   is a function that satisfies the equation, and what it returns, is    *)
(*   shown by the least argument that would be an exception.               *)
(* - The walk of an index is a stack of calls.  Each call is as deep as    *)
(*   the path to its directory is long, an entry is counted after the      *)
(*   directory it is in, and the path to whatever is still to be counted   *)
(*   leads over an entry that is left in some call.                        *)
(***************************************************************************)
EXTENDS EventLoop, Bootstrap, StorageIndex, FiniteSetTheorems, WellFoundedInduction, TLAPS

USE DEF Statuses, Settled

-----------------------------------------------------------------------------
(* The inductive invariant of the queue *)

(* AttemptsBounded is not inductive: from "pending" a job may be leased once *)
(* more, so a pending job must be strictly below the bound, and a row starts *)
(* with no attempts.                                                         *)
AttemptsInv ==
    \A j \in Jobs :
        /\ status[j] = "absent" => attempts[j] = 0
        /\ status[j] = "pending" => attempts[j] + 1 <= MaxAttempts + expiries[j]
        /\ attempts[j] <= MaxAttempts + expiries[j]

(* OneJobPerKey needs to know what an answer is: a row that exists and has   *)
(* the caller's key, and that rows with the same key are one row.            *)
PublishInv ==
    /\ \A j \in Jobs : (status[j] # "absent") => answer[j] = j
    /\ \A j \in Jobs : answer[j] # NoJob =>
            /\ status[answer[j]] # "absent"
            /\ Key[answer[j]] = Key[j]
    /\ \A i, j \in Jobs :
            status[i] # "absent" /\ status[j] # "absent" /\ Key[i] = Key[j] /\ Key[i] # NoKey
                => i = j

QueueIInv == QueueTypeOK /\ LeaseConsistent /\ AttemptsInv /\ PublishInv

-----------------------------------------------------------------------------
(* The initial state, each operation and stuttering keep the invariant *)

(* An empty table satisfies the invariant.                                   *)
LEMMA QueueInitIInv == QueueInit => QueueIInv
BY QueueAssumption DEF QueueInit, QueueIInv, QueueTypeOK, LeaseConsistent, AttemptsInv,
   PublishInv, Leases, NoLease

(* Inserting a row, or being answered with the row that has the key          *)
(* (repository.go:33-69), keeps the invariant.                               *)
LEMMA PublishIInv ==
    ASSUME QueueIInv, NEW j \in Jobs, Publish(j) PROVE QueueIInv'
<1> USE QueueAssumption DEF QueueIInv
<1>1. QueueTypeOK'
  BY DEF Publish, QueueTypeOK, SameKey
<1>2. LeaseConsistent'
  BY DEF Publish, QueueTypeOK, LeaseConsistent, PublishInv
<1>3. AttemptsInv'
  BY DEF Publish, QueueTypeOK, AttemptsInv, PublishInv
<1>4. PublishInv'
  <2>1. CASE SameKey(j) = {} /\ status' = [status EXCEPT ![j] = "pending"]
             /\ answer' = [answer EXCEPT ![j] = j]
    BY SMTT(30), <2>1 DEF QueueTypeOK, PublishInv, SameKey
  <2>2. CASE (\E k \in SameKey(j) : answer' = [answer EXCEPT ![j] = k]) /\ UNCHANGED status
    BY <2>2 DEF QueueTypeOK, PublishInv, SameKey, Publish
  <2> QED BY Zenon, <2>1, <2>2 DEF Publish
<1> QED BY Zenon, <1>1, <1>2, <1>3, <1>4

(* Leasing a set of pending jobs (repository.go:71-133) keeps the invariant. *)
LEMMA LeaseIInv ==
    ASSUME QueueIInv, NEW owner \in Owners, NEW S \in SUBSET Eligible, LeaseBatch(S, owner)
    PROVE QueueIInv'
<1> USE QueueAssumption DEF QueueIInv, LeaseBatch, Eligible
<1>1. QueueTypeOK'
  BY DEF QueueTypeOK, Leases
<1>2. LeaseConsistent'
  BY Zenon DEF QueueTypeOK, LeaseConsistent, NoLease
<1>3. AttemptsInv'
  BY Zenon DEF QueueTypeOK, AttemptsInv
<1>4. PublishInv'
  BY DEF QueueTypeOK, PublishInv
<1> QED BY Zenon, <1>1, <1>2, <1>3, <1>4

(* The holder's operations (repository.go:135-163) keep the invariant.       *)
LEMMA HolderIInv ==
    ASSUME QueueIInv, NEW j \in Jobs, NEW owner \in Owners,
           \/ Complete(j, owner)
           \/ \E expiresAt \in Int : RenewLease(j, owner, expiresAt)
           \/ \E delay \in Nat : Retry(j, owner, delay)
    PROVE QueueIInv'
<1> USE QueueAssumption DEF QueueIInv, Complete, RenewLease, Retry, Holds
<1>1. QueueTypeOK'
  BY SMTT(30) DEF QueueTypeOK, Leases
<1>2. LeaseConsistent'
  BY SMTT(30) DEF QueueTypeOK, LeaseConsistent, NoLease
<1>3. AttemptsInv'
  BY SMTT(30) DEF QueueTypeOK, AttemptsInv
<1>4. PublishInv'
  BY DEF QueueTypeOK, PublishInv
<1> QED BY Zenon, <1>1, <1>2, <1>3, <1>4

(* Cancelling, expiring and the passing of time (repository.go:165-177) keep *)
(* the invariant.                                                            *)
LEMMA ReleaseIInv ==
    ASSUME QueueIInv, (\E j \in Jobs : Cancel(j)) \/ ReleaseExpired \/ Tick
    PROVE QueueIInv'
<1> USE QueueAssumption DEF QueueIInv, Cancel, ReleaseExpired, Tick, Expired, Closer
<1>1. QueueTypeOK'
  BY SMTT(30) DEF QueueTypeOK, Leases, NoLease
<1>2. LeaseConsistent'
  BY SMTT(30) DEF QueueTypeOK, LeaseConsistent, NoLease, Leases
<1>3. AttemptsInv'
  BY SMTT(30) DEF QueueTypeOK, AttemptsInv
<1>4. PublishInv'
  BY DEF QueueTypeOK, PublishInv
<1> QED BY Zenon, <1>1, <1>2, <1>3, <1>4

(* Every step of the queue, or a step that leaves it alone, keeps the        *)
(* invariant.                                                                *)
LEMMA QueueNextIInv == QueueIInv /\ [QueueNext]_queueVars => QueueIInv'
<1> SUFFICES ASSUME QueueIInv, [QueueNext]_queueVars PROVE QueueIInv'
  BY Zenon
<1>1. ASSUME NEW j \in Jobs, Publish(j) PROVE QueueIInv'
  BY Zenon, <1>1, PublishIInv
<1>2. ASSUME NEW owner \in Owners, NEW limit \in 1..MaxBatch, Lease(owner, limit)
      PROVE QueueIInv'
  BY Zenon, <1>2, LeaseIInv DEF Lease, Batches
<1>3. ASSUME NEW j \in Jobs, NEW owner \in Owners, Complete(j, owner) PROVE QueueIInv'
  BY Zenon, <1>3, HolderIInv
<1>4. ASSUME NEW j \in Jobs, NEW owner \in Owners, NEW expiresAt \in Stamps,
             RenewLease(j, owner, expiresAt)
      PROVE QueueIInv'
  <2>1. expiresAt \in Int
    BY QueueAssumption DEF Stamps
  <2> QED BY Zenon, <1>4, <2>1, HolderIInv
<1>5. ASSUME NEW j \in Jobs, NEW owner \in Owners, NEW delay \in Delays, Retry(j, owner, delay)
      PROVE QueueIInv'
  <2>1. delay \in Nat
    BY Zenon, DelayAssumption DEF Delays
  <2> QED BY Zenon, <1>5, <2>1, HolderIInv
<1>6. CASE (\E j \in Jobs : Cancel(j)) \/ ReleaseExpired \/ Tick
  BY Zenon, <1>6, ReleaseIInv
<1>7. CASE UNCHANGED queueVars
  BY Zenon, <1>7 DEF queueVars, QueueIInv, QueueTypeOK, LeaseConsistent, AttemptsInv, PublishInv
<1> QED BY Zenon, <1>1, <1>2, <1>3, <1>4, <1>5, <1>6, <1>7 DEF QueueNext

-----------------------------------------------------------------------------
(* The theorems *)

(* The strengthened invariant holds in every reachable state of the queue.   *)
THEOREM QueueInvariant == QueueSpec => []QueueIInv
BY QueueInitIInv, QueueNextIInv, PTL DEF QueueSpec

(* Every column of queue_jobs keeps a value of its type.                     *)
THEOREM QueueTypeCorrect == QueueSpec => []QueueTypeOK
<1>1. QueueIInv => QueueTypeOK
  BY Zenon DEF QueueIInv
<1> QED BY <1>1, QueueInvariant, PTL

(* A job has a lease exactly while its status is leased                      *)
(* (repository.go:71-177).                                                   *)
THEOREM LeaseConsistency == QueueSpec => []LeaseConsistent
<1>1. QueueIInv => LeaseConsistent
  BY Zenon DEF QueueIInv
<1> QED BY <1>1, QueueInvariant, PTL

(* Whatever the interleaving, a job is leased at most max_attempts times and *)
(* once more for each lease that ran out (repository.go:149-177).            *)
THEOREM AttemptsAreBounded == QueueSpec => []AttemptsBounded
<1>1. QueueIInv => AttemptsBounded
  BY Zenon DEF QueueIInv, AttemptsInv, AttemptsBounded
<1> QED BY <1>1, QueueInvariant, PTL

(* Publishing is idempotent: one key, one job, the same answer to all        *)
(* (repository.go:43-67).                                                    *)
THEOREM PublishIsIdempotent == QueueSpec => []OneJobPerKey
<1>1. QueueIInv => OneJobPerKey
  BY QueueAssumption DEF QueueIInv, QueueTypeOK, PublishInv, OneJobPerKey
<1> QED BY <1>1, QueueInvariant, PTL

(* A settled job never changes again: every UPDATE of repository.go:71-177   *)
(* is guarded by a status that is not a settled one.                         *)
THEOREM SettledIsFinal == QueueSpec => SettledStays
<1>1. QueueIInv /\ [QueueNext]_queueVars =>
        [\A j \in Jobs : status[j] \in Settled =>
            status'[j] = status[j] /\ attempts'[j] = attempts[j] /\ lease'[j] = lease[j]]_queueVars
  <2> SUFFICES ASSUME QueueIInv, QueueNext, NEW j \in Jobs, status[j] \in Settled
               PROVE status'[j] = status[j] /\ attempts'[j] = attempts[j] /\ lease'[j] = lease[j]
    BY Zenon
  <2>0. lease[j] = NoLease
    BY Zenon DEF QueueIInv, LeaseConsistent
  <2>1. CASE \E i \in Jobs : Publish(i)
    BY <2>1, QueueAssumption DEF Publish, QueueIInv, QueueTypeOK, PublishInv
  <2>2. CASE \E owner \in Owners, limit \in 1..MaxBatch : Lease(owner, limit)
    BY <2>2 DEF Lease, Batches, LeaseBatch, Eligible, QueueIInv, QueueTypeOK
  <2>3. CASE \E i \in Jobs, owner \in Owners :
                \/ Complete(i, owner)
                \/ \E expiresAt \in Stamps : RenewLease(i, owner, expiresAt)
                \/ \E delay \in Delays : Retry(i, owner, delay)
    BY Zenon, <2>3 DEF Complete, RenewLease, Retry, Holds, QueueIInv, QueueTypeOK
  <2>4. CASE (\E i \in Jobs : Cancel(i)) \/ ReleaseExpired
    BY Zenon, <2>4 DEF Cancel, ReleaseExpired, Expired, QueueIInv, QueueTypeOK
  <2>5. CASE Tick
    BY <2>5, <2>0 DEF Tick, Closer, NoLease, QueueIInv, QueueTypeOK
  <2> QED BY Zenon, <2>1, <2>2, <2>3, <2>4, <2>5 DEF QueueNext
<1> QED BY <1>1, QueueInvariant, PTL DEF QueueSpec, SettledStays

HIDE DEF Statuses, Settled

-----------------------------------------------------------------------------
(* The inductive invariant of the loops *)

(* A slot has a job exactly while it is busy, under an attempt that was      *)
(* counted when the job was leased.                                          *)
SlotInv ==
    \A s \in Slots :
        /\ Busy(s) => work[s] \in Jobs /\ attempt[s] >= 1
        /\ since[s] <= MaxLag

(* HandlersHoldLease is not inductive: time may pass.  What stays true is    *)
(* that the time left on the lease and the time since its stamp make up the  *)
(* lease's duration, and the latter is bounded by MaxLag.                    *)
LeaseInv ==
    /\ ExclusiveHandling
    /\ \A s \in Slots : Busy(s) =>
        /\ Holds(work[s], s[1])
        /\ lease[work[s]].expires + since[s] >= LeaseDuration
        /\ attempt[s] = attempts[work[s]]

(* HandlersBounded is not inductive either: a job that is pending may be     *)
(* given one more handler.  The lease itself counts for one of those there   *)
(* may be, and every lease that ran out for another.                         *)
Budget(j) == expiries[j] + IF status[j] = "leased" THEN 1 ELSE 0
HandlersInv == \A j \in Jobs : Cardinality(HandlersOf(j)) <= Budget(j)

LoopIInv == LoopTypeOK /\ QueueIInv /\ SlotInv /\ HandlersInv /\ (Timely => LeaseInv)

-----------------------------------------------------------------------------

(* The slots of a loop are those of one process.                             *)
LEMMA SlotOwner == ASSUME NEW s \in Slots PROVE s[1] \in Owners
BY Zenon DEF Slots

(* The handlers of timely loops hold leases that are not expired.            *)
LEMMA HeldNotExpired ==
    ASSUME LoopIInv, Timely, NEW s \in Slots, Busy(s)
    PROVE lease[work[s]].expires > 0 /\ work[s] \notin Expired
<1>1. work[s] \in Jobs /\ since[s] \in Nat /\ since[s] <= MaxLag
  BY Zenon DEF LoopIInv, SlotInv, LoopTypeOK
<1>2. lease[work[s]].expires \in Int
  BY <1>1 DEF LoopIInv, LoopTypeOK, QueueTypeOK, Leases, NoLease
<1>3. lease[work[s]].expires + since[s] >= LeaseDuration
  BY Zenon DEF LoopIInv, LeaseInv
<1>4. lease[work[s]].expires > 0
  BY <1>1, <1>2, <1>3, QueueAssumption DEF Timely
<1> QED BY <1>2, <1>4 DEF Expired

(* The delay of a retry is one of the delays the queue is specified for.     *)
LEMMA SettleDelay ==
    ASSUME NEW n \in Nat, n >= 1 PROVE RetryDelay(Smaller(n - 1, MaxShift)) \in Delays
<1>1. Smaller(n - 1, MaxShift) \in 0..MaxShift
  BY QueueAssumption DEF Smaller
<1> QED BY Zenon, <1>1 DEF Delays

-----------------------------------------------------------------------------
(* The loops implement the queue *)

(* Every step of the loops is a step of the queue or leaves it alone.        *)
LEMMA StepRefines == LoopTypeOK /\ SlotInv /\ [LoopNext]_vars => [QueueNext]_queueVars
<1> SUFFICES ASSUME LoopTypeOK, SlotInv, LoopNext PROVE [QueueNext]_queueVars
  BY Zenon DEF vars
<1>1. ASSUME NEW l \in Owners, LoopStep(l) PROVE [QueueNext]_queueVars
  <2>1. CASE Drain(l)
    <3>1. PICK limit \in 1..Concurrency : \E S \in Batches(limit) : S # {} /\ LeaseBatch(S, l)
      BY Zenon, <2>1 DEF Drain
    <3>2. limit \in 1..MaxBatch
      BY QueueAssumption, LoopAssumption
    <3>3. Lease(l, limit)
      BY Zenon, <3>1 DEF Lease
    <3> QED BY Zenon, <3>2, <3>3 DEF QueueNext
  <2>2. CASE TickerFires(l)
    BY Zenon, <2>2 DEF TickerFires, QueueNext
  <2>3. CASE Start(l) \/ DrainNothing(l) \/ WakeUp(l) \/ QueueFails(l) \/ Shutdown(l)
             \/ Stopped(l) \/ Crash(l)
    BY Zenon, <2>3 DEF Start, DrainNothing, WakeUp, QueueFails, Shutdown, Stopped, Crash
  <2> QED BY Zenon, <1>1, <2>1, <2>2, <2>3 DEF LoopStep
<1>2. ASSUME NEW s \in Slots, SlotStep(s) PROVE [QueueNext]_queueVars
  <2>0. s[1] \in Owners /\ (Busy(s) => work[s] \in Jobs /\ attempt[s] \in Nat /\ attempt[s] >= 1)
    BY Zenon, SlotOwner DEF SlotInv, LoopTypeOK
  <2>1. ASSUME NEW age \in 0..MaxLag, Renew(s, age) PROVE QueueNext
    <3>1. LeaseDuration + UtcOffset - age \in Stamps
      BY Zenon DEF Stamps
    <3>2. RenewLease(work[s], s[1], LeaseDuration + UtcOffset - age) /\ work[s] \in Jobs
      BY Zenon, <2>0, <2>1 DEF Renew, Busy
    <3> QED BY Zenon, <2>0, <3>1, <3>2 DEF QueueNext
  <2>2. CASE Settle(s)
    <3>1. work[s] \in Jobs /\ RetryDelay(Smaller(attempt[s] - 1, MaxShift)) \in Delays
      BY Zenon, <2>0, <2>2, SettleDelay DEF Settle, Busy
    <3> QED BY Zenon, <2>0, <2>2, <3>1 DEF Settle, QueueNext
  <2>3. CASE RenewFails(s) \/ (\E result \in {"succeeded", "failed"} : Return(s, result))
             \/ SettleFails(s)
    BY Zenon, <2>3 DEF RenewFails, Return, SettleFails
  <2> QED BY Zenon, <1>2, <2>1, <2>2, <2>3 DEF SlotStep
<1>3. ASSUME NEW j \in Jobs, Submit(j) PROVE QueueNext
  BY Zenon, <1>3 DEF Submit, QueueNext
<1>4. CASE TimePasses
  BY Zenon, <1>4 DEF TimePasses, QueueNext
<1> QED BY Zenon, <1>1, <1>2, <1>3, <1>4 DEF LoopNext

-----------------------------------------------------------------------------
(* What a drain (eventloop.go:80-102) does: handlers on free slots, each with *)
(* a job of its own that was pending and is now leased.                      *)
Spawned(l, S, T, jobOf) ==
    /\ LeaseBatch(S, l)
    /\ \A s \in T : jobOf[s] \in S
    /\ \A s, t \in T : jobOf[s] = jobOf[t] => s = t
    /\ pc' = [s \in Slots |-> IF s \in T THEN "running" ELSE pc[s]]
    /\ work' = [s \in Slots |-> IF s \in T THEN jobOf[s] ELSE work[s]]
    /\ attempt' = [s \in Slots |-> IF s \in T THEN attempts'[jobOf[s]] ELSE attempt[s]]
    /\ since' = [s \in Slots |-> IF s \in T THEN 0 ELSE since[s]]

(* A drain (eventloop.go:80-102) starts one handler for every leased job.    *)
LEMMA DrainSpawns ==
    ASSUME NEW l \in Owners, Drain(l)
    PROVE \E S \in SUBSET Eligible, T \in SUBSET Free(l) :
            \E jobOf \in [T -> S] : Spawned(l, S, T, jobOf)
<1>1. PICK limit \in 1..Concurrency : \E S \in Batches(limit) :
          /\ LeaseBatch(S, l)
          /\ \E T \in SUBSET Free(l) : \E jobOf \in Bijection(T, S) :
                /\ pc' = [s \in Slots |-> IF s \in T THEN "running" ELSE pc[s]]
                /\ work' = [s \in Slots |-> IF s \in T THEN jobOf[s] ELSE work[s]]
                /\ attempt' = [s \in Slots |-> IF s \in T THEN attempts'[jobOf[s]] ELSE attempt[s]]
                /\ since' = [s \in Slots |-> IF s \in T THEN 0 ELSE since[s]]
  BY Zenon DEF Drain
<1>2. PICK S \in Batches(limit) :
          /\ LeaseBatch(S, l)
          /\ \E T \in SUBSET Free(l) : \E jobOf \in Bijection(T, S) :
                /\ pc' = [s \in Slots |-> IF s \in T THEN "running" ELSE pc[s]]
                /\ work' = [s \in Slots |-> IF s \in T THEN jobOf[s] ELSE work[s]]
                /\ attempt' = [s \in Slots |-> IF s \in T THEN attempts'[jobOf[s]] ELSE attempt[s]]
                /\ since' = [s \in Slots |-> IF s \in T THEN 0 ELSE since[s]]
  BY Zenon, <1>1
<1>3. PICK T \in SUBSET Free(l) : \E jobOf \in Bijection(T, S) :
          /\ pc' = [s \in Slots |-> IF s \in T THEN "running" ELSE pc[s]]
          /\ work' = [s \in Slots |-> IF s \in T THEN jobOf[s] ELSE work[s]]
          /\ attempt' = [s \in Slots |-> IF s \in T THEN attempts'[jobOf[s]] ELSE attempt[s]]
          /\ since' = [s \in Slots |-> IF s \in T THEN 0 ELSE since[s]]
  BY Zenon, <1>2
<1>4. PICK jobOf \in Bijection(T, S) :
          /\ pc' = [s \in Slots |-> IF s \in T THEN "running" ELSE pc[s]]
          /\ work' = [s \in Slots |-> IF s \in T THEN jobOf[s] ELSE work[s]]
          /\ attempt' = [s \in Slots |-> IF s \in T THEN attempts'[jobOf[s]] ELSE attempt[s]]
          /\ since' = [s \in Slots |-> IF s \in T THEN 0 ELSE since[s]]
  BY Zenon, <1>3
<1>5. S \in SUBSET Eligible
  BY Zenon DEF Batches
<1>6. jobOf \in [T -> S] /\ \A s, t \in T : jobOf[s] = jobOf[t] => s = t
  BY Zenon DEF Bijection, Injection, IsInjective
<1>7. Spawned(l, S, T, jobOf)
  BY Zenon, <1>2, <1>4, <1>6 DEF Spawned
<1> QED BY Zenon, <1>5, <1>6, <1>7

-----------------------------------------------------------------------------
(* The parts of the invariant, one lemma each *)

(* Steps of Run and of the handlers keep the types.                          *)
LEMMA LoopTypeStep ==
    ASSUME LoopIInv, LoopNext, QueueTypeOK' PROVE LoopTypeOK'
<1> USE DEF LoopIInv, LoopTypeOK, LoopStates, SlotStates
<1>1. ASSUME NEW l \in Owners, Drain(l) PROVE LoopTypeOK'
  <2>1. PICK S \in SUBSET Eligible, T \in SUBSET Free(l) :
            \E jobOf \in [T -> S] : Spawned(l, S, T, jobOf)
    BY Zenon, <1>1, DrainSpawns
  <2>2. PICK jobOf \in [T -> S] : Spawned(l, S, T, jobOf)
    BY Zenon, <2>1
  <2>3. \A s \in T : jobOf[s] \in Jobs
    BY Zenon DEF Eligible
  <2>4. attempts' \in [Jobs -> Nat]
    BY Zenon DEF QueueTypeOK
  <2> QED BY Zenon, <1>1, <2>2, <2>3, <2>4 DEF Spawned, Drain
<1>2. ASSUME NEW l \in Owners, LoopStep(l), ~Drain(l) PROVE LoopTypeOK'
  <2>1. wakeUp' \in [Owners -> BOOLEAN]
    BY Zenon, <1>2
    DEF LoopStep, Start, DrainNothing, TickerFires, WakeUp, QueueFails, Shutdown, Stopped, Crash
  <2>2. loop' \in [Owners -> LoopStates] /\ faults' \in Nat
    BY SMTT(30), <1>2
    DEF LoopStep, Start, DrainNothing, TickerFires, WakeUp, QueueFails, Shutdown, Stopped, Crash
  <2>3. /\ pc' \in [Slots -> SlotStates]
        /\ work' \in [Slots -> Jobs \cup {NoJob}]
        /\ attempt' \in [Slots -> Nat]
        /\ since' \in [Slots -> Nat]
    BY <1>2
    DEF LoopStep, Start, DrainNothing, TickerFires, WakeUp, QueueFails, Shutdown, Stopped, Crash
  <2> QED BY Zenon, <2>1, <2>2, <2>3
<1>3. ASSUME NEW s \in Slots, SlotStep(s) PROVE LoopTypeOK'
  <2> USE <1>3, SlotOwner DEF SlotStep, Renew, RenewFails, Return, Settle, SettleFails, Leave
  <2>1. wakeUp' \in [Owners -> BOOLEAN]
    BY Zenon
  <2>2. loop' \in [Owners -> LoopStates] /\ faults' \in Nat
    OBVIOUS
  <2>3. /\ pc' \in [Slots -> SlotStates]
        /\ work' \in [Slots -> Jobs \cup {NoJob}]
        /\ attempt' \in [Slots -> Nat]
        /\ since' \in [Slots -> Nat]
    BY SMTT(20), QueueAssumption
  <2> QED BY Zenon, <2>1, <2>2, <2>3
<1>4. ASSUME NEW j \in Jobs, Submit(j) PROVE LoopTypeOK'
  BY Zenon, <1>4 DEF Submit, loopVars
<1>5. CASE TimePasses
  BY <1>5 DEF TimePasses
<1> QED BY Zenon, <1>1, <1>2, <1>3, <1>4, <1>5 DEF LoopNext

(* A slot that becomes busy has a job whose attempt was just counted.        *)
LEMMA SlotInvStep ==
    ASSUME LoopIInv, LoopNext PROVE SlotInv'
<1> USE DEF LoopIInv, LoopTypeOK, SlotInv, Busy
<1>1. ASSUME NEW l \in Owners, Drain(l) PROVE SlotInv'
  <2>1. PICK S \in SUBSET Eligible, T \in SUBSET Free(l) :
            \E jobOf \in [T -> S] : Spawned(l, S, T, jobOf)
    BY Zenon, <1>1, DrainSpawns
  <2>2. PICK jobOf \in [T -> S] : Spawned(l, S, T, jobOf)
    BY Zenon, <2>1
  <2>3. \A s \in T : jobOf[s] \in Jobs /\ attempts'[jobOf[s]] >= 1
    BY SMTT(20), <2>2 DEF Spawned, LeaseBatch, Eligible, QueueTypeOK
  <2> QED BY <2>2, <2>3, QueueAssumption DEF Spawned
<1>2. ASSUME NEW l \in Owners, LoopStep(l), ~Drain(l) PROVE SlotInv'
  BY SMTT(20), <1>2, QueueAssumption
  DEF LoopStep, Start, DrainNothing, TickerFires, WakeUp, QueueFails, Shutdown, Stopped, Crash
<1>3. ASSUME NEW s \in Slots, SlotStep(s) PROVE SlotInv'
  BY <1>3, QueueAssumption DEF SlotStep, Renew, RenewFails, Return, Settle, SettleFails, Leave
<1>4. ASSUME NEW j \in Jobs, Submit(j) PROVE SlotInv'
  BY Zenon, <1>4 DEF Submit, loopVars
<1>5. CASE TimePasses
  BY <1>5, QueueAssumption DEF TimePasses
<1> QED BY Zenon, <1>1, <1>2, <1>3, <1>4, <1>5 DEF LoopNext

(* A timely loop's handlers keep their leases, and leases are given only to  *)
(* jobs nobody works on.                                                     *)
LEMMA LeaseInvStep ==
    ASSUME LoopIInv, Timely, LoopNext PROVE LeaseInv'
<1> USE DEF Busy, Holds, ExclusiveHandling
<1>0. /\ LoopTypeOK /\ QueueTypeOK /\ SlotInv /\ LeaseInv
      /\ \A s \in Slots : Busy(s) => work[s] \in Jobs
      /\ \A s \in Slots : Busy(s) => work[s] \notin Expired
  BY Zenon, HeldNotExpired DEF LoopIInv, LoopTypeOK, SlotInv
<1>1. ASSUME NEW l \in Owners, Drain(l) PROVE LeaseInv'
  <2>1. PICK S \in SUBSET Eligible, T \in SUBSET Free(l) :
            \E jobOf \in [T -> S] : Spawned(l, S, T, jobOf)
    BY Zenon, <1>1, DrainSpawns
  <2>2. PICK jobOf \in [T -> S] : Spawned(l, S, T, jobOf)
    BY Zenon, <2>1
  <2>3. \A s \in Slots : Busy(s) => work[s] \notin S /\ s \notin T
    BY Zenon, <1>0 DEF LeaseInv, Eligible, Free
  <2>4. ExclusiveHandling'
    BY SMTT(30), <1>0, <2>2, <2>3 DEF LeaseInv, Spawned
  <2>5. ASSUME NEW s \in Slots, s \in T
        PROVE /\ Holds(work[s], s[1])'
              /\ (lease[work[s]].expires + since[s] >= LeaseDuration)'
              /\ (attempt[s] = attempts[work[s]])'
    <3>1. jobOf[s] \in S /\ jobOf[s] \in Jobs /\ s[1] = l
      BY Zenon, <2>5 DEF Eligible, Free
    <3> QED BY <2>2, <2>5, <3>1, QueueAssumption DEF Spawned, LeaseBatch
  <2>6. ASSUME NEW s \in Slots, s \notin T, Busy(s)
        PROVE /\ Holds(work[s], s[1])'
              /\ (lease[work[s]].expires + since[s] >= LeaseDuration)'
              /\ (attempt[s] = attempts[work[s]])'
    BY Zenon, <1>0, <2>2, <2>3, <2>6 DEF Spawned, LeaseBatch, LeaseInv, LoopTypeOK
  <2> QED BY Zenon, <2>2, <2>4, <2>5, <2>6 DEF LeaseInv, Spawned
<1>2. ASSUME NEW l \in Owners, TickerFires(l) PROVE LeaseInv'
  BY ZenonT(30), <1>0, <1>2 DEF TickerFires, ReleaseExpired, LeaseInv
<1>3. ASSUME NEW l \in Owners,
             \/ Start(l) \/ DrainNothing(l) \/ WakeUp(l) \/ QueueFails(l) \/ Stopped(l)
      PROVE LeaseInv'
  BY SMTT(20), <1>0, <1>3 DEF Start, DrainNothing, WakeUp, QueueFails, Stopped, LeaseInv, queueVars
<1>4. ASSUME NEW l \in Owners, Shutdown(l) \/ Crash(l) PROVE LeaseInv'
  BY SMTT(20), <1>0, <1>4 DEF Shutdown, Crash, LeaseInv, queueVars, LoopTypeOK
<1>5. ASSUME NEW s \in Slots, NEW age \in 0..MaxLag, Renew(s, age) PROVE LeaseInv'
  BY SMTT(20), <1>0, <1>5, QueueAssumption DEF Renew, RenewLease, LeaseInv, LoopTypeOK, QueueTypeOK, Timely
<1>6. ASSUME NEW s \in Slots, Settle(s) PROVE LeaseInv'
  BY SMTT(30), <1>0, <1>6 DEF Settle, Leave, Complete, Retry, LeaseInv, LoopTypeOK, QueueTypeOK
<1>7. ASSUME NEW s \in Slots,
             \/ RenewFails(s) \/ SettleFails(s)
             \/ \E result \in {"succeeded", "failed"} : Return(s, result)
      PROVE LeaseInv'
  <2>1. UNCHANGED queueVars
    BY Zenon, <1>7 DEF RenewFails, SettleFails, Return
  <2>2. \A t \in Slots : Busy(t)' => Busy(t)
    BY Zenon, <1>0, <1>7 DEF RenewFails, SettleFails, Return, Leave, LoopTypeOK
  <2>3. \A t \in Slots : Busy(t)' =>
            work'[t] = work[t] /\ attempt'[t] = attempt[t] /\ since'[t] = since[t]
    BY Zenon, <1>0, <1>7 DEF RenewFails, SettleFails, Return, Leave, LoopTypeOK
  <2>4. ExclusiveHandling'
    <3> SUFFICES ASSUME NEW t \in Slots, NEW u \in Slots, Busy(t)', Busy(u)', work'[t] = work'[u]
                 PROVE t = u
      BY Zenon
    <3>1. Busy(t) /\ Busy(u) /\ work[t] = work[u]
      BY Zenon, <2>2, <2>3
    <3> QED BY Zenon, <1>0, <3>1 DEF LeaseInv
  <2>5. ASSUME NEW t \in Slots, Busy(t)'
        PROVE /\ Holds(work[t], t[1])'
              /\ (lease[work[t]].expires + since[t] >= LeaseDuration)'
              /\ (attempt[t] = attempts[work[t]])'
    <3>1. /\ Holds(work[t], t[1])
          /\ lease[work[t]].expires + since[t] >= LeaseDuration
          /\ attempt[t] = attempts[work[t]]
      BY Zenon, <1>0, <2>2, <2>5 DEF LeaseInv
    <3>2. /\ work'[t] = work[t] /\ attempt'[t] = attempt[t] /\ since'[t] = since[t]
          /\ status' = status /\ lease' = lease /\ attempts' = attempts
      BY ZenonT(30), <2>1, <2>3, <2>5 DEF queueVars
    <3> QED BY Zenon, <3>1, <3>2
  <2> QED BY Zenon, <2>4, <2>5 DEF LeaseInv
<1>8. ASSUME NEW j \in Jobs, Submit(j) PROVE LeaseInv'
  <2>1. status[j] = "absent"
    BY ZenonT(30), <1>8, QueueAssumption DEF Submit, Publish, LoopIInv, QueueIInv, PublishInv
  <2> QED BY <1>0, <1>8, <2>1 DEF Submit, Publish, loopVars, LeaseInv, QueueTypeOK
<1>9. CASE TimePasses
  <2>1. ASSUME NEW s \in Slots, Busy(s)
        PROVE /\ Holds(work[s], s[1])'
              /\ (lease[work[s]].expires + since[s] >= LeaseDuration)'
              /\ (attempt[s] = attempts[work[s]])'
    <3>1. lease[work[s]].expires > 0
      BY ZenonT(30), <2>1, HeldNotExpired
    <3>2. lease[work[s]].expires \in Int
      BY <1>0, <2>1 DEF QueueTypeOK, Leases, NoLease
    <3> QED BY SMTT(30), <1>0, <1>9, <2>1, <3>1, <3>2, QueueAssumption
            DEF TimePasses, Tick, Closer, LeaseInv, LoopTypeOK, QueueTypeOK
  <2> QED BY SMTT(20), <1>0, <1>9, <2>1 DEF TimePasses, LeaseInv
<1> QED BY Zenon, <1>1, <1>2, <1>3, <1>4, <1>5, <1>6, <1>7, <1>8, <1>9 DEF LoopNext, LoopStep, SlotStep

(* The handlers of a job are finitely many.                                  *)
LEMMA HandlersFinite ==
    ASSUME NEW j \in Jobs
    PROVE  /\ IsFiniteSet(HandlersOf(j)) /\ Cardinality(HandlersOf(j)) \in Nat
           /\ IsFiniteSet(HandlersOf(j)') /\ Cardinality(HandlersOf(j)') \in Nat
<1>1. IsFiniteSet(1..Concurrency) /\ IsFiniteSet(Owners)
  BY FS_Interval, LoopAssumption
<1>2. IsFiniteSet(Slots)
  BY Zenon, <1>1, FS_Product DEF Slots
<1>3. HandlersOf(j) \subseteq Slots /\ HandlersOf(j)' \subseteq Slots
  BY Zenon DEF HandlersOf
<1> QED BY Zenon, <1>2, <1>3, FS_Subset, FS_CardinalityType

(* The budget of a job is a number.                                          *)
LEMMA BudgetType ==
    ASSUME QueueTypeOK, QueueTypeOK', NEW j \in Jobs
    PROVE  /\ expiries[j] \in Nat /\ expiries'[j] \in Nat
           /\ Budget(j) \in Nat /\ Budget(j)' \in Nat
<1>1. expiries[j] \in Nat /\ expiries'[j] \in Nat
  BY Zenon DEF QueueTypeOK
<1> QED BY <1>1 DEF Budget

(* Steps that start no handler of a job and take none of its budget.         *)
LEMMA NoNewHandler ==
    ASSUME LoopIInv, QueueTypeOK', NEW j \in Jobs,
           HandlersOf(j)' \subseteq HandlersOf(j), Budget(j) <= Budget(j)'
    PROVE  Cardinality(HandlersOf(j)') <= Budget(j)'
<1>1. Cardinality(HandlersOf(j)') <= Cardinality(HandlersOf(j))
  BY Zenon, HandlersFinite, FS_Subset
<1>2. Cardinality(HandlersOf(j)) <= Budget(j)
  BY Zenon DEF LoopIInv, HandlersInv
<1>3. Budget(j) \in Nat /\ Budget(j)' \in Nat
  BY Zenon, BudgetType DEF LoopIInv, LoopTypeOK
<1> QED BY <1>1, <1>2, <1>3, HandlersFinite

(* A drain gives a pending job one handler together with its lease; a lease  *)
(* that runs out is counted; the handler that settles a job is gone with it. *)
LEMMA HandlersInvStep ==
    ASSUME LoopIInv, LoopNext, QueueTypeOK' PROVE HandlersInv'
<1> SUFFICES ASSUME NEW j \in Jobs PROVE Cardinality(HandlersOf(j)') <= Budget(j)'
  BY Zenon DEF HandlersInv
<1>t. /\ status \in [Jobs -> Statuses] /\ expiries \in [Jobs -> Nat]
      /\ pc \in [Slots -> SlotStates] /\ work \in [Slots -> Jobs \cup {NoJob}]
      /\ NoJob \notin Jobs
  BY Zenon, QueueAssumption DEF LoopIInv, LoopTypeOK, QueueTypeOK
<1>b. /\ expiries[j] \in Nat /\ expiries'[j] \in Nat /\ Budget(j) \in Nat /\ Budget(j)' \in Nat
      /\ Cardinality(HandlersOf(j)) <= Budget(j)
  BY Zenon, BudgetType DEF LoopIInv, LoopTypeOK, HandlersInv
<1>k. ASSUME UNCHANGED <<status, expiries>> PROVE Budget(j)' = Budget(j)
  BY Zenon, <1>k DEF Budget
<1>l. ASSUME Budget(j)' = Budget(j), HandlersOf(j)' \subseteq HandlersOf(j)
      PROVE  Cardinality(HandlersOf(j)') <= Budget(j)'
  BY <1>l, <1>b, NoNewHandler DEF LoopIInv, LoopTypeOK
<1>1. ASSUME NEW l \in Owners, Drain(l) PROVE Cardinality(HandlersOf(j)') <= Budget(j)'
  <2>1. PICK S \in SUBSET Eligible, T \in SUBSET Free(l) :
            \E jobOf \in [T -> S] : Spawned(l, S, T, jobOf)
    BY Zenon, <1>1, DrainSpawns
  <2>2. PICK jobOf \in [T -> S] : Spawned(l, S, T, jobOf)
    BY Zenon, <2>1
  <2>3. /\ expiries' = expiries
        /\ status'[j] = IF j \in S THEN "leased" ELSE status[j]
        /\ \A s \in Slots : pc'[s] = IF s \in T THEN "running" ELSE pc[s]
        /\ \A s \in Slots : work'[s] = IF s \in T THEN jobOf[s] ELSE work[s]
    BY Zenon, <2>2 DEF Spawned, LeaseBatch
  <2>4. CASE j \notin S
    <3>1. HandlersOf(j)' \subseteq HandlersOf(j)
      <4> SUFFICES ASSUME NEW s \in Slots, pc'[s] # "free", work'[s] = j
                   PROVE  pc[s] # "free" /\ work[s] = j
        BY Zenon DEF HandlersOf, Busy
      <4>1. s \notin T
        BY ZenonT(30), <2>3, <2>4
      <4>2. pc'[s] = pc[s] /\ work'[s] = work[s]
        BY <2>3, <4>1
      <4> QED BY Zenon, <4>2
    <3>2. Budget(j)' = Budget(j)
      BY Zenon, <2>3, <2>4 DEF Budget
    <3> QED BY Zenon, <1>l, <3>1, <3>2
  <2>5. CASE j \in S
    <3>1. status[j] = "pending"
      BY ZenonT(30), <2>5 DEF Eligible
    <3>2. Budget(j) = expiries[j] /\ Budget(j)' = expiries[j] + 1
      BY <2>3, <2>5, <3>1, <1>b DEF Budget
    <3>3. CASE \A s \in T : jobOf[s] # j
      <4>1. HandlersOf(j)' \subseteq HandlersOf(j)
        BY ZenonT(30), <2>3, <3>3 DEF HandlersOf, Busy
      <4>2. Budget(j) <= Budget(j)'
        BY SMTT(20), <3>2, <1>b
      <4> QED BY Zenon, <4>1, <4>2, NoNewHandler
    <3>4. ASSUME NEW s \in T, jobOf[s] = j PROVE Cardinality(HandlersOf(j)') <= Budget(j)'
      <4>1. \A t \in T : jobOf[t] = j => t = s
        BY Zenon, <2>2, <3>4 DEF Spawned
      <4>2. HandlersOf(j)' \subseteq HandlersOf(j) \cup {s}
        BY Zenon, <2>3, <4>1 DEF HandlersOf, Busy
      <4>3. IsFiniteSet(HandlersOf(j) \cup {s}) /\ s \notin HandlersOf(j)
            /\ Cardinality(HandlersOf(j) \cup {s}) = Cardinality(HandlersOf(j)) + 1
        <5>1. s \notin HandlersOf(j)
          BY Zenon, <3>4 DEF HandlersOf, Free, Busy
        <5> QED BY Zenon, <5>1, HandlersFinite, FS_AddElement
      <4>4. Cardinality(HandlersOf(j)') <= Cardinality(HandlersOf(j)) + 1
        BY Zenon, <4>2, <4>3, FS_Subset
      <4> QED BY <4>4, <3>2, <1>b, HandlersFinite
    <3> QED BY Zenon, <3>3, <3>4
  <2> QED BY Zenon, <2>4, <2>5
<1>2. ASSUME NEW l \in Owners, TickerFires(l) PROVE Cardinality(HandlersOf(j)') <= Budget(j)'
  <2>1. /\ status'[j] = IF j \in Expired THEN "pending" ELSE status[j]
        /\ expiries'[j] = IF j \in Expired THEN expiries[j] + 1 ELSE expiries[j]
        /\ j \in Expired => status[j] = "leased"
    BY ZenonT(30), <1>2 DEF TickerFires, ReleaseExpired, Expired
  <2>2. Budget(j)' = Budget(j)
    BY <2>1, <1>b DEF Budget
  <2>3. HandlersOf(j)' = HandlersOf(j)
    BY Zenon, <1>2 DEF TickerFires, HandlersOf, Busy
  <2> QED BY Zenon, <1>l, <2>2, <2>3
<1>3. ASSUME NEW l \in Owners,
             \/ Start(l) \/ DrainNothing(l) \/ WakeUp(l) \/ QueueFails(l) \/ Stopped(l) \/ Shutdown(l) \/ Crash(l)
      PROVE Cardinality(HandlersOf(j)') <= Budget(j)'
  <2>1. UNCHANGED <<status, expiries>>
    BY Zenon, <1>3 DEF Start, DrainNothing, WakeUp, QueueFails, Stopped, Shutdown, Crash, queueVars
  <2>2. \A s \in Slots : Busy(s)' => Busy(s) /\ work'[s] = work[s]
    BY Zenon, <1>3, <1>t DEF Start, DrainNothing, WakeUp, QueueFails, Stopped, Shutdown, Crash, Busy
  <2>3. HandlersOf(j)' \subseteq HandlersOf(j)
    BY Zenon, <2>2 DEF HandlersOf
  <2> QED BY Zenon, <1>k, <1>l, <2>1, <2>3
<1>4. ASSUME NEW s \in Slots, Settle(s) PROVE Cardinality(HandlersOf(j)') <= Budget(j)'
  <2>1. /\ Busy(s) /\ status[work[s]] = "leased" /\ expiries' = expiries
        /\ \A t \in Slots : pc'[t] = IF t = s THEN "free" ELSE pc[t]
        /\ \A t \in Slots : work'[t] = IF t = s THEN NoJob ELSE work[t]
        /\ j # work[s] => status'[j] = status[j]
    BY Zenon, <1>4, <1>t DEF Settle, Leave, Complete, Retry, Holds, Busy
  <2>2. CASE work[s] # j
    <3>1. HandlersOf(j)' \subseteq HandlersOf(j)
      BY Zenon, <2>1 DEF HandlersOf, Busy
    <3>2. Budget(j)' = Budget(j)
      BY Zenon, <2>1, <2>2 DEF Budget
    <3> QED BY Zenon, <1>l, <3>1, <3>2
  <2>3. CASE work[s] = j
    <3>1. HandlersOf(j)' = HandlersOf(j) \ {s} /\ s \in HandlersOf(j)
      BY Zenon, <2>1, <2>3, <1>t DEF HandlersOf, Busy
    <3>2. Cardinality(HandlersOf(j)') = Cardinality(HandlersOf(j)) - 1
      BY Zenon, <3>1, HandlersFinite, FS_RemoveElement
    <3>3. Budget(j) = expiries[j] + 1 /\ expiries[j] <= Budget(j)'
      BY <2>1, <2>3, <1>b DEF Budget
    <3> QED BY <3>2, <3>3, <1>b, HandlersFinite
  <2> QED BY Zenon, <2>2, <2>3
<1>5. ASSUME NEW s \in Slots,
             \/ \E age \in 0..MaxLag : Renew(s, age)
             \/ RenewFails(s) \/ SettleFails(s)
             \/ \E result \in {"succeeded", "failed"} : Return(s, result)
      PROVE Cardinality(HandlersOf(j)') <= Budget(j)'
  <2>1. UNCHANGED <<status, expiries>>
    BY Zenon, <1>5 DEF Renew, RenewLease, RenewFails, SettleFails, Return, queueVars
  <2>2. \A t \in Slots : Busy(t)' => Busy(t) /\ work'[t] = work[t]
    BY Zenon, <1>5, <1>t DEF Renew, RenewFails, SettleFails, Leave, Return, Busy
  <2>3. HandlersOf(j)' \subseteq HandlersOf(j)
    BY Zenon, <2>2 DEF HandlersOf
  <2> QED BY Zenon, <1>k, <1>l, <2>1, <2>3
<1>6. ASSUME NEW k \in Jobs, Submit(k) PROVE Cardinality(HandlersOf(j)') <= Budget(j)'
  <2>1. expiries' = expiries /\ UNCHANGED <<pc, work>>
    BY Zenon, <1>6 DEF Submit, Publish, loopVars
  <2>2. status'[j] = status[j] \/ (status[j] = "absent" /\ status'[j] = "pending")
    <3>1. status[k] = "absent" /\ (status' = status \/ status' = [status EXCEPT ![k] = "pending"])
      BY Zenon, <1>6, QueueAssumption DEF Submit, Publish, LoopIInv, QueueIInv, PublishInv
    <3> QED BY Zenon, <3>1, <1>t
  <2>3. Budget(j)' = Budget(j)
    BY <2>1, <2>2, <1>b DEF Budget
  <2>4. HandlersOf(j)' = HandlersOf(j)
    BY Zenon, <2>1 DEF HandlersOf, Busy
  <2> QED BY Zenon, <1>l, <2>3, <2>4
<1>7. CASE TimePasses
  <2>1. UNCHANGED <<status, expiries, pc, work>>
    BY Zenon, <1>7 DEF TimePasses, Tick
  <2>2. HandlersOf(j)' = HandlersOf(j)
    BY Zenon, <2>1 DEF HandlersOf, Busy
  <2> QED BY Zenon, <1>k, <1>l, <2>1, <2>2
<1> QED BY Zenon, <1>1, <1>2, <1>3, <1>4, <1>5, <1>6, <1>7 DEF LoopNext, LoopStep, SlotStep

-----------------------------------------------------------------------------
(* The invariant *)

(* Processes that are down, without handlers, satisfy the invariant.         *)
LEMMA LoopInitIInv == LoopInit => LoopIInv
<1> SUFFICES ASSUME LoopInit PROVE LoopIInv
  BY Zenon
<1>1. QueueIInv
  BY Zenon, QueueInitIInv DEF LoopInit
<1>2. LoopTypeOK
  BY Zenon, <1>1 DEF LoopInit, LoopTypeOK, LoopStates, SlotStates, QueueIInv
<1>3. SlotInv
  BY QueueAssumption DEF LoopInit, SlotInv, Busy
<1>4. LeaseInv
  BY Zenon DEF LoopInit, LeaseInv, ExclusiveHandling, Busy
<1>5. HandlersInv
  <2> SUFFICES ASSUME NEW j \in Jobs PROVE Cardinality(HandlersOf(j)) <= Budget(j)
    BY Zenon DEF HandlersInv
  <2>1. HandlersOf(j) = {} /\ status[j] = "absent" /\ expiries[j] = 0
    BY Zenon DEF LoopInit, QueueInit, HandlersOf, Busy
  <2>2. Cardinality(HandlersOf(j)) = 0
    BY Zenon, <2>1, FS_EmptySet
  <2> QED BY <2>1, <2>2 DEF Budget
<1> QED BY Zenon, <1>1, <1>2, <1>3, <1>4, <1>5 DEF LoopIInv

(* Every step of the loops, and one that leaves them alone, keeps it.        *)
LEMMA LoopNextIInv == LoopIInv /\ [LoopNext]_vars => LoopIInv'
<1>1. ASSUME LoopIInv, LoopNext PROVE LoopIInv'
  <2>1. [QueueNext]_queueVars
    BY Zenon, <1>1, StepRefines DEF LoopIInv
  <2>2. QueueIInv'
    BY Zenon, <1>1, <2>1, QueueNextIInv DEF LoopIInv
  <2>3. LoopTypeOK'
    BY Zenon, <1>1, <2>2, LoopTypeStep DEF QueueIInv
  <2>4. SlotInv'
    BY Zenon, <1>1, SlotInvStep
  <2>5. Timely => LeaseInv'
    BY Zenon, <1>1, LeaseInvStep
  <2>6. HandlersInv'
    BY Zenon, <1>1, <2>2, HandlersInvStep DEF QueueIInv
  <2> QED BY Zenon, <2>2, <2>3, <2>4, <2>5, <2>6 DEF LoopIInv, Timely
<1>2. ASSUME LoopIInv, UNCHANGED vars PROVE LoopIInv'
  <2>1. QueueIInv'
    BY Zenon, <1>2, QueueNextIInv DEF LoopIInv, vars
  <2>2. HandlersInv'
    BY Zenon, <1>2 DEF LoopIInv, HandlersInv, HandlersOf, Budget, Busy, vars, queueVars, loopVars
  <2> QED BY Zenon, <1>2, <2>1, <2>2 DEF LoopIInv, LoopTypeOK, QueueTypeOK, SlotInv, LeaseInv, ExclusiveHandling,
        Busy, Holds, vars, queueVars, loopVars, Timely
<1> QED BY Zenon, <1>1, <1>2

-----------------------------------------------------------------------------
(* The theorems *)

(* The strengthened invariant holds in every reachable state of the loops.   *)
THEOREM LoopInvariant == LoopSpec => []LoopIInv
BY LoopInitIInv, LoopNextIInv, PTL DEF LoopSpec

(* The variables of the queue and the loops keep values of their types.      *)
THEOREM LoopTypeCorrect == LoopSpec => []LoopTypeOK
<1>1. LoopIInv => LoopTypeOK
  BY Zenon DEF LoopIInv
<1> QED BY <1>1, LoopInvariant, PTL

(* The event loop implements the queue: whatever its processes do, crash or  *)
(* not, the table changes only as the queue's operations change it           *)
(* (eventloop.go:56-140), so the theorems about the queue hold of it.        *)
THEOREM LoopRefinesQueue == LoopSpec => QueueSpec
<1>1. LoopInit => QueueInit
  BY Zenon DEF LoopInit
<1>2. LoopIInv => LoopTypeOK /\ SlotInv
  BY Zenon DEF LoopIInv
<1> QED BY <1>1, <1>2, StepRefines, LoopInvariant, PTL DEF LoopSpec, QueueSpec

(* The handlers of timely loops hold their leases as long as they work       *)
(* (eventloop.go:104-140).                                                   *)
THEOREM TimelyHandlersHoldLease == LoopSpec => [](Timely => HandlersHoldLease)
<1>1. LoopIInv => (Timely => HandlersHoldLease)
  BY Zenon, HeldNotExpired DEF LoopIInv, LeaseInv, HandlersHoldLease
<1> QED BY <1>1, LoopInvariant, PTL

(* Timely loops never have two handlers on one job: for any number of        *)
(* processes, slots, jobs and faults (eventloop.go:80-140).                  *)
THEOREM TimelyHandlersAreExclusive == LoopSpec => [](Timely => ExclusiveHandling)
<1>1. LoopIInv => (Timely => ExclusiveHandling)
  BY Zenon DEF LoopIInv, LeaseInv
<1> QED BY <1>1, LoopInvariant, PTL

(* The handlers of a job are at most one more than the leases of it that ran *)
(* out, for loops that are not timely and servers in any time zone           *)
(* (eventloop.go:104-140): late calls of a former holder settle or renew the *)
(* lease of the new one but start no handler of their own.                   *)
THEOREM HandlersAlwaysBounded == LoopSpec => []HandlersBounded
<1>1. ASSUME LoopIInv PROVE HandlersBounded
  <2> SUFFICES ASSUME NEW j \in Jobs PROVE Cardinality(HandlersOf(j)) <= 1 + expiries[j]
    BY Zenon DEF HandlersBounded
  <2>1. Cardinality(HandlersOf(j)) <= Budget(j) /\ expiries[j] \in Nat
    BY Zenon, <1>1 DEF LoopIInv, HandlersInv, LoopTypeOK, QueueTypeOK
  <2>2. Budget(j) \in Nat /\ Budget(j) <= 1 + expiries[j]
    BY <2>1 DEF Budget
  <2> QED BY <2>1, <2>2, HandlersFinite
<1> QED BY <1>1, LoopInvariant, PTL

-----------------------------------------------------------------------------
(* The start of a server *)

Steps == {"down", "inspecting", "installing", "preferences?", "preferences", "metrics?", "metrics",
          "validating", "serving", "refused"}

BootIInv ==
    /\ boot \in [Servers -> Steps]
    /\ parts \subseteq PartsOf("current")
    /\ ChecksumIsCovered
    /\ \A s \in Servers :
          /\ boot[s] = "preferences" => PartsOf("legacy") \subseteq parts
          /\ boot[s] = "metrics" => PartsOf("before metrics") \subseteq parts
          /\ boot[s] = "serving" => PartsOf("current") \subseteq parts

(* The tables behind the three checksums (bootstrap.go:44-45).               *)
LEMMA Tables ==
    /\ PartsOf("legacy") = {"base"}
    /\ PartsOf("before metrics") = {"base", "preferences"}
    /\ PartsOf("current") = {"base", "preferences", "metrics"}
  BY DEF PartsOf

(* A server that moves on to a step at which it knows no more than before,   *)
(* or what the file shows, keeps the invariant.                              *)
LEMMA OnlyMoves ==
    ASSUME BootIInv, NEW s \in Servers, NEW at \in Steps, Proceed(s, at),
           UNCHANGED <<parts, checksum>>,
           at = "preferences" => PartsOf("legacy") \subseteq parts,
           at = "metrics" => PartsOf("before metrics") \subseteq parts,
           at = "serving" => PartsOf("current") \subseteq parts
    PROVE  BootIInv'
<1>1. /\ boot' \in [Servers -> Steps]
      /\ \A r \in Servers : boot'[r] = IF r = s THEN at ELSE boot[r]
  BY Zenon DEF Proceed, BootIInv
<1>2. parts' \subseteq PartsOf("current") /\ ChecksumIsCovered'
  BY Zenon DEF BootIInv, ChecksumIsCovered
<1>3. \A r \in Servers :
          /\ boot'[r] = "preferences" => PartsOf("legacy") \subseteq parts'
          /\ boot'[r] = "metrics" => PartsOf("before metrics") \subseteq parts'
          /\ boot'[r] = "serving" => PartsOf("current") \subseteq parts'
  BY Zenon, <1>1 DEF BootIInv
<1> QED BY Zenon, <1>1, <1>2, <1>3 DEF BootIInv

(* A transaction adds tables and writes a checksum they cover.               *)
LEMMA Transaction ==
    ASSUME BootIInv, NEW s \in Servers, NEW at \in {"metrics?", "validating"}, Proceed(s, at),
           parts \subseteq parts', parts' \subseteq PartsOf("current"), PartsOf(checksum') \subseteq parts'
    PROVE  BootIInv'
<1>1. /\ boot' \in [Servers -> Steps]
      /\ \A r \in Servers : boot'[r] = IF r = s THEN at ELSE boot[r]
  BY Zenon DEF Proceed, BootIInv, Steps
<1>2. at \notin {"preferences", "metrics", "serving"}
  BY Zenon
<1>3. \A r \in Servers :
          /\ boot'[r] = "preferences" => PartsOf("legacy") \subseteq parts'
          /\ boot'[r] = "metrics" => PartsOf("before metrics") \subseteq parts'
          /\ boot'[r] = "serving" => PartsOf("current") \subseteq parts'
  BY Zenon, <1>1, <1>2 DEF BootIInv
<1>4. ChecksumIsCovered'
  BY Zenon DEF ChecksumIsCovered
<1> QED BY Zenon, <1>1, <1>3, <1>4 DEF BootIInv

(* The file a server finds was made by the engine, and nobody has started.   *)
LEMMA BootInitIInv == BootstrapInit => BootIInv
<1> SUFFICES ASSUME BootstrapInit PROVE BootIInv
  BY Zenon
<1>1. boot \in [Servers -> Steps] /\ \A s \in Servers : boot[s] = "down"
  BY Zenon DEF BootstrapInit, Steps
<1>2. parts \subseteq PartsOf("current") /\ ChecksumIsCovered
  BY Zenon, BootstrapAssumption DEF BootstrapInit, ChecksumIsCovered
<1> QED BY Zenon, <1>1, <1>2 DEF BootIInv

(* Every statement of a start, and every death, keeps the invariant.         *)
LEMMA BootNextIInv == BootIInv /\ [BootstrapNext]_bootVars => BootIInv'
<1> SUFFICES ASSUME BootIInv, [BootstrapNext]_bootVars PROVE BootIInv'
  BY Zenon
<1>s. Steps = {"down", "inspecting", "installing", "preferences?", "preferences", "metrics?", "metrics",
               "validating", "serving", "refused"}
  BY Zenon DEF Steps
<1>1. ASSUME NEW s \in Servers, StartServer(s) PROVE BootIInv'
  BY Zenon, <1>1, <1>s, OnlyMoves DEF StartServer
<1>2. ASSUME NEW s \in Servers, InspectTables(s) PROVE BootIInv'
  <2>1. PICK at \in {"installing", "preferences?"} : Proceed(s, at)
    BY Zenon, <1>2 DEF InspectTables
  <2>2. UNCHANGED <<parts, checksum>>
    BY Zenon, <1>2 DEF InspectTables
  <2> QED BY Zenon, <2>1, <2>2, <1>s, OnlyMoves
<1>3. ASSUME NEW s \in Servers, installSchema(s) PROVE BootIInv'
  <2>1. CASE parts = {}
    <3>1. parts' = PartsOf("current") /\ checksum' = "current" /\ Proceed(s, "validating")
      BY Zenon, <1>3, <2>1 DEF installSchema
    <3>2. parts \subseteq parts' /\ parts' \subseteq PartsOf("current") /\ PartsOf(checksum') \subseteq parts'
      BY Zenon, <2>1, <3>1
    <3> QED BY Zenon, <3>1, <3>2, Transaction
  <2>2. CASE parts # {}
    <3>1. Proceed(s, "refused") /\ UNCHANGED <<parts, checksum>>
      BY Zenon, <1>3, <2>2 DEF installSchema
    <3> QED BY Zenon, <3>1, <1>s, OnlyMoves
  <2> QED BY Zenon, <2>1, <2>2
<1>4. ASSUME NEW s \in Servers, ReadForPreferences(s) PROVE BootIInv'
  <2>1. PICK at \in {"preferences", "metrics?"} : Proceed(s, at) /\ (at = "preferences" => checksum = "legacy")
    BY Zenon, <1>4 DEF ReadForPreferences
  <2>2. UNCHANGED <<parts, checksum>>
    BY Zenon, <1>4 DEF ReadForPreferences
  <2>3. at = "preferences" => PartsOf("legacy") \subseteq parts
    BY Zenon, <2>1 DEF BootIInv, ChecksumIsCovered
  <2> QED BY Zenon, <2>1, <2>2, <2>3, <1>s, OnlyMoves
<1>5. ASSUME NEW s \in Servers, migrateUserPreferences(s) PROVE BootIInv'
  <2>1. /\ boot[s] = "preferences" /\ Proceed(s, "metrics?")
        /\ parts' = parts \cup {"preferences"} /\ checksum' = "before metrics"
    BY Zenon, <1>5 DEF migrateUserPreferences, Booting
  <2>2. PartsOf("legacy") \subseteq parts /\ parts \subseteq PartsOf("current")
    BY Zenon, <2>1 DEF BootIInv
  <2>3. parts \subseteq parts' /\ parts' \subseteq PartsOf("current") /\ PartsOf(checksum') \subseteq parts'
    BY Zenon, <2>1, <2>2, Tables
  <2> QED BY Zenon, <2>1, <2>3, Transaction
<1>6. ASSUME NEW s \in Servers, ReadForMetrics(s) PROVE BootIInv'
  <2>1. PICK at \in {"metrics", "validating"} : Proceed(s, at) /\ (at = "metrics" => checksum = "before metrics")
    BY Zenon, <1>6 DEF ReadForMetrics
  <2>2. UNCHANGED <<parts, checksum>>
    BY Zenon, <1>6 DEF ReadForMetrics
  <2>3. at = "metrics" => PartsOf("before metrics") \subseteq parts
    BY Zenon, <2>1 DEF BootIInv, ChecksumIsCovered
  <2> QED BY Zenon, <2>1, <2>2, <2>3, <1>s, OnlyMoves
<1>7. ASSUME NEW s \in Servers, migrateExecutionMetrics(s) PROVE BootIInv'
  <2>1. CASE "metrics" \in parts
    <3>1. Proceed(s, "refused") /\ UNCHANGED <<parts, checksum>>
      BY Zenon, <1>7, <2>1 DEF migrateExecutionMetrics
    <3> QED BY Zenon, <3>1, <1>s, OnlyMoves
  <2>2. CASE "metrics" \notin parts
    <3>1. /\ boot[s] = "metrics" /\ Proceed(s, "validating")
          /\ parts' = parts \cup {"metrics"} /\ checksum' = "current"
      BY Zenon, <1>7, <2>2 DEF migrateExecutionMetrics, Booting
    <3>2. PartsOf("before metrics") \subseteq parts /\ parts \subseteq PartsOf("current")
      BY Zenon, <3>1 DEF BootIInv
    <3>3. parts \subseteq parts' /\ parts' \subseteq PartsOf("current") /\ PartsOf(checksum') \subseteq parts'
      BY Zenon, <3>1, <3>2, Tables
    <3> QED BY Zenon, <3>1, <3>3, Transaction
  <2> QED BY Zenon, <2>1, <2>2
<1>8. ASSUME NEW s \in Servers, Validate(s) PROVE BootIInv'
  <2>1. PICK at \in {"serving", "refused"} : Proceed(s, at) /\ (at = "serving" => checksum = "current")
    BY Zenon, <1>8 DEF Validate
  <2>2. UNCHANGED <<parts, checksum>>
    BY Zenon, <1>8 DEF Validate
  <2>3. at = "serving" => PartsOf("current") \subseteq parts
    BY Zenon, <2>1 DEF BootIInv, ChecksumIsCovered
  <2> QED BY Zenon, <2>1, <2>2, <2>3, <1>s, OnlyMoves
<1>9. ASSUME NEW s \in Servers, Die(s) PROVE BootIInv'
  BY Zenon, <1>9, <1>s, OnlyMoves DEF Die
<1>10. CASE UNCHANGED bootVars
  BY Zenon, <1>10 DEF bootVars, BootIInv, ChecksumIsCovered
<1> QED
  BY Zenon, <1>1, <1>2, <1>3, <1>4, <1>5, <1>6, <1>7, <1>8, <1>9, <1>10 DEF BootstrapNext, BootStep

(* The inductive invariant of starting servers.                              *)
THEOREM BootInvariant == BootstrapSpec => []BootIInv
  BY BootInitIInv, BootNextIInv, PTL DEF BootstrapSpec

(* The checksum in schema_metadata never claims tables or columns that the   *)
(* file does not have (bootstrap.go:58-74, 85-103, 107-120).                 *)
THEOREM ChecksumAlwaysCovered == BootstrapSpec => []ChecksumIsCovered
<1>1. BootIInv => ChecksumIsCovered
  BY Zenon DEF BootIInv
<1> QED BY <1>1, BootInvariant, PTL

(* openPersistence returns only with the whole schema in the file, whoever   *)
(* else migrates it at the same time.                                        *)
THEOREM ServedAlwaysWhole == BootstrapSpec => []ServedIsWhole
<1>1. BootIInv => ServedIsWhole
  BY Zenon DEF BootIInv, ServedIsWhole
<1> QED BY <1>1, BootInvariant, PTL

-----------------------------------------------------------------------------
(* Directories *)

(* A set of natural numbers that is not empty has a least element.           *)
LEMMA LeastNatural ==
    ASSUME NEW S, S \subseteq Nat, S # {}
    PROVE  \E m \in S : \A n \in S : m <= n
<1> DEFINE R == {ss \in Nat \X Nat : ss[1] < ss[2]}
<1>1. IsWellFoundedOn(R, Nat)
  BY Zenon, NatLessThanWellFounded DEF OpToRel
<1> HIDE DEF R
<1>2. PICK m \in S : \A n \in S : ~(<<n, m>> \in R)
  BY Zenon, <1>1, WFMin
<1>3. \A n \in S : <<n, m>> \in Nat \X Nat
  BY <1>2
<1>4. \A n \in S : ~(n < m)
  BY <1>2, <1>3 DEF R
<1> QED BY <1>2, <1>4

\* What the directories above the entries up to m are to be.
AboveUpTo(up, parent, m) ==
    /\ up = [q \in 0..m |-> up[q]]
    /\ up[0] = {}
    /\ \A q \in 1..m : up[q] = {parent[q]} \cup up[parent[q]]

\* An entry comes after the directory it is in.
IsTree(parent, n) == parent \in [1..n -> 0..n] /\ \A q \in 1..n : parent[q] < q

(* The directories above the entries exist, one entry after the other.       *)
LEMMA AboveExists ==
    ASSUME NEW n \in Nat, NEW parent, IsTree(parent, n)
    PROVE  \A m \in 0..n : \E up : AboveUpTo(up, parent, m)
<1> DEFINE bad == {m \in 0..n : ~ \E up : AboveUpTo(up, parent, m)}
<1> SUFFICES ASSUME bad # {} PROVE FALSE
  OBVIOUS
<1>1. bad \subseteq Nat
  OBVIOUS
<1>2. PICK m \in bad : \A k \in bad : m <= k
  <2> HIDE DEF bad
  <2> QED BY Zenon, <1>1, LeastNatural
<1>3. m \in 0..n /\ ~ \E up : AboveUpTo(up, parent, m)
  OBVIOUS
<1>4. CASE m = 0
  <2>1. AboveUpTo([q \in 0..0 |-> {}], parent, 0)
    BY DEF AboveUpTo
  <2> QED BY Zenon, <1>3, <1>4, <2>1
<1>5. CASE m # 0
  <2>1. m - 1 \in 0..n /\ ~(m <= m - 1) /\ m \in Nat /\ m - 1 \in Nat /\ m \in 1..n
    BY <1>3, <1>5
  <2>2. PICK before : AboveUpTo(before, parent, m - 1)
    <3>1. m - 1 \notin bad
      <4> HIDE DEF bad
      <4> QED BY Zenon, <1>2, <2>1
    <3> QED BY Zenon, <2>1, <3>1
  <2> DEFINE up == [q \in 0..m |-> IF q = m THEN {parent[m]} \cup before[parent[m]] ELSE before[q]]
  <2>3. \A q \in 1..m : parent[q] \in 0..m /\ parent[q] # m /\ q \in 0..m /\ (q # m => q \in 1..(m - 1))
    BY <2>1 DEF IsTree
  <2>4. 0 \in 0..m /\ 0 # m
    BY <1>5, <2>1
  <2>5. up[0] = {} /\ up = [q \in 0..m |-> up[q]]
    BY Zenon, <2>2, <2>4 DEF AboveUpTo
  <2>6. ASSUME NEW q \in 1..m PROVE up[q] = {parent[q]} \cup up[parent[q]]
    <3>1. up[parent[q]] = before[parent[q]]
      BY Zenon, <2>3
    <3>2. CASE q = m
      BY Zenon, <2>3, <3>1, <3>2
    <3>3. CASE q # m
      BY Zenon, <2>2, <2>3, <3>1, <3>3 DEF AboveUpTo
    <3> QED BY Zenon, <3>2, <3>3
  <2>7. AboveUpTo(up, parent, m)
    <3> HIDE DEF up
    <3> QED BY Zenon, <2>5, <2>6 DEF AboveUpTo
  <2> QED BY Zenon, <1>3, <2>7
<1> QED BY Zenon, <1>4, <1>5

(* DirectoriesAbove is the function it is defined to be.                     *)
LEMMA AboveDefined ==
    ASSUME NEW n \in Nat, NEW parent, IsTree(parent, n)
    PROVE  AboveUpTo(DirectoriesAbove(parent), parent, n)
<1> DEFINE Rec(f) == f = [q \in 0..n |-> IF q = 0 THEN {} ELSE {parent[q]} \cup f[parent[q]]]
           up == DirectoriesAbove(parent)
<1>1. n \in 0..n /\ DOMAIN parent \cup {0} = 0..n /\ 0 \in 0..n
      /\ \A q \in 1..n : q # 0 /\ q \in 0..n
  BY DEF IsTree
<1>2. PICK f : AboveUpTo(f, parent, n)
  BY Zenon, <1>1, AboveExists
<1>3. Rec(f)
  <2>1. ASSUME NEW q \in 0..n PROVE f[q] = IF q = 0 THEN {} ELSE {parent[q]} \cup f[parent[q]]
    <3>1. CASE q = 0
      BY Zenon, <1>2, <3>1 DEF AboveUpTo
    <3>2. CASE q # 0
      <4>1. q \in 1..n
        BY <3>2
      <4> QED BY Zenon, <1>2, <3>2, <4>1 DEF AboveUpTo
    <3> QED BY Zenon, <3>1, <3>2
  <2>2. f = [q \in 0..n |-> f[q]]
    BY Zenon, <1>2 DEF AboveUpTo
  <2> QED BY Zenon, <2>1, <2>2
<1>4. up = CHOOSE g : Rec(g)
  BY Zenon, <1>1 DEF DirectoriesAbove
<1>5. Rec(up)
  <2> HIDE DEF Rec, up
  <2> QED BY Zenon, <1>3, <1>4
<1> HIDE DEF up
<1>6. up[0] = {} /\ \A q \in 1..n : up[q] = {parent[q]} \cup up[parent[q]]
  BY Zenon, <1>1, <1>5
<1>7. up = [q \in 0..n |-> up[q]]
  BY Zenon, <1>5
<1> QED BY Zenon, <1>6, <1>7 DEF AboveUpTo, up

\* What holds of the directories above an entry
AboveInv(up, parent, n, p) ==
    /\ 0 \in up[p]
    /\ \A q \in up[p] : q \in 0..n /\ q < p
    /\ \A q \in up[p] : up[q] \subseteq up[p]
    /\ \A x \in up[p] : \E c \in 1..n : parent[c] = x /\ (c = p \/ c \in up[p])

(* The directories above an entry come before it, theirs are among them, and *)
(* below each of them lies one of them or the entry.                         *)
LEMMA AboveFacts ==
    ASSUME NEW n \in Nat, NEW parent, IsTree(parent, n), NEW p \in 1..n
    PROVE  AboveInv(DirectoriesAbove(parent), parent, n, p)
<1> DEFINE up == DirectoriesAbove(parent)
           bad == {q \in 1..n : ~AboveInv(up, parent, n, q)}
<1> SUFFICES ASSUME bad # {} PROVE FALSE
  OBVIOUS
<1>1. bad \subseteq Nat
  OBVIOUS
<1>2. PICK m \in bad : \A k \in bad : m <= k
  <2> HIDE DEF bad
  <2> QED BY Zenon, <1>1, LeastNatural
<1>3. m \in 1..n /\ ~AboveInv(up, parent, n, m)
  OBVIOUS
<1> HIDE DEF bad
<1>4. up[0] = {} /\ \A q \in 1..n : up[q] = {parent[q]} \cup up[parent[q]]
  BY Zenon, AboveDefined DEF AboveUpTo
<1> HIDE DEF up
<1> DEFINE d == parent[m]
<1>5. d \in 0..n /\ d < m /\ m \in Nat /\ d \in Nat
  BY <1>3 DEF IsTree
<1> HIDE DEF d
<1>6. up[m] = {d} \cup up[d]
  BY Zenon, <1>3, <1>4 DEF d
<1>7. CASE d = 0
  <2>1. up[m] = {0}
    BY Zenon, <1>4, <1>6, <1>7
  <2>2. AboveInv(up, parent, n, m)
    <3>1. 0 \in 0..n /\ 0 < m
      BY <1>5, <1>7
    <3>2. parent[m] = 0
      BY Zenon, <1>7 DEF d
    <3> QED BY Zenon, <1>3, <1>4, <2>1, <3>1, <3>2 DEF AboveInv
  <2> QED BY Zenon, <1>3, <2>2
<1>8. CASE d # 0
  <2>1. d \in 1..n /\ ~(m <= d)
    BY <1>5, <1>8
  <2>2. AboveInv(up, parent, n, d)
    BY Zenon, <1>2, <2>1 DEF bad
  <2>3. 0 \in up[m]
    BY Zenon, <1>6, <2>2 DEF AboveInv
  <2>4. ASSUME NEW q \in up[m] PROVE q \in 0..n /\ q < m /\ up[q] \subseteq up[m]
    <3>1. CASE q = d
      BY Zenon, <1>5, <1>6, <3>1
    <3>2. CASE q \in up[d]
      <4>1. q \in 0..n /\ q < d /\ up[q] \subseteq up[d]
        BY Zenon, <2>2, <3>2 DEF AboveInv
      <4>2. q < m
        BY <1>5, <4>1
      <4> QED BY Zenon, <1>6, <4>1, <4>2
    <3> QED BY Zenon, <1>6, <3>1, <3>2
  <2>5. ASSUME NEW x \in up[m] PROVE \E c \in 1..n : parent[c] = x /\ (c = m \/ c \in up[m])
    <3>1. CASE x = d
      BY Zenon, <1>3, <3>1 DEF d
    <3>2. CASE x \in up[d]
      <4>1. PICK c \in 1..n : parent[c] = x /\ (c = d \/ c \in up[d])
        BY Zenon, <2>2, <3>2 DEF AboveInv
      <4> QED BY Zenon, <1>6, <4>1
    <3> QED BY Zenon, <1>6, <3>1, <3>2
  <2> QED BY Zenon, <1>3, <2>3, <2>4, <2>5 DEF AboveInv
<1> QED BY Zenon, <1>7, <1>8

-----------------------------------------------------------------------------
(* The index of a storage *)

TreeAbove == DirectoriesAbove(storageTree.in)
Root == IndexRoots[rootAt]
WholePages == \A dir \in Names \cup {0} : ChildrenOf(dir) = FirstPage(dir)

\* A call of walk at depth i - 1: its directory is the root or was counted, and
\* what is left of it was not.
CallInv(call, i, seen) ==
    /\ call.dir \in Names \cup {0}
    /\ call.dir = Root \/ (Root \in TreeAbove[call.dir] /\ <<rootAt, call.dir>> \in seen)
    /\ Cardinality(Path(call.dir, Root)) = i - 1
    /\ i - 1 <= IndexDepth
    /\ call.left \subseteq ChildrenOf(call.dir)
    /\ \A x \in call.left : <<rootAt, x>> \notin seen

\* Every name is counted after the directory it is in.
CountedInv ==
    /\ counted \subseteq AllIndexable
    /\ indexed = Cardinality(counted) /\ indexed <= IndexLimit
    /\ \A c \in counted : c[1] <= rootAt /\ (walking = <<>> => c[1] < rootAt)
    /\ \A c \in counted :
         storageTree.in[c[2]] = IndexRoots[c[1]] \/ <<c[1], storageTree.in[c[2]]>> \in counted

\* The way to p leads over an entry that is left.
Pending(p) == \E i \in 1..Len(walking) : \E x \in walking[i].left : x \in Path(p, Root)

\* What is to be counted was counted or will be.
CompleteInv ==
    WholePages =>
      \A j \in DOMAIN IndexRoots : \A p \in Indexable(IndexRoots[j]) :
        \/ <<j, p>> \in counted
        \/ indexed >= IndexLimit
        \/ j > rootAt
        \/ j = rootAt /\ (walking = <<>> \/ Pending(p))

CallType == [dir : Names \cup {0}, left : SUBSET Names]

\* The invariant of the walk
WalkInv ==
    /\ rootAt \in Nat \ {0} /\ indexed \in Nat
    /\ walking \in Seq(CallType)
    /\ walking # <<>> => rootAt \in DOMAIN IndexRoots /\ indexed < IndexLimit
    /\ \A i \in 1..Len(walking) : CallInv(walking[i], i, counted)
    /\ CountedInv
    /\ CompleteInv

IndexIInv ==
    /\ storageTree \in Trees /\ indexPolicy \in Policies
    /\ WalkInv
    /\ indexing = "idle" => /\ rootAt = 1 /\ walking = <<>> /\ indexed = 0 /\ counted = {}
                            /\ indexRun = [status |-> "none", entries |-> 0]
    /\ indexRun.entries \in Nat /\ indexRun.entries <= IndexLimit
    /\ indexRun.status = "completed" =>
         /\ indexing = "over" /\ indexRun.entries = indexed
         /\ walking = <<>> /\ rootAt > Len(IndexRoots)

(* The tree of a storage                                                     *)
LEMMA TreeShape ==
    ASSUME storageTree \in Trees
    PROVE  /\ Names \subseteq Nat /\ 0 \notin Names /\ IsFiniteSet(Names)
           /\ TreeAbove[0] = {}
           /\ \A c \in Names : /\ storageTree.in[c] \in Names \cup {0} /\ storageTree.in[c] < c
                               /\ TreeAbove[c] = {storageTree.in[c]} \cup TreeAbove[storageTree.in[c]]
                               /\ storageTree.in[c] # 0 => storageTree.type[storageTree.in[c]] = "directory"
           /\ \A p \in Names : \A q \in TreeAbove[p] :
                /\ q \in Names \cup {0} /\ q < p /\ TreeAbove[q] \subseteq TreeAbove[p]
                /\ \E c \in Names : storageTree.in[c] = q /\ (c = p \/ c \in TreeAbove[p])
<1> DEFINE n == Cardinality(Names)
           parent == storageTree.in
<1>1. n \in Nat /\ Names = 1..n /\ IsFiniteSet(Names)
  BY IndexAssumption, FS_CardinalityType
<1>2. parent \in [Names -> Names \cup {0}] /\ \A p \in Names : parent[p] < p /\ parent[p] \in Names \cup {0}
  BY IndexAssumption
<1>3. \A p \in Names : parent[p] # 0 => storageTree.type[parent[p]] = "directory"
  BY Zenon, IndexAssumption
<1> HIDE DEF n, parent
<1>4. Names \cup {0} = 0..n
  BY <1>1
<1>5. IsTree(parent, n)
  BY Zenon, <1>1, <1>2, <1>4 DEF IsTree
<1>6. TreeAbove = DirectoriesAbove(parent)
  BY Zenon DEF TreeAbove, parent
<1>7. TreeAbove[0] = {} /\ \A c \in Names : TreeAbove[c] = {parent[c]} \cup TreeAbove[parent[c]]
  <2>1. AboveUpTo(DirectoriesAbove(parent), parent, n)
    BY Zenon, <1>1, <1>5, AboveDefined
  <2> QED BY Zenon, <1>1, <1>6, <2>1 DEF AboveUpTo
<1>8. ASSUME NEW p \in Names, NEW q \in TreeAbove[p]
      PROVE  /\ q \in Names \cup {0} /\ q < p /\ TreeAbove[q] \subseteq TreeAbove[p]
             /\ \E c \in Names : parent[c] = q /\ (c = p \/ c \in TreeAbove[p])
  <2>1. AboveInv(TreeAbove, parent, n, p)
    BY Zenon, <1>1, <1>5, <1>6, AboveFacts
  <2> QED BY Zenon, <1>1, <1>4, <2>1 DEF AboveInv
<1>9. Names \subseteq Nat /\ 0 \notin Names
  BY <1>1
<1> QED BY Zenon, <1>1, <1>2, <1>3, <1>7, <1>8, <1>9 DEF parent

(* The limits and the roots of a call                                        *)
LEMMA LimitFacts ==
    ASSUME indexPolicy \in Policies
    PROVE  IndexLimit \in Nat /\ IndexLimit > 0 /\ IndexDepth \in Nat /\ IndexRoots \in Seq(Nat)
<1>1. indexPolicy.limit \in Int /\ indexPolicy.depth \in Int /\ indexPolicy.roots \in Seq(Nat)
  BY IndexAssumption
<1>2. IndexLimit \in Nat /\ IndexLimit > 0
  BY <1>1, IndexAssumption DEF IndexLimit
<1>3. IndexDepth \in Nat
  BY <1>1, IndexAssumption DEF IndexDepth
<1>4. IndexRoots \in Seq(Nat)
  BY Zenon, <1>1, IndexAssumption DEF IndexRoots
<1> QED BY Zenon, <1>2, <1>3, <1>4

(* Paths are finite.                                                         *)
LEMMA PathFinite ==
    ASSUME storageTree \in Trees, NEW p, NEW r
    PROVE  IsFiniteSet(Path(p, r)) /\ Cardinality(Path(p, r)) \in Nat /\ Path(p, r) \subseteq Names
<1>1. Path(p, r) \subseteq Names
  BY Zenon DEF Path
<1>2. IsFiniteSet(Path(p, r))
  BY Zenon, <1>1, TreeShape, FS_Subset
<1> QED BY Zenon, <1>1, <1>2, FS_CardinalityType

(* No way leads from a root to itself.                                       *)
LEMMA PathOfRoot ==
    ASSUME storageTree \in Trees, NEW r \in Names \cup {0}
    PROVE  Path(r, r) = {} /\ Cardinality(Path(r, r)) = 0
<1>1. ASSUME NEW q \in Names, q = r \/ q \in TreeAbove[r], r \in TreeAbove[q] PROVE FALSE
  <2>1. r < q
    BY Zenon, <1>1, TreeShape
  <2>2. q = r \/ q < r
    <3>1. CASE r = 0
      BY Zenon, <1>1, <3>1, TreeShape
    <3>2. CASE r # 0
      BY Zenon, <1>1, <3>2, TreeShape
    <3> QED BY Zenon, <3>1, <3>2
  <2>3. q \in Nat /\ r \in Nat
    <3>1. ASSUME NEW z \in Names \cup {0} PROVE z \in Nat
      BY <3>1, TreeShape
    <3> QED BY Zenon, <3>1
  <2> QED BY <2>1, <2>2, <2>3
<1>2. Path(r, r) = {}
  BY Zenon, <1>1 DEF Path, TreeAbove
<1> QED BY Zenon, <1>2, FS_EmptySet

(* The way to an entry of a directory is one longer than that to the         *)
(* directory.                                                                *)
LEMMA PathOfChild ==
    ASSUME storageTree \in Trees, NEW c \in Names, NEW r,
           storageTree.in[c] = r \/ r \in TreeAbove[storageTree.in[c]]
    PROVE  /\ Path(c, r) = Path(storageTree.in[c], r) \cup {c}
           /\ c \notin Path(storageTree.in[c], r)
           /\ Cardinality(Path(c, r)) = Cardinality(Path(storageTree.in[c], r)) + 1
           /\ r \in TreeAbove[c] /\ r # c
<1> DEFINE dir == storageTree.in[c]
<1>0. dir = r \/ r \in TreeAbove[dir]
  BY Zenon
<1>1. TreeAbove[c] = {dir} \cup TreeAbove[dir] /\ dir \in Names \cup {0} /\ dir < c
  BY Zenon, TreeShape
<1> HIDE DEF dir
<1>2. r \in TreeAbove[c]
  BY Zenon, <1>0, <1>1
<1>3. c \in Nat /\ r \in Nat /\ r < c /\ dir \in Nat
  <2>1. r \in Names \cup {0} /\ r < c
    BY Zenon, <1>2, TreeShape
  <2>2. ASSUME NEW z \in Names \cup {0} PROVE z \in Nat
    BY <2>2, TreeShape
  <2> QED BY Zenon, <1>1, <2>1, <2>2
<1>4. c # dir /\ c \notin TreeAbove[dir] /\ r # c
  <2>1. c # dir /\ r # c
    BY <1>1, <1>3
  <2>2. ASSUME c \in TreeAbove[dir] PROVE FALSE
    <3>1. dir # 0
      BY Zenon, <2>2, TreeShape
    <3>2. c < dir
      BY Zenon, <1>1, <2>2, <3>1, TreeShape
    <3> QED BY <1>1, <1>3, <3>2
  <2> QED BY Zenon, <2>1, <2>2
<1>5. c \notin Path(dir, r)
  BY Zenon, <1>4 DEF Path, TreeAbove
<1>6. Path(c, r) = Path(dir, r) \cup {c}
  <2>1. \A q \in Names : (q = c \/ q \in TreeAbove[c]) <=> (q = c \/ q = dir \/ q \in TreeAbove[dir])
    BY Zenon, <1>1
  <2>2. \A x, q : q \in Path(x, r) <=> q \in Names /\ (q = x \/ q \in TreeAbove[x]) /\ r \in TreeAbove[q]
    BY Zenon DEF Path, TreeAbove
  <2> QED BY Zenon, <1>2, <2>1, <2>2
<1>7. Cardinality(Path(c, r)) = Cardinality(Path(dir, r)) + 1
  <2> DEFINE S == Path(dir, r)
  <2>1. IsFiniteSet(S)
    BY Zenon, PathFinite
  <2> HIDE DEF S
  <2>2. Cardinality(S \cup {c}) = Cardinality(S) + 1
    BY <1>5, <2>1, FS_AddElement DEF S
  <2> QED BY Zenon, <1>6, <2>2 DEF S
<1> QED BY Zenon, <1>2, <1>4, <1>5, <1>6, <1>7 DEF dir

(* A step within a call leaves what is derived from its tree and policy.     *)
LEMMA SameTree ==
    ASSUME UNCHANGED <<storageTree, indexPolicy>>
    PROVE  /\ IndexLimit' = IndexLimit /\ IndexDepth' = IndexDepth /\ IndexRoots' = IndexRoots
           /\ TreeAbove' = TreeAbove /\ AllIndexable' = AllIndexable /\ WholePages' = WholePages
           /\ \A p, r : Path(p, r)' = Path(p, r)
           /\ \A r : Indexable(r)' = Indexable(r)
           /\ \A d : ChildrenOf(d)' = ChildrenOf(d)
<1>1. IndexLimit' = IndexLimit /\ IndexDepth' = IndexDepth /\ IndexRoots' = IndexRoots /\ TreeAbove' = TreeAbove
  BY Zenon DEF IndexLimit, IndexDepth, IndexRoots, TreeAbove
<1>2. \A p, r : Path(p, r)' = Path(p, r)
  BY Zenon DEF Path
<1>3. \A d : ChildrenOf(d)' = ChildrenOf(d)
  BY Zenon DEF ChildrenOf
<1>4. \A d : FirstPage(d)' = FirstPage(d)
  BY Zenon, <1>3 DEF FirstPage
<1>5. WholePages' = WholePages
  BY Zenon, <1>3, <1>4 DEF WholePages
<1>6. \A r : Indexable(r)' = Indexable(r)
  BY Zenon, <1>1, <1>2 DEF Indexable, IsDirectory, excluded, included
<1>7. AllIndexable' = AllIndexable
  BY Zenon, <1>1, <1>6 DEF AllIndexable
<1> QED BY Zenon, <1>1, <1>2, <1>3, <1>5, <1>6, <1>7

\* The calls after an entry of the last one is taken
Taken(x) == Append(Calls, [TopCall EXCEPT !.left = @ \ {x}])

(* A sequence without its last element                                       *)
LEMMA WithoutLast ==
    ASSUME NEW S, NEW w \in Seq(S), w # <<>>
    PROVE  /\ SubSeq(w, 1, Len(w) - 1) \in Seq(S) /\ Len(SubSeq(w, 1, Len(w) - 1)) = Len(w) - 1
           /\ \A i \in 1..Len(SubSeq(w, 1, Len(w) - 1)) : SubSeq(w, 1, Len(w) - 1)[i] = w[i]
<1> DEFINE n == Len(w) - 1
<1>1. n \in Int /\ 1 \in Int /\ n \in Nat
  OBVIOUS
<1>2. \A i \in 1..n : w[i] \in S
  OBVIOUS
<1> HIDE DEF n
<1>3. SubSeq(w, 1, n) \in Seq(S) /\ Len(SubSeq(w, 1, n)) = (IF 1 <= n THEN n - 1 + 1 ELSE 0)
      /\ \A i \in 1..(n - 1 + 1) : SubSeq(w, 1, n)[i] = w[1 + i - 1]
  BY <1>1, <1>2
<1> DEFINE u == SubSeq(w, 1, n)
<1>4. u \in Seq(S) /\ Len(u) = (IF 1 <= n THEN n - 1 + 1 ELSE 0) /\ \A i \in 1..(n - 1 + 1) : u[i] = w[1 + i - 1]
  BY Zenon, <1>3
<1> HIDE DEF u
<1>5. Len(u) = n /\ n - 1 + 1 = n /\ \A i \in 1..n : 1 + i - 1 = i
  BY <1>1, <1>4
<1>6. u \in Seq(S) /\ Len(u) = n /\ \A i \in 1..n : u[i] = w[i]
  BY Zenon, <1>4, <1>5
<1> QED BY Zenon, <1>6 DEF u, n

(* What is left of a call without an entry                                   *)
LEMMA CallExcept ==
    ASSUME NEW t \in CallType, NEW x
    PROVE  /\ [t EXCEPT !.left = @ \ {x}] \in CallType
           /\ [t EXCEPT !.left = @ \ {x}] = [dir |-> t.dir, left |-> t.left \ {x}]
BY DEF CallType

(* Taking an entry or returning changes the last call only.                  *)
LEMMA CallsFacts ==
    ASSUME walking \in Seq(CallType), walking # <<>>
    PROVE  /\ Len(walking) \in Nat /\ Len(walking) \in 1..Len(walking) /\ TopCall \in CallType
           /\ Calls \in Seq(CallType) /\ Len(Calls) = Len(walking) - 1
           /\ \A i \in 1..Len(Calls) : Calls[i] = walking[i] /\ i \in 1..Len(walking)
           /\ \A i \in 1..Len(walking) : i \in 1..Len(Calls) \/ (i = Len(walking) /\ walking[i] = TopCall)
           /\ \A x \in Names :
                /\ Taken(x) \in Seq(CallType) /\ Len(Taken(x)) = Len(walking)
                /\ Taken(x)[Len(walking)] = [dir |-> TopCall.dir, left |-> TopCall.left \ {x}]
                /\ \A i \in 1..Len(walking) : i = Len(walking) \/ (Taken(x)[i] = walking[i] /\ i # Len(walking))
<1>1. Len(walking) \in Nat /\ Len(walking) \in 1..Len(walking) /\ TopCall \in CallType
  BY DEF TopCall
<1>2. Calls \in Seq(CallType) /\ Len(Calls) = Len(walking) - 1 /\ \A i \in 1..Len(Calls) : Calls[i] = walking[i]
  BY Zenon, WithoutLast DEF Calls
<1>3. /\ \A i \in 1..Len(Calls) : i \in 1..Len(walking)
      /\ \A i \in 1..Len(walking) : i \in 1..Len(Calls) \/ (i = Len(walking) /\ walking[i] = TopCall)
  BY <1>1, <1>2 DEF TopCall
<1>4. ASSUME NEW x \in Names
      PROVE  /\ Taken(x) \in Seq(CallType) /\ Len(Taken(x)) = Len(walking)
             /\ Taken(x)[Len(walking)] = [dir |-> TopCall.dir, left |-> TopCall.left \ {x}]
             /\ \A i \in 1..Len(walking) : i = Len(walking) \/ (Taken(x)[i] = walking[i] /\ i # Len(walking))
  <2> DEFINE last == [TopCall EXCEPT !.left = @ \ {x}]
  <2>1. last \in CallType /\ last = [dir |-> TopCall.dir, left |-> TopCall.left \ {x}]
    BY Zenon, <1>1, CallExcept
  <2>2. Taken(x) = Append(Calls, last)
    BY Zenon DEF Taken
  <2> HIDE DEF last
  <2>3. Taken(x) \in Seq(CallType) /\ Len(Taken(x)) = Len(walking) /\ Taken(x)[Len(walking)] = last
        /\ \A i \in 1..Len(Calls) : Taken(x)[i] = Calls[i]
    BY <1>1, <1>2, <2>1, <2>2
  <2>4. \A i \in 1..Len(walking) : i = Len(walking) \/ i \in 1..Len(Calls)
    BY <1>1, <1>2
  <2>5. Len(walking) \notin 1..Len(Calls)
    BY <1>1, <1>2
  <2> QED BY Zenon, <1>2, <2>1, <2>3, <2>4, <2>5
<1> QED BY Zenon, <1>1, <1>2, <1>3, <1>4

\* What is known when a call is at work
AtWork == storageTree \in Trees /\ indexPolicy \in Policies /\ WalkInv /\ walking # <<>>

(* An entry that is left was not counted, and is as far from the root as the *)
(* stack is high.                                                            *)
LEMMA EntryFacts ==
    ASSUME AtWork, NEW x \in TopCall.left
    PROVE  /\ x \in Names /\ storageTree.in[x] = TopCall.dir /\ <<rootAt, x>> \notin counted
           /\ CallInv(TopCall, Len(walking), counted)
           /\ Path(x, Root) = Path(TopCall.dir, Root) \cup {x}
           /\ Cardinality(Path(x, Root)) = Len(walking)
           /\ Root \in TreeAbove[x] /\ Root # x
           /\ \A i \in 1..Len(Calls) : x \notin walking[i].left
<1> DEFINE k == Len(walking)
<1>1. k \in Nat /\ k \in 1..k /\ walking[k] = TopCall /\ Len(Calls) = k - 1
      /\ \A i \in 1..Len(Calls) : i \in 1..k
  BY Zenon, CallsFacts DEF AtWork, WalkInv, TopCall
<1>2. \A i \in 1..k : CallInv(walking[i], i, counted)
  BY Zenon DEF AtWork, WalkInv
<1>3. CallInv(TopCall, k, counted)
  BY Zenon, <1>1, <1>2
<1>4. x \in Names /\ storageTree.in[x] = TopCall.dir /\ <<rootAt, x>> \notin counted
  BY Zenon, <1>3 DEF CallInv, ChildrenOf
<1>5. /\ Path(x, Root) = Path(TopCall.dir, Root) \cup {x}
      /\ Cardinality(Path(x, Root)) = Cardinality(Path(TopCall.dir, Root)) + 1
      /\ Root \in TreeAbove[x] /\ Root # x
  <2>1. TopCall.dir = Root \/ Root \in TreeAbove[TopCall.dir]
    BY Zenon, <1>3 DEF CallInv
  <2>2. storageTree \in Trees
    BY Zenon DEF AtWork
  <2> DEFINE r == Root
             d == TopCall.dir
  <2>3. storageTree.in[x] = r \/ r \in TreeAbove[storageTree.in[x]]
    BY Zenon, <1>4, <2>1
  <2>4. storageTree.in[x] = d
    BY Zenon, <1>4
  <2> HIDE DEF r, d
  <2>5. Path(x, r) = Path(d, r) \cup {x} /\ Cardinality(Path(x, r)) = Cardinality(Path(d, r)) + 1
        /\ r \in TreeAbove[x] /\ r # x
    BY Zenon, <1>4, <2>2, <2>3, <2>4, PathOfChild
  <2> QED BY Zenon, <2>5 DEF r, d
<1>6. Cardinality(Path(TopCall.dir, Root)) = k - 1
  BY Zenon, <1>3 DEF CallInv
<1>7. Cardinality(Path(x, Root)) = k
  BY <1>1, <1>5, <1>6
<1>8. ASSUME NEW i \in 1..Len(Calls), x \in walking[i].left PROVE FALSE
  <2>1. CallInv(walking[i], i, counted)
    BY Zenon, <1>1, <1>2
  <2>2. storageTree.in[x] = walking[i].dir /\ Cardinality(Path(walking[i].dir, Root)) = i - 1
    BY Zenon, <1>8, <2>1 DEF CallInv, ChildrenOf
  <2>3. i - 1 = k - 1
    BY Zenon, <1>4, <1>6, <2>2
  <2> QED BY <1>1, <2>3
<1> QED BY Zenon, <1>3, <1>4, <1>5, <1>7, <1>8

(* What the walk counts is to be counted.                                    *)
LEMMA CountedIsIndexable ==
    ASSUME AtWork, NEW x \in TopCall.left, ~excluded(x), storageTree.type[x] = "directory" \/ included(x)
    PROVE  <<rootAt, x>> \in AllIndexable
<1> DEFINE k == Len(walking)
<1>1. x \in Names /\ CallInv(TopCall, k, counted) /\ Path(x, Root) = Path(TopCall.dir, Root) \cup {x}
      /\ Cardinality(Path(x, Root)) = k
  BY Zenon, EntryFacts
<1>2. storageTree \in Trees /\ indexPolicy \in Policies /\ rootAt \in DOMAIN IndexRoots
  BY Zenon DEF AtWork, WalkInv
<1>3. k <= IndexDepth + 1
  <2>1. k \in Nat
    BY Zenon, CallsFacts DEF AtWork, WalkInv
  <2>2. k - 1 <= IndexDepth /\ IndexDepth \in Nat
    BY Zenon, <1>1, <1>2, LimitFacts DEF CallInv
  <2> QED BY <2>1, <2>2
<1>4. ASSUME NEW q \in Path(TopCall.dir, Root) PROVE ~excluded(q)
  <2>1. TopCall.dir # Root
    <3>1. ASSUME TopCall.dir = Root PROVE FALSE
      <4>1. Root \in Names \cup {0}
        BY Zenon, <1>1, <3>1 DEF CallInv
      <4> QED BY Zenon, <1>2, <1>4, <3>1, <4>1, PathOfRoot
    <3> QED BY Zenon, <3>1
  <2>2. <<rootAt, TopCall.dir>> \in AllIndexable
    BY Zenon, <1>1, <2>1 DEF CallInv, AtWork, WalkInv, CountedInv
  <2>3. TopCall.dir \in Indexable(Root)
    <3> DEFINE d == TopCall.dir
    <3>1. <<rootAt, d>>[2] = d /\ <<rootAt, d>>[1] = rootAt
      OBVIOUS
    <3> HIDE DEF d
    <3> QED BY Zenon, <2>2, <3>1 DEF AllIndexable, Root, d
  <2> QED BY Zenon, <1>4, <2>3 DEF Indexable
<1>5. x \in Indexable(Root)
  BY Zenon, <1>1, <1>3, <1>4 DEF Indexable, IsDirectory
<1>6. <<rootAt, x>>[2] = x /\ <<rootAt, x>>[1] = rootAt /\ <<rootAt, x>> \in (DOMAIN IndexRoots) \X Names
  BY <1>1, <1>2
<1> QED BY Zenon, <1>5, <1>6 DEF AllIndexable, Root

(* What is to be counted below an entry, or as that entry, is not behind one *)
(* that is skipped.                                                          *)
LEMMA SkippedHidesNothing ==
    ASSUME AtWork, NEW x \in TopCall.left, NEW p \in Indexable(Root), x \in Path(p, Root),
           excluded(x) \/ (storageTree.type[x] # "directory" /\ ~included(x))
    PROVE  FALSE
<1>1. ~excluded(x) /\ (IsDirectory(p) \/ included(p)) /\ p \in Names /\ x \in Names
  BY Zenon DEF Indexable, Path
<1>2. storageTree.type[x] # "directory" /\ ~included(x)
  BY Zenon, <1>1
<1>3. storageTree \in Trees
  BY Zenon DEF AtWork
<1>4. x # 0
  BY ZenonT(30), <1>1, <1>3, TreeShape
<1>5. CASE x = p
  BY Zenon, <1>1, <1>2, <1>4, <1>5 DEF IsDirectory
<1>6. CASE x # p
  <2>1. x \in TreeAbove[p]
    BY Zenon, <1>6 DEF Path, TreeAbove
  <2>2. PICK c \in Names : storageTree.in[c] = x
    BY Zenon, <1>1, <1>3, <2>1, TreeShape
  <2>3. storageTree.type[x] = "directory"
    BY Zenon, <1>3, <1>4, <2>2, TreeShape
  <2> QED BY Zenon, <1>2, <2>3
<1> QED BY Zenon, <1>5, <1>6

(* The way to something below a directory leads over one of its entries.     *)
LEMMA NextOnPath ==
    ASSUME storageTree \in Trees, NEW p \in Names, NEW x \in TreeAbove[p], NEW r, x = r \/ r \in TreeAbove[x]
    PROVE  \E c \in ChildrenOf(x) : c \in Path(p, r)
<1>1. PICK c \in Names : storageTree.in[c] = x /\ (c = p \/ c \in TreeAbove[p])
  BY Zenon, TreeShape
<1>2. TreeAbove[c] = {x} \cup TreeAbove[x]
  BY Zenon, <1>1, TreeShape
<1> QED BY Zenon, <1>1, <1>2 DEF ChildrenOf, Path, TreeAbove

(* What is to be counted below an entry is reached from there.               *)
LEMMA EntryIsWalked ==
    ASSUME AtWork, NEW x \in TopCall.left, NEW p \in Indexable(Root), x \in Path(p, Root), p # x
    PROVE  Descends(x) /\ \E c \in ChildrenOf(x) : c \in Path(p, Root)
<1> DEFINE k == Len(walking)
           r == Root
<1>1. storageTree \in Trees /\ indexPolicy \in Policies
  BY Zenon DEF AtWork
<1>2. p \in Names /\ x \in Names /\ x \in TreeAbove[p] /\ r \in TreeAbove[x] /\ r # x /\ Cardinality(Path(x, r)) = k
  BY Zenon, EntryFacts DEF Indexable, Path, TreeAbove
<1>3. k \in Nat /\ IndexDepth \in Nat /\ Cardinality(Path(p, r)) <= IndexDepth + 1
  BY Zenon, <1>1, CallsFacts, LimitFacts DEF AtWork, WalkInv, Indexable
<1> HIDE DEF r
<1>4. PICK c \in ChildrenOf(x) : c \in Path(p, r)
  BY Zenon, <1>1, <1>2, NextOnPath
<1>5. storageTree.in[c] = x /\ c \in Names
  BY Zenon DEF ChildrenOf
<1>6. storageTree.type[x] = "directory"
  BY Zenon, <1>1, <1>2, <1>5, TreeShape
<1>7. storageTree.in[c] = r \/ r \in TreeAbove[storageTree.in[c]]
  BY Zenon, <1>2, <1>5
<1>8. Path(c, r) = Path(x, r) \cup {c} /\ Cardinality(Path(c, r)) = Cardinality(Path(x, r)) + 1
  BY Zenon, <1>1, <1>5, <1>7, PathOfChild
<1>9. Path(c, r) \subseteq Path(p, r)
  <2>1. \A q : q \in TreeAbove[x] => q \in TreeAbove[p]
    BY Zenon, <1>1, <1>2, TreeShape
  <2>2. ASSUME NEW q \in Path(x, r) PROVE q \in Path(p, r)
    BY Zenon, <1>2, <2>1 DEF Path, TreeAbove
  <2> QED BY Zenon, <1>4, <1>8, <2>2
<1>10. Cardinality(Path(c, r)) <= Cardinality(Path(p, r))
  BY Zenon, <1>1, <1>9, PathFinite, FS_Subset
<1>11. Cardinality(Path(p, r)) \in Nat
  BY Zenon, <1>1, PathFinite
<1>12. k - 1 < IndexDepth
  BY <1>2, <1>3, <1>8, <1>10, <1>11
<1> QED BY Zenon, <1>4, <1>6, <1>12 DEF Descends, r

(* Calls that satisfy the invariant of the old root, tree and policy satisfy *)
(* it after a step that leaves them.                                         *)
LEMMA CallsKept ==
    ASSUME UNCHANGED <<storageTree, indexPolicy, rootAt>>, NEW w, NEW seen, walking' = w, counted' = seen,
           \A i \in 1..Len(w) : CallInv(w[i], i, seen)
    PROVE  (\A i \in 1..Len(walking) : CallInv(walking[i], i, counted))'
<1>1. Root' = Root
  BY Zenon, SameTree DEF Root
<1>2. ASSUME NEW i \in 1..Len(w), NEW c, c = w[i]
      PROVE  /\ c.dir \in Names \cup {0}
             /\ c.dir = Root' \/ (Root' \in TreeAbove'[c.dir] /\ <<rootAt', c.dir>> \in seen)
             /\ Cardinality(Path(c.dir, Root)') = i - 1
             /\ i - 1 <= IndexDepth'
             /\ c.left \subseteq ChildrenOf(c.dir)'
             /\ \A x \in c.left : <<rootAt', x>> \notin seen
  <2>1. CallInv(c, i, seen)
    BY Zenon, <1>2
  <2>2. Path(c.dir, Root)' = Path(c.dir, Root) /\ ChildrenOf(c.dir)' = ChildrenOf(c.dir)
        /\ TreeAbove' = TreeAbove /\ IndexDepth' = IndexDepth
    BY Zenon, <1>1, SameTree
  <2> QED BY Zenon, <1>1, <2>1, <2>2 DEF CallInv
<1> QED BY Zenon, <1>2 DEF CallInv

(* What is still to be counted after a step is found on the new stack.       *)
LEMMA CompleteKept ==
    ASSUME AtWork, UNCHANGED <<storageTree, indexPolicy, rootAt>>,
           counted \subseteq counted', indexed' >= indexed, indexed \in Nat, indexed' \in Nat,
           ASSUME NEW p \in Indexable(Root), WholePages, NEW i \in 1..Len(walking),
                  NEW x \in walking[i].left, x \in Path(p, Root)
           PROVE  <<rootAt, p>> \in counted' \/ \E j \in 1..Len(walking') : \E y \in walking'[j].left : y \in Path(p, Root)
    PROVE  CompleteInv'
<1>1. Root' = Root
  BY Zenon, SameTree DEF Root
<1>2. SUFFICES ASSUME WholePages, NEW j \in DOMAIN IndexRoots, NEW p \in Indexable(IndexRoots[j])
               PROVE  \/ <<j, p>> \in counted'
                      \/ indexed' >= IndexLimit
                      \/ j > rootAt
                      \/ j = rootAt /\ (walking' = <<>> \/ Pending(p)')
  BY Zenon, SameTree DEF CompleteInv
<1>3. \/ <<j, p>> \in counted
      \/ indexed >= IndexLimit
      \/ j > rootAt
      \/ j = rootAt /\ Pending(p)
  BY Zenon, <1>2 DEF AtWork, WalkInv, CompleteInv
<1>4. CASE indexed >= IndexLimit
  <2>1. IndexLimit \in Nat
    BY Zenon, LimitFacts DEF AtWork
  <2>2. indexed' >= IndexLimit
    BY <1>4, <2>1
  <2> QED BY Zenon, <2>2
<1>5. CASE j = rootAt /\ Pending(p)
  <2>1. PICK i \in 1..Len(walking) : \E x \in walking[i].left : x \in Path(p, Root)
    BY Zenon, <1>5 DEF Pending
  <2>2. PICK x \in walking[i].left : x \in Path(p, Root)
    BY Zenon, <2>1
  <2>3. p \in Indexable(Root)
    BY Zenon, <1>5 DEF Root
  <2>4. <<rootAt, p>> \in counted' \/ \E m \in 1..Len(walking') : \E y \in walking'[m].left : y \in Path(p, Root)
    BY Zenon, <1>2, <2>2, <2>3
  <2>5. \A y : y \in Path(p, Root)' <=> y \in Path(p, Root)
    BY Zenon, <1>1, SameTree
  <2> QED BY Zenon, <1>1, <1>5, <2>4, <2>5, SameTree DEF Pending
<1> QED BY Zenon, <1>3, <1>4, <1>5

(* An entry that is skipped                                                  *)
LEMMA SkipKeeps ==
    ASSUME AtWork, NEW x \in TopCall.left,
           excluded(x) \/ (storageTree.type[x] # "directory" /\ ~included(x)),
           walking' = Taken(x), UNCHANGED <<storageTree, indexPolicy, rootAt, indexed, counted>>
    PROVE  WalkInv'
<1> DEFINE k == Len(walking)
<1>1. x \in Names /\ CallInv(TopCall, k, counted)
  BY Zenon, EntryFacts
<1>2. walking \in Seq(CallType) /\ walking # <<>>
  BY Zenon DEF AtWork, WalkInv
<1>3. /\ k \in Nat /\ k \in 1..k /\ walking[k] = TopCall
      /\ Taken(x) \in Seq(CallType) /\ Len(Taken(x)) = k
      /\ Taken(x)[k] = [dir |-> TopCall.dir, left |-> TopCall.left \ {x}]
      /\ \A i \in 1..k : i = k \/ (Taken(x)[i] = walking[i] /\ i # k)
  BY Zenon, <1>1, <1>2, CallsFacts DEF TopCall
<1> DEFINE w == Taken(x)
<1>4. w[k].dir = TopCall.dir /\ w[k].left = TopCall.left \ {x}
  BY <1>3
<1>5. w # <<>>
  BY <1>3
<1> HIDE DEF w
<1>6. ASSUME NEW i \in 1..Len(w) PROVE CallInv(w[i], i, counted)
  <2>1. CASE i = k
    BY Zenon, <1>1, <1>4, <2>1 DEF CallInv
  <2>2. CASE i # k
    BY Zenon, <1>3, <2>2 DEF AtWork, WalkInv, w
  <2> QED BY Zenon, <2>1, <2>2
<1>7. (\A i \in 1..Len(walking) : CallInv(walking[i], i, counted))'
  BY Zenon, <1>6, CallsKept DEF w
<1>8. CompleteInv'
  <2>1. ASSUME NEW p \in Indexable(Root), NEW i \in 1..k, NEW y \in walking[i].left, y \in Path(p, Root)
        PROVE  \E j \in 1..Len(w) : \E z \in w[j].left : z \in Path(p, Root)
    <3>1. CASE i = k
      <4>1. y # x
        BY Zenon, <1>3, <2>1, <3>1, SkippedHidesNothing
      <4>2. y \in w[k].left
        BY Zenon, <1>3, <1>4, <3>1, <4>1
      <4> QED BY Zenon, <1>3, <2>1, <4>2 DEF w
    <3>2. CASE i # k
      BY Zenon, <1>3, <2>1, <3>2 DEF w
    <3> QED BY Zenon, <3>1, <3>2
  <2>2. indexed \in Nat /\ indexed >= indexed
    <3>1. indexed \in Nat
      BY Zenon DEF AtWork, WalkInv
    <3> QED BY <3>1
  <2> QED BY Zenon, <2>1, <2>2, CompleteKept DEF w
<1>9. CountedInv'
  <2>1. walking' # <<>>
    BY Zenon, <1>5 DEF w
  <2> QED BY Zenon, <2>1, SameTree DEF AtWork, WalkInv, CountedInv
<1> QED BY Zenon, <1>3, <1>5, <1>7, <1>8, <1>9, SameTree DEF AtWork, WalkInv, w

(* There are finitely many names to count.                                   *)
LEMMA AllIndexableFinite ==
    ASSUME storageTree \in Trees, indexPolicy \in Policies
    PROVE  IsFiniteSet(AllIndexable) /\ AllIndexable \subseteq (DOMAIN IndexRoots) \X Names
<1>1. IndexRoots \in Seq(Nat)
  BY Zenon, LimitFacts
<1>2. DOMAIN IndexRoots = 1..Len(IndexRoots) /\ Len(IndexRoots) \in Nat
  BY <1>1
<1>3. IsFiniteSet(DOMAIN IndexRoots)
  BY <1>2, FS_Interval
<1>4. IsFiniteSet((DOMAIN IndexRoots) \X Names)
  BY Zenon, <1>3, TreeShape, FS_Product
<1>5. AllIndexable \subseteq (DOMAIN IndexRoots) \X Names
  BY Zenon DEF AllIndexable
<1> QED BY Zenon, <1>4, <1>5, FS_Subset

(* A name that is counted is counted once, and after its directory.          *)
LEMMA CountFacts ==
    ASSUME AtWork, NEW x \in TopCall.left, ~excluded(x), storageTree.type[x] = "directory" \/ included(x),
           NEW seen, seen = counted \cup {<<rootAt, x>>}
    PROVE  /\ seen \subseteq AllIndexable /\ indexed \in Nat
           /\ indexed + 1 = Cardinality(seen) /\ indexed + 1 <= IndexLimit
           /\ \A c \in seen : c[1] <= rootAt /\ c[1] < rootAt + 1
           /\ \A c \in seen :
                storageTree.in[c[2]] = IndexRoots[c[1]] \/ <<c[1], storageTree.in[c[2]]>> \in seen
<1>1. storageTree \in Trees /\ indexPolicy \in Policies /\ CountedInv /\ indexed \in Nat /\ indexed < IndexLimit
      /\ rootAt \in Nat
  BY Zenon DEF AtWork, WalkInv
<1>2. x \in Names /\ storageTree.in[x] = TopCall.dir /\ <<rootAt, x>> \notin counted /\ CallInv(TopCall, Len(walking), counted)
  BY Zenon, EntryFacts
<1>3. seen \subseteq AllIndexable
  BY Zenon, <1>1, CountedIsIndexable DEF CountedInv
<1>4. indexed + 1 = Cardinality(seen) /\ indexed + 1 <= IndexLimit
  <2>1. IsFiniteSet(counted)
    BY Zenon, <1>1, AllIndexableFinite, FS_Subset DEF CountedInv
  <2> DEFINE e == <<rootAt, x>>
  <2>2. e \notin counted /\ seen = counted \cup {e}
    BY Zenon, <1>2
  <2> HIDE DEF e
  <2>3. Cardinality(seen) = Cardinality(counted) + 1
    BY <2>1, <2>2, FS_AddElement
  <2>4. IndexLimit \in Nat /\ indexed = Cardinality(counted)
    BY Zenon, <1>1, LimitFacts DEF CountedInv
  <2> QED BY <1>1, <2>3, <2>4
<1>5. <<rootAt, x>>[1] = rootAt /\ <<rootAt, x>>[2] = x
  OBVIOUS
<1>6. ASSUME NEW c \in seen PROVE c[1] <= rootAt /\ c[1] < rootAt + 1
  <2>1. CASE c = <<rootAt, x>>
    <3>1. c[1] = rootAt
      BY Zenon, <1>5, <2>1
    <3> QED BY <1>1, <3>1
  <2>2. CASE c \in counted
    <3>1. c[1] <= rootAt
      BY Zenon, <1>1, <2>2 DEF CountedInv
    <3>2. c[1] \in DOMAIN IndexRoots
      <4>1. c \in (DOMAIN IndexRoots) \X Names
        BY Zenon, <1>1, <2>2, AllIndexableFinite DEF CountedInv
      <4> QED BY <4>1
    <3>3. c[1] \in Nat
      <4>1. IndexRoots \in Seq(Nat)
        BY Zenon, <1>1, LimitFacts
      <4> QED BY <3>2, <4>1
    <3> QED BY <1>1, <3>1, <3>3
  <2> QED BY Zenon, <2>1, <2>2
<1>7. ASSUME NEW c \in seen
      PROVE  storageTree.in[c[2]] = IndexRoots[c[1]] \/ <<c[1], storageTree.in[c[2]]>> \in seen
  <2>1. CASE c = <<rootAt, x>>
    <3>1. c[1] = rootAt /\ c[2] = x
      BY Zenon, <1>5, <2>1
    <3>2. TopCall.dir = IndexRoots[rootAt] \/ <<rootAt, TopCall.dir>> \in counted
      BY Zenon, <1>2 DEF CallInv, Root
    <3> QED BY Zenon, <1>2, <3>1, <3>2
  <2>2. CASE c \in counted
    BY Zenon, <1>1, <2>2 DEF CountedInv
  <2> QED BY Zenon, <2>1, <2>2
<1> QED BY Zenon, <1>1, <1>3, <1>4, <1>6, <1>7

(* An entry that is counted when that reaches the limit                      *)
LEMMA LimitKeeps ==
    ASSUME AtWork, NEW x \in TopCall.left, ~excluded(x), storageTree.type[x] = "directory" \/ included(x),
           indexed' = indexed + 1, counted' = counted \cup {<<rootAt, x>>}, indexed' >= IndexLimit,
           walking' = <<>>, rootAt' = rootAt + 1, UNCHANGED <<storageTree, indexPolicy>>
    PROVE  WalkInv'
<1>1. rootAt \in Nat \ {0} /\ indexed \in Nat
  BY Zenon DEF AtWork, WalkInv
<1>2. rootAt' \in Nat \ {0} /\ indexed' \in Nat
  BY <1>1
<1>3. walking' \in Seq(CallType) /\ Len(walking') = 0 /\ 1..Len(walking') = {}
  OBVIOUS
<1> DEFINE seen == counted'
<1>4. /\ seen \subseteq AllIndexable /\ indexed + 1 = Cardinality(seen) /\ indexed + 1 <= IndexLimit
      /\ \A c \in seen : c[1] <= rootAt /\ c[1] < rootAt + 1
      /\ \A c \in seen :
           storageTree.in[c[2]] = IndexRoots[c[1]] \/ <<c[1], storageTree.in[c[2]]>> \in seen
  BY Zenon, CountFacts
<1>5. ASSUME NEW c \in seen PROVE c[1] <= rootAt' /\ c[1] < rootAt'
  <2>1. c[1] < rootAt'
    BY Zenon, <1>4
  <2>2. c[1] \in Nat
    <3>1. c \in (DOMAIN IndexRoots) \X Names
      BY Zenon, <1>4, AllIndexableFinite DEF AtWork
    <3>2. IndexRoots \in Seq(Nat)
      BY Zenon, LimitFacts DEF AtWork
    <3> QED BY <3>1, <3>2
  <2> QED BY <1>2, <2>1, <2>2
<1>6. CountedInv'
  BY Zenon, <1>4, <1>5, SameTree DEF CountedInv
<1>7. CompleteInv'
  BY Zenon, SameTree DEF CompleteInv
<1> QED BY Zenon, <1>2, <1>3, <1>6, <1>7 DEF WalkInv

(* What a call is made of                                                    *)
LEMMA CallMade ==
    ASSUME NEW d \in Names, NEW l, l \subseteq Names
    PROVE  [dir |-> d, left |-> l] \in CallType
BY DEF CallType

(* The call for a directory that was just counted: nothing in it was.        *)
LEMMA NewCallInv ==
    ASSUME AtWork, NEW x \in TopCall.left, Descends(x), NEW seen, seen = counted \cup {<<rootAt, x>>}
    PROVE  CallInv(Call(x), Len(walking) + 1, seen) /\ Call(x) \in CallType
<1> DEFINE k == Len(walking)
<1>1. /\ x \in Names /\ <<rootAt, x>> \notin counted /\ Cardinality(Path(x, Root)) = k
      /\ Root \in TreeAbove[x] /\ Root # x
  BY Zenon, EntryFacts
<1>2. storageTree \in Trees /\ indexPolicy \in Policies /\ CountedInv /\ k \in Nat
  BY Zenon, CallsFacts DEF AtWork, WalkInv
<1>3. Call(x).dir = x /\ Call(x).left = FirstPage(x) /\ FirstPage(x) \subseteq ChildrenOf(x)
      /\ ChildrenOf(x) \subseteq Names
  BY Zenon DEF Call, FirstPage, ChildrenOf
<1>4. ASSUME NEW y \in ChildrenOf(x) PROVE <<rootAt, y>> \notin seen
  <2>1. y \in Names /\ storageTree.in[y] = x
    BY Zenon DEF ChildrenOf
  <2>2. x < y
    BY Zenon, <1>2, <2>1, TreeShape
  <2>3. x \in Nat /\ y \in Nat
    BY Zenon, <1>1, <1>2, <2>1, TreeShape
  <2>4. <<rootAt, y>> # <<rootAt, x>> /\ <<rootAt, y>>[1] = rootAt /\ <<rootAt, y>>[2] = y
    BY <2>2, <2>3
  <2>5. ASSUME <<rootAt, y>> \in counted PROVE FALSE
    <3>1. x = Root \/ <<rootAt, x>> \in counted
      BY Zenon, <1>2, <2>1, <2>4, <2>5 DEF CountedInv, Root
    <3> QED BY Zenon, <1>1, <3>1
  <2> QED BY Zenon, <2>4, <2>5
<1>5. k + 1 - 1 = k /\ k <= IndexDepth
  <2>1. k - 1 < IndexDepth /\ IndexDepth \in Nat
    BY Zenon, <1>2, LimitFacts DEF Descends
  <2> QED BY <1>2, <2>1
<1>6. Call(x) \in CallType
  BY Zenon, <1>1, <1>3, CallMade DEF Call
<1> DEFINE c == Call(x)
<1>7. c.dir = x /\ c.left \subseteq ChildrenOf(x)
  BY Zenon, <1>3
<1> HIDE DEF c
<1>8. CallInv(c, k + 1, seen)
  <2>1. c.dir \in Names \cup {0} /\ Root \in TreeAbove[c.dir] /\ <<rootAt, c.dir>> \in seen
    BY Zenon, <1>1, <1>7
  <2> DEFINE n == k + 1
  <2>2. n - 1 = k
    BY <1>2
  <2> HIDE DEF n
  <2>3. Cardinality(Path(c.dir, Root)) = n - 1 /\ n - 1 <= IndexDepth
    BY Zenon, <1>1, <1>5, <1>7, <2>2
  <2>4. c.left \subseteq ChildrenOf(c.dir) /\ \A y \in c.left : <<rootAt, y>> \notin seen
    BY Zenon, <1>4, <1>7
  <2>5. CallInv(c, n, seen)
    BY Zenon, <2>1, <2>3, <2>4 DEF CallInv
  <2> QED BY Zenon, <2>5 DEF n
<1> QED BY Zenon, <1>6, <1>8 DEF c

(* An entry that is counted, and walked if it is a directory                 *)
LEMMA CountKeeps ==
    ASSUME AtWork, NEW x \in TopCall.left, ~excluded(x), storageTree.type[x] = "directory" \/ included(x),
           indexed' = indexed + 1, counted' = counted \cup {<<rootAt, x>>}, ~(indexed' >= IndexLimit),
           walking' = IF Descends(x) THEN Append(Taken(x), Call(x)) ELSE Taken(x),
           UNCHANGED <<storageTree, indexPolicy, rootAt>>
    PROVE  WalkInv'
<1> DEFINE k == Len(walking)
           seen == counted \cup {<<rootAt, x>>}
           t == Taken(x)
           w == IF Descends(x) THEN Append(t, Call(x)) ELSE t
<1>1. /\ x \in Names /\ <<rootAt, x>> \notin counted /\ CallInv(TopCall, k, counted)
      /\ \A i \in 1..Len(Calls) : x \notin walking[i].left
  BY Zenon, EntryFacts
<1>2. walking \in Seq(CallType) /\ walking # <<>> /\ (\A i \in 1..k : CallInv(walking[i], i, counted))
      /\ rootAt \in DOMAIN IndexRoots /\ rootAt \in Nat \ {0} /\ indexed \in Nat /\ indexPolicy \in Policies
  BY Zenon DEF AtWork, WalkInv
<1>3. /\ k \in Nat /\ k \in 1..k /\ walking[k] = TopCall
      /\ \A i \in 1..k : i \in 1..Len(Calls) \/ i = k
      /\ t \in Seq(CallType) /\ Len(t) = k
      /\ t[k] = [dir |-> TopCall.dir, left |-> TopCall.left \ {x}]
      /\ \A i \in 1..k : i = k \/ (t[i] = walking[i] /\ i # k)
  BY Zenon, <1>1, <1>2, CallsFacts DEF TopCall
<1>4. t[k].dir = TopCall.dir /\ t[k].left = TopCall.left \ {x}
  BY <1>3
<1> HIDE DEF t
<1>5. ASSUME NEW y, y # x PROVE <<rootAt, y>> \in seen => <<rootAt, y>> \in counted
  <2>1. <<rootAt, y>> # <<rootAt, x>>
    BY <1>5
  <2> QED BY Zenon, <2>1
<1>6. counted \subseteq seen
  BY Zenon
<1> HIDE DEF seen
<1>7. ASSUME NEW i \in 1..k PROVE CallInv(t[i], i, seen)
  <2>1. CASE i = k
    <3>1. \A y \in t[k].left : y # x /\ <<rootAt, y>> \notin counted
      BY Zenon, <1>1, <1>4 DEF CallInv
    <3> QED BY Zenon, <1>1, <1>4, <1>5, <1>6, <2>1, <3>1 DEF CallInv
  <2>2. CASE i # k
    <3>1. t[i] = walking[i] /\ CallInv(walking[i], i, counted) /\ x \notin walking[i].left
      BY Zenon, <1>1, <1>2, <1>3, <2>2
    <3>2. \A y \in walking[i].left : y # x /\ <<rootAt, y>> \notin counted
      BY Zenon, <3>1 DEF CallInv
    <3> QED BY Zenon, <1>5, <1>6, <3>1, <3>2 DEF CallInv
  <2> QED BY Zenon, <2>1, <2>2
<1>8. /\ w \in Seq(CallType) /\ w # <<>>
      /\ \A i \in 1..Len(w) : CallInv(w[i], i, seen)
      /\ \A i \in 1..k : i \in 1..Len(w) /\ w[i] = t[i]
      /\ Descends(x) => k + 1 \in 1..Len(w) /\ w[k + 1] = Call(x)
  <2>1. CASE Descends(x)
    <3>1. CallInv(Call(x), k + 1, seen) /\ Call(x) \in CallType
      BY Zenon, <2>1, NewCallInv DEF seen
    <3> DEFINE new == Call(x)
               a == Append(t, new)
    <3>2. w = a
      BY Zenon, <2>1
    <3> HIDE DEF new, w
    <3>3. a \in Seq(CallType) /\ Len(a) = k + 1 /\ a[k + 1] = new /\ \A i \in 1..k : a[i] = t[i]
      BY SMTT(20), <1>3, <3>1 DEF new
    <3> HIDE DEF a
    <3>4. a # <<>> /\ k + 1 \in 1..(k + 1) /\ (\A i \in 1..k : i \in 1..(k + 1))
          /\ \A i \in 1..(k + 1) : i \in 1..k \/ i = k + 1
      BY <1>3, <3>3
    <3>5. ASSUME NEW i \in 1..(k + 1) PROVE CallInv(a[i], i, seen)
      BY Zenon, <1>7, <3>1, <3>3, <3>4 DEF new
    <3> QED BY Zenon, <3>2, <3>3, <3>4, <3>5 DEF new
  <2>2. CASE ~Descends(x)
    <3>1. w = t
      BY Zenon, <2>2
    <3>2. t # <<>>
      BY <1>3
    <3> HIDE DEF w
    <3> QED BY Zenon, <1>3, <1>7, <2>2, <3>1, <3>2
  <2> QED BY Zenon, <2>1, <2>2
<1>9. walking' = w
  BY Zenon DEF t
<1> HIDE DEF w
<1>10. (\A i \in 1..Len(walking) : CallInv(walking[i], i, counted))'
  BY ZenonT(30), <1>8, <1>9, CallsKept DEF seen
<1>11. indexed' \in Nat /\ indexed' >= indexed /\ indexed' < IndexLimit
  <2>1. IndexLimit \in Nat
    BY Zenon, <1>2, LimitFacts
  <2> QED BY <1>2, <2>1
<1>12. CompleteInv'
  <2>1. ASSUME NEW p \in Indexable(Root), WholePages, NEW i \in 1..k, NEW y \in walking[i].left, y \in Path(p, Root)
        PROVE  <<rootAt, p>> \in counted' \/ \E j \in 1..Len(w) : \E z \in w[j].left : z \in Path(p, Root)
    <3>1. CASE i # k
      BY Zenon, <1>3, <1>8, <2>1, <3>1
    <3>2. CASE i = k /\ y # x
      <4>1. y \in t[k].left
        BY Zenon, <1>3, <1>4, <3>2
      <4> QED BY Zenon, <1>3, <1>8, <2>1, <4>1
    <3>3. CASE y = x /\ p = x
      BY Zenon, <3>3
    <3>4. CASE y = x /\ p # x
      <4>1. Descends(x) /\ \E c \in ChildrenOf(x) : c \in Path(p, Root)
        BY Zenon, <2>1, <3>4, EntryIsWalked
      <4>2. ChildrenOf(x) = FirstPage(x)
        BY Zenon, <1>1, <2>1 DEF WholePages
      <4>3. w[k + 1].left = FirstPage(x) /\ k + 1 \in 1..Len(w)
        <5>1. Call(x).left = FirstPage(x)
          BY Zenon DEF Call
        <5> QED BY Zenon, <1>8, <4>1, <5>1
      <4> QED BY Zenon, <4>1, <4>2, <4>3
    <3> QED BY Zenon, <3>1, <3>2, <3>3, <3>4
  <2> QED BY Zenon, <1>2, <1>9, <1>11, <2>1, CompleteKept
<1>13. CountedInv'
  <2>1. /\ counted' \subseteq AllIndexable /\ indexed' = Cardinality(counted') /\ indexed' <= IndexLimit
        /\ \A c \in counted' : c[1] <= rootAt /\ c[1] < rootAt + 1
        /\ \A c \in counted' :
             storageTree.in[c[2]] = IndexRoots[c[1]] \/ <<c[1], storageTree.in[c[2]]>> \in counted'
    BY Zenon, CountFacts
  <2> QED BY Zenon, <1>8, <1>9, <2>1, SameTree DEF CountedInv
<1> QED BY Zenon, <1>2, <1>8, <1>9, <1>10, <1>11, <1>12, <1>13, SameTree DEF WalkInv

(* A call that returns                                                       *)
LEMMA ReturnKeeps ==
    ASSUME AtWork, TopCall.left = {}, walking' = Calls, rootAt' = (IF Calls = <<>> THEN rootAt + 1 ELSE rootAt),
           UNCHANGED <<storageTree, indexPolicy, indexed, counted>>
    PROVE  WalkInv'
<1> DEFINE k == Len(walking)
           w == Calls
<1>1. walking \in Seq(CallType) /\ walking # <<>> /\ (\A i \in 1..k : CallInv(walking[i], i, counted))
      /\ rootAt \in DOMAIN IndexRoots /\ rootAt \in Nat \ {0} /\ indexed \in Nat /\ indexed < IndexLimit
      /\ CountedInv /\ CompleteInv /\ storageTree \in Trees /\ indexPolicy \in Policies
  BY Zenon DEF AtWork, WalkInv
<1>2. /\ w \in Seq(CallType)
      /\ \A i \in 1..Len(w) : w[i] = walking[i] /\ i \in 1..k
      /\ \A i \in 1..k : i \in 1..Len(w) \/ (i = k /\ walking[i] = TopCall)
  BY Zenon, <1>1, CallsFacts
<1> HIDE DEF w
<1>3. rootAt + 1 \in Nat \ {0} /\ indexed >= indexed
  BY <1>1
<1>4. ASSUME NEW p, Pending(p) PROVE \E j \in 1..Len(w) : \E z \in w[j].left : z \in Path(p, Root)
  <2>1. PICK i \in 1..k : \E y \in walking[i].left : y \in Path(p, Root)
    BY Zenon, <1>4 DEF Pending
  <2>2. walking[i] # TopCall
    BY Zenon, <2>1
  <2> QED BY Zenon, <1>2, <2>1, <2>2
<1>5. CASE w # <<>>
  <2>1. walking' = w /\ rootAt' = rootAt
    BY Zenon, <1>5 DEF w
  <2>2. (\A i \in 1..Len(walking) : CallInv(walking[i], i, counted))'
    <3>1. \A i \in 1..Len(w) : CallInv(w[i], i, counted)
      BY Zenon, <1>1, <1>2
    <3> QED BY Zenon, <2>1, <3>1, CallsKept
  <2>3. CompleteInv'
    <3>1. ASSUME NEW p \in Indexable(Root), NEW i \in 1..k, NEW y \in walking[i].left, y \in Path(p, Root)
          PROVE  \E j \in 1..Len(w) : \E z \in w[j].left : z \in Path(p, Root)
      <4>1. Pending(p)
        BY Zenon, <3>1 DEF Pending
      <4> QED BY Zenon, <1>4, <4>1
    <3> QED BY Zenon, <1>1, <1>3, <2>1, <3>1, CompleteKept
  <2>4. CountedInv'
    BY Zenon, <1>1, <1>5, <2>1, SameTree DEF CountedInv
  <2> QED BY Zenon, <1>1, <1>2, <1>5, <2>1, <2>2, <2>3, <2>4, SameTree DEF WalkInv
<1>6. CASE w = <<>>
  <2>1. walking' = <<>> /\ rootAt' = rootAt + 1
    BY Zenon, <1>6 DEF w
  <2>2. Len(w) = 0 /\ 1..Len(w) = {} /\ 1..Len(walking') = {}
    BY <1>6, <2>1
  <2>3. ASSUME NEW c \in counted PROVE c[1] <= rootAt' /\ c[1] < rootAt'
    <3>1. c[1] <= rootAt
      BY Zenon, <1>1 DEF CountedInv
    <3>2. c[1] \in Nat
      <4>1. c \in (DOMAIN IndexRoots) \X Names
        BY Zenon, <1>1, AllIndexableFinite DEF CountedInv
      <4>2. IndexRoots \in Seq(Nat)
        BY Zenon, <1>1, LimitFacts
      <4> QED BY <4>1, <4>2
    <3> QED BY <1>1, <2>1, <3>1, <3>2
  <2>4. CountedInv'
    BY Zenon, <1>1, <2>3, SameTree DEF CountedInv
  <2>5. CompleteInv'
    <3> SUFFICES ASSUME WholePages, NEW j \in DOMAIN IndexRoots, NEW p \in Indexable(IndexRoots[j])
                 PROVE  <<j, p>> \in counted \/ indexed >= IndexLimit \/ j > rootAt' \/ j = rootAt'
      BY Zenon, <2>1, SameTree DEF CompleteInv
    <3>1. ~Pending(p)
      BY Zenon, <1>4, <2>2
    <3>2. <<j, p>> \in counted \/ indexed >= IndexLimit \/ j > rootAt
      BY Zenon, <1>1, <3>1 DEF CompleteInv
    <3>3. j \in Nat
      <4>1. IndexRoots \in Seq(Nat)
        BY Zenon, <1>1, LimitFacts
      <4> QED BY <4>1
    <3>4. j > rootAt => j > rootAt' \/ j = rootAt'
      BY <1>1, <2>1, <3>3
    <3> QED BY Zenon, <3>2, <3>4
  <2>6. walking' \in Seq(CallType)
    BY <2>1
  <2> QED BY Zenon, <1>1, <1>3, <2>1, <2>2, <2>4, <2>5, <2>6 DEF WalkInv
<1> QED BY Zenon, <1>5, <1>6

(* A root that is skipped or begun                                           *)
LEMMA RootKeeps ==
    ASSUME storageTree \in Trees, indexPolicy \in Policies, WalkInv, WalkRoot
    PROVE  WalkInv'
<1>1. UNCHANGED <<storageTree, indexPolicy, indexed, counted>> /\ walking = <<>> /\ rootAt <= Len(IndexRoots)
  BY Zenon DEF WalkRoot
<1>2. rootAt \in Nat \ {0} /\ indexed \in Nat /\ CountedInv /\ CompleteInv
  BY Zenon DEF WalkInv
<1>3. IndexRoots \in Seq(Nat) /\ IndexLimit \in Nat
  BY Zenon, LimitFacts
<1>4. rootAt \in DOMAIN IndexRoots
  BY <1>1, <1>2, <1>3
<1>5. ASSUME NEW c \in counted PROVE c[1] \in Nat /\ c[1] < rootAt /\ c[1] <= rootAt
  <2>1. c[1] < rootAt /\ c[1] <= rootAt
    BY Zenon, <1>1, <1>2 DEF CountedInv
  <2>2. c \in (DOMAIN IndexRoots) \X Names
    BY Zenon, <1>2, AllIndexableFinite DEF CountedInv
  <2> QED BY <1>3, <2>1, <2>2
<1>6. CASE indexed >= IndexLimit /\ rootAt' = rootAt + 1 /\ UNCHANGED walking
  <2>1. rootAt' \in Nat \ {0} /\ 1..Len(walking') = {} /\ walking' \in Seq(CallType) /\ walking' = <<>>
    BY <1>1, <1>2, <1>6
  <2>2. ASSUME NEW c \in counted PROVE c[1] <= rootAt' /\ c[1] < rootAt'
    BY <1>2, <1>5, <1>6
  <2>3. CountedInv'
    BY Zenon, <1>1, <1>2, <2>2, SameTree DEF CountedInv
  <2>4. CompleteInv'
    BY Zenon, <1>1, <1>6, SameTree DEF CompleteInv
  <2> QED BY Zenon, <1>1, <1>2, <2>1, <2>3, <2>4 DEF WalkInv
<1>7. CASE indexed < IndexLimit /\ IsDirectory(Root) /\ walking' = <<Call(Root)>> /\ UNCHANGED rootAt
  <2> DEFINE r == Root
             c1 == Call(r)
  <2>1. r \in Names \cup {0} /\ c1 = [dir |-> r, left |-> FirstPage(r)] /\ walking' = <<c1>>
    BY Zenon, <1>7 DEF IsDirectory, Call
  <2>2. c1.dir = r /\ c1.left = FirstPage(r) /\ FirstPage(r) \subseteq ChildrenOf(r) /\ ChildrenOf(r) \subseteq Names
    BY Zenon DEF Call, FirstPage, ChildrenOf
  <2>3. Cardinality(Path(r, r)) = 0
    BY Zenon, <2>1, PathOfRoot
  <2>4. ASSUME NEW y PROVE <<rootAt, y>> \notin counted
    <3>1. <<rootAt, y>>[1] = rootAt
      OBVIOUS
    <3>2. ~(rootAt < rootAt)
      BY <1>2
    <3> QED BY Zenon, <1>5, <3>1, <3>2
  <2>5. 0 = 1 - 1 /\ 1 - 1 <= IndexDepth
    <3>1. IndexDepth \in Nat
      BY Zenon, LimitFacts
    <3> QED BY <3>1
  <2>6. r = Root
    OBVIOUS
  <2> HIDE DEF r, c1
  <2>7. CallInv(c1, 1, counted)
    BY Zenon, <2>1, <2>2, <2>3, <2>4, <2>5, <2>6 DEF CallInv
  <2>8. c1 \in CallType
    <3> DEFINE l == FirstPage(r)
    <3>1. l \subseteq Names /\ c1 = [dir |-> r, left |-> l]
      BY Zenon, <2>1, <2>2
    <3> HIDE DEF l
    <3> QED BY <2>1, <3>1 DEF CallType
  <2> DEFINE w == <<c1>>
  <2>9. w \in Seq(CallType) /\ Len(w) = 1 /\ w[1] = c1 /\ w # <<>> /\ 1..Len(w) = {1}
    BY <2>8
  <2>10. walking' = w
    BY Zenon, <2>1
  <2> HIDE DEF w
  <2>11. (\A i \in 1..Len(walking) : CallInv(walking[i], i, counted))'
    <3>1. \A i \in 1..Len(w) : CallInv(w[i], i, counted)
      BY Zenon, <2>7, <2>9
    <3> QED BY Zenon, <1>1, <1>7, <2>10, <3>1, CallsKept
  <2>12. CountedInv'
    BY Zenon, <1>1, <1>2, <1>7, <2>9, <2>10, SameTree DEF CountedInv
  <2>13. CompleteInv'
    <3>1. Root' = Root
      BY Zenon, <1>1, <1>7, SameTree DEF Root
    <3>2. ASSUME WholePages, NEW p \in Indexable(r) PROVE Pending(p)'
      <4>1. p \in Names /\ Path(p, r) # {}
        BY Zenon DEF Indexable
      <4>2. PICK q \in Names : (q = p \/ q \in TreeAbove[p]) /\ r \in TreeAbove[q]
        BY Zenon, <4>1 DEF Path, TreeAbove
      <4>3. r \in TreeAbove[p]
        BY Zenon, <4>1, <4>2, TreeShape
      <4>4. PICK c \in ChildrenOf(r) : c \in Path(p, r)
        <5>1. r = r \/ r \in TreeAbove[r]
          BY Zenon
        <5> QED BY Zenon, <4>1, <4>3, <5>1, NextOnPath
      <4>5. c \in w[1].left /\ 1 \in 1..Len(w)
        BY Zenon, <2>1, <2>2, <2>9, <3>2, <4>4 DEF WholePages
      <4>6. Path(p, r)' = Path(p, r)
        BY Zenon, <1>1, <2>6, <3>1, SameTree DEF r
      <4>7. c \in Path(p, Root)'
        BY Zenon, <1>1, <2>6, <3>1, <4>4, SameTree
      <4> QED BY Zenon, <2>10, <4>5, <4>7 DEF Pending
    <3> SUFFICES ASSUME WholePages, NEW j \in DOMAIN IndexRoots, NEW p \in Indexable(IndexRoots[j])
                 PROVE  <<j, p>> \in counted \/ indexed >= IndexLimit \/ j > rootAt \/ (j = rootAt /\ Pending(p)')
      BY Zenon, <1>1, <1>7, SameTree DEF CompleteInv
    <3>3. <<j, p>> \in counted \/ indexed >= IndexLimit \/ j > rootAt \/ j = rootAt
      BY Zenon, <1>2 DEF CompleteInv
    <3>4. j = rootAt => Pending(p)'
      BY Zenon, <2>6, <3>2 DEF Root
    <3> QED BY Zenon, <3>3, <3>4
  <2> QED BY Zenon, <1>1, <1>2, <1>4, <1>7, <2>9, <2>10, <2>11, <2>12, <2>13, SameTree DEF WalkInv
<1> QED BY Zenon, <1>6, <1>7 DEF WalkRoot, Root

(* A step of the walk                                                        *)
LEMMA EntryKeeps ==
    ASSUME storageTree \in Trees, indexPolicy \in Policies, WalkInv, WalkEntry
    PROVE  WalkInv'
<1>1. AtWork
  BY Zenon DEF AtWork, WalkEntry
<1>2. UNCHANGED <<storageTree, indexPolicy>>
  BY Zenon DEF WalkEntry
<1>3. PICK x \in TopCall.left :
        \/ /\ excluded(x) \/ (storageTree.type[x] # "directory" /\ ~included(x))
           /\ walking' = Taken(x) /\ UNCHANGED <<rootAt, indexed, counted>>
        \/ /\ ~excluded(x) /\ (storageTree.type[x] = "directory" \/ included(x))
           /\ indexed' = indexed + 1
           /\ counted' = counted \cup {<<rootAt, x>>}
           /\ IF indexed' >= IndexLimit THEN walking' = <<>> /\ rootAt' = rootAt + 1
              ELSE /\ walking' = IF Descends(x) THEN Append(Taken(x), Call(x)) ELSE Taken(x)
                   /\ UNCHANGED rootAt
  BY Zenon DEF WalkEntry, Taken
<1>4. CASE /\ excluded(x) \/ (storageTree.type[x] # "directory" /\ ~included(x))
           /\ walking' = Taken(x) /\ UNCHANGED <<rootAt, indexed, counted>>
  BY Zenon, <1>1, <1>2, <1>4, SkipKeeps
<1>5. CASE /\ ~excluded(x) /\ (storageTree.type[x] = "directory" \/ included(x))
           /\ indexed' = indexed + 1 /\ counted' = counted \cup {<<rootAt, x>>}
           /\ indexed' >= IndexLimit /\ walking' = <<>> /\ rootAt' = rootAt + 1
  BY Zenon, <1>1, <1>2, <1>5, LimitKeeps
<1>6. CASE /\ ~excluded(x) /\ (storageTree.type[x] = "directory" \/ included(x))
           /\ indexed' = indexed + 1 /\ counted' = counted \cup {<<rootAt, x>>}
           /\ ~(indexed' >= IndexLimit)
           /\ walking' = (IF Descends(x) THEN Append(Taken(x), Call(x)) ELSE Taken(x))
           /\ UNCHANGED rootAt
  BY Zenon, <1>1, <1>2, <1>6, CountKeeps
<1> QED BY Zenon, <1>3, <1>4, <1>5, <1>6

(* Before the walk, nothing is counted.                                      *)
LEMMA FreshWalk ==
    ASSUME storageTree \in Trees, indexPolicy \in Policies,
           rootAt = 1, walking = <<>>, indexed = 0, counted = {}
    PROVE  WalkInv
<1>1. IndexRoots \in Seq(Nat) /\ IndexLimit \in Nat
  BY Zenon, LimitFacts
<1>2. rootAt \in Nat \ {0} /\ indexed \in Nat /\ walking \in Seq(CallType) /\ 1..Len(walking) = {}
  OBVIOUS
<1>3. CountedInv
  <2>1. Cardinality({}) = 0
    BY Zenon, FS_EmptySet
  <2>2. indexed = Cardinality(counted) /\ indexed <= IndexLimit
    BY <1>1, <2>1
  <2> QED BY Zenon, <2>2 DEF CountedInv
<1>4. CompleteInv
  <2>1. \A j \in DOMAIN IndexRoots : j > rootAt \/ j = rootAt
    BY <1>1
  <2> QED BY Zenon, <2>1 DEF CompleteInv
<1> QED BY Zenon, <1>2, <1>3, <1>4 DEF WalkInv

(* What the walk's invariant does not mention may change.                    *)
LEMMA WalkKept ==
    ASSUME storageTree \in Trees, indexPolicy \in Policies, WalkInv,
           UNCHANGED <<storageTree, indexPolicy, rootAt, walking, indexed, counted>>
    PROVE  WalkInv'
<1>1. (\A i \in 1..Len(walking) : CallInv(walking[i], i, counted))'
  BY Zenon, CallsKept DEF WalkInv
<1>2. CountedInv'
  BY Zenon, SameTree DEF WalkInv, CountedInv
<1>3. CompleteInv'
  <2>1. \A p : Pending(p)' <=> Pending(p)
    BY Zenon, SameTree DEF Pending, Root
  <2> QED BY Zenon, <2>1, SameTree DEF WalkInv, CompleteInv
<1> QED BY Zenon, <1>1, <1>2, <1>3, SameTree DEF WalkInv

(* Each step of a call keeps the invariant.                                  *)
LEMMA IndexNextIInv ==
    ASSUME IndexIInv, [IndexNext]_indexVars
    PROVE  IndexIInv'
<1>1. /\ storageTree \in Trees /\ indexPolicy \in Policies /\ WalkInv
      /\ indexRun.entries \in Nat /\ indexRun.entries <= IndexLimit
  BY Zenon DEF IndexIInv
<1>2. indexed \in Nat /\ indexed <= IndexLimit
  BY Zenon, <1>1 DEF WalkInv, CountedInv
<1>3. ASSUME indexing = "walking", indexing' = "walking", UNCHANGED <<storageTree, indexPolicy, indexRun>>, WalkInv'
      PROVE  IndexIInv'
  <2>1. indexing # "over" /\ indexing' # "idle"
    BY <1>3
  <2>2. indexRun.status # "completed"
    BY Zenon, <2>1 DEF IndexIInv
  <2> QED BY Zenon, <1>1, <1>3, <2>1, <2>2, SameTree DEF IndexIInv
<1>4. CASE StartIndex
  <2>1. /\ rootAt = 1 /\ walking = <<>> /\ indexed = 0 /\ counted = {} /\ indexRun = [status |-> "none", entries |-> 0]
        /\ UNCHANGED <<rootAt, walking, indexed, counted>> /\ indexing' = "walking"
        /\ storageTree' \in Trees /\ indexPolicy' \in Policies
        /\ indexRun' \in {[indexRun EXCEPT !.status = "running"], indexRun}
    BY Zenon, <1>4 DEF StartIndex, IndexIInv, walkVars
  <2>2. WalkInv'
    <3>1. \/ ~(storageTree \in Trees /\ indexPolicy \in Policies /\ rootAt = 1 /\ walking = <<>> /\ indexed = 0 /\ counted = {})'
          \/ WalkInv'
      BY FreshWalk, PTL
    <3> QED BY Zenon, <2>1, <3>1
  <2>3. indexRun'.entries = 0 /\ indexRun'.status # "completed" /\ indexing' # "idle"
    BY <2>1
  <2>4. IndexLimit' \in Nat
    <3>1. \/ ~(storageTree \in Trees /\ indexPolicy \in Policies)'
          \/ (IndexLimit \in Nat)'
      BY LimitFacts, PTL
    <3> QED BY Zenon, <2>1, <3>1
  <2>5. indexRun'.entries \in Nat /\ indexRun'.entries <= IndexLimit'
    BY <2>3, <2>4
  <2> QED BY Zenon, <2>1, <2>2, <2>3, <2>5 DEF IndexIInv
<1>5. CASE WalkRoot
  BY Zenon, <1>1, <1>3, <1>5, RootKeeps DEF WalkRoot
<1>6. CASE WalkEntry
  BY Zenon, <1>1, <1>3, <1>6, EntryKeeps DEF WalkEntry
<1>7. CASE WalkReturn
  <2>1. AtWork
    BY Zenon, <1>1, <1>7 DEF AtWork, WalkReturn
  <2> QED BY Zenon, <1>3, <1>7, <2>1, ReturnKeeps DEF WalkReturn
<1>8. ASSUME NEW word \in {"completed", "failed"}, SaveIndexRun(word), indexing = "walking",
             word = "completed" => walking = <<>> /\ rootAt > Len(IndexRoots)
      PROVE  IndexIInv'
  <2>1. /\ UNCHANGED <<storageTree, indexPolicy, rootAt, walking, indexed, counted>> /\ indexing' = "over"
        /\ indexRun' \in {[status |-> word, entries |-> indexed], indexRun}
    BY Zenon, <1>8 DEF SaveIndexRun, walkVars
  <2>2. WalkInv'
    BY Zenon, <1>1, <2>1, WalkKept
  <2>3. indexRun.status # "completed" /\ indexing' # "idle"
    <3>1. indexing # "over" /\ indexing' # "idle"
      BY <1>8, <2>1
    <3> QED BY Zenon, <3>1 DEF IndexIInv
  <2>4. CASE indexRun' = indexRun
    BY Zenon, <1>1, <2>1, <2>2, <2>3, <2>4, SameTree DEF IndexIInv
  <2>5. CASE indexRun' = [status |-> word, entries |-> indexed]
    <3>1. indexRun'.entries = indexed /\ indexRun'.status = word
      BY <2>5
    <3> QED BY Zenon, <1>1, <1>2, <1>8, <2>1, <2>2, <2>3, <3>1, SameTree DEF IndexIInv
  <2> QED BY Zenon, <2>1, <2>4, <2>5
<1>9. CASE CompleteIndex
  BY Zenon, <1>8, <1>9 DEF CompleteIndex
<1>10. CASE FailIndex
  <2>1. "failed" # "completed"
    OBVIOUS
  <2> QED BY Zenon, <1>8, <1>10, <2>1 DEF FailIndex
<1>11. CASE UNCHANGED indexVars
  <2>1. UNCHANGED <<storageTree, indexPolicy, rootAt, walking, indexed, counted>> /\ UNCHANGED <<indexing, indexRun>>
    BY Zenon, <1>11 DEF indexVars, walkVars
  <2>2. WalkInv'
    BY Zenon, <1>1, <2>1, WalkKept
  <2> QED BY Zenon, <2>1, <2>2, SameTree DEF IndexIInv
<1> QED BY Zenon, <1>4, <1>5, <1>6, <1>7, <1>9, <1>10, <1>11 DEF IndexNext

(* A walk that is over has counted what it had to.                           *)
LEMMA IndexIInvImplies ==
    ASSUME IndexIInv
    PROVE  IndexCounts
<1> DEFINE all == Cardinality(AllIndexable)
<1>1. /\ storageTree \in Trees /\ indexPolicy \in Policies /\ WalkInv /\ indexRun.entries <= IndexLimit
  BY Zenon DEF IndexIInv
<1>2. CountedInv /\ CompleteInv /\ rootAt \in Nat /\ indexed \in Nat
  BY Zenon, <1>1 DEF WalkInv
<1>3. IsFiniteSet(AllIndexable) /\ counted \subseteq AllIndexable /\ indexed = Cardinality(counted) /\ indexed <= IndexLimit
  BY Zenon, <1>1, <1>2, AllIndexableFinite DEF CountedInv
<1>4. all \in Nat /\ indexed <= all /\ IndexLimit \in Nat
  BY Zenon, <1>1, <1>3, FS_Subset, FS_CardinalityType, LimitFacts
<1> SUFFICES ASSUME indexRun.status = "completed", WholePages
             PROVE  indexRun.entries = IF all <= IndexLimit THEN all ELSE IndexLimit
  BY Zenon, <1>1 DEF IndexCounts, WholePages
<1>5. indexRun.entries = indexed /\ rootAt > Len(IndexRoots)
  BY Zenon DEF IndexIInv
<1>6. CASE indexed >= IndexLimit
  <2>1. indexed = IndexLimit
    BY <1>2, <1>3, <1>4, <1>6
  <2> HIDE DEF all
  <2> QED BY <1>4, <1>5, <2>1
<1>7. CASE ~(indexed >= IndexLimit)
  <2>1. ASSUME NEW e \in AllIndexable PROVE e \in counted
    <3>1. PICK j \in DOMAIN IndexRoots, p \in Names : e = <<j, p>>
      BY <1>1, AllIndexableFinite
    <3>2. <<j, p>>[1] = j /\ <<j, p>>[2] = p
      OBVIOUS
    <3>3. p \in Indexable(IndexRoots[j])
      BY Zenon, <3>1, <3>2 DEF AllIndexable
    <3>4. IndexRoots \in Seq(Nat)
      BY Zenon, <1>1, LimitFacts
    <3>5. ~(j > rootAt) /\ j # rootAt
      BY <1>2, <1>5, <3>4
    <3> QED BY Zenon, <1>2, <1>7, <3>1, <3>3, <3>5 DEF CompleteInv
  <2>2. counted = AllIndexable
    BY Zenon, <1>3, <2>1
  <2>3. indexed = all
    BY Zenon, <1>3, <2>2
  <2> HIDE DEF all
  <2> QED BY <1>3, <1>5, <2>3
<1> QED BY Zenon, <1>6, <1>7

(* On every tree and under every policy, the row of a completed index holds  *)
(* the number of names that are to be counted, up to the limit.              *)
THEOREM IndexAlwaysCounts == IndexSpec => []IndexCounts
<1>1. IndexInit => IndexIInv
  <2> SUFFICES ASSUME IndexInit PROVE IndexIInv
    OBVIOUS
  <2>1. Trees # {} /\ Policies # {}
    BY Zenon, IndexAssumption
  <2>2. storageTree \in Trees /\ indexPolicy \in Policies
    BY Zenon, <2>1 DEF IndexInit
  <2>3. WalkInv
    BY Zenon, <2>2, FreshWalk DEF IndexInit
  <2>4. IndexLimit \in Nat
    BY Zenon, <2>2, LimitFacts
  <2>5. indexRun.entries = 0 /\ indexRun.status # "completed"
    BY DEF IndexInit
  <2>6. indexRun.entries \in Nat /\ indexRun.entries <= IndexLimit
    BY <2>4, <2>5
  <2> QED BY Zenon, <2>2, <2>3, <2>5, <2>6 DEF IndexIInv, IndexInit
<1>2. IndexIInv /\ [IndexNext]_indexVars => IndexIInv'
  BY Zenon, IndexNextIInv
<1>3. IndexIInv => IndexCounts
  BY Zenon, IndexIInvImplies
<1> QED BY <1>1, <1>2, <1>3, PTL DEF IndexSpec
=============================================================================
