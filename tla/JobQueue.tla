------------------------------ MODULE JobQueue ------------------------------
(***************************************************************************)
(* The durable job queue: the table queue_jobs and the operations of       *)
(* internal/infrastructure/database/queue/repository.go on it.  Every      *)
(* operation is one SQL statement or one transaction, so it is one atomic  *)
(* action here; the callers are arbitrary.  EventLoop.tla restricts them   *)
(* to what the event loop really does.                                     *)
(*                                                                         *)
(* Time stamps (available_at, lease_expires_at) are kept relative to now:  *)
(* the column's value minus the clock.  A stamp is "<= now" exactly when   *)
(* its relative value is <= 0, which is the only question the code asks of *)
(* it, and Tick moves every stamp in the future one unit closer.  Stamps   *)
(* in the past stay at their value.                                        *)
(*                                                                         *)
(* The SQLite driver writes a time stamp as text in the zone the value     *)
(* carries, and SQL compares the texts.  All callers pass UTC, except the  *)
(* renewal, which passes the local time of a time.Ticker: a renewed stamp  *)
(* is off by UtcOffset, the offset of the server's zone.                   *)
(***************************************************************************)
EXTENDS Integers, FiniteSets

CONSTANTS
    Jobs,           \* calls of Publish; a call that inserts a row names it
    Owners,         \* lease owners, one per server process
    Keys,           \* idempotency keys
    NoOwner,        \* the empty lease_owner
    NoKey,          \* the empty idempotency_key
    NoJob,          \* "no job"
    Key,            \* the idempotency key of every Publish call
    Priority,       \* the priority of every job
    MaxAttempts,    \* max_attempts
    LeaseDuration,  \* Config.LeaseDuration
    RetryBase,      \* Config.RetryBaseInterval
    MaxShift,       \* largest exponent of the backoff (8 in the code)
    UtcOffset,      \* offset of the server's time zone, in clock units
    MaxLag,         \* longest time from a lease's stamp to its next renewal
    MaxBatch,       \* largest limit passed to Lease
    MaxExpiries     \* bound: how often the lease of one job may run out

ASSUME QueueAssumption ==
    /\ NoOwner \notin Owners
    /\ NoKey \notin Keys
    /\ NoJob \notin Jobs
    /\ Key \in [Jobs -> Keys \cup {NoKey}]
    /\ Priority \in [Jobs -> Int]
    /\ MaxAttempts \in Nat \ {0}
    /\ LeaseDuration \in Nat \ {0}
    /\ RetryBase \in Nat \ {0}
    /\ MaxShift \in Nat
    /\ UtcOffset \in Int
    /\ MaxLag \in Nat
    /\ MaxBatch \in Nat \ {0}
    /\ MaxExpiries \in Nat

VARIABLES
    status,       \* status of every job, "absent" before its row exists
    availableAt,  \* available_at, relative to now
    lease,        \* lease_owner and lease_expires_at (relative to now)
    attempts,     \* attempts
    answer,       \* history: the job a Publish call returned, NoJob before
    expiries      \* history: how often the lease of a job ran out

queueVars == <<status, availableAt, lease, attempts, answer, expiries>>

-----------------------------------------------------------------------------
(* Types *)

Settled == {"completed", "failed", "cancelled"}
Statuses == {"absent", "pending", "leased"} \cup Settled

\* lease_owner='' and lease_expires_at=NULL
NoLease == [owner |-> NoOwner, expires |-> 0]
Leases == [owner : Owners, expires : Int] \cup {NoLease}

\* RetryBaseInterval * (1 << n), the delay before retry n+1
RetryDelay(n) == RetryBase * 2^n

\* True of any RetryBase; stated because the provers know nothing of ^.
ASSUME DelayAssumption == \A n \in 0..MaxShift : RetryDelay(n) \in Nat

\* What callers pass as a renewed expiry and as a delay before a retry
Stamps == {LeaseDuration + UtcOffset - age : age \in 0..MaxLag}
Delays == {RetryDelay(n) : n \in 0..MaxShift}

(* All columns and histories have values of their types.                   *)
QueueTypeOK ==
    /\ status \in [Jobs -> Statuses]
    /\ availableAt \in [Jobs -> Int]
    /\ lease \in [Jobs -> Leases]
    /\ attempts \in [Jobs -> Nat]
    /\ answer \in [Jobs -> Jobs \cup {NoJob}]
    /\ expiries \in [Jobs -> Nat]

QueueInit ==
    /\ status = [j \in Jobs |-> "absent"]
    /\ availableAt = [j \in Jobs |-> 0]
    /\ lease = [j \in Jobs |-> NoLease]
    /\ attempts = [j \in Jobs |-> 0]
    /\ answer = [j \in Jobs |-> NoJob]
    /\ expiries = [j \in Jobs |-> 0]

-----------------------------------------------------------------------------
(* Publish *)

\* The rows that a publication of j conflicts with: the unique index covers
\* only non-empty keys.
SameKey(j) == {k \in Jobs : status[k] # "absent" /\ Key[k] = Key[j] /\ Key[j] # NoKey}

\* INSERT ... ON CONFLICT DO NOTHING, then the row with that key is read back.
\* Rows and their keys never change once inserted, so it does not matter that
\* the read is a statement of its own.
Publish(j) ==
    /\ answer[j] = NoJob
    /\ \/ /\ SameKey(j) = {}
          /\ status' = [status EXCEPT ![j] = "pending"]
          /\ availableAt' = [availableAt EXCEPT ![j] = 0]
          /\ answer' = [answer EXCEPT ![j] = j]
       \/ /\ \E k \in SameKey(j) : answer' = [answer EXCEPT ![j] = k]
          /\ UNCHANGED <<status, availableAt>>
    /\ UNCHANGED <<lease, attempts, expiries>>

-----------------------------------------------------------------------------
(* Lease *)

Eligible_IgnoresLease == {j \in Jobs : status[j] \in {"pending", "leased"} /\ availableAt[j] <= 0}

\* status = 'pending' AND available_at <= now
Eligible == {j \in Jobs : status[j] = "pending" /\ availableAt[j] <= 0}

\* The possible results of SELECT ... ORDER BY priority DESC ... LIMIT limit.
\* Relative stamps do not order jobs of equal priority by age: every order of
\* them is allowed.
Batches(limit) ==
    {S \in SUBSET Eligible :
        /\ Cardinality(S) <= limit
        /\ S = Eligible \/ Cardinality(S) = limit
        /\ \A j \in S, k \in Eligible \ S : Priority[j] >= Priority[k]}

LeaseBatch(S, owner) ==
    /\ status' = [j \in Jobs |-> IF j \in S THEN "leased" ELSE status[j]]
    /\ lease' = [j \in Jobs |->
                    IF j \in S THEN [owner |-> owner, expires |-> LeaseDuration]
                    ELSE lease[j]]
    /\ attempts' = [j \in Jobs |-> IF j \in S THEN attempts[j] + 1 ELSE attempts[j]]
    /\ UNCHANGED <<availableAt, answer, expiries>>

Lease(owner, limit) ==
    \E S \in Batches(limit) : S # {} /\ LeaseBatch(S, owner)

-----------------------------------------------------------------------------
(* The operations of a lease's holder.  Each guard is the WHERE clause; when *)
(* it does not hold the statement affects no row and the caller gets an     *)
(* error.                                                                   *)

Holds(j, owner) == status[j] = "leased" /\ lease[j].owner = owner

Complete(j, owner) ==
    /\ Holds(j, owner)
    /\ status' = [status EXCEPT ![j] = "completed"]
    /\ lease' = [lease EXCEPT ![j] = NoLease]
    /\ UNCHANGED <<availableAt, attempts, answer, expiries>>

RenewLease(j, owner, expiresAt) ==
    /\ Holds(j, owner)
    /\ lease' = [lease EXCEPT ![j] = [owner |-> owner, expires |-> expiresAt]]
    /\ UNCHANGED <<status, availableAt, attempts, answer, expiries>>

Retry_OffByOne(j, owner, delay) ==
    /\ Holds(j, owner)
    /\ status' = [status EXCEPT ![j] = IF attempts[j] > MaxAttempts THEN "failed"
                                       ELSE "pending"]
    /\ availableAt' = [availableAt EXCEPT ![j] = delay]
    /\ lease' = [lease EXCEPT ![j] = NoLease]
    /\ UNCHANGED <<attempts, answer, expiries>>

Retry(j, owner, delay) ==
    /\ Holds(j, owner)
    /\ status' = [status EXCEPT ![j] = IF attempts[j] >= MaxAttempts THEN "failed"
                                       ELSE "pending"]
    /\ availableAt' = [availableAt EXCEPT ![j] = delay]
    /\ lease' = [lease EXCEPT ![j] = NoLease]
    /\ UNCHANGED <<attempts, answer, expiries>>

-----------------------------------------------------------------------------
(* Operations that do not look at the holder *)

Cancel(j) ==
    /\ status[j] \in {"pending", "leased"}
    /\ status' = [status EXCEPT ![j] = "cancelled"]
    /\ lease' = [lease EXCEPT ![j] = NoLease]
    /\ UNCHANGED <<availableAt, attempts, answer, expiries>>

\* status='leased' AND lease_expires_at <= now
Expired == {j \in Jobs : status[j] = "leased" /\ lease[j].expires <= 0}

\* Expiry does not look at attempts: a job whose holder keeps vanishing is
\* leased again however often it was tried.
ReleaseExpired ==
    /\ \A j \in Expired : expiries[j] < MaxExpiries
    /\ status' = [j \in Jobs |-> IF j \in Expired THEN "pending" ELSE status[j]]
    /\ lease' = [j \in Jobs |-> IF j \in Expired THEN NoLease ELSE lease[j]]
    /\ availableAt' = [j \in Jobs |-> IF j \in Expired THEN 0 ELSE availableAt[j]]
    /\ expiries' = [j \in Jobs |-> IF j \in Expired THEN expiries[j] + 1 ELSE expiries[j]]
    /\ UNCHANGED <<attempts, answer>>

\* One unit of time passes.
Closer(t) == IF t > 0 THEN t - 1 ELSE t

Tick ==
    /\ availableAt' = [j \in Jobs |-> Closer(availableAt[j])]
    /\ lease' = [j \in Jobs |-> [owner |-> lease[j].owner, expires |-> Closer(lease[j].expires)]]
    /\ UNCHANGED <<status, attempts, answer, expiries>>

-----------------------------------------------------------------------------

QueueNext ==
    \/ \E j \in Jobs : Publish(j)
    \/ \E owner \in Owners, limit \in 1..MaxBatch : Lease(owner, limit)
    \/ \E j \in Jobs, owner \in Owners : Complete(j, owner)
    \/ \E j \in Jobs, owner \in Owners, expiresAt \in Stamps : RenewLease(j, owner, expiresAt)
    \/ \E j \in Jobs, owner \in Owners, delay \in Delays : Retry(j, owner, delay)
    \/ \E j \in Jobs : Cancel(j)
    \/ ReleaseExpired
    \/ Tick

QueueSpec == QueueInit /\ [][QueueNext]_queueVars

-----------------------------------------------------------------------------
(* Properties *)

(* A job has a lease owner and an expiry exactly while it is leased, through *)
(* every order of leasing, renewing, retrying, cancelling and expiring       *)
(* (repository.go:135-177): no renewal resurrects a lease that was released. *)
LeaseConsistent == \A j \in Jobs : (status[j] = "leased") <=> (lease[j] # NoLease)

(* A job is leased more often than max_attempts only through leases that ran *)
(* out: Retry stops at max_attempts, ReleaseExpired does not look at it      *)
(* (repository.go:149-177).                                                  *)
AttemptsBounded == \A j \in Jobs : attempts[j] <= MaxAttempts + expiries[j]

(* Publications with the same idempotency key are all answered with the one  *)
(* job that exists for that key (repository.go:43-67).                       *)
OneJobPerKey ==
    \A i, j \in Jobs :
        /\ answer[i] # NoJob => status[answer[i]] # "absent"
        /\ answer[i] # NoJob /\ answer[j] # NoJob /\ Key[i] = Key[j] /\ Key[i] # NoKey
              => answer[i] = answer[j]

(* A job that is completed, failed or cancelled is never leased, retried or  *)
(* changed again, whichever late call of a former holder arrives             *)
(* (repository.go:135-177).                                                  *)
SettledStays ==
    [][\A j \in Jobs : status[j] \in Settled =>
            status'[j] = status[j] /\ attempts'[j] = attempts[j] /\ lease'[j] = lease[j]]_queueVars

=============================================================================
