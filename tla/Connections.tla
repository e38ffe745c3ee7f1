---------------------------- MODULE Connections ----------------------------
(***************************************************************************)
(* The connections of an environment: the monitor that probes them at      *)
(* adaptive intervals and the checks a client requests, both of which      *)
(* record a row, the status of the environment, which is one for all its   *)
(* connections, and the time of the connection's next check.               *)
(*                                                                         *)
(* Time is counted in ticks of the monitor's ticker (one minute).          *)
(* nextCheckAt is kept relative to now: due is the number of ticks until   *)
(* it, and a check carries the ticks since its checkedAt.                  *)
(***************************************************************************)
EXTENDS Naturals, FiniteSets, FiniteSetsExt

CONSTANTS
  Connections,      \* the rows of environment_connections of the environment
  Backoff,          \* <<successes, minutes>>: the steps of the adaptive interval
  MaxAge,           \* the longest a check may last, in minutes
  MaxUpdates,       \* bound on edits of the environment, restarts and failing calls
  MaxFlips          \* bound on changes of an endpoint's health

VARIABLES
  healthy,          \* which connections' endpoints answer a probe now
  state,            \* environments.status
  known, streak, due,  \* schedules, by connection
  checker,          \* the two callers of Check: the monitor and a handler
  updates, flips

schedule == <<known, streak, due>>
connectionVars == <<healthy, state, schedule, checker, updates, flips>>

ASSUME ConnectionsAssumption ==
  /\ IsFiniteSet(Connections) /\ Connections # {}
  /\ IsFiniteSet(Backoff) /\ Backoff \subseteq Nat \X Nat /\ \E b \in Backoff : b[1] = 0
  /\ MaxAge \in Nat /\ MaxUpdates \in Nat /\ MaxFlips \in Nat

Checkers == {"monitor", "request"}

----------------------------------------------------------------------------
\* The schedule.

MaxStreak == Max({b[1] : b \in Backoff})     \* more successes do not change the interval

adaptiveCheckInterval(successes) == Max({b[2] : b \in {x \in Backoff : x[1] <= successes}})

isDue(c) == c \notin known \/ due[c] = 0

Minus(a, b) == IF a > b THEN a - b ELSE 0

recordResult(c, online, age) ==
  LET successes == IF online THEN IF streak[c] < MaxStreak THEN streak[c] + 1 ELSE MaxStreak ELSE 0
  IN /\ known' = known \cup {c}
     /\ streak' = [streak EXCEPT ![c] = successes]
     /\ due' = [due EXCEPT ![c] = Minus(adaptiveCheckInterval(successes), age)]

----------------------------------------------------------------------------
\* Check, step by step, for the monitor's goroutine and for a handler. The
\* monitor carries the connections that its CheckAll has still to look at.

Step(k, next) == checker' = [checker EXCEPT ![k] = next]
Waiting(left) == [pc |-> "idle", conn |-> CHOOSE c \in Connections : TRUE, online |-> FALSE, age |-> 0, left |-> left]
Started(c, left) == [Waiting(left) EXCEPT !.pc = "found", !.conn = c]
Returns(k) == Step(k, Waiting(checker[k].left))
Tick == [k \in Checkers |-> Waiting(IF k = "monitor" THEN Connections ELSE {})]

\* An iteration of CheckAll, in any order of the connections: one that is not due
\* is skipped.
CheckAll(c) ==
  /\ checker["monitor"].pc = "idle" /\ c \in checker["monitor"].left
  /\ LET left == checker["monitor"].left \ {c}
     IN Step("monitor", IF isDue(c) THEN Started(c, left) ELSE Waiting(left))
  /\ UNCHANGED <<healthy, state, schedule, updates, flips>>

CheckEnvironmentConnection(c) ==
  /\ checker["request"].pc = "idle"
  /\ Step("request", Started(c, {}))
  /\ UNCHANGED <<healthy, state, schedule, updates, flips>>

Probe(k) ==
  /\ checker[k].pc = "found"
  /\ Step(k, [checker[k] EXCEPT !.pc = "probed", !.online = checker[k].conn \in healthy])
  /\ UNCHANGED <<healthy, state, schedule, updates, flips>>

\* The status is written for a failure only.
UpdateStatus_OnFailure(k) ==
  /\ checker[k].pc = "probed"
  /\ state' = IF checker[k].online THEN state ELSE "unreachable"
  /\ Step(k, [checker[k] EXCEPT !.pc = "updated"])
  /\ UNCHANGED <<healthy, schedule, updates, flips>>

\* SaveConnectionCheck has added its row to the history, which nothing here reads.
\* The status is that of the environment: what this connection's check found
\* replaces what another connection's check wrote.
UpdateStatus(k) ==
  /\ checker[k].pc = "probed"
  /\ state' = IF checker[k].online THEN "connected" ELSE "unreachable"
  /\ Step(k, [checker[k] EXCEPT !.pc = "updated"])
  /\ UNCHANGED <<healthy, schedule, updates, flips>>

RecordResult(k) ==
  /\ checker[k].pc = "updated"
  /\ recordResult(checker[k].conn, checker[k].online, checker[k].age)
  /\ Returns(k)
  /\ UNCHANGED <<healthy, state, updates, flips>>

\* FindConnection, SaveConnectionCheck or UpdateStatus fails, or the client of a
\* requested check has gone: Check returns without the steps that follow, and
\* CheckAll goes on with the next connection.
CheckBreaksOff(k) ==
  /\ checker[k].pc \in {"found", "probed"}
  /\ updates < MaxUpdates
  /\ updates' = updates + 1
  /\ Returns(k)
  /\ UNCHANGED <<healthy, state, schedule, flips>>

\* ListAllConnections fails: nothing is checked at this tick.
ListBreaksOff ==
  /\ checker["monitor"].pc = "idle" /\ checker["monitor"].left = Connections
  /\ updates < MaxUpdates
  /\ updates' = updates + 1
  /\ Step("monitor", Waiting({}))
  /\ UNCHANGED <<healthy, state, schedule, flips>>

\* A minute passes; the ticker drops a tick while CheckAll is still running.
Minute ==
  /\ \A k \in Checkers : checker[k].age < MaxAge
  /\ due' = [c \in Connections |-> Minus(due[c], 1)]
  /\ checker' = [k \in Checkers |->
       IF checker[k] = Waiting({}) THEN Tick[k]
       ELSE IF checker[k].pc \in {"idle", "found"} THEN checker[k]
       ELSE [checker[k] EXCEPT !.age = @ + 1]]
  /\ UNCHANGED <<healthy, state, known, streak, updates, flips>>

----------------------------------------------------------------------------
\* Edits, and the world outside.

\* Replace writes the status of the definition; the schedule is in memory and
\* stays.
ReplaceStatus ==
  /\ updates < MaxUpdates
  /\ updates' = updates + 1
  /\ state' = "defined"
  /\ UNCHANGED <<healthy, schedule, checker, flips>>

\* A restart forgets the schedule and the checks in progress;
\* Run checks every connection at once.
RestartServer ==
  /\ updates < MaxUpdates
  /\ updates' = updates + 1
  /\ known' = {}
  /\ streak' = [c \in Connections |-> 0] /\ due' = [c \in Connections |-> 0]
  /\ checker' = Tick
  /\ UNCHANGED <<healthy, state, flips>>

Flip(c) ==
  /\ flips < MaxFlips
  /\ flips' = flips + 1
  /\ healthy' = IF c \in healthy THEN healthy \ {c} ELSE healthy \cup {c}
  /\ UNCHANGED <<state, schedule, checker, updates>>

----------------------------------------------------------------------------
ConnectionsInit ==
  /\ healthy \in SUBSET Connections
  /\ state = "defined"
  /\ known = {}
  /\ streak = [c \in Connections |-> 0] /\ due = [c \in Connections |-> 0]
  /\ checker = Tick
  /\ updates = 0 /\ flips = 0

CheckStep(k) == Probe(k) \/ UpdateStatus(k) \/ RecordResult(k)

ConnectionsNext ==
  \/ \E c \in Connections : CheckAll(c) \/ CheckEnvironmentConnection(c) \/ Flip(c)
  \/ \E k \in Checkers : CheckStep(k) \/ CheckBreaksOff(k)
  \/ ListBreaksOff
  \/ Minute
  \/ ReplaceStatus
  \/ RestartServer

ConnectionsSpec == ConnectionsInit /\ [][ConnectionsNext]_connectionVars

\* Each caller of Check runs on (the probers have a timeout) and time passes.
FairConnectionsSpec ==
  /\ ConnectionsSpec
  /\ WF_connectionVars(Minute)
  /\ WF_connectionVars(\E c \in Connections : CheckAll(c))
  /\ \A k \in Checkers : WF_connectionVars(CheckStep(k))

----------------------------------------------------------------------------
\* Properties.

AllUp == healthy = Connections
AllDown == healthy = {}

\* UpdateStatus: once all endpoints of an environment stay up it becomes
\* connected and stays so, and once all stay down, unreachable, although a slow
\* check may write its old result over a newer one. Where some stay up and some
\* down, every check writes what it found over what the last one wrote: the
\* status goes from one to the other for ever and neither is given up.
StatusFollowsHealth ==
  \/ <>[](AllUp /\ state = "connected")
  \/ <>[](AllDown /\ state = "unreachable")
  \/ /\ []<>(~AllUp /\ ~AllDown /\ state = "connected")
     /\ []<>(~AllUp /\ ~AllDown /\ state = "unreachable")
=============================================================================
