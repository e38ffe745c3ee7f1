------------------------------- MODULE Runner -------------------------------
(* akoflow-simgrid-runner (simgrid-runner/src/main.cpp), the program that    *)
(* simulates a plan, and the input the server writes for it                  *)
(* (provider/simgrid/runner_contract.go).  Every task and every transfer is  *)
(* an actor of SimGrid; they wait for each other at mailboxes.  Virtual time *)
(* is left out: what matters is who waits for whom.                          *)
EXTENDS Integers, Sequences, FiniteSets, Functions

CONSTANTS
    SimTasks,      \* activities of the workflow
    SimHosts,      \* resources of the request
    SimPlaces,     \* [host, order] an assignment may have; the host may be unknown
    Orders,        \* sequences of dependencies <<producer, consumer>>
    Unassigned     \* the place of an activity without an assignment

\* activity_dependencies has no dependency twice: they are its primary key.
ASSUME RunnerAssumption ==
    Orders \subseteq Seq(SimTasks \X SimTasks) /\ \A order \in Orders : IsInjective(order)

VARIABLES
    input,    \* what create_tasks and run_simulation read
    gets,     \* the mailboxes each task has yet to read, with their ranks
    phase,    \* where the actor of each task is
    carrier,  \* where the actor of each transfer is
    tokens,   \* detached messages nobody has read
    runner    \* the process

runnerVars == <<input, gets, phase, carrier, tokens, runner>>

-----------------------------------------------------------------------------
(* The input *)

\* indexRequest: the activity before another one on its host
LanesOf(place) ==
    {lane \in SimTasks \X SimTasks :
        LET p == place[lane[1]]
            s == place[lane[2]]
        IN  /\ p.host = s.host /\ p.order < s.order
            /\ \A t \in SimTasks : place[t].host = s.host =>
                  place[t].order <= p.order \/ place[t].order >= s.order}

\* plan_assignments: no two activities have one place of a resource.
Assignments ==
    {place \in [SimTasks -> SimPlaces \cup {Unassigned}] :
        \A t, u \in SimTasks : t # u => place[t] # place[u] \/ place[t] = Unassigned}

Resolved(place) == \A t \in SimTasks : place[t] # Unassigned /\ place[t].host \in SimHosts

\* Bytes only matter for dependencies of the workflow; data says which have any.
buildRunnerInput(place, order, data) ==
    [host |-> [t \in SimTasks |-> place[t].host],
     dependencies |-> order,
     data |-> data \cap Range(order),
     lanes |-> LanesOf(place)]

NoInput == [host |-> [t \in SimTasks |-> ""], dependencies |-> <<>>, data |-> {}, lanes |-> {}]

-----------------------------------------------------------------------------
(* Mailboxes *)

mailbox_name(kind, d) == <<kind, d[1], d[2]>>
Pairs == SimTasks \X SimTasks
Mailboxes == {"ready", "data", "lane"} \X SimTasks \X SimTasks

Apart(d) == input.host[d[1]] # input.host[d[2]]

\* One actor for each dependency that moves bytes to another host
Transfers_All == Range(input.dependencies) \cap input.data
Transfers == {d \in input.data : Apart(d)}

\* What a task waits for before it computes, in the order of its reads: its
\* inputs as they come in the list of dependencies, then its lane
InputsOf(t) ==
    {<<i, mailbox_name(IF Apart(input.dependencies[i]) THEN "data" ELSE "ready", input.dependencies[i])>> :
        i \in {k \in DOMAIN input.dependencies : input.dependencies[k][2] = t}}
GetsOf_NoLane(t) == InputsOf(t)
GetsOf(t) ==
    InputsOf(t) \cup
        {<<Len(input.dependencies) + 1, mailbox_name("lane", d)>> : d \in {e \in input.lanes : e[2] = t}}

RunnerInit ==
    /\ input = NoInput
    /\ gets = [t \in SimTasks |-> {}]
    /\ phase = [t \in SimTasks |-> "none"]
    /\ carrier = [d \in Pairs |-> "none"]
    /\ tokens = [m \in Mailboxes |-> 0]
    /\ runner = "none"

\* createBundle fails, or the process starts all actors.
Launched(place, order, data) ==
    /\ runner = "none"
    /\ \/ ~Resolved(place) /\ runner' = "refused" /\ UNCHANGED <<input, gets, phase, carrier>>
       \/ /\ Resolved(place)
          /\ runner' = "running"
          /\ input' = buildRunnerInput(place, order, data)
          /\ gets' = [t \in SimTasks |-> GetsOf(t)']
          /\ phase' = [t \in SimTasks |-> "waiting"]
          /\ carrier' = [d \in Pairs |-> "waiting"]
    /\ UNCHANGED tokens

-----------------------------------------------------------------------------
(* Actors *)

ActorWaits(t) == runner = "running" /\ phase[t] = "waiting"

\* The read that comes next: reads come one at a time, in the order of their ranks.
NextGets(t) == {g \in gets[t] : \A h \in gets[t] : g[1] <= h[1]}

\* A get meets a message that was left behind, or the actor that is putting.
LeftBehind(m) == m[1] # "data" /\ tokens[m] > 0
BeingPut(m) == m[1] = "data" /\ <<m[2], m[3]>> \in Transfers /\ carrier[<<m[2], m[3]>>] = "putting"

Receive(t) ==
    /\ ActorWaits(t)
    /\ \E g \in NextGets(t) :
          LET m == g[2]
          IN  /\ gets' = [gets EXCEPT ![t] = @ \ {g}]
              /\ \/ LeftBehind(m) /\ tokens' = [tokens EXCEPT ![m] = @ - 1] /\ UNCHANGED carrier
                 \/ BeingPut(m) /\ carrier' = [carrier EXCEPT ![<<m[2], m[3]>>] = "sent"] /\ UNCHANGED tokens
    /\ UNCHANGED <<input, phase, runner>>

\* started_at, the overhead and the computation
Compute(t) ==
    /\ ActorWaits(t) /\ gets[t] = {}
    /\ phase' = [phase EXCEPT ![t] = "computing"]
    /\ UNCHANGED <<input, gets, carrier, tokens, runner>>

\* finished_at, and detached messages that nobody needs to wait for
SignalsOf(t) ==
    {mailbox_name("ready", d) : d \in {e \in Range(input.dependencies) : e[1] = t}}
        \cup {mailbox_name("lane", d) : d \in {e \in input.lanes : e[1] = t}}

Conclude(t) ==
    /\ runner = "running" /\ phase[t] = "computing"
    /\ phase' = [phase EXCEPT ![t] = "finished"]
    /\ tokens' = [m \in Mailboxes |-> tokens[m] + IF m \in SignalsOf(t) THEN 1 ELSE 0]
    /\ UNCHANGED <<input, gets, carrier, runner>>

\* A transfer waits for its producer and then for the consumer's get.
MayDepart(d) == d \in Transfers /\ carrier[d] = "waiting" /\ tokens[mailbox_name("ready", d)] > 0

Depart(d) ==
    /\ runner = "running" /\ MayDepart(d)
    /\ tokens' = [tokens EXCEPT ![mailbox_name("ready", d)] = @ - 1]
    /\ carrier' = [carrier EXCEPT ![d] = "putting"]
    /\ UNCHANGED <<input, gets, phase, runner>>

AllFinished == \A t \in SimTasks : phase[t] = "finished"
CanMove ==
    \/ \E t \in SimTasks :
          \/ phase[t] = "waiting" /\ (gets[t] = {} \/ \E g \in NextGets(t) : LeftBehind(g[2]) \/ BeingPut(g[2]))
          \/ phase[t] = "computing"
    \/ \E d \in Pairs : MayDepart(d)

\* engine.run returns when no actor can move; SimGrid reports a deadlock if one
\* is left.
EngineStops ==
    /\ runner = "running" /\ ~CanMove
    /\ runner' = IF AllFinished THEN "written" ELSE "deadlock"
    /\ UNCHANGED <<input, gets, phase, carrier, tokens>>

RunnerNext ==
    \/ runner = "none" /\ \E place \in Assignments, order \in Orders :
          \E data \in SUBSET Range(order) : Launched(place, order, data)
    \/ \E t \in SimTasks : Receive(t) \/ Compute(t) \/ Conclude(t)
    \/ \E d \in Pairs : Depart(d)
    \/ EngineStops

RunnerSpec == RunnerInit /\ [][RunnerNext]_runnerVars

-----------------------------------------------------------------------------
(* Properties *)

(* run_simulation: when a task computes, its producers and the task before   *)
(* it in its lane have finished and its data have arrived, in whatever order *)
(* the actors ran.  build_result relies on it for its ready and queue times. *)
InputsArrived ==
    \A t \in SimTasks : phase[t] \in {"computing", "finished"} =>
        /\ \A d \in Range(input.dependencies) : d[2] = t =>
              phase[d[1]] = "finished" /\ (d \in input.data /\ Apart(d) => carrier[d] = "sent")
        /\ \A d \in input.lanes : d[2] = t => phase[d[1]] = "finished"

\* Tasks that wait for each other, through dependencies and lanes together
WaitCircle ==
    \E set \in (SUBSET SimTasks) \ {{}} : \A t \in set : \E u \in set :
        <<u, t>> \in Range(input.dependencies) \cup input.lanes

\* A dependency without data between two hosts: its consumer reads the mailbox
\* of a transfer that create_transfers left out.
NobodySends == \E d \in Range(input.dependencies) : Apart(d) /\ d \notin input.data

(* create_transfers and run_simulation: a simulation gets stuck only on a    *)
(* circle of dependencies and lanes or on a dependency without data between  *)
(* hosts, and always on these.                                               *)
DeadlocksAreExplained ==
    /\ runner = "deadlock" => WaitCircle \/ NobodySends
    /\ runner = "written" => ~WaitCircle /\ ~NobodySends
=============================================================================
