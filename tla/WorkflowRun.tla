----------------------------- MODULE WorkflowRun -----------------------------
(* What a run promises, without executors, handles, jobs, retries or faults: *)
(* activities are given out in the order of their dependencies, each of them *)
(* may succeed once it was given out, and the run is called completed when   *)
(* all have.  ExecutionRun implements it.                                    *)
CONSTANTS Activities, Pred

VARIABLES
    given,     \* activities the runtime was given
    done,      \* activities that have succeeded there
    recorded   \* what clients read of the run

lifeVars == <<given, done, recorded>>

LifeInit == given = {} /\ done = {} /\ recorded = "none"

Give(a) ==
    /\ a \notin given /\ Pred[a] \subseteq done
    /\ given' = given \cup {a}
    /\ UNCHANGED <<done, recorded>>

Succeed(a) ==
    /\ a \in given
    /\ done' = done \cup {a}
    /\ UNCHANGED <<given, recorded>>

\* Once there is a row of the run it stays.
Record(status) ==
    /\ status = "running" => recorded = "none"
    /\ status = "completed" => done = Activities
    /\ recorded' = status
    /\ UNCHANGED <<given, done>>

LifeNext ==
    \/ \E a \in Activities : Give(a) \/ Succeed(a)
    \/ \E status \in {"running", "completed", "failed"} : Record(status)

LifeSpec == LifeInit /\ [][LifeNext]_lifeVars
==============================================================================
