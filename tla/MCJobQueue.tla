----------------------------- MODULE MCJobQueue -----------------------------
(* Instance of JobQueue and EventLoop for TLC.  The callers of the queue are *)
(* chosen once: "any" are two owners that call its operations in any order   *)
(* on three Publish calls, two of them with the same idempotency key; "loops"*)
(* are two event loops whose renewals may be late, on one job.               *)
EXTENDS EventLoop, TLC

CONSTANTS j1, j2, j3, k1

VARIABLE callers

MCKey == (j1 :> k1) @@ (j2 :> k1) @@ (j3 :> NoKey)
MCPriority == (j1 :> 0) @@ (j2 :> 0) @@ (j3 :> 1)

MCInit == LoopInit /\ callers \in {"any", "loops"}

MCNext ==
    /\ UNCHANGED callers
    /\ \/ callers = "any" /\ QueueNext /\ UNCHANGED loopVars
       \/ callers = "loops" /\ LoopNext /\ \A j \in Jobs \ {j3} : UNCHANGED status[j]

MCSpec == MCInit /\ [][MCNext]_<<vars, callers>>

\* Processes are interchangeable.
Symmetry == Permutations(Owners)
=============================================================================
