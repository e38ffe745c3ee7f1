--------------------------- MODULE MCExecutionRun ---------------------------
(* Instances of ExecutionRun for TLC.                                        *)
EXTENDS ExecutionRun, TLC

\* A chain of two
MCPair == 1..2
MCChain == (1 :> {}) @@ (2 :> {1})

\* One runtime for both
MCLocal == [a \in MCPair |-> "local"]
MCKubernetes == [a \in MCPair |-> "kubernetes"]

\* Executors are interchangeable.
Symmetry == Permutations(Executors)
=============================================================================
