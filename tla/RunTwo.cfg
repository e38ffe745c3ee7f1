SPECIFICATION RunSpec
CONSTANTS
    Activities <- MCPair
    Pred <- MCChain
    Executors = {e1, e2}
    MaxParallel = 2
    Runtime <- MCKubernetes
    MaxAttempts = 2
    MaxFaults = 2
PROPERTIES
    ImplementsWorkflowRun
SYMMETRY Symmetry
CHECK_DEADLOCK FALSE
