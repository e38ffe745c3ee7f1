SPECIFICATION FairRunSpec
CONSTANTS
    Activities <- MCPair
    Pred <- MCChain
    Executors = {e1}
    MaxParallel = 1
    Runtime <- MCLocal
    MaxAttempts = 2
    MaxFaults = 1
PROPERTIES
    InspectionCatchesUp
CHECK_DEADLOCK FALSE
