CONSTANTS
    Jobs = {j1, j2}
    Owners = {p1, p2}
    Keys = {}
    NoOwner = NoOwner
    NoKey = NoKey
    NoJob = NoJob
    Key <- MCKey
    Priority <- MCPriority
    MaxAttempts = 2
    LeaseDuration = 2
    RetryBase = 1
    MaxShift = 1
    UtcOffset = 0
    MaxLag = 1
    MaxBatch = 2
    MaxExpiries = 2
    Concurrency = 1
    MaxFaults = 1

SPECIFICATION FairLoopSpec
INVARIANTS
    ExclusiveHandling
PROPERTIES
    QueueSpec EventuallySettled
