CONSTANTS
    Jobs = {j1, j2}
    Owners = {p1, p2}
    Keys = {}
    NoOwner = NoOwner
    NoKey = NoKey
    NoJob = NoJob
    Key <- MCKey
    Priority <- MCPriority
    MaxAttempts = 2
    LeaseDuration = 3
    RetryBase = 1
    MaxShift = 1
    UtcOffset <- WestOfUtc
    MaxLag = 2
    MaxBatch = 2
    MaxExpiries = 2
    Concurrency = 1
    MaxFaults = 0

SPECIFICATION LoopSpec

INVARIANT RunningIsLeased
