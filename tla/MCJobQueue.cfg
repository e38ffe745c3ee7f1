CONSTANTS
    j1 = j1
    j2 = j2
    j3 = j3
    k1 = k1
    Jobs = {j1, j2, j3}
    Owners = {o1, o2}
    Keys = {k1}
    NoOwner = NoOwner
    NoKey = NoKey
    NoJob = NoJob
    Key <- MCKey
    Priority <- MCPriority
    MaxAttempts = 2
    LeaseDuration = 2
    RetryBase = 1
    MaxShift = 1
    UtcOffset = 0
    MaxLag = 3
    MaxBatch = 2
    MaxExpiries = 2
    Concurrency = 2
    MaxFaults = 1

SPECIFICATION MCSpec
INVARIANTS
    AttemptsBounded HandlersBounded
SYMMETRY Symmetry
