CONSTANTS
    Activities <- MCPair
    Pred <- MCChain
    Executors = {e1}
    MaxParallel = 1
    Runtime <- MCSlurm
    MaxAttempts = 2
    MaxFaults = 2
    Stores <- MCStores
    Driver <- MCDriver
    ReadOnly = {}
    Paths <- MCPaths
    Parent <- MCParent
    LinkTo <- MCLinkTo
    Output <- MCOutput
    InitialTree <- MCTree
    Downloads <- MCDownloads
    Request <- MCRequest
    PageLimit = 2
    MaxRequests = 2
    MaxUpsets = 1
    MaxEdits = 1
    Viewers = {v}
    Targets = {"kubernetes", "scheduler", "unsupported", "none"}
    MaxOutput = 2
    MaxLog = 1
    MaxInput = 1
    MaxTroubles = 1
    Calls = {"c1", "c2", "c3"}
    RunOf <- MCRunOf
    Concurrent = 2
    MaxMishaps = 2
    JobNames = {"j", "k"}
    Served = {"j"}
    Retries = {"k"}
    Retention = 1
    MaxHours = 2
    MaxJobs = 2
    MaxOutages = 1
    Servers = {"s1", "s2"}
    Databases <- MCDatabases
    MaxDeaths = 2
SPECIFICATION MCSpec
INVARIANTS
    NothingHalfWritten DownloadsArrive
    ViewersMissNothing SessionsEndOnce
    SimulatorsAreBounded TraceIsOwn
    ServedIsWhole
PROPERTIES
    WorkIsSettled RemovesWhatItListed
CHECK_DEADLOCK FALSE
