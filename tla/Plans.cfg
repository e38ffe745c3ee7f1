SPECIFICATION MCSpec
CONSTANTS
    Activities <- MCActivities
    Pred <- MCPred
    Executors = {e1}
    MaxParallel = 2
    Runtime <- MCMixed
    MaxAttempts = 2
    MaxFaults = 2
    Tasks <- MCTasks
    Hosts = {"h1", "h2", "h3"}
    Schedulables = {"h1", "h2"}
    Places <- MCPlaces
    Dependencies <- MCDependencies
    Carrying <- MCCarrying
    Networks <- MCNetworks
    Durations <- MCDurations
    Resources = {"h1", "h2", "h3", "h4"}
    Topologies <- MCTopologies
    MaxHops = 4
    RuntimeOf <- MCRuntimeOf
    Resolvers = {"r1", "r2"}
    Addresses = {"a", "b"}
    MaxEdits = 3
    Documents <- MCDocuments
    Slug <- MCSlug
    NoSlug = ""
    CopyNames = {"C", "D", "--"}
    CopyNamespaces = {"", "k"}
    Copiers = {"c1", "c2"}
    Names <- MCNames
    Trees <- MCTrees
    Policies <- MCPolicies
    BrowseRoots <- MCBrowseRoots
    DefaultLimit = 10
    MaxLimit = 10
    DefaultDepth = 2
    BrowseLimit = 3
    SimTasks <- MCSimTasks
    SimHosts = {"h1", "h2"}
    SimPlaces <- MCSimPlaces
    Orders <- MCOrders
    Unassigned = Unassigned
    LocalTasks = {"a", "b"}
    Declared <- MCDeclared
    Files = {1, 2}
    Contents <- MCContents
    MaxWrites = 1
INVARIANTS
    DependenciesSucceeded CompletedMeansSucceeded SubmissionsBounded OutcomesAgree
    AcceptsExactlyDAGs StuckMeansCircle ScheduleIsEarliest PathsAreShortest
    OneAdapter
    DefinitionsAreWhole ExportIsFaithful
    IndexCounts
    InputsArrived DeadlocksAreExplained
    AloneIsExact
CHECK_DEADLOCK FALSE
