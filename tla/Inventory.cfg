SPECIFICATION MCSpec
CONSTANTS
    prepA = prepA
    prepB = prepB
    prepC = prepC
    Blobs <- MCBlobs
    Preparations = {prepA, prepB, prepC}
    Requirement <- MCSeparate
    Size = 3
    Source <- MCSources
    Destination <- MCDestinations
    NoFile = NoFile
    MaxLength = 4
    MaxFaults = 2
    Definitions <- MCDefinitions
    Reported <- MCReported
    Ident <- MCIdent
    Endpoints <- MCEndpoints
    Discoverers = {x1, x2}
    x1 = x1
    x2 = x2
    ScopeIDs = {s1}
    MaxChanges = 5
    Connections = {"ssh", "api"}
    Backoff <- MCBackoff
    MaxAge = 1
    MaxUpdates = 1
    MaxFlips = 1
INVARIANTS
    GateHolds
    UnusedStaysEditable PlansStayInScope DiscoveryIsComplete
PROPERTIES
    RepeatedIsDelivered StatusIsMonitored
CHECK_DEADLOCK FALSE
