SPECIFICATION TransferSpec
CONSTANTS
    prepA = prepA
    prepB = prepB
    prepC = prepC
    Blobs <- MCBlobs
    Preparations = {prepA, prepB}
    Requirement <- MCSame
    Size = 2
    Source <- MCStore
    Destination <- MCFileSystem
    NoFile = NoFile
    MaxLength = 2
    MaxFaults = 0
INVARIANTS
    GateHolds
CHECK_DEADLOCK FALSE
