SPECIFICATION FairTransferSpec
CONSTANTS
    prepA = prepA
    prepB = prepB
    prepC = prepC
    Blobs <- MCBlobs
    Preparations = {prepA}
    Requirement <- MCSame
    Size = 3
    Source <- MCStore
    Destination <- MCCluster
    NoFile = NoFile
    MaxLength = 3
    MaxFaults = 1
PROPERTIES
    RsyncDelivered
CHECK_DEADLOCK FALSE
