CONSTANTS
    Contexts <- MCContexts
    Builds <- MCBuilds
    Runs = {"run", "rerun", "pull"}
    Uploads <- MCUploads
    BuildOf <- MCBuildOf
    UploadOf <- MCUploadOf
    Specification <- MCSpecification
    Reproducible = {"recipe"}
    Entries = 2
    Nothing = Nothing
    MaxFaults = 1
SPECIFICATION FairBuildSpec
INVARIANTS
    CompletedIsPublished PublishedIsStored BuiltFromWholeContext
PROPERTIES
    RunsSettle
CHECK_DEADLOCK FALSE
