SPECIFICATION WorkflowsSpec
CONSTANTS
    Documents <- MCDocuments
    Slug <- MCSlug
    NoSlug = ""
    CopyNames = {"C", "D", "--"}
    CopyNamespaces = {"", "k"}
    Copiers = {"c1", "c2"}
INVARIANT DuplicatesAreStored
