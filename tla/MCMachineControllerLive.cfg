SPECIFICATION FairSpec
CONSTANTS
    Machine = {m1}
    MaxVMs = 2
    StatusImplemented = TRUE
    ListImplemented = TRUE
    Events <- LiveEvents
    NodeConditions = {"readonly"}
PROPERTIES
    BackedVMKept
    DeletionCompletes
