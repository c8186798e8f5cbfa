SPECIFICATION FairSpec
CONSTANTS
    Scenarios <- MCScenarios
    MaxVMs = 2
INVARIANTS OneVM
PROPERTIES BackedVMKept DeletionCompletes OrphansCollected
CHECK_DEADLOCK FALSE
