SPECIFICATION FairSpec
CONSTANTS
    MaxSets = 3
    MaxReplicas = 3
    MaxTerminating = 2
    MaxEdits = 3
    Scenarios <- MCScenarios
INVARIANTS
    AvailabilityKept
    
PROPERTIES
    
    UndisturbedRolloutCompletes
