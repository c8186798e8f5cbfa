SPECIFICATION Spec
CONSTANTS
    MaxSets = 2
    MaxReplicas = 2
    MaxTerminating = 1
    MaxEdits = 1
    Scenarios <- SurgeScenarios
INVARIANTS
    SurgeRespected
