SPECIFICATION FairSpec

CONSTANTS
    s1 = s1
    s2 = s2
    Set <- MCSet
    Scenarios <- MCScenarios
    Replicas = 1
    Surge = 0
    SafetyUp = 1
    SafetyDown = 2
    MaxMachines = 3
    NoSync = NoSync

PROPERTIES FreezeSettles DeploymentFollows
