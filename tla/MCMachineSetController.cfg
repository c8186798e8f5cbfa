SPECIFICATION FairSpec
CONSTANTS
    m1 = m1
    Machine = {m1, m2}
    Scenarios <- MCScenarios
PROPERTIES
    FreshSyncExact
    SetDeletionCompletes
    ReplicasConverge
