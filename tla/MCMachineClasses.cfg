SPECIFICATION FairSpec

CONSTANTS
    m1 = m1
    m2 = m2
    Machine <- MCMachine
    Scenarios <- MCScenarios
    MaxFaults = 1

INVARIANTS GenericRefsFilled UsedClassKept
PROPERTIES MigrationCompletes DeletionsComplete SecretFinalizersSettle

CHECK_DEADLOCK FALSE
