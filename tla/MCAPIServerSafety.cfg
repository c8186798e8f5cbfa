SPECIFICATION FairSpec
CONSTANTS
    Machine = {m1, m2}
    Timeout = 1
    MaxRetries = 2
    Faults <- AllFaults
PROPERTIES
    ResetBeforeUnfreeze
    Thaws
