SPECIFICATION Spec
CONSTANTS
    Machine = {m1}
    MaxVMs = 2
    StatusImplemented = TRUE
    ListImplemented = FALSE
    Events <- AllEvents
    NodeConditions = {"readonly"}
INVARIANTS
    NoVMLeak
PROPERTIES
    DrainedOrExcused
    NodeGoneFirst
    LeaseKept
