CONSTANTS
    a = a
    b = b
    c = c
    None = None
    Templates <- MCTemplates
    MaxEdits = 3
    MaxFaults = 1
    MaxRevision = 6
    Scenarios <- HistoryScenarios
SPECIFICATION FairSpec
INVARIANTS RevisionsDistinct NoSetLeft
PROPERTIES RollbackFaithful CleanupSpares PauseForgiven HistorySettles OutcomeReported DeletionCompletes
CHECK_DEADLOCK FALSE
