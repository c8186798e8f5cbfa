\* A drain of a node with three pods, to its end.
SPECIFICATION FairSpec
CONSTANTS
    p1 = p1
    p2 = p2
    p3 = p3
    v1 = v1
    v2 = v2
    v3 = v3
    Pod <- MCPod
    Volume <- MCVolume
    Scenarios <- MCScenarios
    ChanSize = 2
INVARIANTS
    ResultsAccounted
    ReattachmentSeen
    DrainedMeansMoved
PROPERTIES
    VolumesSerial
    BudgetRespected
    DrainReturns
\* The drain ends.
CHECK_DEADLOCK FALSE
