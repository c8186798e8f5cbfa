------------------- MODULE MCMachineDeploymentController -------------------
(* Instances of MachineDeploymentController for TLC.                       *)
EXTENDS MachineDeploymentController

None == [percent |-> FALSE, value |-> 0]
One == [percent |-> FALSE, value |-> 1]
Quarter == [percent |-> TRUE, value |-> 25]

Rolling(surge, unavailable, replicas, sets, numEdits, events) ==
    [type |-> "RollingUpdate", maxSurge |-> surge, maxUnavailable |-> unavailable,
     replicas |-> replicas, sets |-> sets, edits |-> numEdits, events |-> events]
Recreate(replicas, numEdits, events) ==
    [type |-> "Recreate", maxSurge |-> None, maxUnavailable |-> None,
     replicas |-> replicas, sets |-> 2, edits |-> numEdits, events |-> events]

MCScenarios ==
    {Rolling(One, One, 2, 3, 2, {"update error"}),           \* overlapping rollouts
     Rolling(One, Quarter, 3, 2, 1, {"update error", "stale"}),
     Rolling(One, One, 2, 2, 2, {"scale", "update error"}),  \* proportional scaling
     Rolling(One, One, 3, 2, 2, {"scale"}),
     Recreate(2, 3, {"scale", "rollback", "fail", "update error"}),
     Rolling(Quarter, None, 2, 2, 2, {"rollback", "pause"}), \* left alone in the end
     Rolling(None, One, 2, 2, 2, {"rollback"}),
     Recreate(2, 2, {"rollback", "scale"}),
     Recreate(2, 2, {"rollback", "late"})}                   \* syncs of sets take time

SurgeScenarios == {Rolling(One, None, 2, 2, 1, {})}

=============================================================================
