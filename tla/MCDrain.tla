------------------------------- MODULE MCDrain -------------------------------
\* Instances of Drain for TLC.
EXTENDS Drain, TLC

CONSTANTS p1, p2, p3, v1, v2, v3

MCPod == {p1, p2, p3}

MCVolume == {v1, v2, v3}

NoVolumes == [p \in MCPod |-> {}]

SamePriority == [p \in MCPod |-> 0]

\* p3 is of a DaemonSet; p1 has two volumes and goes first.
Base == [inTree |-> FALSE, mode |-> "evict",
         vols |-> (p1 :> {v1, v2}) @@ (p2 :> {v3}) @@ NoVolumes,
         priority |-> (p1 :> 1) @@ SamePriority,
         kept |-> {p3}, csi |-> FALSE, retries |-> 2, maxFaults |-> 1]

\* p1 and p2 have a volume each, p3 has none.
Mixed == [Base EXCEPT !.vols = (p1 :> {v1}) @@ (p2 :> {v2}) @@ NoVolumes, !.kept = {}]

MCScenarios == {
    Base,
    [Base EXCEPT !.vols = (p1 :> {v1, v2}) @@ (p2 :> {v2}) @@ NoVolumes,
                 !.priority = SamePriority, !.retries = 1],
    [Base EXCEPT !.csi = TRUE, !.retries = 1],
    [Mixed EXCEPT !.vols = (p1 :> {v1}) @@ NoVolumes, !.retries = 1],
    [Mixed EXCEPT !.mode = "delete"],
    [Mixed EXCEPT !.mode = "force"],
    [Mixed EXCEPT !.retries = 0],
    [Mixed EXCEPT !.inTree = TRUE, !.kept = {p2}]
}
=============================================================================
