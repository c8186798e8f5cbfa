------------------------ MODULE MCOvershootingSafety ------------------------
(***************************************************************************)
(* OvershootingSafety for TLC: a set of the deployment is frozen from 2    *)
(* machines on and thawed at 0, a set of its own from 3 on and at 1, so    *)
(* that for both some counts lie between the limits.                       *)
(***************************************************************************)
EXTENDS OvershootingSafety

CONSTANTS s1, s2

MCSet == {s1, s2}

\* A deployment with one set and lagging listers; a set of its own; two sets of a deployment;
\* a request at the deployment.
MCScenarios == {
    [owned |-> {s1}, active |-> {s1}, events |-> {"set lags", "call error"}],
    [owned |-> {s1}, active |-> {s1}, events |-> {"deployment lags", "unfreeze deployment"}],
    [owned |-> {s2}, active |-> {s1}, events |-> {"set lags", "unfreeze set"}],
    [owned |-> {s1, s2}, active |-> {s1, s2}, events |-> {}],
    [owned |-> {s1, s2}, active |-> {s1},
     events |-> {"call error", "claim error", "unfreeze deployment"}]}

=============================================================================
