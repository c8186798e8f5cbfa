----------------------- MODULE MCMachineSetController -----------------------
\* Instances of MachineSetController for TLC.
EXTENDS MachineSetController

CONSTANT m1

With(replicas, burst, events) ==
    [replicas |-> replicas, burst |-> burst, events |-> events, urgent |-> {m1}]

\* Each scenario has the events that disturb one kind of sync; scaling, which multiplies
\* the states most, comes with bursts of one machine.
MCScenarios == {
    With(2, 2, {"freeze", "create error", "list error"}),
    With(2, 2, {"fail", "recover", "delete error", "list error"}),
    With(1, 1, {"scale", "fail"}),
    With(1, 1, {"scale", "create error"}),
    With(1, 1, {"delete set", "delete machine", "delete error"})}

RetriedScenarios == {With(1, 1, {"fail", "delete error"})}
=============================================================================
