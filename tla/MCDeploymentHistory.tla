------------------------ MODULE MCDeploymentHistory ------------------------
(***************************************************************************)
(* Scenarios for DeploymentHistory.                                        *)
(***************************************************************************)
EXTENDS DeploymentHistory, SequencesExt, TLC

CONSTANTS a, b, c

MCTemplates == {a, b, c}

Case(templates, past, bad, limit, deadline, n, events) ==
    [templates |-> templates, start |-> IF past = <<>> THEN a ELSE Last(past),
     past |-> past, bad |-> bad, limit |-> limit, deadline |-> deadline,
     edits |-> n, events |-> events]

HistoryScenarios ==
    { Case({a, b}, <<>>, {}, 0, FALSE, 2, {"edit", "delete", "crash"}),
      Case({a, b}, <<>>, {}, 0, TRUE, 1, {"edit", "delete", "crash"}),
      Case({a, b, c}, <<a, b>>, {}, 1, FALSE, 2, {"edit", "rollback", "crash"}),
      Case({a, b}, <<>>, {a, b}, None, TRUE, 3, {"edit", "pause"}),
      Case({a, b}, <<a>>, {}, 0, TRUE, 2, {"edit", "pause"}),
      Case({a, b}, <<a, b>>, {}, 1, TRUE, 2, {"edit", "rollback"}),
      Case({a, b}, <<a>>, {}, 0, FALSE, 2, {"edit", "delete set"}),
      Case({a, b}, <<a>>, {}, 0, FALSE, 3, {"edit", "orphan", "relabel"}),
      Case({a, b}, <<a>>, {}, 0, FALSE, 3, {"edit", "orphan", "delete"}),
      Case({a, b}, <<a>>, {}, 0, FALSE, 2, {"edit", "stale"}) }
=============================================================================
