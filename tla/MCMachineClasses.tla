-------------------------- MODULE MCMachineClasses --------------------------
(***************************************************************************)
(* MachineClasses for TLC: one machine set with up to two machines, one    *)
(* class name, one secret.                                                 *)
(***************************************************************************)
EXTENDS MachineClasses

CONSTANTS m1, m2

MCMachine == {m1, m2}

Base == [provider |-> "AWS", classes |-> {"generic"}, kind |-> "generic", machines |-> {m1}, vms |-> {m1},
         deleteMigrated |-> FALSE, slow |-> {}, workers |-> {"machine", "class"}, events |-> {}]

\* Machines refer to a provider-specific class; somebody else may have made the generic one.
Migration(provider, slow) ==
    [Base EXCEPT !.provider = provider, !.classes = {"provider"}, !.kind = "provider",
                 !.deleteMigrated = TRUE, !.slow = slow, !.workers = {"migrate", "class", "sync"}]

With(scenario, names) == [scenario EXCEPT !.workers = names]

EachProvider ==
    {With(Migration(kind, {<<"MCM", "provider">>, <<"MCM", m1>>}), {"migrate", "class"}) :
        kind \in ProviderKind}

MCScenarios == EachProvider \cup {
    Migration("AWS", {<<"MC", m1>>}),
    With(Migration("Azure", {<<"MCM", m1>>}), {"migrate", "sync"}),
    With(Migration("GCP", {<<"MCM", "set">>}), {"migrate", "sync"}),
    [Migration("Packet", {}) EXCEPT !.events = {"fault"}],
    [Migration("Alicloud", {}) EXCEPT !.classes = {"generic"}],
    [With(Migration("AWS", {}), {"migrate", "sync"}) EXCEPT !.machines = {m1, m2}],
    [Base EXCEPT !.slow = {<<"MC", "generic">>, <<"MC", m1>>}, !.machines = {m1, m2}, !.vms = {m2},
                 !.events = {"delete generic", "delete machine"}],
    [Base EXCEPT !.vms = {}, !.slow = {<<"MC", m1>>, <<"MC", "generic">>},
                 !.events = {"delete machine", "create machine", "delete generic"}],
    [Base EXCEPT !.classes = {"provider"}, !.kind = "provider", !.slow = {<<"MCM", m1>>, <<"MCM", "provider">>},
                 !.events = {"delete provider", "delete machine"}],
    [Base EXCEPT !.classes = {"provider", "generic"}, !.slow = {<<"MC", "secret">>, <<"MCM", "secret">>},
                 !.workers = {"secret", "class"}, !.events = {"delete generic", "delete provider"}]}

=============================================================================
