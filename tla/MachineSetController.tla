------------------------ MODULE MachineSetController ------------------------
(***************************************************************************)
(* The machine set controller (machineset.go): one worker syncs a machine  *)
(* set from a fresh read of the set and a possibly stale list of its       *)
(* machines.  Expectations are recorded but never waited for, so the list  *)
(* may lack what the last sync created.  All machines belong to the one    *)
(* set; names of machines that are gone everywhere are used again.         *)
(***************************************************************************)
EXTENDS Integers, FiniteSets

CONSTANTS
    Machine,      \* names generated for machines
    Scenarios     \* the settings to start from

EventNames == {"scale", "freeze", "delete set", "delete machine", "fail", "recover",
               "list error", "create error", "delete error"}

\* replicas: the largest Spec.Replicas; burst: BurstReplicas; events: what else may happen;
\* urgent: the machines whose priority annotation is below the default.
Scenario == [replicas : Nat, burst : Nat \ {0}, events : SUBSET EventNames,
             urgent : SUBSET Machine]

ASSUME MachineAssumption == IsFiniteSet(Machine)
ASSUME ScenariosAssumption == Scenarios \subseteq Scenario

VARIABLES
    env,      \* the scenario
    set,      \* the MachineSet on the API server
    api,      \* the Machines on the API server
    cache,    \* the Machines in the lister
    pc,       \* what the sync does next
    snap,     \* the MachineSet the sync works on
    copy,     \* the Machines the sync works on
    pending,  \* the goroutines of terminateMachines: the call each makes next
    need,     \* slowStartBatch: creations remaining
    batch,    \* slowStartBatch: size of the next batch
    calm      \* the list was up to date and nothing else has changed what it counts

vars == <<env, set, api, cache, pc, snap, copy, pending, need, batch, calm>>
sync == <<pc, snap, copy, pending, need, batch>>

Phase == {"Pending", "Running", "Failed", "Terminating"}
Object == [there : BOOLEAN, phase : Phase, deleting : BOOLEAN]
Absent == [there |-> FALSE, phase |-> "Pending", deleting |-> FALSE]
Created == [Absent EXCEPT !.there = TRUE]
MachineSet == [exists : BOOLEAN, deleting : BOOLEAN, finalizer : BOOLEAN, frozen : BOOLEAN,
               replicas : 0 .. env.replicas]
NewMachineSet == [exists |-> TRUE, deleting |-> FALSE, finalizer |-> FALSE, frozen |-> FALSE,
                  replicas |-> env.replicas]

Smaller(a, b) == IF a < b THEN a ELSE b
Larger(a, b) == IF a > b THEN a ELSE b

Nothing == [m \in Machine |-> Absent]
Listed(objects) == {m \in Machine : objects[m].there}

Init ==
    /\ env \in Scenarios
    /\ set = NewMachineSet
    /\ api = Nothing
    /\ cache = Nothing
    /\ pc = "idle"
    /\ snap = NewMachineSet
    /\ copy = Nothing
    /\ pending = [m \in Machine |-> "none"]
    /\ need = 0
    /\ batch = 0
    /\ calm = FALSE

-----------------------------------------------------------------------------
(***************************************************************************)
(* The sync, reconcileClusterMachineSet.                                   *)
(***************************************************************************)
\* The deletion timestamp does not make a machine inactive, its phase does.
IsMachineActive(o) == o.phase \notin {"Failed", "Terminating"}
Active(objects) == {m \in Listed(objects) : IsMachineActive(objects[m])}
IsMachineFailed(o) == o.phase = "Failed"

Return ==
    /\ pc' = "idle"
    /\ snap' = NewMachineSet
    /\ copy' = Nothing
    /\ pending' = [m \in Machine |-> "none"]
    /\ need' = 0
    /\ batch' = 0
    /\ calm' = FALSE

\* Get of the set.
Fetch ==
    /\ pc = "idle"
    /\ set.exists
    /\ snap' = set
    /\ pc' = IF set.deleting \/ set.finalizer THEN "list" ELSE "finalizer"
    /\ UNCHANGED <<env, set, api, cache, copy, pending, need, batch, calm>>

\* addMachineSetFinalizers, on a fresh read: the set may be gone by now.
AddMachineSetFinalizers ==
    /\ pc = "finalizer"
    /\ set' = [set EXCEPT !.finalizer = set.exists]
    /\ pc' = "list"
    /\ UNCHANGED <<env, api, cache, snap, copy, pending, need, batch, calm>>

Terminating(machines) == [m \in Machine |-> IF m \in machines THEN "delete" ELSE "none"]

DeleteMachineSetFinalizers ==
    set' = IF snap.finalizer THEN [set EXCEPT !.finalizer = FALSE, !.exists = @ /\ ~set.deleting]
                             ELSE set

\* The list and claimMachines: the failed machines go first, or all of them when the set is
\* being deleted.
List ==
    /\ pc = "list"
    /\ copy' = cache
    /\ calm' = (cache = api /\ \A m \in Active(api) : ~api[m].deleting)
    /\ IF ~snap.deleting
       THEN /\ pending' = Terminating({m \in Listed(cache) : IsMachineFailed(cache[m])})
            /\ pc' = "stale"
            /\ UNCHANGED set
       ELSE IF Listed(cache) = {}
       THEN /\ DeleteMachineSetFinalizers
            /\ pc' = "status"
            /\ UNCHANGED pending
       ELSE /\ pending' = Terminating(IF snap.finalizer THEN Listed(cache) ELSE {})
            /\ pc' = "excess"
            /\ UNCHANGED set
    /\ UNCHANGED <<env, api, cache, snap, need, batch>>

\* The list, a claim or a template sync fails.
ListFails ==
    /\ pc = "list"
    /\ "list error" \in env.events
    /\ Return
    /\ UNCHANGED <<env, set, api, cache>>

\* Mutant: the phase is taken for the mark.
MarkedByPhase(o) == o.deleting \/ o.phase = "Terminating"

\* Machine is already marked as 'to-be-deleted'.
Marked(o) == o.deleting

Deleted(o) == [o EXCEPT !.deleting = TRUE]

\* prepareMachineForDeletion: Delete.  A machine without finalizer is gone at once.
PrepareDelete(m) ==
    /\ pending[m] = "delete"
    /\ ~Marked(copy[m])
    /\ pending' = [pending EXCEPT ![m] = "status"]
    /\ IF ~api[m].there THEN UNCHANGED api
       ELSE \/ api' = [api EXCEPT ![m] = Deleted(@)]
            \/ api[m].phase = "Pending" /\ api' = [api EXCEPT ![m] = Absent]
    /\ UNCHANGED <<env, set, cache, pc, snap, copy, need, batch, calm>>

PrepareReturns(m) ==
    /\ pending[m] = "delete"
    /\ Marked(copy[m])
    /\ pending' = [pending EXCEPT ![m] = "none"]
    /\ UNCHANGED <<env, set, api, cache, pc, snap, copy, need, batch, calm>>

\* An error of Delete is reported, and the status is written all the same.
PrepareDeleteFails(m) ==
    /\ pending[m] = "delete"
    /\ ~Marked(copy[m])
    /\ "delete error" \in env.events
    /\ pending' = [pending EXCEPT ![m] = "status"]
    /\ UNCHANGED <<env, set, api, cache, pc, snap, copy, need, batch, calm>>

\* Mutant: only the Delete, no status.
PrepareNoStatus(m) ==
    /\ pending[m] = "status"
    /\ pending' = [pending EXCEPT ![m] = "none"]
    /\ UNCHANGED <<env, set, api, cache, pc, snap, copy, need, batch, calm>>

\* prepareMachineForDeletion: updateMachineStatus on a fresh read, until it goes through.
\* Nothing is written when the copy already has that status.
PrepareStatus(m) ==
    /\ pending[m] = "status"
    /\ pending' = [pending EXCEPT ![m] = "none"]
    /\ \/ api' = [api EXCEPT ![m].phase = IF api[m].there THEN "Terminating" ELSE @]
       \/ (copy[m].phase = "Terminating" \/ ~api[m].there) /\ UNCHANGED api
    /\ UNCHANGED <<env, set, cache, pc, snap, copy, need, batch, calm>>

NonePending == \A m \in Machine : pending[m] = "none"

\* ActiveMachines.Less: by priority, then by phase.  Of machines with the same phase the
\* oldest goes first; here it may be any, as names tell nothing of their age.
Priority(m) == IF m \in env.urgent THEN 1 ELSE 3
Rank(o) == CASE o.phase = "Running" -> 1 [] OTHER -> 0
NotAfter(a, b) ==
    Priority(a) < Priority(b) \/ (Priority(a) = Priority(b) /\ Rank(copy[a]) <= Rank(copy[b]))

\* Mutant: the slice ends one too early.
GetOneTooFew(active, n) == {chosen \in SUBSET active : Cardinality(chosen) = n - 1}

GetMachinesToDelete(active, n) ==
    {chosen \in SUBSET active :
        /\ Cardinality(chosen) = n
        /\ \A c \in chosen, k \in active \ chosen : NotAfter(c, k)}

\* manageReplicas after the failed machines.
ManageReplicas ==
    LET active == Active(copy)
        diff == Cardinality(active) - snap.replicas
    IN  /\ pc = "stale"
        /\ NonePending
        /\ \/ /\ diff < 0 /\ ~snap.frozen
              /\ need' = Smaller(-diff, env.burst)
              /\ batch' = 1
              /\ pc' = "create"
              /\ UNCHANGED pending
           \/ /\ diff = 0 \/ (diff < 0 /\ snap.frozen)
              /\ pc' = "status"
              /\ UNCHANGED <<need, batch, pending>>
           \/ /\ diff > 0
              /\ \E chosen \in GetMachinesToDelete(active, Smaller(diff, env.burst)) :
                    pending' = Terminating(chosen)
              /\ pc' = "excess"
              /\ UNCHANGED <<need, batch>>
        /\ UNCHANGED <<env, set, api, cache, snap, copy, calm>>

ExcessDone ==
    /\ pc = "excess"
    /\ NonePending
    /\ pc' = "status"
    /\ UNCHANGED <<env, set, api, cache, snap, copy, pending, need, batch, calm>>

Unborn == {m \in Machine : ~api[m].there /\ ~cache[m].there /\ ~copy[m].there}

\* The loop of slowStartBatch after a batch without error.
NextBatch(size, remaining) == Smaller(2 * size, remaining)
LeftAfter(remaining, size) == remaining - size

\* One batch of slowStartBatch.  A call may fail, with or without creating its machine, or
\* time out, which counts as a success.  A batch larger than the names left fails.
CreateBatch ==
    /\ pc = "create"
    /\ \E born \in SUBSET Unborn, failed \in BOOLEAN :
          LET k == Cardinality(born) IN
          /\ k <= batch
          /\ IF "create error" \in env.events THEN TRUE
             ELSE k = Smaller(batch, Cardinality(Unborn)) /\ failed = (k < batch)
          /\ api' = [m \in Machine |-> IF m \in born THEN Created ELSE api[m]]
          /\ calm' = (calm /\ ~failed /\ k = batch)
          /\ need' = IF failed THEN 0 ELSE LeftAfter(need, batch)
          /\ batch' = NextBatch(batch, need')
    /\ pc' = IF need' = 0 THEN "status" ELSE "create"
    /\ UNCHANGED <<env, set, cache, snap, copy, pending>>

\* updateMachineSetStatus; the key comes back after an error, an event or ten minutes.  The
\* counters of the status are not read by this controller and are left out.
UpdateStatus ==
    /\ pc = "status"
    /\ Return
    /\ UNCHANGED <<env, set, api, cache>>

-----------------------------------------------------------------------------
(***************************************************************************)
(* The lister, the users of the set, and the machine controller.           *)
(***************************************************************************)
InformerSync(m) ==
    /\ cache' = [cache EXCEPT ![m] = api[m]]
    /\ UNCHANGED <<env, set, api, sync, calm>>

Scale ==
    /\ "scale" \in env.events
    /\ set.exists
    /\ \E n \in 0 .. env.replicas : set' = [set EXCEPT !.replicas = n]
    /\ UNCHANGED <<env, api, cache, sync, calm>>

Freeze ==
    /\ "freeze" \in env.events
    /\ set.exists
    /\ set' = [set EXCEPT !.frozen = ~@]
    /\ UNCHANGED <<env, api, cache, sync, calm>>

DeleteSet ==
    /\ "delete set" \in env.events
    /\ set.exists
    /\ set' = [set EXCEPT !.deleting = TRUE, !.exists = set.finalizer]
    /\ UNCHANGED <<env, api, cache, sync, calm>>

DeleteMachine(m) ==
    /\ "delete machine" \in env.events
    /\ api[m].there
    /\ api' = [api EXCEPT ![m] = Deleted(@)]
    /\ calm' = FALSE
    /\ UNCHANGED <<env, set, cache, sync>>

Joins(m) ==
    /\ api[m].there /\ api[m].phase = "Pending"
    /\ api' = [api EXCEPT ![m].phase = "Running"]
    /\ UNCHANGED <<env, set, cache, sync, calm>>

Fails(m) ==
    /\ "fail" \in env.events
    /\ api[m].there /\ api[m].phase \in {"Pending", "Running"}
    /\ api' = [api EXCEPT ![m].phase = "Failed"]
    /\ calm' = FALSE
    /\ UNCHANGED <<env, set, cache, sync>>

\* reconcileMachineHealth sets a healthy machine Running, whatever its phase.
Recovers(m) ==
    /\ "recover" \in env.events
    /\ api[m].there /\ ~api[m].deleting /\ api[m].phase \in {"Failed", "Terminating"}
    /\ api' = [api EXCEPT ![m].phase = "Running"]
    /\ calm' = FALSE
    /\ UNCHANGED <<env, set, cache, sync>>

DeletionStarts(m) ==
    /\ api[m].there /\ api[m].deleting /\ api[m].phase # "Terminating"
    /\ api' = [api EXCEPT ![m].phase = "Terminating"]
    /\ UNCHANGED <<env, set, cache, sync, calm>>

DeletionEnds(m) ==
    /\ api[m].there /\ api[m].deleting /\ api[m].phase = "Terminating"
    /\ api' = [api EXCEPT ![m] = Absent]
    /\ UNCHANGED <<env, set, cache, sync, calm>>

Next ==
    \/ Fetch \/ AddMachineSetFinalizers \/ List \/ ListFails \/ ManageReplicas \/ ExcessDone
    \/ CreateBatch \/ UpdateStatus
    \/ Scale \/ Freeze \/ DeleteSet
    \/ \E m \in Machine :
          \/ PrepareDelete(m) \/ PrepareReturns(m) \/ PrepareDeleteFails(m) \/ PrepareStatus(m)
          \/ InformerSync(m) \/ Joins(m) \/ Fails(m) \/ Recovers(m) \/ DeleteMachine(m)
          \/ DeletionStarts(m) \/ DeletionEnds(m)

Spec == Init /\ [][Next]_vars

\* The worker runs, Delete does not fail for ever, the lister catches up and the machine
\* controller deletes.
Fairness ==
    /\ WF_vars(\/ Fetch \/ AddMachineSetFinalizers \/ ManageReplicas \/ ExcessDone \/ CreateBatch
               \/ UpdateStatus)
    /\ SF_vars(List)
    /\ \A m \in Machine :
          /\ SF_vars(PrepareDelete(m))
          /\ WF_vars(PrepareDelete(m) \/ PrepareDeleteFails(m) \/ PrepareReturns(m) \/ PrepareStatus(m))
          /\ WF_vars(InformerSync(m))
          /\ WF_vars(DeletionStarts(m) \/ DeletionEnds(m))

FairSpec == Spec /\ Fairness

-----------------------------------------------------------------------------
\* Type invariant; the batches of slowStartBatch never create more than what is missing
\* or more than BurstReplicas (machineset.go:370-404, 579-605).
TypeOK ==
    /\ env \in Scenarios
    /\ set \in MachineSet
    /\ api \in [Machine -> Object]
    /\ cache \in [Machine -> Object]
    /\ pc \in {"idle", "finalizer", "list", "stale", "create", "excess", "status"}
    /\ snap \in MachineSet
    /\ copy \in [Machine -> Object]
    /\ pending \in [Machine -> {"none", "delete", "status"}]
    /\ need \in 0 .. env.burst
    /\ batch \in 0 .. env.burst
    /\ calm \in BOOLEAN

\* What one sync makes of the number of active machines it counts.
Target ==
    LET start == Cardinality(Active(copy)) IN
    IF start < snap.replicas
    THEN IF snap.frozen THEN start ELSE Smaller(snap.replicas, start + env.burst)
    ELSE Larger(snap.replicas, start - env.burst)

\* A sync whose list was up to date ends with exactly the active machines the set asks for
\* (up to BurstReplicas), through failed machines, failing Deletes and slow start, when
\* nothing else creates, fails or deletes a machine meanwhile (machineset.go:319-425).
FreshSyncExact ==
    [][pc = "status" /\ pc' = "idle" /\ calm /\ ~snap.deleting
         => Cardinality(Active(api)) = Target]_vars

\* A deleted machine set is eventually gone, although its finalizer waits for the machines
\* of the list, some Deletes fail and the lister lags (machineset.go:517-529).
SetDeletionCompletes == []<>(set.deleting => ~set.exists)

Staying == {m \in Active(api) : ~api[m].deleting}

\* Something changes under the controller: the set, the health of a machine, an error, or a
\* sync that works from an outdated list.
Disturbance ==
    \/ Scale \/ Freeze \/ DeleteSet \/ ListFails \/ (List /\ cache # api)
    \/ CreateBatch /\ Cardinality(Listed(api')) < Cardinality(Listed(api)) + batch
    \/ \E m \in Machine : Fails(m) \/ Recovers(m) \/ DeleteMachine(m) \/ PrepareDeleteFails(m)

\* Once nothing disturbs it any more, the controller reaches the number of replicas and
\* keeps it (machineset.go:341-422): no cycle of creations and deletions goes on.
ReplicasConverge ==
    <>[][~Disturbance]_vars =>
        <>[](set.exists /\ ~set.deleting /\ ~set.frozen => Cardinality(Staying) = set.replicas)

\* machineset.go:318: an error while deleting a machine requeues the set, so the machine is
\* deleted in the end unless it turns out healthy.
DeletionRetried ==
    \A m \in Machine :
        api[m].there /\ api[m].phase = "Terminating"
            ~> api[m].deleting \/ ~api[m].there \/ api[m].phase = "Running"

=============================================================================
