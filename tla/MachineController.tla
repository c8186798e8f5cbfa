-------------------------- MODULE MachineController --------------------------
(***************************************************************************)
(* The out-of-tree machine controller: how one Machine object, the VM and  *)
(* the Node behind it are created, watched and deleted by                  *)
(* pkg/util/provider/machinecontroller (machine.go, machine_util.go), with *)
(* the orphan-VM collector (machine_safety.go) and the MachineSet          *)
(* controller of the other binary (pkg/controller/machineset.go) running   *)
(* beside it.                                                              *)
(*                                                                         *)
(* A reconcile reads the Machine from the informer cache, calls the driver *)
(* or the target cluster, and writes the object once.  These are separate  *)
(* steps here: anything may happen between them.  The API server accepts a *)
(* write only if the copy it was computed from is the current version.     *)
(***************************************************************************)
EXTENDS Naturals, FiniteSets

CONSTANTS
    Machine,            \* names of the Machine objects
    MaxVMs,             \* bound: how many VMs the provider may ever create
    StatusImplemented,  \* the driver implements GetMachineStatus
    ListImplemented,    \* the driver implements ListMachines
    Events,             \* which of the EventNames may happen
    NodeConditions      \* the conditions besides Ready that make a node unhealthy

ASSUME MaxVMsAssumption == MaxVMs \in Nat

ASSUME DriverAssumption == StatusImplemented \in BOOLEAN /\ ListImplemented \in BOOLEAN

EventNames == {"node", "mcm", "freeze", "restart"}

ASSUME EventsAssumption == Events \subseteq EventNames

VARIABLES
    api,      \* the Machine objects on the control API server
    cache,    \* the controller's informer copy of each object
    local,    \* the copy the running reconcile read, then the clone it will write
    current,  \* which of the copies "cache", "local" are at the current version
    pc,       \* where the reconcile of each key is
    vms,      \* provider: the VMs carrying each machine's name
    nextVM,   \* provider: next VM id
    node,     \* target cluster: the Node object of each machine
    pods,     \* target cluster: the workload on that node
    overdue,  \* the drain timeout has elapsed since the deletion timestamp
    mcm,      \* the MachineSet controller's deletion of each machine
    listed,   \* what is left of the collector's last ListMachines answer
    thaw      \* the machines an unfreeze of the controller has still to reset

vars == <<api, cache, local, current, pc, vms, nextVM, node, pods, overdue, mcm, listed, thaw>>

NoVM == 0
VMId == 1 .. MaxVMs

Phases == {"", "Pending", "Running", "Unknown", "Failed", "CrashLoopBackOff", "Terminating"}

\* The deletion step named in Status.LastOperation.Description; "none" is any other text.
Steps == {"none", "GetVMStatus", "InitiateDrain", "InitiateVMDeletion",
          "InitiateNodeDeletion", "InitiateFinalizerRemoval"}

\* "readonly": Ready, with the condition ReadonlyFilesystem.
NodeStates == {"absent", "ready", "notready", "readonly"}

(***************************************************************************)
(* A Machine object.  lbl stands for the "node" label and the priority     *)
(* annotation, which are written together; node says Status.Node is set;   *)
(* cond is what the node conditions copied to Status.Conditions say        *)
(* ("absent": no conditions).                                              *)
(***************************************************************************)
Object == [exists : BOOLEAN, del : BOOLEAN, force : BOOLEAN, fin : BOOLEAN,
           pid : VMId \cup {NoVM}, lbl : BOOLEAN, node : BOOLEAN,
           phase : Phases, step : Steps, cond : NodeStates]

Absent == [exists |-> FALSE, del |-> FALSE, force |-> FALSE, fin |-> FALSE,
           pid |-> NoVM, lbl |-> FALSE, node |-> FALSE,
           phase |-> "", step |-> "none", cond |-> "absent"]

\* What the MachineSet controller creates.
NewMachine == [Absent EXCEPT !.exists = TRUE]

Init ==
    /\ api = [m \in Machine |-> NewMachine]
    /\ cache = [m \in Machine |-> Absent]
    /\ local = [m \in Machine |-> Absent]
    /\ current = [m \in Machine |-> {}]
    /\ pc = [m \in Machine |-> "idle"]
    /\ vms = [m \in Machine |-> {}]
    /\ nextVM = 1
    /\ node = [m \in Machine |-> "absent"]
    /\ pods = [m \in Machine |-> "none"]
    /\ overdue = [m \in Machine |-> FALSE]
    /\ mcm = [m \in Machine |-> "unaware"]
    /\ listed = {}
    /\ thaw = {}

-----------------------------------------------------------------------------
(***************************************************************************)
(* The API server and the informer.                                        *)
(***************************************************************************)
\* An object that is being deleted disappears with its last finalizer.
Stored(o) == IF o.del /\ ~o.fin THEN Absent ELSE o

\* A write makes every earlier copy of the object outdated.
Touch(m, o) ==
    /\ api' = [api EXCEPT ![m] = Stored(o)]
    /\ current' = [current EXCEPT ![m] = {}]

InformerSync(m) ==
    /\ "cache" \notin current[m]
    /\ cache' = [cache EXCEPT ![m] = api[m]]
    /\ current' = [current EXCEPT ![m] = @ \cup {"cache"}]
    /\ UNCHANGED <<api, local, pc, vms, nextVM, node, pods, overdue, mcm, listed, thaw>>

-----------------------------------------------------------------------------
(***************************************************************************)
(* The reconcile of one key.  The workqueue never runs a key twice at the  *)
(* same time, and reconcileClusterMachineKey always enqueues it again.     *)
(***************************************************************************)
Begin(m) ==
    /\ pc[m] = "idle"
    /\ cache[m].exists
    /\ pc' = [pc EXCEPT ![m] = "reconcile"]
    /\ local' = [local EXCEPT ![m] = cache[m]]
    /\ current' = [current EXCEPT ![m] = IF "cache" \in @ THEN {"cache", "local"} ELSE {}]
    /\ UNCHANGED <<api, cache, vms, nextVM, node, pods, overdue, mcm, listed, thaw>>

\* The reconcile returns: its copy is dropped and the key waits for its next turn.
Return(m) ==
    /\ pc' = [pc EXCEPT ![m] = "idle"]
    /\ local' = [local EXCEPT ![m] = Absent]
    /\ current' = [current EXCEPT ![m] = @ \ {"local"}]

\* The handler has computed the clone it will hand to Update or UpdateStatus.
Prepare(m, clone) ==
    /\ pc' = [pc EXCEPT ![m] = "write"]
    /\ local' = [local EXCEPT ![m] = clone]
    /\ UNCHANGED current

\* Early returns: the controller is frozen, the object or its class is not valid.
ReconcileRefused(m) ==
    /\ pc[m] = "reconcile"
    /\ Return(m)
    /\ UNCHANGED <<api, cache, vms, nextVM, node, pods, overdue, mcm, listed, thaw>>

AddMachineFinalizers(m) ==
    /\ pc[m] = "reconcile"
    /\ ~local[m].del
    /\ ~local[m].fin
    /\ Prepare(m, [local[m] EXCEPT !.fin = TRUE])
    /\ UNCHANGED <<api, cache, vms, nextVM, node, pods, overdue, mcm, listed, thaw>>

\* The single write at the end of every handler, accepted at the current version only.
WriteAccepted(m) ==
    /\ pc[m] = "write"
    /\ "local" \in current[m]
    /\ Touch(m, local[m])
    /\ pc' = [pc EXCEPT ![m] = "idle"]
    /\ local' = [local EXCEPT ![m] = Absent]
    /\ UNCHANGED <<cache, vms, nextVM, node, pods, overdue, mcm, listed, thaw>>

\* A conflict, another API error, or a status so similar that it is not sent.
WriteRefused(m) ==
    /\ pc[m] = "write"
    /\ Return(m)
    /\ UNCHANGED <<api, cache, vms, nextVM, node, pods, overdue, mcm, listed, thaw>>

-----------------------------------------------------------------------------
(***************************************************************************)
(* Health of a machine that has a node.                                    *)
(***************************************************************************)
\* isHealthy: Ready, and none of the conditions the machine is configured to watch.
IsHealthy(n) == n # "notready" /\ n \notin NodeConditions

\* The clone reconcileMachineHealth builds from the snapshot s and the node state n.
ObservedHealth(s, n) ==
    IF n = "absent"
    THEN IF s.cond # "absent" /\ s.phase = "Running"
         THEN [s EXCEPT !.phase = "Unknown", !.step = "none"] ELSE s
    ELSE IF ~IsHealthy(n) /\ s.phase = "Running"
         THEN [s EXCEPT !.cond = n, !.phase = "Unknown", !.step = "none"]
         ELSE IF IsHealthy(n) /\ s.phase # "Running"
              THEN [s EXCEPT !.cond = n, !.phase = "Running", !.step = "none"]
              ELSE [s EXCEPT !.cond = n]

NeedsCreation(s) == s.pid = NoVM \/ s.phase = "" \/ ~s.node

Watched(m) == pc[m] = "reconcile" /\ ~local[m].del /\ local[m].fin /\ local[m].node

HealthChanged(m) ==
    /\ Watched(m)
    /\ ObservedHealth(local[m], node[m]) # local[m]
    /\ Prepare(m, ObservedHealth(local[m], node[m]))
    /\ UNCHANGED <<api, cache, vms, nextVM, node, pods, overdue, mcm, listed, thaw>>

\* Pending or Unknown for longer than the creation or the health timeout.
HealthTimeout(m) ==
    /\ Watched(m)
    /\ ObservedHealth(local[m], node[m]) = local[m]
    /\ local[m].phase \in {"Pending", "Unknown"}
    /\ Prepare(m, [local[m] EXCEPT !.phase = "Failed", !.step = "none"])
    /\ UNCHANGED <<api, cache, vms, nextVM, node, pods, overdue, mcm, listed, thaw>>

\* Nothing to write: on to syncMachineNodeTemplates, which may fail, and, if needed, to the
\* creation flow.
HealthUnchanged(m) ==
    /\ Watched(m)
    /\ ObservedHealth(local[m], node[m]) = local[m]
    /\ \/ /\ NeedsCreation(local[m])
          /\ pc' = [pc EXCEPT ![m] = "create"]
          /\ UNCHANGED <<local, current>>
       \/ Return(m)
    /\ UNCHANGED <<api, cache, vms, nextVM, node, pods, overdue, mcm, listed, thaw>>

-----------------------------------------------------------------------------
(***************************************************************************)
(* triggerCreationFlow.                                                    *)
(***************************************************************************)
Creating(m) ==
    \/ pc[m] = "create"
    \/ pc[m] = "reconcile" /\ ~local[m].del /\ local[m].fin /\ ~local[m].node

\* Mutant: any answer but a VM is taken for "not found".
StatusIgnored(m) == TRUE

\* GetMachineStatus of the driver: which VM carries the machine's name.
StatusFound(m, id) == StatusImplemented /\ vms[m] = {id}
StatusNotFound(m) == ~StatusImplemented \/ vms[m] = {}

\* After a VM was found or created: first the object's metadata and ProviderID, and only
\* in a later reconcile its status.
Recorded(s, id) ==
    IF ~s.lbl \/ s.pid = NoVM
    THEN [s EXCEPT !.lbl = TRUE, !.pid = id]
    ELSE [s EXCEPT !.node = TRUE, !.phase = "Pending", !.step = "none"]

\* Return with nothing to write when Status.Node and the phase are already there.
Record(m, id) ==
    IF local[m].lbl /\ local[m].pid # NoVM /\ local[m].node /\ local[m].phase # ""
    THEN Return(m)
    ELSE Prepare(m, Recorded(local[m], id))

AdoptVM(m) ==
    /\ Creating(m)
    /\ \E id \in vms[m] : StatusFound(m, id) /\ Record(m, id)
    /\ UNCHANGED <<api, cache, vms, nextVM, node, pods, overdue, mcm, listed, thaw>>

\* The VM is not found but the node label is set: no VM is created, providerID stays "".
CreationKeepsLabel(m) ==
    /\ Creating(m)
    /\ StatusNotFound(m)
    /\ local[m].lbl
    /\ Record(m, NoVM)
    /\ UNCHANGED <<api, cache, vms, nextVM, node, pods, overdue, mcm, listed, thaw>>

NewVM(m) ==
    /\ nextVM \in VMId
    /\ vms' = [vms EXCEPT ![m] = @ \cup {nextVM}]
    /\ nextVM' = nextVM + 1

CreateVM(m) ==
    /\ Creating(m)
    /\ StatusNotFound(m)
    /\ ~local[m].lbl
    /\ NewVM(m)
    /\ Record(m, nextVM)
    /\ UNCHANGED <<api, cache, node, pods, overdue, mcm, listed, thaw>>

\* getCreateFailurePhase: Failed once the creation timeout has elapsed.
CreateFailurePhases == {"CrashLoopBackOff", "Failed"}

\* CreateMachine returns an error, with or without having created a VM.
CreateVMFails(m) ==
    /\ Creating(m)
    /\ StatusNotFound(m)
    /\ ~local[m].lbl
    /\ NewVM(m) \/ UNCHANGED <<vms, nextVM>>
    /\ \E p \in CreateFailurePhases :
          Prepare(m, [local[m] EXCEPT !.phase = p, !.step = "none"])
    /\ UNCHANGED <<api, cache, node, pods, overdue, mcm, listed, thaw>>

\* GetMachineStatus fails (several VMs carry the name, or the provider is not available).
CreationStatusFails(m) ==
    /\ Creating(m)
    /\ StatusImplemented
    /\ \/ \E p \in CreateFailurePhases :
             Prepare(m, [local[m] EXCEPT !.phase = p, !.step = "none"])
       \/ Return(m)
    /\ UNCHANGED <<api, cache, vms, nextVM, node, pods, overdue, mcm, listed, thaw>>

-----------------------------------------------------------------------------
(***************************************************************************)
(* triggerDeletionFlow: one step per reconcile, selected by the phase and  *)
(* the step named in the last operation's description.                     *)
(***************************************************************************)
Deleting(m) == pc[m] = "reconcile" /\ local[m].del /\ local[m].fin

AtStep(m, step) == Deleting(m) /\ local[m].phase = "Terminating" /\ local[m].step = step

NextStep(m, step) == Prepare(m, [local[m] EXCEPT !.step = step])

SetMachineTerminationStatus(m) ==
    /\ Deleting(m)
    /\ local[m].phase # "Terminating" \/ local[m].step = "none"
    /\ Prepare(m, [local[m] EXCEPT !.phase = "Terminating", !.step = "GetVMStatus"])
    /\ UNCHANGED <<api, cache, vms, nextVM, node, pods, overdue, mcm, listed, thaw>>

\* Found, or the driver cannot tell: drain.  Not found: on to the node object.
GetVMStatus(m) ==
    /\ AtStep(m, "GetVMStatus")
    /\ IF StatusImplemented /\ vms[m] = {}
       THEN NextStep(m, "InitiateNodeDeletion")
       ELSE /\ ~StatusImplemented \/ Cardinality(vms[m]) = 1
            /\ NextStep(m, "InitiateDrain")
    /\ UNCHANGED <<api, cache, vms, nextVM, node, pods, overdue, mcm, listed, thaw>>

\* Mutant: an error of the provider is taken for "not found".
GetVMStatusFailsAsNotFound(m) ==
    /\ AtStep(m, "GetVMStatus")
    /\ StatusImplemented
    /\ NextStep(m, "InitiateNodeDeletion")
    /\ UNCHANGED <<api, cache, vms, nextVM, node, pods, overdue, mcm, listed, thaw>>

GetVMStatusFails(m) ==
    /\ AtStep(m, "GetVMStatus")
    /\ StatusImplemented
    /\ NextStep(m, "GetVMStatus")
    /\ UNCHANGED <<api, cache, vms, nextVM, node, pods, overdue, mcm, listed, thaw>>

\* Mutants: every deletion is forced; the drain timeout is never looked at.
AlwaysForced(m) == TRUE
ForcedByLabelOnly(m) == local[m].force

ForceDeletion(m) == local[m].force \/ overdue[m]

\* Not Ready, or a read-only file system: after five minutes no drain is tried.
Undrainable == {"notready", "readonly"}

\* No node name, or the machine's conditions have been like this for over five minutes.
SkipDrain(m) ==
    /\ AtStep(m, "InitiateDrain")
    /\ ~local[m].lbl \/ local[m].cond \in Undrainable
    /\ NextStep(m, "InitiateVMDeletion")
    /\ UNCHANGED <<api, cache, vms, nextVM, node, pods, overdue, mcm, listed, thaw>>

\* RunDrain cordons the node and evicts its pods; a node that is not there drains at once.
DrainSucceeds(m) ==
    /\ AtStep(m, "InitiateDrain")
    /\ local[m].lbl
    /\ pods' = [pods EXCEPT ![m] = "none"]
    /\ NextStep(m, "InitiateVMDeletion")
    /\ UNCHANGED <<api, cache, vms, nextVM, node, overdue, mcm, listed, thaw>>

DrainFails(m) ==
    /\ AtStep(m, "InitiateDrain")
    /\ local[m].lbl
    /\ NextStep(m, IF ForceDeletion(m) THEN "InitiateVMDeletion" ELSE "InitiateDrain")
    /\ UNCHANGED <<api, cache, vms, nextVM, node, pods, overdue, mcm, listed, thaw>>

\* DeleteMachine of the driver: the VM with the ProviderID or, without one, with the name.
Victims(m, pid) == IF pid = NoVM THEN vms[m] ELSE vms[m] \cap {pid}

DeleteVM(m) ==
    /\ AtStep(m, "InitiateVMDeletion")
    /\ vms' = [vms EXCEPT ![m] = @ \ Victims(m, local[m].pid)]
    /\ NextStep(m, "InitiateNodeDeletion")
    /\ UNCHANGED <<api, cache, nextVM, node, pods, overdue, mcm, listed, thaw>>

\* An error, although the VM may be gone all the same.
DeleteVMFails(m) ==
    /\ AtStep(m, "InitiateVMDeletion")
    /\ \/ vms' = [vms EXCEPT ![m] = @ \ Victims(m, local[m].pid)]
       \/ UNCHANGED vms
    /\ NextStep(m, "InitiateVMDeletion")
    /\ UNCHANGED <<api, cache, nextVM, node, pods, overdue, mcm, listed, thaw>>

\* The node is found by the label; without one nothing is deleted.
DeleteNodeObject(m) ==
    /\ AtStep(m, "InitiateNodeDeletion")
    /\ IF local[m].lbl
       THEN node' = [node EXCEPT ![m] = "absent"] /\ pods' = [pods EXCEPT ![m] = "none"]
       ELSE UNCHANGED <<node, pods>>
    /\ NextStep(m, "InitiateFinalizerRemoval")
    /\ UNCHANGED <<api, cache, vms, nextVM, overdue, mcm, listed, thaw>>

\* Mutant: an error of the target cluster is not retried.
DeleteNodeObjectGivesUp(m) ==
    /\ AtStep(m, "InitiateNodeDeletion")
    /\ local[m].lbl
    /\ NextStep(m, "InitiateFinalizerRemoval")
    /\ UNCHANGED <<api, cache, vms, nextVM, node, pods, overdue, mcm, listed, thaw>>

DeleteNodeObjectFails(m) ==
    /\ AtStep(m, "InitiateNodeDeletion")
    /\ local[m].lbl
    /\ NextStep(m, "InitiateNodeDeletion")
    /\ UNCHANGED <<api, cache, vms, nextVM, node, pods, overdue, mcm, listed, thaw>>

DeleteMachineFinalizers(m) ==
    /\ AtStep(m, "InitiateFinalizerRemoval")
    /\ Prepare(m, [local[m] EXCEPT !.fin = FALSE])
    /\ UNCHANGED <<api, cache, vms, nextVM, node, pods, overdue, mcm, listed, thaw>>

-----------------------------------------------------------------------------
(***************************************************************************)
(* The orphan-VM collector, checkMachineClass: it lists the VMs once,      *)
(* judges each by the cached Machine of that name, and then calls the      *)
(* cloud to delete it, without looking at the Machine again.               *)
(***************************************************************************)
Verdicts == {"unseen", "orphan"}

ListMachines ==
    /\ ListImplemented
    /\ listed = {}
    /\ listed' = {mv \in Machine \X VMId \X {"unseen"} : mv[2] \in vms[mv[1]]}
    /\ UNCHANGED <<api, cache, local, current, pc, vms, nextVM, node, pods, overdue, mcm, thaw>>

\* Mutant: the VM of a machine that failed is taken as well.
LooksOrphanedOrFailed(o, id) == ~o.exists \/ o.pid # id \/ o.phase = "Failed"

\* Not the ProviderID of the cached object, unless that object is still being created.
LooksOrphaned(o, id) ==
    \/ ~o.exists
    \/ o.pid # id /\ o.phase \notin {"", "CrashLoopBackOff"}

\* The verdict on the next VM of the list; one that is not an orphan is passed over.
JudgeVM(m, id) ==
    /\ <<m, id, "unseen">> \in listed
    /\ \A mv \in listed : mv[3] # "orphan"
    /\ listed' = (listed \ {<<m, id, "unseen">>})
                    \cup (IF LooksOrphaned(cache[m], id) THEN {<<m, id, "orphan">>} ELSE {})
    /\ UNCHANGED <<api, cache, local, current, pc, vms, nextVM, node, pods, overdue, mcm, thaw>>

\* DeleteMachine for the VM judged an orphan; an error, whether the VM is gone or not, is
\* left to the next round.
CollectOrphan(m, id) ==
    /\ <<m, id, "orphan">> \in listed
    /\ \/ vms' = [vms EXCEPT ![m] = @ \ Victims(m, id)]
       \/ UNCHANGED vms
    /\ listed' = listed \ {<<m, id, "orphan">>}
    /\ UNCHANGED <<api, cache, local, current, pc, nextVM, node, pods, overdue, mcm, thaw>>

-----------------------------------------------------------------------------
(***************************************************************************)
(* The MachineSet controller deletes a machine (prepareMachineForDeletion):*)
(* the Delete call, whose error it only reports, then a status write that  *)
(* retries on a fresh copy until it goes through.  It starts only while    *)
(* its own informer shows no deletion timestamp.                           *)
(***************************************************************************)
PrepareMachineForDeletion(m) ==
    /\ "mcm" \in Events
    /\ mcm[m] = "unaware"
    /\ api[m].exists
    /\ mcm' = [mcm EXCEPT ![m] = "updating"]
    /\ \/ Touch(m, [api[m] EXCEPT !.del = TRUE])
       \/ UNCHANGED <<api, current>>
    /\ UNCHANGED <<cache, local, pc, vms, nextVM, node, pods, overdue, listed, thaw>>

ForceTerminatingStatus(m) ==
    /\ mcm[m] = "updating"
    /\ mcm' = [mcm EXCEPT ![m] = "unaware"]
    /\ \/ api[m].exists /\ Touch(m, [api[m] EXCEPT !.phase = "Terminating", !.step = "none"])
       \/ UNCHANGED <<api, current>>   \* the object is gone, or its status is equal already
    /\ UNCHANGED <<cache, local, pc, vms, nextVM, node, pods, overdue, listed, thaw>>

MCMInformerSync(m) ==
    /\ mcm[m] = "unaware"
    /\ api[m].del \/ ~api[m].exists
    /\ mcm' = [mcm EXCEPT ![m] = "aware"]
    /\ UNCHANGED <<api, cache, local, current, pc, vms, nextVM, node, pods, overdue, listed, thaw>>

-----------------------------------------------------------------------------
(***************************************************************************)
(* The API-server safety check unfreezes the controller: machines that the *)
(* cache shows as Unknown are read afresh and set to Running, whatever     *)
(* their phase is by then.                                                 *)
(***************************************************************************)
UnfreezeLists ==
    /\ "freeze" \in Events
    /\ thaw' = {m \in Machine : cache[m].exists /\ cache[m].phase = "Unknown"}
    /\ UNCHANGED <<api, cache, local, current, pc, vms, nextVM, node, pods, overdue, mcm, listed>>

\* An error ends the loop.
ResetHealth(m) ==
    /\ m \in thaw
    /\ \/ /\ api[m].exists
          /\ Touch(m, [api[m] EXCEPT !.phase = "Running", !.step = "none"])
          /\ thaw' = thaw \ {m}
       \/ UNCHANGED <<api, current>> /\ thaw' = {}
    /\ UNCHANGED <<cache, local, pc, vms, nextVM, node, pods, overdue, mcm, listed>>

-----------------------------------------------------------------------------
(***************************************************************************)
(* The world: users, time, the target cluster, process restarts.           *)
(***************************************************************************)
UserDeletes(m) ==
    /\ api[m].exists
    /\ ~api[m].del
    /\ \E force \in BOOLEAN : Touch(m, [api[m] EXCEPT !.del = TRUE, !.force = force])
    /\ UNCHANGED <<cache, local, pc, vms, nextVM, node, pods, overdue, mcm, listed, thaw>>

DrainTimeoutElapses(m) ==
    /\ api[m].del
    /\ ~overdue[m]
    /\ overdue' = [overdue EXCEPT ![m] = TRUE]
    /\ UNCHANGED <<api, cache, local, current, pc, vms, nextVM, node, pods, mcm, listed, thaw>>

\* The kubelet of a VM registers its node; workload arrives with it.  "late" marks pods of
\* a node that registered only after its machine was marked for deletion.
NodeJoins(m) ==
    /\ "node" \in Events
    /\ vms[m] # {}
    /\ node[m] = "absent"
    /\ \E n \in NodeStates \ {"absent"} : node' = [node EXCEPT ![m] = n]
    /\ pods' = [pods EXCEPT ![m] =
          IF api[m].del \/ ~api[m].exists THEN "late" ELSE "running"]
    /\ UNCHANGED <<api, cache, local, current, pc, vms, nextVM, overdue, mcm, listed, thaw>>

\* Without its VM a node can only become NotReady.
NodeConditionFlips(m) ==
    /\ node[m] # "absent"
    /\ \E n \in NodeStates \ {"absent", node[m]} :
          (n = "notready" \/ vms[m] # {}) /\ node' = [node EXCEPT ![m] = n]
    /\ UNCHANGED <<api, cache, local, current, pc, vms, nextVM, pods, overdue, mcm, listed, thaw>>

\* The node object is deleted by somebody else.
NodeGoesMissing(m) ==
    /\ node[m] # "absent"
    /\ node' = [node EXCEPT ![m] = "absent"]
    /\ pods' = [pods EXCEPT ![m] = "none"]
    /\ UNCHANGED <<api, cache, local, current, pc, vms, nextVM, overdue, mcm, listed, thaw>>

\* The process dies; its successor waits for its informers before it starts its workers.
Restart ==
    /\ "restart" \in Events
    /\ cache' = api
    /\ local' = [m \in Machine |-> Absent]
    /\ current' = [m \in Machine |-> {"cache"}]
    /\ pc' = [m \in Machine |-> "idle"]
    /\ listed' = {}
    /\ thaw' = {}
    /\ UNCHANGED <<api, vms, nextVM, node, pods, overdue, mcm>>

-----------------------------------------------------------------------------
Reconcile(m) ==
    \/ ReconcileRefused(m) \/ AddMachineFinalizers(m)
    \/ HealthChanged(m) \/ HealthTimeout(m) \/ HealthUnchanged(m)
    \/ AdoptVM(m) \/ CreationKeepsLabel(m)
    \/ CreateVM(m) \/ CreateVMFails(m) \/ CreationStatusFails(m)
    \/ SetMachineTerminationStatus(m)
    \/ GetVMStatus(m) \/ GetVMStatusFails(m)
    \/ SkipDrain(m) \/ DrainSucceeds(m) \/ DrainFails(m)
    \/ DeleteVM(m) \/ DeleteVMFails(m)
    \/ DeleteNodeObject(m) \/ DeleteNodeObjectFails(m)
    \/ DeleteMachineFinalizers(m)

World(m) ==
    \/ UserDeletes(m) \/ DrainTimeoutElapses(m)
    \/ NodeJoins(m) \/ NodeConditionFlips(m) \/ NodeGoesMissing(m)
    \/ PrepareMachineForDeletion(m) \/ ForceTerminatingStatus(m) \/ MCMInformerSync(m)
    \/ ResetHealth(m)

Next ==
    \/ \E m \in Machine :
          \/ InformerSync(m) \/ Begin(m)
          \/ Reconcile(m)
          \/ WriteAccepted(m) \/ WriteRefused(m)
          \/ World(m)
          \/ \E id \in VMId : JudgeVM(m, id) \/ CollectOrphan(m, id)
    \/ ListMachines
    \/ UnfreezeLists
    \/ Restart

Spec == Init /\ [][Next]_vars

(***************************************************************************)
(* What the queues, the informers and the retries guarantee: a key is      *)
(* always enqueued again, a watch catches up, and neither the calls of a   *)
(* deletion step nor the write that records it fail for ever.  Nothing is  *)
(* assumed of drains: the drain timeout is what ends them.                 *)
(***************************************************************************)
DeletionStep(m) ==
    \/ SetMachineTerminationStatus(m) \/ GetVMStatus(m)
    \/ SkipDrain(m) \/ DrainSucceeds(m) \/ DrainFails(m)
    \/ DeleteVM(m) \/ DeleteNodeObject(m) \/ DeleteMachineFinalizers(m)

Fairness(m) ==
    /\ WF_vars(InformerSync(m)) /\ WF_vars(Begin(m)) /\ WF_vars(ReconcileRefused(m))
    /\ SF_vars(DeletionStep(m) /\ "local" \in current[m])
    /\ SF_vars(WriteAccepted(m) /\ local[m] # api[m])
    /\ WF_vars(WriteAccepted(m) \/ WriteRefused(m))
    /\ WF_vars(DrainTimeoutElapses(m))
    /\ SF_vars(MCMInformerSync(m)) /\ WF_vars(ForceTerminatingStatus(m))

FairSpec == Spec /\ \A m \in Machine : Fairness(m)

-----------------------------------------------------------------------------
(***************************************************************************)
(* Properties.                                                             *)
(***************************************************************************)
\* Type invariant: a phase and a deletion step the API knows, clones and VMs of the right
\* shape, whatever the workers, the machine set controller and the provider do.
TypeOK ==
    /\ api \in [Machine -> Object]
    /\ cache \in [Machine -> Object]
    /\ local \in [Machine -> Object]
    /\ current \in [Machine -> SUBSET {"cache", "local"}]
    /\ pc \in [Machine -> {"idle", "reconcile", "create", "write"}]
    /\ vms \in [Machine -> SUBSET VMId]
    /\ nextVM \in 1 .. MaxVMs + 1
    /\ node \in [Machine -> NodeStates]
    /\ pods \in [Machine -> {"none", "running", "late"}]
    /\ overdue \in [Machine -> BOOLEAN]
    /\ mcm \in [Machine -> {"unaware", "updating", "aware"}]
    /\ listed \in SUBSET (Machine \X VMId \X Verdicts)
    /\ thaw \in SUBSET Machine

\* A VM exists only while its Machine object does, and that object still carries the
\* finalizer that keeps it there: whatever the interleaving of deletions, stale caches,
\* conflicts and restarts, the controller never loses track of a VM.
NoVMLeak == \A m \in Machine : vms[m] # {} => api[m].exists /\ api[m].fin

(***************************************************************************)
(* Why NoVMLeak holds, as an inductive invariant (drivers that implement   *)
(* GetMachineStatus; no collector).  Live(s): a reconcile that read s may  *)
(* create a VM.  Gone(s): s is marked for deletion or no longer there.     *)
(***************************************************************************)
Live(s) == s.fin /\ ~s.del
Gone(s) == s.del \/ ~s.exists
Late(s) == s.step \in {"InitiateNodeDeletion", "InitiateFinalizerRemoval"}

WellFormed(s) == (s.fin => s.exists) /\ (s.step # "none" => s.del)

\* How the copies of an object relate: a current copy is the object, a clone about to be
\* written agrees with it on the deletion mark, and no copy has seen a deletion that the
\* object, or a copy read later, has not.
CopiesInv(m) ==
    /\ WellFormed(api[m]) /\ WellFormed(cache[m])
    /\ "cache" \in current[m] => cache[m] = api[m]
    /\ cache[m].del => Gone(api[m])
    /\ pc[m] # "idle" =>
          /\ local[m].exists
          /\ WellFormed(local[m])
          /\ local[m].del => Gone(cache[m]) /\ Gone(api[m])
    /\ pc[m] \in {"reconcile", "create"} /\ "local" \in current[m] => local[m] = api[m]
    /\ pc[m] = "create" => Live(local[m])
    /\ pc[m] = "write" =>
          /\ "local" \in current[m] => api[m].exists /\ local[m].del = api[m].del
          /\ ~local[m].fin => local[m].step = "InitiateFinalizerRemoval"

\* As long as some reconcile may still create a VM, the object has its finalizer, its
\* deletion has not begun, and the VM it records, if any, is there to be adopted.
Creatable(m) ==
    /\ api[m].fin
    /\ api[m].step = "none"
    /\ api[m].pid # NoVM => vms[m] # {}

\* How an object relates to its VMs.
VMsInv(m) ==
    /\ vms[m] # {} => api[m].fin
    /\ Late(api[m]) => vms[m] = {}
    /\ api[m].pid # NoVM => api[m].fin /\ vms[m] \subseteq {api[m].pid}
    /\ Live(api[m]) \/ Live(cache[m]) \/ (pc[m] \in {"reconcile", "create"} /\ Live(local[m]))
          => Creatable(m)
    /\ pc[m] = "write" /\ "local" \in current[m] =>
          /\ Late(local[m]) => vms[m] = {}
          /\ local[m].pid # NoVM =>
                vms[m] \subseteq {local[m].pid} /\ (~local[m].del => vms[m] # {})

TrackingInv == listed = {} /\ \A m \in Machine : CopiesInv(m) /\ VMsInv(m)

\* The lease of VMLease, read off the object on the API server.
LeaseOf(o) ==
    IF ~o.exists THEN "released"
    ELSE IF o.del THEN "ending"
    ELSE IF o.fin THEN "held" ELSE "new"

Lease == INSTANCE VMLease WITH VM <- VMId, lease <- [m \in Machine |-> LeaseOf(api[m])]

\* The controller implements VMLease: seen from outside, with everything in between
\* hidden, creation and deletion of a machine and its VM are atomic and in order.
LeaseKept == Lease!Spec

\* The machine m runs on the VM id: ProviderID and Status.Node say so.
Backs(m, id) == api[m].pid = id /\ api[m].node /\ ~api[m].del

\* The VM a machine runs on disappears only once that machine is marked for deletion: no
\* late reconcile takes it, and the collector, however stale its cache, never judges it an
\* orphan.  What the collector may still take is a VM that it judged before the machine
\* recorded it: checkMachineClass does not look again before it calls DeleteMachine.
BackedVMKept ==
    [][\A m \in Machine : \A id \in VMId : Backs(m, id) =>
          /\ id \in vms[m] \ vms'[m] => <<m, id, "orphan">> \in listed
          /\ <<m, id, "orphan">> \in listed' => <<m, id, "orphan">> \in listed]_vars

\* deleteVM takes away a node with workload only for a reason drainNode accepts: a forced
\* deletion, the drain timeout, no node name, or a node that is NotReady or has a read-only
\* file system.
DrainedOrExcused ==
    [][\A m \in Machine :
          pc[m] = "reconcile" /\ pc'[m] = "write" /\ vms[m] \ vms'[m] # {} /\ pods[m] = "running"
          => \/ api[m].force \/ overdue[m]
             \/ ~api[m].lbl \/ api[m].cond \in Undrainable]_vars

\* When the object of a machine with a node goes, its node object has gone before it.
NodeGoneFirst ==
    [][\A m \in Machine : api[m].exists /\ ~api'[m].exists /\ api[m].lbl
          => node[m] = "absent"]_vars

\* A machine marked for deletion, once it has its finalizer, is eventually gone, however
\* often its controller restarts, loses a write, or has the deletion flow restarted.
DeletionCompletes == \A m \in Machine : api[m].del ~> ~api[m].exists

=============================================================================
