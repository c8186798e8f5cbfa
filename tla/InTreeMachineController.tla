----------------------- MODULE InTreeMachineController -----------------------
(***************************************************************************)
(* The machine controller of the older binary, with the drivers compiled   *)
(* in: pkg/controller/machine.go, one Machine, its resources at the cloud  *)
(* and its Node, beside the orphan-VM collector of                         *)
(* pkg/controller/machine_safety.go.                                       *)
(*                                                                         *)
(* A reconcile reads the Machine twice from the lister, decides, calls the *)
(* driver and the target cluster, and writes.  Its writes read the object  *)
(* again and are retried until they go through, so a write is one step on  *)
(* the object as it is then, while what is written was decided on an older *)
(* copy.  A driver call is one step with the outcomes of Drivers.          *)
(***************************************************************************)
EXTENDS Drivers

CONSTANTS
    Scenarios,  \* the settings to start from
    MaxVMs      \* bound: VMs made in all, after that the cloud's quota is used up

\* collector: it runs; tokens: bootstrap tokens may fail; maxFaults: a bound on failed
\* calls and restarts.
Scenario == [class: Class, collector: BOOLEAN, tokens: BOOLEAN, maxFaults: Nat]

ASSUME ScenariosAssumption == Scenarios \subseteq Scenario

ASSUME MaxVMsAssumption == MaxVMs \in Nat

VARIABLES
    env,      \* the scenario
    obj,      \* the Machine on the API server
    seen,     \* the lister's copy
    cloud,    \* the resources that carry its name
    node,     \* the Node in the target cluster
    w,        \* the worker that reconciles the machine
    col,      \* the orphan-VM collector
    overdue,  \* the drain timeout has passed, or the label force-deletion is set
    faults    \* failed calls and restarts so far

vars == <<env, obj, seen, cloud, node, w, col, overdue, faults>>

Phases == {"", "Pending", "Running", "Unknown", "Failed", "CrashLoopBackOff", "Terminating"}

\* A provider id; Packet's GetVMs returns bare ids where Create returns encoded ones.
ProviderID == [vm: Nat, bare: BOOLEAN]

NoID == [vm |-> 0, bare |-> FALSE]

Encoded(v) == [vm |-> v, bare |-> FALSE]

ListedID(v) == [vm |-> v, bare |-> env.class.kind = "Packet"]

\* node: the name of the Node is recorded; cond: it has conditions, copied from the Node;
\* early: it was called Failed or Terminating before it had an id (history, not in the code).
MachineRec == [exists: BOOLEAN, fin: BOOLEAN, deleting: BOOLEAN, pid: ProviderID, node: BOOLEAN,
               phase: Phases, timeout: BOOLEAN, cond: BOOLEAN,
               early: BOOLEAN]

Absent == [exists |-> FALSE, fin |-> FALSE, deleting |-> FALSE, pid |-> NoID, node |-> FALSE,
           phase |-> "", timeout |-> FALSE, cond |-> FALSE, early |-> FALSE]

\* vm: the instance whose kubelet registered the Node.
NodeRec == [exists: BOOLEAN, ready: BOOLEAN, vm: Nat]

NoNode == [exists |-> FALSE, ready |-> FALSE, vm |-> 0]

Steps == {"idle", "fetched", "adopted", "label", "decide", "create", "call", "record", "status",
          "update", "drain", "destroy", "purge", "node", "finish"}

\* pid: the id the driver was made with; m: the copy at hand; vm: the instance to be
\* recorded; named: the name of its Node is known.
Idle == [at |-> "idle", pid |-> NoID, m |-> Absent, vm |-> NoID, named |-> FALSE]

Resting == [at |-> "idle", todo |-> {}, vm |-> NoID]

Init ==
    /\ env \in Scenarios
    /\ obj = [Absent EXCEPT !.exists = TRUE]
    /\ seen = Absent
    /\ cloud = EmptyCloud
    /\ node = NoNode
    /\ w = Idle
    /\ col = Resting
    /\ overdue = FALSE
    /\ faults = 0

-----------------------------------------------------------------------------
(* Calls. *)

\* A call may fail as long as faults are left, and must where no other outcome exists.
Inevitable(outcomes) == \A r \in outcomes : r.err

Answer(outcomes, r) ==
    /\ r \in outcomes
    /\ cloud' = r.cloud
    /\ IF r.err /\ ~Inevitable(outcomes)
       THEN faults < env.maxFaults /\ faults' = faults + 1
       ELSE UNCHANGED faults

Fault == faults < env.maxFaults /\ faults' = faults + 1

Goto(step) == w' = [w EXCEPT !.at = step]

WithStatus(o, phase, timeout) ==
    [o EXCEPT !.phase = phase, !.timeout = timeout,
              !.early = @ \/ (phase \in {"Failed", "Terminating"} /\ o.pid = NoID)]

\* What updateMachineStatus leaves on the API server: it writes to the latest object,
\* but not if the copy at hand has that status already (and that operation, lately).
updateMachineStatus(m, phase, timeout) ==
    IF ~obj.exists THEN {obj}
    ELSE {WithStatus(obj, phase, timeout)}
         \cup (IF m.phase = phase /\ m.timeout = timeout THEN {obj} ELSE {})

\* The object after updateMachineConditions; Terminating machines keep their phase.
updateMachineConditions(o) ==
    LET c == [o EXCEPT !.cond = TRUE]
    IN  CASE o.phase = "Terminating"                   -> c
          [] ~node.ready /\ o.phase = "Running"        -> [c EXCEPT !.phase = "Unknown", !.timeout = TRUE]
          [] node.ready /\ o.phase \notin {"Running", "Terminating"}
                                                       -> [c EXCEPT !.phase = "Running", !.timeout = FALSE]
          [] OTHER                                     -> c

-----------------------------------------------------------------------------
(* reconcileClusterMachine *)

\* The first read of the lister; the driver is made with the provider id found there.
Reconcile ==
    /\ w.at = "idle" /\ seen.exists
    /\ w' = [Idle EXCEPT !.at = "fetched", !.pid = seen.pid]
    /\ UNCHANGED <<env, obj, seen, cloud, node, col, overdue, faults>>

\* The second read, and updateMachineState.  A Node with the provider id may be adopted, a
\* write based on the lister's copy.
AdoptsNode == ~seen.node /\ node.exists /\ node.vm = seen.pid.vm

AdoptNode ==
    /\ w.at = "fetched" /\ seen.exists /\ AdoptsNode /\ obj = seen
    /\ obj' = [obj EXCEPT !.node = TRUE]
    /\ w' = [w EXCEPT !.at = "adopted", !.m = seen]
    /\ UNCHANGED <<env, seen, cloud, node, col, overdue, faults>>

\* The copy at hand: the lister's, also after a Node was adopted.
AtHand == IF w.at = "adopted" THEN w.m ELSE seen

NodeKnown == w.at = "adopted" \/ seen.node

WentMissing(m) == ~node.exists /\ m.cond /\ m.phase = "Running"

\* No Node is known, or it is missing, or it passes its conditions on to the latest object.
UpdateMachineState ==
    /\ w.at \in {"fetched", "adopted"} /\ AtHand.exists
    /\ UNCHANGED <<env, seen, cloud, node, col, overdue, faults>>
    /\ \/ /\ ~NodeKnown /\ ~AdoptsNode
          /\ w' = [w EXCEPT !.at = "decide", !.m = seen]
          /\ UNCHANGED obj
       \/ /\ NodeKnown /\ ~node.exists /\ ~WentMissing(AtHand)
          /\ w' = [w EXCEPT !.at = "decide", !.m = AtHand]
          /\ UNCHANGED obj
       \/ /\ NodeKnown /\ WentMissing(AtHand) /\ obj.exists
          /\ obj' = WithStatus(obj, "Unknown", TRUE)
          /\ w' = [w EXCEPT !.at = "decide", !.m = obj']
       \/ /\ NodeKnown /\ node.exists /\ obj.exists
          /\ obj' = updateMachineConditions(obj)
          /\ w' = [w EXCEPT !.at = "label", !.m = obj']

\* The label that names the Node is added where it is missing, to the object just written:
\* if that has changed, the reconcile ends.
LabelMachine ==
    /\ w.at = "label"
    /\ \/ Goto("decide")
       \/ obj # w.m /\ w' = Idle
    /\ UNCHANGED <<env, obj, seen, cloud, node, col, overdue, faults>>

\* The reconcile ends early: the machine is gone from the lister, or a write failed
\* because it is gone from the API server or has changed.
StateUpdateFails ==
    /\ w.at \in {"fetched", "adopted"}
    /\ \/ ~AtHand.exists
       \/ w.at = "fetched" /\ AdoptsNode /\ obj # seen
       \/ NodeKnown /\ ~obj.exists /\ (node.exists \/ WentMissing(AtHand))
    /\ w' = Idle
    /\ UNCHANGED <<env, obj, seen, cloud, node, col, overdue, faults>>

\* checkMachineTimeout: written by what the copy says, whatever the object says now.
checkMachineTimeout ==
    /\ w.at = "decide" /\ ~w.m.deleting /\ w.m.timeout
    /\ \/ obj' \in updateMachineStatus(w.m, "Failed", FALSE)
       \/ UNCHANGED obj
    /\ w' = Idle
    /\ UNCHANGED <<env, seen, cloud, node, col, overdue, faults>>

\* addMachineFinalizers; nothing tells the caller that the object was not found.
WithFinalizer(o) == IF o.exists /\ ~o.deleting THEN [o EXCEPT !.fin = TRUE] ELSE o

AddMachineFinalizers ==
    /\ w.at = "decide" /\ ~w.m.deleting /\ ~w.m.timeout
    /\ \/ obj' = (IF w.m.fin THEN obj ELSE WithFinalizer(obj)) /\ UNCHANGED faults
       \/ ~w.m.fin /\ Fault /\ UNCHANGED obj
    /\ \/ w.m.phase # "Failed" /\ w.pid = NoID /\ Goto("create")
       \/ w.m.phase # "Failed" /\ w.pid \notin {NoID, w.m.pid} /\ Goto("update")
       \/ (w.m.phase = "Failed" \/ (w.pid # NoID /\ w.pid = w.m.pid)) /\ w' = Idle
    /\ UNCHANGED <<env, seen, cloud, node, col, overdue>>

\* machineUpdate: the id that the driver was made with replaces the one recorded since.
MachineUpdate ==
    /\ w.at = "update"
    /\ obj' = IF obj.exists THEN [obj EXCEPT !.pid = w.pid] ELSE obj
    /\ w' = Idle
    /\ UNCHANGED <<env, seen, cloud, node, col, overdue, faults>>

-----------------------------------------------------------------------------
(* machineCreate *)

\* The bootstrap token, or the list of VMs, cannot be had.
CreationRefused ==
    /\ w.at = "create"
    /\ Fault
    /\ \/ env.tokens /\ obj' \in updateMachineStatus(w.m, "Failed", FALSE)
       \/ obj' \in updateMachineStatus(w.m, "CrashLoopBackOff", FALSE)
    /\ w' = Idle
    /\ UNCHANGED <<env, seen, cloud, node, col, overdue>>

\* Mutant: no VM is adopted.
AdoptVMNever ==
    /\ w.at = "create"
    /\ Goto("call")
    /\ UNCHANGED <<env, obj, seen, cloud, node, col, overdue, faults>>

\* A VM that carries the name is adopted, without the name of its Node.
AdoptVM ==
    /\ w.at = "create"
    /\ LET vms == GetVMs(env.class, cloud)
       IN  \/ \E v \in vms : w' = [w EXCEPT !.at = "record", !.vm = ListedID(v)]
           \/ vms = {} /\ Goto("call")
    /\ UNCHANGED <<env, obj, seen, cloud, node, col, overdue, faults>>

CreateVM ==
    /\ w.at = "call"
    /\ LET outcomes == IF cloud.made < MaxVMs THEN Create(env.class, cloud)
                       ELSE {Outcome(cloud, TRUE)}
       IN  \E r \in outcomes :
              /\ Answer(outcomes, r)
              /\ IF r.err
                 THEN /\ obj' \in updateMachineStatus(w.m, "CrashLoopBackOff", FALSE)
                      /\ w' = Idle
                 ELSE /\ w' = [w EXCEPT !.at = "record", !.named = TRUE,
                                        !.vm = Encoded(NewVM(env.class, cloud))]
                      /\ UNCHANGED obj
    /\ UNCHANGED <<env, seen, node, col, overdue>>

\* The loop that records the VM: first the id, then Node and phase on the object that
\* this write returned.
RecordID ==
    /\ w.at = "record" /\ obj.exists
    /\ obj' = [obj EXCEPT !.pid = w.vm]
    /\ w' = [w EXCEPT !.at = "status", !.m = obj']
    /\ UNCHANGED <<env, seen, cloud, node, col, overdue, faults>>

RecordStatus ==
    /\ w.at = "status"
    /\ IF obj = w.m
       THEN /\ obj' = [obj EXCEPT !.node = w.named, !.phase = "Pending", !.timeout = TRUE]
            /\ w' = Idle
       ELSE Goto("record") /\ UNCHANGED obj
    /\ UNCHANGED <<env, seen, cloud, node, col, overdue, faults>>

\* The machine is gone: its VM is deleted, once; an error is only logged.
DeleteUnrecorded ==
    /\ w.at = "record" /\ ~obj.exists
    /\ \E r \in Delete(env.class, cloud, w.vm.vm) : Answer(Delete(env.class, cloud, w.vm.vm), r)
    /\ w' = Idle
    /\ UNCHANGED <<env, obj, seen, node, col, overdue>>

-----------------------------------------------------------------------------
(* machineDelete *)

\* Nothing to do without the finalizer.  Otherwise the phase becomes Terminating; the
\* object may turn out to be gone.
NotDeleted ==
    /\ w.at = "decide" /\ w.m.deleting
    /\ ~w.m.fin \/ (w.m.phase # "Terminating" /\ ~obj.exists)
    /\ w' = Idle
    /\ UNCHANGED <<env, obj, seen, cloud, node, col, overdue, faults>>

StartDeletion ==
    /\ w.at = "decide" /\ w.m.deleting /\ w.m.fin
    /\ w.m.phase = "Terminating" \/ obj.exists
    /\ obj' = IF w.m.phase = "Terminating" THEN obj ELSE WithStatus(obj, "Terminating", FALSE)
    /\ w' = [w EXCEPT !.at = IF w.pid # NoID /\ w.m.node THEN "drain" ELSE "purge",
                      !.named = w.m.node,
                      !.m = IF w.m.phase = "Terminating" THEN w.m ELSE obj']
    /\ UNCHANGED <<env, seen, cloud, node, col, overdue, faults>>

\* A failure is written down, with the phase of the copy at hand.
FailureNoted == obj' \in updateMachineStatus(w.m, w.m.phase, w.m.timeout) /\ w' = Idle

\* Mutant: an overdue drain is as good as any.
DrainNodeAlways ==
    /\ w.at = "drain"
    /\ (Goto("destroy") /\ UNCHANGED obj) \/ FailureNoted
    /\ UNCHANGED <<env, seen, cloud, node, col, overdue, faults>>

\* Node condition and drain; a forced deletion goes on after a failure.
DrainNode ==
    /\ w.at = "drain"
    /\ \/ Goto("destroy") /\ UNCHANGED obj
       \/ ~overdue /\ FailureNoted
    /\ UNCHANGED <<env, seen, cloud, node, col, overdue, faults>>

\* Result of the driver: on an error the status says so and the reconcile ends.
DeletionResult(err, step) ==
    IF err
    THEN obj' \in updateMachineStatus(w.m, "Terminating", FALSE) /\ w' = Idle
    ELSE Goto(step) /\ UNCHANGED obj

DestroyVM ==
    /\ w.at = "destroy"
    /\ LET outcomes == Delete(env.class, cloud, w.pid.vm)
       IN  \E r \in outcomes : Answer(outcomes, r) /\ DeletionResult(r.err, "node")
    /\ UNCHANGED <<env, seen, node, col, overdue>>

\* No id or no Node recorded: every VM with the name is deleted.  There is at most one
\* (OneVM), so that the error of one is not replaced by the success of the next.
PurgeVMs ==
    /\ w.at = "purge"
    /\ \/ Fault /\ DeletionResult(TRUE, "node") /\ UNCHANGED cloud
       \/ /\ GetVMs(env.class, cloud) = {}
          /\ Goto("node") /\ UNCHANGED <<obj, cloud, faults>>
       \/ \E v \in GetVMs(env.class, cloud) :
             LET outcomes == Delete(env.class, cloud, v)
             IN  \E r \in outcomes : Answer(outcomes, r) /\ DeletionResult(r.err, "node")
    /\ UNCHANGED <<env, seen, node, col, overdue>>

DeleteNode ==
    /\ w.at = "node"
    /\ \/ /\ node' = (IF w.named THEN NoNode ELSE node)
          /\ Goto("finish") /\ UNCHANGED <<obj, faults>>
       \/ /\ w.named /\ Fault
          /\ FailureNoted /\ UNCHANGED node
    /\ UNCHANGED <<env, seen, cloud, col, overdue>>

\* deleteMachineFinalizers, and Delete of what is then gone.  A failed read leaves the
\* finalizer, silently.
FinishDeletion ==
    /\ w.at = "finish"
    /\ \/ obj' = Absent /\ UNCHANGED faults
       \/ obj.exists /\ Fault /\ UNCHANGED obj
    /\ w' = Idle
    /\ UNCHANGED <<env, seen, cloud, node, col, overdue>>

Worker ==
    \/ Reconcile \/ AdoptNode \/ UpdateMachineState \/ LabelMachine \/ StateUpdateFails
    \/ checkMachineTimeout \/ AddMachineFinalizers \/ MachineUpdate \/ CreationRefused \/ AdoptVM \/ CreateVM
    \/ RecordID \/ RecordStatus \/ DeleteUnrecorded
    \/ NotDeleted \/ StartDeletion \/ DrainNode \/ DestroyVM \/ PurgeVMs \/ DeleteNode
    \/ FinishDeletion

-----------------------------------------------------------------------------
(* checkMachineClass: the orphan-VM collector *)

ListVMs ==
    /\ env.collector /\ col.at = "idle" /\ GetVMs(env.class, cloud) # {}
    /\ col' = [col EXCEPT !.at = "check", !.todo = GetVMs(env.class, cloud)]
    /\ UNCHANGED <<env, obj, seen, cloud, node, w, overdue, faults>>

\* Mutant: machines that are being processed are not passed over.
PassedOverNever(v) == seen.exists /\ seen.pid = ListedID(v)

\* The lister's copy has the id, or shows a machine that is still being created.
PassedOver(v) ==
    seen.exists /\ (seen.pid = ListedID(v) \/ seen.phase \in {"", "CrashLoopBackOff"})

\* Otherwise the VM and the object are looked up again.  When the object cannot be read,
\* an empty one is compared.
Backed(v) == obj.exists /\ obj.pid = ListedID(v)

CheckVM ==
    /\ col.at = "check"
    /\ \E v \in col.todo :
          LET rest == [at |-> IF col.todo = {v} THEN "idle" ELSE "check",
                       todo |-> col.todo \ {v}, vm |-> NoID]
              kill == [at |-> "kill", todo |-> col.todo \ {v}, vm |-> ListedID(v)]
          IN  IF PassedOver(v) \/ v \notin GetVMs(env.class, cloud)
              THEN col' = rest /\ UNCHANGED faults
              ELSE \/ col' = (IF Backed(v) THEN rest ELSE kill) /\ UNCHANGED faults
                   \/ Backed(v) /\ Fault /\ col' = kill
    /\ UNCHANGED <<env, obj, seen, cloud, node, w, overdue>>

deleteOrphanVM ==
    /\ col.at = "kill"
    /\ LET outcomes == Delete(env.class, cloud, col.vm.vm)
       IN  \E r \in outcomes : Answer(outcomes, r)
    /\ col' = [col EXCEPT !.at = IF col.todo = {} THEN "idle" ELSE "check", !.vm = NoID]
    /\ UNCHANGED <<env, obj, seen, node, w, overdue>>

Collector == ListVMs \/ CheckVM \/ deleteOrphanVM

-----------------------------------------------------------------------------
(* The world. *)

\* The informer catches up.
Deliver ==
    /\ seen # obj
    /\ seen' = obj
    /\ UNCHANGED <<env, obj, cloud, node, w, col, overdue, faults>>

\* A user deletes the machine; without finalizer it is gone at once.
DeleteMachine ==
    /\ obj.exists /\ ~obj.deleting
    /\ obj' = IF obj.fin THEN [obj EXCEPT !.deleting = TRUE] ELSE Absent
    /\ UNCHANGED <<env, seen, cloud, node, w, col, overdue, faults>>

\* The machine set controller writes the phase of a machine it has deleted, or failed to.
MachineSetTerminates ==
    /\ obj.exists /\ obj.phase # "Terminating"
    /\ IF obj.deleting THEN UNCHANGED faults ELSE Fault
    /\ obj' = WithStatus(obj, "Terminating", FALSE)
    /\ UNCHANGED <<env, seen, cloud, node, w, col, overdue>>

DeletionOverdue ==
    /\ obj.deleting /\ ~overdue
    /\ overdue' = TRUE
    /\ UNCHANGED <<env, obj, seen, cloud, node, w, col, faults>>

\* The kubelet of an instance registers the Node, or reports its health.
KubeletReports ==
    /\ \E v \in cloud.vms, ready \in BOOLEAN :
          /\ node.exists => node.vm = v /\ node.ready # ready
          /\ node' = [exists |-> TRUE, ready |-> ready, vm |-> v]
    /\ UNCHANGED <<env, obj, seen, cloud, w, col, overdue, faults>>

\* Somebody else removes the Node.
NodeLost ==
    /\ node.exists /\ Fault
    /\ node' = NoNode
    /\ UNCHANGED <<env, obj, seen, cloud, w, col, overdue>>

\* OpenStack carries out a deletion it has accepted.
ServerGone ==
    /\ env.class.kind = "OpenStack"
    /\ \E v \in cloud.vms \cap cloud.leaving : cloud' = WithoutVM(cloud, v)
    /\ UNCHANGED <<env, obj, seen, node, w, col, overdue, faults>>

Restart ==
    /\ w # Idle \/ col # Resting
    /\ Fault
    /\ w' = Idle /\ col' = Resting
    /\ seen' = obj
    /\ UNCHANGED <<env, obj, cloud, node, overdue>>

World ==
    \/ Deliver \/ DeleteMachine \/ MachineSetTerminates \/ DeletionOverdue \/ KubeletReports
    \/ NodeLost \/ ServerGone \/ Restart

Next == Worker \/ Collector \/ World

Spec == Init /\ [][Next]_vars

\* Workers are given the key again, calls return, the collector runs periodically, the
\* watch catches up, and time passes.
FairSpec ==
    /\ Spec
    /\ WF_vars(Worker) /\ WF_vars(Collector) /\ WF_vars(Deliver) /\ WF_vars(DeletionOverdue)

-----------------------------------------------------------------------------
(* Properties *)

\* The state of the object and its copy, the provider, the node, the worker and the collector has
\* its type.
TypeOK ==
    /\ env \in Scenarios
    /\ obj \in MachineRec /\ seen \in MachineRec
    /\ cloud \in Cloud
    /\ node \in NodeRec
    /\ w \in [at: Steps, pid: ProviderID, m: MachineRec, vm: ProviderID, named: BOOLEAN]
    /\ col \in [at: {"idle", "check", "kill"}, todo: SUBSET Nat, vm: ProviderID]
    /\ overdue \in BOOLEAN
    /\ faults \in 0..env.maxFaults

\* A machine never has two VMs, although creations fail after they took effect, the
\* process restarts before the id is recorded, and reconciles start from old copies:
\* machineCreate lists the VMs with the machine's name before it makes one
\* (machine.go:459).
OneVM == Cardinality(cloud.vms) <= 1

\* When machineDelete has come as far as the Node object and the finalizer, nothing that
\* carries the name of the machine is left at the cloud (machine.go:770), whatever earlier,
\* failed calls had left.  For classes without a port or data disks of their own, which
\* GetVMs does not list, and where instances are found by name or only one was ever made:
\* otherwise the id at hand may be that of an instance long gone, and another was made
\* since whose id was not recorded yet.
NothingLeft ==
    /\ w.at \in {"node", "finish"}
    /\ ~env.class.subnet /\ ~env.class.dataDisks
    /\ env.class.kind \in {"GCP", "Azure"} \/ cloud.made <= 1
    => ~Resources(cloud)

\* The collector never deletes the VM of a machine that is not being deleted and has
\* recorded it (machine_safety.go:404: "orphan VMs (VMs that don't have a machine object
\* backing)"), although it decides on an old copy and acts after the last look.  Unless the
\* machine was called Failed (its bootstrap token failed) or Terminating (its machine set
\* failed to delete it) before it had an id: it may still get its VM, and the collector
\* passes over neither phase.  Not for Packet, whose GetVMs returns ids in another form than
\* Create, and not for OpenStack, where a server that is still leaving may be adopted.
BackedVMKept ==
    [][ deleteOrphanVM /\ env.class.kind \notin {"Packet", "OpenStack"}
        => ~(obj.exists /\ ~obj.deleting /\ ~obj.early /\ obj.pid = col.vm) ]_vars

\* A machine that is being deleted goes away, whatever failed before: creation half done,
\* id not recorded, drain refused until it is overdue (machine.go:610).  Not if OpenStack
\* ports were made twice: then deletePort fails for ever.
DeletionCompletes == []<>(~(obj.exists /\ obj.deleting) \/ cloud.ports > 1)

Orphaned == Resources(cloud) /\ ~obj.exists

\* What a machine leaves behind when it goes is collected: VMs made for a machine that
\* was gone already, calls that failed after they took effect, crashes before the id was
\* recorded.  Where the collector runs: it is left out for OpenStack with a subnet, whose
\* ports GetVMs does not list.
OrphansCollected == []<>(env.collector => ~Orphaned)
=============================================================================
