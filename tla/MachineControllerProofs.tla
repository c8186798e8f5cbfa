----------------------- MODULE MachineControllerProofs -----------------------
(***************************************************************************)
(* Proofs about MachineController, for any set of machines and any number  *)
(* of VMs.                                                                 *)
(***************************************************************************)
EXTENDS MachineController, TLAPS

\* The ids the provider hands out, and "no id yet".
LEMMA VMIds == NoVM \notin VMId /\ VMId \subseteq Nat
  BY MaxVMsAssumption DEF NoVM, VMId

LEMMA AbsentObject == Absent \in Object /\ NewMachine \in Object
  BY Zenon DEF Absent, NewMachine, Object, Phases, Steps, NodeStates

LEMMA AbsentFields ==
  /\ ~Absent.exists /\ ~Absent.del /\ ~Absent.fin
  /\ Absent.step = "none" /\ Absent.pid = NoVM
  BY DEF Absent

\* Every clone a handler writes is an Object when the snapshot was one.
LEMMA CloneFlags ==
  ASSUME NEW s \in Object, NEW b \in BOOLEAN
  PROVE  /\ [s EXCEPT !.fin = b] \in Object
         /\ [s EXCEPT !.del = b] \in Object
         /\ [s EXCEPT !.del = TRUE, !.force = b] \in Object
  BY Zenon DEF Object

LEMMA CloneStatus ==
  ASSUME NEW s \in Object, NEW p \in Phases, NEW st \in Steps
  PROVE  [s EXCEPT !.phase = p, !.step = st] \in Object
  BY Zenon DEF Object

LEMMA CloneCondition ==
  ASSUME NEW s \in Object, NEW n \in NodeStates, NEW p \in Phases, NEW st \in Steps
  PROVE  /\ [s EXCEPT !.cond = n] \in Object
         /\ [s EXCEPT !.cond = n, !.phase = p, !.step = st] \in Object
  BY Zenon DEF Object

LEMMA Names ==
  /\ {"none", "GetVMStatus", "InitiateDrain", "InitiateVMDeletion",
      "InitiateNodeDeletion", "InitiateFinalizerRemoval"} \subseteq Steps
  /\ {"Failed", "Terminating"} \subseteq Phases
  /\ CreateFailurePhases \subseteq Phases
  BY DEF Steps, Phases, CreateFailurePhases

LEMMA StoredObject ==
  ASSUME NEW o \in Object
  PROVE  Stored(o) \in Object
  BY AbsentObject DEF Stored

LEMMA ObservedObject ==
  ASSUME NEW s \in Object, NEW n \in NodeStates
  PROVE  ObservedHealth(s, n) \in Object
  <1>1. {"none"} \subseteq Steps /\ {"Unknown", "Running"} \subseteq Phases
    BY DEF Steps, Phases
  <1> QED
    BY <1>1, CloneStatus, CloneCondition, Zenon DEF ObservedHealth

LEMMA RecordedObject ==
  ASSUME NEW s \in Object, NEW id \in VMId \cup {NoVM}
  PROVE  Recorded(s, id) \in Object
  <1>1. "none" \in Steps /\ "Pending" \in Phases
    BY DEF Steps, Phases
  <1>2. [s EXCEPT !.lbl = TRUE, !.pid = id] \in Object
    BY Zenon DEF Object
  <1>3. [s EXCEPT !.node = TRUE, !.phase = "Pending", !.step = "none"] \in Object
    BY <1>1, Zenon DEF Object
  <1> QED
    BY <1>2, <1>3 DEF Recorded

\* What the three ways to end a part of a reconcile do to the state's types.
LEMMA TouchType ==
  ASSUME TypeOK, NEW m \in Machine, NEW o \in Object, Touch(m, o)
  PROVE  api' \in [Machine -> Object] /\ current' \in [Machine -> SUBSET {"cache", "local"}]
  BY StoredObject DEF Touch, TypeOK

LEMMA ReturnType ==
  ASSUME TypeOK, NEW m \in Machine, Return(m)
  PROVE  /\ pc' \in [Machine -> {"idle", "reconcile", "create", "write"}]
         /\ local' \in [Machine -> Object]
         /\ current' \in [Machine -> SUBSET {"cache", "local"}]
  BY AbsentObject DEF Return, TypeOK

LEMMA PrepareType ==
  ASSUME TypeOK, NEW m \in Machine, NEW clone \in Object, Prepare(m, clone)
  PROVE  /\ pc' \in [Machine -> {"idle", "reconcile", "create", "write"}]
         /\ local' \in [Machine -> Object]
         /\ current' \in [Machine -> SUBSET {"cache", "local"}]
  BY DEF Prepare, TypeOK

LEMMA RecordType ==
  ASSUME TypeOK, NEW m \in Machine, NEW id \in VMId \cup {NoVM}, Record(m, id)
  PROVE  /\ pc' \in [Machine -> {"idle", "reconcile", "create", "write"}]
         /\ local' \in [Machine -> Object]
         /\ current' \in [Machine -> SUBSET {"cache", "local"}]
  <1>1. local[m] \in Object
    BY DEF TypeOK
  <1> QED
    BY <1>1, RecordedObject, ReturnType, PrepareType, Zenon DEF Record

LEMMA NextStepType ==
  ASSUME TypeOK, NEW m \in Machine, NEW st \in Steps, NextStep(m, st)
  PROVE  /\ pc' \in [Machine -> {"idle", "reconcile", "create", "write"}]
         /\ local' \in [Machine -> Object]
         /\ current' \in [Machine -> SUBSET {"cache", "local"}]
  <1>0. local[m] \in Object
    BY DEF TypeOK
  <1>1. [local[m] EXCEPT !.step = st] \in Object
    BY <1>0 DEF Object
  <1> QED
    BY <1>1, PrepareType DEF NextStep

LEMMA NewVMType ==
  ASSUME TypeOK, NEW m \in Machine, NewVM(m)
  PROVE  /\ nextVM \in VMId
         /\ vms' \in [Machine -> SUBSET VMId]
         /\ nextVM' \in 1 .. MaxVMs + 1
  BY MaxVMsAssumption DEF NewVM, TypeOK, VMId

-----------------------------------------------------------------------------
(***************************************************************************)
(* Type correctness.                                                       *)
(***************************************************************************)
LEMMA InitTypeOK == Init => TypeOK
  BY AbsentObject, MaxVMsAssumption DEF Init, TypeOK, NodeStates

LEMMA NextTypeOK == TypeOK /\ [Next]_vars => TypeOK'
  <1> SUFFICES ASSUME TypeOK, [Next]_vars PROVE TypeOK'
    OBVIOUS
  <1> USE Names
  <1>1. CASE UNCHANGED vars
    BY <1>1 DEF TypeOK, vars
  <1>2. ASSUME NEW m \in Machine, InformerSync(m) PROVE TypeOK'
    BY <1>2 DEF InformerSync, TypeOK
  <1>3. ASSUME NEW m \in Machine, Begin(m) PROVE TypeOK'
    BY <1>3 DEF Begin, TypeOK
  <1>4. ASSUME NEW m \in Machine, Reconcile(m) PROVE TypeOK'
    <2>0. local[m] \in Object /\ node[m] \in NodeStates
      BY DEF TypeOK
    <2>1. CASE ReconcileRefused(m)
      BY <2>1, ReturnType DEF ReconcileRefused, TypeOK
    <2>2. CASE AddMachineFinalizers(m)
      BY <2>0, <2>2, CloneFlags, PrepareType, Zenon DEF AddMachineFinalizers, TypeOK
    <2>3. CASE HealthChanged(m)
      BY <2>0, <2>3, ObservedObject, PrepareType DEF HealthChanged, TypeOK
    <2>4. CASE HealthTimeout(m)
      BY <2>0, <2>4, CloneStatus, PrepareType, Zenon DEF HealthTimeout, TypeOK
    <2>5. CASE HealthUnchanged(m)
      BY <2>5, ReturnType DEF HealthUnchanged, TypeOK
    <2>6. CASE AdoptVM(m)
      BY <2>6, RecordType DEF AdoptVM, TypeOK
    <2>7. CASE CreationKeepsLabel(m)
      BY <2>7, RecordType DEF CreationKeepsLabel, TypeOK
    <2>8. CASE CreateVM(m)
      BY <2>8, RecordType, NewVMType DEF CreateVM, TypeOK
    <2>9. CASE CreateVMFails(m)
      BY <2>0, <2>9, CloneStatus, PrepareType, NewVMType, Zenon DEF CreateVMFails, TypeOK
    <2>10. CASE CreationStatusFails(m)
      BY <2>0, <2>10, CloneStatus, PrepareType, ReturnType, Zenon DEF CreationStatusFails, TypeOK
    <2>11. CASE SetMachineTerminationStatus(m)
      BY <2>0, <2>11, CloneStatus, PrepareType, Zenon DEF SetMachineTerminationStatus, TypeOK
    <2>12. CASE GetVMStatus(m) \/ GetVMStatusFails(m)
      BY <2>12, NextStepType DEF GetVMStatus, GetVMStatusFails, TypeOK
    <2>13. CASE SkipDrain(m) \/ DrainSucceeds(m) \/ DrainFails(m)
      BY <2>13, NextStepType DEF SkipDrain, DrainSucceeds, DrainFails, TypeOK
    <2>14. CASE DeleteVM(m) \/ DeleteVMFails(m)
      BY <2>14, NextStepType DEF DeleteVM, DeleteVMFails, TypeOK
    <2>15. CASE DeleteNodeObject(m) \/ DeleteNodeObjectFails(m)
      BY <2>15, NextStepType DEF DeleteNodeObject, DeleteNodeObjectFails, TypeOK, NodeStates
    <2>16. CASE DeleteMachineFinalizers(m)
      BY <2>0, <2>16, CloneFlags, PrepareType, Zenon DEF DeleteMachineFinalizers, TypeOK
    <2> QED
      BY <1>4, <2>1, <2>2, <2>3, <2>4, <2>5, <2>6, <2>7, <2>8, <2>9, <2>10, <2>11,
         <2>12, <2>13, <2>14, <2>15, <2>16 DEF Reconcile
  <1>5. ASSUME NEW m \in Machine, WriteAccepted(m) PROVE TypeOK'
    <2>1. local[m] \in Object
      BY DEF TypeOK
    <2> QED
      BY <1>5, <2>1, TouchType, AbsentObject DEF WriteAccepted, TypeOK
  <1>6. ASSUME NEW m \in Machine, WriteRefused(m) PROVE TypeOK'
    BY <1>6, ReturnType DEF WriteRefused, TypeOK
  <1>7. ASSUME NEW m \in Machine, World(m) PROVE TypeOK'
    <2>0. api[m] \in Object
      BY DEF TypeOK
    <2>1. CASE UserDeletes(m)
      BY <2>0, <2>1, CloneFlags, TouchType, Zenon DEF UserDeletes, TypeOK
    <2>2. CASE DrainTimeoutElapses(m)
      BY <2>2 DEF DrainTimeoutElapses, TypeOK
    <2>3. CASE NodeJoins(m)
      BY <2>3 DEF NodeJoins, TypeOK, NodeStates
    <2>4. CASE NodeConditionFlips(m)
      BY <2>4 DEF NodeConditionFlips, TypeOK, NodeStates
    <2>5. CASE NodeGoesMissing(m)
      BY <2>5 DEF NodeGoesMissing, TypeOK, NodeStates
    <2>6. CASE PrepareMachineForDeletion(m)
      BY <2>0, <2>6, CloneFlags, TouchType, Zenon DEF PrepareMachineForDeletion, TypeOK
    <2>7. CASE ForceTerminatingStatus(m)
      BY <2>0, <2>7, CloneStatus, TouchType, Zenon DEF ForceTerminatingStatus, TypeOK
    <2>8. CASE MCMInformerSync(m)
      BY <2>8 DEF MCMInformerSync, TypeOK
    <2>9. CASE ResetHealth(m)
      <3>1. "Running" \in Phases
        BY Zenon DEF Phases
      <3> QED
        BY <2>0, <2>9, <3>1, CloneStatus, TouchType, Zenon DEF ResetHealth, TypeOK
    <2> QED
      BY <1>7, <2>1, <2>2, <2>3, <2>4, <2>5, <2>6, <2>7, <2>8, <2>9 DEF World
  <1>8. ASSUME NEW m \in Machine, NEW id \in VMId, JudgeVM(m, id) \/ CollectOrphan(m, id)
        PROVE  TypeOK'
    <2>1. CASE JudgeVM(m, id)
      <3>1. <<m, id, "orphan">> \in Machine \X VMId \X Verdicts
        BY DEF Verdicts
      <3>2. (listed \in SUBSET (Machine \X VMId \X Verdicts))'
        BY <2>1, <3>1, Zenon DEF JudgeVM, TypeOK
      <3> QED
        BY <2>1, <3>2 DEF JudgeVM, TypeOK
    <2>2. CASE CollectOrphan(m, id)
      <3>1. (vms \in [Machine -> SUBSET VMId])'
        BY <2>2 DEF CollectOrphan, TypeOK
      <3>2. (listed \in SUBSET (Machine \X VMId \X Verdicts))'
        BY <2>2, Zenon DEF CollectOrphan, TypeOK
      <3> QED
        BY <2>2, <3>1, <3>2 DEF CollectOrphan, TypeOK
    <2> QED
      BY <1>8, <2>1, <2>2
  <1>9. CASE ListMachines
    <2>1. Machine \X VMId \X {"unseen"} \subseteq Machine \X VMId \X Verdicts
      BY DEF Verdicts
    <2>2. (listed \in SUBSET (Machine \X VMId \X Verdicts))'
      BY <1>9, <2>1, Zenon DEF ListMachines
    <2> QED
      BY <1>9, <2>2 DEF ListMachines, TypeOK
  <1>10. CASE Restart
    BY <1>10, AbsentObject DEF Restart, TypeOK
  <1>11. CASE UnfreezeLists
    BY <1>11 DEF UnfreezeLists, TypeOK
  <1> QED
    BY <1>1, <1>2, <1>3, <1>4, <1>5, <1>6, <1>7, <1>8, <1>9, <1>10, <1>11 DEF Next

\* Whatever the interleaving of workers, collector, MCM and cluster, every object, copy and
\* provider answer keeps its type: TypeOK for every set of machines and bound on VMs.
THEOREM TypeCorrect == Spec => []TypeOK
  BY InitTypeOK, NextTypeOK, PTL DEF Spec

-----------------------------------------------------------------------------
(***************************************************************************)
(* TrackingInv, one machine at a time.                                     *)
(***************************************************************************)
\* A step that does not concern machine n keeps what is known of it.
LEMMA Frame ==
  ASSUME NEW n \in Machine, CopiesInv(n), VMsInv(n),
         api'[n] = api[n], cache'[n] = cache[n], local'[n] = local[n],
         current'[n] = current[n], pc'[n] = pc[n], vms'[n] = vms[n]
  PROVE  CopiesInv(n)' /\ VMsInv(n)'
  <1>1. CopiesInv(n)'
    BY Zenon DEF CopiesInv
  <1>2. VMsInv(n)'
    BY DEF VMsInv, Creatable
  <1> QED
    BY <1>1, <1>2

\* A handler that computes a clone: the clone keeps the identity and the deletion mark.
LEMMA PrepareCopies ==
  ASSUME TypeOK, NEW m \in Machine, CopiesInv(m), NEW clone \in Object, Prepare(m, clone),
         pc[m] \in {"reconcile", "create"}, UNCHANGED <<api, cache>>,
         clone.exists = local[m].exists, clone.del = local[m].del, WellFormed(clone),
         clone.fin \/ clone.step = "InitiateFinalizerRemoval"
  PROVE  CopiesInv(m)'
  <1>1. /\ pc'[m] = "write" /\ local'[m] = clone /\ current' = current
        /\ api' = api /\ cache' = cache
    BY DEF Prepare, TypeOK
  <1>2. "local" \in current[m] => local[m] = api[m]
    BY DEF CopiesInv
  <1> QED
    BY <1>1, <1>2 DEF CopiesInv

LEMMA PrepareVMs ==
  ASSUME TypeOK, NEW m \in Machine, VMsInv(m), NEW clone \in Object, Prepare(m, clone),
         pc[m] \in {"reconcile", "create"}, UNCHANGED <<api, cache, vms>>,
         "local" \in current[m] =>
            /\ Late(clone) => vms[m] = {}
            /\ clone.pid # NoVM =>
                  vms[m] \subseteq {clone.pid} /\ (~clone.del => vms[m] # {})
  PROVE  VMsInv(m)'
  <1>1. /\ pc'[m] = "write" /\ local'[m] = clone /\ current' = current
        /\ api' = api /\ cache' = cache /\ vms' = vms
    BY DEF Prepare, TypeOK
  <1>2. Live(api[m]) \/ Live(cache[m]) => Creatable(m)
    BY DEF VMsInv
  <1>3. Creatable(m) => Creatable(m)'
    BY <1>1 DEF Creatable
  <1> QED
    BY <1>1, <1>2, <1>3 DEF VMsInv, Live, Late

\* A handler that calls nothing and keeps the ProviderID.
LEMMA PrepareKeepsPid ==
  ASSUME TypeOK, NEW m \in Machine, CopiesInv(m), VMsInv(m), NEW clone \in Object,
         Prepare(m, clone), pc[m] \in {"reconcile", "create"}, UNCHANGED <<api, cache, vms>>,
         clone.exists = local[m].exists, clone.del = local[m].del, clone.pid = local[m].pid,
         WellFormed(clone), clone.fin \/ clone.step = "InitiateFinalizerRemoval",
         "local" \in current[m] /\ Late(clone) => vms[m] = {}
  PROVE  CopiesInv(m)' /\ VMsInv(m)'
  <1>1. "local" \in current[m] => local[m] = api[m]
    BY DEF CopiesInv
  <1>2. ASSUME "local" \in current[m], clone.pid # NoVM
        PROVE  vms[m] \subseteq {clone.pid} /\ (~clone.del => vms[m] # {})
    <2>1. api[m].pid = clone.pid /\ api[m].del = clone.del
      BY <1>1, <1>2
    <2>2. api[m].fin /\ vms[m] \subseteq {api[m].pid}
      BY <1>2, <2>1 DEF VMsInv
    <2> QED
      BY <1>2, <2>1, <2>2 DEF VMsInv, Live, Creatable
  <1> QED
    BY <1>2, PrepareCopies, PrepareVMs

\* A handler that returns with nothing to write.
LEMMA ReturnInv ==
  ASSUME TypeOK, NEW m \in Machine, CopiesInv(m), VMsInv(m), Return(m),
         UNCHANGED <<api, cache, vms>>
  PROVE  CopiesInv(m)' /\ VMsInv(m)'
  <1>1. /\ pc'[m] = "idle" /\ current'[m] = current[m] \ {"local"}
        /\ api' = api /\ cache' = cache /\ vms' = vms
    BY DEF Return, TypeOK
  <1> QED
    BY <1>1 DEF CopiesInv, VMsInv, Creatable

\* A write of somebody else: it keeps the finalizer and the ProviderID, does not take the
\* deletion mark back, and leaves the step alone or clears it.
LEMMA TouchInv ==
  ASSUME TypeOK, NEW m \in Machine, CopiesInv(m), VMsInv(m), NEW o \in Object, Touch(m, o),
         UNCHANGED <<cache, local, pc, vms>>, api[m].exists,
         o.exists, o.fin = api[m].fin, o.pid = api[m].pid,
         api[m].del => o.del, o.step \in {api[m].step, "none"}
  PROVE  CopiesInv(m)' /\ VMsInv(m)'
  <1>1. /\ api'[m] = Stored(o) /\ current'[m] = {}
        /\ cache' = cache /\ local' = local /\ pc' = pc /\ vms' = vms
    BY DEF Touch, TypeOK
  <1>2. CASE o.del /\ ~o.fin
    <2>1. api'[m] = Absent
      BY <1>1, <1>2 DEF Stored
    <2>2. vms[m] = {} /\ ~Live(cache[m])
      BY <1>2 DEF VMsInv, Creatable
    <2>3. ~(pc[m] \in {"reconcile", "create"} /\ Live(local[m]))
      BY <1>2 DEF VMsInv, Creatable
    <2>4. CopiesInv(m)'
      <3>1. /\ WellFormed(api[m])' /\ WellFormed(cache[m])' /\ Gone(api[m])'
        BY <1>1, <2>1, AbsentFields DEF CopiesInv, WellFormed, Gone
      <3>2. (pc[m] # "idle" =>
              /\ local[m].exists
              /\ WellFormed(local[m])
              /\ local[m].del => Gone(cache[m]))'
        BY <1>1 DEF CopiesInv
      <3>3. (/\ pc[m] = "create" => Live(local[m])
             /\ pc[m] = "write" =>
                  (~local[m].fin => local[m].step = "InitiateFinalizerRemoval"))'
        BY <1>1, Zenon DEF CopiesInv
      <3> QED
        BY <1>1, <3>1, <3>2, <3>3 DEF CopiesInv
    <2>5. VMsInv(m)'
      BY <1>1, <2>1, <2>2, <2>3, AbsentFields DEF VMsInv, Live, Late
    <2> QED
      BY <2>4, <2>5
  <1>3. CASE ~(o.del /\ ~o.fin)
    <2>1. api'[m] = o
      BY <1>1, <1>3 DEF Stored
    <2>2. CopiesInv(m)'
      BY <1>1, <1>3, <2>1 DEF CopiesInv, WellFormed, Gone
    <2>3. VMsInv(m)'
      BY <1>1, <1>3, <2>1 DEF CopiesInv, VMsInv, Creatable, WellFormed, Live, Gone, Late
    <2> QED
      BY <2>2, <2>3
  <1> QED
    BY <1>2, <1>3

\* Nothing but the state of machine m changes.
OnlyAt(m) ==
    \A n \in Machine \ {m} :
       /\ api'[n] = api[n] /\ cache'[n] = cache[n] /\ local'[n] = local[n]
       /\ current'[n] = current[n] /\ pc'[n] = pc[n] /\ vms'[n] = vms[n]

LEMMA OneMachine ==
  ASSUME TrackingInv, NEW m \in Machine, CopiesInv(m)', VMsInv(m)', OnlyAt(m),
         listed' = listed
  PROVE  TrackingInv'
  <1>1. ASSUME NEW n \in Machine \ {m} PROVE CopiesInv(n)' /\ VMsInv(n)'
    <2>1. CopiesInv(n) /\ VMsInv(n)
      BY DEF TrackingInv
    <2> QED
      BY <2>1, Frame DEF OnlyAt
  <1> QED
    BY <1>1 DEF TrackingInv

LEMMA HandlerOnlyAt ==
  ASSUME TypeOK, NEW m \in Machine, UNCHANGED <<api, cache>>,
         \/ Return(m)
         \/ \E clone \in Object : Prepare(m, clone),
         \/ UNCHANGED vms
         \/ \E v : vms' = [vms EXCEPT ![m] = v]
  PROVE  OnlyAt(m)
  <1>1. \A n \in Machine \ {m} : vms'[n] = vms[n]
    BY DEF TypeOK
  <1>2. CASE Return(m)
    BY <1>1, <1>2 DEF OnlyAt, Return, TypeOK
  <1>3. CASE \E clone \in Object : Prepare(m, clone)
    BY <1>1, <1>3 DEF OnlyAt, Prepare, TypeOK
  <1> QED
    BY <1>2, <1>3

LEMMA TouchOnlyAt ==
  ASSUME TypeOK, NEW m \in Machine, NEW o \in Object, Touch(m, o),
         UNCHANGED <<cache, local, pc, vms>>
  PROVE  OnlyAt(m)
  BY DEF OnlyAt, Touch, TypeOK

\* The whole of a handler that keeps the ProviderID and calls nothing that changes VMs.
LEMMA HandlerKeepsPid ==
  ASSUME TypeOK, TrackingInv, NEW m \in Machine, NEW clone \in Object, Prepare(m, clone),
         pc[m] \in {"reconcile", "create"}, UNCHANGED <<api, cache, vms, listed>>,
         clone.exists = local[m].exists, clone.del = local[m].del, clone.pid = local[m].pid,
         WellFormed(clone), clone.fin \/ clone.step = "InitiateFinalizerRemoval",
         "local" \in current[m] /\ Late(clone) => vms[m] = {}
  PROVE  TrackingInv'
  <1>1. CopiesInv(m) /\ VMsInv(m)
    BY DEF TrackingInv
  <1>2. CopiesInv(m)' /\ VMsInv(m)'
    BY <1>1, PrepareKeepsPid
  <1>3. OnlyAt(m)
    BY HandlerOnlyAt
  <1> QED
    BY <1>2, <1>3, OneMachine

LEMMA HandlerReturns ==
  ASSUME TypeOK, TrackingInv, NEW m \in Machine, Return(m),
         UNCHANGED <<api, cache, vms, listed>>
  PROVE  TrackingInv'
  <1>1. CopiesInv(m) /\ VMsInv(m)
    BY DEF TrackingInv
  <1>2. CopiesInv(m)' /\ VMsInv(m)'
    BY <1>1, ReturnInv
  <1>3. OnlyAt(m)
    BY HandlerOnlyAt
  <1> QED
    BY <1>2, <1>3, OneMachine

\* The whole of a write by somebody else.
LEMMA Touched ==
  ASSUME TypeOK, TrackingInv, NEW m \in Machine, NEW o \in Object, Touch(m, o),
         UNCHANGED <<cache, local, pc, vms, listed>>, api[m].exists,
         o.exists, o.fin = api[m].fin, o.pid = api[m].pid,
         api[m].del => o.del, o.step \in {api[m].step, "none"}
  PROVE  TrackingInv'
  <1>1. CopiesInv(m) /\ VMsInv(m)
    BY DEF TrackingInv
  <1>2. CopiesInv(m)' /\ VMsInv(m)'
    BY <1>1, TouchInv
  <1>3. OnlyAt(m)
    BY TouchOnlyAt
  <1> QED
    BY <1>2, <1>3, OneMachine

-----------------------------------------------------------------------------
(***************************************************************************)
(* TrackingInv is preserved: the reconcile of a machine that is not being  *)
(* deleted.                                                                *)
(***************************************************************************)
\* What the snapshot of a machine that is not being deleted looks like.
LEMMA LiveSnapshot ==
  ASSUME TypeOK, TrackingInv, NEW m \in Machine, pc[m] \in {"reconcile", "create"},
         ~local[m].del
  PROVE  /\ local[m] \in Object /\ local[m].exists /\ local[m].step = "none"
         /\ local[m].fin => Creatable(m)
  <1>1. CopiesInv(m) /\ VMsInv(m)
    BY DEF TrackingInv
  <1> QED
    BY <1>1, Zenon DEF TypeOK, CopiesInv, VMsInv, WellFormed, Live

LEMMA CreatingIsLive ==
  ASSUME TypeOK, TrackingInv, NEW m \in Machine, Creating(m)
  PROVE  /\ pc[m] \in {"reconcile", "create"} /\ local[m].fin /\ ~local[m].del
         /\ local[m] \in Object /\ local[m].exists /\ local[m].step = "none"
         /\ Creatable(m)
  <1>1. CopiesInv(m)
    BY DEF TrackingInv
  <1>2. pc[m] \in {"reconcile", "create"} /\ local[m].fin /\ ~local[m].del
    BY <1>1 DEF Creating, CopiesInv, Live
  <1> QED
    BY <1>2, LiveSnapshot

LEMMA FinalizersAdded ==
  ASSUME TypeOK, TrackingInv, NEW m \in Machine, AddMachineFinalizers(m)
  PROVE  TrackingInv'
  <1> DEFINE clone == [local[m] EXCEPT !.fin = TRUE]
  <1>1. local[m] \in Object /\ local[m].exists /\ local[m].step = "none"
    BY LiveSnapshot DEF AddMachineFinalizers
  <1>2. /\ clone \in Object /\ clone.exists = local[m].exists /\ clone.del = local[m].del
        /\ clone.pid = local[m].pid /\ clone.fin /\ clone.step = "none"
    BY <1>1, Zenon DEF Object
  <1>3. WellFormed(clone) /\ ~Late(clone)
    BY <1>1, <1>2 DEF WellFormed, Late
  <1> HIDE DEF clone
  <1> QED
    BY <1>2, <1>3, HandlerKeepsPid, Zenon DEF AddMachineFinalizers, clone

LEMMA ObservedFields ==
  ASSUME NEW s \in Object, NEW n \in NodeStates
  PROVE  /\ ObservedHealth(s, n).exists = s.exists /\ ObservedHealth(s, n).del = s.del
         /\ ObservedHealth(s, n).fin = s.fin /\ ObservedHealth(s, n).pid = s.pid
         /\ ObservedHealth(s, n).step \in {s.step, "none"}
  BY DEF ObservedHealth, NodeStates, Object

LEMMA HealthKeepsTrack ==
  ASSUME TypeOK, TrackingInv, NEW m \in Machine,
         HealthChanged(m) \/ HealthTimeout(m) \/ HealthUnchanged(m)
  PROVE  TrackingInv'
  <1>0. pc[m] = "reconcile" /\ ~local[m].del /\ local[m].fin
    BY DEF HealthChanged, HealthTimeout, HealthUnchanged, Watched
  <1>1. local[m] \in Object /\ local[m].exists /\ local[m].step = "none" /\ node[m] \in NodeStates
    BY <1>0, LiveSnapshot DEF TypeOK
  <1>2. CASE HealthChanged(m)
    <2> DEFINE clone == ObservedHealth(local[m], node[m])
    <2>1. /\ clone \in Object /\ clone.exists = local[m].exists /\ clone.del = local[m].del
          /\ clone.pid = local[m].pid /\ clone.fin /\ clone.step = "none"
      BY <1>0, <1>1, ObservedObject, ObservedFields, Zenon
    <2>2. WellFormed(clone) /\ ~Late(clone)
      BY <1>1, <2>1 DEF WellFormed, Late
    <2> HIDE DEF clone
    <2> QED
      BY <1>0, <1>2, <2>1, <2>2, HandlerKeepsPid DEF HealthChanged, clone
  <1>3. CASE HealthTimeout(m)
    <2> DEFINE clone == [local[m] EXCEPT !.phase = "Failed", !.step = "none"]
    <2>1. /\ clone.exists = local[m].exists /\ clone.del = local[m].del
          /\ clone.pid = local[m].pid /\ clone.fin /\ clone.step = "none"
      BY <1>0, <1>1, Zenon DEF Object
    <2>2. clone \in Object
      BY <1>1, Names, CloneStatus, Zenon
    <2>3. WellFormed(clone) /\ ~Late(clone)
      BY <1>1, <2>1 DEF WellFormed, Late
    <2> HIDE DEF clone
    <2> QED
      BY <1>0, <1>3, <2>1, <2>2, <2>3, HandlerKeepsPid, Zenon DEF HealthTimeout, clone
  <1>4. CASE HealthUnchanged(m)
    <2>1. CASE pc' = [pc EXCEPT ![m] = "create"] /\ UNCHANGED <<local, current>>
      <3>1. /\ pc' = [pc EXCEPT ![m] = "create"]
            /\ UNCHANGED <<api, cache, local, current, vms, listed>>
        BY <1>4, <2>1 DEF HealthUnchanged
      <3>2. CopiesInv(m) /\ VMsInv(m)
        BY DEF TrackingInv
      <3>3. CopiesInv(m)'
        BY <1>0, <3>1, <3>2 DEF CopiesInv, Live, TypeOK
      <3>4. VMsInv(m)'
        BY <1>0, <3>1, <3>2 DEF VMsInv, Creatable, TypeOK
      <3>5. OnlyAt(m)
        BY <3>1 DEF OnlyAt, TypeOK
      <3> QED
        BY <3>1, <3>3, <3>4, <3>5, OneMachine
    <2>2. CASE Return(m)
      BY <1>4, <2>2, HandlerReturns DEF HealthUnchanged
    <2> QED
      BY <1>4, <2>1, <2>2 DEF HealthUnchanged
  <1> QED
    BY <1>2, <1>3, <1>4

LEMMA RecordedFields ==
  ASSUME NEW s \in Object, NEW id \in VMId \cup {NoVM}
  PROVE  /\ Recorded(s, id).exists = s.exists /\ Recorded(s, id).del = s.del
         /\ Recorded(s, id).fin = s.fin
         /\ Recorded(s, id).step \in {s.step, "none"}
         /\ Recorded(s, id).pid = IF ~s.lbl \/ s.pid = NoVM THEN id ELSE s.pid
  BY DEF Recorded, Object

\* Recording the VM that carries the machine's name, or none.
LEMMA RecordKeepsTrack ==
  ASSUME TypeOK, TrackingInv, NEW m \in Machine, Creating(m), NEW id \in VMId \cup {NoVM},
         Record(m, id), UNCHANGED <<api, cache, vms, listed>>,
         id # NoVM => vms[m] = {id}
  PROVE  TrackingInv'
  <1>0. /\ pc[m] \in {"reconcile", "create"} /\ local[m].fin /\ ~local[m].del
        /\ local[m] \in Object /\ local[m].exists /\ local[m].step = "none"
    BY CreatingIsLive
  <1> DEFINE clone == Recorded(local[m], id)
  <1>1. /\ clone \in Object /\ clone.exists = local[m].exists /\ clone.del = local[m].del
        /\ clone.fin /\ clone.step = "none"
        /\ clone.pid = IF ~local[m].lbl \/ local[m].pid = NoVM THEN id ELSE local[m].pid
    BY <1>0, RecordedObject, RecordedFields, Zenon
  <1>2. WellFormed(clone) /\ ~Late(clone)
    BY <1>0, <1>1 DEF WellFormed, Late
  <1> HIDE DEF clone
  <1>3. CASE Return(m)
    BY <1>3, HandlerReturns
  <1>4. CASE Prepare(m, clone) /\ clone.pid = local[m].pid
    BY <1>0, <1>1, <1>2, <1>4, HandlerKeepsPid, Zenon
  <1>5. CASE Prepare(m, clone) /\ clone.pid = id
    <2>1. CopiesInv(m) /\ VMsInv(m)
      BY DEF TrackingInv
    <2>2. CopiesInv(m)'
      BY <1>0, <1>1, <1>2, <1>5, <2>1, PrepareCopies, Zenon
    <2>3. VMsInv(m)'
      BY <1>0, <1>1, <1>2, <1>5, <2>1, PrepareVMs, Zenon
    <2>4. OnlyAt(m)
      BY <1>1, <1>5, HandlerOnlyAt
    <2> QED
      BY <2>2, <2>3, <2>4, OneMachine
  <1> QED
    BY <1>1, <1>3, <1>4, <1>5, Zenon DEF Record, clone

\* A VM comes into being for a machine that has none: its object is there, with its
\* finalizer, and records no other VM.
LEMMA CreationKeepsTrack ==
  ASSUME TypeOK, TrackingInv, NEW m \in Machine, Creating(m), vms[m] = {}, NewVM(m),
         NEW clone \in Object, Prepare(m, clone), UNCHANGED <<api, cache, listed>>,
         clone.exists = local[m].exists, clone.del = local[m].del, clone.fin,
         clone.step = "none", clone.pid \in {local[m].pid, nextVM}
  PROVE  TrackingInv'
  <1>0. /\ pc[m] \in {"reconcile", "create"} /\ local[m].fin /\ ~local[m].del
        /\ local[m].exists /\ Creatable(m)
    BY CreatingIsLive
  <1>1. CopiesInv(m) /\ VMsInv(m)
    BY DEF TrackingInv
  <1>2. api[m].fin /\ api[m].step = "none" /\ api[m].pid = NoVM
    BY <1>0 DEF Creatable
  <1>3. /\ pc'[m] = "write" /\ local'[m] = clone /\ current' = current
        /\ vms'[m] = {nextVM} /\ api' = api /\ cache' = cache
    BY ZenonT(60) DEF Prepare, NewVM, TypeOK
  <1>4. WellFormed(clone) /\ ~Late(clone)
    BY <1>0 DEF WellFormed, Late
  <1>5. CopiesInv(m)'
    BY <1>0, <1>1, <1>4, PrepareCopies, ZenonT(60)
  <1>6. "local" \in current[m] => local[m].pid = NoVM
    BY <1>0, <1>1, <1>2, Zenon DEF CopiesInv
  <1>7. VMsInv(m)'
    BY <1>0, <1>2, <1>3, <1>4, <1>6, Zenon DEF VMsInv, Creatable, Late
  <1>8. OnlyAt(m)
    <2>1. \E v : vms' = [vms EXCEPT ![m] = v]
      BY Zenon DEF NewVM
    <2> QED
      BY <2>1, HandlerOnlyAt, Zenon
  <1> QED
    BY <1>5, <1>7, <1>8, OneMachine

LEMMA CreationFlowKeepsTrack ==
  ASSUME TypeOK, TrackingInv, StatusImplemented, NEW m \in Machine,
         \/ AdoptVM(m) \/ CreationKeepsLabel(m) \/ CreateVM(m)
         \/ CreateVMFails(m) \/ CreationStatusFails(m)
  PROVE  TrackingInv'
  <1>0. /\ Creating(m) /\ pc[m] \in {"reconcile", "create"}
        /\ local[m].fin /\ ~local[m].del
        /\ local[m] \in Object /\ local[m].exists /\ local[m].step = "none"
    <2>1. Creating(m)
      BY Zenon DEF AdoptVM, CreationKeepsLabel, CreateVM, CreateVMFails, CreationStatusFails
    <2> QED
      BY <2>1, CreatingIsLive
  <1>1. ASSUME NEW p \in CreateFailurePhases
        PROVE  LET clone == [local[m] EXCEPT !.phase = p, !.step = "none"] IN
               /\ clone \in Object /\ clone.exists = local[m].exists
               /\ clone.del = local[m].del /\ clone.pid = local[m].pid
               /\ clone.fin /\ clone.step = "none" /\ WellFormed(clone) /\ ~Late(clone)
    <2> DEFINE clone == [local[m] EXCEPT !.phase = p, !.step = "none"]
    <2>1. clone \in Object
      BY <1>0, <1>1, Names, CloneStatus, Zenon
    <2>2. /\ clone.exists = local[m].exists /\ clone.del = local[m].del
          /\ clone.pid = local[m].pid /\ clone.fin /\ clone.step = "none"
      BY <1>0, Zenon DEF Object
    <2> HIDE DEF clone
    <2>3. WellFormed(clone) /\ ~Late(clone)
      BY <1>0, <2>2 DEF WellFormed, Late
    <2> QED
      BY <2>1, <2>2, <2>3 DEF clone
  <1>2. CASE AdoptVM(m)
    <2>1. PICK id \in vms[m] : StatusFound(m, id) /\ Record(m, id)
      BY <1>2 DEF AdoptVM
    <2>2. id \in VMId /\ vms[m] = {id}
      BY <2>1 DEF StatusFound, TypeOK
    <2> QED
      BY <1>0, <1>2, <2>1, <2>2, RecordKeepsTrack DEF AdoptVM
  <1>3. CASE CreationKeepsLabel(m)
    BY <1>0, <1>3, RecordKeepsTrack DEF CreationKeepsLabel
  <1>4. CASE CreateVM(m)
    <2> DEFINE clone == Recorded(local[m], nextVM)
    <2>1. vms[m] = {} /\ nextVM \in VMId /\ ~local[m].lbl
      BY <1>4 DEF CreateVM, StatusNotFound, NewVM
    <2>2. Prepare(m, clone)
      BY <1>4, <2>1, Zenon DEF CreateVM, Record
    <2>3. /\ clone \in Object /\ clone.exists = local[m].exists /\ clone.del = local[m].del
          /\ clone.fin /\ clone.step = "none" /\ clone.pid = nextVM
      BY <1>0, <2>1, RecordedObject, RecordedFields, ZenonT(60)
    <2> HIDE DEF clone
    <2> QED
      BY <1>0, <1>4, <2>1, <2>2, <2>3, CreationKeepsTrack, Zenon DEF CreateVM
  <1>5. CASE CreateVMFails(m)
    <2>1. PICK p \in CreateFailurePhases :
             Prepare(m, [local[m] EXCEPT !.phase = p, !.step = "none"])
      BY <1>5, Zenon DEF CreateVMFails
    <2> DEFINE clone == [local[m] EXCEPT !.phase = p, !.step = "none"]
    <2>2. /\ clone \in Object /\ clone.exists = local[m].exists
          /\ clone.del = local[m].del /\ clone.pid = local[m].pid
          /\ clone.fin /\ clone.step = "none" /\ WellFormed(clone) /\ ~Late(clone)
      BY <1>1, Zenon
    <2>3. Prepare(m, clone)
      BY <2>1
    <2> HIDE DEF clone
    <2>4. vms[m] = {}
      BY <1>5, Zenon DEF CreateVMFails, StatusNotFound
    <2>5. CASE NewVM(m)
      BY <1>0, <1>5, <2>2, <2>3, <2>4, <2>5, CreationKeepsTrack, Zenon DEF CreateVMFails
    <2>6. CASE UNCHANGED vms
      BY <1>0, <1>5, <2>2, <2>3, <2>6, HandlerKeepsPid, Zenon DEF CreateVMFails
    <2> QED
      BY <1>5, <2>5, <2>6, Zenon DEF CreateVMFails
  <1>6. CASE CreationStatusFails(m)
    <2>1. CASE Return(m)
      BY <1>6, <2>1, HandlerReturns DEF CreationStatusFails
    <2>2. ASSUME NEW p \in CreateFailurePhases,
                 Prepare(m, [local[m] EXCEPT !.phase = p, !.step = "none"])
          PROVE  TrackingInv'
      <3> DEFINE clone == [local[m] EXCEPT !.phase = p, !.step = "none"]
      <3>1. /\ clone \in Object /\ clone.exists = local[m].exists
            /\ clone.del = local[m].del /\ clone.pid = local[m].pid
            /\ clone.fin /\ clone.step = "none" /\ WellFormed(clone) /\ ~Late(clone)
        BY <1>1, <2>2, Zenon
      <3>2. Prepare(m, clone)
        BY <2>2
      <3> HIDE DEF clone
      <3> QED
        BY <1>0, <1>6, <3>1, <3>2, HandlerKeepsPid, Zenon DEF CreationStatusFails
    <2> QED
      BY <1>6, <2>1, <2>2, Zenon DEF CreationStatusFails
  <1> QED
    BY <1>2, <1>3, <1>4, <1>5, <1>6

-----------------------------------------------------------------------------
(***************************************************************************)
(* TrackingInv is preserved: the deletion flow.                            *)
(***************************************************************************)
LEMMA NextStepFields ==
  ASSUME TypeOK, TrackingInv, NEW m \in Machine, Deleting(m), NEW st \in Steps,
         NEW p \in Phases
  PROVE  /\ \A clone \in {[local[m] EXCEPT !.step = st],
                          [local[m] EXCEPT !.phase = p, !.step = st]} :
               /\ clone \in Object /\ clone.exists = local[m].exists
               /\ clone.del = local[m].del /\ clone.pid = local[m].pid
               /\ clone.fin /\ clone.step = st /\ WellFormed(clone)
         /\ local[m].exists
  <1>1. local[m] \in Object /\ pc[m] = "reconcile" /\ local[m].del /\ local[m].fin
    BY DEF Deleting, TypeOK
  <1>2. local[m].exists
    BY <1>1 DEF TrackingInv, CopiesInv
  <1> QED
    BY <1>1, <1>2, Zenon DEF Object, WellFormed

\* A deletion step that touches no VM.
LEMMA StepKeepsTrack ==
  ASSUME TypeOK, TrackingInv, NEW m \in Machine, Deleting(m), NEW st \in Steps,
         NextStep(m, st), UNCHANGED <<api, cache, vms, listed>>,
         \/ st \notin {"InitiateNodeDeletion", "InitiateFinalizerRemoval"}
         \/ vms[m] = {}
         \/ Late(local[m])
  PROVE  TrackingInv'
  <1> DEFINE clone == [local[m] EXCEPT !.step = st]
  <1>1. /\ clone \in Object /\ clone.exists = local[m].exists
        /\ clone.del = local[m].del /\ clone.pid = local[m].pid
        /\ clone.fin /\ clone.step = st /\ WellFormed(clone)
    BY NextStepFields, Zenon DEF Phases
  <1>2. Prepare(m, clone)
    BY DEF NextStep
  <1> HIDE DEF clone
  <1>3. pc[m] = "reconcile"
    BY DEF Deleting
  <1>4. CopiesInv(m) /\ VMsInv(m)
    BY DEF TrackingInv
  <1>5. "local" \in current[m] /\ Late(clone) => vms[m] = {}
    BY <1>1, <1>3, <1>4, Zenon DEF CopiesInv, VMsInv, Late
  <1> QED
    BY <1>1, <1>2, <1>3, <1>5, HandlerKeepsPid

\* deleteVM, successful or not.  A machine whose snapshot is marked for deletion creates no
\* VM any more, and the ProviderID of a current snapshot names its only VM.
LEMMA DeleteVMKeepsTrack ==
  ASSUME TypeOK, TrackingInv, NEW m \in Machine, DeleteVM(m) \/ DeleteVMFails(m)
  PROVE  TrackingInv'
  <1>0. Deleting(m) /\ pc[m] = "reconcile" /\ local[m].del
    BY DEF DeleteVM, DeleteVMFails, AtStep, Deleting
  <1>1. PICK st \in {"InitiateNodeDeletion", "InitiateVMDeletion"} :
           /\ NextStep(m, st)
           /\ st = "InitiateNodeDeletion" =>
                vms' = [vms EXCEPT ![m] = @ \ Victims(m, local[m].pid)]
    BY DEF DeleteVM, DeleteVMFails
  <1> DEFINE clone == [local[m] EXCEPT !.step = st]
  <1>2. /\ clone \in Object /\ clone.exists = local[m].exists
        /\ clone.del = local[m].del /\ clone.pid = local[m].pid
        /\ clone.fin /\ clone.step = st /\ WellFormed(clone)
    <2>1. st \in Steps /\ "Terminating" \in Phases
      BY <1>1, Names
    <2> QED
      BY <1>0, <2>1, NextStepFields, Zenon
  <1>3. Prepare(m, clone)
    BY <1>1 DEF NextStep
  <1> HIDE DEF clone
  <1>4. CopiesInv(m) /\ VMsInv(m)
    BY DEF TrackingInv
  <1>5. UNCHANGED <<api, cache, listed>>
    BY DEF DeleteVM, DeleteVMFails
  <1>6. CopiesInv(m)'
    BY <1>0, <1>2, <1>3, <1>4, <1>5, PrepareCopies, Zenon
  <1>7. \/ UNCHANGED vms
        \/ vms' = [vms EXCEPT ![m] = @ \ Victims(m, local[m].pid)]
    BY DEF DeleteVM, DeleteVMFails
  <1>8. /\ pc'[m] = "write" /\ local'[m] = clone /\ current' = current
        /\ vms'[m] \subseteq vms[m] /\ api' = api /\ cache' = cache
    BY <1>3, <1>5, <1>7 DEF Prepare, TypeOK
  <1>9. ~Live(api[m]) /\ ~Live(cache[m])
    BY <1>0, <1>4 DEF CopiesInv, Gone, Live, WellFormed
  <1>10. "local" \in current[m] => local[m] = api[m]
    BY <1>0, <1>4, Zenon DEF CopiesInv
  <1>11. "local" \in current[m] /\ st = "InitiateNodeDeletion" => vms'[m] = {}
    <2> SUFFICES ASSUME "local" \in current[m], st = "InitiateNodeDeletion"
                 PROVE  vms'[m] = {}
      OBVIOUS
    <2>1. vms'[m] = vms[m] \ Victims(m, local[m].pid)
      BY <1>1 DEF TypeOK
    <2>2. local[m].pid # NoVM => vms[m] \subseteq {local[m].pid}
      BY <1>4, <1>10 DEF VMsInv
    <2> QED
      BY <2>1, <2>2 DEF Victims
  <1>12. VMsInv(m)'
    BY <1>0, <1>1, <1>2, <1>4, <1>8, <1>9, <1>10, <1>11, Zenon DEF VMsInv, Late, Live
  <1>13. OnlyAt(m)
    BY <1>2, <1>3, <1>5, <1>7, HandlerOnlyAt, Zenon
  <1> QED
    BY <1>5, <1>6, <1>12, <1>13, OneMachine

LEMMA DeletionFlowKeepsTrack ==
  ASSUME TypeOK, TrackingInv, StatusImplemented, NEW m \in Machine,
         \/ SetMachineTerminationStatus(m) \/ GetVMStatus(m) \/ GetVMStatusFails(m)
         \/ SkipDrain(m) \/ DrainSucceeds(m) \/ DrainFails(m)
         \/ DeleteNodeObject(m) \/ DeleteNodeObjectFails(m) \/ DeleteMachineFinalizers(m)
  PROVE  TrackingInv'
  <1> USE Names
  <1>0. Deleting(m) /\ pc[m] = "reconcile" /\ local[m].del /\ local[m].fin
    BY DEF SetMachineTerminationStatus, GetVMStatus, GetVMStatusFails, SkipDrain,
           DrainSucceeds, DrainFails, DeleteNodeObject, DeleteNodeObjectFails,
           DeleteMachineFinalizers, AtStep, Deleting
  <1>1. CASE SetMachineTerminationStatus(m)
    <2> DEFINE clone == [local[m] EXCEPT !.phase = "Terminating", !.step = "GetVMStatus"]
    <2>1. /\ clone \in Object /\ clone.exists = local[m].exists
          /\ clone.del = local[m].del /\ clone.pid = local[m].pid
          /\ clone.fin /\ clone.step = "GetVMStatus" /\ WellFormed(clone)
      BY <1>0, NextStepFields, Zenon
    <2> HIDE DEF clone
    <2>2. ~Late(clone)
      BY <2>1 DEF Late
    <2> QED
      BY <1>0, <1>1, <2>1, <2>2, HandlerKeepsPid, Zenon DEF SetMachineTerminationStatus, clone
  <1>2. CASE GetVMStatus(m)
    BY <1>0, <1>2, StepKeepsTrack, Zenon DEF GetVMStatus
  <1>3. CASE GetVMStatusFails(m)
    BY <1>0, <1>3, StepKeepsTrack DEF GetVMStatusFails
  <1>4. CASE SkipDrain(m) \/ DrainSucceeds(m) \/ DrainFails(m)
    BY <1>0, <1>4, StepKeepsTrack, Zenon DEF SkipDrain, DrainSucceeds, DrainFails
  <1>5. CASE DeleteNodeObject(m) \/ DeleteNodeObjectFails(m)
    <2>1. Late(local[m])
      BY <1>5, Zenon DEF DeleteNodeObject, DeleteNodeObjectFails, AtStep, Late
    <2> QED
      BY <1>0, <1>5, <2>1, StepKeepsTrack, Zenon DEF DeleteNodeObject, DeleteNodeObjectFails
  <1>6. CASE DeleteMachineFinalizers(m)
    <2> DEFINE clone == [local[m] EXCEPT !.fin = FALSE]
    <2>1. local[m] \in Object /\ local[m].step = "InitiateFinalizerRemoval"
      BY <1>6 DEF DeleteMachineFinalizers, AtStep, TypeOK
    <2>2. /\ clone \in Object /\ clone.exists = local[m].exists
          /\ clone.del = local[m].del /\ clone.pid = local[m].pid
          /\ ~clone.fin /\ clone.step = "InitiateFinalizerRemoval"
      BY <2>1, Zenon DEF Object
    <2> HIDE DEF clone
    <2>3. WellFormed(clone)
      BY <1>0, <2>2 DEF WellFormed
    <2>4. "local" \in current[m] => vms[m] = {}
      BY <1>0, <2>1, Zenon DEF TrackingInv, CopiesInv, VMsInv, Late
    <2> QED
      BY <1>0, <1>6, <2>2, <2>3, <2>4, HandlerKeepsPid, Zenon DEF DeleteMachineFinalizers, clone
  <1> QED
    BY <1>1, <1>2, <1>3, <1>4, <1>5, <1>6

-----------------------------------------------------------------------------
(***************************************************************************)
(* TrackingInv is preserved: reads, writes and the rest of the world.      *)
(***************************************************************************)
LEMMA WriteKeepsTrack ==
  ASSUME TypeOK, TrackingInv, NEW m \in Machine, WriteAccepted(m)
  PROVE  TrackingInv'
  <1>0. CopiesInv(m) /\ VMsInv(m)
    BY DEF TrackingInv
  <1>1. /\ pc[m] = "write" /\ "local" \in current[m]
        /\ api'[m] = Stored(local[m]) /\ current'[m] = {} /\ pc'[m] = "idle"
        /\ cache' = cache /\ vms' = vms /\ listed' = listed
    BY DEF WriteAccepted, Touch, TypeOK
  <1>2. /\ local[m].exists /\ WellFormed(local[m])
        /\ local[m].del => Gone(cache[m])
        /\ api[m].exists /\ local[m].del = api[m].del
        /\ ~local[m].fin => local[m].step = "InitiateFinalizerRemoval"
        /\ Late(local[m]) => vms[m] = {}
        /\ local[m].pid # NoVM =>
              vms[m] \subseteq {local[m].pid} /\ (~local[m].del => vms[m] # {})
    BY <1>0, <1>1, Zenon DEF CopiesInv, VMsInv
  <1>3. WellFormed(cache[m]) /\ (local[m].del => ~Live(cache[m]))
    BY <1>0, <1>2, Zenon DEF CopiesInv, WellFormed, Live, Gone
  <1>4. ASSUME local[m].fin PROVE CopiesInv(m)' /\ VMsInv(m)'
    <2>1. api'[m] = local[m]
      BY <1>1, <1>4, Zenon DEF Stored
    <2>2. cache[m].del => Gone(local[m])
      BY <1>0, <1>2, Zenon DEF CopiesInv, Gone
    <2>3. CopiesInv(m)'
      BY <1>1, <1>2, <1>3, <2>1, <2>2, Zenon DEF CopiesInv
    <2>4. VMsInv(m)'
      BY <1>1, <1>2, <1>3, <1>4, <2>1, ZenonT(60) DEF VMsInv, Creatable, Live, WellFormed
    <2> QED
      BY <2>3, <2>4
  <1>5. ASSUME ~local[m].fin PROVE CopiesInv(m)' /\ VMsInv(m)'
    <2>1. local[m].del /\ vms[m] = {}
      BY <1>2, <1>5, Zenon DEF WellFormed, Late
    <2>2. api'[m] = Absent
      BY <1>1, <1>5, <2>1 DEF Stored
    <2>3. CopiesInv(m)'
      BY <1>1, <1>3, <2>2, AbsentFields, Zenon DEF CopiesInv, WellFormed, Gone
    <2>4. VMsInv(m)'
      BY <1>1, <1>3, <2>1, <2>2, AbsentFields, Zenon DEF VMsInv, Live, Late
    <2> QED
      BY <2>3, <2>4
  <1>6. OnlyAt(m)
    BY DEF OnlyAt, WriteAccepted, Touch, TypeOK
  <1> QED
    BY <1>1, <1>4, <1>5, <1>6, OneMachine

LEMMA ReadKeepsTrack ==
  ASSUME TypeOK, TrackingInv, NEW m \in Machine, InformerSync(m) \/ Begin(m)
  PROVE  TrackingInv'
  <1>0. CopiesInv(m) /\ VMsInv(m)
    BY DEF TrackingInv
  <1>1. CASE InformerSync(m)
    <2>1. /\ cache'[m] = api[m] /\ current'[m] = current[m] \cup {"cache"}
          /\ api' = api /\ local' = local /\ pc' = pc /\ vms' = vms /\ listed' = listed
      BY <1>1 DEF InformerSync, TypeOK
    <2>2. CopiesInv(m)'
      <3>1. "local" \in current'[m] <=> "local" \in current[m]
        BY <2>1
      <3>2. WellFormed(cache[m])' /\ (cache[m].del => Gone(api[m]))'
        BY <1>0, <2>1 DEF CopiesInv, Gone
      <3>3. pc'[m] # "idle" =>
              /\ local'[m].exists /\ WellFormed(local'[m])
              /\ local'[m].del => Gone(cache'[m]) /\ Gone(api'[m])
        BY <1>0, <2>1, Zenon DEF CopiesInv
      <3> QED
        BY <1>0, <2>1, <3>1, <3>2, <3>3, Zenon DEF CopiesInv
    <2>3. VMsInv(m)'
      BY <1>0, <2>1, Zenon DEF VMsInv, Creatable
    <2>4. OnlyAt(m)
      BY <1>1 DEF InformerSync, OnlyAt, TypeOK
    <2> QED
      BY <2>1, <2>2, <2>3, <2>4, OneMachine, Zenon
  <1>2. CASE Begin(m)
    <2>1. /\ cache[m].exists /\ local'[m] = cache[m] /\ pc'[m] = "reconcile"
          /\ current'[m] = IF "cache" \in current[m] THEN {"cache", "local"} ELSE {}
          /\ api' = api /\ cache' = cache /\ vms' = vms /\ listed' = listed
      BY <1>2 DEF Begin, TypeOK
    <2>2. CopiesInv(m)'
      <3>1. /\ "local" \in current'[m] => "cache" \in current[m]
            /\ "cache" \in current'[m] => "cache" \in current[m]
        BY <2>1, Zenon
      <3>2. /\ local'[m].exists /\ WellFormed(local'[m])
            /\ local'[m].del => Gone(cache'[m]) /\ Gone(api'[m])
        BY <1>0, <2>1 DEF CopiesInv, Gone
      <3> QED
        BY <1>0, <2>1, <3>1, <3>2, Zenon DEF CopiesInv
    <2>3. VMsInv(m)'
      BY <1>0, <2>1, Zenon DEF VMsInv, Creatable
    <2>4. OnlyAt(m)
      BY <1>2 DEF Begin, OnlyAt, TypeOK
    <2> QED
      BY <2>1, <2>2, <2>3, <2>4, OneMachine
  <1> QED
    BY <1>1, <1>2

LEMMA WorldKeepsTrack ==
  ASSUME TypeOK, TrackingInv, NEW m \in Machine, World(m)
  PROVE  TrackingInv'
  <1>0. api[m] \in Object
    BY DEF TypeOK
  <1>1. ASSUME NEW b \in BOOLEAN, NEW p \in Phases,
               NEW o \in {[api[m] EXCEPT !.del = TRUE, !.force = b],
                          [api[m] EXCEPT !.del = TRUE],
                          [api[m] EXCEPT !.phase = p, !.step = "none"]}
        PROVE  /\ o \in Object /\ o.exists = api[m].exists
               /\ o.fin = api[m].fin /\ o.pid = api[m].pid
               /\ api[m].del => o.del
               /\ o.step \in {api[m].step, "none"}
    BY <1>0, <1>1, Names, ZenonT(60) DEF Object
  <1>2. CASE UserDeletes(m)
    BY <1>1, <1>2, Touched, Names, Zenon DEF UserDeletes
  <1>3. CASE PrepareMachineForDeletion(m)
    <2>1. CASE UNCHANGED <<api, current>>
      BY <1>3, <2>1 DEF PrepareMachineForDeletion, TrackingInv, CopiesInv, VMsInv, Creatable
    <2>2. CASE Touch(m, [api[m] EXCEPT !.del = TRUE])
      BY <1>1, <1>3, <2>2, Touched, Names, Zenon DEF PrepareMachineForDeletion
    <2> QED
      BY <1>3, <2>1, <2>2 DEF PrepareMachineForDeletion
  <1>4. CASE ForceTerminatingStatus(m)
    <2>1. CASE UNCHANGED <<api, current>>
      BY <1>4, <2>1 DEF ForceTerminatingStatus, TrackingInv, CopiesInv, VMsInv, Creatable
    <2>2. CASE api[m].exists /\ Touch(m, [api[m] EXCEPT !.phase = "Terminating", !.step = "none"])
      BY <1>1, <1>4, <2>2, Touched, Names, Zenon DEF ForceTerminatingStatus
    <2> QED
      BY <1>4, <2>1, <2>2 DEF ForceTerminatingStatus
  <1>5. CASE ResetHealth(m)
    <2>1. CASE UNCHANGED <<api, current>>
      BY <1>5, <2>1 DEF ResetHealth, TrackingInv, CopiesInv, VMsInv, Creatable
    <2>2. CASE api[m].exists /\ Touch(m, [api[m] EXCEPT !.phase = "Running", !.step = "none"])
      <3>1. "Running" \in Phases
        BY DEF Phases
      <3> QED
        BY <1>1, <1>5, <2>2, <3>1, Touched, Zenon DEF ResetHealth
    <2> QED
      BY <1>5, <2>1, <2>2 DEF ResetHealth
  <1>6. CASE \/ DrainTimeoutElapses(m) \/ NodeJoins(m) \/ NodeConditionFlips(m)
             \/ NodeGoesMissing(m) \/ MCMInformerSync(m)
    <2>1. UNCHANGED <<api, cache, local, current, pc, vms, listed>>
      BY <1>6, Zenon DEF DrainTimeoutElapses, NodeJoins, NodeConditionFlips, NodeGoesMissing,
                  MCMInformerSync
    <2> QED
      BY <2>1, ZenonT(60) DEF TrackingInv, CopiesInv, VMsInv, Creatable
  <1> QED
    BY <1>2, <1>3, <1>4, <1>5, <1>6 DEF World

LEMMA InitTracking == Init => TrackingInv
  <1> SUFFICES ASSUME Init PROVE TrackingInv
    OBVIOUS
  <1>1. ASSUME NEW m \in Machine PROVE CopiesInv(m) /\ VMsInv(m)
    <2>1. /\ api[m] = NewMachine /\ cache[m] = Absent /\ pc[m] = "idle"
          /\ current[m] = {} /\ vms[m] = {}
      BY DEF Init
    <2>2. /\ NewMachine.exists /\ ~NewMachine.del /\ ~NewMachine.fin
          /\ NewMachine.step = "none" /\ NewMachine.pid = NoVM
      BY DEF NewMachine, Absent
    <2>3. CopiesInv(m)
      BY <2>1, <2>2, AbsentFields, Zenon DEF CopiesInv, WellFormed
    <2>4. VMsInv(m)
      BY <2>1, <2>2, AbsentFields DEF VMsInv, Live, Late
    <2> QED
      BY <2>3, <2>4
  <1> QED
    BY <1>1 DEF TrackingInv, Init

LEMMA NextTracking ==
  ASSUME StatusImplemented, ~ListImplemented
  PROVE  TypeOK /\ TrackingInv /\ [Next]_vars => TrackingInv'
  <1> SUFFICES ASSUME TypeOK, TrackingInv, [Next]_vars PROVE TrackingInv'
    OBVIOUS
  <1>1. CASE UNCHANGED vars
    <2>1. UNCHANGED <<api, cache, local, current, pc, vms, listed>>
      BY <1>1, Zenon DEF vars
    <2> QED
      BY <2>1, ZenonT(60) DEF TrackingInv, CopiesInv, VMsInv, Creatable
  <1>2. ASSUME NEW m \in Machine, Reconcile(m) PROVE TrackingInv'
    <2>1. CASE ReconcileRefused(m)
      BY <2>1, HandlerReturns DEF ReconcileRefused
    <2> QED
      BY <1>2, <2>1, FinalizersAdded, HealthKeepsTrack, CreationFlowKeepsTrack,
         DeletionFlowKeepsTrack, DeleteVMKeepsTrack DEF Reconcile
  <1>3. ASSUME NEW m \in Machine, WriteRefused(m) PROVE TrackingInv'
    BY <1>3, HandlerReturns DEF WriteRefused
  <1>4. CASE Restart
    <2>1. ASSUME NEW m \in Machine PROVE CopiesInv(m)' /\ VMsInv(m)'
      <3>1. /\ cache'[m] = api[m] /\ pc'[m] = "idle" /\ current'[m] = {"cache"}
            /\ api' = api /\ vms' = vms
        BY <1>4 DEF Restart
      <3>2. CopiesInv(m) /\ VMsInv(m)
        BY DEF TrackingInv
      <3>3. CopiesInv(m)'
        BY <3>1, <3>2, Zenon DEF CopiesInv, Gone
      <3>4. VMsInv(m)'
        BY <3>1, <3>2, Zenon DEF VMsInv, Creatable
      <3> QED
        BY <3>3, <3>4
    <2> QED
      BY <1>4, <2>1 DEF TrackingInv, Restart
  <1>5. CASE UnfreezeLists
    BY <1>5, ZenonT(60) DEF UnfreezeLists, TrackingInv, CopiesInv, VMsInv, Creatable
  <1>6. ~ListMachines
    BY DEF ListMachines
  <1>7. ASSUME NEW m \in Machine, NEW id \in VMId
        PROVE  ~JudgeVM(m, id) /\ ~CollectOrphan(m, id)
    BY DEF JudgeVM, CollectOrphan, TrackingInv
  <1> QED
    BY <1>1, <1>2, <1>3, <1>4, <1>5, <1>6, <1>7, ReadKeepsTrack, WriteKeepsTrack,
       WorldKeepsTrack DEF Next

\* The inductive invariant behind NoVMLeak: with a driver that implements GetMachineStatus
\* and without the collector, object, copies and VMs always fit together as TrackingInv says.
THEOREM Tracking ==
  ASSUME StatusImplemented, ~ListImplemented
  PROVE  Spec => []TrackingInv
  <1>1. TypeOK /\ TrackingInv /\ [Next]_vars => TrackingInv'
    BY NextTracking
  <1> QED
    BY <1>1, InitTracking, TypeCorrect, PTL DEF Spec

\* triggerDeletionFlow never removes the finalizer of a machine that still has a VM, and
\* triggerCreationFlow never creates a VM for a machine that has lost it: NoVMLeak for any
\* number of machines and VMs, any interleaving with conflicts, restarts and MCM's writes.
THEOREM NoLeak ==
  ASSUME StatusImplemented, ~ListImplemented
  PROVE  Spec => []NoVMLeak
  <1>1. TrackingInv => NoVMLeak
    BY Zenon DEF TrackingInv, CopiesInv, VMsInv, WellFormed, NoVMLeak
  <1> QED
    BY <1>1, Tracking, PTL

-----------------------------------------------------------------------------
(***************************************************************************)
(* What a step may never do, for any set of machines, any driver, and with *)
(* the orphan collector running: take the VM a machine runs on, or take a  *)
(* node with workload without a reason.  And, under the assumptions of     *)
(* NoLeak, drop an object before its node.                                 *)
(***************************************************************************)
\* The node label, the ProviderID and, later, Status.Node come in this order.
Paired(o) ==
    /\ o.lbl <=> o.pid # NoVM
    /\ o.node => o.lbl
    /\ o.lbl => o.exists

\* The reasons to delete a VM whatever runs on its node; for a machine marked for deletion
\* they cannot be taken back.
Excused(m) ==
    \/ pods[m] # "running"
    \/ api[m].force \/ overdue[m] \/ ~api[m].lbl \/ api[m].cond \in Undrainable

\* Some reconcile may still delete the VM: a copy it reads, or will write, says so.
VMDeletionDue(m) ==
    \/ api[m].step = "InitiateVMDeletion" \/ cache[m].step = "InitiateVMDeletion"
    \/ /\ pc[m] \in {"reconcile", "create"} \/ (pc[m] = "write" /\ "local" \in current[m])
       /\ local[m].step = "InitiateVMDeletion"

\* The copies of an object, what they agree on, and what the deletion step they name says.
StepInv(m) ==
    /\ CopiesInv(m)
    /\ "local" \in current[m] => "cache" \in current[m]
    /\ Paired(api[m]) /\ Paired(cache[m]) /\ (pc[m] # "idle" => Paired(local[m]))
    /\ api[m].lbl => api[m].fin
    /\ api[m].node => cache[m].pid = api[m].pid
    /\ pc[m] = "write" /\ "local" \in current[m] =>
          /\ local[m].force = api[m].force
          /\ local[m].node => local[m].pid = api[m].pid
          /\ local[m].del => local[m].lbl = api[m].lbl /\ local[m].cond = api[m].cond
    /\ VMDeletionDue(m) => Excused(m)

AllSteps == \A m \in Machine : StepInv(m)

\* When the finalizer goes, the node object is gone.
NodeDown(m) ==
    /\ api[m].step = "InitiateFinalizerRemoval" /\ api[m].lbl => node[m] = "absent"
    /\ pc[m] = "write" /\ "local" \in current[m] =>
          (local[m].step = "InitiateFinalizerRemoval" /\ local[m].lbl => node[m] = "absent")

AllDown == \A m \in Machine : NodeDown(m)
-----------------------------------------------------------------------------
(***************************************************************************)
(* The inductive invariant, one machine and one kind of step at a time.    *)
(***************************************************************************)
LEMMA AbsentStep ==
  /\ Paired(Absent) /\ Paired(NewMachine) /\ ~Absent.lbl /\ ~Absent.node
  /\ WellFormed(Absent) /\ WellFormed(NewMachine)
  /\ ~NewMachine.lbl /\ ~NewMachine.node /\ NewMachine.step = "none" /\ ~NewMachine.del
  BY DEF Paired, WellFormed, Absent, NewMachine

\* A step that does not concern machine n.
LEMMA StepFrame ==
  ASSUME NEW n \in Machine, StepInv(n),
         api'[n] = api[n], cache'[n] = cache[n], local'[n] = local[n],
         current'[n] = current[n], pc'[n] = pc[n],
         pods'[n] = pods[n], overdue'[n] = overdue[n]
  PROVE  StepInv(n)'
  <1>1. CopiesInv(n)'
    BY ZenonT(60) DEF StepInv, CopiesInv
  <1>2. (VMDeletionDue(n)' <=> VMDeletionDue(n)) /\ (Excused(n)' <=> Excused(n))
    BY Zenon DEF VMDeletionDue, Excused
  <1> QED
    BY <1>1, <1>2, ZenonT(60) DEF StepInv

\* What the clone c of every handler keeps of its snapshot s.
Kept(s, c) ==
    /\ c.exists = s.exists /\ c.del = s.del /\ c.force = s.force
    /\ WellFormed(c) /\ Paired(c)
    /\ c.fin \/ c.step = "InitiateFinalizerRemoval"
    /\ c.node => c.pid = s.pid
    /\ s.del => c.lbl = s.lbl /\ c.cond = s.cond

\* What a handler does: it returns, goes on to the creation flow, or prepares a clone, which
\* names the deletion of the VM as the next step only for a reason.
Handler(m) ==
    /\ pc[m] \in {"reconcile", "create"}
    /\ UNCHANGED <<api, cache, overdue>>
    /\ UNCHANGED pods \/ pods' = [pods EXCEPT ![m] = "none"]
    /\ \/ Return(m)
       \/ pc' = [pc EXCEPT ![m] = "create"] /\ UNCHANGED <<local, current>> /\ Live(local[m])
       \/ \E clone \in Object :
             /\ Prepare(m, clone)
             /\ Kept(local[m], clone)
             /\ clone.step = "InitiateVMDeletion" =>
                   \/ pods'[m] = "none" \/ local[m].step = "InitiateVMDeletion"
                   \/ local[m].force \/ overdue[m]
                   \/ ~local[m].lbl \/ local[m].cond \in Undrainable

LEMMA HandlerStep ==
  ASSUME TypeOK, NEW m \in Machine, StepInv(m), Handler(m)
  PROVE  StepInv(m)'
  <1>1. /\ pc[m] \in {"reconcile", "create"} /\ api' = api /\ cache' = cache
        /\ overdue' = overdue /\ pods'[m] \in {pods[m], "none"}
    BY Zenon DEF Handler, TypeOK
  <1>2. Excused(m) => Excused(m)'
    BY <1>1, ZenonT(60) DEF Excused
  <1>3. CASE Return(m)
    <2>1. pc'[m] = "idle" /\ current'[m] = current[m] \ {"local"}
      BY <1>3 DEF Return, TypeOK
    <2>2. CopiesInv(m)'
      BY <1>1, <2>1, Zenon DEF StepInv, CopiesInv
    <2>3. VMDeletionDue(m)' => VMDeletionDue(m)
      BY <1>1, <2>1, Zenon DEF VMDeletionDue
    <2> QED
      BY <1>1, <1>2, <2>1, <2>2, <2>3, Zenon DEF StepInv
  <1>4. CASE pc' = [pc EXCEPT ![m] = "create"] /\ UNCHANGED <<local, current>> /\ Live(local[m])
    <2>1. pc'[m] = "create" /\ local' = local /\ current' = current /\ Live(local[m])
      BY <1>4 DEF TypeOK
    <2>2. CopiesInv(m)'
      BY <1>1, <2>1, Zenon DEF StepInv, CopiesInv, Live
    <2>3. VMDeletionDue(m)' => VMDeletionDue(m)
      BY <1>1, <2>1, Zenon DEF VMDeletionDue
    <2> QED
      BY <1>1, <1>2, <2>1, <2>2, <2>3, Zenon DEF StepInv
  <1>5. ASSUME NEW clone \in Object, Prepare(m, clone), Kept(local[m], clone),
               clone.step = "InitiateVMDeletion" =>
                   \/ pods'[m] = "none" \/ local[m].step = "InitiateVMDeletion"
                   \/ local[m].force \/ overdue[m]
                   \/ ~local[m].lbl \/ local[m].cond \in Undrainable
        PROVE  StepInv(m)'
    <2>1. pc'[m] = "write" /\ local'[m] = clone /\ current' = current
      BY <1>5 DEF Prepare, TypeOK
    <2>2. CopiesInv(m) /\ ("local" \in current[m] => local[m] = api[m])
      BY <1>1, Zenon DEF StepInv, CopiesInv
    <2>3. CopiesInv(m)'
      BY <1>1, <1>5, <2>2, PrepareCopies, Zenon DEF Kept
    <2>4. VMDeletionDue(m)' => Excused(m)'
      <3> SUFFICES ASSUME VMDeletionDue(m)' PROVE Excused(m)'
        OBVIOUS
      <3>1. CASE VMDeletionDue(m)
        BY <1>2, <3>1 DEF StepInv
      <3>2. CASE ~VMDeletionDue(m)
        <4>1. "local" \in current[m] /\ clone.step = "InitiateVMDeletion"
          BY <1>1, <2>1, <3>2 DEF VMDeletionDue
        <4>2. local[m] = api[m] /\ local[m].step # "InitiateVMDeletion"
          BY <1>1, <2>2, <3>2, <4>1, Zenon DEF VMDeletionDue
        <4> QED
          BY <1>1, <1>5, <4>1, <4>2, Zenon DEF Excused
      <3> QED
        BY <3>1, <3>2
    <2>5. Paired(local[m])'
      BY <1>5, <2>1, ZenonT(60) DEF Kept, Paired
    <2>6. "local" \in current[m] =>
             /\ clone.force = api[m].force
             /\ clone.node => clone.pid = api[m].pid
             /\ clone.del => clone.lbl = api[m].lbl /\ clone.cond = api[m].cond
      BY <1>5, <2>2, Zenon DEF Kept
    <2> QED
      BY <1>1, <2>1, <2>3, <2>4, <2>5, <2>6, Zenon DEF StepInv, Paired
  <1> QED
    BY <1>3, <1>4, <1>5, Zenon DEF Handler

\* A write of somebody else.
LEMMA TouchStep ==
  ASSUME TypeOK, NEW m \in Machine, StepInv(m), NEW o \in Object, Touch(m, o),
         UNCHANGED <<cache, local, pc, pods, overdue>>, api[m].exists,
         o.exists, o.fin = api[m].fin, o.pid = api[m].pid, o.lbl = api[m].lbl,
         o.node = api[m].node, o.cond = api[m].cond,
         api[m].del => o.del /\ o.force = api[m].force,
         o.step \in {api[m].step, "none"}
  PROVE  StepInv(m)'
  <1>1. /\ api'[m] = Stored(o) /\ current'[m] = {}
        /\ cache' = cache /\ local' = local /\ pc' = pc /\ pods' = pods /\ overdue' = overdue
    BY DEF Touch, TypeOK
  <1>2. VMDeletionDue(m)' => VMDeletionDue(m)
    BY <1>1, AbsentFields DEF VMDeletionDue, Stored
  <1>3. VMDeletionDue(m) => Gone(api[m])
    BY Zenon DEF StepInv, CopiesInv, WellFormed, VMDeletionDue, Gone
  <1>4. CASE o.del /\ ~o.fin
    <2>1. api'[m] = Absent
      BY <1>1, <1>4, Zenon DEF Stored
    <2>2. CopiesInv(m)'
      <3>1. WellFormed(api[m])' /\ WellFormed(cache[m])' /\ Gone(api[m])'
        BY <1>1, <2>1, AbsentFields, Zenon DEF StepInv, CopiesInv, WellFormed, Gone
      <3> QED
        BY <1>1, <3>1, Zenon DEF StepInv, CopiesInv, Gone, WellFormed, Live
    <2>3. Excused(m)'
      BY <2>1, AbsentStep, Zenon DEF Excused
    <2> QED
      BY <1>1, <2>1, <2>2, <2>3, AbsentStep, Zenon DEF StepInv, Paired
  <1>5. CASE ~(o.del /\ ~o.fin)
    <2>1. api'[m] = o
      BY <1>1, <1>5, Zenon DEF Stored
    <2>2. CopiesInv(m)'
      BY <1>1, <2>1, Zenon DEF StepInv, CopiesInv, WellFormed, Gone
    <2>3. VMDeletionDue(m)' => Excused(m)'
      <3>1. VMDeletionDue(m) => api[m].del /\ Excused(m)
        BY <1>3, Zenon DEF StepInv, Gone
      <3> QED
        BY <1>1, <1>2, <2>1, <3>1, ZenonT(60) DEF Excused
    <2>4. Paired(o)
      BY Zenon DEF StepInv, Paired
    <2> QED
      BY <1>1, <2>1, <2>2, <2>3, <2>4, Zenon DEF StepInv, Paired
  <1> QED
    BY <1>4, <1>5

\* The write of the reconcile itself.
LEMMA WriteStep ==
  ASSUME TypeOK, NEW m \in Machine, StepInv(m), WriteAccepted(m)
  PROVE  StepInv(m)'
  <1>1. /\ pc[m] = "write" /\ "local" \in current[m]
        /\ api'[m] = Stored(local[m]) /\ current'[m] = {} /\ pc'[m] = "idle"
        /\ cache' = cache /\ pods' = pods /\ overdue' = overdue
    BY DEF WriteAccepted, Touch, TypeOK
  <1>2. /\ local[m].exists /\ WellFormed(local[m]) /\ Paired(local[m])
        /\ local[m].del => Gone(cache[m])
        /\ api[m].exists /\ local[m].del = api[m].del /\ local[m].force = api[m].force
        /\ ~local[m].fin => local[m].step = "InitiateFinalizerRemoval"
        /\ local[m].node => local[m].pid = api[m].pid
        /\ local[m].del => local[m].lbl = api[m].lbl /\ local[m].cond = api[m].cond
        /\ cache[m] = api[m]
    BY <1>1, Zenon DEF StepInv, CopiesInv
  <1>3. WellFormed(cache[m]) /\ Paired(cache[m])
    BY Zenon DEF StepInv, CopiesInv
  <1>4. CASE local[m].fin
    <2>1. api'[m] = local[m]
      BY <1>1, <1>4, Zenon DEF Stored
    <2>2. CopiesInv(m)'
      BY <1>1, <1>2, <1>3, <2>1, ZenonT(60) DEF CopiesInv, Gone
    <2>3. VMDeletionDue(m)' => Excused(m)'
      <3> SUFFICES ASSUME VMDeletionDue(m)' PROVE Excused(m)'
        OBVIOUS
      <3>1. VMDeletionDue(m) /\ local[m].del
        BY <1>1, <1>2, <1>3, <2>1, Zenon DEF VMDeletionDue, WellFormed
      <3>2. Excused(m)
        BY <3>1, Zenon DEF StepInv
      <3> QED
        BY <1>1, <1>2, <2>1, <3>1, <3>2, Zenon DEF Excused
    <2> QED
      BY <1>1, <1>2, <1>3, <1>4, <2>1, <2>2, <2>3, Zenon DEF StepInv, Paired
  <1>5. CASE ~local[m].fin
    <2>1. local[m].del
      BY <1>2, <1>5, Zenon DEF WellFormed
    <2>2. api'[m] = Absent
      BY <1>1, <1>5, <2>1 DEF Stored
    <2>3. CopiesInv(m)'
      BY <1>1, <1>3, <2>2, AbsentFields, Zenon DEF CopiesInv, WellFormed, Gone
    <2>4. Excused(m)'
      BY <2>2, AbsentStep, Zenon DEF Excused
    <2> QED
      BY <1>1, <1>3, <2>2, <2>3, <2>4, AbsentStep, Zenon DEF StepInv, Paired
  <1> QED
    BY <1>4, <1>5

LEMMA SyncStep ==
  ASSUME TypeOK, NEW m \in Machine, StepInv(m), InformerSync(m)
  PROVE  StepInv(m)'
  <1>1. /\ cache'[m] = api[m] /\ current'[m] = current[m] \cup {"cache"}
        /\ api' = api /\ local' = local /\ pc' = pc /\ pods' = pods /\ overdue' = overdue
    BY DEF InformerSync, TypeOK
  <1>2. CopiesInv(m)'
    BY <1>1, Zenon DEF StepInv, CopiesInv, Gone
  <1>3. VMDeletionDue(m)' => VMDeletionDue(m)
    BY <1>1, Zenon DEF VMDeletionDue
  <1>4. Excused(m)' <=> Excused(m)
    BY <1>1 DEF Excused
  <1> QED
    BY <1>1, <1>2, <1>3, <1>4, Zenon DEF StepInv, Paired

LEMMA BeginStep ==
  ASSUME TypeOK, NEW m \in Machine, StepInv(m), Begin(m)
  PROVE  StepInv(m)'
  <1>1. /\ pc[m] = "idle" /\ pc'[m] = "reconcile" /\ local'[m] = cache[m] /\ cache[m].exists
        /\ current'[m] = IF "cache" \in current[m] THEN {"cache", "local"} ELSE {}
        /\ api' = api /\ cache' = cache /\ pods' = pods /\ overdue' = overdue
    BY DEF Begin, TypeOK
  <1>2. CopiesInv(m)'
    BY <1>1, Zenon DEF StepInv, CopiesInv, Gone
  <1>3. VMDeletionDue(m)' => VMDeletionDue(m)
    BY <1>1, Zenon DEF VMDeletionDue
  <1>4. Excused(m)' <=> Excused(m)
    BY <1>1 DEF Excused
  <1> QED
    BY <1>1, <1>2, <1>3, <1>4, Zenon DEF StepInv, Paired

LEMMA RestartStep ==
  ASSUME TypeOK, NEW m \in Machine, StepInv(m), Restart
  PROVE  StepInv(m)'
  <1>1. /\ cache'[m] = api[m] /\ local'[m] = Absent /\ current'[m] = {"cache"}
        /\ pc'[m] = "idle" /\ api' = api /\ pods' = pods /\ overdue' = overdue
    BY DEF Restart, TypeOK
  <1>2. CopiesInv(m)'
    BY <1>1, Zenon DEF StepInv, CopiesInv, Gone
  <1>3. VMDeletionDue(m)' => VMDeletionDue(m)
    BY <1>1 DEF VMDeletionDue
  <1>4. Excused(m)' <=> Excused(m)
    BY <1>1 DEF Excused
  <1> QED
    BY <1>1, <1>2, <1>3, <1>4, Zenon DEF StepInv, Paired

\* Time passes and the target cluster moves.
LEMMA ClusterStep ==
  ASSUME TypeOK, NEW m \in Machine, StepInv(m),
         \/ DrainTimeoutElapses(m) \/ NodeJoins(m)
         \/ NodeConditionFlips(m) \/ NodeGoesMissing(m)
  PROVE  StepInv(m)'
  <1>1. UNCHANGED <<api, cache, local, current, pc>>
    BY Zenon DEF DrainTimeoutElapses, NodeJoins, NodeConditionFlips, NodeGoesMissing
  <1>2. VMDeletionDue(m)' <=> VMDeletionDue(m)
    BY <1>1, Zenon DEF VMDeletionDue
  <1>3. VMDeletionDue(m) => Gone(api[m])
    BY Zenon DEF StepInv, CopiesInv, WellFormed, VMDeletionDue, Gone
  <1>4. Gone(api[m]) /\ Excused(m) => Excused(m)'
    <2>1. CASE DrainTimeoutElapses(m)
      BY <2>1 DEF DrainTimeoutElapses, Excused, TypeOK
    <2>2. CASE NodeJoins(m)
      BY <2>2 DEF NodeJoins, Excused, Gone, TypeOK
    <2>3. CASE NodeConditionFlips(m)
      BY <2>3, Zenon DEF NodeConditionFlips, Excused
    <2>4. CASE NodeGoesMissing(m)
      BY <2>4 DEF NodeGoesMissing, Excused, TypeOK
    <2> QED
      BY <2>1, <2>2, <2>3, <2>4, Zenon
  <1>5. CopiesInv(m)'
    BY <1>1, Zenon DEF StepInv, CopiesInv
  <1> QED
    BY <1>1, <1>2, <1>3, <1>4, <1>5, Zenon DEF StepInv

LEMMA RefusedStep ==
  ASSUME TypeOK, NEW m \in Machine, StepInv(m), WriteRefused(m)
  PROVE  StepInv(m)'
  <1>1. /\ pc'[m] = "idle" /\ current'[m] = current[m] \ {"local"}
        /\ api' = api /\ cache' = cache /\ pods' = pods /\ overdue' = overdue
    BY DEF WriteRefused, Return, TypeOK
  <1>2. CopiesInv(m)'
    BY <1>1, Zenon DEF StepInv, CopiesInv
  <1>3. VMDeletionDue(m)' => VMDeletionDue(m)
    BY <1>1, Zenon DEF VMDeletionDue
  <1>4. Excused(m)' <=> Excused(m)
    BY <1>1, Zenon DEF Excused
  <1> QED
    BY <1>1, <1>2, <1>3, <1>4, Zenon DEF StepInv
-----------------------------------------------------------------------------
(***************************************************************************)
(* Every handler of a reconcile is a Handler.                              *)
(***************************************************************************)
LEMMA KeptStatus ==
  ASSUME NEW s \in Object, WellFormed(s), Paired(s), s.exists, s.fin,
         NEW c \in Object, c.step = "none" \/ s.del,
         c.exists = s.exists, c.del = s.del, c.force = s.force,
         c.fin = s.fin, c.pid = s.pid, c.lbl = s.lbl, c.node = s.node,
         c.cond = s.cond
  PROVE  Kept(s, c)
  BY DEF Kept, WellFormed, Paired

LEMMA KeptNextStep ==
  ASSUME NEW s \in Object, WellFormed(s), Paired(s), s.exists, s.fin,
         NEW st \in Steps, st = "none" \/ s.del, NEW c, c = [s EXCEPT !.step = st]
  PROVE  Kept(s, c) /\ c \in Object /\ c.step = st
  <1>1. /\ c.exists = s.exists /\ c.del = s.del /\ c.force = s.force
        /\ c.fin = s.fin /\ c.pid = s.pid /\ c.lbl = s.lbl /\ c.node = s.node
        /\ c.cond = s.cond /\ c.step = st /\ c \in Object
    BY Zenon DEF Object
  <1> QED
    BY <1>1, Zenon DEF Kept, WellFormed, Paired

LEMMA KeptFinalizer ==
  ASSUME NEW s \in Object, WellFormed(s), Paired(s), s.exists, NEW b \in BOOLEAN,
         b \/ s.step = "InitiateFinalizerRemoval"
  PROVE  /\ Kept(s, [s EXCEPT !.fin = b]) /\ [s EXCEPT !.fin = b] \in Object
         /\ [s EXCEPT !.fin = b].step = s.step
  <1> DEFINE c == [s EXCEPT !.fin = b]
  <1>1. /\ c \in Object /\ c.exists = s.exists /\ c.del = s.del /\ c.force = s.force
        /\ c.fin = b /\ c.pid = s.pid /\ c.lbl = s.lbl /\ c.node = s.node
        /\ c.cond = s.cond /\ c.step = s.step
    BY Zenon DEF Object
  <1> HIDE DEF c
  <1>2. Kept(s, c)
    BY <1>1 DEF Kept, WellFormed, Paired
  <1> QED
    BY <1>1, <1>2 DEF c

LEMMA KeptObserved ==
  ASSUME NEW s \in Object, WellFormed(s), Paired(s), s.exists, s.fin, ~s.del,
         NEW n \in NodeStates
  PROVE  /\ Kept(s, ObservedHealth(s, n)) /\ ObservedHealth(s, n) \in Object
         /\ ObservedHealth(s, n).step = "none"
  <1> DEFINE c == ObservedHealth(s, n)
  <1>1. s.step = "none"
    BY DEF WellFormed
  <1>2. /\ c.exists = s.exists /\ c.del = s.del /\ c.fin = s.fin /\ c.pid = s.pid
        /\ c.step = "none" /\ c \in Object
    BY <1>1, ObservedFields, ObservedObject, Zenon
  <1>3. c.force = s.force /\ c.lbl = s.lbl /\ c.node = s.node
    BY DEF ObservedHealth, NodeStates, Object
  <1> HIDE DEF c
  <1>4. Kept(s, c)
    BY <1>2, <1>3 DEF Kept, WellFormed, Paired
  <1> QED
    BY <1>2, <1>4 DEF c

LEMMA KeptRecorded ==
  ASSUME NEW s \in Object, WellFormed(s), Paired(s), s.exists, s.fin, ~s.del,
         NEW id \in VMId \cup {NoVM}, id = NoVM => s.lbl
  PROVE  /\ Kept(s, Recorded(s, id)) /\ Recorded(s, id) \in Object
         /\ Recorded(s, id).step = "none"
  <1> DEFINE c == Recorded(s, id)
  <1>1. s.step = "none"
    BY DEF WellFormed
  <1>2. /\ c.exists = s.exists /\ c.del = s.del /\ c.fin = s.fin
        /\ c.step = "none" /\ c \in Object
        /\ c.pid = IF ~s.lbl \/ s.pid = NoVM THEN id ELSE s.pid
    BY <1>1, RecordedFields, RecordedObject, Zenon
  <1>3. c.force = s.force /\ c.lbl /\ (~s.lbl => c.node = s.node)
    BY Zenon DEF Recorded, Object, Paired
  <1> HIDE DEF c
  <1>4. CASE s.lbl
    <2>1. c.pid = s.pid /\ s.pid # NoVM
      BY <1>2, <1>4 DEF Paired
    <2> QED
      BY <1>2, <1>3, <2>1, Zenon DEF Kept, WellFormed, Paired, c
  <1>5. CASE ~s.lbl
    <2>1. c.pid = id /\ id # NoVM /\ ~c.node
      BY <1>2, <1>3, <1>5, Zenon DEF Paired, Object
    <2> QED
      BY <1>2, <1>3, <2>1, Zenon DEF Kept, WellFormed, Paired, c
  <1> QED
    BY <1>4, <1>5

\* The snapshot a reconcile works on.
LEMMA Snapshot ==
  ASSUME TypeOK, NEW m \in Machine, StepInv(m), pc[m] \in {"reconcile", "create"}
  PROVE  local[m] \in Object /\ WellFormed(local[m]) /\ Paired(local[m]) /\ local[m].exists
  BY DEF TypeOK, StepInv, CopiesInv

LEMMA CreatingSnapshot ==
  ASSUME TypeOK, NEW m \in Machine, StepInv(m), Creating(m)
  PROVE  pc[m] \in {"reconcile", "create"} /\ local[m].fin /\ ~local[m].del
  BY Zenon DEF Creating, StepInv, CopiesInv, Live

LEMMA RecordIsHandler ==
  ASSUME TypeOK, NEW m \in Machine, StepInv(m), Creating(m), NEW id \in VMId \cup {NoVM},
         id = NoVM => local[m].lbl, Record(m, id), UNCHANGED <<api, cache, overdue, pods>>
  PROVE  Handler(m)
  <1>1. /\ pc[m] \in {"reconcile", "create"} /\ local[m].fin /\ ~local[m].del
        /\ local[m] \in Object /\ WellFormed(local[m]) /\ Paired(local[m]) /\ local[m].exists
    BY CreatingSnapshot, Snapshot, Zenon
  <1>2. /\ Kept(local[m], Recorded(local[m], id)) /\ Recorded(local[m], id) \in Object
        /\ Recorded(local[m], id).step = "none"
    BY <1>1, KeptRecorded, Zenon
  <1> QED
    BY <1>1, <1>2, Zenon DEF Record, Handler

LEMMA FailureIsHandler ==
  ASSUME TypeOK, NEW m \in Machine, StepInv(m), Creating(m), NEW p \in CreateFailurePhases,
         Prepare(m, [local[m] EXCEPT !.phase = p, !.step = "none"]),
         UNCHANGED <<api, cache, overdue, pods>>
  PROVE  Handler(m)
  <1> DEFINE c == [local[m] EXCEPT !.phase = p, !.step = "none"]
  <1>1. /\ pc[m] \in {"reconcile", "create"} /\ local[m].fin /\ ~local[m].del
        /\ local[m] \in Object /\ WellFormed(local[m]) /\ Paired(local[m]) /\ local[m].exists
    BY CreatingSnapshot, Snapshot
  <1>2. p \in Phases /\ "none" \in Steps
    BY Names
  <1>e. /\ c \in Object /\ c.step = "none" /\ c.exists = local[m].exists
        /\ c.del = local[m].del /\ c.force = local[m].force /\ c.fin = local[m].fin
        /\ c.pid = local[m].pid /\ c.lbl = local[m].lbl /\ c.node = local[m].node
        /\ c.cond = local[m].cond
    BY <1>1, <1>2, Zenon DEF Object
  <1> HIDE DEF c
  <1>3. Kept(local[m], c) /\ c \in Object /\ c.step = "none"
    BY <1>e, <1>1, <1>2, KeptStatus, Zenon
  <1>4. Prepare(m, c)
    BY DEF c
  <1> QED
    BY <1>1, <1>3, <1>4 DEF Handler

\* A deletion step: the reasons to go on to the VM are those of drainNode.
LEMMA NextStepIsHandler ==
  ASSUME TypeOK, NEW m \in Machine, StepInv(m), Deleting(m), NEW st \in Steps,
         NextStep(m, st), UNCHANGED <<api, cache, overdue>>,
         UNCHANGED pods \/ pods' = [pods EXCEPT ![m] = "none"],
         st = "InitiateVMDeletion" =>
            \/ pods'[m] = "none" \/ local[m].step = "InitiateVMDeletion"
            \/ local[m].force \/ overdue[m]
            \/ ~local[m].lbl \/ local[m].cond \in Undrainable
  PROVE  Handler(m)
  <1> DEFINE c == [local[m] EXCEPT !.step = st]
  <1>1. pc[m] = "reconcile" /\ local[m].del /\ local[m].fin
    BY DEF Deleting
  <1>e. c = [local[m] EXCEPT !.step = st]
    OBVIOUS
  <1> HIDE DEF c
  <1>2. Kept(local[m], c) /\ c \in Object /\ c.step = st
    BY <1>e, <1>1, Snapshot, KeptNextStep
  <1>3. Prepare(m, c)
    BY DEF NextStep, c
  <1> QED
    BY <1>1, <1>2, <1>3, Zenon DEF Handler

LEMMA ReconcileIsHandler ==
  ASSUME TypeOK, NEW m \in Machine, StepInv(m), Reconcile(m)
  PROVE  Handler(m)
  <1> USE Names
  <1>1. CASE ReconcileRefused(m)
    BY <1>1, Zenon DEF ReconcileRefused, Handler
  <1>2. CASE AddMachineFinalizers(m)
    <2>1. pc[m] = "reconcile" /\ ~local[m].del
      BY <1>2 DEF AddMachineFinalizers
    <2>2. WellFormed(local[m]) /\ local[m].step = "none"
      BY <2>1, Snapshot DEF WellFormed
    <2>3. /\ Kept(local[m], [local[m] EXCEPT !.fin = TRUE])
          /\ [local[m] EXCEPT !.fin = TRUE] \in Object
          /\ [local[m] EXCEPT !.fin = TRUE].step = "none"
      BY <2>1, <2>2, Snapshot, KeptFinalizer, Zenon
    <2> QED
      BY <1>2, <2>1, <2>3, Zenon DEF AddMachineFinalizers, Handler
  <1>3. CASE HealthChanged(m) \/ HealthTimeout(m) \/ HealthUnchanged(m)
    <2>0. /\ pc[m] = "reconcile" /\ ~local[m].del /\ local[m].fin
          /\ UNCHANGED <<api, cache, overdue, pods>>
      BY <1>3 DEF HealthChanged, HealthTimeout, HealthUnchanged, Watched
    <2>1. CASE HealthChanged(m)
      <3>1. node[m] \in NodeStates
        BY ZenonT(60) DEF TypeOK
      <3>2. /\ Kept(local[m], ObservedHealth(local[m], node[m]))
            /\ ObservedHealth(local[m], node[m]) \in Object
            /\ ObservedHealth(local[m], node[m]).step = "none"
        BY <2>0, <3>1, Snapshot, KeptObserved, Zenon
      <3> QED
        BY <2>0, <2>1, <3>2, Zenon DEF HealthChanged, Handler
    <2>2. CASE HealthTimeout(m)
      <3> DEFINE c == [local[m] EXCEPT !.phase = "Failed", !.step = "none"]
      <3>0. "Failed" \in Phases /\ "none" \in Steps
        OBVIOUS
      <3>1. Kept(local[m], c) /\ c \in Object /\ c.step = "none"
        <4>1. /\ local[m] \in Object /\ WellFormed(local[m]) /\ Paired(local[m])
              /\ local[m].exists /\ local[m].fin
          BY <2>0, Snapshot
        <4>2. /\ c \in Object /\ c.step = "none" /\ c.exists = local[m].exists
              /\ c.del = local[m].del /\ c.force = local[m].force /\ c.fin = local[m].fin
              /\ c.pid = local[m].pid /\ c.lbl = local[m].lbl /\ c.node = local[m].node
              /\ c.cond = local[m].cond
          BY <3>0, <4>1, Zenon DEF Object
        <4> HIDE DEF c
        <4> QED
          BY <3>0, <4>1, <4>2, KeptStatus, ZenonT(60)
      <3> HIDE DEF c
      <3>2. Prepare(m, c)
        BY <2>2 DEF HealthTimeout, c
      <3> QED
        BY <2>0, <3>1, <3>2, Zenon DEF Handler
    <2>3. CASE HealthUnchanged(m)
      BY <2>0, <2>3, Zenon DEF HealthUnchanged, Handler, Live
    <2> QED
      BY <1>3, <2>1, <2>2, <2>3
  <1>4. CASE AdoptVM(m)
    <2>1. PICK id \in vms[m] : StatusFound(m, id) /\ Record(m, id)
      BY <1>4, Zenon DEF AdoptVM
    <2>2. id \in VMId /\ id # NoVM
      BY VMIds DEF TypeOK
    <2> QED
      BY <1>4, <2>1, <2>2, RecordIsHandler, Zenon DEF AdoptVM
  <1>5. CASE CreationKeepsLabel(m)
    BY <1>5, RecordIsHandler DEF CreationKeepsLabel
  <1>6. CASE CreateVM(m)
    <2>1. nextVM \in VMId /\ nextVM # NoVM
      BY <1>6, VMIds DEF CreateVM, NewVM
    <2> QED
      BY <1>6, <2>1, RecordIsHandler DEF CreateVM
  <1>7. CASE CreateVMFails(m)
    BY <1>7, FailureIsHandler, Zenon DEF CreateVMFails
  <1>8. CASE CreationStatusFails(m)
    <2>1. Creating(m) /\ UNCHANGED <<api, cache, overdue, pods>>
      BY <1>8, Zenon DEF CreationStatusFails
    <2>2. CASE Return(m)
      BY <2>1, <2>2, CreatingSnapshot, Zenon DEF Handler
    <2> QED
      BY <1>8, <2>1, <2>2, FailureIsHandler, Zenon DEF CreationStatusFails
  <1>9. CASE SetMachineTerminationStatus(m)
    <2> DEFINE c == [local[m] EXCEPT !.phase = "Terminating", !.step = "GetVMStatus"]
    <2>1. /\ pc[m] = "reconcile" /\ local[m].del /\ local[m].fin
          /\ UNCHANGED <<api, cache, overdue, pods>>
      BY <1>9 DEF SetMachineTerminationStatus, Deleting
    <2>0. "Terminating" \in Phases /\ "GetVMStatus" \in Steps
      OBVIOUS
    <2>2. Kept(local[m], c) /\ c \in Object /\ c.step = "GetVMStatus"
      <3>1. /\ local[m] \in Object /\ WellFormed(local[m]) /\ Paired(local[m])
            /\ local[m].exists /\ local[m].fin /\ local[m].del
        BY <2>1, Snapshot, Zenon
      <3>2. /\ c \in Object /\ c.step = "GetVMStatus" /\ c.exists = local[m].exists
            /\ c.del = local[m].del /\ c.force = local[m].force /\ c.fin = local[m].fin
            /\ c.pid = local[m].pid /\ c.lbl = local[m].lbl /\ c.node = local[m].node
            /\ c.cond = local[m].cond
        BY <2>0, <3>1, Zenon DEF Object
      <3> HIDE DEF c
      <3> QED
        BY <2>0, <3>1, <3>2, KeptStatus, Zenon
    <2> HIDE DEF c
    <2>3. Prepare(m, c)
      BY <1>9, Zenon DEF SetMachineTerminationStatus, c
    <2> QED
      BY <2>1, <2>2, <2>3, Zenon DEF Handler
  <1>10. CASE GetVMStatus(m) \/ GetVMStatusFails(m)
    BY <1>10, NextStepIsHandler DEF GetVMStatus, GetVMStatusFails, AtStep
  <1>11. CASE SkipDrain(m) \/ DrainSucceeds(m) \/ DrainFails(m)
    <2>1. CASE SkipDrain(m)
      BY <2>1, NextStepIsHandler, Zenon DEF SkipDrain, AtStep
    <2>2. CASE DrainSucceeds(m)
      <3>1. pods' = [pods EXCEPT ![m] = "none"] /\ pods'[m] = "none"
        BY <2>2, ZenonT(60) DEF DrainSucceeds, TypeOK
      <3> QED
        BY <2>2, <3>1, NextStepIsHandler, Zenon DEF DrainSucceeds, AtStep
    <2>3. CASE DrainFails(m)
      BY <2>3, NextStepIsHandler, Zenon DEF DrainFails, AtStep, ForceDeletion
    <2> QED
      BY <1>11, <2>1, <2>2, <2>3
  <1>12. CASE DeleteVM(m) \/ DeleteVMFails(m)
    BY <1>12, NextStepIsHandler, Zenon DEF DeleteVM, DeleteVMFails, AtStep
  <1>13. CASE DeleteNodeObject(m) \/ DeleteNodeObjectFails(m)
    BY <1>13, NextStepIsHandler, Zenon DEF DeleteNodeObject, DeleteNodeObjectFails, AtStep
  <1>14. CASE DeleteMachineFinalizers(m)
    <2> DEFINE c == [local[m] EXCEPT !.fin = FALSE]
    <2>1. /\ pc[m] = "reconcile" /\ local[m].step = "InitiateFinalizerRemoval"
          /\ UNCHANGED <<api, cache, overdue, pods>> /\ Prepare(m, c)
      BY <1>14 DEF DeleteMachineFinalizers, AtStep, Deleting
    <2>2. Kept(local[m], c) /\ c \in Object /\ c.step = "InitiateFinalizerRemoval"
      BY <2>1, Snapshot, KeptFinalizer, Zenon
    <2> HIDE DEF c
    <2> QED
      BY <2>1, <2>2, Zenon DEF Handler
  <1> QED
    BY <1>1, <1>2, <1>3, <1>4, <1>5, <1>6, <1>7, <1>8, <1>9, <1>10, <1>11, <1>12, <1>13,
       <1>14 DEF Reconcile
-----------------------------------------------------------------------------
(***************************************************************************)
(* AllSteps is an invariant.                                               *)
(***************************************************************************)
\* Nothing that StepInv reads changes, but for machine m.
StepsElsewhere(m) ==
    \A n \in Machine \ {m} :
       /\ api'[n] = api[n] /\ cache'[n] = cache[n] /\ local'[n] = local[n]
       /\ current'[n] = current[n] /\ pc'[n] = pc[n]
       /\ pods'[n] = pods[n] /\ overdue'[n] = overdue[n]

LEMMA OneStep ==
  ASSUME AllSteps, NEW m \in Machine, StepInv(m)', StepsElsewhere(m)
  PROVE  AllSteps'
  <1>1. ASSUME NEW n \in Machine \ {m} PROVE StepInv(n)'
    <2>1. StepInv(n)
      BY DEF AllSteps
    <2> QED
      BY <2>1, StepFrame, Zenon DEF StepsElsewhere
  <1> QED
    BY <1>1 DEF AllSteps

LEMMA HandlerElsewhere ==
  ASSUME TypeOK, NEW m \in Machine, Handler(m)
  PROVE  StepsElsewhere(m)
  <1>1. api' = api /\ cache' = cache /\ overdue' = overdue
    BY DEF Handler
  <1>2. \A n \in Machine \ {m} : pods'[n] = pods[n]
    BY DEF Handler, TypeOK
  <1>3. \A n \in Machine \ {m} :
           local'[n] = local[n] /\ current'[n] = current[n] /\ pc'[n] = pc[n]
    BY DEF Handler, Return, Prepare, TypeOK
  <1> QED
    BY <1>1, <1>2, <1>3, Zenon DEF StepsElsewhere

LEMMA TouchedStep ==
  ASSUME TypeOK, AllSteps, NEW m \in Machine, NEW o \in Object, Touch(m, o),
         UNCHANGED <<cache, local, pc, pods, overdue>>, api[m].exists,
         o.exists, o.fin = api[m].fin, o.pid = api[m].pid, o.lbl = api[m].lbl,
         o.node = api[m].node, o.cond = api[m].cond,
         api[m].del => o.del /\ o.force = api[m].force,
         o.step \in {api[m].step, "none"}
  PROVE  AllSteps'
  <1>1. StepInv(m)'
    BY TouchStep, Zenon DEF AllSteps
  <1>2. StepsElsewhere(m)
    BY DEF StepsElsewhere, Touch, TypeOK
  <1> QED
    BY <1>1, <1>2, OneStep, Zenon

LEMMA WorldStep ==
  ASSUME TypeOK, AllSteps, NEW m \in Machine, World(m)
  PROVE  AllSteps'
  <1>0. api[m] \in Object /\ StepInv(m) /\ "Running" \in Phases /\ "Terminating" \in Phases
    BY DEF TypeOK, AllSteps, Phases
  <1>1. CASE UserDeletes(m)
    <2>1. PICK b \in BOOLEAN : Touch(m, [api[m] EXCEPT !.del = TRUE, !.force = b])
      BY <1>1, Zenon DEF UserDeletes
    <2>2. /\ ~api[m].del /\ api[m].exists /\ UNCHANGED <<cache, local, pc, pods, overdue>>
      BY <1>1 DEF UserDeletes
    <2> DEFINE o == [api[m] EXCEPT !.del = TRUE, !.force = b]
    <2>3. /\ o \in Object /\ o.exists = api[m].exists /\ o.fin = api[m].fin
          /\ o.pid = api[m].pid /\ o.lbl = api[m].lbl /\ o.node = api[m].node
          /\ o.cond = api[m].cond /\ o.step \in {api[m].step, "none"}
      BY <1>0, Names, Zenon DEF Object
    <2>4. Touch(m, o)
      BY <2>1
    <2> HIDE DEF o
    <2> QED
      BY <2>2, <2>3, <2>4, TouchedStep, Zenon
  <1>2. CASE PrepareMachineForDeletion(m)
    <2> DEFINE o == [api[m] EXCEPT !.del = TRUE]
    <2>1. /\ api[m].exists /\ UNCHANGED <<cache, local, pc, pods, overdue>>
          /\ Touch(m, o) \/ UNCHANGED <<api, current>>
      BY <1>2 DEF PrepareMachineForDeletion
    <2>2. /\ o \in Object /\ o.exists = api[m].exists /\ o.fin = api[m].fin
          /\ o.pid = api[m].pid /\ o.lbl = api[m].lbl /\ o.node = api[m].node
          /\ o.cond = api[m].cond /\ (api[m].del => o.del) /\ o.force = api[m].force
          /\ o.step \in {api[m].step, "none"}
      BY <1>0, Names, Zenon DEF Object
    <2> HIDE DEF o
    <2>3. CASE UNCHANGED <<api, current>>
      BY <1>0, <2>1, <2>3, StepFrame, OneStep, Zenon DEF StepsElsewhere
    <2> QED
      BY <2>1, <2>2, <2>3, TouchedStep, Zenon
  <1>3. CASE ForceTerminatingStatus(m) \/ ResetHealth(m)
    <2>1. PICK p \in {"Running", "Terminating"} :
             /\ UNCHANGED <<cache, local, pc, pods, overdue>>
             /\ \/ api[m].exists /\ Touch(m, [api[m] EXCEPT !.phase = p, !.step = "none"])
                \/ UNCHANGED <<api, current>>
      BY <1>3 DEF ForceTerminatingStatus, ResetHealth
    <2> DEFINE o == [api[m] EXCEPT !.phase = p, !.step = "none"]
    <2>2. /\ o \in Object /\ o.exists = api[m].exists /\ o.fin = api[m].fin
          /\ o.pid = api[m].pid /\ o.lbl = api[m].lbl /\ o.node = api[m].node
          /\ o.cond = api[m].cond /\ (api[m].del => o.del) /\ o.force = api[m].force
          /\ o.step \in {api[m].step, "none"}
      BY <1>0, Names, Zenon DEF Object
    <2>3. (api[m].exists /\ Touch(m, o)) \/ UNCHANGED <<api, current>>
      BY <2>1
    <2> HIDE DEF o
    <2>4. CASE UNCHANGED <<api, current>>
      BY <1>0, <2>1, <2>4, StepFrame, OneStep DEF StepsElsewhere
    <2> QED
      BY <2>1, <2>2, <2>3, <2>4, TouchedStep
  <1>4. CASE \/ DrainTimeoutElapses(m) \/ NodeJoins(m)
             \/ NodeConditionFlips(m) \/ NodeGoesMissing(m)
    <2>1. StepInv(m)'
      BY <1>0, <1>4, ClusterStep
    <2>2. StepsElsewhere(m)
      BY <1>4, ZenonT(60) DEF StepsElsewhere, DrainTimeoutElapses, NodeJoins, NodeConditionFlips,
                  NodeGoesMissing, TypeOK
    <2> QED
      BY <2>1, <2>2, OneStep
  <1>5. CASE MCMInformerSync(m)
    BY <1>0, <1>5, StepFrame, OneStep, Zenon DEF MCMInformerSync, StepsElsewhere
  <1> QED
    BY <1>1, <1>2, <1>3, <1>4, <1>5 DEF World

LEMMA InitAllSteps == Init => AllSteps
  <1> SUFFICES ASSUME Init, NEW m \in Machine PROVE StepInv(m)
    BY DEF AllSteps
  <1>1. /\ api[m] = NewMachine /\ cache[m] = Absent /\ current[m] = {} /\ pc[m] = "idle"
    BY DEF Init
  <1> QED
    BY <1>1, AbsentStep, AbsentFields, Zenon DEF StepInv, CopiesInv, VMDeletionDue

LEMMA NextAllSteps == TypeOK /\ AllSteps /\ [Next]_vars => AllSteps'
  <1> SUFFICES ASSUME TypeOK, AllSteps, [Next]_vars PROVE AllSteps'
    OBVIOUS
  <1>1. ASSUME UNCHANGED <<api, cache, local, current, pc, pods, overdue>> PROVE AllSteps'
    BY <1>1, StepFrame DEF AllSteps
  <1>2. CASE UNCHANGED vars
    BY <1>1, <1>2 DEF vars
  <1>3. ASSUME NEW m \in Machine, InformerSync(m) PROVE AllSteps'
    <2>1. StepInv(m)'
      BY <1>3, SyncStep DEF AllSteps
    <2>2. StepsElsewhere(m)
      BY <1>3, Zenon DEF StepsElsewhere, InformerSync, TypeOK
    <2> QED
      BY <2>1, <2>2, OneStep
  <1>4. ASSUME NEW m \in Machine, Begin(m) PROVE AllSteps'
    <2>1. StepInv(m)'
      BY <1>4, BeginStep DEF AllSteps
    <2>2. StepsElsewhere(m)
      BY <1>4 DEF StepsElsewhere, Begin, TypeOK
    <2> QED
      BY <2>1, <2>2, OneStep
  <1>5. ASSUME NEW m \in Machine, Reconcile(m) PROVE AllSteps'
    <2>1. Handler(m)
      BY <1>5, ReconcileIsHandler DEF AllSteps
    <2>2. StepInv(m)'
      BY <2>1, HandlerStep, Zenon DEF AllSteps
    <2> QED
      BY <2>1, <2>2, HandlerElsewhere, OneStep
  <1>6. ASSUME NEW m \in Machine, WriteAccepted(m) PROVE AllSteps'
    <2>1. StepInv(m)'
      BY <1>6, WriteStep DEF AllSteps
    <2>2. StepsElsewhere(m)
      BY <1>6, Zenon DEF StepsElsewhere, WriteAccepted, Touch, TypeOK
    <2> QED
      BY <2>1, <2>2, OneStep
  <1>7. ASSUME NEW m \in Machine, WriteRefused(m) PROVE AllSteps'
    <2>1. StepInv(m)'
      BY <1>7, RefusedStep DEF AllSteps
    <2>2. StepsElsewhere(m)
      BY <1>7 DEF StepsElsewhere, WriteRefused, Return, TypeOK
    <2> QED
      BY <2>1, <2>2, OneStep
  <1>8. ASSUME NEW m \in Machine, World(m) PROVE AllSteps'
    BY <1>8, WorldStep
  <1>9. ASSUME NEW m \in Machine, NEW id \in VMId, JudgeVM(m, id) \/ CollectOrphan(m, id)
        PROVE  AllSteps'
    BY <1>1, <1>9 DEF JudgeVM, CollectOrphan
  <1>10. CASE ListMachines \/ UnfreezeLists
    BY <1>1, <1>10, Zenon DEF ListMachines, UnfreezeLists
  <1>11. CASE Restart
    BY <1>11, RestartStep DEF AllSteps
  <1> QED
    BY <1>2, <1>3, <1>4, <1>5, <1>6, <1>7, <1>8, <1>9, <1>10, <1>11 DEF Next

LEMMA Steady == Spec => [](TypeOK /\ AllSteps)
  BY InitTypeOK, NextTypeOK, InitAllSteps, NextAllSteps, PTL DEF Spec

-----------------------------------------------------------------------------
(***************************************************************************)
(* The action properties.                                                  *)
(***************************************************************************)
\* Who takes VMs away: a reconcile that names this as its step, or the collector.
LEMMA WhoDeletes ==
  ASSUME TypeOK, [Next]_vars, NEW m \in Machine, vms[m] \ vms'[m] # {}
  PROVE  \/ DeleteVM(m) \/ DeleteVMFails(m)
         \/ \E id \in VMId : CollectOrphan(m, id)
  <1>1. ASSUME UNCHANGED vms PROVE FALSE
    BY <1>1, Zenon
  <1>2. CASE UNCHANGED vars
    BY <1>1, <1>2 DEF vars
  <1>3. ASSUME NEW n \in Machine, InformerSync(n) \/ Begin(n) \/ WriteAccepted(n) \/ WriteRefused(n)
        PROVE  FALSE
    BY <1>1, <1>3, Zenon DEF InformerSync, Begin, WriteAccepted, WriteRefused
  <1>4. ASSUME NEW n \in Machine, World(n) PROVE FALSE
    BY <1>1, <1>4, Zenon DEF World, UserDeletes, DrainTimeoutElapses, NodeJoins, NodeConditionFlips,
       NodeGoesMissing, PrepareMachineForDeletion, ForceTerminatingStatus, MCMInformerSync,
       ResetHealth
  <1>5. CASE ListMachines \/ UnfreezeLists \/ Restart
    BY <1>1, <1>5, Zenon DEF ListMachines, UnfreezeLists, Restart
  <1>6. ASSUME NEW n \in Machine, Reconcile(n) PROVE DeleteVM(m) \/ DeleteVMFails(m)
    <2>1. CASE DeleteVM(n) \/ DeleteVMFails(n)
      <3>1. n = m
        BY <2>1 DEF DeleteVM, DeleteVMFails, TypeOK
      <3> QED
        BY <2>1, <3>1
    <2>2. CASE CreateVM(n) \/ CreateVMFails(n)
      <3>1. NewVM(n)
        BY <1>1, <2>2, Zenon DEF CreateVM, CreateVMFails
      <3>2. vms[m] \subseteq vms'[m]
        BY <3>1 DEF NewVM, TypeOK
      <3> QED
        BY <3>2
    <2>3. CASE ~(CreateVM(n) \/ CreateVMFails(n) \/ DeleteVM(n) \/ DeleteVMFails(n))
      BY <1>1, <1>6, <2>3, Zenon
         DEF Reconcile, ReconcileRefused, AddMachineFinalizers, HealthChanged, HealthTimeout,
                HealthUnchanged, AdoptVM, CreationKeepsLabel,
                CreationStatusFails, SetMachineTerminationStatus, GetVMStatus,
                GetVMStatusFails, SkipDrain, DrainSucceeds, DrainFails, DeleteNodeObject,
                DeleteNodeObjectFails, DeleteMachineFinalizers
    <2> QED
      BY <2>1, <2>2, <2>3, Zenon
  <1>7. ASSUME NEW n \in Machine, NEW id \in VMId, JudgeVM(n, id) \/ CollectOrphan(n, id)
        PROVE  CollectOrphan(m, id)
    <2>1. CollectOrphan(n, id)
      BY <1>1, <1>7, Zenon DEF JudgeVM
    <2>2. n = m
      BY <2>1 DEF CollectOrphan, TypeOK
    <2> QED
      BY <2>1, <2>2
  <1> QED
    BY <1>2, <1>3, <1>4, <1>5, <1>6, <1>7, Zenon DEF Next

LEMMA DeleterIsDue ==
  ASSUME TypeOK, NEW m \in Machine, StepInv(m), DeleteVM(m) \/ DeleteVMFails(m)
  PROVE  Gone(api[m]) /\ Excused(m)
  <1>1. /\ pc[m] = "reconcile" /\ local[m].del
        /\ local[m].step = "InitiateVMDeletion"
    BY Zenon DEF DeleteVM, DeleteVMFails, AtStep, Deleting
  <1> QED
    BY <1>1, Zenon DEF StepInv, CopiesInv, VMDeletionDue

LEMMA KeepsVM ==
  ASSUME TypeOK, AllSteps, [Next]_vars, NEW m \in Machine, NEW id \in vms[m] \ vms'[m],
         Backs(m, id)
  PROVE  <<m, id, "orphan">> \in listed
  <1>1. StepInv(m) /\ id \in VMId /\ id # NoVM
    BY VMIds DEF AllSteps, TypeOK
  <1>2. ~DeleteVM(m) /\ ~DeleteVMFails(m)
    BY <1>1, DeleterIsDue, Zenon DEF Backs, Gone, StepInv, Paired
  <1>3. ASSUME NEW i \in VMId, CollectOrphan(m, i) PROVE <<m, id, "orphan">> \in listed
    <2>1. i = id
      BY <1>3, VMIds DEF CollectOrphan, Victims, TypeOK
    <2> QED
      BY <1>3, <2>1, Zenon DEF CollectOrphan
  <1> QED
    BY <1>2, <1>3, WhoDeletes, Zenon

\* A new verdict is JudgeVM's.
LEMMA WhoJudges ==
  ASSUME [Next]_vars, NEW m \in Machine, NEW id \in VMId,
         <<m, id, "orphan">> \in listed' \ listed
  PROVE  LooksOrphaned(cache[m], id)
  <1>1. ASSUME UNCHANGED listed PROVE FALSE
    BY <1>1, Zenon
  <1>2. CASE UNCHANGED vars
    BY <1>1, <1>2 DEF vars
  <1>3. ASSUME NEW n \in Machine, InformerSync(n) \/ Begin(n) \/ WriteAccepted(n) \/ WriteRefused(n)
        PROVE  FALSE
    BY <1>1, <1>3, Zenon DEF InformerSync, Begin, WriteAccepted, WriteRefused
  <1>4. ASSUME NEW n \in Machine, World(n) PROVE FALSE
    BY <1>1, <1>4, Zenon DEF World, UserDeletes, DrainTimeoutElapses, NodeJoins, NodeConditionFlips,
       NodeGoesMissing, PrepareMachineForDeletion, ForceTerminatingStatus, MCMInformerSync,
       ResetHealth
  <1>5. ASSUME NEW n \in Machine, Reconcile(n) PROVE FALSE
    BY <1>1, <1>5, Zenon
       DEF Reconcile, ReconcileRefused, AddMachineFinalizers, HealthChanged, HealthTimeout,
           HealthUnchanged, AdoptVM, CreationKeepsLabel, CreateVM, CreateVMFails,
           CreationStatusFails, SetMachineTerminationStatus, GetVMStatus,
           GetVMStatusFails, SkipDrain, DrainSucceeds, DrainFails, DeleteVM, DeleteVMFails,
           DeleteNodeObject, DeleteNodeObjectFails, DeleteMachineFinalizers
  <1>6. CASE ListMachines \/ UnfreezeLists \/ Restart
    BY <1>1, <1>6 DEF ListMachines, UnfreezeLists, Restart
  <1>7. ASSUME NEW n \in Machine, NEW i \in VMId, CollectOrphan(n, i) PROVE FALSE
    BY <1>7, Zenon DEF CollectOrphan
  <1>8. ASSUME NEW n \in Machine, NEW i \in VMId, JudgeVM(n, i)
        PROVE  LooksOrphaned(cache[m], id)
    <2>1. LooksOrphaned(cache[n], i) /\ <<m, id, "orphan">> = <<n, i, "orphan">>
      BY <1>8, Zenon DEF JudgeVM
    <2>2. m = n /\ id = i
      BY <2>1
    <2> QED
      BY <2>1, <2>2
  <1> QED
    BY <1>2, <1>3, <1>4, <1>5, <1>6, <1>7, <1>8, Zenon DEF Next

LEMMA BackedNotJudged ==
  ASSUME AllSteps, [Next]_vars, NEW m \in Machine, NEW id \in VMId, Backs(m, id),
         <<m, id, "orphan">> \in listed'
  PROVE  <<m, id, "orphan">> \in listed
  <1>1. StepInv(m) /\ id # NoVM
    BY VMIds DEF AllSteps
  <1>2. cache[m].pid = id /\ cache[m].exists
    BY <1>1, Zenon DEF StepInv, Paired, Backs
  <1>3. ~LooksOrphaned(cache[m], id)
    BY <1>2, Zenon DEF LooksOrphaned
  <1> QED
    BY <1>3, WhoJudges, Zenon

\* Neither the collector, judging by a stale cache, nor a late reconcile takes the VM that a
\* machine runs on (ProviderID and Status.Node recorded) before the machine is marked for
\* deletion, except for a VM the collector had judged before it was recorded: for every
\* driver, with or without GetMachineStatus and ListMachines.
THEOREM RunningVMKept == Spec => BackedVMKept
  <1>1. TypeOK /\ AllSteps /\ [Next]_vars =>
          [\A m \in Machine : \A id \in VMId : Backs(m, id) =>
              /\ id \in vms[m] \ vms'[m] => <<m, id, "orphan">> \in listed
              /\ <<m, id, "orphan">> \in listed' => <<m, id, "orphan">> \in listed]_vars
    BY KeepsVM, BackedNotJudged, Zenon
  <1> QED
    BY <1>1, Steady, PTL DEF Spec, BackedVMKept

LEMMA DeletesExcused ==
  ASSUME TypeOK, AllSteps, [Next]_vars, NEW m \in Machine, pc[m] = "reconcile",
         pc'[m] = "write", vms[m] \ vms'[m] # {}, pods[m] = "running"
  PROVE  api[m].force \/ overdue[m] \/ ~api[m].lbl \/ api[m].cond \in Undrainable
  <1>1. StepInv(m)
    BY Zenon DEF AllSteps
  <1>2. ASSUME NEW i \in VMId, CollectOrphan(m, i) PROVE FALSE
    BY <1>2, ZenonT(60) DEF CollectOrphan
  <1>3. Excused(m)
    BY <1>1, <1>2, WhoDeletes, DeleterIsDue, Zenon
  <1> QED
    BY <1>3, Zenon DEF Excused

\* A reconcile deletes the VM of a node with workload only if the deletion is forced, the
\* drain timeout is over, the machine never had a node, or its node is not ready or has a
\* read-only file system -- judged by the object as it is, not by the copy the reconcile read.
THEOREM DrainComesFirst == Spec => DrainedOrExcused
  <1>1. TypeOK /\ AllSteps /\ [Next]_vars =>
          [\A m \in Machine :
             pc[m] = "reconcile" /\ pc'[m] = "write" /\ vms[m] \ vms'[m] # {} /\ pods[m] = "running"
             => \/ api[m].force \/ overdue[m]
                \/ ~api[m].lbl \/ api[m].cond \in Undrainable]_vars
    BY DeletesExcused
  <1> QED
    BY <1>1, Steady, PTL DEF Spec, DrainedOrExcused

-----------------------------------------------------------------------------
(***************************************************************************)
(* The node object goes before the Machine object.  A node joins only      *)
(* while there is a VM, and TrackingInv says there is none when the step   *)
(* is InitiateFinalizerRemoval: hence the assumptions of NoLeak.           *)
(***************************************************************************)
LEMMA OneDown ==
  ASSUME AllDown, NEW m \in Machine, NodeDown(m)', StepsElsewhere(m),
         \A n \in Machine \ {m} : node'[n] = node[n]
  PROVE  AllDown'
  <1>1. ASSUME NEW n \in Machine \ {m} PROVE NodeDown(n)'
    <2>1. NodeDown(n)
      BY DEF AllDown
    <2> QED
      BY <2>1 DEF StepsElsewhere, NodeDown
  <1> QED
    BY <1>1, Zenon DEF AllDown

\* The deletion flow names the removal of the finalizer only after deleteNodeObject.
LEMMA ReconcileDown ==
  ASSUME TypeOK, NEW m \in Machine, StepInv(m), NodeDown(m), Reconcile(m)
  PROVE  NodeDown(m)'
  <1>1. Handler(m) /\ api' = api /\ pc[m] \in {"reconcile", "create"} /\ local[m] \in Object
    BY ReconcileIsHandler, Zenon DEF Handler, TypeOK
  <1>2. CASE DeleteNodeObject(m) /\ local[m].lbl
    BY <1>1, <1>2, ZenonT(60) DEF DeleteNodeObject, NodeDown, TypeOK
  <1>3. CASE DeleteNodeObject(m) /\ ~local[m].lbl
    <2>1. node' = node /\ local'[m] = [local[m] EXCEPT !.step = "InitiateFinalizerRemoval"]
      BY <1>3 DEF DeleteNodeObject, NextStep, Prepare, TypeOK
    <2>2. ~local'[m].lbl
      BY <1>1, <1>3, <2>1 DEF Object
    <2> QED
      BY <1>1, <2>1, <2>2 DEF NodeDown
  <1>4. CASE DeleteMachineFinalizers(m)
    <2>1. /\ node' = node /\ current' = current /\ pc[m] = "reconcile"
          /\ local[m].step = "InitiateFinalizerRemoval"
          /\ local'[m] = [local[m] EXCEPT !.fin = FALSE]
      BY <1>4 DEF DeleteMachineFinalizers, AtStep, Deleting, Prepare, TypeOK
    <2>2. local'[m].lbl = local[m].lbl
      BY <1>1, <2>1 DEF Object
    <2>3. "local" \in current[m] => local[m] = api[m]
      BY <2>1 DEF StepInv, CopiesInv
    <2> QED
      BY <1>1, <2>1, <2>2, <2>3 DEF NodeDown
  <1>5. CASE ~DeleteNodeObject(m) /\ ~DeleteMachineFinalizers(m)
    <2>1. node' = node
      BY <1>5, Zenon DEF Reconcile, ReconcileRefused, AddMachineFinalizers, HealthChanged,
           HealthTimeout, HealthUnchanged, AdoptVM, CreationKeepsLabel, CreateVM,
           CreateVMFails, CreationStatusFails, SetMachineTerminationStatus, GetVMStatus,
           GetVMStatusFails, SkipDrain, DrainSucceeds, DrainFails, DeleteVM, DeleteVMFails,
           DeleteNodeObjectFails
    <2>2. SUFFICES ASSUME pc'[m] = "write", local'[m].step = "InitiateFinalizerRemoval"
                   PROVE  FALSE
      BY <1>1, <2>1 DEF NodeDown
    <2>3. local[m].del
      <3>1. PICK clone \in Object : Prepare(m, clone) /\ Kept(local[m], clone)
        BY <1>1, <2>2 DEF Handler, Return, TypeOK
      <3>2. clone = local'[m]
        BY <3>1 DEF Prepare, TypeOK
      <3> QED
        BY <2>2, <3>1, <3>2, Zenon DEF Kept, WellFormed
    <2>4. pc[m] # "create"
      BY <2>3, Zenon DEF StepInv, CopiesInv, Live
    <2>5. ~Return(m)
      BY <2>2 DEF Return, TypeOK
    <2>6. \/ SetMachineTerminationStatus(m)
          \/ \E st \in Steps \ {"InitiateFinalizerRemoval"} : NextStep(m, st)
      <3>1. \/ SetMachineTerminationStatus(m) \/ GetVMStatus(m) \/ GetVMStatusFails(m)
            \/ SkipDrain(m) \/ DrainSucceeds(m) \/ DrainFails(m) \/ DeleteVM(m)
            \/ DeleteVMFails(m) \/ DeleteNodeObjectFails(m)
        BY <1>5, <2>3, <2>4, <2>5, Zenon DEF Reconcile, ReconcileRefused, AddMachineFinalizers,
             HealthChanged, HealthTimeout, HealthUnchanged, Watched, AdoptVM,
             CreationKeepsLabel, CreateVM, CreateVMFails, CreationStatusFails, Creating
      <3> QED
        BY <3>1, Zenon DEF GetVMStatus, GetVMStatusFails, SkipDrain, DrainSucceeds, DrainFails,
             DeleteVM, DeleteVMFails, DeleteNodeObjectFails, Steps
    <2>7. CASE SetMachineTerminationStatus(m)
      <3>1. local'[m] = [local[m] EXCEPT !.phase = "Terminating", !.step = "GetVMStatus"]
        BY <2>7 DEF SetMachineTerminationStatus, Prepare, TypeOK
      <3>2. local'[m].step = "GetVMStatus"
        BY <1>1, <3>1 DEF Object
      <3> QED
        BY <2>2, <3>2
    <2>8. ASSUME NEW st \in Steps \ {"InitiateFinalizerRemoval"}, NextStep(m, st) PROVE FALSE
      <3>1. local'[m] = [local[m] EXCEPT !.step = st]
        BY <2>8 DEF NextStep, Prepare, TypeOK
      <3>2. local'[m].step = st
        BY <1>1, <3>1 DEF Object
      <3> QED
        BY <2>2, <3>2
    <2> QED
      BY <2>6, <2>7, <2>8
  <1> QED
    BY <1>2, <1>3, <1>4, <1>5

LEMMA ReconcileNodes ==
  ASSUME TypeOK, NEW m \in Machine, Reconcile(m)
  PROVE  \A n \in Machine \ {m} : node'[n] = node[n]
  <1>1. CASE DeleteNodeObject(m)
    BY <1>1 DEF DeleteNodeObject, TypeOK
  <1>2. CASE ~DeleteNodeObject(m)
    BY <1>2, Zenon DEF Reconcile, ReconcileRefused, AddMachineFinalizers, HealthChanged,
           HealthTimeout, HealthUnchanged, AdoptVM, CreationKeepsLabel, CreateVM,
           CreateVMFails, CreationStatusFails, SetMachineTerminationStatus, GetVMStatus,
           GetVMStatusFails, SkipDrain, DrainSucceeds, DrainFails, DeleteVM, DeleteVMFails,
           DeleteNodeObjectFails, DeleteMachineFinalizers
  <1> QED
    BY <1>1, <1>2

LEMMA TouchDown ==
  ASSUME TypeOK, AllDown, NEW m \in Machine, NEW o \in Object, Touch(m, o),
         UNCHANGED <<cache, local, pc, pods, overdue, node>>,
         o.lbl = api[m].lbl, o.step \in {api[m].step, "none"}
  PROVE  AllDown'
  <1>1. api'[m] \in {o, Absent} /\ current'[m] = {}
    BY DEF Touch, Stored, TypeOK
  <1>2. NodeDown(m)'
    BY <1>1, AbsentStep, Zenon DEF AllDown, NodeDown
  <1>3. StepsElsewhere(m)
    BY DEF StepsElsewhere, Touch, TypeOK
  <1> QED
    BY <1>2, <1>3, OneDown

LEMMA WorldDown ==
  ASSUME TypeOK, TrackingInv, AllDown, NEW m \in Machine, World(m)
  PROVE  AllDown'
  <1>0. /\ api[m] \in Object /\ NodeDown(m) /\ VMsInv(m)
        /\ "Running" \in Phases /\ "Terminating" \in Phases
    BY DEF TypeOK, AllDown, TrackingInv, Phases
  <1>1. ASSUME UNCHANGED <<api, local, current, pc, node>> PROVE AllDown'
    BY <1>1 DEF AllDown, NodeDown
  <1>2. CASE UserDeletes(m)
    <2>1. PICK b \in BOOLEAN : Touch(m, [api[m] EXCEPT !.del = TRUE, !.force = b])
      BY <1>2, Zenon DEF UserDeletes
    <2>2. UNCHANGED <<cache, local, pc, pods, overdue, node>>
      BY <1>2 DEF UserDeletes
    <2> DEFINE o == [api[m] EXCEPT !.del = TRUE, !.force = b]
    <2>3. o \in Object /\ o.lbl = api[m].lbl /\ o.step \in {api[m].step, "none"} /\ Touch(m, o)
      BY <1>0, <2>1, Names, ZenonT(60) DEF Object
    <2> HIDE DEF o
    <2> QED
      BY <2>2, <2>3, TouchDown
  <1>3. CASE PrepareMachineForDeletion(m)
    <2> DEFINE o == [api[m] EXCEPT !.del = TRUE]
    <2>1. /\ UNCHANGED <<cache, local, pc, pods, overdue, node>>
          /\ Touch(m, o) \/ UNCHANGED <<api, current>>
      BY <1>3 DEF PrepareMachineForDeletion
    <2>2. o \in Object /\ o.lbl = api[m].lbl /\ o.step \in {api[m].step, "none"}
      BY <1>0, Names, Zenon DEF Object
    <2> HIDE DEF o
    <2> QED
      BY <1>1, <2>1, <2>2, TouchDown, Zenon
  <1>4. CASE ForceTerminatingStatus(m) \/ ResetHealth(m)
    <2>1. PICK p \in {"Running", "Terminating"} :
             /\ UNCHANGED <<cache, local, pc, pods, overdue, node>>
             /\ \/ Touch(m, [api[m] EXCEPT !.phase = p, !.step = "none"])
                \/ UNCHANGED <<api, current>>
      BY <1>4 DEF ForceTerminatingStatus, ResetHealth
    <2> DEFINE o == [api[m] EXCEPT !.phase = p, !.step = "none"]
    <2>2. o \in Object /\ o.lbl = api[m].lbl /\ o.step \in {api[m].step, "none"}
      BY <1>0, Names, Zenon DEF Object
    <2>3. Touch(m, o) \/ UNCHANGED <<api, current>>
      BY <2>1
    <2> HIDE DEF o
    <2> QED
      BY <1>1, <2>1, <2>2, <2>3, TouchDown
  <1>5. CASE NodeJoins(m) \/ NodeConditionFlips(m) \/ NodeGoesMissing(m)
    <2>1. /\ \/ vms[m] # {} \/ node[m] # "absent" \/ node'[m] = "absent"
          /\ UNCHANGED <<api, local, current, pc>>
          /\ StepsElsewhere(m) /\ \A n \in Machine \ {m} : node'[n] = node[n]
      BY <1>5, ZenonT(60) DEF NodeJoins, NodeConditionFlips, NodeGoesMissing, TypeOK, StepsElsewhere
    <2>2. NodeDown(m)'
      BY <1>0, <2>1, Zenon DEF NodeDown, VMsInv, Late
    <2> QED
      BY <2>1, <2>2, OneDown
  <1>6. CASE DrainTimeoutElapses(m) \/ MCMInformerSync(m)
    BY <1>1, <1>6 DEF DrainTimeoutElapses, MCMInformerSync
  <1> QED
    BY <1>2, <1>3, <1>4, <1>5, <1>6 DEF World

LEMMA InitAllDown == Init => AllDown
  BY AbsentStep DEF Init, AllDown, NodeDown

LEMMA NextAllDown == TypeOK /\ TrackingInv /\ AllSteps /\ AllDown /\ [Next]_vars => AllDown'
  <1> SUFFICES ASSUME TypeOK, TrackingInv, AllSteps, AllDown, [Next]_vars PROVE AllDown'
    BY Zenon
  <1>1. ASSUME UNCHANGED <<api, local, current, pc, node>> PROVE AllDown'
    BY <1>1 DEF AllDown, NodeDown
  <1>2. CASE UNCHANGED vars
    BY <1>1, <1>2 DEF vars
  <1>3. ASSUME NEW m \in Machine, InformerSync(m) \/ Begin(m) PROVE AllDown'
    <2>1. NodeDown(m)'
      <3>1. NodeDown(m) /\ UNCHANGED <<api, node>>
        BY <1>3, Zenon DEF InformerSync, Begin, AllDown
      <3>2. \/ pc'[m] = "reconcile"
            \/ UNCHANGED <<pc, local>> /\ ("local" \in current'[m] => "local" \in current[m])
        <4>1. Begin(m) => pc'[m] = "reconcile"
          BY Zenon DEF Begin, TypeOK
        <4>2. ASSUME InformerSync(m)
              PROVE  UNCHANGED <<pc, local>> /\ ("local" \in current'[m] => "local" \in current[m])
          <5>1. UNCHANGED <<pc, local>> /\ current' = [current EXCEPT ![m] = @ \cup {"cache"}]
            BY <4>2, Zenon DEF InformerSync
          <5>2. m \in DOMAIN current
            BY DEF TypeOK
          <5>3. current'[m] = current[m] \cup {"cache"}
            BY <5>1, <5>2, Zenon
          <5> QED
            BY <5>1, <5>3
        <4> QED
          BY <1>3, <4>1, <4>2, Zenon
      <3> QED
        BY <3>1, <3>2, Zenon DEF NodeDown
    <2>2. StepsElsewhere(m) /\ node' = node
      BY <1>3, ZenonT(60) DEF StepsElsewhere, InformerSync, Begin, TypeOK
    <2> QED
      BY <2>1, <2>2, OneDown
  <1>4. ASSUME NEW m \in Machine, Reconcile(m) PROVE AllDown'
    <2>1. Handler(m)
      BY <1>4, ReconcileIsHandler DEF AllSteps
    <2>2. NodeDown(m)'
      BY <1>4, ReconcileDown DEF AllSteps, AllDown
    <2> QED
      BY <1>4, <2>1, <2>2, HandlerElsewhere, ReconcileNodes, OneDown, ZenonT(60)
  <1>5. ASSUME NEW m \in Machine, WriteAccepted(m) PROVE AllDown'
    <2>1. /\ api'[m] \in {local[m], Absent} /\ pc'[m] = "idle" /\ node' = node
          /\ pc[m] = "write" /\ "local" \in current[m]
      BY <1>5, Zenon DEF WriteAccepted, Touch, Stored, TypeOK
    <2>2. NodeDown(m)'
      BY <2>1, AbsentStep, Zenon DEF AllDown, NodeDown
    <2>3. StepsElsewhere(m)
      BY <1>5, Zenon DEF StepsElsewhere, WriteAccepted, Touch, TypeOK
    <2> QED
      BY <2>1, <2>2, <2>3, OneDown, Zenon
  <1>6. ASSUME NEW m \in Machine, WriteRefused(m) PROVE AllDown'
    <2>1. NodeDown(m)'
      BY <1>6, ZenonT(60) DEF WriteRefused, Return, AllDown, NodeDown, TypeOK
    <2>2. StepsElsewhere(m) /\ node' = node
      BY <1>6 DEF StepsElsewhere, WriteRefused, Return, TypeOK
    <2> QED
      BY <2>1, <2>2, OneDown
  <1>7. ASSUME NEW m \in Machine, World(m) PROVE AllDown'
    BY <1>7, WorldDown
  <1>8. ASSUME NEW m \in Machine, NEW id \in VMId, JudgeVM(m, id) \/ CollectOrphan(m, id)
        PROVE  AllDown'
    BY <1>1, <1>8 DEF JudgeVM, CollectOrphan
  <1>9. CASE ListMachines \/ UnfreezeLists
    BY <1>1, <1>9, Zenon DEF ListMachines, UnfreezeLists
  <1>10. CASE Restart
    BY <1>10, Zenon DEF Restart, AllDown, NodeDown
  <1> QED
    BY <1>2, <1>3, <1>4, <1>5, <1>6, <1>7, <1>8, <1>9, <1>10 DEF Next

\* Only the write that drops the finalizer makes an object with a node label disappear.
LEMMA Disappears ==
  ASSUME TypeOK, AllSteps, AllDown, [Next]_vars, NEW m \in Machine,
         api[m].exists, ~api'[m].exists, api[m].lbl
  PROVE  node[m] = "absent"
  <1>0. StepInv(m) /\ NodeDown(m) /\ api[m].fin /\ api[m] \in Object
    BY Zenon DEF AllSteps, AllDown, StepInv, TypeOK
  <1>1. ASSUME UNCHANGED api PROVE FALSE
    BY <1>1
  <1>2. ASSUME NEW n \in Machine, NEW o, Touch(n, o),
               n = m => o.exists /\ o.fin
        PROVE  FALSE
    BY <1>2 DEF Touch, Stored, TypeOK
  <1>3. CASE UNCHANGED vars
    BY <1>1, <1>3, Zenon DEF vars
  <1>4. ASSUME NEW n \in Machine, InformerSync(n) \/ Begin(n) \/ WriteRefused(n) PROVE FALSE
    BY <1>1, <1>4 DEF InformerSync, Begin, WriteRefused
  <1>5. ASSUME NEW n \in Machine, Reconcile(n) PROVE FALSE
    BY <1>1, <1>5, ReconcileIsHandler, Zenon DEF Handler, AllSteps
  <1>6. ASSUME NEW n \in Machine, WriteAccepted(n) PROVE node[m] = "absent"
    <2>1. Touch(n, local[n]) /\ pc[n] = "write" /\ "local" \in current[n]
      BY <1>6 DEF WriteAccepted
    <2>2. n = m
      BY <2>1 DEF Touch, TypeOK
    <2>3. local[m].exists
      BY <1>0, <2>1, <2>2, Zenon DEF StepInv, CopiesInv
    <2>4. local[m].del /\ ~local[m].fin
      BY <2>1, <2>2, <2>3 DEF Touch, Stored, TypeOK
    <2>5. local[m].step = "InitiateFinalizerRemoval" /\ local[m].lbl
      BY <1>0, <2>1, <2>2, <2>4, Zenon DEF StepInv, CopiesInv
    <2> QED
      BY <1>0, <2>1, <2>2, <2>5, ZenonT(60) DEF NodeDown
  <1>7. ASSUME NEW n \in Machine, World(n) PROVE FALSE
    <2>0. api[n] \in Object
      BY Zenon DEF TypeOK
    <2>1. CASE UserDeletes(n)
      <3>1. PICK b \in BOOLEAN : Touch(n, [api[n] EXCEPT !.del = TRUE, !.force = b])
        BY <2>1, Zenon DEF UserDeletes
      <3> DEFINE o == [api[n] EXCEPT !.del = TRUE, !.force = b]
      <3>2. o.exists = api[n].exists /\ o.fin = api[n].fin /\ Touch(n, o)
        BY <2>0, <3>1 DEF Object
      <3> HIDE DEF o
      <3> QED
        BY <1>0, <1>2, <3>2
    <2>2. CASE PrepareMachineForDeletion(n)
      <3> DEFINE o == [api[n] EXCEPT !.del = TRUE]
      <3>1. o.exists = api[n].exists /\ o.fin = api[n].fin
        BY <2>0 DEF Object
      <3>2. Touch(n, o) \/ UNCHANGED api
        BY <2>2, Zenon DEF PrepareMachineForDeletion
      <3> HIDE DEF o
      <3> QED
        BY <1>0, <1>1, <1>2, <3>1, <3>2, Zenon
    <2>3. CASE ForceTerminatingStatus(n) \/ ResetHealth(n)
      <3>1. PICK p : Touch(n, [api[n] EXCEPT !.phase = p, !.step = "none"]) \/ UNCHANGED api
        BY <2>3, Zenon DEF ForceTerminatingStatus, ResetHealth
      <3> DEFINE o == [api[n] EXCEPT !.phase = p, !.step = "none"]
      <3>2. o.exists = api[n].exists /\ o.fin = api[n].fin
        BY <2>0 DEF Object
      <3>3. Touch(n, o) \/ UNCHANGED api
        BY <3>1
      <3> HIDE DEF o
      <3> QED
        BY <1>0, <1>1, <1>2, <3>2, <3>3
    <2> QED
      BY <1>1, <1>7, <2>1, <2>2, <2>3, Zenon DEF World, DrainTimeoutElapses, NodeJoins,
         NodeConditionFlips, NodeGoesMissing, MCMInformerSync
  <1>8. ASSUME NEW n \in Machine, NEW id \in VMId, JudgeVM(n, id) \/ CollectOrphan(n, id)
        PROVE  FALSE
    BY <1>1, <1>8, Zenon DEF JudgeVM, CollectOrphan
  <1>9. CASE ListMachines \/ UnfreezeLists \/ Restart
    BY <1>1, <1>9, Zenon DEF ListMachines, UnfreezeLists, Restart
  <1> QED
    BY <1>3, <1>4, <1>5, <1>6, <1>7, <1>8, <1>9, Zenon DEF Next

\* deleteNodeObject comes before deleteMachineFinalizers, and no VM is left whose kubelet could
\* register the node again in between: the Machine object goes only after its node object.
THEOREM NodeBeforeObject ==
  ASSUME StatusImplemented, ~ListImplemented
  PROVE  Spec => NodeGoneFirst
  <1>1. TypeOK /\ AllSteps /\ AllDown /\ [Next]_vars =>
          [\A m \in Machine : api[m].exists /\ ~api'[m].exists /\ api[m].lbl
              => node[m] = "absent"]_vars
    BY Disappears
  <1> QED
    BY <1>1, Steady, Tracking, InitAllDown, NextAllDown, PTL DEF Spec, NodeGoneFirst

-----------------------------------------------------------------------------
(***************************************************************************)
(* MachineController implements VMLease, for any set of machines and any   *)
(* number of VMs.  Only api and vms are visible there: every step leaves   *)
(* both alone, writes one object, creates one VM or deletes VMs of one     *)
(* machine; the lemmas say what is known in each case.                     *)
(***************************************************************************)
\* What the refinement needs beside TrackingInv.
LeaseInv ==
    \A m \in Machine :
       /\ api[m].del => api[m].fin
       /\ \A a, b \in vms[m] : a = b
       /\ \A id \in vms[m] : id < nextVM

\* A write of the controller, which leaves the deletion mark alone, or of somebody else,
\* who leaves the finalizer alone.
Written(m) ==
    /\ UNCHANGED <<vms, nextVM>>
    /\ api[m].exists
    /\ \E o \in Object :
          /\ api' = [api EXCEPT ![m] = Stored(o)]
          /\ o.exists
          /\ \/ o.fin = api[m].fin /\ (api[m].del => o.del)
             \/ o.del = api[m].del /\ (~o.fin => o.del /\ vms[m] = {})

\* deleteVM, for a machine that is marked for deletion or gone.
Deleted(m) ==
    /\ UNCHANGED <<api, nextVM>>
    /\ Gone(api[m])
    /\ \E pid : vms' = [vms EXCEPT ![m] = @ \ Victims(m, pid)]

\* CreateMachine, for a machine that has the finalizer and no VM.
Created(m) ==
    /\ UNCHANGED api
    /\ api[m].fin /\ vms[m] = {}
    /\ NewVM(m)

Invisible == UNCHANGED <<api, vms, nextVM>>

LEMMA WriteIsVisible ==
  ASSUME TypeOK, TrackingInv, NEW m \in Machine, WriteAccepted(m)
  PROVE  Written(m)
  <1>1. CopiesInv(m) /\ VMsInv(m)
    BY DEF TrackingInv
  <1>2. /\ pc[m] = "write" /\ "local" \in current[m] /\ local[m] \in Object
        /\ api' = [api EXCEPT ![m] = Stored(local[m])] /\ UNCHANGED <<vms, nextVM>>
    BY DEF WriteAccepted, Touch, TypeOK
  <1>3. /\ api[m].exists /\ local[m].exists /\ local[m].del = api[m].del
        /\ WellFormed(local[m])
        /\ ~local[m].fin => local[m].step = "InitiateFinalizerRemoval"
        /\ Late(local[m]) => vms[m] = {}
    BY <1>1, <1>2, Zenon DEF CopiesInv, VMsInv
  <1>4. ~local[m].fin => local[m].del /\ vms[m] = {}
    BY <1>3, Zenon DEF WellFormed, Late
  <1> QED
    BY <1>2, <1>3, <1>4, Zenon DEF Written

LEMMA OthersAreVisible ==
  ASSUME TypeOK, NEW m \in Machine, World(m)
  PROVE  Written(m) \/ Invisible
  <1>0. api[m] \in Object
    BY DEF TypeOK
  <1>1. ASSUME NEW b \in BOOLEAN, NEW p \in Phases, api[m].exists,
               NEW o \in {[api[m] EXCEPT !.del = TRUE, !.force = b],
                          [api[m] EXCEPT !.del = TRUE],
                          [api[m] EXCEPT !.phase = p, !.step = "none"]},
               Touch(m, o), UNCHANGED <<vms, nextVM>>
        PROVE  Written(m)
    <2>1. /\ o \in Object /\ o.exists /\ o.fin = api[m].fin /\ (api[m].del => o.del)
      BY <1>0, <1>1, Names, Zenon DEF Object
    <2> QED
      BY <1>1, <2>1, Zenon DEF Touch, Written
  <1>2. "Running" \in Phases /\ "Terminating" \in Phases
    BY DEF Phases
  <1>3. CASE UserDeletes(m)
    BY <1>1, <1>2, <1>3, Zenon DEF UserDeletes
  <1>4. CASE PrepareMachineForDeletion(m)
    BY <1>1, <1>2, <1>4, Zenon DEF PrepareMachineForDeletion, Invisible
  <1>5. CASE ForceTerminatingStatus(m)
    BY <1>1, <1>2, <1>5, Zenon DEF ForceTerminatingStatus, Invisible
  <1>6. CASE ResetHealth(m)
    BY <1>1, <1>2, <1>6, Zenon DEF ResetHealth, Invisible
  <1>7. CASE \/ DrainTimeoutElapses(m) \/ NodeJoins(m) \/ NodeConditionFlips(m)
             \/ NodeGoesMissing(m) \/ MCMInformerSync(m)
    BY <1>7, Zenon DEF DrainTimeoutElapses, NodeJoins, NodeConditionFlips, NodeGoesMissing,
                MCMInformerSync, Invisible
  <1> QED
    BY <1>3, <1>4, <1>5, <1>6, <1>7, ZenonT(60) DEF World

LEMMA ReconcileIsVisible ==
  ASSUME TypeOK, TrackingInv, StatusImplemented, NEW m \in Machine, Reconcile(m)
  PROVE  Created(m) \/ Deleted(m) \/ Invisible
  <1>1. CASE CreateVM(m) \/ CreateVMFails(m)
    <2>1. Creating(m) /\ vms[m] = {} /\ UNCHANGED api
      BY <1>1, Zenon DEF CreateVM, CreateVMFails, StatusNotFound
    <2>2. api[m].fin
      BY <2>1, CreatingIsLive DEF Creatable
    <2> QED
      BY <1>1, <2>1, <2>2, Zenon DEF CreateVM, CreateVMFails, Created, Invisible
  <1>2. CASE DeleteVM(m) \/ DeleteVMFails(m)
    <2>1. local[m].del /\ pc[m] = "reconcile"
      BY <1>2, Zenon DEF DeleteVM, DeleteVMFails, AtStep, Deleting
    <2>2. Gone(api[m])
      BY <2>1, Zenon DEF TrackingInv, CopiesInv
    <2> QED
      BY <1>2, <2>2, Zenon DEF DeleteVM, DeleteVMFails, Deleted, Invisible
  <1>3. CASE ~(CreateVM(m) \/ CreateVMFails(m) \/ DeleteVM(m) \/ DeleteVMFails(m))
    BY <1>3, Zenon DEF Reconcile, ReconcileRefused, AddMachineFinalizers, HealthChanged,
                HealthTimeout, HealthUnchanged, AdoptVM, CreationKeepsLabel,
                CreationStatusFails, SetMachineTerminationStatus, GetVMStatus,
                GetVMStatusFails, SkipDrain, DrainSucceeds, DrainFails, DeleteNodeObject,
                DeleteNodeObjectFails, DeleteMachineFinalizers, Invisible
  <1> QED
    BY <1>1, <1>2, <1>3

LEMMA Visible ==
  ASSUME TypeOK, TrackingInv, StatusImplemented, ~ListImplemented, [Next]_vars
  PROVE  Invisible \/ \E m \in Machine : Written(m) \/ Created(m) \/ Deleted(m)
  <1>1. CASE UNCHANGED vars
    BY <1>1 DEF vars, Invisible
  <1>2. ASSUME NEW m \in Machine, InformerSync(m) \/ Begin(m) \/ WriteRefused(m)
        PROVE  Invisible
    BY <1>2, Zenon DEF InformerSync, Begin, WriteRefused, Invisible
  <1>3. ASSUME NEW m \in Machine, NEW id \in VMId
        PROVE  ~JudgeVM(m, id) /\ ~CollectOrphan(m, id)
    BY DEF JudgeVM, CollectOrphan, TrackingInv
  <1>4. CASE ListMachines \/ UnfreezeLists \/ Restart
    BY <1>4, Zenon DEF ListMachines, UnfreezeLists, Restart, Invisible
  <1> QED
    BY <1>1, <1>2, <1>3, <1>4, WriteIsVisible, OthersAreVisible, ReconcileIsVisible,
       ZenonT(60) DEF Next
-----------------------------------------------------------------------------
(***************************************************************************)
(* Each visible change is a step of VMLease, and keeps LeaseInv.           *)
(***************************************************************************)
leases == [m \in Machine |-> LeaseOf(api[m])]

LEMMA LeaseChanges ==
  ASSUME TypeOK, NEW m \in Machine, NEW o, api' = [api EXCEPT ![m] = o]
  PROVE  leases' = [leases EXCEPT ![m] = LeaseOf(o)]
  <1>1. \A n \in Machine : api'[n] = IF n = m THEN o ELSE api[n]
    BY DEF TypeOK
  <1>2. \A n \in Machine : LeaseOf(api'[n]) = IF n = m THEN LeaseOf(o) ELSE LeaseOf(api[n])
    BY <1>1
  <1>3. leases' = [n \in Machine |-> LeaseOf(api'[n])]
    BY DEF leases, LeaseOf
  <1> QED
    BY <1>2, <1>3, Zenon DEF leases

LEMMA WrittenIsLeaseStep ==
  ASSUME TypeOK, TrackingInv, LeaseInv, NEW m \in Machine, Written(m)
  PROVE  LeaseInv' /\ (Lease!Next \/ UNCHANGED <<leases, vms>>)
  <1>1. PICK o \in Object :
          /\ api' = [api EXCEPT ![m] = Stored(o)] /\ o.exists
          /\ \/ o.fin = api[m].fin /\ (api[m].del => o.del)
             \/ o.del = api[m].del /\ (~o.fin => o.del /\ vms[m] = {})
    BY Zenon DEF Written
  <1>2. /\ vms' = vms /\ nextVM' = nextVM /\ api[m].exists /\ api[m] \in Object
        /\ api[m].del => api[m].fin
        /\ vms[m] # {} => api[m].fin
    BY Zenon DEF Written, LeaseInv, TypeOK, TrackingInv, VMsInv
  <1>3. leases' = [leases EXCEPT ![m] = LeaseOf(Stored(o))] /\ leases[m] = LeaseOf(api[m])
    BY <1>1, LeaseChanges, Zenon DEF leases
  <1>4. \A n \in Machine : api'[n] = IF n = m THEN Stored(o) ELSE api[n]
    BY <1>1 DEF TypeOK
  <1>5. Stored(o).del => Stored(o).fin
    BY AbsentFields DEF Stored
  <1>6. LeaseInv'
    BY <1>2, <1>4, <1>5, Zenon DEF LeaseInv
  <1>7. o.del \in BOOLEAN /\ o.fin \in BOOLEAN /\ api[m].del \in BOOLEAN /\ api[m].fin \in BOOLEAN
    BY <1>2 DEF Object
  <1>8. CASE o.del /\ ~o.fin
    <2>1. LeaseOf(Stored(o)) = "released"
      BY <1>8, AbsentFields DEF Stored, LeaseOf
    <2>2. vms[m] = {} /\ LeaseOf(api[m]) \in {"new", "ending"}
      BY <1>1, <1>2, <1>7, <1>8, Zenon DEF LeaseOf
    <2>3. Lease!Release(m)
      BY <1>2, <1>3, <2>1, <2>2, Zenon DEF Lease!Release, leases
    <2> QED
      BY <1>6, <2>3, Zenon DEF Lease!Next
  <1>9. CASE o.del /\ o.fin
    <2>1. LeaseOf(Stored(o)) = "ending"
      BY <1>1, <1>9, Zenon DEF Stored, LeaseOf
    <2>2. LeaseOf(api[m]) \in {"held", "ending"}
      BY <1>1, <1>2, <1>7, <1>9, Zenon DEF LeaseOf
    <2>3. CASE LeaseOf(api[m]) = "held"
      <3>1. Lease!Revoke(m)
        BY <1>2, <1>3, <2>1, <2>3 DEF Lease!Revoke, leases
      <3> QED
        BY <1>6, <3>1, Zenon DEF Lease!Next
    <2>4. CASE LeaseOf(api[m]) = "ending"
      BY <1>2, <1>3, <1>6, <2>1, <2>4, Zenon DEF leases
    <2> QED
      BY <2>2, <2>3, <2>4, Zenon
  <1>10. CASE ~o.del
    <2>1. Stored(o) = o /\ ~api[m].del
      BY <1>1, <1>10, Zenon DEF Stored
    <2>2. CASE o.fin = api[m].fin
      <3>1. LeaseOf(Stored(o)) = LeaseOf(api[m])
        BY <1>1, <1>2, <1>10, <2>1, <2>2, Zenon DEF LeaseOf
      <3> QED
        BY <1>2, <1>3, <1>6, <3>1, Zenon DEF leases
    <2>3. CASE o.fin /\ ~api[m].fin
      <3>1. LeaseOf(Stored(o)) = "held" /\ LeaseOf(api[m]) = "new"
        BY <1>1, <1>2, <1>10, <2>1, <2>3, Zenon DEF LeaseOf
      <3>2. Lease!Acquire(m)
        BY <1>2, <1>3, <3>1, Zenon DEF Lease!Acquire, leases
      <3> QED
        BY <1>6, <3>2 DEF Lease!Next
    <2> QED
      BY <1>1, <1>7, <1>10, <2>2, <2>3
  <1> QED
    BY <1>7, <1>8, <1>9, <1>10

LEMMA CreatedIsLeaseStep ==
  ASSUME TypeOK, TrackingInv, LeaseInv, NEW m \in Machine, Created(m)
  PROVE  LeaseInv' /\ Lease!Next
  <1>1. /\ api' = api /\ vms' = [vms EXCEPT ![m] = {nextVM}] /\ nextVM' = nextVM + 1
        /\ nextVM \in VMId /\ nextVM \in Nat /\ vms[m] = {} /\ api[m].fin
    BY VMIds DEF Created, NewVM
  <1>2. \A n \in Machine : vms'[n] = IF n = m THEN {nextVM} ELSE vms[n]
    BY <1>1 DEF TypeOK
  <1>3. \A n \in Machine : vms[n] \subseteq Nat
    BY VMIds, Zenon DEF TypeOK
  <1>4. LeaseInv'
    <2>1. ASSUME NEW n \in Machine, NEW id \in vms'[n] PROVE id < nextVM'
      <3>1. id = nextVM \/ (id \in Nat /\ id < nextVM)
        BY <1>2, <1>3 DEF LeaseInv
      <3>2. nextVM \in Nat /\ nextVM' = nextVM + 1
        BY <1>1, Zenon
      <3> QED
        BY <3>1, <3>2
    <2>2. ASSUME NEW n \in Machine, NEW a \in vms'[n], NEW b \in vms'[n] PROVE a = b
      <3>1. CASE n = m
        BY <1>2, <3>1
      <3>2. CASE n # m
        BY <1>2, <3>2, Zenon DEF LeaseInv
      <3> QED
        BY <3>1, <3>2, Zenon
    <2> QED
      BY <1>1, <2>1, <2>2 DEF LeaseInv
  <1>5. leases[m] \in {"held", "ending"} /\ leases' = leases
    <2>1. api[m].exists
      BY <1>1, Zenon DEF TrackingInv, CopiesInv, WellFormed
    <2> QED
      BY <1>1, <2>1 DEF leases, LeaseOf
  <1>6. \A n \in Machine : nextVM \notin vms[n]
    BY <1>1, <1>3 DEF LeaseInv
  <1>7. Lease!Create(m)
    BY <1>1, <1>5, <1>6, Zenon DEF Lease!Create, leases
  <1> QED
    BY <1>4, <1>7 DEF Lease!Next

LEMMA DeletedIsLeaseStep ==
  ASSUME TypeOK, TrackingInv, LeaseInv, NEW m \in Machine, Deleted(m)
  PROVE  LeaseInv' /\ (Lease!Next \/ UNCHANGED <<leases, vms>>)
  <1>1. PICK pid : vms' = [vms EXCEPT ![m] = @ \ Victims(m, pid)]
    BY Zenon DEF Deleted
  <1>2. api' = api /\ nextVM' = nextVM /\ Gone(api[m]) /\ leases' = leases
    BY DEF Deleted, leases
  <1>3. \A n \in Machine : vms'[n] \subseteq vms[n]
    BY <1>1 DEF TypeOK
  <1>4. LeaseInv'
    BY <1>2, <1>3, Zenon DEF LeaseInv
  <1>5. CASE vms'[m] = vms[m]
    <2>1. vms' = vms
      BY <1>1, <1>5 DEF TypeOK
    <2> QED
      BY <1>2, <1>4, <2>1, Zenon
  <1>6. CASE vms'[m] # vms[m]
    <2>1. vms'[m] = {} /\ vms[m] # {}
      <3>1. PICK id \in vms[m] : id \notin vms'[m]
        BY <1>3, <1>6
      <3>2. \A a \in vms[m] : a = id
        BY <3>1 DEF LeaseInv
      <3> QED
        BY <1>3, <3>1, <3>2
    <2>2. vms' = [vms EXCEPT ![m] = {}]
      BY <1>1, <2>1, Zenon DEF TypeOK
    <2>3. api[m].exists /\ api[m].del
      BY <1>2, <2>1, Zenon DEF TrackingInv, VMsInv, CopiesInv, WellFormed, Gone
    <2>4. leases[m] = "ending"
      BY <2>3 DEF leases, LeaseOf
    <2>5. Lease!Destroy(m)
      BY <1>2, <2>2, <2>4 DEF Lease!Destroy, leases
    <2> QED
      BY <1>4, <2>5, Zenon DEF Lease!Next
  <1> QED
    BY <1>5, <1>6

LEMMA NextIsLeaseStep ==
  ASSUME StatusImplemented, ~ListImplemented
  PROVE  TypeOK /\ TrackingInv /\ LeaseInv /\ [Next]_vars => LeaseInv' /\ [Lease!Next]_(Lease!vars)
  <1> SUFFICES ASSUME TypeOK, TrackingInv, LeaseInv, [Next]_vars
               PROVE  LeaseInv' /\ (Lease!Next \/ UNCHANGED <<leases, vms>>)
    BY DEF Lease!vars, leases
  <1>1. CASE Invisible
    BY <1>1 DEF Invisible, LeaseInv, leases
  <1> QED
    BY <1>1, Visible, WrittenIsLeaseStep, CreatedIsLeaseStep, DeletedIsLeaseStep, ZenonT(60)

LEMMA InitIsLeaseInit == Init => LeaseInv /\ Lease!Init
  <1> SUFFICES ASSUME Init PROVE LeaseInv /\ Lease!Init
    OBVIOUS
  <1>1. \A m \in Machine : api[m] = NewMachine /\ vms[m] = {}
    BY DEF Init
  <1>2. NewMachine.exists /\ ~NewMachine.del /\ ~NewMachine.fin
    BY DEF NewMachine, Absent
  <1>3. LeaseInv
    BY <1>1, <1>2 DEF LeaseInv
  <1>4. \A m \in Machine : LeaseOf(api[m]) = "new"
    BY <1>1, <1>2 DEF LeaseOf
  <1> QED
    BY <1>3, <1>4 DEF Init, Lease!Init

\* The machine controller implements VMLease: whatever is interleaved, lost, repeated or
\* read from a stale cache, a VM is only created for a machine with a finalizer and without
\* a VM, never belongs to two machines, is only deleted once the machine is marked for
\* deletion, and the finalizer goes last.  For drivers with GetMachineStatus, without the
\* collector.
THEOREM LeaseRefinement ==
  ASSUME StatusImplemented, ~ListImplemented
  PROVE  Spec => LeaseKept
  <1>1. TypeOK /\ TrackingInv /\ LeaseInv /\ [Next]_vars => LeaseInv' /\ [Lease!Next]_(Lease!vars)
    BY NextIsLeaseStep
  <1>2. Spec => []TypeOK /\ []TrackingInv
    BY TypeCorrect, Tracking
  <1> QED
    BY <1>1, <1>2, InitIsLeaseInit, PTL DEF Spec, LeaseKept, Lease!Spec
=============================================================================
