--------------------------- MODULE MachineSetProofs ---------------------------
(***************************************************************************)
(* The machine set controller, for any finite set of machines and any      *)
(* scenarios: its variables keep their types, slow start never creates     *)
(* more machines than the list lacks or than BurstReplicas allows, and a   *)
(* sync from an up-to-date list ends with the number asked for.            *)
(***************************************************************************)
EXTENDS MachineSetController, FiniteSetTheorems, TLAPS

\* While slowStartBatch runs, the next batch is not empty and fits in what
\* remains, and what remains fits in what the list of the sync lacks.  The
\* type invariant is not inductive without the first half: what remains after
\* a batch would not be seen to be at least zero.
SlowStartInv ==
    pc = "create" =>
        /\ 1 <= batch /\ batch <= need
        /\ need + Cardinality(Active(copy)) <= snap.replicas

\* What a scenario is.
LEMMA EnvType ==
  ASSUME env \in Scenarios
  PROVE  env.replicas \in Nat /\ env.burst \in Nat /\ env.burst >= 1
  BY ScenariosAssumption DEF Scenario

\* The number of active machines of a list is a natural number.
LEMMA ActiveCount ==
  ASSUME NEW objects
  PROVE  Cardinality(Active(objects)) \in Nat
<1>1. Active(objects) \subseteq Machine
  BY DEF Active, Listed
<1>2. IsFiniteSet(Active(objects))
  BY <1>1, MachineAssumption, FS_Subset
<1> QED
  BY <1>2, FS_CardinalityType

\* The objects and sets the controller makes are objects and sets.
LEMMA Objects ==
  /\ Absent \in Object
  /\ Created \in Object
  /\ Nothing \in [Machine -> Object]
  /\ \A o \in Object : Deleted(o) \in Object
  /\ \A o \in Object, p \in Phase : [o EXCEPT !.phase = p] \in Object
  BY ZenonT(60) DEF Absent, Created, Nothing, Object, Phase, Deleted

\* A write to one machine.
LEMMA WriteType ==
  ASSUME NEW f \in [Machine -> Object], NEW m \in Machine
  PROVE  /\ [f EXCEPT ![m] = Absent] \in [Machine -> Object]
         /\ [f EXCEPT ![m] = Deleted(@)] \in [Machine -> Object]
         /\ \A p \in Phase : [f EXCEPT ![m].phase = p] \in [Machine -> Object]
<1>1. f[m] \in Object
  OBVIOUS
<1>2. \A p \in Phase : [f[m] EXCEPT !.phase = p] \in Object
  BY <1>1, Objects
<1>3. \A p \in Phase : [f EXCEPT ![m].phase = p] \in [Machine -> Object]
  BY <1>2
<1>4. [f EXCEPT ![m] = Absent] \in [Machine -> Object]
  BY Objects
<1>5. Deleted(f[m]) \in Object
  BY <1>1, Objects
<1>6. [f EXCEPT ![m] = Deleted(@)] \in [Machine -> Object]
  BY <1>5
<1> QED
  BY <1>3, <1>4, <1>6

LEMMA NewSet ==
  ASSUME env \in Scenarios
  PROVE  NewMachineSet \in MachineSet
  BY EnvType DEF NewMachineSet, MachineSet

\* The types hold at the start.
LEMMA TypeInit == Init => TypeOK /\ SlowStartInv
<1> SUFFICES ASSUME Init PROVE TypeOK /\ SlowStartInv
  OBVIOUS
<1>1. env.burst \in Nat
  BY EnvType DEF Init
<1>2. set \in MachineSet /\ snap \in MachineSet
  BY NewSet DEF Init
<1>3. need \in 0 .. env.burst /\ batch \in 0 .. env.burst
  BY <1>1 DEF Init
<1>4. pending \in [Machine -> {"none", "delete", "status"}]
  BY DEF Init
<1>5. pc = "idle"
  BY DEF Init
<1> QED
  BY <1>2, <1>3, <1>4, <1>5, Objects, Zenon DEF Init, TypeOK, SlowStartInv

\* The set of machine sets depends on the scenario only, which never changes.
LEMMA SameSets == env' = env => MachineSet' = MachineSet
  BY DEF MachineSet

\* A step outside the sync: what it writes has its type, the sync has not moved.
LEMMA OutsideStep ==
  ASSUME TypeOK, SlowStartInv, env' = env, UNCHANGED sync, set' \in MachineSet,
         api' \in [Machine -> Object], cache' \in [Machine -> Object], calm' \in BOOLEAN
  PROVE  TypeOK' /\ SlowStartInv'
<1>1. pc' = pc /\ snap' = snap /\ copy' = copy /\ pending' = pending /\ need' = need /\ batch' = batch
  BY DEF sync
<1>2. TypeOK'
  BY <1>1, SameSets, Zenon DEF TypeOK
<1>3. Active(copy)' = Active(copy)
  BY <1>1 DEF Active, Listed, IsMachineActive
<1>4. SlowStartInv'
  BY <1>1, <1>3, Zenon DEF SlowStartInv
<1> QED
  BY <1>2, <1>4

\* A step that ends the sync.
LEMMA ReturnStep ==
  ASSUME TypeOK, Return, UNCHANGED <<env, set, api, cache>>
  PROVE  TypeOK' /\ SlowStartInv'
<1>1. env \in Scenarios /\ env' = env
  BY DEF TypeOK
<1>2. need' \in 0 .. env.burst /\ batch' \in 0 .. env.burst
  BY <1>1, EnvType DEF Return
<1>3. snap' \in MachineSet /\ copy' \in [Machine -> Object]
  BY <1>1, NewSet, Objects DEF Return
<1>4. pending' \in [Machine -> {"none", "delete", "status"}]
  BY DEF Return
<1>5. TypeOK'
  BY <1>1, <1>2, <1>3, <1>4, SameSets, Zenon DEF TypeOK, Return
<1>6. SlowStartInv'
  BY DEF SlowStartInv, Return
<1> QED
  BY <1>5, <1>6

\* A step of the sync that is not part of slow start.
LEMMA SyncStep ==
  ASSUME TypeOK, env' = env, UNCHANGED <<need, batch>>, pc' # "create", set' \in MachineSet,
         api' \in [Machine -> Object], cache' = cache, snap' \in MachineSet,
         pc' \in {"idle", "finalizer", "list", "stale", "create", "excess", "status"},
         copy' \in [Machine -> Object], calm' \in BOOLEAN,
         pending' \in [Machine -> {"none", "delete", "status"}]
  PROVE  TypeOK' /\ SlowStartInv'
<1>1. TypeOK'
  BY SameSets, Zenon DEF TypeOK
<1>2. SlowStartInv'
  BY DEF SlowStartInv
<1> QED
  BY <1>1, <1>2

\* The goroutines terminateMachines starts.
LEMMA TerminatingType ==
  ASSUME NEW machines
  PROVE  Terminating(machines) \in [Machine -> {"none", "delete", "status"}]
  BY DEF Terminating

\* Get, list, the failed machines, the finalizer.
LEMMA ListStep ==
  ASSUME TypeOK, SlowStartInv, Fetch \/ AddMachineSetFinalizers \/ List \/ ExcessDone
  PROVE  TypeOK' /\ SlowStartInv'
<1>1. CASE Fetch
  <2>1. set' \in MachineSet /\ snap' \in MachineSet
    BY <1>1 DEF Fetch, TypeOK, MachineSet
  <2>2. /\ env' = env /\ UNCHANGED <<need, batch, api, cache, copy, calm, pending>>
        /\ pc' \in {"finalizer", "list"}
    BY <1>1 DEF Fetch
  <2> QED
    BY <2>1, <2>2, SyncStep DEF TypeOK
<1>4. CASE AddMachineSetFinalizers
  <2>1. set' \in MachineSet /\ snap' \in MachineSet
    BY <1>4 DEF AddMachineSetFinalizers, TypeOK, MachineSet
  <2>2. env' = env /\ UNCHANGED <<need, batch, api, cache, copy, calm, pending>> /\ pc' = "list"
    BY <1>4 DEF AddMachineSetFinalizers
  <2> QED
    BY <2>1, <2>2, SyncStep DEF TypeOK
<1>2. CASE List
  <2>1. set' \in MachineSet
    <3>1. set' = set \/ DeleteMachineSetFinalizers
      BY <1>2 DEF List
    <3> QED
      BY <3>1, ZenonT(60) DEF DeleteMachineSetFinalizers, TypeOK, MachineSet
  <2>2. pending' \in [Machine -> {"none", "delete", "status"}]
    BY <1>2, TerminatingType DEF List, TypeOK
  <2>3. calm' \in BOOLEAN
    BY <1>2 DEF List
  <2>4. env' = env /\ UNCHANGED <<need, batch, api, cache, snap>> /\ copy' = cache
        /\ pc' \in {"stale", "status", "excess"}
    BY <1>2 DEF List
  <2> QED
    BY <2>1, <2>2, <2>3, <2>4, SyncStep DEF TypeOK
<1>3. CASE ExcessDone
  <2>1. env' = env /\ UNCHANGED <<set, api, cache, snap, copy, pending, need, batch, calm>>
        /\ pc' = "status"
    BY <1>3 DEF ExcessDone
  <2> QED
    BY <2>1, SyncStep DEF TypeOK
<1> QED
  BY <1>1, <1>2, <1>3, <1>4

\* manageReplicas: slow start begins with one machine, and with what is missing.
LEMMA ManageStep == TypeOK /\ SlowStartInv /\ ManageReplicas => TypeOK' /\ SlowStartInv'
<1> SUFFICES ASSUME TypeOK, ManageReplicas PROVE TypeOK' /\ SlowStartInv'
  OBVIOUS
<1> DEFINE n == Cardinality(Active(copy))
           diff == n - snap.replicas
<1>1. n \in Nat /\ snap.replicas \in Nat /\ env.burst \in Nat /\ env.burst >= 1
  BY ActiveCount, EnvType DEF TypeOK, MachineSet
<1>2. env' = env /\ UNCHANGED <<set, api, cache, snap, copy, calm>>
  BY DEF ManageReplicas
<1>3. CASE /\ diff < 0
           /\ need' = Smaller(-diff, env.burst)
           /\ batch' = 1
           /\ pc' = "create"
           /\ UNCHANGED pending
  <2> HIDE DEF n
  <2>1. /\ need' \in 0 .. env.burst
        /\ batch' \in 0 .. env.burst
        /\ 1 <= batch' /\ batch' <= need'
        /\ need' + n <= snap.replicas
    BY <1>1, <1>3 DEF Smaller
  <2>2. n' = n /\ n = Cardinality(Active(copy))
    BY <1>2 DEF n, Active, Listed, IsMachineActive
  <2>3. Cardinality(Active(copy))' = n
    BY <2>2 DEF n
  <2>4. TypeOK'
    BY <1>2, <1>3, <2>1, SameSets, Zenon DEF TypeOK
  <2>5. SlowStartInv'
    BY <1>2, <2>1, <2>3, Zenon DEF SlowStartInv
  <2> QED
    BY <2>4, <2>5
<1>4. CASE pc' \in {"status", "excess"} /\ UNCHANGED <<need, batch>>
           /\ pending' \in [Machine -> {"none", "delete", "status"}]
  BY <1>2, <1>4, SyncStep DEF TypeOK
<1>5. QED
  BY <1>3, <1>4, TerminatingType DEF ManageReplicas, TypeOK

\* A batch takes its size off what remains, and the next one fits again.
LEMMA BatchStep == TypeOK /\ SlowStartInv /\ CreateBatch => TypeOK' /\ SlowStartInv'
<1> SUFFICES ASSUME TypeOK, SlowStartInv, CreateBatch PROVE TypeOK' /\ SlowStartInv'
  OBVIOUS
<1>1. PICK born \in SUBSET Unborn, failed \in BOOLEAN :
        /\ api' = [m \in Machine |-> IF m \in born THEN Created ELSE api[m]]
        /\ calm' = (calm /\ ~failed /\ Cardinality(born) = batch)
        /\ need' = IF failed THEN 0 ELSE LeftAfter(need, batch)
        /\ batch' = NextBatch(batch, need')
  BY Zenon DEF CreateBatch
<1>2. /\ pc = "create" /\ pc' = IF need' = 0 THEN "status" ELSE "create"
      /\ env' = env /\ UNCHANGED <<set, cache, snap, copy, pending>>
  BY Zenon DEF CreateBatch
<1> DEFINE n == Cardinality(Active(copy))
<1>3. n \in Nat /\ snap.replicas \in Nat /\ env.burst \in Nat
  BY ActiveCount, EnvType DEF TypeOK, MachineSet
<1>4. need \in 0 .. env.burst /\ batch \in 0 .. env.burst
  BY DEF TypeOK
<1>5. 1 <= batch /\ batch <= need /\ need + n <= snap.replicas
  BY <1>2 DEF SlowStartInv
<1>6. api' \in [Machine -> Object] /\ calm' \in BOOLEAN
  BY <1>1, Objects DEF TypeOK
<1> HIDE DEF n
<1>7. /\ need' \in 0 .. env.burst
      /\ batch' \in 0 .. env.burst
      /\ need' # 0 => 1 <= batch' /\ batch' <= need'
      /\ need' + n <= snap.replicas
  BY <1>1, <1>3, <1>4, <1>5 DEF LeftAfter, NextBatch, Smaller
<1>8. Cardinality(Active(copy))' = n
  BY <1>2 DEF n, Active, Listed, IsMachineActive
<1>9. pc' \in {"status", "create"} /\ (pc' = "create" => need' # 0)
  BY <1>2
<1>10. TypeOK'
  BY <1>2, <1>6, <1>7, <1>9, SameSets, Zenon DEF TypeOK
<1>11. SlowStartInv'
  BY <1>2, <1>7, <1>8, <1>9, Zenon DEF SlowStartInv
<1> QED
  BY <1>10, <1>11

\* The goroutines of terminateMachines.
LEMMA PrepareStep ==
  ASSUME TypeOK, SlowStartInv, NEW m \in Machine,
         PrepareDelete(m) \/ PrepareReturns(m) \/ PrepareDeleteFails(m) \/ PrepareStatus(m)
  PROVE  TypeOK' /\ SlowStartInv'
<1>1. env' = env /\ UNCHANGED <<set, cache, pc, snap, copy, need, batch, calm>>
  BY Zenon DEF PrepareDelete, PrepareReturns, PrepareDeleteFails, PrepareStatus
<1>2. pending' \in [Machine -> {"none", "delete", "status"}]
  BY Zenon DEF PrepareDelete, PrepareReturns, PrepareDeleteFails, PrepareStatus, TypeOK
<1>3. api' \in [Machine -> Object]
  <2>1. \/ api' = api
        \/ api' = [api EXCEPT ![m] = Deleted(@)]
        \/ api' = [api EXCEPT ![m] = Absent]
        \/ api' = [api EXCEPT ![m].phase = IF api[m].there THEN "Terminating" ELSE api[m].phase]
    BY Zenon DEF PrepareDelete, PrepareReturns, PrepareDeleteFails, PrepareStatus
  <2>2. api \in [Machine -> Object] /\ api[m].phase \in Phase /\ "Terminating" \in Phase
    BY DEF TypeOK, Object, Phase
  <2>3. (IF api[m].there THEN "Terminating" ELSE api[m].phase) \in Phase
    BY <2>2
  <2> QED
    BY <2>1, <2>2, <2>3, WriteType
<1>4. TypeOK'
  BY <1>1, <1>2, <1>3, SameSets, Zenon DEF TypeOK
<1>5. Active(copy)' = Active(copy)
  BY <1>1 DEF Active, Listed, IsMachineActive
<1>6. SlowStartInv'
  BY <1>1, <1>5, Zenon DEF SlowStartInv
<1> QED
  BY <1>4, <1>6

\* The users of the set.
LEMMA SetStep ==
  ASSUME TypeOK, SlowStartInv, Scale \/ Freeze \/ DeleteSet
  PROVE  TypeOK' /\ SlowStartInv'
<1>1. env' = env /\ UNCHANGED <<api, cache, sync, calm>>
  BY Zenon DEF Scale, Freeze, DeleteSet
<1>2. set' \in MachineSet
  BY Zenon DEF Scale, Freeze, DeleteSet, TypeOK, MachineSet
<1> QED
  BY <1>1, <1>2, OutsideStep DEF TypeOK

\* The lister and the machine controller.
LEMMA MachineStep ==
  ASSUME TypeOK, SlowStartInv, NEW m \in Machine,
         \/ InformerSync(m) \/ Joins(m) \/ Fails(m) \/ Recovers(m) \/ DeleteMachine(m)
         \/ DeletionStarts(m) \/ DeletionEnds(m)
  PROVE  TypeOK' /\ SlowStartInv'
<1> USE DEF InformerSync, Joins, Fails, Recovers, DeleteMachine, DeletionStarts, DeletionEnds
<1>1. env' = env /\ set' = set /\ UNCHANGED sync
  BY Zenon
<1>2. calm' \in BOOLEAN
  BY Zenon DEF TypeOK
<1>3. cache' \in [Machine -> Object]
  BY Zenon DEF TypeOK
<1>4. api' \in [Machine -> Object]
  <2>1. \/ api' = api
        \/ api' = [api EXCEPT ![m] = Deleted(@)]
        \/ api' = [api EXCEPT ![m] = Absent]
        \/ \E p \in {"Running", "Failed", "Terminating"} : api' = [api EXCEPT ![m].phase = p]
    BY Zenon
  <2>2. api \in [Machine -> Object] /\ {"Running", "Failed", "Terminating"} \subseteq Phase
    BY Zenon DEF TypeOK, Phase
  <2> HIDE DEF InformerSync, Joins, Fails, Recovers, DeleteMachine, DeletionStarts, DeletionEnds
  <2>3. CASE \E p \in {"Running", "Failed", "Terminating"} : api' = [api EXCEPT ![m].phase = p]
    BY <2>2, <2>3, WriteType
  <2> QED
    BY <2>1, <2>2, <2>3, WriteType
<1> QED
  BY <1>1, <1>2, <1>3, <1>4, OutsideStep, Zenon DEF TypeOK

\* Every step keeps the types and the bounds of slow start.
LEMMA TypeStep == TypeOK /\ SlowStartInv /\ [Next]_vars => TypeOK' /\ SlowStartInv'
<1> SUFFICES ASSUME TypeOK, SlowStartInv, [Next]_vars PROVE TypeOK' /\ SlowStartInv'
  OBVIOUS
<1>1. CASE Fetch \/ AddMachineSetFinalizers \/ List \/ ExcessDone
  BY <1>1, ListStep
<1>2. CASE ManageReplicas
  BY <1>2, ManageStep
<1>3. CASE CreateBatch
  BY <1>3, BatchStep
<1>4. CASE ListFails \/ UpdateStatus
  BY <1>4, ReturnStep, Zenon DEF ListFails, UpdateStatus
<1>5. CASE Scale \/ Freeze \/ DeleteSet
  BY <1>5, SetStep
<1>6. ASSUME NEW m \in Machine,
             PrepareDelete(m) \/ PrepareReturns(m) \/ PrepareDeleteFails(m) \/ PrepareStatus(m)
      PROVE  TypeOK' /\ SlowStartInv'
  BY <1>6, PrepareStep
<1>7. ASSUME NEW m \in Machine,
             \/ InformerSync(m) \/ Joins(m) \/ Fails(m) \/ Recovers(m) \/ DeleteMachine(m)
             \/ DeletionStarts(m) \/ DeletionEnds(m)
      PROVE  TypeOK' /\ SlowStartInv'
  BY <1>7, MachineStep
<1>8. CASE UNCHANGED vars
  BY <1>8, OutsideStep DEF vars, sync, TypeOK
<1> QED
  BY <1>1, <1>2, <1>3, <1>4, <1>5, <1>6, <1>7, <1>8, Zenon DEF Next

\* The type invariant and the bounds of slow start, for every value of the
\* constants: one sync creates at most BurstReplicas machines, and at most as
\* many as its list lacks, whatever else happens meanwhile
\* (machineset.go:370-404, 579-605).
THEOREM SlowStartBounded == Spec => [](TypeOK /\ SlowStartInv)
  BY TypeInit, TypeStep, PTL DEF Spec


(***************************************************************************)
(* One sync from an up-to-date list, with nothing else counting up or down *)
(* (calm): it ends with the number of active machines that it aims at.     *)
(***************************************************************************)
\* No call is under way, and no active machine is about to go.
Settled == NonePending /\ \A m \in Active(api) : ~api[m].deleting

\* Of the machines listed as active, those in gone are being deleted by this sync and no
\* others: such a machine may count as active until its status is written, whereas the
\* other machines terminated, the failed ones, do not count.
Leaves(gone) ==
    /\ \A m \in Active(copy) \ gone :
          m \in Active(api) /\ ~api[m].deleting /\ pending[m] = "none"
    /\ \A m \in Active(api) : m \in Active(copy) /\ (m \in gone => pending[m] # "none")

FreshInv ==
    /\ pc \in {"idle", "finalizer", "list"} => NonePending /\ ~calm
    /\ calm /\ ~snap.deleting =>
          /\ \A m \in Active(copy) : ~copy[m].deleting
          /\ pc = "stale" => Leaves({})
          /\ pc = "excess" => \E gone \in SUBSET Active(copy) :
                Leaves(gone) /\ Cardinality(Active(copy)) - Cardinality(gone) = Target
          /\ pc = "create" => Settled /\ Cardinality(Active(api)) + need = Target
          /\ pc = "status" => Settled /\ Cardinality(Active(api)) = Target

\* Counting machines that come and go.
LEMMA Counts ==
  ASSUME NEW a \in SUBSET Machine, NEW b \in SUBSET Machine
  PROVE  /\ Cardinality(a) \in Nat /\ Cardinality(b) \in Nat
         /\ a \cap b = {} => Cardinality(a \cup b) = Cardinality(a) + Cardinality(b)
         /\ b \subseteq a => Cardinality(a \ b) = Cardinality(a) - Cardinality(b)
<1>1. \A x \in SUBSET Machine : IsFiniteSet(x) /\ Cardinality(x) \in Nat
  BY MachineAssumption, FS_Subset, FS_CardinalityType
<1>2. ASSUME NEW x \in SUBSET Machine, NEW y \in SUBSET Machine, x \cap y = {}
      PROVE  Cardinality(x \cup y) = Cardinality(x) + Cardinality(y)
  <2>1. IsFiniteSet(x) /\ IsFiniteSet(y) /\ Cardinality(x) \in Nat /\ Cardinality(y) \in Nat
    BY <1>1
  <2>2. Cardinality(x \cup y) = Cardinality(x) + Cardinality(y) - Cardinality(x \cap y)
    BY <2>1, FS_Union
  <2>3. Cardinality(x \cap y) = 0
    BY <1>2, FS_EmptySet
  <2> QED
    BY <2>1, <2>2, <2>3
<1>3. ASSUME b \subseteq a PROVE Cardinality(a \ b) = Cardinality(a) - Cardinality(b)
  <2> DEFINE d == a \ b
  <2>1. d \in SUBSET Machine /\ d \cap b = {} /\ d \cup b = a
    BY <1>3
  <2> HIDE DEF d
  <2>2. Cardinality(d \cup b) = Cardinality(d) + Cardinality(b)
    BY <1>2, <2>1
  <2>3. Cardinality(d) \in Nat /\ Cardinality(b) \in Nat /\ Cardinality(a) \in Nat
    BY <1>1, <2>1
  <2>4. Cardinality(a) = Cardinality(d) + Cardinality(b)
    BY <2>1, <2>2, Zenon
  <2>5. Cardinality(d) = Cardinality(a) - Cardinality(b)
    BY <2>3, <2>4
  <2> QED
    BY <2>5 DEF d
<1> QED
  BY <1>1, <1>2, <1>3

LEMMA ActiveIn ==
  ASSUME NEW objects
  PROVE  /\ Active(objects) \in SUBSET Machine
         /\ \A m \in Machine : m \in Active(objects) <=>
               objects[m].there /\ objects[m].phase \notin {"Failed", "Terminating"}
  BY DEF Active, Listed, IsMachineActive

\* A step that leaves the sync and the machines alone.
LEMMA FreshFrame ==
  ASSUME FreshInv, UNCHANGED <<env, api, sync, calm>>
  PROVE  FreshInv'
<1>1. UNCHANGED <<pc, snap, copy, pending, need>>
  BY DEF sync
<1>2. Target' = Target
  BY <1>1 DEF Target, Active, Listed, IsMachineActive, Smaller, Larger
<1>3. Settled' <=> Settled
  BY <1>1 DEF Settled, NonePending, Active, Listed, IsMachineActive
<1>4. \A gone : Leaves(gone)' <=> Leaves(gone)
  BY <1>1 DEF Leaves, Active, Listed, IsMachineActive
<1>5. NonePending' <=> NonePending
  BY <1>1 DEF NonePending
<1> QED
  BY <1>1, <1>2, <1>3, <1>4, <1>5, ZenonT(60) DEF FreshInv

\* A step after which nothing is claimed.
LEMMA FreshNot ==
  ASSUME ~calm', pc' \in {"idle", "finalizer", "list"} => NonePending'
  PROVE  FreshInv'
  BY DEF FreshInv

\* Get, the list, and the ends of the sync.
LEMMA FreshList ==
  ASSUME TypeOK, FreshInv,
         Fetch \/ AddMachineSetFinalizers \/ List \/ ListFails \/ UpdateStatus
  PROVE  FreshInv'
<1>1. CASE Fetch
  BY <1>1, FreshNot DEF FreshInv, Fetch, NonePending
<1>4. CASE AddMachineSetFinalizers
  BY <1>4, FreshNot DEF FreshInv, AddMachineSetFinalizers, NonePending
<1>2. CASE ListFails \/ UpdateStatus
  BY <1>2, FreshNot, Zenon DEF ListFails, UpdateStatus, Return, NonePending
<1>3. CASE List
  <2>1. CASE ~calm'
    BY <1>3, <2>1, FreshNot DEF List
  <2>2. CASE snap.deleting
    BY <1>3, <2>2 DEF List, FreshInv
  <2>3. CASE calm' /\ ~snap.deleting
    <3>1. /\ pc' = "stale" /\ snap' = snap /\ copy' = api /\ api' = api /\ cache = api
          /\ pending' = Terminating({m \in Listed(api) : IsMachineFailed(api[m])})
          /\ \A m \in Active(api) : ~api[m].deleting
      BY <1>3, <2>3, ZenonT(60) DEF List
    <3>2. \A m \in Active(api) : pending'[m] = "none"
      BY <3>1 DEF Terminating, IsMachineFailed, Active, Listed, IsMachineActive
    <3>3. Leaves({})'
      BY <3>1, <3>2, Zenon DEF Leaves
    <3>4. \A m \in Active(copy') : ~copy'[m].deleting
      BY <3>1
    <3> QED
      BY <3>1, <3>3, <3>4 DEF FreshInv
  <2> QED
    BY <2>1, <2>2, <2>3
<1> QED
  BY <1>1, <1>2, <1>3, <1>4

LEMMA FreshManage ==
  ASSUME TypeOK, FreshInv, ManageReplicas
  PROVE  FreshInv'
<1>1. CASE ~(calm /\ ~snap.deleting)
  BY <1>1 DEF FreshInv, ManageReplicas
<1>2. CASE calm /\ ~snap.deleting
  <2> DEFINE active == Active(copy)
             diff == Cardinality(active) - snap.replicas
  <2>1. /\ pc = "stale" /\ NonePending /\ Leaves({})
        /\ UNCHANGED <<env, set, api, cache, snap, copy, calm>>
        /\ \A m \in Active(copy) : ~copy[m].deleting
    BY <1>2 DEF FreshInv, ManageReplicas
  <2>2. Active(api) = active /\ Settled
    BY <2>1 DEF Leaves, Settled
  <2>3. Cardinality(active) \in Nat /\ snap.replicas \in Nat /\ env.burst \in Nat
    BY ActiveCount, EnvType DEF TypeOK, MachineSet
  <2>4. Active(api)' = active /\ Active(copy)' = active /\ Target' = Target
    BY <2>1, <2>2 DEF Target, Active, Listed, IsMachineActive, Smaller, Larger
  <2>5. ASSUME UNCHANGED pending PROVE Settled'
    BY <2>1, <2>2, <2>4, <2>5 DEF Settled, NonePending
  <2>6. Target = IF Cardinality(active) < snap.replicas
                 THEN IF snap.frozen THEN Cardinality(active)
                      ELSE Smaller(snap.replicas, Cardinality(active) + env.burst)
                 ELSE Larger(snap.replicas, Cardinality(active) - env.burst)
    BY DEF Target
  <2>7. \A m \in Active(copy)' : ~copy'[m].deleting
    BY <2>1, <2>4
  <2>8. CASE /\ diff < 0 /\ ~snap.frozen
             /\ need' = Smaller(-diff, env.burst) /\ pc' = "create" /\ UNCHANGED pending
    <3> HIDE DEF active
    <3>1. Cardinality(active) + need' = Target
      BY <2>3, <2>6, <2>8 DEF Smaller, Larger
    <3>2. Cardinality(Active(api)') + need' = Target'
      BY <2>4, <3>1
    <3> QED
      BY <2>5, <2>7, <2>8, <3>2 DEF FreshInv
  <2>9. CASE (diff = 0 \/ (diff < 0 /\ snap.frozen)) /\ pc' = "status" /\ UNCHANGED pending
    <3> HIDE DEF active
    <3>1. Cardinality(active) = Target
      BY <2>3, <2>6, <2>9 DEF Smaller, Larger
    <3>2. Cardinality(Active(api)') = Target'
      BY <2>4, <3>1
    <3> QED
      BY <2>5, <2>7, <2>9, <3>2 DEF FreshInv
  <2>10. ASSUME diff > 0, pc' = "excess",
                NEW chosen \in GetMachinesToDelete(active, Smaller(diff, env.burst)),
                pending' = Terminating(chosen)
         PROVE  FreshInv'
    <3>1. chosen \in SUBSET active /\ Cardinality(chosen) = Smaller(diff, env.burst)
      BY <2>10 DEF GetMachinesToDelete
    <3>2. Cardinality(active) - Cardinality(chosen) = Target
      <4> HIDE DEF active
      <4> QED
        BY <2>3, <2>6, <2>10, <3>1 DEF Smaller, Larger
    <3>3. \A m \in active : (m \in chosen => pending'[m] # "none")
                            /\ (m \notin chosen => pending'[m] = "none")
      BY <2>10, ActiveIn DEF Terminating
    <3>4. \A m \in active : ~api'[m].deleting
      BY <2>1, <2>2 DEF Settled
    <3>5. Leaves(chosen)'
      BY <2>4, <3>3, <3>4, Zenon DEF Leaves
    <3>6. Cardinality(Active(copy)') - Cardinality(chosen) = Target'
      BY <2>4, <3>2
    <3>7. \E gone \in SUBSET Active(copy)' :
             Leaves(gone)' /\ Cardinality(Active(copy)') - Cardinality(gone) = Target'
      BY <2>4, <3>1, <3>5, <3>6
    <3> QED
      BY <2>7, <2>10, <3>7 DEF FreshInv
  <2> QED
    BY <2>8, <2>9, <2>10 DEF ManageReplicas
<1> QED
  BY <1>1, <1>2

LEMMA FreshExcess ==
  ASSUME TypeOK, FreshInv, ExcessDone
  PROVE  FreshInv'
<1>1. CASE ~(calm /\ ~snap.deleting)
  BY <1>1 DEF FreshInv, ExcessDone
<1>2. CASE calm /\ ~snap.deleting
  <2>1. /\ pc = "excess" /\ NonePending /\ pc' = "status"
        /\ UNCHANGED <<env, api, snap, copy, pending, calm>>
    BY DEF ExcessDone
  <2>2. PICK gone \in SUBSET Active(copy) :
           Leaves(gone) /\ Cardinality(Active(copy)) - Cardinality(gone) = Target
    BY <1>2, <2>1 DEF FreshInv
  <2>3. Active(api) = Active(copy) \ gone /\ \A m \in Active(api) : ~api[m].deleting
    BY <2>1, <2>2, ActiveIn DEF Leaves, NonePending
  <2>4. Cardinality(Active(api)) = Target
    BY <2>2, <2>3, ActiveIn, Counts
  <2>5. Target' = Target /\ Active(api)' = Active(api) /\ Active(copy)' = Active(copy)
    BY <2>1 DEF Target, Active, Listed, IsMachineActive, Smaller, Larger
  <2>6. Settled'
    BY <2>1, <2>3, <2>5 DEF Settled, NonePending
  <2>7. \A m \in Active(copy)' : ~copy'[m].deleting
    BY <1>2, <2>1, <2>5 DEF FreshInv
  <2>8. Cardinality(Active(api)') = Target'
    BY <2>4, <2>5
  <2> QED
    BY <2>1, <2>6, <2>7, <2>8 DEF FreshInv
<1> QED
  BY <1>1, <1>2

\* A batch that goes through adds as many active machines as it takes off what remains.
LEMMA FreshBatch ==
  ASSUME TypeOK, SlowStartInv, FreshInv, CreateBatch
  PROVE  FreshInv'
<1>1. PICK born \in SUBSET Unborn, failed \in BOOLEAN :
        /\ api' = [m \in Machine |-> IF m \in born THEN Created ELSE api[m]]
        /\ calm' = (calm /\ ~failed /\ Cardinality(born) = batch)
        /\ need' = IF failed THEN 0 ELSE LeftAfter(need, batch)
  BY Zenon DEF CreateBatch
<1>2. /\ pc = "create" /\ pc' = IF need' = 0 THEN "status" ELSE "create"
      /\ env' = env /\ UNCHANGED <<snap, copy, pending>>
  BY Zenon DEF CreateBatch
<1>3. CASE ~calm'
  BY <1>2, <1>3, FreshNot
<1>4. CASE snap.deleting
  BY <1>2, <1>4 DEF FreshInv
<1>5. CASE calm' /\ ~snap.deleting
  <2>1. calm /\ ~failed /\ Cardinality(born) = batch /\ need' = need - batch
    BY <1>1, <1>5, ZenonT(60) DEF LeftAfter
  <2>2. Settled /\ Cardinality(Active(api)) + need = Target
    BY <1>2, <1>5, <2>1 DEF FreshInv
  <2>3. born \in SUBSET Machine /\ \A m \in born : ~api[m].there
    BY <1>1 DEF Unborn
  <2>4. Created.there /\ Created.phase = "Pending" /\ ~Created.deleting
    BY DEF Created, Absent
  <2>5. \A m \in Machine : api'[m] = IF m \in born THEN Created ELSE api[m]
    BY <1>1
  <2>6. Active(api)' = Active(api) \cup born /\ Active(api) \cap born = {}
    BY <2>3, <2>4, <2>5 DEF Active, Listed, IsMachineActive
  <2>7. Settled'
    BY <1>2, <2>2, <2>3, <2>4, <2>5, <2>6, ActiveIn DEF Settled, NonePending
  <2>8. /\ Cardinality(Active(api)') = Cardinality(Active(api)) + Cardinality(born)
        /\ Cardinality(Active(api)) \in Nat /\ Cardinality(born) \in Nat
    BY <2>3, <2>6, ActiveIn, Counts, ZenonT(60)
  <2>9. Target' = Target /\ Active(copy)' = Active(copy)
    BY <1>2 DEF Target, Active, Listed, IsMachineActive, Smaller, Larger
  <2>10. need \in Nat /\ batch \in Nat
    BY EnvType DEF TypeOK
  <2>11. Cardinality(Active(api)') + need' = Target'
    BY <2>1, <2>2, <2>8, <2>9, <2>10
  <2>12. Cardinality(Active(api)') \in Nat
    BY <2>8
  <2>13. need' = 0 => Cardinality(Active(api)') = Target'
    BY <2>11, <2>12
  <2>14. \A m \in Active(copy)' : ~copy'[m].deleting
    BY <1>2, <1>5, <2>1, <2>9 DEF FreshInv
  <2> QED
    BY <1>2, <2>7, <2>11, <2>13, <2>14 DEF FreshInv
<1> QED
  BY <1>3, <1>4, <1>5

\* What the goroutine of machine m does is within what the sync counts on.
LEMMA FreshPrepare ==
  ASSUME TypeOK, FreshInv, NEW m \in Machine,
         PrepareDelete(m) \/ PrepareReturns(m) \/ PrepareDeleteFails(m) \/ PrepareStatus(m)
  PROVE  FreshInv'
<1>0. \/ api' = api
      \/ api' = [api EXCEPT ![m] = Deleted(@)]
      \/ api' = [api EXCEPT ![m] = Absent]
      \/ api' = [api EXCEPT ![m].phase = IF api[m].there THEN "Terminating" ELSE api[m].phase]
  BY Zenon DEF PrepareDelete, PrepareReturns, PrepareDeleteFails, PrepareStatus
<1>1. /\ UNCHANGED <<env, pc, snap, copy, calm>> /\ pending[m] # "none"
      /\ \A n \in Machine \ {m} : api'[n] = api[n] /\ pending'[n] = pending[n]
  <2>1. /\ UNCHANGED <<env, pc, snap, copy, calm>> /\ pending[m] # "none"
        /\ \E x : pending' = [pending EXCEPT ![m] = x]
    BY Zenon DEF PrepareDelete, PrepareReturns, PrepareDeleteFails, PrepareStatus
  <2> QED
    BY <1>0, <2>1 DEF TypeOK
<1>2. ~NonePending
  BY <1>1 DEF NonePending
<1>3. m \in Active(api)' => m \in Active(api)
  <2>1. \/ api'[m] = api[m] \/ api'[m] = Deleted(api[m]) \/ api'[m] = Absent
        \/ api[m].there /\ api'[m].phase = "Terminating"
        \/ ~api[m].there /\ api'[m].there = api[m].there
    BY <1>0 DEF TypeOK, Object
  <2>2. /\ Deleted(api[m]).there = api[m].there /\ Deleted(api[m]).phase = api[m].phase
        /\ ~Absent.there
    BY DEF Deleted, TypeOK, Object, Absent
  <2> QED
    BY <2>1, <2>2, ActiveIn
<1>4. ASSUME m \in Active(copy), ~copy[m].deleting, m \in Active(api)'
      PROVE  pending'[m] # "none"
  <2>1. ~PrepareReturns(m)
    BY <1>4 DEF PrepareReturns, Marked
  <2>2. CASE PrepareDelete(m) \/ PrepareDeleteFails(m)
    BY <2>2, Zenon DEF PrepareDelete, PrepareDeleteFails, TypeOK
  <2>3. ~PrepareStatus(m)
    <3>1. copy[m].phase # "Terminating" /\ api'[m].there /\ api'[m].phase # "Terminating"
      BY <1>4, ActiveIn
    <3> QED
      BY <3>1 DEF PrepareStatus, TypeOK, Object
  <2> QED
    BY <2>1, <2>2, <2>3
<1>5. ASSUME \A n \in Active(copy) : ~copy[n].deleting,
             NEW gone \in SUBSET Active(copy), Leaves(gone)
      PROVE  Leaves(gone)'
  <2>1. m \notin Active(copy) \ gone
    BY <1>1, <1>5 DEF Leaves
  <2>2. ASSUME NEW n \in Active(copy)' \ gone
        PROVE  n \in Active(api)' /\ ~api'[n].deleting /\ pending'[n] = "none"
    BY <1>1, <1>5, <2>1, <2>2, ActiveIn DEF Leaves
  <2>3. ASSUME NEW n \in Active(api)'
        PROVE  n \in Active(copy)' /\ (n \in gone => pending'[n] # "none")
    <3>1. n \in Machine /\ Active(copy)' = Active(copy)
      BY <1>1, ActiveIn DEF Active, Listed, IsMachineActive
    <3>2. CASE n = m
      BY <1>3, <1>4, <1>5, <3>1, <3>2 DEF Leaves
    <3>3. CASE n # m
      <4>1. n \in Active(api)
        BY <1>1, <3>1, <3>3, ActiveIn
      <4> QED
        BY <1>1, <1>5, <3>1, <3>3, <4>1 DEF Leaves
    <3> QED
      BY <3>2, <3>3
  <2> QED
    BY <2>2, <2>3 DEF Leaves
<1>6. Target' = Target /\ Active(copy)' = Active(copy)
  BY <1>1 DEF Target, Active, Listed, IsMachineActive, Smaller, Larger
<1>7. pc \notin {"idle", "finalizer", "list"}
  BY <1>2 DEF FreshInv
<1>8. ASSUME calm, ~snap.deleting
      PROVE  /\ pc \notin {"create", "status"} /\ \A n \in Active(copy) : ~copy[n].deleting
             /\ pc = "stale" => Leaves({})'
             /\ pc = "excess" => \E gone \in SUBSET Active(copy) :
                   Leaves(gone)' /\ Cardinality(Active(copy)) - Cardinality(gone) = Target
  BY <1>2, <1>5, <1>8 DEF FreshInv, Settled
<1> QED
  BY <1>1, <1>6, <1>7, <1>8, ZenonT(60) DEF FreshInv

\* The machine controller does not touch active machines that stay.
LEMMA FreshMachine ==
  ASSUME TypeOK, FreshInv, NEW m \in Machine,
         \/ Joins(m) \/ Fails(m) \/ Recovers(m) \/ DeleteMachine(m)
         \/ DeletionStarts(m) \/ DeletionEnds(m)
  PROVE  FreshInv'
<1>1. UNCHANGED <<env, pc, snap, copy, pending, need>>
  BY Zenon DEF Joins, Fails, Recovers, DeleteMachine, DeletionStarts, DeletionEnds, sync
<1>2. CASE Fails(m) \/ Recovers(m) \/ DeleteMachine(m)
  BY <1>1, <1>2, FreshNot, Zenon DEF Fails, Recovers, DeleteMachine, FreshInv, NonePending
<1>3. CASE Joins(m) \/ DeletionStarts(m) \/ DeletionEnds(m)
  <2>1. calm' = calm /\ \A n \in Machine \ {m} : api'[n] = api[n]
    BY <1>3 DEF Joins, DeletionStarts, DeletionEnds, TypeOK
  <2>2. \/ /\ api[m].deleting
           /\ ~api'[m].there \/ api'[m].phase = "Terminating"
        \/ /\ api[m].there /\ api[m].phase = "Pending"
           /\ api'[m].there /\ api'[m].phase = "Running" /\ api'[m].deleting = api[m].deleting
    BY <1>3 DEF Joins, DeletionStarts, DeletionEnds, TypeOK, Object, Absent
  <2>3. /\ \A n \in Active(api)' : n \in Active(api)
        /\ \A n \in Active(api) : ~api[n].deleting => n \in Active(api)' /\ ~api'[n].deleting
    <3>1. ASSUME NEW n \in Machine, n # m
          PROVE  (n \in Active(api)' <=> n \in Active(api)) /\ api'[n].deleting = api[n].deleting
      <4>1. api'[n] = api[n]
        BY <2>1, <3>1, Zenon
      <4> QED
        BY <4>1, ActiveIn
    <3>2. /\ m \in Active(api)' => m \in Active(api)
          /\ m \in Active(api) /\ ~api[m].deleting => m \in Active(api)' /\ ~api'[m].deleting
      BY <2>2, ActiveIn
    <3>3. Active(api) \subseteq Machine /\ Active(api)' \subseteq Machine
      BY ActiveIn, Zenon
    <3> QED
      BY <3>1, <3>2, <3>3, Zenon
  <2>4. ASSUME NEW gone, Leaves(gone) PROVE Leaves(gone)'
    <3>1. Active(copy)' = Active(copy)
      BY <1>1 DEF Active, Listed, IsMachineActive
    <3> QED
      BY <1>1, <2>3, <2>4, <3>1, Zenon DEF Leaves
  <2>5. ASSUME Settled PROVE Settled' /\ Active(api)' = Active(api)
    BY <1>1, <2>3, <2>5 DEF Settled, NonePending
  <2>6. Target' = Target /\ Active(copy)' = Active(copy) /\ (NonePending' <=> NonePending)
    BY <1>1 DEF Target, Active, Listed, IsMachineActive, Smaller, Larger, NonePending
  <2> QED
    BY <1>1, <2>1, <2>4, <2>5, <2>6, ZenonT(60) DEF FreshInv
<1> QED
  BY <1>2, <1>3

LEMMA FreshInit == Init => FreshInv
  BY DEF Init, FreshInv, NonePending

LEMMA FreshStep == TypeOK /\ SlowStartInv /\ FreshInv /\ [Next]_vars => FreshInv'
<1> SUFFICES ASSUME TypeOK, SlowStartInv, FreshInv, [Next]_vars PROVE FreshInv'
  OBVIOUS
<1>1. CASE Fetch \/ AddMachineSetFinalizers \/ List \/ ListFails \/ UpdateStatus
  BY <1>1, FreshList
<1>2. CASE ManageReplicas \/ ExcessDone \/ CreateBatch
  BY <1>2, FreshManage, FreshExcess, FreshBatch
<1>3. CASE Scale \/ Freeze \/ DeleteSet
  BY <1>3, FreshFrame, Zenon DEF Scale, Freeze, DeleteSet
<1>4. ASSUME NEW m \in Machine, InformerSync(m) PROVE FreshInv'
  BY <1>4, FreshFrame, Zenon DEF InformerSync
<1>5. ASSUME NEW m \in Machine,
             PrepareDelete(m) \/ PrepareReturns(m) \/ PrepareDeleteFails(m) \/ PrepareStatus(m)
      PROVE  FreshInv'
  BY <1>5, FreshPrepare
<1>6. ASSUME NEW m \in Machine,
             \/ Joins(m) \/ Fails(m) \/ Recovers(m) \/ DeleteMachine(m)
             \/ DeletionStarts(m) \/ DeletionEnds(m)
      PROVE  FreshInv'
  BY <1>6, FreshMachine
<1>7. CASE UNCHANGED vars
  BY <1>7, FreshFrame, Zenon DEF vars, sync
<1> QED
  BY <1>1, <1>2, <1>3, <1>4, <1>5, <1>6, <1>7, Zenon DEF Next

\* A sync from an up-to-date list ends with exactly the active machines the set asks for, or
\* as many more or fewer as BurstReplicas lets it reach: for any number of machines, through
\* failed machines, failing Deletes and batches of any size (machineset.go:319-425).
THEOREM SyncExact == Spec => FreshSyncExact
<1>1. FreshInv /\ [Next]_vars =>
        [pc = "status" /\ pc' = "idle" /\ calm /\ ~snap.deleting
           => Cardinality(Active(api)) = Target]_vars
  BY DEF FreshInv
<1> QED
  BY <1>1, FreshInit, FreshStep, SlowStartBounded, PTL DEF Spec, FreshSyncExact
=============================================================================
