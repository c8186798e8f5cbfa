--------------------------- MODULE MachineClasses ---------------------------
(***************************************************************************)
(* The objects a machine depends on and the two processes that look after  *)
(* them.  MCM (pkg/controller) keeps finalizers on the provider-specific   *)
(* class and on the secret, and copies the class kind of a deployment to   *)
(* its machine set and from there to the machines.  MC, the out-of-tree    *)
(* machine controller (pkg/util/provider/machinecontroller), keeps them on *)
(* the generic MachineClass and on the same secret, and migrates machines  *)
(* from the first class to the second.  Every process reads its own caches *)
(* and writes to the API server.                                           *)
(***************************************************************************)
EXTENDS Naturals

CONSTANTS
    Machine,    \* machines of the machine set
    Scenarios,  \* choices for the environment, see Scenario
    MaxFaults   \* bound on failed calls and crashes

EventNames == {"fault", "delete generic", "delete provider", "delete secret",
               "delete machine", "create machine"}

ProviderKind == {"Alicloud", "AWS", "Azure", "GCP", "OpenStack", "Packet"}

WorkerNames == {"migrate", "machine", "class", "secret", "sync"}

Proc == {"MCM", "MC"}
Kind == {"provider", "generic"}
Object == Machine \cup Kind \cup {"set", "deployment", "secret"}

\* What a process has in its caches; the other objects it reads from the API server.
Cached == [MCM |-> Machine \cup {"set", "provider", "secret"}, MC |-> Machine \cup {"generic", "secret"}]
CachedPair == {c \in Proc \X Object : c[2] \in Cached[c[1]]}

\* The provider, the classes that exist, the kind the machines refer to in the beginning, the
\* machines that have a VM (then the finalizers are there), MCM's flag
\* deleteMigratedMachineClass, the caches that lag behind, the workers that run and what may
\* happen.
Scenario == [provider : ProviderKind, classes : SUBSET {"provider", "generic"},
             kind : {"provider", "generic"}, machines : SUBSET Machine, vms : SUBSET Machine,
             deleteMigrated : BOOLEAN, slow : SUBSET CachedPair,
             workers : SUBSET WorkerNames, events : SUBSET EventNames]

ASSUME ScenariosAssumption ==
    /\ Scenarios \subseteq Scenario /\ MaxFaults \in Nat
    /\ \A s \in Scenarios : /\ s.vms \subseteq s.machines
                            /\ s.kind = "generic" => "generic" \in s.classes

ASSUME NamesAssumption == Machine \cap {"provider", "generic", "set", "deployment", "secret"} = {}

VARIABLES
    env,      \* the scenario, chosen in the beginning
    obj,      \* the objects on the API server
    seen,     \* the same in the caches of each process
    fresh,    \* <<p, o>>: the copy of o in p's cache is the latest version
    listed,   \* machines whose object in MCM's cache is the one the machine set worker has listed
    vm,       \* machines that have a VM
    migrate,  \* MC's worker of each machine
    class,    \* the class workers: "provider" of MCM, "generic" of MC
    secretOf, \* the secret worker of each process
    setSync,  \* the machine set worker of MCM
    depSync,  \* the deployment worker of MCM
    faults    \* calls that failed and crashes so far

store == <<obj, seen, fresh, listed>>
workers == <<migrate, class, secretOf, setSync, depSync>>
vars == <<env, obj, seen, fresh, listed, vm, migrate, class, secretOf, setSync, depSync, faults>>

\* "provider" and "generic" are at once the kinds a reference can have and the two class objects.
MachineRec == [there : BOOLEAN, deleting : BOOLEAN, fin : BOOLEAN, kind : Kind]
ClassRec == [there : BOOLEAN, deleting : BOOLEAN, fin : BOOLEAN, migrated : BOOLEAN, filled : BOOLEAN]
TemplateRec == [kind : Kind]
SecretRec == [there : BOOLEAN, deleting : BOOLEAN, fins : SUBSET Proc]

\* DeleteFinalizerName of MCM is MCMFinalizerName of MC: both class finalizers are one string.  On
\* the secret MC uses MCFinalizerName, so a finalizer there is named after its process.
NewClass(there, filled) ==
    [there |-> there, deleting |-> FALSE, fin |-> FALSE, migrated |-> FALSE, filled |-> filled]

NewMachine(there, kind) == [there |-> there, deleting |-> FALSE, fin |-> FALSE, kind |-> kind]

Idle == [pc |-> "idle"]

Init ==
    /\ env \in Scenarios
    /\ obj = [o \in Object |->
                CASE o \in Machine -> [NewMachine(o \in env.machines, env.kind) EXCEPT !.fin = o \in env.vms]
                  [] o \in Kind -> [NewClass(o \in env.classes, o \in env.classes) EXCEPT
                                       !.fin = o \in env.classes /\ o = env.kind /\ env.vms # {}]
                  [] o = "secret" -> [there |-> TRUE, deleting |-> FALSE, fins |-> {}]
                  [] OTHER -> [kind |-> env.kind]]
    /\ seen = [p \in Proc |-> [o \in Cached[p] |-> obj[o]]]
    /\ fresh = CachedPair
    /\ listed = {}
    /\ vm = env.vms
    /\ migrate = [m \in Machine |-> Idle]
    /\ class = [k \in Kind |-> Idle]
    /\ secretOf = [p \in Proc |-> Idle]
    /\ setSync = Idle
    /\ depSync = Idle
    /\ faults = 0

-----------------------------------------------------------------------------
(***************************************************************************)
(* The API server and the informers.                                       *)
(***************************************************************************)

\* Write gives objects new values: a cached copy of them is now an old version, or the new one
\* where the informer is not slow.
Write(news) ==
    LET changed == {o \in DOMAIN news : news[o] # obj[o]}
        old == {c \in env.slow : c[2] \in changed}
    IN /\ obj' = [o \in Object |-> IF o \in changed THEN news[o] ELSE obj[o]]
       /\ fresh' = fresh \ old
       /\ listed' = {o \in listed : o \in changed => <<"MCM", o>> \in old}
       /\ seen' = [p \in Proc |-> [o \in Cached[p] |->
                     IF o \in changed /\ <<p, o>> \notin old THEN news[o] ELSE seen[p][o]]]

WriteOne(o, new) == Write([x \in {o} |-> new])

\* An update that leaves a deleted object without finalizers removes it.
Settle(c) ==
    IF c.deleting /\ c.there /\ (IF "fins" \in DOMAIN c THEN c.fins = {} ELSE ~c.fin)
    THEN [c EXCEPT !.there = FALSE, !.deleting = FALSE] ELSE c

\* Delete sets the deletion timestamp; without finalizers the object is gone at once.
Deleted(c) == Settle([c EXCEPT !.deleting = TRUE])

\* The informer of p brings the latest version of o into the cache.
Deliver(p, o) ==
    /\ <<p, o>> \notin fresh
    /\ seen' = [seen EXCEPT ![p][o] = obj[o]]
    /\ fresh' = fresh \cup {<<p, o>>}
    /\ listed' = IF p = "MCM" THEN listed \ {o} ELSE listed
    /\ UNCHANGED <<env, obj, vm, workers, faults>>

\* A call fails or a process restarts; a restart also reads all objects anew.
Fault == "fault" \in env.events /\ faults < MaxFaults /\ faults' = faults + 1

-----------------------------------------------------------------------------
(***************************************************************************)
(* MC migrates the class of a machine (TryMachineClassMigration).          *)
(***************************************************************************)

\* What the worker of m does next, and the classes it may write (updateMachineClassObjects).
Turn(m, pc) == migrate[m].pc = pc
To(m, pc) == migrate' = [migrate EXCEPT ![m].pc = pc]
Leave(m) == migrate' = [migrate EXCEPT ![m] = Idle]
OnlyMigrate == UNCHANGED <<env, vm, class, secretOf, setSync, depSync, faults>>

\* The provider-specific class is read from the API server.  When it is gone but a generic one of
\* the same name is in the lister, only the references are updated.
getProviderSpecificMachineClass(m) ==
    /\ Turn(m, "idle")
    /\ seen["MC"][m].there /\ seen["MC"][m].kind = "provider"
    /\ obj["provider"].there \/ seen["MC"]["generic"].there
    /\ migrate' = [migrate EXCEPT ![m] =
                     IF obj["provider"].there THEN [pc |-> "create"]
                     ELSE [pc |-> "references", full |-> FALSE]]
    /\ OnlyMigrate /\ UNCHANGED store

\* Mutant: the references are updated before the driver has filled the new class.
createMachineClassEmpty(m) ==
    /\ Turn(m, "create")
    /\ ~obj["generic"].there
    /\ WriteOne("generic", NewClass(TRUE, FALSE))
    /\ migrate' = [migrate EXCEPT ![m] = [pc |-> "references", full |-> TRUE]]
    /\ OnlyMigrate

\* createMachineClass takes the generic class from the lister or creates an empty one, ...
createMachineClass(m) ==
    /\ Turn(m, "create")
    /\ OnlyMigrate
    /\ \/ /\ seen["MC"]["generic"].there
          /\ migrate' = [migrate EXCEPT ![m] = [pc |-> "fill", held |-> seen["MC"]["generic"]]]
          /\ UNCHANGED store
       \/ /\ ~seen["MC"]["generic"].there
          /\ IF obj["generic"].there
             THEN Leave(m) /\ UNCHANGED store
             ELSE /\ WriteOne("generic", NewClass(TRUE, FALSE))
                  /\ migrate' = [migrate EXCEPT ![m] = [pc |-> "fill", held |-> NewClass(TRUE, FALSE)]]

\* ... has the driver fill it and updates it, unless somebody has written it meanwhile.
fillMachineClass(m) ==
    /\ Turn(m, "fill")
    /\ OnlyMigrate
    /\ IF migrate[m].held = obj["generic"]
       THEN /\ WriteOne("generic", [obj["generic"] EXCEPT !.filled = TRUE])
            /\ migrate' = [migrate EXCEPT ![m] = [pc |-> "references", full |-> TRUE]]
       ELSE Leave(m) /\ UNCHANGED store

\* updateClassReferences lists the machines in the lister, ...
listMachineReferences(m) ==
    LET referring == {x \in Machine : seen["MC"][x].there /\ seen["MC"][x].kind = "provider"}
    IN /\ Turn(m, "references")
       /\ migrate' = [migrate EXCEPT ![m] = [pc |-> "machines", full |-> migrate[m].full,
                                             held |-> [x \in referring |-> seen["MC"][x]]]]
       /\ OnlyMigrate /\ UNCHANGED store

\* ... updates one after the other, in any order; the first one whose copy is old ends the
\* migration with a conflict; ...
updateMachineReferences(m) ==
    LET held == migrate[m].held
    IN /\ Turn(m, "machines")
       /\ OnlyMigrate
       /\ \/ DOMAIN held = {} /\ UNCHANGED store /\ To(m, "sets")
          \/ \E x \in DOMAIN held :
                IF <<"MC", x>> \in fresh /\ held[x] = obj[x]
                THEN /\ WriteOne(x, [obj[x] EXCEPT !.kind = "generic"])
                     /\ migrate' = [migrate EXCEPT ![m].held = [y \in DOMAIN held \ {x} |-> held[y]]]
                ELSE Leave(m) /\ UNCHANGED store

\* ... then the machine sets and the deployments, listed from the API server, ...
updateSetReferences(m) ==
    /\ Turn(m, "sets")
    /\ WriteOne("set", [kind |-> "generic"])
    /\ To(m, "deployments")
    /\ OnlyMigrate

\* Mutant: the deployments keep their reference.
updateDeploymentReferencesSkipped(m) ==
    /\ Turn(m, "deployments")
    /\ IF migrate[m].full THEN To(m, "annotate") ELSE Leave(m)
    /\ OnlyMigrate /\ UNCHANGED store

updateDeploymentReferences(m) ==
    /\ Turn(m, "deployments")
    /\ WriteOne("deployment", [kind |-> "generic"])
    /\ IF migrate[m].full THEN To(m, "annotate") ELSE Leave(m)
    /\ OnlyMigrate

\* ... and last the old class is annotated and loses its finalizer.
addMigratedAnnotationForProviderMachineClass(m) ==
    /\ Turn(m, "annotate")
    /\ IF obj["provider"].there
       THEN WriteOne("provider", Settle([obj["provider"] EXCEPT !.migrated = TRUE, !.fin = FALSE]))
       ELSE UNCHANGED store
    /\ Leave(m)
    /\ OnlyMigrate

TryMachineClassMigration(m) ==
    \/ getProviderSpecificMachineClass(m)
    \/ createMachineClass(m)
    \/ fillMachineClass(m)
    \/ listMachineReferences(m)
    \/ updateMachineReferences(m)
    \/ updateSetReferences(m)
    \/ updateDeploymentReferences(m)
    \/ addMigratedAnnotationForProviderMachineClass(m)

-----------------------------------------------------------------------------
(***************************************************************************)
(* The machine controllers, as far as they need a class: a machine whose   *)
(* class is not validated is left alone, otherwise it gets the finalizer   *)
(* and then a VM, or loses both when it is being deleted.                  *)
(***************************************************************************)

Existing(p, m) == seen[p][m].there /\ seen[p]["secret"].there

\* The end of a deletion: the VM goes, then the finalizer, unless the copy is old.
Terminated(p, m) ==
    LET current == <<p, m>> \in fresh
    IN /\ seen[p][m].deleting
       /\ m \in vm \/ current
       /\ vm' = vm \ {m}
       /\ IF current THEN WriteOne(m, Settle([seen[p][m] EXCEPT !.fin = FALSE]))
                     ELSE UNCHANGED store

\* Mutant: a class that is being deleted is not accepted.
ValidateMachineClassLive(m) ==
    /\ Turn(m, "idle") /\ Existing("MC", m)
    /\ seen["MC"][m].kind = "generic"
    /\ seen["MC"]["generic"].there /\ seen["MC"]["generic"].fin /\ ~seen["MC"]["generic"].deleting
    /\ Terminated("MC", m)
    /\ UNCHANGED <<env, workers, faults>>

\* MC takes a machine of the generic kind when the class in its lister has the finalizer.  A
\* machine gets its finalizer in one reconcile and its VM in a later one.  A class that has not been
\* filled yet names no secret, and the driver (external) turns down its calls.
ValidateMachineClass(m) ==
    LET machine == seen["MC"][m]
        generic == seen["MC"]["generic"]
    IN /\ Turn(m, "idle") /\ machine.there
       /\ machine.kind = "generic"
       /\ generic.there /\ generic.fin
       /\ generic.filled => seen["MC"]["secret"].there
       /\ \/ generic.filled /\ Terminated("MC", m)
          \/ /\ ~machine.deleting /\ ~machine.fin /\ <<"MC", m>> \in fresh
             /\ WriteOne(m, [machine EXCEPT !.fin = TRUE])
             /\ UNCHANGED vm
          \/ /\ generic.filled
             /\ ~machine.deleting /\ machine.fin /\ m \notin vm
             /\ vm' = vm \cup {m}
             /\ UNCHANGED store
       /\ UNCHANGED <<env, workers, faults>>

\* MCM takes a machine of the provider's kind when the class is in its lister.  The VM is created
\* in the same reconcile as the finalizer, and also when the finalizer could not be written.
validateMachineClassInTree(m) ==
    LET machine == seen["MCM"][m]
    IN /\ Existing("MCM", m)
       /\ machine.kind = "provider" /\ seen["MCM"]["provider"].there
       /\ \/ Terminated("MCM", m)
          \/ /\ ~machine.deleting /\ m \notin vm
             /\ vm' = vm \cup {m}
             /\ IF <<"MCM", m>> \in fresh THEN WriteOne(m, [machine EXCEPT !.fin = TRUE])
                                          ELSE UNCHANGED store
       /\ UNCHANGED <<env, workers, faults>>

-----------------------------------------------------------------------------
(***************************************************************************)
(* The class workers.  A worker decides from its listers; adding and       *)
(* removing the finalizer read the class again and write that version.     *)
(***************************************************************************)

\* Mutant: machines that are being deleted do not count.
findLiveMachinesForClass(p, kind) ==
    {m \in Machine : seen[p][m].there /\ ~seen[p][m].deleting /\ seen[p][m].kind = kind}

findMachinesForClass(p, kind) == {m \in Machine : seen[p][m].there /\ seen[p][m].kind = kind}

ClassTo(k, w) == class' = [class EXCEPT ![k] = w]
OnlyClass == UNCHANGED <<env, vm, migrate, secretOf, setSync, depSync, faults>>

\* The API server refuses a finalizer added to an object that is being deleted.
addFinalizers(k, next) ==
    IF obj[k].there /\ ~obj[k].deleting
    THEN WriteOne(k, [obj[k] EXCEPT !.fin = TRUE]) /\ ClassTo(k, next)
    ELSE ClassTo(k, Idle) /\ UNCHANGED store

deleteFinalizers(k) ==
    /\ class[k].pc = "remove"
    /\ IF obj[k].there THEN WriteOne(k, Settle([obj[k] EXCEPT !.fin = FALSE]))
                       ELSE UNCHANGED store
    /\ ClassTo(k, Idle)
    /\ OnlyClass

\* A provider-specific class gets the finalizer before its machines are looked up.
addProviderFinalizers ==
    LET held == seen["MCM"]["provider"]
    IN /\ class["provider"].pc = "idle"
       /\ held.there
       /\ OnlyClass
       /\ IF ~held.deleting /\ ~held.fin
          THEN addFinalizers("provider", [pc |-> "machines", held |-> held])
          ELSE /\ held.deleting \/ (env.deleteMigrated /\ held.migrated)
               /\ ClassTo("provider", [pc |-> "machines", held |-> held])
               /\ UNCHANGED store

\* Without machines a migrated class is deleted and a deleted one loses its finalizer.
decideProvider ==
    LET held == class["provider"].held
        unused == findMachinesForClass("MCM", "provider") = {}
    IN /\ class["provider"].pc = "machines"
       /\ OnlyClass
       /\ IF ~held.deleting
          THEN /\ IF env.deleteMigrated /\ held.migrated /\ unused /\ obj["provider"].there
                  THEN WriteOne("provider", Deleted(obj["provider"]))
                  ELSE UNCHANGED store
               /\ ClassTo("provider", Idle)
          ELSE /\ ClassTo("provider", IF unused /\ held.fin THEN [pc |-> "remove"] ELSE Idle)
               /\ UNCHANGED store

\* The six provider-specific controllers are one text with the kind replaced.
reconcileProviderClass(provider) ==
    /\ env.provider = provider
    /\ addProviderFinalizers \/ decideProvider \/ deleteFinalizers("provider")

reconcileClusterAlicloudMachineClass == reconcileProviderClass("Alicloud")

reconcileClusterAWSMachineClass == reconcileProviderClass("AWS")

reconcileClusterAzureMachineClass == reconcileProviderClass("Azure")

reconcileClusterGCPMachineClass == reconcileProviderClass("GCP")

reconcileClusterOpenStackMachineClass == reconcileProviderClass("OpenStack")

reconcileClusterPacketMachineClass == reconcileProviderClass("Packet")

\* A generic class has the finalizer only while machines in the lister refer to it.
reconcileClusterMachineClass ==
    LET held == seen["MC"]["generic"]
        unused == findMachinesForClass("MC", "generic") = {}
    IN \/ /\ class["generic"].pc = "idle"
          /\ held.there
          /\ IF unused THEN held.fin ELSE ~held.deleting /\ ~held.fin
          /\ ClassTo("generic", [pc |-> IF unused THEN "remove" ELSE "add"])
          /\ OnlyClass /\ UNCHANGED store
       \/ /\ class["generic"].pc = "add"
          /\ addFinalizers("generic", Idle)
          /\ OnlyClass
       \/ deleteFinalizers("generic")

-----------------------------------------------------------------------------
(***************************************************************************)
(* The secret workers: the list of finalizers is computed from the secret  *)
(* in the lister and then replaces the list of the latest version.         *)
(***************************************************************************)

\* A class refers to the secret once it has its fields.
existsMachineClassForSecret(p) ==
    LET k == IF p = "MCM" THEN "provider" ELSE "generic"
    IN seen[p][k].there /\ seen[p][k].filled

OnlySecret == UNCHANGED <<env, vm, migrate, class, setSync, depSync, faults>>

\* Mutant: the finalizer stays when the class is gone.
reconcileClusterSecretAddOnly(p) ==
    LET secret == seen[p]["secret"]
    IN /\ secretOf[p].pc = "idle"
       /\ secret.there /\ existsMachineClassForSecret(p) /\ p \notin secret.fins
       /\ secretOf' = [secretOf EXCEPT ![p] = [pc |-> "update", fins |-> secret.fins \cup {p}]]
       /\ OnlySecret /\ UNCHANGED store

reconcileClusterSecret(p) ==
    LET secret == seen[p]["secret"]
        wanted == IF existsMachineClassForSecret(p) THEN secret.fins \cup {p} ELSE secret.fins \ {p}
    IN /\ secretOf[p].pc = "idle"
       /\ secret.there /\ wanted # secret.fins
       /\ secretOf' = [secretOf EXCEPT ![p] = [pc |-> "update", fins |-> wanted]]
       /\ OnlySecret /\ UNCHANGED store

updateSecretFinalizers(p) ==
    LET secret == obj["secret"]
        fins == secretOf[p].fins
    IN /\ secretOf[p].pc = "update"
       /\ IF secret.there /\ (secret.deleting => fins \subseteq secret.fins)
          THEN WriteOne("secret", Settle([secret EXCEPT !.fins = fins]))
          ELSE UNCHANGED store
       /\ secretOf' = [secretOf EXCEPT ![p] = Idle]
       /\ OnlySecret

-----------------------------------------------------------------------------
(***************************************************************************)
(* MCM hands the class kind down: the deployment's to its machine set, the *)
(* set's to its machines.                                                  *)
(***************************************************************************)

\* The deployment is read from the API server, the machine set from the lister.
syncDeployment ==
    /\ \/ /\ depSync.pc = "idle"
          /\ depSync' = [pc |-> "update", kind |-> obj["deployment"].kind]
          /\ seen["MCM"]["set"].kind # obj["deployment"].kind
          /\ UNCHANGED store
       \/ /\ depSync.pc = "update"
          /\ depSync' = Idle
          /\ IF <<"MCM", "set">> \in fresh THEN WriteOne("set", [kind |-> depSync.kind])
                                           ELSE UNCHANGED store
    /\ UNCHANGED <<env, vm, migrate, class, secretOf, setSync, faults>>

\* A sync reads the machine set from the API server and lists the machines in the cache.
reconcileClusterMachineSet ==
    LET differing == {m \in Machine : seen["MCM"][m].there /\ seen["MCM"][m].kind # obj["set"].kind}
    IN /\ setSync.pc = "idle"
       /\ differing # {}
       /\ setSync' = [pc |-> "sync", kind |-> obj["set"].kind, list |-> differing]
       /\ listed' = differing
       /\ UNCHANGED <<env, obj, seen, fresh, vm, migrate, class, secretOf, depSync, faults>>

\* copyMachineSetClassKindToMachines changes the listed object, which may be the one in the cache, ...
syncMachinesClassKind(m) ==
    /\ setSync.pc = "sync" /\ m \in setSync.list
    /\ seen' = IF m \in listed THEN [seen EXCEPT !["MCM"][m].kind = setSync.kind] ELSE seen
    /\ setSync' = [pc |-> "update", kind |-> setSync.kind, list |-> setSync.list \ {m}, machine |-> m]
    /\ UNCHANGED <<env, obj, fresh, listed, vm, migrate, class, secretOf, depSync, faults>>

\* ... and UpdateMachineWithRetries writes what is in the cache by then; an old copy is refused.
UpdateMachineWithRetries ==
    LET m == setSync.machine
    IN /\ setSync.pc = "update"
       /\ IF seen["MCM"][m].there /\ <<"MCM", m>> \in fresh
          THEN /\ WriteOne(m, seen["MCM"][m])
               /\ setSync' = IF setSync.list = {} THEN Idle
                             ELSE [pc |-> "sync", kind |-> setSync.kind, list |-> setSync.list]
          ELSE setSync' = Idle /\ UNCHANGED store
       /\ UNCHANGED <<env, vm, migrate, class, secretOf, depSync, faults>>

-----------------------------------------------------------------------------
(***************************************************************************)
(* Users, faults and the specification.                                    *)
(***************************************************************************)

Outside == UNCHANGED <<env, workers, faults>>

DeleteEvent == [provider |-> "delete provider", generic |-> "delete generic", secret |-> "delete secret"]

DeleteObject(o) ==
    /\ DeleteEvent[o] \in env.events
    /\ obj[o].there /\ ~obj[o].deleting
    /\ WriteOne(o, Deleted(obj[o]))
    /\ UNCHANGED vm /\ Outside

DeleteMachine(m) ==
    /\ "delete machine" \in env.events
    /\ obj[m].there /\ ~obj[m].deleting
    /\ WriteOne(m, Deleted(obj[m]))
    /\ UNCHANGED vm /\ Outside

CreateMachine(m) ==
    /\ "create machine" \in env.events
    /\ ~obj[m].there /\ m \notin vm
    /\ WriteOne(m, NewMachine(TRUE, obj["set"].kind))
    /\ UNCHANGED vm /\ Outside

\* A call of the worker of m fails.
CallFails(m) ==
    /\ ~Turn(m, "idle")
    /\ Fault
    /\ Leave(m)
    /\ UNCHANGED <<env, store, vm, class, secretOf, setSync, depSync>>

\* The update of a machine fails for another reason than a conflict: the cache keeps the change.
SetCallFails ==
    /\ setSync.pc = "update"
    /\ Fault
    /\ setSync' = Idle
    /\ UNCHANGED <<env, store, vm, migrate, class, secretOf, depSync>>

Restart(p) ==
    /\ Fault
    /\ seen' = [seen EXCEPT ![p] = [o \in Cached[p] |-> obj[o]]]
    /\ fresh' = fresh \cup {<<p, o>> : o \in Cached[p]}
    /\ class' = [class EXCEPT ![IF p = "MC" THEN "generic" ELSE "provider"] = Idle]
    /\ secretOf' = [secretOf EXCEPT ![p] = Idle]
    /\ migrate' = IF p = "MC" THEN [m \in Machine |-> Idle] ELSE migrate
    /\ setSync' = IF p = "MCM" THEN Idle ELSE setSync
    /\ depSync' = IF p = "MCM" THEN Idle ELSE depSync
    /\ listed' = IF p = "MCM" THEN {} ELSE listed
    /\ UNCHANGED <<env, obj, vm>>

ClassControllers ==
    \/ reconcileClusterAlicloudMachineClass
    \/ reconcileClusterAWSMachineClass
    \/ reconcileClusterAzureMachineClass
    \/ reconcileClusterGCPMachineClass
    \/ reconcileClusterOpenStackMachineClass
    \/ reconcileClusterPacketMachineClass

SetController ==
    \/ reconcileClusterMachineSet
    \/ \E m \in Machine : syncMachinesClassKind(m)
    \/ UpdateMachineWithRetries

SecretController(p) == reconcileClusterSecret(p) \/ updateSecretFinalizers(p)

InTreeSecretController == SecretController("MCM")

OutOfTreeSecretController == SecretController("MC")

Runs(worker) == worker \in env.workers

\* One key of MC's machine queue: reconcileClusterMachine validates the class and migrates first.
MachineWorker(m) ==
    \/ Runs("migrate") /\ TryMachineClassMigration(m)
    \/ Runs("machine") /\ ValidateMachineClass(m)

InTreeMachineWorker(m) == Runs("machine") /\ validateMachineClassInTree(m)

Next ==
    \/ \E c \in CachedPair : Deliver(c[1], c[2])
    \/ \E m \in Machine : MachineWorker(m)
    \/ \E m \in Machine : InTreeMachineWorker(m)
    \/ Runs("class") /\ ClassControllers
    \/ Runs("class") /\ reconcileClusterMachineClass
    \/ Runs("secret") /\ InTreeSecretController
    \/ Runs("secret") /\ OutOfTreeSecretController
    \/ Runs("sync") /\ syncDeployment
    \/ Runs("sync") /\ SetController
    \/ \E o \in DOMAIN DeleteEvent : DeleteObject(o)
    \/ \E m \in Machine : DeleteMachine(m)
    \/ \E m \in Machine : CreateMachine(m)
    \/ \E m \in Machine : CallFails(m)
    \/ SetCallFails
    \/ \E p \in Proc : Restart(p)

Spec == Init /\ [][Next]_vars

\* Every key comes back to its queue (events, periodic requeues) and every worker goes on; every
\* informer catches up.
FairSpec ==
    /\ Spec
    /\ \A p \in Proc : WF_vars(\E o \in Cached[p] : Deliver(p, o))
    /\ \A m \in Machine : WF_vars(MachineWorker(m)) /\ WF_vars(InTreeMachineWorker(m))
    /\ WF_vars(Runs("class") /\ ClassControllers)
    /\ WF_vars(Runs("class") /\ reconcileClusterMachineClass)
    /\ WF_vars(Runs("secret") /\ InTreeSecretController)
    /\ WF_vars(Runs("secret") /\ OutOfTreeSecretController)
    /\ WF_vars(Runs("sync") /\ syncDeployment)
    /\ WF_vars(Runs("sync") /\ SetController)

-----------------------------------------------------------------------------
(***************************************************************************)
(* Properties.                                                             *)
(***************************************************************************)

\* The state has its type; an object that is gone has neither finalizer nor deletion timestamp
\* (checked as part of GenericRefsFilled).
TypeOK ==
    /\ \A o \in Machine \cup Kind : ~obj[o].there => ~obj[o].fin /\ ~obj[o].deleting
    /\ env \in Scenarios
    /\ DOMAIN obj = Object
    /\ \A m \in Machine : obj[m] \in MachineRec
    /\ \A k \in Kind : obj[k] \in ClassRec
    /\ \A o \in {"set", "deployment"} : obj[o] \in TemplateRec
    /\ obj["secret"] \in SecretRec
    /\ \A p \in Proc : /\ DOMAIN seen[p] = Cached[p]
                       /\ \A m \in Machine : seen[p][m] \in MachineRec
    /\ fresh \subseteq CachedPair /\ listed \subseteq Machine
    /\ vm \subseteq Machine
    /\ \A m \in Machine : migrate[m].pc \in {"idle", "create", "fill", "references", "machines",
                                             "sets", "deployments", "annotate"}
    /\ \A k \in Kind : class[k].pc \in {"idle", "add", "machines", "remove"}
    /\ \A p \in Proc : secretOf[p].pc \in {"idle", "update"}
    /\ setSync.pc \in {"idle", "sync", "update"} /\ depSync.pc \in {"idle", "update"}
    /\ faults \in 0 .. MaxFaults

\* Nothing ever refers to a generic class that the driver has not filled: updateClassReferences
\* comes after createMachineClass, whatever fails or restarts in between and however MCM copies the
\* kind around meanwhile (unless the user deletes the class).
GenericRefsFilled ==
    /\ TypeOK
    /\ "delete generic" \notin env.events =>
           \A o \in Machine \cup {"set", "deployment"} :
               obj[o].kind = "generic" => obj["generic"].there /\ obj["generic"].filled

\* A worker that found no machine in its lister removes the finalizer of a class even if a machine
\* has been created since; a class the user deletes may then go although it is needed.
ClassMayVanish == {"create machine", "delete generic"} \subseteq env.events

\* Otherwise a machine with a VM never loses the last class with which that VM can be deleted: the
\* finalizer of a class is removed only when no machine refers to it.
UsedClassKept ==
    ~ClassMayVanish =>
        \A m \in vm : \/ obj["generic"].there /\ obj["generic"].filled
                      \/ obj["provider"].there /\ obj[m].kind = "provider"

\* A migration that has begun ends with every reference at the generic class, although MCM copies
\* the old kind back from the deployment to the set and from the set to the machines until the
\* deployment has been updated, and although calls fail and processes restart.  Without faults MCM
\* then deletes the migrated class (deleteMigratedMachineClass).  With several machines there is one
\* other way to go on: the workers of two machines, each of which updates all of them, turn down
\* each other's updates for ever, MCM undoing what they have done in between.
AllGeneric ==
    \A o \in Machine \cup {"set", "deployment"} :
        (o \in Machine => obj[o].there) => obj[o].kind = "generic"
TurnedDown(m) ==
    /\ Turn(m, "machines") /\ migrate'[m] = Idle
    /\ \E n \in Machine \ {m} : obj[n].there
MigrationCompletes ==
    \/ <>[](Runs("migrate") => /\ AllGeneric
                               /\ Runs("class") /\ env.deleteMigrated /\ "fault" \notin env.events
                                      => ~obj["provider"].there)
    \/ []<><<\E m \in Machine : TurnedDown(m)>>_vars

\* A machine that is being deleted goes, although its class may be being deleted too; a class that
\* is being deleted goes, or is used by machines (unless the class may vanish under a machine).
DeletionsComplete ==
    \A o \in Machine \cup Kind :
        []<>(obj[o].deleting /\ ~ClassMayVanish => o \in Kind /\ \E m \in Machine : obj[m].there)

\* The finalizers of the secret settle at those of the processes whose class exists, although each
\* process replaces the whole list by one computed from its cache.
SecretFinalizersSettle ==
    <>[](Runs("secret") /\ "delete secret" \notin env.events =>
            obj["secret"].fins = {p \in Proc : LET k == IF p = "MCM" THEN "provider" ELSE "generic"
                                               IN obj[k].there /\ obj[k].filled})

=============================================================================
