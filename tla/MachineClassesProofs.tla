------------------------ MODULE MachineClassesProofs ------------------------
(***************************************************************************)
(* Proofs about MachineClasses, for any set of machines, any scenarios and *)
(* any number of faults: the objects and what the workers hold keep their  *)
(* types, and nothing refers to a generic class before it is filled.       *)
(***************************************************************************)
EXTENDS MachineClasses, TLAPS

\* A machine or class that is gone carries nothing over to its next life.
Clean(c) == ~c.there => ~c.fin /\ ~c.deleting

\* c may be the object o.
Fit(o, c) ==
    /\ o \in Machine => c \in MachineRec /\ Clean(c)
    /\ o \in Kind => c \in ClassRec /\ Clean(c)
    /\ o \in {"set", "deployment"} => c \in TemplateRec
    /\ o = "secret" => c \in SecretRec

\* The objects and their copies.
StoreT ==
    /\ DOMAIN obj = Object /\ \A o \in Object : Fit(o, obj[o])
    /\ DOMAIN seen = Proc
    /\ \A p \in Proc : DOMAIN seen[p] = Cached[p] /\ \A o \in Cached[p] : Fit(o, seen[p][o])
    /\ fresh \subseteq CachedPair /\ listed \subseteq Machine

\* What the workers hold between two steps.
Migrating(w) ==
    /\ "pc" \in DOMAIN w
    /\ w.pc \in {"idle", "create", "fill", "references", "machines", "sets", "deployments", "annotate"}
    /\ w.pc = "fill" => w.held \in ClassRec /\ w.held.there
    /\ w.pc = "machines" => "held" \in DOMAIN w /\ DOMAIN w.held \subseteq Machine
ClassWork ==
    /\ DOMAIN class = Kind
    /\ \A k \in Kind : class[k].pc \in {"idle", "add", "machines", "remove"}
    /\ class["provider"].pc = "machines" => class["provider"].held \in ClassRec
SecretWork ==
    /\ DOMAIN secretOf = Proc
    /\ \A p \in Proc : /\ secretOf[p].pc \in {"idle", "update"}
                       /\ secretOf[p].pc = "update" => secretOf[p].fins \subseteq Proc
SyncWork ==
    /\ depSync.pc \in {"idle", "update"} /\ setSync.pc \in {"idle", "sync", "update"}
    /\ depSync.pc = "update" => depSync.kind \in Kind
    /\ setSync.pc # "idle" => setSync.kind \in Kind /\ setSync.list \subseteq Machine
    /\ setSync.pc = "update" => setSync.machine \in Machine
WorkT ==
    /\ DOMAIN migrate = Machine /\ \A m \in Machine : Migrating(migrate[m])
    /\ ClassWork /\ SecretWork /\ SyncWork

TInv == env \in Scenarios /\ StoreT /\ WorkT /\ vm \subseteq Machine /\ faults \in 0 .. MaxFaults

Filled == obj["generic"].there /\ obj["generic"].filled

\* Nothing says "generic" yet: no object, no copy of a machine, and nothing a worker is about to
\* write.
Unmentioned ==
    /\ \A o \in Machine \cup {"set", "deployment"} : obj[o].kind = "provider"
    /\ \A p \in Proc, m \in Machine : seen[p][m].kind = "provider"
    /\ setSync.pc # "idle" => setSync.kind = "provider"
    /\ depSync.pc = "update" => depSync.kind = "provider"
    /\ \A m \in Machine : migrate[m].pc \in {"idle", "create", "fill"}

\* The old class has not been marked as migrated, so it stays where a migration needs it.  Without
\* one no migration gets anywhere, and nobody makes a generic class.
Unmigrated ==
    /\ ~obj["provider"].migrated /\ ~seen["MCM"]["provider"].migrated
    /\ class["provider"].pc = "machines" => ~class["provider"].held.migrated
    /\ Runs("migrate") /\ "provider" \in env.classes =>
          obj["provider"].there /\ ~obj["provider"].deleting
    /\ Runs("migrate") /\ "provider" \notin env.classes =>
          ~obj["provider"].there /\ ~obj["generic"].there /\ ~seen["MC"]["generic"].there
    /\ ~Runs("migrate") \/ "provider" \notin env.classes =>
          \A m \in Machine : migrate[m].pc = "idle"

\* Users do not delete the old class under a migration.
Undisturbed == Runs("migrate") => "delete provider" \notin env.events

\* While users leave the classes alone, the generic one is filled before anything mentions it, and
\* before the class it replaces is marked or goes.
FilledInv ==
    Undisturbed /\ "delete generic" \notin env.events =>
        ~obj["generic"].deleting /\ (Filled \/ (Unmentioned /\ Unmigrated))

-----------------------------------------------------------------------------
(* Objects and writes. *)

LEMMA Objects ==
  /\ Kind = {"provider", "generic"} /\ Proc = {"MCM", "MC"}
  /\ Object = Machine \cup Kind \cup {"set", "deployment", "secret"}
  /\ \A m \in Machine : m \notin {"provider", "generic", "set", "deployment", "secret"}
  /\ Cached["MCM"] = Machine \cup {"set", "provider", "secret"}
  /\ Cached["MC"] = Machine \cup {"generic", "secret"}
  /\ \A p \in Proc : Cached[p] \subseteq Object /\ Machine \subseteq Cached[p]
         /\ "secret" \in Cached[p]
<1>1. Kind = {"provider", "generic"} /\ Proc = {"MCM", "MC"}
  BY DEF Kind, Proc
<1>2. Object = Machine \cup Kind \cup {"set", "deployment", "secret"}
  BY DEF Object
<1>3. \A m \in Machine : m \notin {"provider", "generic", "set", "deployment", "secret"}
  BY NamesAssumption
<1>4. /\ Cached["MCM"] = Machine \cup {"set", "provider", "secret"}
      /\ Cached["MC"] = Machine \cup {"generic", "secret"}
  BY DEF Cached
<1> QED
  BY <1>1, <1>2, <1>3, <1>4

\* After a write every object is the one written or as before, and so is every copy.
LEMMA Written ==
  ASSUME StoreT, NEW news, DOMAIN news \subseteq Object, Write(news)
  PROVE  /\ DOMAIN obj' = Object
         /\ \A o \in Object : obj'[o] = IF o \in DOMAIN news THEN news[o] ELSE obj[o]
         /\ DOMAIN seen' = Proc
         /\ \A p \in Proc : DOMAIN seen'[p] = Cached[p]
         /\ \A p \in Proc : \A o \in Cached[p] :
               seen'[p][o] = seen[p][o] \/ (o \in DOMAIN news /\ seen'[p][o] = news[o])
         /\ fresh' \subseteq fresh /\ listed' \subseteq listed
<1> DEFINE changed == {o \in DOMAIN news : news[o] # obj[o]}
           old == {c \in env.slow : c[2] \in changed}
<1>1. /\ obj' = [o \in Object |-> IF o \in changed THEN news[o] ELSE obj[o]]
      /\ fresh' = fresh \ old
      /\ listed' = {o \in listed : o \in changed => <<"MCM", o>> \in old}
      /\ seen' = [p \in Proc |-> [o \in Cached[p] |->
                     IF o \in changed /\ <<p, o>> \notin old THEN news[o] ELSE seen[p][o]]]
  BY Zenon DEF Write
<1> HIDE DEF old
<1> QED
  BY <1>1

\* A write of objects of their types keeps the types of the store.
LEMMA WriteTyped ==
  ASSUME StoreT, NEW news, DOMAIN news \subseteq Object, Write(news),
         \A o \in DOMAIN news : Fit(o, news[o])
  PROVE  StoreT'
<1>1. \A o \in Object : Fit(o, obj'[o])
  BY Written DEF StoreT
<1>2. ASSUME NEW p \in Proc, NEW o \in Cached[p]
      PROVE  Fit(o, seen'[p][o])
  <2>1. Fit(o, seen[p][o])
    BY DEF StoreT
  <2> QED
    BY <1>2, <2>1, Written
<1> QED
  BY <1>1, <1>2, Written DEF StoreT

LEMMA WrittenOne ==
  ASSUME StoreT, NEW o \in Object, NEW new, WriteOne(o, new), Fit(o, new)
  PROVE  /\ StoreT'
         /\ obj'[o] = new /\ \A x \in Object \ {o} : obj'[x] = obj[x]
         /\ \A p \in Proc : \A x \in Cached[p] :
               seen'[p][x] = seen[p][x] \/ (x = o /\ seen'[p][x] = new)
<1> DEFINE news == [x \in {o} |-> new]
<1>1. DOMAIN news = {o} /\ news[o] = new /\ Write(news)
  BY DEF WriteOne
<1>2. StoreT'
  BY <1>1, WriteTyped
<1>3. /\ \A x \in Object : obj'[x] = IF x \in DOMAIN news THEN news[x] ELSE obj[x]
      /\ \A p \in Proc : \A x \in Cached[p] :
               seen'[p][x] = seen[p][x] \/ (x \in DOMAIN news /\ seen'[p][x] = news[x])
  BY <1>1, Written
<1> HIDE DEF news
<1> QED
  BY <1>1, <1>2, <1>3

\* What Settle does to a machine, a class and a secret.
LEMMA MachineSettled ==
  ASSUME NEW c \in MachineRec, Clean(c)
  PROVE  Settle(c) \in MachineRec /\ Clean(Settle(c)) /\ Settle(c).kind = c.kind
<1>1. DOMAIN c = {"there", "deleting", "fin", "kind"}
  BY DEF MachineRec
<1>2. CASE c.deleting /\ c.there /\ ~c.fin
  <2> DEFINE d == [c EXCEPT !.there = FALSE, !.deleting = FALSE]
  <2>1. Settle(c) = d
    BY <1>1, <1>2 DEF Settle
  <2>2. d \in MachineRec /\ ~d.there /\ ~d.deleting /\ d.fin = c.fin /\ d.kind = c.kind
    BY <1>1, ZenonT(60) DEF MachineRec
  <2> HIDE DEF d
  <2> QED
    BY <1>2, <2>1, <2>2 DEF Clean
<1>3. CASE ~(c.deleting /\ c.there /\ ~c.fin)
  BY <1>1, <1>3 DEF Settle
<1> QED
  BY <1>2, <1>3

LEMMA ClassSettled ==
  ASSUME NEW c \in ClassRec, Clean(c)
  PROVE  /\ Settle(c) \in ClassRec /\ Clean(Settle(c))
         /\ Settle(c).migrated = c.migrated /\ Settle(c).filled = c.filled
         /\ ~c.deleting => Settle(c) = c
<1>1. DOMAIN c = {"there", "deleting", "fin", "migrated", "filled"}
  BY DEF ClassRec
<1>2. CASE c.deleting /\ c.there /\ ~c.fin
  <2> DEFINE d == [c EXCEPT !.there = FALSE, !.deleting = FALSE]
  <2>1. Settle(c) = d
    BY <1>1, <1>2 DEF Settle
  <2>2. /\ d \in ClassRec /\ ~d.there /\ ~d.deleting /\ d.fin = c.fin
        /\ d.migrated = c.migrated /\ d.filled = c.filled
    BY <1>1, ZenonT(60) DEF ClassRec
  <2> HIDE DEF d
  <2> QED
    BY <1>2, <2>1, <2>2 DEF Clean
<1>3. CASE ~(c.deleting /\ c.there /\ ~c.fin)
  BY <1>1, <1>3 DEF Settle
<1> QED
  BY <1>2, <1>3

LEMMA SecretSettled ==
  ASSUME NEW c \in SecretRec
  PROVE  Settle(c) \in SecretRec
  BY ZenonT(60) DEF Settle, SecretRec

\* Updates of one field.
LEMMA MachineFields ==
  ASSUME NEW c \in MachineRec, NEW b \in BOOLEAN, NEW k \in Kind
  PROVE  /\ [c EXCEPT !.fin = b] \in MachineRec /\ [c EXCEPT !.fin = b].fin = b
         /\ [c EXCEPT !.fin = b].there = c.there /\ [c EXCEPT !.fin = b].deleting = c.deleting
         /\ [c EXCEPT !.fin = b].kind = c.kind
         /\ [c EXCEPT !.deleting = b] \in MachineRec /\ [c EXCEPT !.deleting = b].fin = c.fin
         /\ [c EXCEPT !.deleting = b].there = c.there /\ [c EXCEPT !.deleting = b].kind = c.kind
         /\ [c EXCEPT !.kind = k] \in MachineRec /\ [c EXCEPT !.kind = k].fin = c.fin
         /\ [c EXCEPT !.kind = k].there = c.there /\ [c EXCEPT !.kind = k].deleting = c.deleting
         /\ [c EXCEPT !.kind = k].kind = k
  BY DEF MachineRec

LEMMA ClassFields ==
  ASSUME NEW c \in ClassRec, NEW b \in BOOLEAN
  PROVE  /\ [c EXCEPT !.fin = b] \in ClassRec /\ [c EXCEPT !.fin = b].there = c.there
         /\ [c EXCEPT !.fin = b].deleting = c.deleting /\ [c EXCEPT !.fin = b].migrated = c.migrated
         /\ [c EXCEPT !.fin = b].filled = c.filled /\ [c EXCEPT !.fin = b].fin = b
         /\ [c EXCEPT !.deleting = b] \in ClassRec /\ [c EXCEPT !.deleting = b].there = c.there
         /\ [c EXCEPT !.deleting = b].migrated = c.migrated
         /\ [c EXCEPT !.deleting = b].filled = c.filled /\ [c EXCEPT !.deleting = b].fin = c.fin
         /\ [c EXCEPT !.filled = TRUE] \in ClassRec /\ [c EXCEPT !.filled = TRUE].there = c.there
         /\ [c EXCEPT !.filled = TRUE].deleting = c.deleting
         /\ [c EXCEPT !.filled = TRUE].fin = c.fin /\ [c EXCEPT !.filled = TRUE].filled
         /\ [c EXCEPT !.migrated = TRUE, !.fin = FALSE] \in ClassRec
         /\ [c EXCEPT !.migrated = TRUE, !.fin = FALSE].there = c.there
         /\ ~[c EXCEPT !.migrated = TRUE, !.fin = FALSE].fin
  BY ZenonT(60) DEF ClassRec

LEMMA NewObjects ==
  ASSUME NEW b \in BOOLEAN, NEW k \in Kind
  PROVE  /\ NewMachine(b, k) \in MachineRec /\ Clean(NewMachine(b, k)) /\ NewMachine(b, k).kind = k
         /\ NewMachine(b, k).there = b
         /\ \A f \in BOOLEAN : /\ NewClass(b, f) \in ClassRec /\ Clean(NewClass(b, f))
                               /\ NewClass(b, f).there = b /\ NewClass(b, f).filled = f
                               /\ ~NewClass(b, f).deleting /\ ~NewClass(b, f).migrated
                               /\ ~NewClass(b, f).fin
  BY DEF NewMachine, NewClass, MachineRec, ClassRec, Clean

\* A step that at most makes workers idle and copies current.
LEMMA StillUnmentioned ==
  ASSUME \A o \in Machine \cup {"set", "deployment"} : obj'[o] = obj[o],
         \A p \in Proc, m \in Machine : seen'[p][m] = seen[p][m] \/ seen'[p][m] = obj[m],
         setSync' \in {setSync, Idle}, depSync' \in {depSync, Idle},
         \A m \in Machine : migrate'[m] \in {migrate[m], Idle},
         Unmentioned
  PROVE  Unmentioned'
<1>1. Idle.pc = "idle"
  BY DEF Idle
<1>2. \A o \in Machine \cup {"set", "deployment"} : obj'[o].kind = "provider"
  BY DEF Unmentioned
<1>3. \A p \in Proc, m \in Machine : seen'[p][m].kind = "provider"
  BY DEF Unmentioned
<1>4. /\ setSync'.pc # "idle" => setSync'.kind = "provider"
      /\ depSync'.pc = "update" => depSync'.kind = "provider"
  BY <1>1 DEF Unmentioned
<1>5. \A m \in Machine : migrate'[m].pc \in {"idle", "create", "fill"}
  BY <1>1 DEF Unmentioned
<1> QED
  BY <1>2, <1>3, <1>4, <1>5, Zenon DEF Unmentioned

\* What Fit says of each kind of object.
LEMMA Fits ==
  /\ \A m \in Machine : \A c : Fit(m, c) <=> c \in MachineRec /\ Clean(c)
  /\ \A k \in Kind : \A c : Fit(k, c) <=> c \in ClassRec /\ Clean(c)
  /\ \A o \in {"set", "deployment"} : \A c : Fit(o, c) <=> c \in TemplateRec
  /\ \A c : Fit("secret", c) <=> c \in SecretRec
  BY Objects DEF Fit

LEMMA StoreFits ==
  ASSUME StoreT
  PROVE  /\ \A m \in Machine : obj[m] \in MachineRec /\ Clean(obj[m])
         /\ \A k \in Kind : obj[k] \in ClassRec /\ Clean(obj[k])
         /\ obj["set"] \in TemplateRec /\ obj["deployment"] \in TemplateRec
         /\ obj["secret"] \in SecretRec
         /\ \A p \in Proc, m \in Machine : seen[p][m] \in MachineRec /\ Clean(seen[p][m])
         /\ \A p \in Proc : seen[p]["secret"] \in SecretRec
         /\ seen["MCM"]["set"] \in TemplateRec
         /\ seen["MCM"]["provider"] \in ClassRec /\ seen["MC"]["generic"] \in ClassRec
<1>1. \A o \in Object : Fit(o, obj[o])
  BY DEF StoreT
<1>2. \A p \in Proc : \A o \in Cached[p] : Fit(o, seen[p][o])
  BY DEF StoreT
<1> QED
  BY <1>1, <1>2, Objects, Fits

\* What follows for TypeOK.
LEMMA Typed == TInv => TypeOK
<1> SUFFICES ASSUME TInv PROVE TypeOK
  OBVIOUS
<1>1. StoreT /\ WorkT
  BY DEF TInv
<1>2. \A o \in Machine \cup Kind : ~obj[o].there => ~obj[o].fin /\ ~obj[o].deleting
  BY <1>1, StoreFits DEF Clean
<1>3. DOMAIN obj = Object /\ \A p \in Proc : DOMAIN seen[p] = Cached[p]
  BY <1>1 DEF StoreT
<1> QED
  BY <1>1, <1>2, <1>3, StoreFits DEF TypeOK, TInv, StoreT, WorkT, Migrating, ClassWork, SecretWork,
     SyncWork

-----------------------------------------------------------------------------
(* The initial states. *)

LEMMA InitObjects ==
  ASSUME Init
  PROVE  /\ \A m \in Machine : obj[m] = [NewMachine(m \in env.machines, env.kind)
                                             EXCEPT !.fin = m \in env.vms]
         /\ \A k \in Kind : obj[k] = [NewClass(k \in env.classes, k \in env.classes) EXCEPT
                                        !.fin = k \in env.classes /\ k = env.kind /\ env.vms # {}]
         /\ obj["secret"] = [there |-> TRUE, deleting |-> FALSE, fins |-> {}]
         /\ obj["set"] = [kind |-> env.kind] /\ obj["deployment"] = [kind |-> env.kind]
         /\ DOMAIN obj = Object
  BY Objects, Zenon DEF Init

LEMMA InitFields ==
  ASSUME Init
  PROVE  /\ \A m \in Machine : /\ obj[m] \in MachineRec /\ obj[m].kind = env.kind
                                  /\ ~obj[m].deleting
                               /\ obj[m].there <=> m \in env.machines
                               /\ obj[m].fin <=> m \in env.vms
         /\ \A k \in Kind : /\ obj[k] \in ClassRec /\ ~obj[k].deleting /\ ~obj[k].migrated
                            /\ obj[k].there <=> k \in env.classes
                            /\ obj[k].filled <=> k \in env.classes
                            /\ obj[k].fin => k \in env.classes
<1>1. env.kind \in Kind
  BY ScenariosAssumption, Zenon DEF Init, Scenario, Kind
<1>2. ASSUME NEW m \in Machine
      PROVE  obj[m] = [there |-> m \in env.machines, deleting |-> FALSE, fin |-> m \in env.vms,
                       kind |-> env.kind]
  BY InitObjects, ZenonT(60) DEF NewMachine
<1>3. ASSUME NEW k \in Kind
      PROVE  obj[k] = [there |-> k \in env.classes, deleting |-> FALSE,
                       fin |-> k \in env.classes /\ k = env.kind /\ env.vms # {},
                       migrated |-> FALSE, filled |-> k \in env.classes]
  BY InitObjects, ZenonT(60) DEF NewClass
<1>4. ASSUME NEW m \in Machine
      PROVE  /\ obj[m] \in MachineRec /\ obj[m].kind = env.kind /\ ~obj[m].deleting
             /\ obj[m].there <=> m \in env.machines
             /\ obj[m].fin <=> m \in env.vms
  <2>1. PICK a \in BOOLEAN : a <=> m \in env.machines
    BY ZenonT(60)
  <2>2. PICK b \in BOOLEAN : b <=> m \in env.vms
    BY ZenonT(60)
  <2>3. obj[m] = [there |-> a, deleting |-> FALSE, fin |-> b, kind |-> env.kind]
    BY <1>2, <2>1, <2>2
  <2>4. /\ obj[m] \in MachineRec /\ obj[m].kind = env.kind /\ obj[m].deleting = FALSE
        /\ obj[m].there = a /\ obj[m].fin = b
    BY <1>1, <2>3 DEF MachineRec
  <2> QED
    BY <2>1, <2>2, <2>4
<1>5. ASSUME NEW k \in Kind
      PROVE  /\ obj[k] \in ClassRec /\ ~obj[k].deleting /\ ~obj[k].migrated
             /\ obj[k].there <=> k \in env.classes
             /\ obj[k].filled <=> k \in env.classes
             /\ obj[k].fin => k \in env.classes
  <2>1. PICK a \in BOOLEAN : a <=> k \in env.classes
    BY ZenonT(60)
  <2>2. PICK b \in BOOLEAN : b = (k \in env.classes /\ k = env.kind /\ env.vms # {})
    BY ZenonT(60)
  <2>3. obj[k] = [there |-> a, deleting |-> FALSE, fin |-> b, migrated |-> FALSE, filled |-> a]
    BY <1>3, <2>1, <2>2
  <2>4. /\ obj[k] \in ClassRec /\ obj[k].deleting = FALSE /\ obj[k].migrated = FALSE
        /\ obj[k].there = a /\ obj[k].filled = a /\ obj[k].fin = b
    BY <2>3 DEF ClassRec
  <2> QED
    BY <2>1, <2>2, <2>4
<1> QED
  BY <1>4, <1>5

LEMMA InitTyped == Init => TInv
<1> SUFFICES ASSUME Init PROVE TInv
  OBVIOUS
<1>1. /\ env \in Scenarios /\ env.kind \in Kind /\ env.vms \subseteq env.machines
      /\ env.machines \subseteq Machine
  BY ScenariosAssumption, Zenon DEF Init, Scenario, Kind
<1>2. ASSUME NEW o \in Object PROVE Fit(o, obj[o])
  <2>1. CASE o \in Machine
    BY <1>1, <2>1, InitFields, Fits DEF Clean
  <2>2. CASE o \in Kind
    BY <2>2, InitFields, Fits DEF Clean
  <2>3. CASE o \in {"set", "deployment"}
    BY <1>1, <2>3, InitObjects, Fits DEF TemplateRec
  <2>4. CASE o = "secret"
    BY <2>4, InitObjects, Fits, ZenonT(60) DEF SecretRec
  <2> QED
    BY <2>1, <2>2, <2>3, <2>4, Objects
<1>3. StoreT
  <2>1. DOMAIN seen = Proc /\ \A p \in Proc : seen[p] = [o \in Cached[p] |-> obj[o]]
    BY Zenon DEF Init
  <2>2. fresh = CachedPair /\ listed = {}
    BY Zenon DEF Init
  <2> QED
    BY <1>2, <2>1, <2>2, InitObjects, Objects DEF StoreT
<1>4. WorkT
  BY Objects, Zenon DEF Init, WorkT, Migrating, ClassWork, SecretWork, SyncWork, Idle
<1> QED
  <2>1. vm \subseteq Machine
    BY <1>1, Zenon DEF Init
  <2>2. faults \in 0 .. MaxFaults
    <3>1. faults = 0 /\ MaxFaults \in Nat
      BY ScenariosAssumption, Zenon DEF Init
    <3> QED
      BY <3>1
  <2> QED
    BY <1>1, <1>3, <1>4, <2>1, <2>2 DEF TInv

LEMMA InitFilled == Init => FilledInv
<1> SUFFICES ASSUME Init PROVE FilledInv
  OBVIOUS
<1>1. env \in Scenarios /\ env.kind \in Kind /\ (env.kind = "generic" => "generic" \in env.classes)
  BY ScenariosAssumption, Zenon DEF Init, Scenario, Kind
<1>2. \A k \in Kind : /\ obj[k].there <=> k \in env.classes
                      /\ obj[k].filled <=> k \in env.classes
                      /\ ~obj[k].deleting /\ ~obj[k].migrated
  BY InitFields
<1>3. /\ DOMAIN seen = Proc /\ \A p \in Proc : seen[p] = [o \in Cached[p] |-> obj[o]]
      /\ setSync.pc = "idle" /\ depSync.pc = "idle" /\ class["provider"].pc = "idle"
      /\ \A m \in Machine : migrate[m].pc = "idle"
  BY Objects, Zenon DEF Init, Idle
<1>4. CASE "generic" \in env.classes
  BY <1>2, <1>4, Objects, Zenon DEF FilledInv, Filled
<1>5. CASE "generic" \notin env.classes
  <2>1. env.kind = "provider"
    BY <1>1, <1>5, Objects
  <2>2. \A m \in Machine : obj[m].kind = "provider"
    BY <2>1, InitFields, Zenon
  <2>3. Unmentioned
    BY <1>3, <2>1, <2>2, InitObjects, Objects DEF Unmentioned
  <2>4. Unmigrated
    BY <1>2, <1>3, <1>5, Objects DEF Unmigrated
  <2> QED
    BY <1>2, <2>3, <2>4, Objects, Zenon DEF FilledInv
<1> QED
  BY <1>4, <1>5

-----------------------------------------------------------------------------
(* The migration. *)

LEMMA MigrateOne ==
  ASSUME WorkT, NEW m \in Machine, NEW w, migrate' = [migrate EXCEPT ![m] = w], Migrating(w),
         UNCHANGED <<class, secretOf, setSync, depSync>>
  PROVE  WorkT' /\ migrate'[m] = w /\ \A n \in Machine \ {m} : migrate'[n] = migrate[n]
  BY DEF WorkT, ClassWork, SecretWork, SyncWork

LEMMA IdleFits == Migrating(Idle) /\ Idle.pc = "idle"
  BY DEF Migrating, Idle

LEMMA ToFits ==
  ASSUME WorkT, NEW m \in Machine, NEW pc \in {"sets", "deployments", "annotate"}
  PROVE  Migrating([migrate[m] EXCEPT !.pc = pc])
  BY DEF WorkT, Migrating

\* A step that leaves the generic class alone.
LEMMA GenericAlone ==
  ASSUME FilledInv, env' = env, obj'["generic"] = obj["generic"],
         Unmentioned /\ Unmigrated => Unmentioned' /\ Unmigrated'
  PROVE  FilledInv'
  BY Zenon DEF FilledInv, Filled, Undisturbed, Runs

LEMMA GetClassStep ==
  ASSUME TInv, FilledInv, Runs("migrate"), NEW m \in Machine, getProviderSpecificMachineClass(m)
  PROVE  TInv' /\ FilledInv'
<1>1. StoreT /\ WorkT
  BY DEF TInv
<1> DEFINE w == IF obj["provider"].there THEN [pc |-> "create"]
                ELSE [pc |-> "references", full |-> FALSE]
<1>2. /\ migrate' = [migrate EXCEPT ![m] = w]
      /\ UNCHANGED <<env, vm, class, secretOf, setSync, depSync, faults, obj, seen, fresh, listed>>
      /\ obj["provider"].there \/ seen["MC"]["generic"].there
  BY DEF getProviderSpecificMachineClass, OnlyMigrate, store
<1>3. Migrating(w) /\ w.pc \in {"create", "references"}
      /\ (w.pc = "create" <=> obj["provider"].there)
  BY DEF Migrating
<1> HIDE DEF w
<1>4. WorkT' /\ migrate'[m] = w /\ \A n \in Machine \ {m} : migrate'[n] = migrate[n]
  BY <1>1, <1>2, <1>3, MigrateOne, ZenonT(60)
<1>5. TInv'
  BY <1>1, <1>2, <1>4 DEF TInv, StoreT
<1>6. ASSUME Unmentioned, Unmigrated PROVE Unmentioned' /\ Unmigrated'
  <2>1. obj["provider"].there /\ "provider" \in env.classes
    BY <1>2, <1>6 DEF Unmigrated
  <2> QED
    BY <1>2, <1>3, <1>4, <1>6, <2>1 DEF Unmentioned, Unmigrated, Runs
<1> QED
  BY <1>2, <1>5, <1>6, GenericAlone

LEMMA CreateClassStep ==
  ASSUME TInv, FilledInv, Runs("migrate"), NEW m \in Machine, createMachineClass(m)
  PROVE  TInv' /\ FilledInv'
<1>1. StoreT /\ WorkT /\ UNCHANGED <<env, vm, class, secretOf, setSync, depSync, faults>>
  BY DEF TInv, createMachineClass, OnlyMigrate
<1>0. migrate[m].pc = "create"
  BY DEF createMachineClass, Turn
<1>2. ASSUME NEW w, migrate' = [migrate EXCEPT ![m] = w], Migrating(w), w.pc \in {"idle", "fill"},
             UNCHANGED store
      PROVE  TInv' /\ FilledInv'
  <2>1. WorkT' /\ migrate'[m] = w /\ \A n \in Machine \ {m} : migrate'[n] = migrate[n]
    BY <1>1, <1>2, MigrateOne, ZenonT(60)
  <2>2. TInv'
    BY <1>1, <1>2, <2>1 DEF TInv, StoreT, store
  <2>3. Unmentioned /\ Unmigrated => Unmentioned' /\ Unmigrated'
    BY <1>0, <1>1, <1>2, <2>1 DEF Unmentioned, Unmigrated, Runs, store
  <2> QED
    BY <1>1, <1>2, <2>2, <2>3, GenericAlone DEF store
<1>3. CASE seen["MC"]["generic"].there
  <2> DEFINE w == [pc |-> "fill", held |-> seen["MC"]["generic"]]
  <2>1. Migrating(w) /\ w.pc = "fill"
    BY <1>1, <1>3, StoreFits DEF Migrating
  <2> QED
    BY <1>2, <1>3, <2>1 DEF createMachineClass
<1>4. CASE ~seen["MC"]["generic"].there /\ obj["generic"].there
  BY <1>2, <1>4, IdleFits DEF createMachineClass, Leave
<1>5. CASE ~seen["MC"]["generic"].there /\ ~obj["generic"].there
  <2> DEFINE new == NewClass(TRUE, FALSE)
             w == [pc |-> "fill", held |-> new]
  <2>1. new \in ClassRec /\ Clean(new) /\ new.there /\ ~new.deleting /\ Fit("generic", new)
    BY NewObjects, Fits, Objects, ZenonT(60)
  <2>2. WriteOne("generic", new) /\ migrate' = [migrate EXCEPT ![m] = w]
    BY <1>5, ZenonT(60) DEF createMachineClass
  <2>3. Migrating(w) /\ w.pc = "fill"
    BY <2>1, ZenonT(60) DEF Migrating
  <2> HIDE DEF new, w
  <2>4. WorkT' /\ migrate'[m] = w /\ \A n \in Machine \ {m} : migrate'[n] = migrate[n]
    BY <1>1, <2>2, <2>3, MigrateOne, ZenonT(60)
  <2>5. /\ StoreT' /\ obj'["generic"] = new /\ \A x \in Object \ {"generic"} : obj'[x] = obj[x]
        /\ \A p \in Proc : \A x \in Cached[p] :
              seen'[p][x] = seen[p][x] \/ (x = "generic" /\ seen'[p][x] = new)
    BY <1>1, <2>1, <2>2, WrittenOne, Objects
  <2>6. TInv'
    BY <1>1, <2>4, <2>5 DEF TInv
  <2>7. ~Filled
    BY <1>5, Zenon DEF Filled
  <2>8. ASSUME Unmentioned, Unmigrated PROVE Unmentioned' /\ Unmigrated'
    <3>1. Unmentioned'
      BY <1>1, <2>3, <2>4, <2>5, <2>8, Objects DEF Unmentioned
    <3>2. "provider" \in env.classes
      BY <1>0, <2>8 DEF Unmigrated
    <3> QED
      BY <1>1, <2>5, <2>8, <3>1, <3>2, Objects DEF Unmigrated, Runs
  <2> QED
    BY <1>1, <2>1, <2>5, <2>6, <2>7, <2>8, Zenon DEF FilledInv, Undisturbed, Runs
<1> QED
  BY <1>3, <1>4, <1>5

LEMMA FillClassStep ==
  ASSUME TInv, FilledInv, Runs("migrate"), NEW m \in Machine, fillMachineClass(m)
  PROVE  TInv' /\ FilledInv'
<1>1. StoreT /\ WorkT /\ UNCHANGED <<env, vm, class, secretOf, setSync, depSync, faults>>
  BY DEF TInv, fillMachineClass, OnlyMigrate
<1>2. migrate[m].pc = "fill" /\ migrate[m].held.there
  BY <1>1 DEF fillMachineClass, Turn, WorkT, Migrating
<1>3. CASE migrate[m].held = obj["generic"]
  <2> DEFINE new == [obj["generic"] EXCEPT !.filled = TRUE]
             w == [pc |-> "references", full |-> TRUE]
  <2>1. obj["generic"] \in ClassRec /\ Clean(obj["generic"]) /\ obj["generic"].there
    BY <1>1, <1>2, <1>3, StoreFits, Objects
  <2>2. new \in ClassRec /\ Clean(new) /\ new.there /\ new.filled
        /\ new.deleting = obj["generic"].deleting
    <3>1. new \in ClassRec /\ new.there = obj["generic"].there /\ new.filled
          /\ new.deleting = obj["generic"].deleting
      BY <2>1, ZenonT(60) DEF ClassRec
    <3> HIDE DEF new
    <3> QED
      BY <2>1, <3>1 DEF Clean
  <2>3. WriteOne("generic", new) /\ migrate' = [migrate EXCEPT ![m] = w] /\ Migrating(w)
    BY <1>3 DEF fillMachineClass, Migrating
  <2> HIDE DEF new, w
  <2>4. StoreT' /\ obj'["generic"] = new
    BY <1>1, <2>2, <2>3, WrittenOne, Objects, Fits
  <2>5. WorkT'
    BY <1>1, <2>3, MigrateOne, ZenonT(60)
  <2> QED
    BY <1>1, <2>2, <2>4, <2>5, Zenon DEF TInv, FilledInv, Filled, Undisturbed, Runs
<1>4. CASE migrate[m].held # obj["generic"]
  <2>1. migrate' = [migrate EXCEPT ![m] = Idle] /\ UNCHANGED <<obj, seen, fresh, listed>>
    BY <1>4 DEF fillMachineClass, Leave, store
  <2>2. WorkT' /\ migrate'[m] = Idle /\ \A n \in Machine \ {m} : migrate'[n] = migrate[n]
    BY <1>1, <2>1, MigrateOne, IdleFits, ZenonT(60)
  <2>3. TInv'
    BY <1>1, <2>1, <2>2 DEF TInv, StoreT
  <2>4. Unmentioned /\ Unmigrated => Unmentioned' /\ Unmigrated'
    BY <1>1, <2>1, <2>2, IdleFits DEF Unmentioned, Unmigrated, Runs
  <2> QED
    BY <1>1, <2>1, <2>3, <2>4, GenericAlone
<1> QED
  BY <1>3, <1>4

\* The steps after the class was filled: each writes something that does not matter for types, and
\* the class stays.
LEMMA ReferencesStep ==
  ASSUME TInv, FilledInv, NEW m \in Machine,
         \/ listMachineReferences(m) \/ updateMachineReferences(m)
         \/ updateSetReferences(m) \/ updateDeploymentReferences(m)
         \/ addMigratedAnnotationForProviderMachineClass(m)
  PROVE  TInv' /\ FilledInv'
<1>1. StoreT /\ WorkT
  BY DEF TInv
<1>2. /\ UNCHANGED <<env, vm, class, secretOf, setSync, depSync, faults>>
      /\ migrate[m].pc \in {"references", "machines", "sets", "deployments", "annotate"}
  BY Zenon DEF listMachineReferences, updateMachineReferences, updateSetReferences, updateDeploymentReferences,
     addMigratedAnnotationForProviderMachineClass, OnlyMigrate, Turn
<1>3. ~Unmentioned
  BY <1>2 DEF Unmentioned
<1>4. WorkT'
  <2>1. \/ Leave(m) \/ To(m, "sets") \/ To(m, "deployments") \/ To(m, "annotate")
        \/ listMachineReferences(m)
        \/ /\ Turn(m, "machines")
           /\ \E x : migrate' = [migrate EXCEPT ![m].held =
                                   [y \in DOMAIN migrate[m].held \ {x} |-> migrate[m].held[y]]]
    BY Zenon DEF updateMachineReferences, updateSetReferences, updateDeploymentReferences,
       addMigratedAnnotationForProviderMachineClass
  <2>2. CASE Leave(m)
    BY <1>1, <1>2, <2>2, MigrateOne, IdleFits, ZenonT(60) DEF Leave
  <2>3. ASSUME NEW pc \in {"sets", "deployments", "annotate"}, To(m, pc)
        PROVE  WorkT'
    <3> DEFINE w == [migrate[m] EXCEPT !.pc = pc]
    <3>1. Migrating(w)
      BY <1>1, <2>3, ToFits, ZenonT(60)
    <3>2. migrate' = [migrate EXCEPT ![m] = w]
      BY <2>3 DEF To
    <3> HIDE DEF w
    <3> QED
      BY <1>1, <1>2, <3>1, <3>2, MigrateOne, ZenonT(60)
  <2>4. CASE listMachineReferences(m)
    <3> DEFINE S == {x \in Machine : seen["MC"][x].there /\ seen["MC"][x].kind = "provider"}
               held == [x \in S |-> seen["MC"][x]]
               w == [pc |-> "machines", full |-> migrate[m].full, held |-> held]
    <3>1. migrate' = [migrate EXCEPT ![m] = w]
      BY <2>4, Zenon DEF listMachineReferences
    <3>2. DOMAIN held \subseteq Machine
      OBVIOUS
    <3> HIDE DEF held
    <3>3. Migrating(w)
      BY <3>2 DEF Migrating
    <3> HIDE DEF w
    <3> QED
      BY <1>1, <1>2, <3>1, <3>3, MigrateOne, ZenonT(60)
  <2>5. ASSUME Turn(m, "machines"),
               NEW x, migrate' = [migrate EXCEPT ![m].held =
                                    [y \in DOMAIN migrate[m].held \ {x} |-> migrate[m].held[y]]]
        PROVE  WorkT'
    <3> DEFINE held == [y \in DOMAIN migrate[m].held \ {x} |-> migrate[m].held[y]]
               w == [migrate[m] EXCEPT !.held = held]
    <3>1. migrate' = [migrate EXCEPT ![m] = w]
      BY <2>5, Zenon
    <3>2. Migrating(migrate[m]) /\ migrate[m].pc = "machines"
      BY <1>1, <2>5, Zenon DEF WorkT, Turn
    <3>3. DOMAIN held \subseteq Machine
      BY <3>2, Zenon DEF Migrating
    <3> HIDE DEF held
    <3>4. Migrating(w)
      BY <3>2, <3>3 DEF Migrating
    <3> HIDE DEF w
    <3> QED
      BY <1>1, <1>2, <3>1, <3>4, MigrateOne, ZenonT(60)
  <2> QED
    BY <2>1, <2>2, <2>3, <2>4, <2>5, Zenon
<1>5. StoreT' /\ obj'["generic"] = obj["generic"]
  <2>1. CASE updateMachineReferences(m)
    <3>1. migrate[m].pc = "machines" /\ DOMAIN migrate[m].held \subseteq Machine
      BY <1>1, <2>1, Zenon DEF updateMachineReferences, Turn, WorkT, Migrating
    <3>2. \/ UNCHANGED store
          \/ \E x \in DOMAIN migrate[m].held : WriteOne(x, [obj[x] EXCEPT !.kind = "generic"])
      BY <2>1, ZenonT(60) DEF updateMachineReferences
    <3>3. ASSUME NEW x \in Machine, WriteOne(x, [obj[x] EXCEPT !.kind = "generic"])
          PROVE  StoreT' /\ obj'["generic"] = obj["generic"]
      <4>1. obj[x] \in MachineRec /\ Clean(obj[x])
        BY <1>1, StoreFits
      <4>2. "generic" \in Kind
        BY Objects
      <4> DEFINE c == [obj[x] EXCEPT !.kind = "generic"]
      <4>3. c \in MachineRec /\ c.there = obj[x].there /\ c.fin = obj[x].fin
            /\ c.deleting = obj[x].deleting
        BY <4>1, <4>2 DEF MachineRec
      <4>4. WriteOne(x, c)
        BY <3>3
      <4> HIDE DEF c
      <4>5. Fit(x, c) /\ x \in Object /\ x # "generic" /\ "generic" \in Object
        BY <4>1, <4>3, Fits, Objects DEF Clean
      <4> QED
        BY <1>1, <4>4, <4>5, WrittenOne, ZenonT(60)
    <3>4. CASE UNCHANGED store
      BY <1>1, <3>4 DEF store, StoreT
    <3> QED
      BY <3>1, <3>2, <3>3, <3>4, Zenon
  <2>2. CASE updateSetReferences(m) \/ updateDeploymentReferences(m)
    <3> DEFINE new == [kind |-> "generic"]
    <3>1. PICK o \in {"set", "deployment"} : WriteOne(o, new)
      BY <2>2 DEF updateSetReferences, updateDeploymentReferences
    <3>2. Fit(o, new)
      BY Fits, Objects DEF TemplateRec
    <3> HIDE DEF new
    <3> QED
      BY <1>1, <3>1, <3>2, WrittenOne, Objects, ZenonT(60)
  <2>3. CASE addMigratedAnnotationForProviderMachineClass(m)
    <3> DEFINE d == [obj["provider"] EXCEPT !.migrated = TRUE, !.fin = FALSE]
    <3>1. CASE obj["provider"].there
      <4>1. obj["provider"] \in ClassRec
        BY <1>1, StoreFits, Objects
      <4>2. d \in ClassRec /\ d.there = obj["provider"].there
        BY <4>1, ZenonT(60) DEF ClassRec
      <4>3. WriteOne("provider", Settle(d))
        BY <2>3, <3>1 DEF addMigratedAnnotationForProviderMachineClass
      <4> HIDE DEF d
      <4>4. Fit("provider", Settle(d))
        BY <3>1, <4>2, ClassSettled, Fits, Objects, ZenonT(60) DEF Clean
      <4> QED
        BY <1>1, <4>3, <4>4, WrittenOne, Objects
    <3>2. CASE ~obj["provider"].there
      BY <1>1, <2>3, <3>2 DEF addMigratedAnnotationForProviderMachineClass, store, StoreT
    <3> QED
      BY <3>1, <3>2
  <2>4. CASE listMachineReferences(m)
    BY <1>1, <2>4 DEF listMachineReferences, store, StoreT
  <2> QED
    BY <2>1, <2>2, <2>3, <2>4
<1>6. FilledInv'
  BY <1>2, <1>3, <1>5, GenericAlone, Zenon
<1> QED
  BY <1>1, <1>2, <1>4, <1>5, <1>6 DEF TInv

-----------------------------------------------------------------------------
(* Machines and the workers that write them. *)

LEMMA MachineWrite ==
  ASSUME TInv, FilledInv, NEW m \in Machine, NEW new \in MachineRec, Clean(new), WriteOne(m, new),
         UNCHANGED <<env, migrate, class, depSync>>, Unmentioned => new.kind = "provider",
         setSync'.pc # "idle" => setSync.pc # "idle" /\ setSync'.kind = setSync.kind
  PROVE  StoreT' /\ FilledInv'
<1>1. m \in Object /\ StoreT /\ Fit(m, new)
  BY Objects, Fits DEF TInv
<1>2. /\ StoreT' /\ obj'[m] = new /\ \A x \in Object \ {m} : obj'[x] = obj[x]
      /\ \A p \in Proc : \A x \in Cached[p] :
            seen'[p][x] = seen[p][x] \/ (x = m /\ seen'[p][x] = new)
  BY <1>1, WrittenOne
<1>3. /\ obj'["generic"] = obj["generic"] /\ obj'["provider"] = obj["provider"]
      /\ obj'["set"] = obj["set"] /\ obj'["deployment"] = obj["deployment"]
      /\ seen'["MCM"]["provider"] = seen["MCM"]["provider"]
      /\ seen'["MC"]["generic"] = seen["MC"]["generic"]
  BY <1>2, Objects
<1>4. ASSUME Unmentioned PROVE Unmentioned'
  <2>0. /\ new.kind = "provider" /\ \A n \in Machine : obj[n].kind = "provider"
        /\ \A p \in Proc, n \in Machine : seen[p][n].kind = "provider"
    BY <1>4, Zenon DEF Unmentioned
  <2>1. \A n \in Machine : obj'[n].kind = "provider"
    <3>1. Machine \subseteq Object
      BY Objects, Zenon
    <3> QED
      BY <1>2, <2>0, <3>1
  <2>2. \A p \in Proc, n \in Machine : seen'[p][n].kind = "provider"
    <3>1. \A p \in Proc : Machine \subseteq Cached[p]
      BY Objects, Zenon
    <3> QED
      BY <1>2, <2>0, <3>1
  <2> QED
    BY <1>3, <1>4, <2>1, <2>2 DEF Unmentioned
<1>5. Unmigrated => Unmigrated'
  BY <1>3 DEF Unmigrated, Runs
<1> QED
  BY <1>2, <1>3, <1>4, <1>5, GenericAlone

\* Nothing but vm, the secret's worker and the counter of faults changes.
LEMMA Nothing ==
  ASSUME TInv, FilledInv, UNCHANGED <<env, store, migrate, class, setSync, depSync>>
  PROVE  StoreT' /\ FilledInv'
<1>1. UNCHANGED <<env, obj, seen, fresh, listed, migrate, class, setSync, depSync>>
  BY DEF store
<1>2. StoreT'
  BY <1>1 DEF StoreT, TInv
<1>3. Unmentioned /\ Unmigrated => Unmentioned' /\ Unmigrated'
  BY <1>1 DEF Unmentioned, Unmigrated, Runs
<1> QED
  BY <1>1, <1>2, <1>3, GenericAlone

LEMMA WorkersSame ==
  ASSUME WorkT, UNCHANGED workers
  PROVE  WorkT' /\ UNCHANGED <<migrate, class, secretOf, setSync, depSync>>
  BY DEF WorkT, Migrating, ClassWork, SecretWork, SyncWork, workers

\* An object of a machine with its finalizer set or removed.
LEMMA Finalizer ==
  ASSUME NEW c \in MachineRec, Clean(c)
  PROVE  /\ Settle([c EXCEPT !.fin = FALSE]) \in MachineRec
         /\ Clean(Settle([c EXCEPT !.fin = FALSE]))
         /\ Settle([c EXCEPT !.fin = FALSE]).kind = c.kind
         /\ [c EXCEPT !.fin = TRUE] \in MachineRec
         /\ c.there => Clean([c EXCEPT !.fin = TRUE])
         /\ [c EXCEPT !.fin = TRUE].kind = c.kind
         /\ c.there => /\ Settle([c EXCEPT !.deleting = TRUE]) \in MachineRec
                       /\ Clean(Settle([c EXCEPT !.deleting = TRUE]))
                       /\ Settle([c EXCEPT !.deleting = TRUE]).kind = c.kind
<1> DEFINE d == [c EXCEPT !.fin = FALSE]
           e == [c EXCEPT !.fin = TRUE]
           f == [c EXCEPT !.deleting = TRUE]
<1>1. /\ d \in MachineRec /\ ~d.fin /\ d.there = c.there /\ d.deleting = c.deleting
         /\ d.kind = c.kind
      /\ e \in MachineRec /\ e.there = c.there /\ e.kind = c.kind
      /\ f \in MachineRec /\ f.there = c.there /\ f.kind = c.kind
  BY ZenonT(60) DEF MachineRec
<1> HIDE DEF d, e, f
<1>2. Clean(d) /\ (c.there => Clean(e) /\ Clean(f))
  BY <1>1 DEF Clean
<1>3. Settle(d) \in MachineRec /\ Clean(Settle(d)) /\ Settle(d).kind = c.kind
  BY <1>1, <1>2, MachineSettled
<1>4. c.there => Settle(f) \in MachineRec /\ Clean(Settle(f)) /\ Settle(f).kind = c.kind
  BY <1>1, <1>2, MachineSettled
<1> QED
  BY <1>1, <1>2, <1>3, <1>4 DEF d, e, f

LEMMA TerminatedStep ==
  ASSUME TInv, FilledInv, NEW p \in Proc, NEW m \in Machine, Terminated(p, m),
         UNCHANGED <<env, workers, faults>>
  PROVE  TInv' /\ FilledInv'
<1>1. StoreT /\ WorkT' /\ UNCHANGED <<env, migrate, class, secretOf, setSync, depSync, faults>>
  BY WorkersSame DEF TInv
<1>2. seen[p][m] \in MachineRec /\ Clean(seen[p][m])
  BY <1>1, StoreFits
<1>3. vm' \subseteq Machine
  BY DEF Terminated, TInv
<1>4. StoreT' /\ FilledInv'
  <2>1. CASE <<p, m>> \in fresh
    <3> DEFINE new == Settle([seen[p][m] EXCEPT !.fin = FALSE])
    <3>1. WriteOne(m, new)
      BY <2>1 DEF Terminated
    <3>2. new \in MachineRec /\ Clean(new) /\ new.kind = seen[p][m].kind
      BY <1>2, Finalizer, ZenonT(60)
    <3> HIDE DEF new
    <3>3. Unmentioned => new.kind = "provider"
      BY <3>2 DEF Unmentioned
    <3> QED
      BY <1>1, <3>1, <3>2, <3>3, MachineWrite
  <2>2. CASE <<p, m>> \notin fresh
    BY <1>1, <2>2, Nothing DEF Terminated
  <2> QED
    BY <2>1, <2>2
<1> QED
  BY <1>1, <1>3, <1>4 DEF TInv

LEMMA FinalizerStep ==
  ASSUME TInv, FilledInv, NEW p \in Proc, NEW m \in Machine, seen[p][m].there,
         WriteOne(m, [seen[p][m] EXCEPT !.fin = TRUE]) \/ UNCHANGED store,
         vm' \subseteq vm \cup {m}, UNCHANGED <<env, workers, faults>>
  PROVE  TInv' /\ FilledInv'
<1>1. StoreT /\ WorkT' /\ UNCHANGED <<env, migrate, class, secretOf, setSync, depSync, faults>>
  BY WorkersSame DEF TInv
<1>2. vm' \subseteq Machine
  BY DEF TInv
<1>3. StoreT' /\ FilledInv'
  <2>1. CASE UNCHANGED store
    BY <1>1, <2>1, Nothing
  <2>2. CASE WriteOne(m, [seen[p][m] EXCEPT !.fin = TRUE])
    <3> DEFINE new == [seen[p][m] EXCEPT !.fin = TRUE]
    <3>1. new \in MachineRec /\ Clean(new) /\ new.kind = seen[p][m].kind
      BY <1>1, StoreFits, Finalizer, ZenonT(60)
    <3>2. WriteOne(m, new)
      BY <2>2
    <3> HIDE DEF new
    <3>3. Unmentioned => new.kind = "provider"
      BY <3>1 DEF Unmentioned
    <3> QED
      BY <1>1, <3>1, <3>2, <3>3, MachineWrite
  <2> QED
    BY <2>1, <2>2
<1> QED
  BY <1>1, <1>2, <1>3 DEF TInv

LEMMA ValidateStep ==
  ASSUME TInv, FilledInv, NEW m \in Machine,
         ValidateMachineClass(m) \/ validateMachineClassInTree(m)
  PROVE  TInv' /\ FilledInv'
<1>1. UNCHANGED <<env, workers, faults>> /\ "MC" \in Proc /\ "MCM" \in Proc
  BY Objects, Zenon DEF ValidateMachineClass, validateMachineClassInTree
<1>2. CASE ValidateMachineClass(m)
  <2>1. seen["MC"][m].there
    BY <1>2 DEF ValidateMachineClass
  <2>2. \/ Terminated("MC", m)
        \/ WriteOne(m, [seen["MC"][m] EXCEPT !.fin = TRUE]) /\ vm' = vm
        \/ UNCHANGED store /\ vm' = vm \cup {m}
    BY <1>2, Zenon DEF ValidateMachineClass
  <2> QED
    BY <1>1, <2>1, <2>2, TerminatedStep, FinalizerStep
<1>3. CASE validateMachineClassInTree(m)
  <2>1. seen["MCM"][m].there
    BY <1>3 DEF validateMachineClassInTree, Existing
  <2>2. \/ Terminated("MCM", m)
        \/ /\ WriteOne(m, [seen["MCM"][m] EXCEPT !.fin = TRUE]) \/ UNCHANGED store
           /\ vm' = vm \cup {m}
    BY <1>3, Zenon DEF validateMachineClassInTree
  <2> QED
    BY <1>1, <2>1, <2>2, TerminatedStep, FinalizerStep
<1> QED
  BY <1>2, <1>3

-----------------------------------------------------------------------------
(* The class workers. *)

LEMMA ClassOne ==
  ASSUME WorkT, NEW k \in Kind, NEW w, ClassTo(k, w),
         w.pc \in {"idle", "add", "machines", "remove"},
         k = "provider" /\ w.pc = "machines" => w.held \in ClassRec,
         UNCHANGED <<migrate, secretOf, setSync, depSync>>
  PROVE  WorkT' /\ class'[k] = w /\ \A l \in Kind \ {k} : class'[l] = class[l]
<1>1. DOMAIN class' = Kind /\ class'[k] = w /\ \A l \in Kind \ {k} : class'[l] = class[l]
  BY DEF ClassTo, WorkT, ClassWork
<1>2. ClassWork'
  <2>1. ClassWork /\ "provider" \in Kind
    BY Objects DEF WorkT
  <2>2. \A l \in Kind : class'[l].pc \in {"idle", "add", "machines", "remove"}
    BY <1>1, <2>1 DEF ClassWork
  <2>3. class'["provider"].pc = "machines" => class'["provider"].held \in ClassRec
    BY <1>1, <2>1 DEF ClassWork
  <2> QED
    BY <1>1, <2>2, <2>3, Zenon DEF ClassWork
<1> QED
  BY <1>1, <1>2 DEF WorkT, SecretWork, SyncWork

\* A write of the provider's class that does not mark it, and does not remove it while a migration
\* may still need it.
LEMMA ProviderWrite ==
  ASSUME TInv, FilledInv, NEW new \in ClassRec, Clean(new), WriteOne("provider", new),
         UNCHANGED <<env, migrate, setSync, depSync>>,
         Unmentioned /\ Unmigrated =>
            /\ new.migrated = obj["provider"].migrated
            /\ Runs("migrate") => new.there = obj["provider"].there
                                 /\ new.deleting = obj["provider"].deleting
            /\ class'["provider"].pc = "machines" => ~class'["provider"].held.migrated
  PROVE  StoreT' /\ FilledInv'
<1>1. StoreT /\ Fit("provider", new) /\ "provider" \in Object
  BY Fits, Objects, Zenon DEF TInv
<1>2. /\ StoreT' /\ obj'["provider"] = new /\ \A x \in Object \ {"provider"} : obj'[x] = obj[x]
      /\ \A p \in Proc : \A x \in Cached[p] :
            seen'[p][x] = seen[p][x] \/ (x = "provider" /\ seen'[p][x] = new)
  BY <1>1, WrittenOne, Zenon
<1>3. Unmentioned => Unmentioned'
  <2>1. \A o \in Machine \cup {"set", "deployment"} : obj'[o] = obj[o]
    BY <1>2, Objects
  <2>2. \A p \in Proc, m \in Machine : seen'[p][m] = seen[p][m]
    BY <1>2, Objects, Zenon
  <2> QED
    BY <2>1, <2>2, StillUnmentioned, Zenon
<1>4. ASSUME Unmentioned, Unmigrated PROVE Unmigrated'
  <2>1. seen'["MCM"]["provider"] \in {seen["MCM"]["provider"], new}
        /\ obj'["generic"] = obj["generic"]
        /\ seen'["MC"]["generic"] = seen["MC"]["generic"]
    BY <1>2, Objects
  <2> QED
    BY <1>2, <1>4, <2>1, Zenon DEF Unmigrated, Runs
<1> QED
  BY <1>2, <1>3, <1>4, GenericAlone, Objects

\* A write of the generic class by its worker, which touches only the finalizer.
LEMMA GenericWrite ==
  ASSUME TInv, FilledInv, NEW new \in ClassRec, Clean(new), WriteOne("generic", new),
         UNCHANGED <<env, migrate, setSync, depSync>>, class'["provider"] = class["provider"],
         obj["generic"].there,
         ~obj["generic"].deleting => /\ new.there = obj["generic"].there
                                     /\ new.deleting = obj["generic"].deleting
                                     /\ new.filled = obj["generic"].filled
  PROVE  StoreT' /\ FilledInv'
<1>1. StoreT /\ Fit("generic", new) /\ "generic" \in Object
  BY Fits, Objects, Zenon DEF TInv
<1>2. /\ StoreT' /\ obj'["generic"] = new /\ \A x \in Object \ {"generic"} : obj'[x] = obj[x]
      /\ \A p \in Proc : \A x \in Cached[p] :
            seen'[p][x] = seen[p][x] \/ (x = "generic" /\ seen'[p][x] = new)
  BY <1>1, WrittenOne, Zenon
<1>3. Unmentioned => Unmentioned'
  <2>1. \A o \in Machine \cup {"set", "deployment"} : obj'[o] = obj[o]
    BY <1>2, Objects
  <2>2. \A p \in Proc, m \in Machine : seen'[p][m] = seen[p][m]
    BY <1>2, Objects, Zenon
  <2> QED
    BY <2>1, <2>2, StillUnmentioned, Zenon
<1>4. Unmigrated => Unmigrated'
  <2>1. seen'["MCM"]["provider"] = seen["MCM"]["provider"] /\ obj'["provider"] = obj["provider"]
    BY <1>2, Objects
  <2> QED
    BY <2>1, Zenon DEF Unmigrated, Runs
<1> QED
  BY <1>2, <1>3, <1>4, Zenon DEF FilledInv, Filled, Undisturbed, Runs

\* Classes with the finalizer set or removed, or deleted.
LEMMA ClassFinalizer ==
  ASSUME NEW c \in ClassRec, c.there
  PROVE  /\ [c EXCEPT !.fin = TRUE] \in ClassRec /\ Clean([c EXCEPT !.fin = TRUE])
         /\ [c EXCEPT !.fin = TRUE].there = c.there /\ [c EXCEPT !.fin = TRUE].deleting = c.deleting
         /\ [c EXCEPT !.fin = TRUE].migrated = c.migrated
            /\ [c EXCEPT !.fin = TRUE].filled = c.filled
         /\ Settle([c EXCEPT !.fin = FALSE]) \in ClassRec /\ Clean(Settle([c EXCEPT !.fin = FALSE]))
         /\ Settle([c EXCEPT !.fin = FALSE]).migrated = c.migrated
         /\ Settle([c EXCEPT !.fin = FALSE]).filled = c.filled
         /\ ~c.deleting => /\ Settle([c EXCEPT !.fin = FALSE]).there = c.there
                           /\ Settle([c EXCEPT !.fin = FALSE]).deleting = c.deleting
         /\ Deleted(c) \in ClassRec /\ Clean(Deleted(c)) /\ Deleted(c).migrated = c.migrated
<1> DEFINE d == [c EXCEPT !.fin = FALSE]
           e == [c EXCEPT !.fin = TRUE]
           f == [c EXCEPT !.deleting = TRUE]
<1>1. /\ d \in ClassRec /\ d.there = c.there /\ d.deleting = c.deleting
      /\ d.migrated = c.migrated /\ d.filled = c.filled
      /\ e \in ClassRec /\ e.there = c.there /\ e.deleting = c.deleting
      /\ e.migrated = c.migrated /\ e.filled = c.filled
      /\ f \in ClassRec /\ f.there = c.there /\ f.migrated = c.migrated
  BY ZenonT(60) DEF ClassRec
<1>0. Deleted(c) = Settle(f)
  BY DEF Deleted
<1> HIDE DEF d, e, f
<1>2. Clean(d) /\ Clean(e) /\ Clean(f)
  BY <1>1 DEF Clean
<1>3. /\ Settle(d) \in ClassRec /\ Clean(Settle(d)) /\ Settle(d).migrated = c.migrated
      /\ Settle(d).filled = c.filled /\ (~c.deleting => Settle(d) = d)
  BY <1>1, <1>2, ClassSettled
<1>4. Deleted(c) \in ClassRec /\ Clean(Deleted(c)) /\ Deleted(c).migrated = c.migrated
  BY <1>0, <1>1, <1>2, ClassSettled
<1>5. ~c.deleting => Settle(d).there = c.there /\ Settle(d).deleting = c.deleting
  BY <1>1, <1>3, ZenonT(60)
<1>6. Settle([c EXCEPT !.fin = FALSE]) = Settle(d) /\ [c EXCEPT !.fin = TRUE] = e
  BY DEF d, e
<1> QED
  BY <1>1, <1>2, <1>3, <1>4, <1>5, <1>6, ZenonT(60)

LEMMA ProviderWorkerStep ==
  ASSUME TInv, FilledInv, addProviderFinalizers \/ decideProvider \/ deleteFinalizers("provider")
  PROVE  TInv' /\ FilledInv'
<1>1. /\ StoreT /\ WorkT /\ "provider" \in Kind
      /\ UNCHANGED <<env, vm, migrate, secretOf, setSync, depSync, faults>>
  BY Objects, Zenon DEF TInv, addProviderFinalizers, decideProvider, deleteFinalizers, OnlyClass
<1>2. obj["provider"] \in ClassRec /\ seen["MCM"]["provider"] \in ClassRec
  BY <1>1, StoreFits
<1>3. ASSUME NEW w, ClassTo("provider", w), w.pc \in {"idle", "machines", "remove"},
             w.pc = "machines" => w.held = seen["MCM"]["provider"]
      PROVE  /\ WorkT'
             /\ Unmigrated => (class'["provider"].pc = "machines"
                              => ~class'["provider"].held.migrated)
  <2>1. WorkT' /\ class'["provider"] = w
    BY <1>1, <1>2, <1>3, ClassOne
  <2> QED
    BY <1>3, <2>1 DEF Unmigrated
<1>4. ASSUME NEW w, ClassTo("provider", w), w.pc \in {"idle", "machines", "remove"},
             w.pc = "machines" => w.held = seen["MCM"]["provider"], UNCHANGED store
      PROVE  TInv' /\ FilledInv'
  <2>1. UNCHANGED <<obj, seen, fresh, listed>>
    BY <1>4, Zenon DEF store
  <2>2. Unmentioned /\ Unmigrated => Unmentioned' /\ Unmigrated'
    BY <1>1, <1>3, <1>4, <2>1, Zenon DEF Unmentioned, Unmigrated, Runs
  <2>3. StoreT' /\ FilledInv'
    BY <1>1, <2>1, <2>2, GenericAlone, Zenon DEF StoreT
  <2> QED
    BY <1>1, <1>3, <1>4, <2>3 DEF TInv
<1>5. CASE addProviderFinalizers
  <2> DEFINE held == seen["MCM"]["provider"]
             w == [pc |-> "machines", held |-> held]
  <2>1. w.pc = "machines" /\ w.held = held
    OBVIOUS
  <2>2. \/ addFinalizers("provider", w)
        \/ ClassTo("provider", w) /\ UNCHANGED store
    BY <1>5, Zenon DEF addProviderFinalizers
  <2> HIDE DEF w
  <2>3. CASE obj["provider"].there /\ ~obj["provider"].deleting /\ addFinalizers("provider", w)
    <3> DEFINE new == [obj["provider"] EXCEPT !.fin = TRUE]
    <3>1. WriteOne("provider", new) /\ ClassTo("provider", w)
      BY <2>3 DEF addFinalizers
    <3>2. /\ new \in ClassRec /\ Clean(new) /\ new.there = obj["provider"].there
          /\ new.deleting = obj["provider"].deleting /\ new.migrated = obj["provider"].migrated
      BY <1>2, <2>3, ClassFinalizer, ZenonT(60)
    <3> HIDE DEF new
    <3>3. StoreT' /\ FilledInv'
      BY <1>1, <1>3, <2>1, <3>1, <3>2, ProviderWrite
    <3> QED
      BY <1>1, <1>3, <2>1, <3>1, <3>3 DEF TInv
  <2>4. CASE ~(obj["provider"].there /\ ~obj["provider"].deleting) /\ addFinalizers("provider", w)
    BY <1>4, <2>4, IdleFits DEF addFinalizers
  <2> QED
    BY <1>4, <2>1, <2>2, <2>3, <2>4
<1>6. CASE decideProvider
  <2>1. class["provider"].pc = "machines"
    BY <1>6 DEF decideProvider
  <2>2. CASE UNCHANGED store
    <3>1. PICK w : ClassTo("provider", w) /\ w \in {Idle, [pc |-> "remove"]}
      BY <1>6 DEF decideProvider
    <3>2. w.pc \in {"idle", "remove"}
      BY <3>1, IdleFits
    <3> QED
      BY <1>4, <2>2, <3>1, <3>2, Zenon
  <2>3. CASE ~UNCHANGED store
    <3>1. /\ WriteOne("provider", Deleted(obj["provider"])) /\ obj["provider"].there
          /\ class["provider"].held.migrated /\ ClassTo("provider", Idle)
      BY <1>6, <2>3, Zenon DEF decideProvider
    <3>2. Deleted(obj["provider"]) \in ClassRec /\ Clean(Deleted(obj["provider"]))
      BY <1>2, <3>1, ClassFinalizer, ZenonT(60)
    <3>3. ~Unmigrated
      BY <2>1, <3>1 DEF Unmigrated
    <3>4. StoreT' /\ FilledInv'
      BY <1>1, <3>1, <3>2, <3>3, ProviderWrite, ZenonT(60)
    <3> QED
      BY <1>1, <1>3, <3>1, <3>4, IdleFits DEF TInv
  <2> QED
    BY <2>2, <2>3, Zenon
<1>7. CASE deleteFinalizers("provider")
  <2>1. ClassTo("provider", Idle)
    BY <1>7 DEF deleteFinalizers
  <2>2. CASE ~obj["provider"].there
    BY <1>4, <1>7, <2>1, <2>2, IdleFits, Zenon DEF deleteFinalizers
  <2>3. CASE obj["provider"].there
    <3> DEFINE new == Settle([obj["provider"] EXCEPT !.fin = FALSE])
    <3>1. WriteOne("provider", new)
      BY <1>7, <2>3 DEF deleteFinalizers
    <3>2. /\ new \in ClassRec /\ Clean(new) /\ new.migrated = obj["provider"].migrated
          /\ ~obj["provider"].deleting => /\ new.there = obj["provider"].there
                                          /\ new.deleting = obj["provider"].deleting
      BY <1>2, <2>3, ClassFinalizer, ZenonT(60)
    <3> HIDE DEF new
    <3>3. Unmigrated /\ Runs("migrate") => /\ new.there = obj["provider"].there
                                           /\ new.deleting = obj["provider"].deleting
      BY <2>3, <3>2, ZenonT(60) DEF Unmigrated
    <3>4. StoreT' /\ FilledInv'
      BY <1>1, <1>3, <2>1, <3>1, <3>2, <3>3, ProviderWrite, IdleFits, Zenon
    <3> QED
      BY <1>1, <1>3, <2>1, <3>4, IdleFits DEF TInv
  <2> QED
    BY <2>2, <2>3
<1> QED
  BY <1>5, <1>6, <1>7

LEMMA GenericWorkerStep ==
  ASSUME TInv, FilledInv, reconcileClusterMachineClass
  PROVE  TInv' /\ FilledInv'
<1>1. /\ StoreT /\ WorkT /\ "generic" \in Kind /\ "provider" \in Kind \ {"generic"}
      /\ UNCHANGED <<env, vm, migrate, secretOf, setSync, depSync, faults>>
  BY Objects DEF TInv, reconcileClusterMachineClass, deleteFinalizers, OnlyClass
<1>2. obj["generic"] \in ClassRec
  BY <1>1, StoreFits
<1>3. PICK w : ClassTo("generic", w) /\ w.pc \in {"idle", "add", "remove"}
  <2>1. \/ \E pc \in {"add", "remove"} : ClassTo("generic", [pc |-> pc])
        \/ ClassTo("generic", Idle)
    BY DEF reconcileClusterMachineClass, deleteFinalizers, addFinalizers
  <2> QED
    BY <2>1, IdleFits
<1>4. WorkT' /\ class'["provider"] = class["provider"]
  BY <1>1, <1>3, ClassOne
<1>5. CASE UNCHANGED store
  <2>1. UNCHANGED <<obj, seen, fresh, listed>>
    BY <1>5, Zenon DEF store
  <2>2. Unmentioned /\ Unmigrated => Unmentioned' /\ Unmigrated'
    BY <1>1, <1>4, <2>1, Zenon DEF Unmentioned, Unmigrated, Runs
  <2>3. StoreT' /\ FilledInv'
    BY <1>1, <2>1, <2>2, GenericAlone DEF StoreT
  <2> QED
    BY <1>1, <1>4, <2>3 DEF TInv
<1>6. CASE ~UNCHANGED store
  <2>1. /\ obj["generic"].there
        /\ \/ WriteOne("generic", [obj["generic"] EXCEPT !.fin = TRUE])
           \/ WriteOne("generic", Settle([obj["generic"] EXCEPT !.fin = FALSE]))
    BY <1>6, Zenon DEF reconcileClusterMachineClass, deleteFinalizers, addFinalizers
  <2>2. PICK new : /\ WriteOne("generic", new)
                   /\ \/ new = [obj["generic"] EXCEPT !.fin = TRUE]
                      \/ new = Settle([obj["generic"] EXCEPT !.fin = FALSE])
    BY <2>1, Zenon
  <2>3. /\ new \in ClassRec /\ Clean(new)
        /\ ~obj["generic"].deleting => /\ new.there = obj["generic"].there
                                       /\ new.deleting = obj["generic"].deleting
                                       /\ new.filled = obj["generic"].filled
    BY <1>2, <2>1, <2>2, ClassFinalizer, ZenonT(60)
  <2>4. StoreT' /\ FilledInv'
    BY <1>1, <1>4, <2>1, <2>2, <2>3, GenericWrite, ZenonT(60)
  <2> QED
    BY <1>1, <1>4, <2>4 DEF TInv
<1> QED
  BY <1>5, <1>6

-----------------------------------------------------------------------------
(* Secrets, the hand-down of the kind, users and faults. *)

\* A write of the secret matters to nobody else.
LEMMA SecretWrite ==
  ASSUME TInv, FilledInv, NEW new \in SecretRec, WriteOne("secret", new),
         UNCHANGED <<env, migrate, class, setSync, depSync>>
  PROVE  StoreT' /\ FilledInv'
<1>1. StoreT /\ Fit("secret", new) /\ "secret" \in Object
  BY Fits, Objects DEF TInv
<1>2. /\ StoreT' /\ \A x \in Object \ {"secret"} : obj'[x] = obj[x]
      /\ \A p \in Proc : \A x \in Cached[p] \ {"secret"} : seen'[p][x] = seen[p][x]
  BY <1>1, WrittenOne, SMTT(30)
<1>3. Unmentioned => Unmentioned'
  <2>1. \A o \in Machine \cup {"set", "deployment"} : obj'[o] = obj[o]
    BY <1>2, Objects
  <2>2. \A p \in Proc, m \in Machine : seen'[p][m] = seen[p][m]
    BY <1>2, Objects, Zenon
  <2> QED
    BY <2>1, <2>2, StillUnmentioned, Zenon
<1>4. Unmigrated => Unmigrated'
  <2>1. /\ seen'["MCM"]["provider"] = seen["MCM"]["provider"] /\ obj'["provider"] = obj["provider"]
        /\ seen'["MC"]["generic"] = seen["MC"]["generic"] /\ obj'["generic"] = obj["generic"]
    BY <1>2, Objects
  <2> QED
    BY <2>1 DEF Unmigrated, Runs
<1> QED
  BY <1>2, <1>3, <1>4, GenericAlone, Objects

LEMMA SecretStep ==
  ASSUME TInv, FilledInv, NEW p \in Proc, SecretController(p)
  PROVE  TInv' /\ FilledInv'
<1>1. StoreT /\ WorkT /\ UNCHANGED <<env, vm, migrate, class, setSync, depSync, faults>>
  BY Zenon DEF TInv, SecretController, reconcileClusterSecret, updateSecretFinalizers, OnlySecret
<1>2. /\ obj["secret"] \in SecretRec /\ seen[p]["secret"] \in SecretRec
  BY <1>1, StoreFits
<1>3. SecretWork'
  <2>1. CASE reconcileClusterSecret(p)
    <3> DEFINE secret == seen[p]["secret"]
               wanted == IF existsMachineClassForSecret(p) THEN secret.fins \cup {p}
                         ELSE secret.fins \ {p}
    <3>1. secretOf' = [secretOf EXCEPT ![p] = [pc |-> "update", fins |-> wanted]]
      BY <2>1, Zenon DEF reconcileClusterSecret
    <3>2. wanted \subseteq Proc
      BY <1>2 DEF SecretRec
    <3> HIDE DEF wanted
    <3> QED
      BY <1>1, <3>1, <3>2 DEF WorkT, SecretWork
  <2>2. CASE updateSecretFinalizers(p)
    BY <1>1, <2>2, IdleFits, Zenon DEF updateSecretFinalizers, WorkT, SecretWork
  <2> QED
    BY <2>1, <2>2 DEF SecretController
<1>4. WorkT'
  BY <1>1, <1>3 DEF WorkT, Migrating, ClassWork, SyncWork
<1>5. StoreT' /\ FilledInv'
  <2>1. CASE UNCHANGED store
    BY <1>1, <2>1, Nothing
  <2>2. CASE ~UNCHANGED store
    <3> DEFINE c == [obj["secret"] EXCEPT !.fins = secretOf[p].fins]
    <3>1. updateSecretFinalizers(p) /\ WriteOne("secret", Settle(c))
      BY <2>2, Zenon DEF SecretController, reconcileClusterSecret, updateSecretFinalizers
    <3>2. secretOf[p].fins \subseteq Proc
      BY <1>1, <3>1 DEF updateSecretFinalizers, WorkT, SecretWork
    <3>3. c \in SecretRec
      BY <1>2, <3>2 DEF SecretRec
    <3> HIDE DEF c
    <3> QED
      BY <1>1, <3>1, <3>3, SecretSettled, SecretWrite
  <2> QED
    BY <2>1, <2>2
<1> QED
  BY <1>1, <1>4, <1>5 DEF TInv

LEMMA DeploymentStep ==
  ASSUME TInv, FilledInv, syncDeployment
  PROVE  TInv' /\ FilledInv'
<1>1. StoreT /\ WorkT /\ UNCHANGED <<env, vm, migrate, class, secretOf, setSync, faults>>
  BY DEF TInv, syncDeployment
<1>2. obj["deployment"] \in TemplateRec /\ obj["deployment"].kind \in Kind
  BY <1>1, StoreFits DEF TemplateRec
<1>3. CASE depSync.pc = "idle"
  <2>1. depSync' = [pc |-> "update", kind |-> obj["deployment"].kind]
        /\ UNCHANGED <<obj, seen, fresh, listed>>
    BY <1>3, Zenon DEF syncDeployment, store
  <2>2. depSync'.pc = "update" /\ depSync'.kind = obj["deployment"].kind
    BY <2>1
  <2>3. TInv'
    BY <1>1, <1>2, <2>1, <2>2, Zenon
     DEF TInv, StoreT, WorkT, Migrating, ClassWork, SecretWork, SyncWork
  <2>4. Unmentioned /\ Unmigrated => Unmentioned' /\ Unmigrated'
    BY <1>1, <2>1, <2>2, Zenon DEF Unmentioned, Unmigrated, Runs
  <2> QED
    BY <1>1, <2>1, <2>3, <2>4, GenericAlone
<1>4. CASE depSync.pc # "idle"
  <2>1. depSync.pc = "update" /\ depSync.kind \in Kind /\ depSync' = Idle
    BY <1>1, <1>4, Zenon DEF syncDeployment, WorkT, SyncWork
  <2>2. WorkT'
    BY <1>1, <2>1, IdleFits DEF WorkT, Migrating, ClassWork, SecretWork, SyncWork
  <2>3. CASE UNCHANGED store
    <3>1. UNCHANGED <<obj, seen, fresh, listed>>
      BY <2>3 DEF store
    <3>2. Unmentioned /\ Unmigrated => Unmentioned' /\ Unmigrated'
      BY <1>1, <2>1, <3>1, IdleFits, Zenon DEF Unmentioned, Unmigrated, Runs
    <3>3. StoreT' /\ FilledInv'
      BY <1>1, <3>1, <3>2, GenericAlone, Zenon DEF StoreT
    <3> QED
      BY <1>1, <2>2, <3>3, Zenon DEF TInv
  <2>4. CASE ~UNCHANGED store
    <3> DEFINE new == [kind |-> depSync.kind]
    <3>1. WriteOne("set", new)
      BY <1>4, <2>4, Zenon DEF syncDeployment
    <3>2. Fit("set", new) /\ "set" \in Object /\ new.kind = depSync.kind
      BY <2>1, Fits, Objects DEF TemplateRec
    <3> HIDE DEF new
    <3>3. /\ StoreT' /\ obj'["set"] = new /\ \A x \in Object \ {"set"} : obj'[x] = obj[x]
          /\ \A p \in Proc : \A x \in Cached[p] \ {"set"} : seen'[p][x] = seen[p][x]
      <4>1. /\ StoreT' /\ obj'["set"] = new /\ \A x \in Object \ {"set"} : obj'[x] = obj[x]
            /\ \A p \in Proc : \A x \in Cached[p] :
                  seen'[p][x] = seen[p][x] \/ (x = "set" /\ seen'[p][x] = new)
        BY <1>1, <3>1, <3>2, WrittenOne
      <4> QED
        BY <4>1, Zenon
    <3>4. Unmentioned => Unmentioned'
      <4>1. Unmentioned => new.kind = "provider"
        BY <2>1, <3>2, SMTT(30) DEF Unmentioned
      <4>2. \A p \in Proc, m \in Machine : seen'[p][m] = seen[p][m]
        BY <3>3, Objects, Zenon, Zenon
      <4>3. ASSUME Unmentioned, NEW o \in Machine \cup {"set", "deployment"}
            PROVE  obj'[o].kind = "provider"
        <5>1. CASE o = "set"
          BY <3>3, <4>1, <4>3, <5>1, Zenon
        <5>2. CASE o # "set"
          <6>1. o \in Object
            BY Objects, Zenon
          <6> QED
            BY <3>3, <4>3, <5>2, <6>1, Zenon DEF Unmentioned
        <5> QED
          BY <5>1, <5>2, Zenon
      <4>4. depSync'.pc # "update"
        BY <2>1, IdleFits, Zenon
      <4>5. ASSUME Unmentioned
            PROVE  /\ \A p \in Proc, m \in Machine : seen'[p][m].kind = "provider"
                   /\ setSync'.pc # "idle" => setSync'.kind = "provider"
                   /\ \A m \in Machine : migrate'[m].pc \in {"idle", "create", "fill"}
        <5>1. setSync' = setSync /\ migrate' = migrate
          BY <1>1, Zenon
        <5>2. \A p \in Proc, m \in Machine : seen'[p][m].kind = "provider"
          BY <4>2, <4>5 DEF Unmentioned
        <5>3. setSync'.pc # "idle" => setSync'.kind = "provider"
          BY <4>5, <5>1, Zenon DEF Unmentioned
        <5>4. \A m \in Machine : migrate'[m].pc \in {"idle", "create", "fill"}
          BY <4>5, <5>1, Zenon DEF Unmentioned
        <5> QED
          BY <5>2, <5>3, <5>4, Zenon
      <4> QED
        BY <4>3, <4>4, <4>5, Zenon DEF Unmentioned
    <3>5. Unmigrated => Unmigrated'
      <4>1. /\ seen'["MCM"]["provider"] = seen["MCM"]["provider"]
               /\ obj'["provider"] = obj["provider"]
            /\ seen'["MC"]["generic"] = seen["MC"]["generic"] /\ obj'["generic"] = obj["generic"]
        BY <3>3, Objects, SMTT(30)
      <4> QED
        BY <1>1, <4>1 DEF Unmigrated, Runs
    <3>6. FilledInv'
      BY <1>1, <3>3, <3>4, <3>5, GenericAlone, Objects
    <3> QED
      BY <1>1, <2>2, <3>3, <3>6 DEF TInv
  <2> QED
    BY <2>3, <2>4
<1> QED
  BY <1>3, <1>4

\* A sync of the machine set only notes and hands down the set's kind.
LEMMA SetStep ==
  ASSUME TInv, FilledInv, SetController
  PROVE  TInv' /\ FilledInv'
<1>1. StoreT /\ WorkT /\ UNCHANGED <<env, vm, migrate, class, secretOf, depSync, faults>>
  BY Zenon DEF TInv, SetController, reconcileClusterMachineSet, syncMachinesClassKind,
     UpdateMachineWithRetries
<1>2. ASSUME SyncWork' PROVE WorkT'
  BY <1>1, <1>2 DEF WorkT, Migrating, ClassWork, SecretWork
<1>3. CASE reconcileClusterMachineSet
  <2> DEFINE differing == {m \in Machine : seen["MCM"][m].there
                                   /\ seen["MCM"][m].kind # obj["set"].kind}
  <2>1. /\ setSync' = [pc |-> "sync", kind |-> obj["set"].kind, list |-> differing]
        /\ listed' = differing /\ UNCHANGED <<obj, seen, fresh>>
    BY <1>3, Zenon DEF reconcileClusterMachineSet
  <2>2. differing \subseteq Machine /\ obj["set"].kind \in Kind
    BY <1>1, StoreFits DEF TemplateRec
  <2> HIDE DEF differing
  <2>3. setSync'.pc = "sync" /\ setSync'.kind = obj["set"].kind /\ setSync'.list = differing
    BY <2>1
  <2>4. WorkT'
    BY <1>1, <1>2, <2>2, <2>3, Zenon DEF WorkT, SyncWork
  <2>5. StoreT'
    BY <1>1, <2>1, <2>2 DEF StoreT
  <2>6. Unmentioned /\ Unmigrated => Unmentioned' /\ Unmigrated'
    BY <1>1, <2>1, <2>3, Zenon DEF Unmentioned, Unmigrated, Runs
  <2> QED
    BY <1>1, <2>1, <2>4, <2>5, <2>6, GenericAlone DEF TInv
<1>4. ASSUME NEW m \in Machine, syncMachinesClassKind(m) PROVE TInv' /\ FilledInv'
  <2>1. /\ setSync.pc = "sync" /\ UNCHANGED <<obj, fresh, listed>>
        /\ setSync' = [pc |-> "update", kind |-> setSync.kind,
                       list |-> setSync.list \ {m}, machine |-> m]
        /\ seen' = IF m \in listed THEN [seen EXCEPT !["MCM"][m].kind = setSync.kind] ELSE seen
    BY <1>4, Zenon DEF syncMachinesClassKind
  <2>2. /\ setSync'.pc = "update" /\ setSync'.kind = setSync.kind
        /\ setSync'.list = setSync.list \ {m} /\ setSync'.machine = m
    BY <2>1
  <2>3. setSync.kind \in Kind /\ setSync.list \subseteq Machine
    BY <1>1, <2>1, Zenon DEF WorkT, SyncWork
  <2>4. WorkT'
    BY <1>1, <1>2, <2>2, <2>3, Zenon DEF WorkT, SyncWork
  <2>5. DOMAIN seen = Proc /\ \A p \in Proc : DOMAIN seen[p] = Cached[p]
    BY <1>1 DEF StoreT
  <2> DEFINE new == [seen["MCM"][m] EXCEPT !.kind = setSync.kind]
  <2>6. /\ DOMAIN seen' = Proc /\ \A p \in Proc : DOMAIN seen'[p] = Cached[p]
        /\ \A p \in Proc : \A x \in Cached[p] :
              seen'[p][x] = seen[p][x] \/ (x = m /\ seen'[p][x] = new)
    BY <2>1, <2>5, Objects
  <2>7. /\ new \in MachineRec /\ new.kind = setSync.kind /\ new.there = seen["MCM"][m].there
        /\ new.fin = seen["MCM"][m].fin /\ new.deleting = seen["MCM"][m].deleting
    <3>1. seen["MCM"][m] \in MachineRec
      BY <1>1, StoreFits, Objects, Zenon
    <3> QED
      BY <2>3, <3>1, Zenon DEF MachineRec
  <2> HIDE DEF new
  <2>8. Fit(m, new)
    <3>1. Clean(seen["MCM"][m])
      BY <1>1, StoreFits, Objects
    <3> QED
      BY <2>7, <3>1, Fits, Zenon DEF Clean
  <2>9. StoreT'
    BY <1>1, <2>1, <2>6, <2>8 DEF StoreT
  <2>10. ASSUME Unmentioned, Unmigrated PROVE Unmentioned' /\ Unmigrated'
    <3>1. new.kind = "provider"
      BY <2>1, <2>7, <2>10, Zenon DEF Unmentioned
    <3>2. \A p \in Proc, n \in Machine : seen'[p][n].kind = "provider"
      <4>1. \A p \in Proc : Machine \subseteq Cached[p]
        BY Objects, Zenon
      <4>2. \A p \in Proc, n \in Machine : seen[p][n].kind = "provider"
        BY <2>10, Zenon DEF Unmentioned
      <4> QED
        BY <2>6, <3>1, <4>1, <4>2
    <3>3. /\ seen'["MCM"]["provider"] = seen["MCM"]["provider"]
          /\ seen'["MC"]["generic"] = seen["MC"]["generic"]
      BY <2>6, Objects
    <3>4. Unmentioned'
      BY <1>1, <2>1, <2>2, <2>10, <3>2, Zenon DEF Unmentioned
    <3> QED
      BY <1>1, <2>1, <2>10, <3>3, <3>4 DEF Unmigrated, Runs
  <2> QED
    BY <1>1, <2>1, <2>4, <2>9, <2>10, GenericAlone DEF TInv
<1>5. CASE UpdateMachineWithRetries
  <2>1. setSync.pc = "update" /\ setSync.machine \in Machine /\ setSync.kind \in Kind
        /\ setSync.list \subseteq Machine
    BY <1>1, <1>5 DEF UpdateMachineWithRetries, WorkT, SyncWork
  <2>2. \/ setSync' = Idle
        \/ setSync' = [pc |-> "sync", kind |-> setSync.kind, list |-> setSync.list]
    BY <1>5, Zenon DEF UpdateMachineWithRetries
  <2>3. /\ setSync'.pc \in {"idle", "sync"}
        /\ setSync'.pc # "idle" => setSync'.kind = setSync.kind /\ setSync'.list = setSync.list
    BY <2>2, IdleFits, SMTT(30)
  <2>4. WorkT'
    BY <1>1, <1>2, <2>1, <2>3, Zenon DEF WorkT, SyncWork
  <2>5. CASE UNCHANGED store
    <3>1. UNCHANGED <<obj, seen, fresh, listed>>
      BY <2>5 DEF store
    <3>2. Unmentioned /\ Unmigrated => Unmentioned' /\ Unmigrated'
      BY <1>1, <2>1, <2>3, <3>1, Zenon DEF Unmentioned, Unmigrated, Runs
    <3>3. StoreT' /\ FilledInv'
      BY <1>1, <3>1, <3>2, GenericAlone DEF StoreT
    <3> QED
      BY <1>1, <2>4, <3>3 DEF TInv
  <2>6. CASE ~UNCHANGED store
    <3>1. PICK m \in Machine : m = setSync.machine
      BY <2>1
    <3>2. WriteOne(m, seen["MCM"][m])
      BY <1>5, <2>6, <3>1, ZenonT(60) DEF UpdateMachineWithRetries
    <3>3. seen["MCM"][m] \in MachineRec /\ Clean(seen["MCM"][m]) /\ "MCM" \in Proc
      BY <1>1, StoreFits, Objects, Zenon
    <3>4. Unmentioned => seen["MCM"][m].kind = "provider"
      BY <3>3 DEF Unmentioned
    <3>5. StoreT' /\ FilledInv'
      BY <1>1, <2>1, <2>3, <3>2, <3>3, <3>4, MachineWrite, Zenon
    <3> QED
      BY <1>1, <2>4, <3>5 DEF TInv
  <2> QED
    BY <2>5, <2>6
<1> QED
  BY <1>3, <1>4, <1>5 DEF SetController

LEMMA UserStep ==
  ASSUME TInv, FilledInv,
         \/ \E o \in DOMAIN DeleteEvent : DeleteObject(o)
         \/ \E m \in Machine : DeleteMachine(m) \/ CreateMachine(m)
  PROVE  TInv' /\ FilledInv'
<1>1. StoreT /\ WorkT
  BY DEF TInv
<1>2. vm' = vm /\ UNCHANGED <<env, workers, faults>>
  BY Zenon DEF DeleteObject, DeleteMachine, CreateMachine, Outside
<1>3. WorkT' /\ UNCHANGED <<migrate, class, secretOf, setSync, depSync>>
  BY <1>1, <1>2, WorkersSame, Zenon
<1>4. ASSUME NEW m \in Machine, DeleteMachine(m) PROVE StoreT' /\ FilledInv'
  <2> DEFINE new == Settle([obj[m] EXCEPT !.deleting = TRUE])
  <2>1. WriteOne(m, new) /\ obj[m].there
    BY <1>4, Zenon DEF DeleteMachine, Deleted
  <2>2. new \in MachineRec /\ Clean(new) /\ new.kind = obj[m].kind
    BY <1>1, <2>1, StoreFits, Finalizer, ZenonT(60)
  <2> HIDE DEF new
  <2>3. Unmentioned => new.kind = "provider"
    BY <2>2, Zenon DEF Unmentioned
  <2> QED
    BY <1>2, <1>3, <2>1, <2>2, <2>3, MachineWrite
<1>5. ASSUME NEW m \in Machine, CreateMachine(m) PROVE StoreT' /\ FilledInv'
  <2>1. obj["set"].kind \in Kind
    BY <1>1, StoreFits DEF TemplateRec
  <2>2. PICK new : new = NewMachine(TRUE, obj["set"].kind)
    BY ZenonT(60)
  <2>3. WriteOne(m, new)
    BY <1>5, <2>2, Zenon DEF CreateMachine
  <2>4. new \in MachineRec /\ Clean(new) /\ new.kind = obj["set"].kind
    BY <2>1, <2>2, NewObjects, ZenonT(60)
  <2>5. Unmentioned => new.kind = "provider"
    BY <2>4 DEF Unmentioned
  <2> QED
    BY <1>2, <1>3, <2>3, <2>4, <2>5, MachineWrite, Zenon
<1>6. ASSUME NEW o \in DOMAIN DeleteEvent, DeleteObject(o) PROVE StoreT' /\ FilledInv'
  <2>1. DeleteEvent[o] \in env.events /\ obj[o].there /\ WriteOne(o, Deleted(obj[o]))
    BY <1>6 DEF DeleteObject
  <2>2. o \in {"provider", "generic", "secret"}
    BY DEF DeleteEvent
  <2>3. CASE o = "secret"
    <3> DEFINE c == [obj["secret"] EXCEPT !.deleting = TRUE]
    <3>1. c \in SecretRec
      BY <1>1, StoreFits, ZenonT(60) DEF SecretRec
    <3>2. WriteOne("secret", Settle(c))
      BY <2>1, <2>3 DEF Deleted
    <3> HIDE DEF c
    <3> QED
      BY <1>2, <1>3, <3>1, <3>2, SecretSettled, SecretWrite
  <2>4. CASE o \in {"provider", "generic"}
    <3>1. PICK new : new = Deleted(obj[o])
      OBVIOUS
    <3>2. new \in ClassRec /\ Clean(new) /\ new.migrated = obj[o].migrated
      BY <1>1, <2>1, <2>4, <3>1, StoreFits, ClassFinalizer, Objects, ZenonT(60)
    <3>3. CASE o = "provider" /\ Undisturbed
      <4>1. ~Runs("migrate")
        BY <2>1, <3>3, Zenon DEF Undisturbed, DeleteEvent
      <4> QED
        BY <1>2, <1>3, <2>1, <3>1, <3>2, <3>3, <4>1, ProviderWrite DEF Unmigrated
    <3>4. CASE o = "generic" \/ ~Undisturbed
      <4>1. StoreT'
        BY <1>1, <2>1, <2>4, <3>1, <3>2, WrittenOne, Fits, Objects, Zenon
      <4>2. "delete generic" \in env.events \/ ~Undisturbed
        <5>1. DeleteEvent["generic"] = "delete generic"
          BY DEF DeleteEvent
        <5> QED
          BY <2>1, <3>4, <5>1, Zenon
      <4> QED
        BY <1>2, <4>1, <4>2, ZenonT(60) DEF FilledInv, Undisturbed, Runs
    <3> QED
      BY <2>4, <3>3, <3>4
  <2> QED
    BY <2>2, <2>3, <2>4, Zenon
<1> QED
  BY <1>2, <1>3, <1>4, <1>5, <1>6 DEF TInv

LEMMA FaultStep ==
  ASSUME TInv, FilledInv,
         \/ \E m \in Machine : CallFails(m)
         \/ SetCallFails
         \/ \E p \in Proc : Restart(p)
  PROVE  TInv' /\ FilledInv'
<1>1. StoreT /\ WorkT
  BY DEF TInv
<1>2. UNCHANGED <<env, vm, obj>> /\ faults' \in 0 .. MaxFaults
  <2>1. UNCHANGED <<env, vm, obj>> /\ Fault
    BY Zenon DEF CallFails, SetCallFails, Restart, store
  <2> QED
    BY <2>1, ScenariosAssumption DEF Fault, TInv
<1>3. ASSUME NEW m \in Machine, CallFails(m) PROVE StoreT' /\ WorkT' /\ FilledInv'
  <2>1. /\ migrate' = [migrate EXCEPT ![m] = Idle]
        /\ UNCHANGED <<obj, seen, fresh, listed, class, secretOf, setSync, depSync>>
    BY <1>3 DEF CallFails, Leave, store
  <2>2. WorkT' /\ migrate'[m] = Idle /\ \A n \in Machine \ {m} : migrate'[n] = migrate[n]
    BY <1>1, <2>1, MigrateOne, IdleFits, ZenonT(60)
  <2>3. Unmentioned /\ Unmigrated => Unmentioned' /\ Unmigrated'
    BY <1>2, <2>1, <2>2, IdleFits, Zenon DEF Unmentioned, Unmigrated, Runs
  <2>4. StoreT'
    BY <1>1, <1>2, <2>1, Zenon DEF StoreT
  <2> QED
    BY <1>2, <2>1, <2>2, <2>3, <2>4, GenericAlone
<1>4. ASSUME SetCallFails PROVE StoreT' /\ WorkT' /\ FilledInv'
  <2>1. setSync' = Idle /\ UNCHANGED <<obj, seen, fresh, listed, migrate, class, secretOf, depSync>>
    BY <1>4, Zenon DEF SetCallFails, store
  <2>2. WorkT'
    BY <1>1, <2>1, IdleFits, Zenon DEF WorkT, Migrating, ClassWork, SecretWork, SyncWork
  <2>3. Unmentioned /\ Unmigrated => Unmentioned' /\ Unmigrated'
    BY <1>2, <2>1, IdleFits DEF Unmentioned, Unmigrated, Runs
  <2>4. StoreT'
    BY <1>1, <1>2, <2>1 DEF StoreT
  <2> QED
    BY <1>2, <2>1, <2>2, <2>3, <2>4, GenericAlone
<1>5. ASSUME NEW p \in Proc, Restart(p) PROVE StoreT' /\ WorkT' /\ FilledInv'
  <2>1. /\ seen' = [seen EXCEPT ![p] = [o \in Cached[p] |-> obj[o]]]
        /\ fresh' = fresh \cup {<<p, o>> : o \in Cached[p]}
        /\ class' = [class EXCEPT ![IF p = "MC" THEN "generic" ELSE "provider"] = Idle]
        /\ secretOf' = [secretOf EXCEPT ![p] = Idle]
        /\ migrate' = (IF p = "MC" THEN [m \in Machine |-> Idle] ELSE migrate)
        /\ setSync' \in {Idle, setSync} /\ depSync' \in {Idle, depSync} /\ listed' \in {{}, listed}
    BY <1>5 DEF Restart
  <2>2. DOMAIN seen = Proc /\ (\A q \in Proc : DOMAIN seen[q] = Cached[q])
    BY <1>1, Zenon DEF StoreT
  <2>3. /\ DOMAIN seen' = Proc /\ (\A q \in Proc : DOMAIN seen'[q] = Cached[q])
        /\ \A q \in Proc : \A o \in Cached[q] : seen'[q][o] \in {seen[q][o], obj[o]}
    BY <2>1, <2>2, Zenon
  <2>4. \A o \in Cached[p] : <<p, o>> \in CachedPair
    BY Objects DEF CachedPair
  <2>5. StoreT'
    <3>1. \A q \in Proc : \A o \in Cached[q] : Fit(o, seen'[q][o])
      BY <1>1, <2>3, Objects, ZenonT(60) DEF StoreT
    <3>2. fresh' \subseteq CachedPair
      BY <1>1, <2>1, <2>4, Zenon DEF StoreT
    <3> QED
      BY <1>1, <1>2, <2>1, <2>3, <3>1, <3>2, Zenon DEF StoreT
  <2>6. /\ DOMAIN migrate' = Machine /\ \A m \in Machine : migrate'[m] \in {migrate[m], Idle}
    BY <1>1, <2>1 DEF WorkT
  <2>7. /\ DOMAIN class' = Kind /\ \A k \in Kind : class'[k] \in {class[k], Idle}
    BY <1>1, <2>1, Objects, ZenonT(60) DEF WorkT, ClassWork
  <2>8. /\ DOMAIN secretOf' = Proc /\ \A q \in Proc : secretOf'[q] \in {secretOf[q], Idle}
    BY <1>1, <2>1 DEF WorkT, SecretWork
  <2>9. WorkT'
    <3>1. ClassWork'
      BY <1>1, <2>7, IdleFits, Objects, Zenon DEF WorkT, ClassWork
    <3>2. SecretWork'
      BY <1>1, <2>8, IdleFits, Zenon DEF WorkT, SecretWork
    <3>3. SyncWork'
      BY <1>1, <2>1, IdleFits DEF WorkT, SyncWork
    <3>4. \A m \in Machine : Migrating(migrate'[m])
      BY <1>1, <2>6, IdleFits, Zenon DEF WorkT
    <3> QED
      BY <2>6, <3>1, <3>2, <3>3, <3>4, Zenon DEF WorkT
  <2>10. Unmentioned => Unmentioned'
    <3>1. \A q \in Proc, m \in Machine : seen'[q][m] = seen[q][m] \/ seen'[q][m] = obj[m]
      BY <2>3, Objects, Zenon
    <3> QED
      BY <1>2, <2>1, <2>6, <3>1, StillUnmentioned, Zenon
  <2>11. Unmigrated => Unmigrated'
    <3>1. /\ seen'["MCM"]["provider"] \in {seen["MCM"]["provider"], obj["provider"]}
          /\ seen'["MC"]["generic"] \in {seen["MC"]["generic"], obj["generic"]}
          /\ class'["provider"] \in {class["provider"], Idle}
      BY <2>3, <2>7, Objects, Zenon
    <3> QED
      BY <1>2, <2>6, <3>1, IdleFits, Zenon DEF Unmigrated, Runs
  <2> QED
    BY <1>2, <2>5, <2>9, <2>10, <2>11, GenericAlone, Zenon
<1> QED
  BY <1>1, <1>2, <1>3, <1>4, <1>5 DEF TInv

LEMMA DeliverStep ==
  ASSUME TInv, FilledInv, NEW c \in CachedPair, Deliver(c[1], c[2])
  PROVE  TInv' /\ FilledInv'
<1>1. PICK p \in Proc : \E o \in Cached[p] : c = <<p, o>>
  BY DEF CachedPair
<1>2. PICK o \in Cached[p] : c = <<p, o>>
  BY <1>1
<1>3. /\ seen' = [seen EXCEPT ![p][o] = obj[o]] /\ fresh' = fresh \cup {c}
      /\ listed' \subseteq listed /\ UNCHANGED <<env, obj, vm, workers, faults>>
  BY <1>2 DEF Deliver
<1>4. StoreT /\ WorkT'
      /\ UNCHANGED <<env, obj, vm, migrate, class, secretOf, setSync, depSync, faults>>
  BY <1>3, WorkersSame, Zenon DEF TInv
<1>5. DOMAIN seen = Proc /\ (\A q \in Proc : DOMAIN seen[q] = Cached[q])
  BY <1>4 DEF StoreT
<1>6. /\ DOMAIN seen' = Proc /\ (\A q \in Proc : DOMAIN seen'[q] = Cached[q])
      /\ \A q \in Proc : \A x \in Cached[q] : seen'[q][x] \in {seen[q][x], obj[x]}
  BY <1>3, <1>5, Zenon
<1>7. StoreT'
  <2>1. \A q \in Proc : \A x \in Cached[q] : Fit(x, seen'[q][x])
    BY <1>4, <1>6, Objects, Zenon DEF StoreT
  <2> QED
    BY <1>3, <1>4, <1>6, <2>1 DEF StoreT
<1>8. Unmentioned => Unmentioned'
  <2>1. \A q \in Proc, m \in Machine : seen'[q][m] = seen[q][m] \/ seen'[q][m] = obj[m]
    BY <1>6, Objects, Zenon
  <2> QED
    BY <1>4, <2>1, StillUnmentioned, Zenon
<1>9. Unmigrated => Unmigrated'
  <2>1. /\ seen'["MCM"]["provider"] \in {seen["MCM"]["provider"], obj["provider"]}
        /\ seen'["MC"]["generic"] \in {seen["MC"]["generic"], obj["generic"]}
    BY <1>6, Objects
  <2> QED
    BY <1>4, <2>1, Zenon DEF Unmigrated, Runs
<1> QED
  BY <1>4, <1>7, <1>8, <1>9, GenericAlone DEF TInv

LEMMA Steps ==
  ASSUME TInv, FilledInv, [Next]_vars
  PROVE  TInv' /\ FilledInv'
<1>1. CASE \E c \in CachedPair : Deliver(c[1], c[2])
  BY <1>1, DeliverStep
<1>2. ASSUME NEW m \in Machine, MachineWorker(m) \/ InTreeMachineWorker(m) PROVE TInv' /\ FilledInv'
  <2>1. CASE Runs("migrate") /\ TryMachineClassMigration(m)
    BY <2>1, GetClassStep, CreateClassStep, FillClassStep, ReferencesStep
       DEF TryMachineClassMigration
  <2>2. CASE ValidateMachineClass(m) \/ validateMachineClassInTree(m)
    BY <2>2, ValidateStep
  <2> QED
    BY <1>2, <2>1, <2>2 DEF MachineWorker, InTreeMachineWorker
<1>3. CASE ClassControllers
  BY <1>3, ProviderWorkerStep, Zenon
     DEF ClassControllers, reconcileProviderClass, reconcileClusterAlicloudMachineClass,
         reconcileClusterAWSMachineClass, reconcileClusterAzureMachineClass,
         reconcileClusterGCPMachineClass, reconcileClusterOpenStackMachineClass,
         reconcileClusterPacketMachineClass
<1>4. CASE reconcileClusterMachineClass
  BY <1>4, GenericWorkerStep
<1>5. CASE InTreeSecretController \/ OutOfTreeSecretController
  BY <1>5, SecretStep, Objects DEF InTreeSecretController, OutOfTreeSecretController
<1>6. CASE syncDeployment
  BY <1>6, DeploymentStep
<1>7. CASE SetController
  BY <1>7, SetStep
<1>8. CASE \/ \E o \in DOMAIN DeleteEvent : DeleteObject(o)
           \/ \E m \in Machine : DeleteMachine(m) \/ CreateMachine(m)
  BY <1>8, UserStep
<1>9. CASE \/ \E m \in Machine : CallFails(m)
           \/ SetCallFails
           \/ \E p \in Proc : Restart(p)
  BY <1>9, FaultStep
<1>10. CASE UNCHANGED vars
  <2>1. UNCHANGED <<env, store, workers, vm, faults>>
    BY <1>10 DEF vars, store, workers
  <2>2. WorkT' /\ UNCHANGED <<migrate, class, secretOf, setSync, depSync>>
    BY <2>1, WorkersSame DEF TInv
  <2>3. StoreT' /\ FilledInv'
    BY <2>1, <2>2, Nothing
  <2> QED
    BY <2>1, <2>2, <2>3 DEF TInv
<1> QED
  BY <1>1, <1>2, <1>3, <1>4, <1>5, <1>6, <1>7, <1>8, <1>9, <1>10, Zenon DEF Next

LEMMA Reached == Spec => [](TInv /\ FilledInv)
  BY InitTyped, InitFilled, Steps, PTL DEF Spec

\* Whatever the scenarios: the objects, their copies in the listers and what every worker of both
\* processes holds keep their types, and an object that is gone keeps neither finalizer nor deletion
\* timestamp for the object of its name created next.
THEOREM ClassesTyped == Spec => []TypeOK
  BY Reached, Typed, PTL

\* In every scenario in which users leave the old class to a running migration, a machine, a machine
\* set or a deployment mentions the generic class only once the driver has filled it:
\* createMachineClass comes before updateClassReferences (migrate_machineclass.go), whichever call
\* fails, whichever process restarts and however often the machine set controller copies the kind
\* from the set to its machines meanwhile.
THEOREM GenericFilledFirst ==
  ASSUME \A s \in Scenarios : "migrate" \in s.workers => "delete provider" \notin s.events
  PROVE  Spec => []GenericRefsFilled
<1>1. TInv /\ FilledInv => GenericRefsFilled
  <2> SUFFICES ASSUME TInv, FilledInv PROVE GenericRefsFilled
    BY Zenon
  <2>1. TypeOK
    BY Typed, Zenon
  <2>2. Undisturbed
    BY Zenon DEF TInv, Undisturbed, Runs
  <2>3. ASSUME "delete generic" \notin env.events,
               NEW o \in Machine \cup {"set", "deployment"}, obj[o].kind = "generic"
        PROVE  obj["generic"].there /\ obj["generic"].filled
    BY <2>2, <2>3, Zenon DEF FilledInv, Filled, Unmentioned
  <2> QED
    BY <2>1, <2>3, Zenon DEF GenericRefsFilled
<1> QED
  BY Reached, <1>1, PTL
=============================================================================
