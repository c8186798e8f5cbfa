---------------------------- MODULE InTreeProofs ----------------------------
(***************************************************************************)
(* Proofs about Drivers and InTreeMachineController: for every class,      *)
(* every number of failures and every bound on VMs.                        *)
(***************************************************************************)
EXTENDS InTreeMachineController, FiniteSetTheorems, TLAPS

(***************************************************************************)
(* The drivers.                                                            *)
(***************************************************************************)
\* A cloud as the driver of the class leaves it.
Fits(class, c) ==
    /\ c \in Cloud
    /\ class.kind # "Azure" => c.parts = {}
    /\ ~(class.kind = "OpenStack" /\ class.subnet) => c.ports = 0
    /\ class.kind \in {"GCP", "Azure"} => c.vms \subseteq {NamedVM}
    /\ class.kind \notin {"GCP", "Azure"} => c.vms \subseteq 1..c.made
    /\ c.parts \subseteq {"nic"} \cup AzureDisks(class)

\* r may be the outcome of a call that only takes away.
Shrinks(c, r) ==
    /\ r.err \in BOOLEAN
    /\ r.cloud \in Cloud
    /\ r.cloud.vms \subseteq c.vms
    /\ r.cloud.parts \subseteq c.parts
    /\ r.cloud.ports \in {0, c.ports}
    /\ c.leaving \subseteq r.cloud.leaving
    /\ r.cloud.made = c.made

\* r may be the outcome of a call that makes VM id, or fails.
Makes(c, id, r) ==
    /\ r.err \in BOOLEAN
    /\ r.cloud \in Cloud
    /\ r.cloud.vms \subseteq c.vms \cup {id}
    /\ ~r.err => id \in r.cloud.vms
    /\ r.cloud.made \in {c.made, c.made + 1}
    /\ id \in r.cloud.vms /\ id \notin c.vms => r.cloud.made = c.made + 1

LEMMA OutcomeFields ==
  ASSUME NEW c
  PROVE  /\ Outcome(c, TRUE).cloud = c /\ Outcome(c, TRUE).err = TRUE
         /\ Outcome(c, FALSE).cloud = c /\ Outcome(c, FALSE).err = FALSE
  BY DEF Outcome

LEMMA RequestOutcomes ==
  ASSUME NEW before, NEW after, NEW r \in Request(before, after)
  PROVE  \/ r.cloud = after /\ r.err \in BOOLEAN
         \/ r.cloud = before /\ r.err = TRUE
  <1>1. CASE r = Outcome(after, FALSE)
    BY <1>1, OutcomeFields, Zenon
  <1>2. CASE r = Outcome(after, TRUE)
    BY <1>2, OutcomeFields, Zenon
  <1>3. CASE r = Outcome(before, TRUE)
    BY <1>3, OutcomeFields, Zenon
  <1> QED
    BY <1>1, <1>2, <1>3, Zenon DEF Request

LEMMA CloudFields ==
  ASSUME NEW c \in Cloud
  PROVE  c.vms \subseteq Nat /\ c.leaving \subseteq Nat /\ c.parts \subseteq {"nic", "disk", "data"} /\ c.ports \in Nat
         /\ c.made \in Nat
  BY DEF Cloud

LEMMA WithVMFields ==
  ASSUME NEW c \in Cloud, NEW id \in Nat
  PROVE  /\ WithVM(c, id) \in Cloud
         /\ WithVM(c, id).vms = c.vms \cup {id}
         /\ WithVM(c, id).parts = c.parts /\ WithVM(c, id).ports = c.ports
         /\ WithVM(c, id).made = c.made + 1
  <1>1. c.vms \cup {id} \in SUBSET Nat /\ c.made + 1 \in Nat
    BY CloudFields
  <1> DEFINE v == c.vms \cup {id}
             n == c.made + 1
  <1>2. WithVM(c, id) = [c EXCEPT !.vms = v, !.made = n]
    BY DEF WithVM, Cloud
  <1> HIDE DEF v, n
  <1>3. ASSUME v \in SUBSET Nat, n \in Nat
        PROVE  LET d == [c EXCEPT !.vms = v, !.made = n]
               IN  d \in Cloud /\ d.vms = v /\ d.parts = c.parts /\ d.ports = c.ports
                   /\ d.made = n
    BY <1>3, Zenon DEF Cloud
  <1> QED
    BY <1>1, <1>2, <1>3 DEF v, n

LEMMA WithoutVMFields ==
  ASSUME NEW c \in Cloud, NEW id
  PROVE  /\ WithoutVM(c, id) \in Cloud
         /\ WithoutVM(c, id).vms = c.vms \ {id}
         /\ WithoutVM(c, id).parts = c.parts /\ WithoutVM(c, id).ports = c.ports
         /\ WithoutVM(c, id).leaving = c.leaving /\ WithoutVM(c, id).made = c.made
  BY DEF WithoutVM, Cloud

LEMMA AcceptedFields ==
  ASSUME NEW c \in Cloud, NEW id \in Nat
  PROVE  /\ Accepted(c, id) \in Cloud
         /\ Accepted(c, id).leaving = c.leaving \cup {id} /\ Accepted(c, id).vms = c.vms
         /\ Accepted(c, id).parts = c.parts /\ Accepted(c, id).ports = c.ports
         /\ Accepted(c, id).made = c.made
  BY DEF Accepted, Cloud

LEMMA PortsUpdated ==
  ASSUME NEW c \in Cloud, NEW n \in Nat
  PROVE  LET d == [c EXCEPT !.ports = n]
         IN  d \in Cloud /\ d.ports = n /\ d.vms = c.vms /\ d.parts = c.parts
             /\ d.leaving = c.leaving /\ d.made = c.made
  BY DEF Cloud

LEMMA PartsUpdated ==
  ASSUME NEW c \in Cloud, NEW S \in SUBSET {"nic", "disk", "data"}
  PROVE  LET d == [c EXCEPT !.parts = S]
         IN  d \in Cloud /\ d.parts = S /\ d.vms = c.vms /\ d.ports = c.ports
             /\ d.leaving = c.leaving /\ d.made = c.made
  BY DEF Cloud

LEMMA PartsCleared ==
  ASSUME NEW c \in Cloud
  PROVE  LET d == [c EXCEPT !.parts = {}]
         IN  d \in Cloud /\ d.parts = {} /\ d.vms = c.vms /\ d.ports = c.ports
             /\ d.leaving = c.leaving /\ d.made = c.made
  BY DEF Cloud

\* Termination of an instance, by AWS, GCP, Alibaba Cloud and Packet.
LEMMA SimpleDelete ==
  ASSUME NEW c \in Cloud, NEW id,
         NEW r \in {Outcome(c, TRUE)}
                   \cup (IF id \in c.vms THEN Request(c, WithoutVM(c, id))
                                         ELSE {Outcome(c, FALSE)})
  PROVE  /\ Shrinks(c, r)
         /\ r.cloud.parts = c.parts /\ r.cloud.ports = c.ports
         /\ ~r.err => id \notin r.cloud.vms
  <1>1. CASE r = Outcome(c, TRUE)
    BY <1>1, OutcomeFields, Zenon DEF Shrinks
  <1>2. CASE id \in c.vms /\ r \in Request(c, WithoutVM(c, id))
    <2>1. r.err \in BOOLEAN /\ (r.cloud = WithoutVM(c, id) \/ (r.cloud = c /\ r.err))
      BY <1>2, RequestOutcomes, Zenon
    <2>2. CASE r.cloud = WithoutVM(c, id)
      BY <2>1, <2>2, WithoutVMFields DEF Shrinks
    <2>3. CASE r.cloud = c /\ r.err
      BY <2>1, <2>3 DEF Shrinks
    <2> QED
      BY <2>1, <2>2, <2>3
  <1>3. CASE id \notin c.vms /\ r = Outcome(c, FALSE)
    BY <1>3, OutcomeFields, Zenon DEF Shrinks
  <1> QED
    BY <1>1, <1>2, <1>3, Zenon

LEMMA PortDeletion ==
  ASSUME NEW class, NEW c \in Cloud, NEW r \in deletePort(class, c)
  PROVE  /\ Shrinks(c, r) /\ r.cloud.vms = c.vms /\ r.cloud.parts = c.parts
         /\ ~class.subnet => ~r.err /\ r.cloud = c
         /\ class.subnet /\ ~r.err => r.cloud.ports = 0
  <1>1. CASE \/ r = Outcome(c, TRUE)
             \/ r = Outcome(c, FALSE) /\ (class.subnet => c.ports = 0)
    <2>1. r.cloud = c /\ r.err \in BOOLEAN
      BY <1>1, OutcomeFields, Zenon
    <2>2. CASE ~class.subnet
      <3>1. r.err = FALSE
        BY <2>2, OutcomeFields, Zenon DEF deletePort
      <3> QED
        BY <2>1, <2>2, <3>1 DEF Shrinks
    <2>3. CASE class.subnet /\ r = Outcome(c, TRUE)
      BY <2>1, <2>3, OutcomeFields, Zenon DEF Shrinks
    <2>4. CASE class.subnet /\ c.ports = 0
      BY <2>1, <2>4 DEF Shrinks
    <2> QED
      BY <1>1, <2>2, <2>3, <2>4, Zenon
  <1>2. CASE class.subnet /\ c.ports = 1 /\ r \in Request(c, [c EXCEPT !.ports = 0])
    <2>1. r.err \in BOOLEAN /\ (r.cloud = [c EXCEPT !.ports = 0] \/ (r.cloud = c /\ r.err))
      BY <1>2, RequestOutcomes, Zenon
    <2>2. CASE r.cloud = [c EXCEPT !.ports = 0]
      BY <1>2, <2>1, <2>2, PortsUpdated DEF Shrinks
    <2>3. CASE r.cloud = c /\ r.err
      BY <1>2, <2>1, <2>3 DEF Shrinks
    <2> QED
      BY <2>1, <2>2, <2>3
  <1> QED
    BY <1>1, <1>2, Zenon DEF deletePort

\* A server whose deletion was accepted.
LEMMA ServerDelete ==
  ASSUME NEW c \in Cloud, NEW id,
         NEW r \in IF id \in c.vms THEN Request(c, Accepted(c, id)) ELSE {Outcome(c, FALSE)}
  PROVE  /\ Shrinks(c, r)
         /\ r.cloud.parts = c.parts /\ r.cloud.ports = c.ports
         /\ ~r.err => id \notin r.cloud.vms \ r.cloud.leaving
  <1>1. CASE id \in c.vms /\ r \in Request(c, Accepted(c, id))
    <2>1. r.err \in BOOLEAN /\ (r.cloud = Accepted(c, id) \/ (r.cloud = c /\ r.err))
      BY <1>1, RequestOutcomes, Zenon
    <2>2. CASE r.cloud = Accepted(c, id)
      <3>1. id \in Nat
        BY <1>1, CloudFields
      <3> QED
        BY <2>1, <2>2, <3>1, AcceptedFields DEF Shrinks
    <2>3. CASE r.cloud = c /\ r.err
      BY <2>1, <2>3 DEF Shrinks
    <2> QED
      BY <2>1, <2>2, <2>3
  <1>2. CASE id \notin c.vms /\ r = Outcome(c, FALSE)
    BY <1>2, OutcomeFields, Zenon DEF Shrinks
  <1> QED
    BY <1>1, <1>2, Zenon

LEMMA OpenStackDeletion ==
  ASSUME NEW class, NEW c \in Cloud, NEW id, NEW r \in OpenStackDelete(class, c, id)
  PROVE  /\ Shrinks(c, r) /\ r.cloud.parts = c.parts
         /\ ~class.subnet => r.cloud.ports = c.ports
         /\ ~r.err => id \notin r.cloud.vms \ r.cloud.leaving
                      /\ (class.subnet => r.cloud.ports = 0)
  <1> DEFINE Stop == IF id \in c.vms THEN Request(c, Accepted(c, id)) ELSE {Outcome(c, FALSE)}
  <1>1. \/ r = Outcome(c, TRUE)
        \/ \E s \in Stop : r \in IF s.err THEN {s} ELSE deletePort(class, s.cloud)
    BY Zenon DEF OpenStackDelete
  <1>2. CASE r = Outcome(c, TRUE)
    BY <1>2, OutcomeFields, Zenon DEF Shrinks
  <1>3. ASSUME NEW s \in Stop, r \in IF s.err THEN {s} ELSE deletePort(class, s.cloud)
        PROVE  /\ Shrinks(c, r) /\ r.cloud.parts = c.parts
               /\ ~class.subnet => r.cloud.ports = c.ports
               /\ ~r.err => id \notin r.cloud.vms \ r.cloud.leaving
                            /\ (class.subnet => r.cloud.ports = 0)
    <2>1. /\ Shrinks(c, s) /\ s.cloud.parts = c.parts /\ s.cloud.ports = c.ports
          /\ ~s.err => id \notin s.cloud.vms \ s.cloud.leaving
      BY ServerDelete, Zenon
    <2> HIDE DEF Stop
    <2>2. CASE s.err
      BY <1>3, <2>1, <2>2
    <2>3. CASE ~s.err
      <3>1. s.cloud \in Cloud /\ r \in deletePort(class, s.cloud)
        BY <1>3, <2>1, <2>3 DEF Shrinks
      <3>2. /\ Shrinks(s.cloud, r) /\ r.cloud.vms = s.cloud.vms
            /\ r.cloud.parts = s.cloud.parts
            /\ ~class.subnet => r.cloud = s.cloud
            /\ class.subnet /\ ~r.err => r.cloud.ports = 0
        BY <3>1, PortDeletion
      <3> QED
        BY <2>1, <2>3, <3>2 DEF Shrinks
    <2> QED
      BY <2>2, <2>3
  <1> QED
    BY <1>1, <1>2, <1>3, Zenon

LEMMA AzurePartsDeletion ==
  ASSUME NEW c \in Cloud, NEW r \in deleteVMNicDisks(c)
  PROVE  /\ Shrinks(c, r) /\ r.cloud.ports = c.ports
         /\ ~r.err => NamedVM \notin r.cloud.vms /\ r.cloud.parts = {}
  <1> DEFINE Stop == {Outcome(c, TRUE)}
                     \cup (IF NamedVM \in c.vms THEN Request(c, WithoutVM(c, NamedVM))
                                                ELSE {Outcome(c, FALSE)})
             After(s) == {Outcome([s.cloud EXCEPT !.parts = kept], TRUE) :
                             kept \in SUBSET s.cloud.parts}
                         \cup {Outcome([s.cloud EXCEPT !.parts = {}], FALSE)}
  <1>1. \/ r = Outcome(c, TRUE)
        \/ \E s \in Stop : r \in IF s.err THEN {s} ELSE After(s)
    BY Zenon DEF deleteVMNicDisks
  <1>2. CASE r = Outcome(c, TRUE)
    BY <1>2, OutcomeFields, Zenon DEF Shrinks
  <1>3. ASSUME NEW s \in Stop, r \in IF s.err THEN {s} ELSE After(s)
        PROVE  /\ Shrinks(c, r) /\ r.cloud.ports = c.ports
               /\ ~r.err => NamedVM \notin r.cloud.vms /\ r.cloud.parts = {}
    <2>1. /\ Shrinks(c, s) /\ s.cloud.parts = c.parts /\ s.cloud.ports = c.ports
          /\ ~s.err => NamedVM \notin s.cloud.vms
      BY SimpleDelete, Zenon
    <2>2. CASE s.err
      BY <1>3, <2>1, <2>2
    <2>3. CASE ~s.err
      <3>1. s.cloud \in Cloud /\ s.cloud.parts \subseteq {"nic", "disk", "data"}
        BY <2>1, CloudFields DEF Shrinks
      <3>2. \/ \E kept \in SUBSET s.cloud.parts : r = Outcome([s.cloud EXCEPT !.parts = kept], TRUE)
            \/ r = Outcome([s.cloud EXCEPT !.parts = {}], FALSE)
        BY <1>3, <2>3, Zenon
      <3>3. ASSUME NEW kept \in SUBSET s.cloud.parts,
                   r = Outcome([s.cloud EXCEPT !.parts = kept], TRUE)
            PROVE  Shrinks(c, r) /\ r.cloud.ports = c.ports /\ r.err = TRUE
        <4>1. r.cloud = [s.cloud EXCEPT !.parts = kept] /\ r.err = TRUE
          BY <3>3, OutcomeFields, Zenon
        <4>2. kept \in SUBSET {"nic", "disk", "data"}
          BY <3>1
        <4>3. /\ r.cloud \in Cloud /\ r.cloud.parts = kept
              /\ r.cloud.vms = s.cloud.vms /\ r.cloud.ports = s.cloud.ports
              /\ r.cloud.leaving = s.cloud.leaving /\ r.cloud.made = s.cloud.made
          BY <3>1, <4>1, <4>2, PartsUpdated
        <4> QED
          BY <2>1, <4>1, <4>3, Zenon DEF Shrinks
      <3>4. CASE r = Outcome([s.cloud EXCEPT !.parts = {}], FALSE)
        <4>1. r.cloud = [s.cloud EXCEPT !.parts = {}] /\ r.err = FALSE
          BY <3>4, OutcomeFields, Zenon
        <4>3. /\ r.cloud \in Cloud /\ r.cloud.parts = {}
              /\ r.cloud.vms = s.cloud.vms /\ r.cloud.ports = s.cloud.ports
              /\ r.cloud.leaving = s.cloud.leaving /\ r.cloud.made = s.cloud.made
          BY <3>1, <4>1, PartsCleared
        <4> QED
          BY <2>1, <2>3, <4>1, <4>3, Zenon DEF Shrinks
      <3> QED
        BY <3>2, <3>3, <3>4, Zenon
    <2> QED
      BY <2>2, <2>3
  <1> QED
    BY <1>1, <1>2, <1>3, Zenon

LEMMA AzureDeletion ==
  ASSUME NEW c \in Cloud, NEW r \in AzureDelete(c)
  PROVE  /\ Shrinks(c, r) /\ r.cloud.ports = c.ports
         /\ ~r.err => NamedVM \notin r.cloud.vms /\ r.cloud.parts = {}
  <1>1. \/ r = Outcome(c, TRUE)
        \/ \E s \in deleteVMNicDisks(c) : r \in IF s.err THEN {s} ELSE checkOrphans(s.cloud)
    BY Zenon DEF AzureDelete
  <1>2. CASE r = Outcome(c, TRUE)
    BY <1>2, OutcomeFields, Zenon DEF Shrinks
  <1>3. ASSUME NEW s \in deleteVMNicDisks(c),
               r \in IF s.err THEN {s} ELSE checkOrphans(s.cloud)
        PROVE  /\ Shrinks(c, r) /\ r.cloud.ports = c.ports
               /\ ~r.err => NamedVM \notin r.cloud.vms /\ r.cloud.parts = {}
    <2>1. /\ Shrinks(c, s) /\ s.cloud.ports = c.ports
          /\ ~s.err => NamedVM \notin s.cloud.vms /\ s.cloud.parts = {}
      BY AzurePartsDeletion
    <2>2. CASE s.err
      BY <1>3, <2>1, <2>2
    <2>3. CASE ~s.err /\ r = Outcome(s.cloud, TRUE)
      BY <2>1, <2>3, OutcomeFields, Zenon DEF Shrinks
    <2>4. CASE ~s.err /\ r = Outcome([s.cloud EXCEPT !.parts = {}], FALSE)
      <3>1. r.cloud = [s.cloud EXCEPT !.parts = {}] /\ r.err = FALSE
        BY <2>4, OutcomeFields, Zenon
      <3>2. s.cloud \in Cloud
        BY <2>1 DEF Shrinks
      <3>3. /\ r.cloud \in Cloud /\ r.cloud.parts = {}
            /\ r.cloud.vms = s.cloud.vms /\ r.cloud.ports = s.cloud.ports
            /\ r.cloud.leaving = s.cloud.leaving /\ r.cloud.made = s.cloud.made
        BY <3>1, <3>2, PartsCleared
      <3> QED
        BY <2>1, <2>4, <3>1, <3>3, Zenon DEF Shrinks
    <2> QED
      BY <1>3, <2>2, <2>3, <2>4, Zenon DEF checkOrphans
  <1> QED
    BY <1>1, <1>2, <1>3, Zenon

\* Delete, whatever the driver: it only takes away, and without an error it leaves nothing
\* that carries the name of the machine, but for a server on its way out.
LEMMA Deletion ==
  ASSUME NEW class \in Class, NEW c, Fits(class, c), NEW id, NEW r \in Delete(class, c, id)
  PROVE  /\ Shrinks(c, r) /\ Fits(class, r.cloud)
         /\ ~r.err /\ (class.kind = "Azure" => id = NamedVM)
               => /\ id \notin r.cloud.vms \ r.cloud.leaving
                  /\ r.cloud.parts = {} /\ r.cloud.ports = 0
  <1>0. c \in Cloud /\ class.kind \in Kinds /\ class.subnet \in BOOLEAN
    BY DEF Fits, Class
  <1>1. CASE class.kind \in {"AWS", "GCP", "Alicloud", "Packet"}
    <2>1. r \in {Outcome(c, TRUE)}
                \cup (IF id \in c.vms THEN Request(c, WithoutVM(c, id))
                                      ELSE {Outcome(c, FALSE)})
      BY <1>1, Zenon DEF Delete, AWSDelete, GCPDelete, AlicloudDelete, PacketDelete
    <2>2. /\ Shrinks(c, r) /\ r.cloud.parts = c.parts /\ r.cloud.ports = c.ports
          /\ ~r.err => id \notin r.cloud.vms
      BY <1>0, <2>1, SimpleDelete, Zenon
    <2> QED
      BY <1>1, <2>2 DEF Fits, Shrinks
  <1>2. CASE class.kind = "OpenStack"
    <2>1. r \in OpenStackDelete(class, c, id)
      BY <1>2 DEF Delete
    <2>2. /\ Shrinks(c, r) /\ r.cloud.parts = c.parts
          /\ ~class.subnet => r.cloud.ports = c.ports
          /\ ~r.err => id \notin r.cloud.vms \ r.cloud.leaving
                       /\ (class.subnet => r.cloud.ports = 0)
      BY <1>0, <2>1, OpenStackDeletion
    <2> QED
      BY <1>2, <2>2 DEF Fits, Shrinks
  <1>3. CASE class.kind = "Azure"
    <2>1. r \in AzureDelete(c)
      BY <1>3 DEF Delete
    <2>2. /\ Shrinks(c, r) /\ r.cloud.ports = c.ports
          /\ ~r.err => NamedVM \notin r.cloud.vms /\ r.cloud.parts = {}
      BY <1>0, <2>1, AzureDeletion
    <2> QED
      BY <1>3, <2>2 DEF Fits, Shrinks
  <1> QED
    BY <1>0, <1>1, <1>2, <1>3 DEF Kinds

LEMMA FailedOutcomes ==
  ASSUME NEW S, NEW r \in Failed(S)
  PROVE  \E s \in S : r.cloud = s.cloud /\ r.err = TRUE
  <1>1. PICK s \in S : r = Outcome(s.cloud, TRUE)
    BY Zenon DEF Failed
  <1> QED
    BY <1>1, OutcomeFields, Zenon

\* One request for an instance.
LEMMA SimpleCreate ==
  ASSUME NEW c \in Cloud, NEW id \in Nat,
         NEW r \in {Outcome(c, TRUE)} \cup Request(c, WithVM(c, id))
  PROVE  Makes(c, id, r) /\ r.cloud.parts = c.parts /\ r.cloud.ports = c.ports
  <1>1. CASE r = Outcome(c, TRUE)
    BY <1>1, OutcomeFields, Zenon DEF Makes
  <1>2. CASE r \in Request(c, WithVM(c, id))
    <2>1. \/ r.cloud = WithVM(c, id) /\ r.err \in BOOLEAN
          \/ r.cloud = c /\ r.err = TRUE
      BY <1>2, RequestOutcomes, Zenon
    <2> QED
      BY <2>1, WithVMFields, Zenon DEF Makes
  <1> QED
    BY <1>1, <1>2, Zenon

LEMMA PortCreation ==
  ASSUME NEW class, class.subnet \in BOOLEAN, NEW c \in Cloud, NEW r \in createPort(class, c)
  PROVE  /\ r.err \in BOOLEAN /\ r.cloud \in Cloud
         /\ r.cloud.vms = c.vms /\ r.cloud.parts = c.parts /\ r.cloud.made = c.made
         /\ ~class.subnet => r.cloud = c
  <1>1. CASE ~class.subnet
    BY <1>1, OutcomeFields, Zenon DEF createPort
  <1>2. CASE class.subnet
    <2> DEFINE n == c.ports + 1
    <2>1. n \in Nat
      BY CloudFields
    <2>2. [c EXCEPT !.ports = @ + 1] = [c EXCEPT !.ports = n]
      BY DEF Cloud
    <2>3. r \in Request(c, [c EXCEPT !.ports = n])
      BY <1>2, <2>2 DEF createPort
    <2> HIDE DEF n
    <2>4. \/ r.cloud = [c EXCEPT !.ports = n] /\ r.err \in BOOLEAN
          \/ r.cloud = c /\ r.err = TRUE
      BY <2>3, RequestOutcomes, Zenon
    <2>5. CASE r.cloud = [c EXCEPT !.ports = n] /\ r.err \in BOOLEAN
      BY <1>2, <2>1, <2>5, PortsUpdated
    <2> QED
      BY <1>2, <2>4, <2>5, Zenon
  <1> QED
    BY <1>1, <1>2

LEMMA OpenStackCreation ==
  ASSUME NEW class, class.subnet \in BOOLEAN, NEW c \in Cloud, NEW id \in Nat,
         NEW r \in OpenStackCreate(class, c, id)
  PROVE  /\ Makes(c, id, r) /\ r.cloud.parts = c.parts
         /\ ~class.subnet => r.cloud.ports = c.ports
  <1> DEFINE Good(x) == /\ Makes(c, id, x) /\ x.cloud.parts = c.parts
                        /\ ~class.subnet => x.cloud.ports = c.ports
             Server(p) == UNION {IF s.err THEN {s}
                                 ELSE {s} \cup Failed(OpenStackDelete(class, s.cloud, id)) :
                                    s \in Request(p.cloud, WithVM(p.cloud, id))}
  <1>1. \/ r = Outcome(c, TRUE)
        \/ r \in Failed(deletePort(class, c))
        \/ \E p \in createPort(class, c) : r \in IF p.err THEN {p} ELSE Server(p)
    BY Zenon DEF OpenStackCreate
  <1>2. CASE r = Outcome(c, TRUE)
    BY <1>2, OutcomeFields, Zenon DEF Makes
  <1>3. CASE r \in Failed(deletePort(class, c))
    <2>1. PICK s \in deletePort(class, c) : r.cloud = s.cloud /\ r.err = TRUE
      BY <1>3, FailedOutcomes, Zenon
    <2>2. /\ Shrinks(c, s) /\ s.cloud.vms = c.vms /\ s.cloud.parts = c.parts
          /\ ~class.subnet => s.cloud = c
      BY PortDeletion
    <2> QED
      BY <2>1, <2>2, Zenon DEF Shrinks, Makes
  <1>4. ASSUME NEW p \in createPort(class, c), r \in IF p.err THEN {p} ELSE Server(p)
        PROVE  Good(r)
    <2>1. /\ p.err \in BOOLEAN /\ p.cloud \in Cloud
          /\ p.cloud.vms = c.vms /\ p.cloud.parts = c.parts /\ p.cloud.made = c.made
          /\ ~class.subnet => p.cloud = c
      BY PortCreation
    <2>2. CASE p.err /\ r = p
      BY <2>1, <2>2, Zenon DEF Makes
    <2>3. ASSUME NEW s \in Request(p.cloud, WithVM(p.cloud, id)),
                 r \in IF s.err THEN {s}
                       ELSE {s} \cup Failed(OpenStackDelete(class, s.cloud, id))
          PROVE  Good(r)
      <3>1. /\ Makes(p.cloud, id, s)
            /\ s.cloud.parts = p.cloud.parts /\ s.cloud.ports = p.cloud.ports
        BY <2>1, SimpleCreate, ZenonT(60)
      <3>2. Good(s)
        BY <2>1, <3>1 DEF Makes
      <3>3. CASE r \in Failed(OpenStackDelete(class, s.cloud, id))
        <4>1. PICK d \in OpenStackDelete(class, s.cloud, id) : r.cloud = d.cloud /\ r.err = TRUE
          BY <3>3, FailedOutcomes, Zenon
        <4>2. s.cloud \in Cloud
          BY <3>1 DEF Makes
        <4>3. /\ Shrinks(s.cloud, d) /\ d.cloud.parts = s.cloud.parts
              /\ ~class.subnet => d.cloud.ports = s.cloud.ports
          BY <4>2, OpenStackDeletion
        <4> QED
          BY <3>2, <4>1, <4>3, Zenon DEF Shrinks, Makes
      <3> QED
        BY <2>3, <3>2, <3>3
    <2> HIDE DEF Good
    <2>4. (p.err /\ r = p) \/ r \in Server(p)
      BY <1>4
    <2> QED
      BY <2>2, <2>3, <2>4
  <1> QED
    BY <1>1, <1>2, <1>3, <1>4, Zenon

LEMMA NICCreation ==
  ASSUME NEW c \in Cloud, NEW r \in createNIC(c)
  PROVE  /\ r.err \in BOOLEAN /\ r.cloud \in Cloud
         /\ r.cloud.vms = c.vms /\ r.cloud.ports = c.ports /\ r.cloud.made = c.made
         /\ r.cloud.parts \subseteq c.parts \cup {"nic"}
  <1>1. CASE "nic" \in c.parts
    BY <1>1, OutcomeFields, Zenon DEF createNIC
  <1>2. CASE "nic" \notin c.parts
    <2> DEFINE S == c.parts \cup {"nic"}
    <2>1. S \in SUBSET {"nic", "disk", "data"}
      BY CloudFields
    <2>2. [c EXCEPT !.parts = @ \cup {"nic"}] = [c EXCEPT !.parts = S]
      BY DEF Cloud
    <2>3. r \in Request(c, [c EXCEPT !.parts = S])
      BY <1>2, <2>2 DEF createNIC
    <2>0. S \subseteq c.parts \cup {"nic"}
      OBVIOUS
    <2> HIDE DEF S
    <2>4. \/ r.cloud = [c EXCEPT !.parts = S] /\ r.err \in BOOLEAN
          \/ r.cloud = c /\ r.err = TRUE
      BY <2>3, RequestOutcomes, Zenon
    <2>5. CASE r.cloud = [c EXCEPT !.parts = S] /\ r.err \in BOOLEAN
      <3>1. LET d == [c EXCEPT !.parts = S]
            IN  d \in Cloud /\ d.parts = S /\ d.vms = c.vms /\ d.ports = c.ports
                /\ d.made = c.made
        BY <2>1, PartsUpdated
      <3> QED
        BY <2>0, <2>5, <3>1, Zenon
    <2> QED
      BY <2>4, <2>5, Zenon
  <1> QED
    BY <1>1, <1>2, Zenon

LEMMA InstanceCreation ==
  ASSUME NEW class, NEW c \in Cloud, NEW r \in createVM(class, c)
  PROVE  /\ Makes(c, NamedVM, r) /\ r.cloud.ports = c.ports
         /\ r.cloud.parts \subseteq c.parts \cup AzureDisks(class)
  <1> DEFINE made(disks) == [c EXCEPT !.parts = @ \cup disks]
  <1>1. ASSUME NEW disks \in SUBSET AzureDisks(class)
        PROVE  /\ made(disks) \in Cloud
               /\ made(disks).vms = c.vms /\ made(disks).ports = c.ports
               /\ made(disks).parts = c.parts \cup disks /\ made(disks).made = c.made
    <2> DEFINE S == c.parts \cup disks
    <2>1. S \in SUBSET {"nic", "disk", "data"}
      BY CloudFields, Zenon DEF AzureDisks
    <2>2. made(disks) = [c EXCEPT !.parts = S]
      BY DEF Cloud
    <2>3. ASSUME NEW T \in SUBSET {"nic", "disk", "data"}
          PROVE  LET d == [c EXCEPT !.parts = T]
                 IN  d \in Cloud /\ d.parts = T /\ d.vms = c.vms /\ d.ports = c.ports
                     /\ d.made = c.made
      BY <2>3, PartsUpdated
    <2> QED
      BY <2>1, <2>2, <2>3, Zenon
  <1> DEFINE whole == made(AzureDisks(class))
  <1>2. /\ whole \in Cloud /\ whole.vms = c.vms /\ whole.ports = c.ports
        /\ whole.parts = c.parts \cup AzureDisks(class) /\ whole.made = c.made
    BY <1>1
  <1>3. \/ \E disks \in SUBSET AzureDisks(class) : r = Outcome(made(disks), TRUE)
        \/ r \in Request(c, WithVM(whole, NamedVM))
    BY Zenon DEF createVM
  <1> HIDE DEF made, whole
  <1>4. ASSUME NEW disks \in SUBSET AzureDisks(class), r = Outcome(made(disks), TRUE)
        PROVE  /\ Makes(c, NamedVM, r) /\ r.cloud.ports = c.ports
               /\ r.cloud.parts \subseteq c.parts \cup AzureDisks(class)
    <2>1. r.cloud = made(disks) /\ r.err = TRUE
      BY <1>4, OutcomeFields, Zenon
    <2> QED
      BY <1>1, <2>1, Zenon DEF Makes
  <1>5. CASE r \in Request(c, WithVM(whole, NamedVM))
    <2>1. \/ r.cloud = WithVM(whole, NamedVM) /\ r.err \in BOOLEAN
          \/ r.cloud = c /\ r.err = TRUE
      BY <1>5, RequestOutcomes, Zenon
    <2>2. NamedVM \in Nat
      BY DEF NamedVM
    <2>3. /\ WithVM(whole, NamedVM) \in Cloud
          /\ WithVM(whole, NamedVM).vms = c.vms \cup {NamedVM}
          /\ WithVM(whole, NamedVM).ports = c.ports
          /\ WithVM(whole, NamedVM).parts = c.parts \cup AzureDisks(class)
          /\ WithVM(whole, NamedVM).made = c.made + 1
      BY <1>2, <2>2, WithVMFields
    <2> QED
      BY <2>1, <2>3, Zenon DEF Makes
  <1> QED
    BY <1>3, <1>4, <1>5, Zenon

LEMMA AzureCleanUp ==
  ASSUME NEW c \in Cloud, NEW r \in Failed(deleteVMNicDisks(c))
  PROVE  /\ r.err = TRUE /\ r.cloud \in Cloud
         /\ r.cloud.vms \subseteq c.vms /\ r.cloud.ports = c.ports
         /\ r.cloud.parts \subseteq c.parts /\ r.cloud.made = c.made
  <1>1. PICK s \in deleteVMNicDisks(c) : r.cloud = s.cloud /\ r.err = TRUE
    BY FailedOutcomes, Zenon
  <1>2. Shrinks(c, s) /\ s.cloud.ports = c.ports
    BY AzurePartsDeletion
  <1> QED
    BY <1>1, <1>2 DEF Shrinks

LEMMA AzureCreation ==
  ASSUME NEW class, NEW c \in Cloud, NEW r \in AzureCreate(class, c)
  PROVE  /\ Makes(c, NamedVM, r) /\ r.cloud.ports = c.ports
         /\ r.cloud.parts \subseteq c.parts \cup {"nic"} \cup AzureDisks(class)
  <1> DEFINE Good(x) == /\ Makes(c, NamedVM, x) /\ x.cloud.ports = c.ports
                        /\ x.cloud.parts \subseteq c.parts \cup {"nic"} \cup AzureDisks(class)
             After(v) == IF v.err THEN Failed(deleteVMNicDisks(v.cloud)) ELSE {v}
  <1>1. \/ r = Outcome(c, TRUE)
        \/ \E n \in createNIC(c) :
              \/ r \in Failed(deleteVMNicDisks(n.cloud))
              \/ \E v \in createVM(class, n.cloud) : r \in After(v)
    <2> DEFINE Rest(n) == UNION {After(v) : v \in createVM(class, n.cloud)}
    <2>1. \/ r = Outcome(c, TRUE)
          \/ \E n \in createNIC(c) : r \in IF n.err THEN Failed(deleteVMNicDisks(n.cloud))
                                           ELSE Failed(deleteVMNicDisks(n.cloud)) \cup Rest(n)
      BY Zenon DEF AzureCreate
    <2>2. ASSUME NEW n, r \in Rest(n)
          PROVE  \E v \in createVM(class, n.cloud) : r \in After(v)
      BY <2>2
    <2> HIDE DEF Rest, After
    <2> QED
      BY <2>1, <2>2, Zenon
  <1>2. CASE r = Outcome(c, TRUE)
    BY <1>2, OutcomeFields, Zenon DEF Makes
  <1>3. ASSUME NEW n \in createNIC(c),
               \/ r \in Failed(deleteVMNicDisks(n.cloud))
               \/ \E v \in createVM(class, n.cloud) : r \in After(v)
        PROVE  Good(r)
    <2>1. /\ n.cloud \in Cloud /\ n.cloud.vms = c.vms /\ n.cloud.ports = c.ports
          /\ n.cloud.parts \subseteq c.parts \cup {"nic"} /\ n.cloud.made = c.made
      BY NICCreation
    <2>2. CASE r \in Failed(deleteVMNicDisks(n.cloud))
      <3>1. /\ r.err = TRUE /\ r.cloud \in Cloud
            /\ r.cloud.vms \subseteq n.cloud.vms /\ r.cloud.ports = n.cloud.ports
            /\ r.cloud.parts \subseteq n.cloud.parts /\ r.cloud.made = n.cloud.made
        BY <2>1, <2>2, AzureCleanUp, Zenon
      <3> QED
        BY <2>1, <3>1, Zenon DEF Makes
    <2>3. ASSUME NEW v \in createVM(class, n.cloud), r \in After(v)
          PROVE  Good(r)
      <3>1. /\ Makes(n.cloud, NamedVM, v) /\ v.cloud.ports = n.cloud.ports
            /\ v.cloud.parts \subseteq n.cloud.parts \cup AzureDisks(class)
        BY <2>1, InstanceCreation
      <3>2. CASE v.err
        <4>1. v.cloud \in Cloud /\ r \in Failed(deleteVMNicDisks(v.cloud))
          BY <2>3, <3>1, <3>2 DEF Makes
        <4>2. /\ r.err = TRUE /\ r.cloud \in Cloud
              /\ r.cloud.vms \subseteq v.cloud.vms /\ r.cloud.ports = v.cloud.ports
              /\ r.cloud.parts \subseteq v.cloud.parts /\ r.cloud.made = v.cloud.made
          BY <4>1, AzureCleanUp, Zenon
        <4> QED
          BY <2>1, <3>1, <4>2, Zenon DEF Makes
      <3>3. CASE ~v.err
        BY <2>1, <2>3, <3>1, <3>3 DEF Makes
      <3> QED
        BY <3>2, <3>3
    <2> QED
      BY <1>3, <2>2, <2>3
  <1> QED
    BY <1>1, <1>2, <1>3, Zenon

\* An instance that was made is numbered by how many were made before.
LEMMA NumberedVMs ==
  ASSUME NEW c \in Cloud, NEW r, Makes(c, c.made + 1, r), c.vms \subseteq 1..c.made
  PROVE  r.cloud.vms \subseteq 1..r.cloud.made
  <1>1. c.made \in Nat
    BY CloudFields
  <1>2. /\ r.cloud.vms \subseteq c.vms \cup {c.made + 1}
        /\ r.cloud.made \in {c.made, c.made + 1}
        /\ c.made + 1 \in r.cloud.vms /\ c.made + 1 \notin c.vms => r.cloud.made = c.made + 1
    BY DEF Makes
  <1> QED
    BY <1>1, <1>2

\* Create, whatever the driver: at most the one VM is made, and without an error it is.
LEMMA Creation ==
  ASSUME NEW class \in Class, NEW c, Fits(class, c), NEW r \in Create(class, c)
  PROVE  Makes(c, NewVM(class, c), r) /\ Fits(class, r.cloud)
  <1>0. /\ c \in Cloud /\ class.kind \in Kinds /\ class.subnet \in BOOLEAN
        /\ NewVM(class, c) \in Nat
        /\ class.kind \in {"GCP", "Azure"} => NewVM(class, c) = NamedVM
        /\ class.kind \notin {"GCP", "Azure"} => NewVM(class, c) = c.made + 1
    BY CloudFields DEF Fits, Class, NewVM, NamedVM
  <1>a. ASSUME Makes(c, NewVM(class, c), r)
        PROVE  /\ class.kind \in {"GCP", "Azure"} => r.cloud.vms \subseteq {NamedVM}
               /\ class.kind \notin {"GCP", "Azure"} => r.cloud.vms \subseteq 1..r.cloud.made
               /\ r.cloud \in Cloud
    <2>1. CASE class.kind \in {"GCP", "Azure"}
      BY <1>0, <1>a, <2>1 DEF Makes, Fits
    <2>2. CASE class.kind \notin {"GCP", "Azure"}
      <3>1. Makes(c, c.made + 1, r) /\ c.vms \subseteq 1..c.made
        BY <1>0, <1>a, <2>2, Zenon DEF Fits
      <3> QED
        BY <1>0, <2>2, <3>1, NumberedVMs DEF Makes
    <2> QED
      BY <2>1, <2>2
  <1>1. CASE class.kind \in {"AWS", "GCP", "Alicloud", "Packet"}
    <2>1. r \in {Outcome(c, TRUE)} \cup Request(c, WithVM(c, NewVM(class, c)))
      BY <1>1, Zenon DEF Create, AWSCreate, GCPCreate, AlicloudCreate, PacketCreate
    <2>2. /\ Makes(c, NewVM(class, c), r)
          /\ r.cloud.parts = c.parts /\ r.cloud.ports = c.ports
      BY <1>0, <2>1, SimpleCreate, Zenon
    <2> QED
      BY <1>0, <1>a, <1>1, <2>2, Zenon DEF Fits
  <1>2. CASE class.kind = "OpenStack"
    <2>1. r \in OpenStackCreate(class, c, NewVM(class, c))
      BY <1>2 DEF Create
    <2>2. /\ Makes(c, NewVM(class, c), r) /\ r.cloud.parts = c.parts
          /\ ~class.subnet => r.cloud.ports = c.ports
      BY <1>0, <2>1, OpenStackCreation
    <2> QED
      BY <1>0, <1>a, <1>2, <2>2, Zenon DEF Fits
  <1>3. CASE class.kind = "Azure"
    <2>1. r \in AzureCreate(class, c)
      BY <1>3 DEF Create
    <2>2. /\ Makes(c, NamedVM, r) /\ r.cloud.ports = c.ports
          /\ r.cloud.parts \subseteq c.parts \cup {"nic"} \cup AzureDisks(class)
      BY <1>0, <2>1, AzureCreation
    <2> QED
      BY <1>0, <1>3, <2>2 DEF Fits, Makes
  <1> QED
    BY <1>0, <1>1, <1>2, <1>3 DEF Kinds

(***************************************************************************)
(* The controller.                                                         *)
(***************************************************************************)
\* There is at most one VM, because between the list that found none and the call that
\* makes one nobody else makes one; and what is at the cloud is what this driver leaves.
VMInv ==
    /\ TypeOK
    /\ Fits(env.class, cloud)
    /\ \A a, b \in cloud.vms : a = b
    /\ w.at = "call" => cloud.vms = {}

LEMMA EnvTypes ==
  ASSUME env \in Scenarios
  PROVE  env.class \in Class /\ env.maxFaults \in Nat
  BY ScenariosAssumption DEF Scenario

LEMMA ObjTypes ==
  ASSUME NEW o \in MachineRec
  PROVE  /\ \A p \in Phases, t \in BOOLEAN : [o EXCEPT !.phase = p, !.timeout = t] \in MachineRec
         /\ [o EXCEPT !.cond = TRUE] \in MachineRec
         /\ [o EXCEPT !.fin = TRUE] \in MachineRec
         /\ [o EXCEPT !.deleting = TRUE] \in MachineRec
         /\ [o EXCEPT !.node = TRUE] \in MachineRec
         /\ \A i \in ProviderID : [o EXCEPT !.pid = i] \in MachineRec
         /\ \A n \in BOOLEAN :
               [o EXCEPT !.node = n, !.phase = "Pending", !.timeout = TRUE] \in MachineRec
  BY Zenon DEF MachineRec, Phases

LEMMA StatusWritten ==
  ASSUME NEW o \in MachineRec, NEW p \in Phases, NEW t \in BOOLEAN
  PROVE  WithStatus(o, p, t) \in MachineRec
  <1> DEFINE e == o.early \/ (p \in {"Failed", "Terminating"} /\ o.pid = NoID)
  <1>1. e \in BOOLEAN
    BY DEF MachineRec
  <1>2. WithStatus(o, p, t) = [o EXCEPT !.phase = p, !.timeout = t, !.early = e]
    BY DEF WithStatus, MachineRec
  <1> HIDE DEF e
  <1>3. [o EXCEPT !.phase = p, !.timeout = t, !.early = e] \in MachineRec
    BY <1>1, Zenon DEF MachineRec
  <1> QED
    BY <1>2, <1>3

LEMMA StatusTypes ==
  ASSUME obj \in MachineRec, NEW m, NEW p \in Phases, NEW t \in BOOLEAN,
         NEW o \in updateMachineStatus(m, p, t)
  PROVE  o \in MachineRec
  <1>1. o = obj \/ o = WithStatus(obj, p, t)
    BY DEF updateMachineStatus
  <1> QED
    BY <1>1, StatusWritten

LEMMA ConditionTypes ==
  ASSUME NEW o \in MachineRec
  PROVE  updateMachineConditions(o) \in MachineRec
  <1> DEFINE c == [o EXCEPT !.cond = TRUE]
  <1>1. c \in MachineRec
    BY ObjTypes, Zenon
  <1>2. /\ [c EXCEPT !.phase = "Unknown", !.timeout = TRUE] \in MachineRec
        /\ [c EXCEPT !.phase = "Running", !.timeout = FALSE] \in MachineRec
    BY <1>1, ObjTypes, Zenon DEF Phases
  <1> QED
    BY <1>1, <1>2 DEF updateMachineConditions

LEMMA ConstantTypes ==
  NoID \in ProviderID /\ Absent \in MachineRec /\ NoNode \in NodeRec
  /\ Idle \in [at: Steps, pid: ProviderID, m: MachineRec, vm: ProviderID, named: BOOLEAN]
  /\ Resting \in [at: {"idle", "check", "kill"}, todo: SUBSET Nat, vm: ProviderID]
  /\ Idle.at = "idle" /\ EmptyCloud \in Cloud
  <1>1. NoID \in ProviderID
    BY DEF NoID, ProviderID
  <1>2. Absent \in MachineRec
    BY <1>1 DEF Absent, MachineRec, Phases
  <1> QED
    BY <1>1, <1>2 DEF NoNode, NodeRec, Idle, Steps, Resting, EmptyCloud, Cloud

\* A call's answer.
LEMMA Answers ==
  ASSUME TypeOK, NEW outcomes, NEW r, Answer(outcomes, r), env' = env
  PROVE  r \in outcomes /\ cloud' = r.cloud /\ faults' \in 0..env.maxFaults
  BY EnvTypes DEF TypeOK, Answer

LEMMA Faults ==
  ASSUME TypeOK, Fault, env' = env
  PROVE  faults' \in 0..env.maxFaults
  BY EnvTypes DEF TypeOK, Fault

\* Steps that leave the cloud alone and do not come to the call of Create.
Quiet == TypeOK' /\ env' = env /\ cloud' = cloud /\ (w'.at = "call" => w.at = "call")

WorkerRec == [at: Steps, pid: ProviderID, m: MachineRec, vm: ProviderID, named: BOOLEAN]

LEMMA StepTypes ==
  ASSUME w \in WorkerRec
  PROVE  /\ \A s \in Steps : /\ [w EXCEPT !.at = s] \in WorkerRec
                             /\ [w EXCEPT !.at = s].at = s
         /\ \A s \in Steps, o \in MachineRec : /\ [w EXCEPT !.at = s, !.m = o] \in WorkerRec
                                               /\ [w EXCEPT !.at = s, !.m = o].at = s
         /\ \A i \in ProviderID : /\ [w EXCEPT !.at = "record", !.vm = i] \in WorkerRec
                                  /\ [w EXCEPT !.at = "record", !.vm = i].at = "record"
         /\ \A i \in ProviderID :
               /\ [w EXCEPT !.at = "record", !.named = TRUE, !.vm = i] \in WorkerRec
               /\ [w EXCEPT !.at = "record", !.named = TRUE, !.vm = i].at = "record"
         /\ \A i \in ProviderID : /\ [Idle EXCEPT !.at = "fetched", !.pid = i] \in WorkerRec
                                  /\ [Idle EXCEPT !.at = "fetched", !.pid = i].at = "fetched"
         /\ Idle \in WorkerRec /\ Idle.at = "idle"
  BY ConstantTypes, Zenon DEF WorkerRec, Steps

LEMMA GotoTypes ==
  ASSUME w \in WorkerRec, NEW s \in Steps, Goto(s)
  PROVE  w' \in WorkerRec /\ w'.at = s
  BY DEF WorkerRec, Goto

LEMMA ReconcileQuiet ==
  ASSUME TypeOK, Reconcile
  PROVE  Quiet
  <1>1. seen.pid \in ProviderID /\ w \in WorkerRec
    BY DEF TypeOK, MachineRec, WorkerRec
  <1>2. w' \in WorkerRec /\ w'.at = "fetched"
    BY <1>1, StepTypes, Zenon DEF Reconcile
  <1> QED
    BY <1>2 DEF Reconcile, Quiet, TypeOK, WorkerRec

LEMMA AdoptNodeQuiet ==
  ASSUME TypeOK, AdoptNode
  PROVE  Quiet
  <1>0. w \in WorkerRec /\ obj \in MachineRec /\ seen \in MachineRec /\ "adopted" \in Steps
    BY DEF TypeOK, WorkerRec, Steps
  <1>1. obj' \in MachineRec
    BY <1>0, ObjTypes, Zenon DEF AdoptNode
  <1>2. w' \in WorkerRec /\ w'.at = "adopted"
    BY <1>0, Zenon DEF AdoptNode, WorkerRec
  <1> QED
    BY <1>1, <1>2 DEF AdoptNode, Quiet, TypeOK, WorkerRec

LEMMA UpdateMachineStateQuiet ==
  ASSUME TypeOK, UpdateMachineState
  PROVE  Quiet
  <1>0. /\ w \in WorkerRec /\ obj \in MachineRec /\ seen \in MachineRec /\ AtHand \in MachineRec
        /\ "decide" \in Steps /\ "label" \in Steps
    BY DEF TypeOK, WorkerRec, Steps, AtHand
  <1>1. \E o \in MachineRec, s \in {"decide", "label"} :
           w' = [w EXCEPT !.at = s, !.m = o] /\ obj' \in {obj, o}
    <2>1. updateMachineConditions(obj) \in MachineRec
      BY <1>0, ConditionTypes
    <2>2. WithStatus(obj, "Unknown", TRUE) \in MachineRec
      BY <1>0, StatusWritten, Zenon DEF Phases
    <2> QED
      BY <1>0, <2>1, <2>2, Zenon DEF UpdateMachineState
  <1>2. w' \in WorkerRec /\ w'.at # "call" /\ obj' \in MachineRec
    <2>1. PICK o \in MachineRec, s \in {"decide", "label"} :
             w' = [w EXCEPT !.at = s, !.m = o] /\ obj' \in {obj, o}
      BY <1>1, Zenon
    <2>2. s \in Steps /\ s # "call"
      BY <1>0
    <2> QED
      BY <1>0, <2>1, <2>2, Zenon DEF WorkerRec
  <1> QED
    BY <1>2 DEF UpdateMachineState, Quiet, TypeOK, WorkerRec

LEMMA LabelQuiet ==
  ASSUME TypeOK, LabelMachine
  PROVE  Quiet
  <1>0. w \in WorkerRec /\ "decide" \in Steps
    BY DEF TypeOK, WorkerRec, Steps
  <1>1. w' \in WorkerRec /\ w'.at # "call"
    BY <1>0, GotoTypes, StepTypes, Zenon DEF LabelMachine
  <1> QED
    BY <1>1 DEF LabelMachine, Quiet, TypeOK, WorkerRec

LEMMA StateUpdateFailsQuiet ==
  ASSUME TypeOK, StateUpdateFails
  PROVE  Quiet
  BY ConstantTypes DEF StateUpdateFails, Quiet, TypeOK

LEMMA TimeoutQuiet ==
  ASSUME TypeOK, checkMachineTimeout
  PROVE  Quiet
  <1>1. obj' \in MachineRec
    BY StatusTypes, Zenon DEF checkMachineTimeout, TypeOK, Phases
  <1> QED
    BY <1>1, ConstantTypes DEF checkMachineTimeout, Quiet, TypeOK

LEMMA FinalizerQuiet ==
  ASSUME TypeOK, AddMachineFinalizers
  PROVE  Quiet
  <1>0. w \in WorkerRec /\ obj \in MachineRec /\ "create" \in Steps /\ "update" \in Steps
    BY DEF TypeOK, WorkerRec, Steps
  <1>1. obj' \in MachineRec
    BY <1>0, ObjTypes, Zenon DEF AddMachineFinalizers, WithFinalizer
  <1>2. w' \in WorkerRec /\ w'.at # "call"
    BY <1>0, GotoTypes, StepTypes, Zenon DEF AddMachineFinalizers
  <1>3. faults' \in 0..env.maxFaults
    BY Faults DEF AddMachineFinalizers, TypeOK
  <1> QED
    BY <1>1, <1>2, <1>3 DEF AddMachineFinalizers, Quiet, TypeOK, WorkerRec

LEMMA MachineUpdateQuiet ==
  ASSUME TypeOK, MachineUpdate
  PROVE  Quiet
  <1>0. w.pid \in ProviderID /\ obj \in MachineRec
    BY DEF TypeOK
  <1>1. obj' \in MachineRec
    BY <1>0, ObjTypes, Zenon DEF MachineUpdate
  <1> QED
    BY <1>1, ConstantTypes DEF MachineUpdate, Quiet, TypeOK

LEMMA RefusedQuiet ==
  ASSUME TypeOK, CreationRefused
  PROVE  Quiet
  <1>1. obj' \in MachineRec
    BY StatusTypes, Zenon DEF CreationRefused, TypeOK, Phases
  <1>2. faults' \in 0..env.maxFaults
    BY Faults DEF CreationRefused
  <1> QED
    BY <1>1, <1>2, ConstantTypes DEF CreationRefused, Quiet, TypeOK

LEMMA RecordQuiet ==
  ASSUME TypeOK, RecordID \/ RecordStatus
  PROVE  Quiet
  <1>0. /\ w \in WorkerRec /\ obj \in MachineRec /\ w.vm \in ProviderID /\ w.named \in BOOLEAN
        /\ "status" \in Steps /\ "record" \in Steps
    BY DEF TypeOK, WorkerRec, Steps
  <1>1. CASE RecordID
    <2>1. obj' \in MachineRec
      BY <1>0, <1>1, ObjTypes, Zenon DEF RecordID
    <2>2. w' \in WorkerRec /\ w'.at = "status"
      BY <1>0, <1>1, <2>1, StepTypes, ZenonT(60) DEF RecordID
    <2> QED
      BY <1>1, <2>1, <2>2 DEF RecordID, Quiet, TypeOK, WorkerRec
  <1>2. CASE RecordStatus
    <2>0. [obj EXCEPT !.node = w.named, !.phase = "Pending", !.timeout = TRUE] \in MachineRec
      BY <1>0, Zenon DEF MachineRec, Phases
    <2>1. obj' \in MachineRec
      BY <1>0, <1>2, <2>0 DEF RecordStatus
    <2>2. w' \in WorkerRec /\ w'.at # "call"
      BY <1>0, <1>2, GotoTypes, StepTypes, Zenon DEF RecordStatus
    <2> QED
      BY <1>2, <2>1, <2>2 DEF RecordStatus, Quiet, TypeOK, WorkerRec
  <1> QED
    BY <1>1, <1>2

LEMMA NotDeletedQuiet ==
  ASSUME TypeOK, NotDeleted
  PROVE  Quiet
  BY ConstantTypes DEF NotDeleted, Quiet, TypeOK

LEMMA StartDeletionQuiet ==
  ASSUME TypeOK, StartDeletion
  PROVE  Quiet
  <1>0. /\ w \in WorkerRec /\ obj \in MachineRec /\ w.m \in MachineRec
        /\ w.m.node \in BOOLEAN /\ "drain" \in Steps /\ "purge" \in Steps
    BY DEF TypeOK, WorkerRec, MachineRec, Steps
  <1>1. WithStatus(obj, "Terminating", FALSE) \in MachineRec
    BY <1>0, StatusWritten, Zenon DEF Phases
  <1>2. obj' \in MachineRec
    BY <1>0, <1>1, Zenon DEF StartDeletion
  <1>3. ASSUME NEW s \in Steps, NEW o \in MachineRec,
               w' = [w EXCEPT !.at = s, !.named = w.m.node, !.m = o]
        PROVE  w' \in WorkerRec /\ w'.at = s
    BY <1>0, <1>3, Zenon DEF WorkerRec
  <1> DEFINE s == IF w.pid # NoID /\ w.m.node THEN "drain" ELSE "purge"
             o == IF w.m.phase = "Terminating" THEN w.m ELSE obj'
  <1>4. s \in Steps /\ s # "call" /\ o \in MachineRec
    BY <1>0, <1>2
  <1>5. w' = [w EXCEPT !.at = s, !.named = w.m.node, !.m = o]
    BY Zenon DEF StartDeletion
  <1> HIDE DEF s, o
  <1>6. w' \in WorkerRec /\ w'.at # "call"
    BY <1>3, <1>4, <1>5, Zenon
  <1> QED
    BY <1>2, <1>6, ZenonT(60) DEF StartDeletion, Quiet, TypeOK, WorkerRec

LEMMA FailureTypes ==
  ASSUME TypeOK, FailureNoted
  PROVE  obj' \in MachineRec /\ w' \in WorkerRec /\ w'.at # "call"
  <1>1. /\ w \in WorkerRec /\ obj \in MachineRec
        /\ w.m.phase \in Phases /\ w.m.timeout \in BOOLEAN
    BY DEF TypeOK, WorkerRec, MachineRec
  <1>2. obj' \in MachineRec
    BY <1>1, StatusTypes DEF FailureNoted
  <1> QED
    BY <1>1, <1>2, StepTypes, Zenon DEF FailureNoted

LEMMA DrainQuiet ==
  ASSUME TypeOK, DrainNode
  PROVE  Quiet
  <1>0. w \in WorkerRec /\ obj \in MachineRec /\ "destroy" \in Steps
    BY DEF TypeOK, WorkerRec, Steps
  <1>1. obj' \in MachineRec /\ w' \in WorkerRec /\ w'.at # "call"
    BY <1>0, GotoTypes, FailureTypes DEF DrainNode
  <1> QED
    BY <1>1 DEF DrainNode, Quiet, TypeOK, WorkerRec

LEMMA DeleteNodeQuiet ==
  ASSUME TypeOK, DeleteNode
  PROVE  Quiet
  <1>0. w \in WorkerRec /\ obj \in MachineRec /\ "finish" \in Steps
    BY DEF TypeOK, WorkerRec, Steps
  <1>1. obj' \in MachineRec /\ w' \in WorkerRec /\ w'.at # "call"
    BY <1>0, GotoTypes, FailureTypes DEF DeleteNode
  <1>2. faults' \in 0..env.maxFaults
    BY Faults DEF DeleteNode, TypeOK
  <1>3. node' \in NodeRec
    BY ConstantTypes DEF DeleteNode, TypeOK
  <1> QED
    BY <1>1, <1>2, <1>3 DEF DeleteNode, Quiet, TypeOK, WorkerRec

LEMMA FinishQuiet ==
  ASSUME TypeOK, FinishDeletion
  PROVE  Quiet
  <1>1. obj' \in MachineRec
    BY ConstantTypes DEF FinishDeletion, TypeOK
  <1>2. faults' \in 0..env.maxFaults
    BY Faults DEF FinishDeletion, TypeOK
  <1> QED
    BY <1>1, <1>2, ConstantTypes DEF FinishDeletion, Quiet, TypeOK

LEMMA ListedTypes ==
  ASSUME TypeOK, Fits(env.class, cloud)
  PROVE  /\ GetVMs(env.class, cloud) \subseteq Nat
         /\ GetVMs(env.class, cloud) = {} => cloud.vms = {}
         /\ \A v \in Nat : ListedID(v) \in ProviderID /\ Encoded(v) \in ProviderID
  <1>1. env.class.kind \in Kinds
    BY EnvTypes DEF TypeOK, Class
  <1>2. cloud.vms \subseteq AzureGetVMs(cloud) /\ AzureGetVMs(cloud) \subseteq Nat
    BY DEF Fits, Cloud, NamedVM, AzureGetVMs, getRelevantVMs, getRelevantNICs, getRelevantDisks
  <1>3. GetVMs(env.class, cloud) \in {cloud.vms, AzureGetVMs(cloud)} /\ cloud.vms \subseteq Nat
    BY <1>1 DEF Kinds, Fits, Cloud, GetVMs, AWSGetVMs, GCPGetVMs, AlicloudGetVMs, PacketGetVMs,
       OpenStackGetVMs
  <1>4. \A v \in Nat : ListedID(v) \in ProviderID /\ Encoded(v) \in ProviderID
    BY DEF ListedID, Encoded, ProviderID
  <1> QED
    BY <1>2, <1>3, <1>4

CollectorRec == [at: {"idle", "check", "kill"}, todo: SUBSET Nat, vm: ProviderID]

LEMMA CollectorQuiet ==
  ASSUME TypeOK, Fits(env.class, cloud), ListVMs \/ CheckVM
  PROVE  Quiet
  <1>0. col \in CollectorRec
    BY DEF TypeOK, CollectorRec
  <1>1. CASE ListVMs
    <2> DEFINE found == GetVMs(env.class, cloud)
    <2>1. found \in SUBSET Nat
      BY ListedTypes
    <2>2. col' = [col EXCEPT !.at = "check", !.todo = found]
      BY <1>1 DEF ListVMs
    <2> HIDE DEF found
    <2>3. col' \in CollectorRec
      BY <1>0, <2>1, <2>2, Zenon DEF CollectorRec
    <2> QED
      BY <1>1, <2>3 DEF ListVMs, Quiet, TypeOK, CollectorRec
  <1>2. CASE CheckVM
    <2>1. col.todo \subseteq Nat /\ NoID \in ProviderID
      BY <1>0, ConstantTypes DEF CollectorRec
    <2>2. ASSUME NEW v \in col.todo
          PROVE  /\ [at |-> IF col.todo = {v} THEN "idle" ELSE "check",
                     todo |-> col.todo \ {v}, vm |-> NoID] \in CollectorRec
                 /\ [at |-> "kill", todo |-> col.todo \ {v}, vm |-> ListedID(v)] \in CollectorRec
      BY <2>1, ListedTypes DEF CollectorRec
    <2>3. col' \in CollectorRec
      BY <1>2, <2>2, Zenon DEF CheckVM
    <2>4. faults' \in 0..env.maxFaults
      BY <1>2, Faults DEF CheckVM, TypeOK
    <2> QED
      BY <1>2, <2>3, <2>4 DEF CheckVM, Quiet, TypeOK, CollectorRec
  <1> QED
    BY <1>1, <1>2

LEMMA WorldQuiet ==
  ASSUME TypeOK, Fits(env.class, cloud), World
  PROVE  Quiet \/ ServerGone
  <1>0. obj \in MachineRec
    BY DEF TypeOK
  <1>1. CASE Deliver
    BY <1>1 DEF Deliver, Quiet, TypeOK
  <1>2. CASE DeleteMachine
    <2>1. obj' \in MachineRec
      BY <1>0, <1>2, ObjTypes, ConstantTypes, Zenon DEF DeleteMachine
    <2> QED
      BY <1>2, <2>1 DEF DeleteMachine, Quiet, TypeOK
  <1>3. CASE MachineSetTerminates
    <2>1. WithStatus(obj, "Terminating", FALSE) \in MachineRec
      BY <1>0, StatusWritten, Zenon DEF Phases
    <2>2. faults' \in 0..env.maxFaults
      BY <1>3, Faults DEF MachineSetTerminates, TypeOK
    <2> QED
      BY <1>3, <2>1, <2>2, Zenon DEF MachineSetTerminates, Quiet, TypeOK
  <1>4. CASE DeletionOverdue
    BY <1>4 DEF DeletionOverdue, Quiet, TypeOK
  <1>5. CASE KubeletReports
    <2>1. cloud.vms \subseteq Nat
      BY DEF Fits, Cloud
    <2>2. node' \in NodeRec
      BY <1>5, <2>1 DEF KubeletReports, NodeRec
    <2> QED
      BY <1>5, <2>2 DEF KubeletReports, Quiet, TypeOK
  <1>6. CASE NodeLost
    <2>1. faults' \in 0..env.maxFaults
      BY <1>6, Faults DEF NodeLost
    <2> QED
      BY <1>6, <2>1, ConstantTypes DEF NodeLost, Quiet, TypeOK
  <1>7. CASE Restart
    <2>1. faults' \in 0..env.maxFaults
      BY <1>7, Faults DEF Restart
    <2> QED
      BY <1>7, <2>1, ConstantTypes DEF Restart, Quiet, TypeOK
  <1> QED
    BY <1>1, <1>2, <1>3, <1>4, <1>5, <1>6, <1>7 DEF World

\* Steps that at most take away from the cloud.
Fewer ==
    /\ cloud.leaving \subseteq cloud'.leaving /\ cloud'.parts \subseteq cloud.parts
    /\ cloud'.ports \in {0, cloud.ports} /\ cloud'.made = cloud.made

Less ==
    /\ TypeOK' /\ env' = env
    /\ Fits(env.class, cloud') /\ cloud'.vms \subseteq cloud.vms
    /\ Fewer
    /\ w'.at = "call" => w.at = "call"

LEMMA LessPreserves ==
  ASSUME VMInv, Less
  PROVE  VMInv'
  BY DEF VMInv, Less

LEMMA DeletionAnswer ==
  ASSUME VMInv, env' = env, NEW id, NEW r, Answer(Delete(env.class, cloud, id), r)
  PROVE  /\ cloud' \in Cloud /\ Fits(env.class, cloud') /\ cloud'.vms \subseteq cloud.vms
         /\ faults' \in 0..env.maxFaults /\ r.err \in BOOLEAN /\ Fewer
  <1>1. TypeOK /\ env.class \in Class /\ Fits(env.class, cloud)
    BY EnvTypes DEF VMInv, TypeOK
  <1>2. /\ r \in Delete(env.class, cloud, id) /\ cloud' = r.cloud
        /\ faults' \in 0..env.maxFaults
    BY <1>1, Answers
  <1>3. Shrinks(cloud, r) /\ Fits(env.class, r.cloud)
    BY <1>1, <1>2, Deletion
  <1> QED
    BY <1>2, <1>3 DEF Shrinks, Fewer

LEMMA DeletionResults ==
  ASSUME TypeOK, NEW err, DeletionResult(err, "node")
  PROVE  obj' \in MachineRec /\ w' \in WorkerRec /\ w'.at # "call"
  <1>0. /\ w \in WorkerRec /\ obj \in MachineRec /\ "node" \in Steps
        /\ "Terminating" \in Phases
    BY DEF TypeOK, WorkerRec, Steps, Phases
  <1>1. CASE err
    BY <1>0, <1>1, StatusTypes, StepTypes, Zenon DEF DeletionResult
  <1>2. CASE ~err
    BY <1>0, <1>2, GotoTypes DEF DeletionResult
  <1> QED
    BY <1>1, <1>2

LEMMA DeleteUnrecordedLess ==
  ASSUME VMInv, DeleteUnrecorded
  PROVE  Less
  <1>1. PICK r : Answer(Delete(env.class, cloud, w.vm.vm), r)
    BY DEF DeleteUnrecorded
  <1>2. env' = env
    BY DEF DeleteUnrecorded
  <1>3. /\ cloud' \in Cloud /\ Fits(env.class, cloud') /\ cloud'.vms \subseteq cloud.vms
        /\ faults' \in 0..env.maxFaults /\ Fewer
    BY <1>1, <1>2, DeletionAnswer
  <1> QED
    BY <1>3, ConstantTypes DEF DeleteUnrecorded, Less, VMInv, TypeOK

LEMMA DestroyLess ==
  ASSUME VMInv, DestroyVM
  PROVE  Less
  <1>1. PICK r : Answer(Delete(env.class, cloud, w.pid.vm), r) /\ DeletionResult(r.err, "node")
    BY DEF DestroyVM
  <1>2. env' = env /\ TypeOK
    BY DEF DestroyVM, VMInv
  <1>3. /\ cloud' \in Cloud /\ Fits(env.class, cloud') /\ cloud'.vms \subseteq cloud.vms
        /\ faults' \in 0..env.maxFaults /\ Fewer
    BY <1>1, <1>2, DeletionAnswer
  <1>4. obj' \in MachineRec /\ w' \in WorkerRec /\ w'.at # "call"
    BY <1>1, <1>2, DeletionResults
  <1> QED
    BY <1>2, <1>3, <1>4 DEF DestroyVM, Less, TypeOK, WorkerRec

LEMMA PurgeLess ==
  ASSUME VMInv, PurgeVMs
  PROVE  Less
  <1>1. /\ env' = env /\ TypeOK /\ Fits(env.class, cloud) /\ cloud \in Cloud
        /\ w \in WorkerRec /\ "node" \in Steps
    BY DEF PurgeVMs, VMInv, TypeOK, WorkerRec, Steps
  <1>2. CASE Fault /\ DeletionResult(TRUE, "node") /\ UNCHANGED cloud
    <2>1. faults' \in 0..env.maxFaults
      BY <1>1, <1>2, Faults
    <2>2. obj' \in MachineRec /\ w' \in WorkerRec /\ w'.at # "call"
      BY <1>1, <1>2, DeletionResults, Zenon
    <2> QED
      BY <1>1, <1>2, <2>1, <2>2 DEF PurgeVMs, Less, Fewer, TypeOK, WorkerRec
  <1>3. CASE Goto("node") /\ UNCHANGED <<obj, cloud, faults>>
    <2>1. w' \in WorkerRec /\ w'.at # "call"
      BY <1>1, <1>3, GotoTypes
    <2> QED
      BY <1>1, <1>3, <2>1 DEF PurgeVMs, Less, Fewer, TypeOK, WorkerRec
  <1>4. ASSUME NEW v, NEW r, Answer(Delete(env.class, cloud, v), r), DeletionResult(r.err, "node")
        PROVE  Less
    <2>1. /\ cloud' \in Cloud /\ Fits(env.class, cloud') /\ cloud'.vms \subseteq cloud.vms
          /\ faults' \in 0..env.maxFaults /\ Fewer
      BY <1>1, <1>4, DeletionAnswer
    <2>2. obj' \in MachineRec /\ w' \in WorkerRec /\ w'.at # "call"
      BY <1>1, <1>4, DeletionResults
    <2> QED
      BY <1>1, <2>1, <2>2 DEF PurgeVMs, Less, TypeOK, WorkerRec
  <1> QED
    BY <1>2, <1>3, <1>4, Zenon DEF PurgeVMs

LEMMA CollectLess ==
  ASSUME VMInv, deleteOrphanVM
  PROVE  Less
  <1>1. PICK r : Answer(Delete(env.class, cloud, col.vm.vm), r)
    BY DEF deleteOrphanVM
  <1>2. env' = env /\ TypeOK /\ col \in CollectorRec /\ NoID \in ProviderID
    BY ConstantTypes DEF deleteOrphanVM, VMInv, TypeOK, CollectorRec
  <1>3. /\ cloud' \in Cloud /\ Fits(env.class, cloud') /\ cloud'.vms \subseteq cloud.vms
        /\ faults' \in 0..env.maxFaults /\ Fewer
    BY <1>1, <1>2, DeletionAnswer
  <1>4. col' \in CollectorRec
    BY <1>2, Zenon DEF deleteOrphanVM, CollectorRec
  <1> QED
    BY <1>2, <1>3, <1>4, Zenon DEF deleteOrphanVM, Less, TypeOK, CollectorRec

LEMMA ServerGoneLess ==
  ASSUME VMInv, ServerGone
  PROVE  Less
  <1>1. PICK v \in cloud.vms \cap cloud.leaving : cloud' = WithoutVM(cloud, v)
    BY DEF ServerGone
  <1>2. cloud \in Cloud /\ Fits(env.class, cloud) /\ env' = env
    BY DEF VMInv, Fits, ServerGone
  <1>3. /\ cloud' \in Cloud /\ cloud'.vms = cloud.vms \ {v}
        /\ cloud'.parts = cloud.parts /\ cloud'.ports = cloud.ports
        /\ cloud'.leaving = cloud.leaving /\ cloud'.made = cloud.made
    BY <1>1, <1>2, WithoutVMFields
  <1>4. Fits(env.class, cloud')
    BY <1>2, <1>3 DEF Fits
  <1>5. TypeOK'
    BY <1>3 DEF ServerGone, VMInv, TypeOK
  <1> QED
    BY <1>2, <1>3, <1>4, <1>5 DEF Less, Fewer, ServerGone

LEMMA AdoptPreserves ==
  ASSUME VMInv, AdoptVM
  PROVE  VMInv'
  <1>1. /\ Fits(env.class, cloud) /\ TypeOK /\ w \in WorkerRec
        /\ "record" \in Steps /\ "call" \in Steps
    BY DEF VMInv, TypeOK, WorkerRec, Steps
  <1>2. UNCHANGED <<env, obj, seen, cloud, node, col, overdue, faults>>
    BY Zenon DEF AdoptVM
  <1>3. w' \in WorkerRec /\ (w'.at = "call" => cloud.vms = {})
    <2>1. ASSUME NEW v \in GetVMs(env.class, cloud),
                 w' = [w EXCEPT !.at = "record", !.vm = ListedID(v)]
          PROVE  w' \in WorkerRec /\ w'.at = "record"
      <3>1. ListedID(v) \in ProviderID
        BY <1>1, ListedTypes
      <3> QED
        BY <1>1, <2>1, <3>1, StepTypes, Zenon
    <2>2. CASE GetVMs(env.class, cloud) = {} /\ Goto("call")
      BY <1>1, <2>2, GotoTypes, ListedTypes
    <2> QED
      BY <2>1, <2>2, Zenon DEF AdoptVM
  <1> QED
    BY <1>1, <1>2, <1>3 DEF VMInv, TypeOK, WorkerRec

LEMMA CreatePreserves ==
  ASSUME VMInv, CreateVM
  PROVE  VMInv'
  <1> DEFINE outcomes == IF cloud.made < MaxVMs THEN Create(env.class, cloud)
                         ELSE {Outcome(cloud, TRUE)}
             id == NewVM(env.class, cloud)
  <1>1. /\ Fits(env.class, cloud) /\ TypeOK /\ w \in WorkerRec /\ env.class \in Class
        /\ obj \in MachineRec /\ "CrashLoopBackOff" \in Phases /\ cloud \in Cloud
        /\ cloud.vms = {} /\ env' = env
    BY EnvTypes DEF VMInv, TypeOK, WorkerRec, CreateVM, Phases
  <1>2. PICK r \in outcomes :
           /\ Answer(outcomes, r)
           /\ IF r.err
              THEN /\ obj' \in updateMachineStatus(w.m, "CrashLoopBackOff", FALSE)
                   /\ w' = Idle
              ELSE /\ w' = [w EXCEPT !.at = "record", !.named = TRUE, !.vm = Encoded(id)]
                   /\ UNCHANGED obj
    BY Zenon DEF CreateVM
  <1>3. cloud' = r.cloud /\ faults' \in 0..env.maxFaults
    BY <1>1, <1>2, Answers
  <1>4. id \in Nat
    BY <1>1, CloudFields DEF NewVM, NamedVM
  <1>5. Fits(env.class, r.cloud) /\ r.cloud.vms \subseteq {id}
    <2>1. CASE r \in Create(env.class, cloud)
      BY <1>1, <2>1, Creation DEF Makes
    <2>2. CASE r = Outcome(cloud, TRUE)
      BY <1>1, <2>2, OutcomeFields, Zenon
    <2> QED
      BY <1>2, <2>1, <2>2, Zenon
  <1> HIDE DEF id, outcomes
  <1>6. obj' \in MachineRec /\ w' \in WorkerRec /\ w'.at # "call"
    <2>1. CASE r.err
      BY <1>1, <1>2, <2>1, StatusTypes, StepTypes, Zenon
    <2>2. CASE ~r.err
      <3>1. Encoded(id) \in ProviderID
        BY <1>1, <1>4, ListedTypes
      <3> QED
        BY <1>1, <1>2, <2>2, <3>1, StepTypes, ZenonT(60)
    <2> QED
      BY <2>1, <2>2
  <1>7. cloud' \in Cloud /\ Fits(env.class, cloud') /\ \A a, b \in cloud'.vms : a = b
    BY <1>3, <1>5 DEF Fits
  <1> QED
    BY <1>1, <1>3, <1>6, <1>7 DEF CreateVM, VMInv, TypeOK, WorkerRec

LEMMA VMInvHolds == Spec => []VMInv
  <1>1. ASSUME Init
        PROVE  VMInv
    <2>1. obj \in MachineRec
      <3>1. [Absent EXCEPT !.exists = TRUE] \in MachineRec
        BY ConstantTypes, Zenon DEF MachineRec
      <3> QED
        BY <1>1, <3>1 DEF Init
    <2>2. faults \in 0..env.maxFaults
      BY <1>1, EnvTypes DEF Init
    <2>3. TypeOK
      BY <1>1, <2>1, <2>2, ConstantTypes, Zenon DEF Init, TypeOK
    <2>4. cloud.vms = {} /\ cloud.parts = {} /\ cloud.ports = 0 /\ cloud.made = 0
      BY <1>1 DEF Init, EmptyCloud
    <2> QED
      BY <2>3, <2>4 DEF VMInv, Fits, TypeOK
  <1>2. ASSUME VMInv, [Next]_vars
        PROVE  VMInv'
    <2>0. TypeOK /\ Fits(env.class, cloud)
      BY <1>2 DEF VMInv
    <2>1. ASSUME Quiet PROVE VMInv'
      BY <1>2, <2>0, <2>1, LessPreserves DEF Quiet, Less, Fewer
    <2>2. CASE Worker
      BY <1>2, <2>0, <2>1, <2>2, ReconcileQuiet, AdoptNodeQuiet, UpdateMachineStateQuiet,
         LabelQuiet, StateUpdateFailsQuiet, TimeoutQuiet, FinalizerQuiet, MachineUpdateQuiet,
         RefusedQuiet, RecordQuiet, NotDeletedQuiet,
         StartDeletionQuiet, DrainQuiet, DeleteNodeQuiet, FinishQuiet, AdoptPreserves,
         CreatePreserves, LessPreserves, DeleteUnrecordedLess, DestroyLess, PurgeLess, ZenonT(60)
         DEF Worker
    <2>3. CASE Collector
      BY <1>2, <2>0, <2>1, <2>3, CollectorQuiet, CollectLess, LessPreserves DEF Collector
    <2>4. CASE World
      BY <1>2, <2>0, <2>1, <2>4, WorldQuiet, ServerGoneLess, LessPreserves
    <2>5. CASE UNCHANGED vars
      BY <1>2, <2>5 DEF vars, VMInv, TypeOK
    <2> QED
      BY <1>2, <2>2, <2>3, <2>4, <2>5 DEF Next
  <1> QED
    BY <1>1, <1>2, PTL DEF Spec

\* The variables keep their types: what the worker, the collector and the informer hold
\* are Machines, ids and sets of VMs, and calls fail no more often than the scenario says.
THEOREM InTreeTypes == Spec => []TypeOK
  <1>1. VMInv => TypeOK
    BY DEF VMInv
  <1> QED
    BY <1>1, VMInvHolds, PTL

\* machineCreate never makes a second VM for a machine, whatever the driver, however
\* often calls fail and the process restarts.
THEOREM AtMostOneVM == Spec => []OneVM
  <1>1. ASSUME VMInv PROVE OneVM
    <2>1. CASE cloud.vms = {}
      BY <2>1, FS_EmptySet DEF OneVM
    <2>2. ASSUME NEW a \in cloud.vms PROVE OneVM
      <3>1. cloud.vms = {a}
        BY <1>1, <2>2 DEF VMInv
      <3>2. Cardinality({a}) = 1
        BY FS_Singleton
      <3> QED
        BY <3>1, <3>2 DEF OneVM
    <2> QED
      BY <2>1, <2>2
  <1> QED
    BY <1>1, VMInvHolds, PTL

(***************************************************************************)
(* The collector.  What the copies of the Machine show lags behind, but an *)
(* id is written once: a copy has no id, or the one the object has.        *)
(***************************************************************************)
\* Whether v is the VM of the machine.  GCP and Azure have but one name for it; Azure's
\* may be recorded when only an interface or a disk is there.
Its(v) == IF env.class.kind \in {"GCP", "Azure"} THEN v = NamedVM ELSE v \in cloud.vms

Tracked(id) == ~id.bare /\ Its(id.vm)

\* The machine has come as far as to have a VM; the collector does not pass it over.
Begun(o) == o.node \/ o.timeout \/ o.phase \notin {"", "CrashLoopBackOff"}

Recorded(o) == Begun(o) => o.pid # NoID

\* A copy of the machine, while that is not being deleted.
Matches(o) == ~o.deleting /\ Recorded(o) /\ (o.pid # NoID => o.pid = obj.pid)

Deleting == {"drain", "destroy", "purge", "node", "finish"}

WorkerFits(x) ==
    /\ x.at \in {"adopted", "label", "decide", "status"} => Matches(x.m)
    /\ x.at = "adopted" => x.m.pid # NoID
    /\ x.at \in {"record", "status"} => Tracked(x.vm)
    /\ x.at = "status" => x.m.pid = x.vm
    /\ x.at \notin Deleting

Alive ==
    /\ obj.exists /\ ~obj.deleting /\ ~obj.early
    /\ env.class.kind \notin {"Packet", "OpenStack"}

\* While the machine is not being deleted, its recorded VM is the one there is, no copy
\* shows more than the object, the worker does not delete, and the collector has found
\* nothing to delete.
AliveInv ==
    /\ seen.exists \/ (w.at = "idle" /\ cloud = EmptyCloud)
    /\ Recorded(obj) /\ (obj.pid # NoID => Tracked(obj.pid))
    /\ seen.exists => Matches(seen)
    /\ WorkerFits(w)
    /\ col.at # "kill"

\* The driver was made without an id, or with the one that the object has.
PidFits == w.pid # NoID => w.pid = obj.pid

\* VMs are numbered from one, NoID has number zero.
Numbered == 0 \notin cloud.vms /\ (node.exists => node.vm # 0)

BackInv == Numbered /\ (Alive => AliveInv /\ PidFits)

\* p is the object o after a write that leaves id and deletion alone.
Same(o, p) ==
    p.exists = o.exists /\ p.deleting = o.deleting /\ p.pid = o.pid /\ (o.early => p.early)

LEMMA WriteFields ==
  ASSUME NEW o \in MachineRec
  PROVE  /\ \A p, t : Same(o, [o EXCEPT !.phase = p, !.timeout = t])
         /\ /\ Same(o, [o EXCEPT !.fin = TRUE])
            /\ [o EXCEPT !.fin = TRUE].phase = o.phase
            /\ [o EXCEPT !.fin = TRUE].timeout = o.timeout
            /\ [o EXCEPT !.fin = TRUE].node = o.node
         /\ Same(o, [o EXCEPT !.node = TRUE])
         /\ Same(o, [o EXCEPT !.cond = TRUE])
         /\ \A n : Same(o, [o EXCEPT !.node = n, !.phase = "Pending", !.timeout = TRUE])
         /\ \A i : /\ [o EXCEPT !.pid = i].pid = i
                   /\ [o EXCEPT !.pid = i].exists = o.exists
                   /\ [o EXCEPT !.pid = i].deleting = o.deleting
                   /\ [o EXCEPT !.pid = i].early = o.early
         /\ [o EXCEPT !.deleting = TRUE].deleting = TRUE
         /\ [o EXCEPT !.deleting = TRUE].pid = o.pid
  BY DEF MachineRec, Same

\* A machine without an id that is called Failed or Terminating was called so early.
LEMMA StatusFields ==
  ASSUME NEW o \in MachineRec, NEW p, NEW t
  PROVE  LET n == WithStatus(o, p, t)
         IN  /\ Same(o, n) /\ n.phase = p /\ n.timeout = t /\ n.node = o.node
             /\ p \in {"Failed", "Terminating"} /\ o.pid = NoID => n.early
  BY Zenon DEF MachineRec, Same, WithStatus

LEMMA StatusSame ==
  ASSUME obj \in MachineRec, NEW m, NEW p, NEW t, NEW o \in updateMachineStatus(m, p, t)
  PROVE  /\ Same(obj, o)
         /\ \/ o = obj
            \/ /\ o.phase = p /\ (o.timeout => t) /\ o.node = obj.node
               /\ p \in {"Failed", "Terminating"} /\ obj.pid = NoID => o.early
  <1> DEFINE n == WithStatus(obj, p, t)
  <1>1. o = obj \/ o = n
    BY DEF updateMachineStatus
  <1>2. /\ Same(obj, n) /\ n.phase = p /\ n.timeout = t /\ n.node = obj.node
        /\ p \in {"Failed", "Terminating"} /\ obj.pid = NoID => n.early
    BY StatusFields
  <1> HIDE DEF n
  <1>3. CASE o = obj
    BY <1>3 DEF Same
  <1>4. CASE o = n
    BY <1>2, <1>4
  <1> QED
    BY <1>1, <1>3, <1>4

LEMMA ConditionsSame ==
  ASSUME NEW o \in MachineRec
  PROVE  Same(o, updateMachineConditions(o))
  <1> DEFINE c == [o EXCEPT !.cond = TRUE]
  <1>1. c \in MachineRec /\ Same(o, c)
    BY ObjTypes, WriteFields, Zenon
  <1>2. /\ Same(c, [c EXCEPT !.phase = "Unknown", !.timeout = TRUE])
        /\ Same(c, [c EXCEPT !.phase = "Running", !.timeout = FALSE])
    BY <1>1, WriteFields, Zenon
  <1>3. updateMachineConditions(o) \in {c, [c EXCEPT !.phase = "Unknown", !.timeout = TRUE],
                                        [c EXCEPT !.phase = "Running", !.timeout = FALSE]}
    BY Zenon DEF updateMachineConditions
  <1> HIDE DEF c
  <1> QED
    BY <1>1, <1>2, <1>3, ZenonT(60) DEF Same

\* The VM of the machine is unique, listed or not.
LEMMA TrackedUnique ==
  ASSUME VMInv, NEW a \in ProviderID, NEW b \in ProviderID, Tracked(a), Tracked(b)
  PROVE  a = b
  <1>1. a.vm = b.vm /\ a.bare = b.bare
    BY DEF VMInv, Tracked, Its, ProviderID
  <1> QED
    BY <1>1 DEF ProviderID

LEMMA TrackedNonzero ==
  ASSUME Numbered, NEW i, Tracked(i)
  PROVE  i # NoID
  BY DEF Numbered, Tracked, Its, NoID, NamedVM

LEMMA ListedTracked ==
  ASSUME VMInv, env.class.kind # "Packet", NEW v \in GetVMs(env.class, cloud)
  PROVE  Tracked(ListedID(v)) /\ ListedID(v) \in ProviderID
  <1>1. env.class.kind \in Kinds /\ Fits(env.class, cloud)
    BY EnvTypes DEF VMInv, TypeOK, Class
  <1>2. ListedID(v).vm = v /\ ~ListedID(v).bare /\ ListedID(v) \in ProviderID
    BY <1>1, ListedTypes, ZenonT(60) DEF ListedID, VMInv
  <1>3. CASE env.class.kind = "Azure"
    <2>1. v \in AzureGetVMs(cloud)
      BY <1>3 DEF GetVMs
    <2>2. v = NamedVM
      BY <1>1, <1>3, <2>1 DEF Fits, AzureGetVMs, getRelevantVMs, getRelevantNICs, getRelevantDisks
    <2> QED
      BY <1>2, <1>3, <2>2 DEF Tracked, Its
  <1>4. CASE env.class.kind # "Azure"
    <2>1. v \in cloud.vms
      BY <1>1, <1>4 DEF Kinds, GetVMs, AWSGetVMs, GCPGetVMs, AlicloudGetVMs, PacketGetVMs,
         OpenStackGetVMs
    <2>2. Its(v)
      BY <1>1, <1>4, <2>1 DEF Its, Fits
    <2> QED
      BY <1>2, <2>2 DEF Tracked
  <1> QED
    BY <1>3, <1>4

LEMMA NothingListed ==
  ASSUME VMInv, cloud = EmptyCloud
  PROVE  GetVMs(env.class, cloud) = {}
  <1>1. env.class.kind \in Kinds
    BY EnvTypes DEF VMInv, TypeOK, Class
  <1>2. cloud.vms = {} /\ cloud.parts = {}
    BY DEF EmptyCloud
  <1> QED
    BY <1>1, <1>2 DEF Kinds, GetVMs, AWSGetVMs, GCPGetVMs, AlicloudGetVMs, PacketGetVMs,
       OpenStackGetVMs, AzureGetVMs, getRelevantVMs, getRelevantNICs, getRelevantDisks

\* What a step does to the Machine: it keeps the id unless the worker writes one.
LEMMA ObjStep ==
  ASSUME TypeOK, Next
  PROVE  /\ env' = env
         /\ \/ Same(obj, obj') \/ obj' = Absent \/ (obj'.deleting /\ obj'.pid = obj.pid)
            \/ /\ (RecordID /\ obj'.pid = w.vm) \/ (MachineUpdate /\ obj'.pid = w.pid)
               /\ obj'.exists = obj.exists /\ obj'.deleting = obj.deleting
               /\ obj'.early = obj.early
  <1> DEFINE Done == /\ env' = env
                     /\ \/ Same(obj, obj') \/ obj' = Absent \/ (obj'.deleting /\ obj'.pid = obj.pid)
                        \/ /\ (RecordID /\ obj'.pid = w.vm) \/ (MachineUpdate /\ obj'.pid = w.pid)
                           /\ obj'.exists = obj.exists /\ obj'.deleting = obj.deleting
                           /\ obj'.early = obj.early
  <1> SUFFICES Done
    OBVIOUS
  <1>0. /\ obj \in MachineRec
        /\ Same(obj, updateMachineConditions(obj))
        /\ \A p, t : Same(obj, WithStatus(obj, p, t))
    BY ConditionsSame, StatusFields, Zenon DEF TypeOK
  <1>1. Same(obj, obj)
    BY DEF Same
  <1>2. ASSUME Same(obj, obj'), env' = env PROVE Done
    BY <1>2
  <1>3. CASE UpdateMachineState
    <2>1. env' = env
      BY <1>3, Zenon DEF UpdateMachineState
    <2>2. obj' = obj \/ obj' = WithStatus(obj, "Unknown", TRUE) \/ obj' = updateMachineConditions(obj)
      BY <1>3, Zenon DEF UpdateMachineState
    <2>3. Same(obj, obj')
      BY <1>0, <1>1, <2>2, Zenon
    <2> QED
      BY <1>2, <2>1, <2>3, Zenon
  <1>4. CASE AdoptNode \/ RecordStatus
    <2>1. /\ Same(obj, [obj EXCEPT !.node = w.named, !.phase = "Pending", !.timeout = TRUE])
          /\ Same(obj, [obj EXCEPT !.node = TRUE])
      BY <1>0, WriteFields, Zenon
    <2>2. Same(obj, obj') /\ env' = env
      BY <1>1, <1>4, <2>1, ZenonT(60) DEF AdoptNode, RecordStatus
    <2> QED
      BY <1>2, <2>2
  <1>5. CASE \/ checkMachineTimeout \/ CreationRefused \/ DrainNode \/ DestroyVM \/ PurgeVMs
             \/ DeleteNode \/ CreateVM
    <2>1. env' = env /\ (obj' = obj \/ \E m, p, t : obj' \in updateMachineStatus(m, p, t))
      BY <1>5, ZenonT(60) DEF checkMachineTimeout, CreationRefused, DrainNode, DestroyVM,
         PurgeVMs, DeleteNode, CreateVM, FailureNoted, DeletionResult
    <2>2. ASSUME NEW m, NEW p, NEW t, obj' \in updateMachineStatus(m, p, t)
          PROVE  Same(obj, obj')
      BY <1>0, <2>2, StatusSame
    <2> QED
      BY <1>1, <1>2, <2>1, <2>2, Zenon
  <1>6. CASE AddMachineFinalizers
    <2>1. Same(obj, [obj EXCEPT !.fin = TRUE])
      BY <1>0, WriteFields, Zenon
    <2>2. Same(obj, obj') /\ env' = env
      BY <1>1, <1>6, <2>1, ZenonT(60) DEF AddMachineFinalizers, WithFinalizer
    <2> QED
      BY <1>2, <2>2
  <1>7. CASE RecordID
    BY <1>0, <1>7, WriteFields, ZenonT(60) DEF RecordID
  <1>8. CASE MachineUpdate
    <2>1. env' = env /\ (obj' = obj \/ obj' = [obj EXCEPT !.pid = w.pid])
      BY <1>8, Zenon DEF MachineUpdate
    <2>2. CASE obj' = obj
      BY <1>1, <1>2, <2>1, <2>2, Zenon
    <2>3. CASE obj' = [obj EXCEPT !.pid = w.pid]
      <3>1. /\ obj'.pid = w.pid /\ obj'.exists = obj.exists
            /\ obj'.deleting = obj.deleting /\ obj'.early = obj.early
        BY <1>0, <2>3, WriteFields, Zenon
      <3> QED
        BY <1>8, <2>1, <3>1, Zenon
    <2> QED
      BY <2>1, <2>2, <2>3, Zenon
  <1>9. CASE StartDeletion \/ MachineSetTerminates
    <2>1. Same(obj, obj') /\ env' = env
      BY <1>0, <1>1, <1>9, ZenonT(60) DEF StartDeletion, MachineSetTerminates
    <2> QED
      BY <1>2, <2>1
  <1>10. CASE DeleteMachine \/ FinishDeletion
    <2>1. [obj EXCEPT !.deleting = TRUE].deleting /\ [obj EXCEPT !.deleting = TRUE].pid = obj.pid
      BY <1>0, WriteFields, Zenon
    <2>2. /\ Same(obj, obj') \/ obj' = Absent \/ (obj'.deleting /\ obj'.pid = obj.pid)
          /\ env' = env
      BY <1>1, <1>10, <2>1, ZenonT(60) DEF DeleteMachine, FinishDeletion
    <2> QED
      BY <2>2
  <1>11. CASE \/ Reconcile \/ LabelMachine \/ StateUpdateFails \/ AdoptVM \/ DeleteUnrecorded
              \/ NotDeleted \/ Collector \/ Deliver \/ DeletionOverdue \/ KubeletReports
              \/ NodeLost \/ ServerGone \/ Restart
    <2>1. UNCHANGED <<env, obj>>
      BY <1>11, ZenonT(60) DEF Reconcile, LabelMachine, StateUpdateFails, AdoptVM,
         DeleteUnrecorded, NotDeleted, Collector, ListVMs, CheckVM, deleteOrphanVM, Deliver,
         DeletionOverdue, KubeletReports, NodeLost, ServerGone, Restart
    <2> QED
      BY <1>1, <1>2, <2>1
  <1> QED
    BY <1>3, <1>4, <1>5, <1>6, <1>7, <1>8, <1>9, <1>10, <1>11, Zenon DEF Next, Worker, World

\* Nothing brings a machine back, takes back its deletion, or forgets an early failure.
LEMMA AliveBefore ==
  ASSUME TypeOK, Next, Alive'
  PROVE  Alive
  <1>1. ~Absent.exists
    BY DEF Absent
  <1> QED
    BY <1>1, ObjStep, ZenonT(60) DEF Alive, Same

\* Where the worker needs the driver's id, and where it has deleted.
Late == {"update", "drain", "destroy"}

Last == {"node", "finish"}

\* What a step does to the ids that are at hand, and where the worker gets to.
LEMMA HandStep ==
  ASSUME TypeOK, Next
  PROVE  /\ w'.pid \in {w.pid, NoID} \/ (Reconcile /\ w'.pid = seen.pid)
         /\ w'.vm \in {w.vm, NoID} \/ AdoptVM \/ CreateVM
         /\ w'.at \in Late => w'.pid = w.pid /\ (w.pid # NoID \/ w.at \in Late)
         /\ w'.at \in Last => DestroyVM \/ PurgeVMs \/ (w.at \in Last /\ ~CreateVM)
         /\ seen'.pid \in {seen.pid, obj.pid}
  <1> DEFINE Done == /\ w'.pid \in {w.pid, NoID} \/ (Reconcile /\ w'.pid = seen.pid)
                     /\ w'.vm \in {w.vm, NoID} \/ AdoptVM \/ CreateVM
                     /\ w'.at \in Late => w'.pid = w.pid /\ (w.pid # NoID \/ w.at \in Late)
                     /\ w'.at \in Last
                           => DestroyVM \/ PurgeVMs \/ (w.at \in Last /\ ~CreateVM)
             Kept == w'.pid = w.pid /\ w'.vm = w.vm
  <1> HIDE DEF Done
  <1>0. /\ w \in WorkerRec
        /\ Idle.pid = NoID /\ Idle.vm = NoID /\ Idle.at = "idle"
    BY DEF TypeOK, WorkerRec, Idle
  <1>1. seen'.pid \in {seen.pid, obj.pid}
    <2>1. seen' \in {seen, obj}
      BY ZenonT(60) DEF Next, Worker, Collector, World, Reconcile, AdoptNode, UpdateMachineState,
         LabelMachine, StateUpdateFails, checkMachineTimeout, AddMachineFinalizers, MachineUpdate,
         CreationRefused, AdoptVM, CreateVM, RecordID, RecordStatus, DeleteUnrecorded, NotDeleted,
         StartDeletion, DrainNode, DestroyVM, PurgeVMs, DeleteNode, FinishDeletion, ListVMs,
         CheckVM, deleteOrphanVM, Deliver, DeleteMachine, MachineSetTerminates, DeletionOverdue,
         KubeletReports, NodeLost, ServerGone, Restart
    <2> QED
      BY <2>1
  <1> SUFFICES Done
    BY <1>1, SMT DEF Done
  <1>a. ASSUME w'.pid \in {w.pid, NoID}, w'.vm \in {w.vm, NoID}, w'.at \notin Last,
               w'.at \in Late => w'.pid = w.pid /\ (w.pid # NoID \/ w.at \in Late)
        PROVE  Done
    BY <1>a, Zenon DEF Done
  <1>2. CASE w' = Idle
    <2>1. w'.pid = NoID /\ w'.vm = NoID /\ w'.at \notin Last /\ w'.at \notin Late
      BY <1>0, <1>2 DEF Late, Last
    <2> QED
      BY <1>a, <2>1, Zenon
  <1>3. CASE Kept /\ w'.at \notin Last /\ w'.at \notin Late
    BY <1>a, <1>3, Zenon
  <1>4. ASSUME NEW s, Goto(s) PROVE Kept /\ w'.at = s
    BY <1>0, <1>4, Zenon DEF Goto, WorkerRec
  <1>5. ASSUME NEW s, NEW o, w' = [w EXCEPT !.at = s, !.m = o] PROVE Kept /\ w'.at = s
    BY <1>0, <1>5, Zenon DEF WorkerRec
  <1>6. CASE Reconcile
    <2>1. w'.pid = seen.pid /\ w'.vm = NoID /\ w'.at = "fetched"
      BY <1>6, Zenon DEF Reconcile, Idle
    <2>2. w'.at \notin Last /\ w'.at \notin Late
      BY <2>1 DEF Late, Last
    <2> QED
      BY <1>6, <2>1, <2>2, Zenon DEF Done
  <1>7. CASE AdoptNode \/ UpdateMachineState \/ LabelMachine \/ RecordID \/ RecordStatus
    <2> DEFINE S == {"adopted", "decide", "label", "status", "record"}
    <2>1. w' = Idle \/ (Kept /\ w'.at \in S)
      BY <1>4, <1>5, <1>7, ZenonT(60) DEF AdoptNode, UpdateMachineState, LabelMachine, RecordID,
         RecordStatus
    <2>2. w'.at \in S => w'.at \notin Last /\ w'.at \notin Late
      BY DEF Late, Last
    <2> QED
      BY <1>2, <1>3, <2>1, <2>2, Zenon
  <1>8. CASE \/ StateUpdateFails \/ checkMachineTimeout \/ MachineUpdate \/ CreationRefused
             \/ DeleteUnrecorded \/ NotDeleted \/ FinishDeletion \/ Restart
    <2>1. w' = Idle
      BY <1>8, ZenonT(60) DEF StateUpdateFails, checkMachineTimeout, MachineUpdate,
         CreationRefused, DeleteUnrecorded, NotDeleted, FinishDeletion, FailureNoted, Restart
    <2> QED
      BY <1>2, <2>1, Zenon
  <1>9. CASE AddMachineFinalizers
    <2>1. \/ w' = Idle
          \/ Kept /\ w'.at = "create"
          \/ Kept /\ w'.at = "update" /\ w.pid # NoID
      BY <1>4, <1>9, ZenonT(60) DEF AddMachineFinalizers
    <2>2. CASE Kept /\ w'.at = "create"
      <3>1. w'.at \notin Last /\ w'.at \notin Late
        BY <2>2 DEF Late, Last
      <3> QED
        BY <1>3, <2>2, <3>1, Zenon
    <2>3. CASE Kept /\ w'.at = "update" /\ w.pid # NoID
      <3>1. w'.at \notin Last
        BY <2>3 DEF Last
      <3> QED
        BY <1>a, <2>3, <3>1, Zenon
    <2> QED
      BY <1>2, <2>1, <2>2, <2>3, Zenon
  <1>10. CASE AdoptVM \/ CreateVM
    <2>1. \/ w' = Idle
          \/ w'.pid = w.pid /\ w'.at \in {"call", "record"}
      <3>1. ASSUME NEW i, \/ w' = [w EXCEPT !.at = "record", !.vm = i]
                          \/ w' = [w EXCEPT !.at = "record", !.named = TRUE, !.vm = i]
            PROVE  w'.pid = w.pid /\ w'.at = "record"
        BY <1>0, <3>1, Zenon DEF WorkerRec
      <3> QED
        BY <1>4, <1>10, <3>1, ZenonT(60) DEF AdoptVM, CreateVM
    <2>2. w'.at \in {"call", "record"} => w'.at \notin Last /\ w'.at \notin Late
      BY DEF Late, Last
    <2> QED
      BY <1>2, <1>10, <2>1, <2>2, Zenon DEF Done
  <1>11. CASE StartDeletion
    <2>1. ASSUME NEW s, NEW n, NEW o, w' = [w EXCEPT !.at = s, !.named = n, !.m = o]
          PROVE  Kept /\ w'.at = s
      BY <1>0, <2>1, Zenon DEF WorkerRec
    <2>2. Kept /\ w'.at = IF w.pid # NoID /\ w.m.node THEN "drain" ELSE "purge"
      BY <1>11, <2>1, Zenon DEF StartDeletion
    <2>3. Kept /\ w'.at \notin Last /\ (w'.at \in Late => w.pid # NoID)
      BY <2>2 DEF Late, Last
    <2> QED
      BY <1>a, <2>3, Zenon
  <1>12. CASE DrainNode \/ DeleteNode
    <2>1. \/ w' = Idle
          \/ Kept /\ w.at = "drain" /\ w'.at = "destroy"
          \/ Kept /\ w.at = "node" /\ w'.at = "finish"
      BY <1>4, <1>12, ZenonT(60) DEF DrainNode, DeleteNode, FailureNoted
    <2>2. CASE Kept /\ w.at = "drain" /\ w'.at = "destroy"
      <3>1. w'.at \notin Last /\ w.at \in Late
        BY <2>2 DEF Late, Last
      <3> QED
        BY <1>a, <2>2, <3>1, Zenon
    <2>3. CASE Kept /\ w.at = "node" /\ w'.at = "finish"
      <3>1. w.at # "call" /\ w.at \in Last /\ w'.at \notin Late
        BY <2>3 DEF Late, Last
      <3>2. ~CreateVM
        BY <3>1, Zenon DEF CreateVM
      <3> QED
        BY <2>3, <3>1, <3>2, Zenon DEF Done
    <2> QED
      BY <1>2, <2>1, <2>2, <2>3, Zenon
  <1>13. CASE DestroyVM \/ PurgeVMs
    <2>1. w' = Idle \/ (Kept /\ w'.at = "node")
      BY <1>4, <1>13, ZenonT(60) DEF DestroyVM, PurgeVMs, DeletionResult
    <2>2. w'.at = "node" => w'.at \notin Late
      BY DEF Late
    <2> QED
      BY <1>2, <1>13, <2>1, <2>2, Zenon DEF Done
  <1>14. CASE w' = w
    <2>1. w.at \in Last => w.at # "call"
      BY DEF Last
    <2>2. w.at \in Last => ~CreateVM
      BY <2>1, Zenon DEF CreateVM
    <2> QED
      BY <1>14, <2>2, Zenon DEF Done
  <1>15. Collector \/ World => w' = w \/ Restart
    BY ZenonT(60) DEF Collector, World, ListVMs, CheckVM, deleteOrphanVM, Deliver, DeleteMachine,
       MachineSetTerminates, DeletionOverdue, KubeletReports, NodeLost, ServerGone
  <1> QED
    BY <1>6, <1>7, <1>8, <1>9, <1>10, <1>11, <1>12, <1>13, <1>14, <1>15, Zenon DEF Next, Worker

\* But for Create, steps take away from the cloud.
LEMMA CloudStep ==
  ASSUME VMInv, Next, ~CreateVM
  PROVE  env' = env /\ Fits(env.class, cloud') /\ cloud'.vms \subseteq cloud.vms /\ Fewer
  <1>0. TypeOK /\ Fits(env.class, cloud)
    BY DEF VMInv
  <1>1. CASE Less
    BY <1>1 DEF Less
  <1>2. CASE env' = env /\ cloud' = cloud
    BY <1>0, <1>2 DEF Fewer
  <1>3. CASE Quiet \/ AdoptVM
    BY <1>2, <1>3, Zenon DEF Quiet, AdoptVM
  <1> QED
    BY <1>0, <1>1, <1>3, ReconcileQuiet, AdoptNodeQuiet, UpdateMachineStateQuiet,
       LabelQuiet, StateUpdateFailsQuiet, TimeoutQuiet, FinalizerQuiet, MachineUpdateQuiet,
       RefusedQuiet, RecordQuiet, NotDeletedQuiet, StartDeletionQuiet, DrainQuiet,
       DeleteNodeQuiet, FinishQuiet, DeleteUnrecordedLess, DestroyLess, PurgeLess,
       CollectorQuiet, CollectLess, WorldQuiet, ServerGoneLess, ZenonT(60)
       DEF Next, Worker, Collector

\* An id at hand is that of an instance that was made; machineDelete and machineUpdate use
\* one that is there; what was deleted does not come back before the finalizer is gone.
Known(i) ==
    \/ i = NoID
    \/ IF env.class.kind \in {"GCP", "Azure"} THEN i.vm = NamedVM ELSE i.vm \in 1..cloud.made

IdInv ==
    /\ Known(obj.pid) /\ Known(seen.pid) /\ Known(w.pid) /\ Known(w.vm)
    /\ w.at \in Late => w.pid # NoID
    /\ NothingLeft

\* What GetVMs lists.
LEMMA Listed ==
  ASSUME VMInv
  PROVE  /\ \A v \in GetVMs(env.class, cloud) :
               IF env.class.kind \in {"GCP", "Azure"} THEN v = NamedVM ELSE v \in cloud.vms
         /\ \A v \in GetVMs(env.class, cloud) : cloud.vms \subseteq {v}
         /\ GetVMs(env.class, cloud) = {}
               => cloud.vms = {} /\ (~env.class.dataDisks => cloud.parts = {})
  <1>0. env.class \in Class /\ Fits(env.class, cloud) /\ (\A a, b \in cloud.vms : a = b)
    BY EnvTypes DEF VMInv, TypeOK
  <1>1. CASE env.class.kind = "Azure"
    <2>1. GetVMs(env.class, cloud) = AzureGetVMs(cloud)
      BY <1>1 DEF GetVMs
    <2>2. /\ cloud.vms \subseteq {NamedVM}
          /\ cloud.parts \subseteq {"nic", "disk"} \cup (IF env.class.dataDisks THEN {"data"} ELSE {})
      BY <1>0, <1>1 DEF Fits, AzureDisks
    <2> QED
      BY <1>1, <2>1, <2>2 DEF AzureGetVMs, getRelevantVMs, getRelevantNICs, getRelevantDisks
  <1>2. CASE env.class.kind # "Azure"
    <2>1. GetVMs(env.class, cloud) = cloud.vms
      BY <1>0, <1>2 DEF Class, Kinds, GetVMs, AWSGetVMs, GCPGetVMs, AlicloudGetVMs, PacketGetVMs,
         OpenStackGetVMs
    <2>2. cloud.parts = {} /\ (env.class.kind = "GCP" => cloud.vms \subseteq {NamedVM})
      BY <1>0, <1>2 DEF Fits
    <2> QED
      BY <1>0, <1>2, <2>1, <2>2
  <1> QED
    BY <1>1, <1>2

LEMMA KnownKept ==
  ASSUME VMInv, env' = env, cloud'.made \in {cloud.made, cloud.made + 1}
  PROVE  \A i : Known(i) => Known(i)'
  <1>1. cloud.made \in Nat
    BY CloudFields DEF VMInv, TypeOK
  <1>2. 1..cloud.made \subseteq 1..cloud'.made
    BY <1>1
  <1> QED
    BY <1>2 DEF Known

\* Create: the new id is that of the instance made.
LEMMA CreateKnown ==
  ASSUME VMInv, IdInv, CreateVM
  PROVE  /\ env' = env /\ cloud'.made \in {cloud.made, cloud.made + 1}
         /\ Known(w.vm)'
  <1> DEFINE outcomes == IF cloud.made < MaxVMs THEN Create(env.class, cloud)
                         ELSE {Outcome(cloud, TRUE)}
  <1>id. PICK id : id = NewVM(env.class, cloud)
    OBVIOUS
  <1>0. /\ Fits(env.class, cloud) /\ w \in WorkerRec /\ env.class \in Class
        /\ cloud \in Cloud /\ cloud.vms = {} /\ env' = env
    BY EnvTypes DEF VMInv, TypeOK, WorkerRec, CreateVM
  <1>1. PICK r \in outcomes :
           /\ cloud' = r.cloud
           /\ w' = Idle \/ (~r.err /\ w' = [w EXCEPT !.at = "record", !.named = TRUE,
                                                     !.vm = Encoded(id)])
    BY <1>id, Zenon DEF CreateVM, Answer
  <1>2. /\ r.cloud.made \in {cloud.made, cloud.made + 1}
        /\ ~r.err => id \in r.cloud.vms
        /\ id \in r.cloud.vms => r.cloud.made = cloud.made + 1
    <2>1. CASE r \in Create(env.class, cloud)
      <3>1. Makes(cloud, id, r)
        BY <1>id, <1>0, <2>1, Creation
      <3> QED
        BY <1>0, <3>1 DEF Makes
    <2>2. CASE r = Outcome(cloud, TRUE)
      <3>1. r.cloud = cloud /\ r.err = TRUE
        BY <2>2, OutcomeFields, Zenon
      <3> QED
        BY <1>0, <3>1, Zenon
    <2> QED
      BY <1>1, <2>1, <2>2, Zenon
  <1> HIDE DEF outcomes
  <1>3. CASE w' = Idle
    BY <1>0, <1>1, <1>2, <1>3 DEF Idle, Known
  <1>4. CASE ~r.err /\ w' = [w EXCEPT !.at = "record", !.named = TRUE, !.vm = Encoded(id)]
    <2>1. w'.vm = Encoded(id)
      BY <1>0, <1>4, Zenon DEF WorkerRec
    <2>2. w'.vm.vm = id
      BY <2>1 DEF Encoded
    <2>3. cloud'.made = cloud.made + 1 /\ cloud.made \in Nat
      BY <1>0, <1>1, <1>2, <1>4, CloudFields
    <2>4. IF env.class.kind \in {"GCP", "Azure"} THEN id = NamedVM ELSE id \in 1..cloud'.made
      BY <1>id, <2>3 DEF NewVM
    <2> QED
      BY <1>0, <1>1, <1>2, <2>2, <2>4 DEF Known
  <1> QED
    BY <1>1, <1>3, <1>4

LEMMA AdoptKnown ==
  ASSUME VMInv, IdInv, AdoptVM
  PROVE  Known(w.vm)'
  <1>0. w \in WorkerRec /\ UNCHANGED <<env, cloud>> /\ Known(w.vm) /\ Fits(env.class, cloud)
    BY Zenon DEF VMInv, TypeOK, WorkerRec, AdoptVM, IdInv
  <1>1. ASSUME NEW v \in GetVMs(env.class, cloud),
               w' = [w EXCEPT !.at = "record", !.vm = ListedID(v)]
        PROVE  Known(w.vm)'
    <2>1. w'.vm = ListedID(v)
      BY <1>0, <1>1, Zenon DEF WorkerRec
    <2>2. w'.vm.vm = v
      BY <2>1 DEF ListedID
    <2>3. IF env.class.kind \in {"GCP", "Azure"} THEN v = NamedVM ELSE v \in cloud.vms
      BY Listed
    <2>4. env.class.kind \notin {"GCP", "Azure"} => cloud.vms \subseteq 1..cloud.made
      BY <1>0 DEF Fits
    <2> QED
      BY <1>0, <2>2, <2>3, <2>4 DEF Known
  <1>2. ASSUME Goto("call") PROVE Known(w.vm)'
    <2>1. w'.vm = w.vm
      BY <1>0, <1>2, Zenon DEF Goto, WorkerRec
    <2> QED
      BY <1>0, <2>1 DEF Known
  <1> QED
    BY <1>1, <1>2, Zenon DEF AdoptVM

\* A deletion that succeeded, of the only instance there may be.
LEMMA NothingAfter ==
  ASSUME VMInv, env' = env, NEW id, NEW r, Answer(Delete(env.class, cloud, id), r), ~r.err,
         env.class.kind = "Azure" => id = NamedVM, cloud.vms \subseteq {id}
  PROVE  NothingLeft'
  <1>1. TypeOK /\ env.class \in Class /\ Fits(env.class, cloud)
    BY EnvTypes DEF VMInv, TypeOK
  <1>2. r \in Delete(env.class, cloud, id) /\ cloud' = r.cloud
    BY <1>1, Answers
  <1>3. /\ cloud'.vms \subseteq cloud.vms /\ id \notin cloud'.vms \ cloud'.leaving
        /\ cloud'.parts = {} /\ cloud'.ports = 0
    BY <1>1, <1>2, Deletion DEF Shrinks
  <1>4. ~Resources(cloud')
    BY <1>3 DEF Resources
  <1> QED
    BY <1>4 DEF NothingLeft

LEMMA DestroyedAll ==
  ASSUME VMInv, IdInv, DestroyVM, w'.at \in Last
  PROVE  NothingLeft'
  <1>1. PICK r : Answer(Delete(env.class, cloud, w.pid.vm), r) /\ DeletionResult(r.err, "node")
    BY DEF DestroyVM
  <1>2. Idle.at \notin Last /\ w.at \in Late /\ env' = env
    BY DEF Idle, Last, Late, DestroyVM
  <1>3. ~r.err
    BY <1>1, <1>2, Zenon DEF DeletionResult
  <1>4. w.pid # NoID /\ Known(w.pid) /\ Fits(env.class, cloud) /\ cloud.made \in Nat
    BY <1>2, CloudFields DEF IdInv, VMInv, Fits
  <1>5. cloud'.made = cloud.made
    BY DestroyLess DEF Less, Fewer
  <1>6. CASE env.class.kind \in {"GCP", "Azure"}
    <2>1. w.pid.vm = NamedVM /\ cloud.vms \subseteq {NamedVM}
      BY <1>4, <1>6 DEF Known, Fits
    <2> QED
      BY <1>1, <1>2, <1>3, <2>1, NothingAfter
  <1>7. CASE env.class.kind \notin {"GCP", "Azure"} /\ cloud.made <= 1
    <2>1. w.pid.vm \in 1..cloud.made /\ cloud.vms \subseteq 1..cloud.made
      BY <1>4, <1>7 DEF Known, Fits
    <2>2. 1..cloud.made \subseteq {1}
      BY <1>4, <1>7
    <2>3. cloud.vms \subseteq {w.pid.vm}
      BY <2>1, <2>2
    <2>4. env.class.kind # "Azure"
      BY <1>7
    <2> QED
      BY <1>1, <1>2, <1>3, <2>3, <2>4, NothingAfter
  <1>8. CASE env.class.kind \notin {"GCP", "Azure"} /\ ~(cloud.made <= 1)
    BY <1>2, <1>5, <1>8 DEF NothingLeft
  <1> QED
    BY <1>6, <1>7, <1>8

LEMMA PurgedAll ==
  ASSUME VMInv, PurgeVMs, w'.at \in Last
  PROVE  NothingLeft'
  <1>1. Idle.at \notin Last /\ env' = env /\ Fits(env.class, cloud) /\ env.class \in Class
    BY EnvTypes DEF Idle, Last, PurgeVMs, VMInv, TypeOK
  <1>2. ~DeletionResult(TRUE, "node")
    BY <1>1, Zenon DEF DeletionResult
  <1>3. CASE GetVMs(env.class, cloud) = {} /\ UNCHANGED cloud
    <2>1. cloud.vms = {} /\ (~env.class.dataDisks => cloud.parts = {})
      BY <1>3, Listed
    <2>2. ~env.class.subnet => cloud.ports = 0
      BY <1>1 DEF Fits
    <2>3. ~env.class.subnet /\ ~env.class.dataDisks => ~Resources(cloud)
      BY <2>1, <2>2 DEF Resources
    <2> QED
      BY <1>1, <1>3, <2>3 DEF NothingLeft
  <1>4. ASSUME NEW v \in GetVMs(env.class, cloud), NEW r,
               Answer(Delete(env.class, cloud, v), r), DeletionResult(r.err, "node")
        PROVE  NothingLeft'
    <2>1. ~r.err
      BY <1>1, <1>4, Zenon DEF DeletionResult
    <2>2. cloud.vms \subseteq {v} /\ (env.class.kind = "Azure" => v = NamedVM)
      BY Listed
    <2> QED
      BY <1>1, <1>4, <2>1, <2>2, NothingAfter
  <1> QED
    BY <1>2, <1>3, <1>4, Zenon DEF PurgeVMs

LEMMA IdStep == VMInv /\ IdInv /\ [Next]_vars => IdInv'
  <1> SUFFICES ASSUME VMInv, IdInv, [Next]_vars PROVE IdInv'
    OBVIOUS
  <1>1. CASE UNCHANGED vars
    BY <1>1 DEF vars, IdInv, Known, NothingLeft
  <1>2. CASE Next
    <2>0. TypeOK /\ Absent.pid = NoID
      BY Zenon DEF VMInv, Absent
    <2>1. env' = env /\ cloud'.made \in {cloud.made, cloud.made + 1}
      BY <1>2, CloudStep, CreateKnown DEF Fewer
    <2>2. \A i : Known(i) => Known(i)'
      BY <2>1, KnownKept
    <2>3. Known(NoID)'
      BY DEF Known
    <2>4. Known(obj.pid)'
      <3>1. obj'.pid \in {obj.pid, NoID, w.vm, w.pid}
        BY <1>2, <2>0, ObjStep, Zenon DEF Same
      <3> QED
        BY <2>2, <2>3, <3>1, Zenon DEF IdInv
    <2>5. Known(seen.pid)'
      <3>1. seen'.pid \in {seen.pid, obj.pid}
        BY <1>2, <2>0, HandStep, Zenon
      <3> QED
        BY <2>2, <3>1, Zenon DEF IdInv
    <2>6. Known(w.pid)'
      <3>1. w'.pid \in {w.pid, NoID, seen.pid}
        BY <1>2, <2>0, HandStep, Zenon
      <3> QED
        BY <2>2, <2>3, <3>1, Zenon DEF IdInv
    <2>7. Known(w.vm)'
      <3>1. CASE w'.vm \in {w.vm, NoID}
        BY <2>2, <2>3, <3>1, Zenon DEF IdInv
      <3> QED
        BY <1>2, <2>0, <3>1, HandStep, AdoptKnown, CreateKnown, Zenon
    <2>8. w'.at \in Late => w'.pid # NoID
      BY <1>2, <2>0, HandStep, Zenon DEF IdInv
    <2>9. NothingLeft'
      <3>1. CASE w'.at \notin Last
        BY <3>1 DEF NothingLeft, Last
      <3>2. CASE w'.at \in Last /\ w.at \in Last /\ ~CreateVM
        <4>1. /\ cloud'.vms \subseteq cloud.vms /\ Fewer /\ env' = env
          BY <1>2, <3>2, CloudStep
        <4>2. Resources(cloud') => Resources(cloud)
          BY <4>1 DEF Resources, Fewer
        <4>3. cloud'.made = cloud.made
          BY <4>1 DEF Fewer
        <4> QED
          BY <3>2, <4>1, <4>2, <4>3 DEF IdInv, NothingLeft, Last
      <3> QED
        BY <1>2, <2>0, <3>1, <3>2, HandStep, DestroyedAll, PurgedAll, Zenon
    <2> QED
      BY <2>4, <2>5, <2>6, <2>7, <2>8, <2>9, Zenon DEF IdInv
  <1> QED
    BY <1>1, <1>2

LEMMA IdInvHolds == Spec => []IdInv
  <1>1. Init => IdInv
    <2> SUFFICES ASSUME Init PROVE IdInv
      OBVIOUS
    <2>1. obj.pid = NoID /\ seen.pid = NoID /\ w.pid = NoID /\ w.vm = NoID /\ w.at = "idle"
      BY Zenon DEF Init, Absent, Idle
    <2>2. w.at \notin Late /\ NothingLeft
      BY <2>1 DEF Late, NothingLeft
    <2> QED
      BY <2>1, <2>2, Zenon DEF IdInv, Known
  <1> QED
    BY <1>1, IdStep, VMInvHolds, PTL DEF Spec

\* When machineDelete goes on to the Node and the finalizer, nothing of the machine is left
\* at the cloud: for every driver, whatever failed before, and however old the id with which
\* the driver was made.
THEOREM DeletionLeavesNothing == Spec => []NothingLeft
  <1>1. IdInv => NothingLeft
    BY DEF IdInv
  <1> QED
    BY <1>1, IdInvHolds, PTL

\* VMs come from Create alone, and are numbered from one.
LEMMA NumberedStep ==
  ASSUME VMInv, Numbered, Next
  PROVE  Numbered'
  <1>0. TypeOK /\ Fits(env.class, cloud) /\ env.class \in Class /\ cloud \in Cloud
    BY EnvTypes DEF VMInv, TypeOK
  <1>1. 0 \notin cloud'.vms
    <2>1. CASE CreateVM
      <3>1. PICK r \in (IF cloud.made < MaxVMs THEN Create(env.class, cloud)
                        ELSE {Outcome(cloud, TRUE)}) : cloud' = r.cloud
        BY <2>1, Zenon DEF CreateVM, Answer
      <3>2. CASE r = Outcome(cloud, TRUE)
        BY <3>1, <3>2, OutcomeFields, ZenonT(60) DEF Numbered
      <3>3. CASE r \in Create(env.class, cloud)
        <4>1. Makes(cloud, NewVM(env.class, cloud), r)
          BY <1>0, <3>3, Creation
        <4>2. NewVM(env.class, cloud) # 0
          BY <1>0, CloudFields DEF NewVM, NamedVM
        <4> QED
          BY <3>1, <4>1, <4>2 DEF Makes, Numbered
      <3> QED
        BY <3>1, <3>2, <3>3, ZenonT(60)
    <2>2. CASE ~CreateVM
      BY <2>2, CloudStep DEF Numbered
    <2> QED
      BY <2>1, <2>2
  <1>2. node'.exists => node'.vm # 0
    <2>1. CASE KubeletReports
      BY <2>1 DEF KubeletReports, Numbered
    <2>2. CASE node' \in {node, NoNode}
      BY <2>2 DEF Numbered, NoNode
    <2>3. KubeletReports \/ node' \in {node, NoNode}
      BY ZenonT(60) DEF Next, Worker, Collector, World, Reconcile, AdoptNode, UpdateMachineState,
         LabelMachine, StateUpdateFails, checkMachineTimeout, AddMachineFinalizers, MachineUpdate,
         CreationRefused, AdoptVM, CreateVM, RecordID, RecordStatus, DeleteUnrecorded, NotDeleted, StartDeletion, DrainNode,
         DestroyVM, PurgeVMs, DeleteNode, FinishDeletion, ListVMs, CheckVM, deleteOrphanVM,
         Deliver, DeleteMachine, MachineSetTerminates, DeletionOverdue, NodeLost, ServerGone,
         Restart
    <2> QED
      BY <2>1, <2>2, <2>3
  <1> QED
    BY <1>1, <1>2 DEF Numbered

\* A step of the worker that keeps the id.
LEMMA GrowStep ==
  ASSUME AliveInv, seen.exists, UNCHANGED <<env, seen, col>>, \A i : Tracked(i) => Tracked(i)',
         Same(obj, obj'), Recorded(obj'), WorkerFits(w)'
  PROVE  AliveInv'
  <1>1. obj'.pid = obj.pid
    BY DEF Same
  <1>2. \A o : Matches(o)' <=> Matches(o)
    BY <1>1, Zenon DEF Matches, Recorded, Begun
  <1> QED
    BY <1>1, <1>2, Zenon DEF AliveInv

LEMMA SameStep ==
  ASSUME AliveInv, seen.exists, UNCHANGED <<env, cloud, seen, col>>, Same(obj, obj'),
         Recorded(obj'), WorkerFits(w')
  PROVE  AliveInv'
  <1>1. \A i : Tracked(i)' <=> Tracked(i)
    BY DEF Tracked, Its
  <1>2. \A o : Matches(o)' <=> Matches(o)
    BY Zenon DEF Matches, Recorded, Begun, Same
  <1>3. WorkerFits(w)'
    BY <1>1, <1>2, Zenon DEF WorkerFits
  <1> QED
    BY <1>1, <1>3, GrowStep

LEMMA EasySteps ==
  ASSUME NEW x, x.at \in {"idle", "fetched", "create", "call", "update"}
  PROVE  WorkerFits(x)
  BY DEF WorkerFits, Deleting

\* Once the machine has a VM, every write of the status will do.
LEMMA WithID ==
  ASSUME obj.pid # NoID, NEW o, Same(obj, o)
  PROVE  Recorded(o)
  BY DEF Recorded, Same

\* CrashLoopBackOff says nothing of a VM.
LEMMA CrashRecorded ==
  ASSUME obj \in MachineRec, Recorded(obj), NEW m,
         NEW o \in updateMachineStatus(m, "CrashLoopBackOff", FALSE)
  PROVE  Same(obj, o) /\ Recorded(o)
  <1>1. ASSUME NEW t, NEW n \in updateMachineStatus(m, "CrashLoopBackOff", t)
        PROVE  /\ Same(obj, n)
               /\ n = obj \/ (n.phase = "CrashLoopBackOff" /\ (n.timeout => t)
                              /\ n.node = obj.node)
    BY <1>1, StatusSame
  <1>2. /\ Same(obj, o)
        /\ o = obj \/ (o.phase = "CrashLoopBackOff" /\ ~o.timeout /\ o.node = obj.node)
    BY <1>1, ZenonT(60)
  <1> QED
    BY <1>2, Zenon DEF Recorded, Begun, Same

\* updateMachineState writes only to machines that have a VM.
LEMMA AdoptNodeAlive ==
  ASSUME VMInv, Numbered, Alive, AliveInv, AdoptNode
  PROVE  AliveInv'
  <1>0. /\ obj \in MachineRec /\ w \in WorkerRec /\ seen.exists /\ Matches(seen)
        /\ UNCHANGED <<env, cloud, seen, col>>
        /\ obj' = [obj EXCEPT !.node = TRUE] /\ w' = [w EXCEPT !.at = "adopted", !.m = seen]
    BY Zenon DEF VMInv, TypeOK, AliveInv, AdoptNode, WorkerRec
  <1>1. obj.pid # NoID /\ seen.pid # NoID
    BY DEF AdoptNode, AdoptsNode, Numbered, NoID
  <1>2. Same(obj, obj')
    BY <1>0, WriteFields, Zenon
  <1>3. w'.at = "adopted" /\ w'.m = seen
    BY <1>0, Zenon DEF WorkerRec
  <1>4. WorkerFits(w')
    BY <1>0, <1>1, <1>3 DEF WorkerFits, Deleting
  <1>5. Recorded(obj')
    BY <1>1, <1>2, WithID
  <1> QED
    BY <1>0, <1>2, <1>4, <1>5, SameStep

LEMMA LabelAlive ==
  ASSUME VMInv, Alive, AliveInv, LabelMachine
  PROVE  AliveInv'
  <1>0. /\ w \in WorkerRec /\ UNCHANGED <<env, cloud, seen, col, obj>> /\ w.at = "label"
        /\ Recorded(obj) /\ seen.exists /\ WorkerFits(w) /\ Idle.at = "idle"
    BY ConstantTypes, Zenon DEF VMInv, TypeOK, AliveInv, LabelMachine, WorkerRec
  <1>1. Same(obj, obj') /\ Recorded(obj')
    BY <1>0 DEF Same
  <1>2. CASE Goto("decide")
    <2>1. w'.at = "decide" /\ w'.m = w.m
      BY <1>0, <1>2, Zenon DEF Goto, WorkerRec
    <2>2. WorkerFits(w')
      BY <1>0, <2>1 DEF WorkerFits, Deleting
    <2> QED
      BY <1>0, <1>1, <2>2, SameStep
  <1>3. CASE w' = Idle
    <2>1. WorkerFits(w')
      BY <1>0, <1>3, EasySteps
    <2> QED
      BY <1>0, <1>1, <2>1, SameStep
  <1> QED
    BY <1>2, <1>3, Zenon DEF LabelMachine

LEMMA UpdateAlive ==
  ASSUME VMInv, Alive, AliveInv, UpdateMachineState
  PROVE  AliveInv'
  <1>0. /\ obj \in MachineRec /\ seen.exists /\ Matches(seen)
        /\ w \in WorkerRec /\ WorkerFits(w)
        /\ UNCHANGED <<env, cloud, seen, col>>
    <2>1. w.at \in {"fetched", "adopted"}
      BY Zenon DEF UpdateMachineState
    <2>2. seen.exists
      BY <2>1 DEF AliveInv
    <2> QED
      BY <2>2, Zenon DEF VMInv, TypeOK, AliveInv, UpdateMachineState, WorkerRec
  <1>1. ASSUME NEW s, NEW o, w' = [w EXCEPT !.at = s, !.m = o]
        PROVE  w'.at = s /\ w'.m = o
    BY <1>0, <1>1, Zenon DEF WorkerRec
  <1>2. Same(obj, obj) /\ Recorded(obj)
    BY DEF Same, AliveInv
  <1>a. Matches(AtHand)
    BY <1>0 DEF AtHand, WorkerFits
  <1>3. ASSUME UNCHANGED obj, NEW o, Matches(o), w' = [w EXCEPT !.at = "decide", !.m = o]
        PROVE  AliveInv'
    <2>1. w'.at = "decide" /\ w'.m = o
      BY <1>1, <1>3, Zenon
    <2>2. WorkerFits(w')
      BY <1>3, <2>1 DEF WorkerFits, Deleting
    <2> QED
      BY <1>0, <1>2, <1>3, <2>2, SameStep
  <1>4. ASSUME Same(obj, obj'), obj.pid # NoID,
               NEW s \in {"decide", "label"}, w' = [w EXCEPT !.at = s, !.m = obj']
        PROVE  AliveInv'
    <2>1. Recorded(obj')
      BY <1>4, WithID
    <2>2. Matches(obj')
      BY <1>4, <2>1 DEF Matches, Same, Alive
    <2>3. w'.at = s /\ w'.m = obj'
      BY <1>1, <1>4, Zenon
    <2>4. WorkerFits(w')
      BY <1>4, <2>2, <2>3 DEF WorkerFits, Deleting
    <2> QED
      BY <1>0, <1>4, <2>1, <2>4, SameStep
  <1>5. CASE ~NodeKnown /\ UNCHANGED obj /\ w' = [w EXCEPT !.at = "decide", !.m = seen]
    BY <1>0, <1>3, <1>5, Zenon
  <1>6. CASE UNCHANGED obj /\ w' = [w EXCEPT !.at = "decide", !.m = AtHand]
    BY <1>a, <1>3, <1>6, Zenon
  <1>7. CASE /\ WentMissing(AtHand) /\ obj' = WithStatus(obj, "Unknown", TRUE)
             /\ w' = [w EXCEPT !.at = "decide", !.m = obj']
    <2>1. obj.pid # NoID
      BY <1>a, <1>7 DEF Matches, Recorded, Begun, WentMissing
    <2>2. Same(obj, obj')
      BY <1>0, <1>7, StatusFields, Zenon
    <2>3. "decide" \in {"decide", "label"}
      OBVIOUS
    <2> QED
      BY <1>4, <1>7, <2>1, <2>2, <2>3, Zenon
  <1>8. CASE /\ NodeKnown /\ obj' = updateMachineConditions(obj)
             /\ w' = [w EXCEPT !.at = "label", !.m = obj']
    <2>1. obj.pid # NoID
      <3>1. CASE w.at = "adopted"
        BY <1>0, <3>1 DEF WorkerFits, Matches
      <3>2. CASE seen.node
        BY <1>0, <3>2 DEF Matches, Recorded, Begun
      <3> QED
        BY <1>8, <3>1, <3>2 DEF NodeKnown
    <2>2. Same(obj, obj')
      BY <1>0, <1>8, ConditionsSame, Zenon
    <2>3. "label" \in {"decide", "label"}
      OBVIOUS
    <2> QED
      BY <1>4, <1>8, <2>1, <2>2, <2>3, Zenon
  <1> QED
    BY <1>5, <1>6, <1>7, <1>8, ZenonT(60) DEF UpdateMachineState

\* The steps of the worker that end the reconcile or go on to machineCreate.
LEMMA EarlyAlive ==
  ASSUME VMInv, Alive, AliveInv, Alive',
         \/ Reconcile \/ StateUpdateFails \/ checkMachineTimeout \/ AddMachineFinalizers
         \/ CreationRefused
  PROVE  AliveInv'
  <1>0. /\ obj \in MachineRec /\ w \in WorkerRec /\ "create" \in Steps /\ "update" \in Steps
        /\ Idle.at = "idle" /\ [Idle EXCEPT !.at = "fetched", !.pid = seen.pid].at = "fetched"
        /\ Same(obj, obj) /\ Recorded(obj)
    BY ConstantTypes DEF VMInv, TypeOK, AliveInv, WorkerRec, Steps, Same, Idle
  <1>1. UNCHANGED <<env, cloud, seen, col>> /\ seen.exists
    BY Zenon DEF Reconcile, StateUpdateFails, checkMachineTimeout, AddMachineFinalizers,
       CreationRefused, AliveInv
  <1>2. ASSUME Goto("create") \/ Goto("update") \/ w' = Idle PROVE WorkerFits(w')
    <2>1. w'.at \in {"idle", "create", "update"}
      BY <1>0, <1>2, GotoTypes
    <2> QED
      BY <2>1, EasySteps
  <1>3. CASE Reconcile \/ StateUpdateFails
    <2>1. w'.at \in {"idle", "fetched"} /\ obj' = obj
      BY <1>0, <1>3, ZenonT(60) DEF Reconcile, StateUpdateFails
    <2>2. WorkerFits(w')
      BY <2>1, EasySteps
    <2> QED
      BY <1>0, <1>1, <2>1, <2>2, SameStep
  <1>4. CASE checkMachineTimeout
    <2>1. obj.pid # NoID
      BY <1>4, Zenon DEF checkMachineTimeout, AliveInv, WorkerFits, Matches, Recorded, Begun
    <2>2. Same(obj, obj')
      BY <1>0, <1>4, StatusSame, ZenonT(60) DEF checkMachineTimeout
    <2>3. w' = Idle
      BY <1>4 DEF checkMachineTimeout
    <2> QED
      BY <1>1, <1>2, <2>1, <2>2, <2>3, WithID, SameStep
  <1>5. CASE AddMachineFinalizers
    <2>1. obj' \in {obj, [obj EXCEPT !.fin = TRUE]}
      BY <1>5, Zenon DEF AddMachineFinalizers, WithFinalizer
    <2>2. Same(obj, obj') /\ Recorded(obj')
      <3> DEFINE n == [obj EXCEPT !.fin = TRUE]
      <3>1. Same(obj, n) /\ n.phase = obj.phase /\ n.timeout = obj.timeout /\ n.node = obj.node
        BY <1>0, WriteFields, Zenon
      <3> HIDE DEF n
      <3>2. Recorded(n)
        BY <1>0, <3>1, Zenon DEF Recorded, Begun, Same
      <3> QED
        BY <1>0, <2>1, <3>1, <3>2, ZenonT(60) DEF n
    <2>3. Goto("create") \/ Goto("update") \/ w' = Idle
      BY <1>5, Zenon DEF AddMachineFinalizers
    <2> QED
      BY <1>1, <1>2, <2>2, <2>3, SameStep
  <1>6. CASE CreationRefused
    <2>1. /\ \/ obj' \in updateMachineStatus(w.m, "Failed", FALSE)
             \/ obj' \in updateMachineStatus(w.m, "CrashLoopBackOff", FALSE)
          /\ w' = Idle
      BY <1>6, Zenon DEF CreationRefused
    <2>2. CASE obj' \in updateMachineStatus(w.m, "CrashLoopBackOff", FALSE)
      <3>1. Same(obj, obj') /\ Recorded(obj')
        BY <1>0, <2>2, CrashRecorded, ZenonT(60)
      <3> QED
        BY <1>1, <1>2, <2>1, <3>1, SameStep
    <2>3. CASE obj' \in updateMachineStatus(w.m, "Failed", FALSE)
      <3>1. Same(obj, obj') /\ (obj' = obj \/ (obj.pid = NoID => obj'.early))
        BY <1>0, <2>3, StatusSame, ZenonT(60)
      <3>2. Recorded(obj')
        BY <1>0, <3>1, WithID DEF Alive
      <3>3. WorkerFits(w')
        BY <1>2, <2>1, Zenon
      <3> QED
        BY <1>1, <3>1, <3>2, <3>3, SameStep, Zenon
    <2> QED
      BY <2>1, <2>2, <2>3, Zenon
  <1> QED
    BY <1>3, <1>4, <1>5, <1>6, Zenon

\* machineUpdate writes the id that is there.
LEMMA MachineUpdateAlive ==
  ASSUME VMInv, IdInv, Alive, AliveInv, PidFits, MachineUpdate
  PROVE  AliveInv'
  <1>1. w.at = "update" /\ w.pid # NoID
    BY DEF MachineUpdate, IdInv, Late
  <1>0. /\ obj \in MachineRec /\ UNCHANGED <<env, cloud, seen, col>> /\ w' = Idle
        /\ obj' = [obj EXCEPT !.pid = w.pid] /\ w.pid = obj.pid /\ Idle.at = "idle"
        /\ obj.pid # NoID
    BY <1>1, ConstantTypes, Zenon DEF VMInv, TypeOK, MachineUpdate, PidFits, Alive
  <1>2. seen.exists
    BY <1>1 DEF AliveInv
  <1>3. Same(obj, obj')
    <2>1. /\ obj'.pid = w.pid /\ obj'.exists = obj.exists
          /\ obj'.deleting = obj.deleting /\ obj'.early = obj.early
      BY <1>0, WriteFields, Zenon
    <2> QED
      BY <1>0, <2>1 DEF Same
  <1>4. Recorded(obj')
    BY <1>0, <1>3, WithID, Zenon
  <1>5. WorkerFits(w')
    BY <1>0, EasySteps
  <1> QED
    BY <1>0, <1>2, <1>3, <1>4, <1>5, SameStep

\* The VM listed is adopted, or one is made where none is recorded.
LEMMA AdoptAlive ==
  ASSUME VMInv, Alive, AliveInv, AdoptVM
  PROVE  AliveInv'
  <1>0. /\ w \in WorkerRec /\ "call" \in Steps /\ seen.exists
        /\ UNCHANGED <<env, cloud, seen, col, obj>> /\ Same(obj, obj') /\ Recorded(obj')
    BY Zenon DEF VMInv, TypeOK, WorkerRec, Steps, AdoptVM, AliveInv, Same
  <1>1. ASSUME NEW v \in GetVMs(env.class, cloud),
               w' = [w EXCEPT !.at = "record", !.vm = ListedID(v)]
        PROVE  WorkerFits(w')
    <2>1. Tracked(ListedID(v))
      BY ListedTracked DEF Alive
    <2>2. w'.at = "record" /\ w'.vm = ListedID(v)
      BY <1>0, <1>1, Zenon DEF WorkerRec
    <2> QED
      BY <2>1, <2>2 DEF WorkerFits, Deleting
  <1>2. ASSUME Goto("call") PROVE WorkerFits(w')
    <2>1. w'.at = "call"
      BY <1>0, <1>2, GotoTypes
    <2> QED
      BY <2>1 DEF WorkerFits, Deleting
  <1>3. WorkerFits(w')
    BY <1>1, <1>2, Zenon DEF AdoptVM
  <1> QED
    BY <1>0, <1>3, SameStep

LEMMA CreateAlive ==
  ASSUME VMInv, Alive, AliveInv, CreateVM
  PROVE  AliveInv'
  <1> DEFINE outcomes == IF cloud.made < MaxVMs THEN Create(env.class, cloud)
                         ELSE {Outcome(cloud, TRUE)}
  <1>id. PICK id : id = NewVM(env.class, cloud)
    OBVIOUS
  <1>0. /\ obj \in MachineRec /\ w \in WorkerRec /\ seen.exists /\ cloud.vms = {}
        /\ Fits(env.class, cloud) /\ env.class \in Class
        /\ UNCHANGED <<env, seen, col>> /\ Recorded(obj) /\ Same(obj, obj)
    BY EnvTypes DEF VMInv, TypeOK, WorkerRec, CreateVM, AliveInv, Same
  <1>1. PICK r \in outcomes :
           /\ Answer(outcomes, r)
           /\ IF r.err
              THEN /\ obj' \in updateMachineStatus(w.m, "CrashLoopBackOff", FALSE)
                   /\ w' = Idle
              ELSE /\ w' = [w EXCEPT !.at = "record", !.named = TRUE, !.vm = Encoded(id)]
                   /\ UNCHANGED obj
    BY <1>id, Zenon DEF CreateVM
  <1>2. cloud' = r.cloud
    BY <1>1 DEF Answer
  <1>3. ~r.err => id \in r.cloud.vms
    <2>1. CASE r \in Create(env.class, cloud)
      BY <1>id, <1>0, <2>1, Creation DEF Makes
    <2>2. CASE r = Outcome(cloud, TRUE)
      BY <2>2, OutcomeFields, ZenonT(60)
    <2> QED
      BY <1>1, <2>1, <2>2, Zenon
  <1>4. \A i : Tracked(i) => Tracked(i)'
    BY <1>0 DEF Tracked, Its
  <1>5. CASE r.err
    <2>1. Same(obj, obj') /\ Recorded(obj')
      BY <1>0, <1>1, <1>5, CrashRecorded, ZenonT(60)
    <2>2. WorkerFits(w)'
      BY <1>1, <1>5, SMTT(30) DEF WorkerFits, Idle, Deleting
    <2> QED
      BY <1>0, <1>4, <2>1, <2>2, GrowStep
  <1>6. CASE ~r.err
    <2> HIDE DEF outcomes
    <2>1. w'.at = "record" /\ w'.vm = Encoded(id) /\ obj' = obj
      BY <1>0, <1>1, <1>6, Zenon DEF WorkerRec
    <2>2. Encoded(id).vm = id /\ ~Encoded(id).bare
      BY DEF Encoded
    <2>3. Its(id)'
      BY <1>id, <1>0, <1>2, <1>3, <1>6 DEF Its, NewVM
    <2>4. Tracked(Encoded(id))'
      BY <2>2, <2>3 DEF Tracked
    <2>5. WorkerFits(w)'
      BY <2>1, <2>4 DEF WorkerFits, Deleting
    <2> QED
      BY <1>0, <1>4, <2>1, <2>5, GrowStep, Zenon
  <1> QED
    BY <1>5, <1>6

\* The id is recorded: there was none, or this one.
LEMMA RecordAlive ==
  ASSUME VMInv, Numbered, Alive, AliveInv, RecordID
  PROVE  AliveInv'
  <1>0. /\ obj \in MachineRec /\ w \in WorkerRec /\ "status" \in Steps
        /\ obj.pid \in ProviderID /\ w.vm \in ProviderID
    BY DEF VMInv, TypeOK, WorkerRec, MachineRec, Steps
  <1>1. /\ UNCHANGED <<env, cloud, seen, col>> /\ seen.exists /\ Tracked(w.vm)
        /\ Matches(seen)
    BY DEF RecordID, AliveInv, WorkerFits
  <1>2. w.vm # NoID /\ (obj.pid # NoID => obj.pid = w.vm)
    BY <1>0, <1>1, TrackedNonzero, TrackedUnique DEF AliveInv
  <1>3. obj'.pid = w.vm /\ obj'.exists = obj.exists /\ obj'.deleting = obj.deleting
        /\ obj' \in MachineRec
    BY <1>0, WriteFields, ObjTypes, ZenonT(60) DEF RecordID
  <1>4. w'.at = "status" /\ w'.m = obj' /\ w'.vm = w.vm
    BY <1>0, <1>3 DEF RecordID, WorkerRec
  <1>5. \A i : Tracked(i)' <=> Tracked(i)
    BY <1>1 DEF Tracked, Its
  <1>6. Recorded(obj') /\ Matches(seen)' /\ Matches(w.m)'
    BY <1>1, <1>2, <1>3, <1>4, Zenon DEF Matches, Recorded, Begun, Alive
  <1>7. WorkerFits(w)'
    BY <1>1, <1>3, <1>4, <1>5, <1>6 DEF WorkerFits, Deleting
  <1> QED
    BY <1>1, <1>3, <1>5, <1>6, <1>7 DEF AliveInv

LEMMA RecordStatusAlive ==
  ASSUME VMInv, Numbered, Alive, AliveInv, RecordStatus
  PROVE  AliveInv'
  <1>0. /\ obj \in MachineRec /\ w \in WorkerRec /\ "record" \in Steps
        /\ UNCHANGED <<env, cloud, seen, col>> /\ seen.exists
        /\ Tracked(w.vm) /\ w.m.pid = w.vm /\ Same(obj, obj) /\ Recorded(obj)
    BY DEF VMInv, TypeOK, WorkerRec, RecordStatus, AliveInv, WorkerFits, Steps, Same
  <1>1. CASE obj = w.m
    <2>1. obj.pid # NoID
      BY <1>0, <1>1, TrackedNonzero
    <2>2. Same(obj, [obj EXCEPT !.node = w.named, !.phase = "Pending", !.timeout = TRUE])
      BY <1>0, WriteFields, Zenon
    <2>3. Same(obj, obj') /\ w' = Idle
      BY <1>1, <2>2, Zenon DEF RecordStatus
    <2>4. Recorded(obj')
      BY <2>1, <2>3, WithID
    <2>5. WorkerFits(w')
      BY <2>3, EasySteps, ConstantTypes
    <2> QED
      BY <1>0, <2>3, <2>4, <2>5, SameStep, Zenon
  <1>2. CASE obj # w.m
    <2>1. obj' = obj /\ Goto("record")
      BY <1>2 DEF RecordStatus
    <2>2. w'.at = "record" /\ w'.vm = w.vm
      BY <1>0, <2>1 DEF Goto, WorkerRec
    <2>3. WorkerFits(w')
      BY <1>0, <2>2 DEF WorkerFits, Deleting
    <2> QED
      BY <1>0, <2>1, <2>3, SameStep
  <1> QED
    BY <1>1, <1>2

\* The worker deletes nothing of a machine that is not being deleted.
LEMMA NoDeletion ==
  ASSUME Alive, AliveInv
  PROVE  ~(\/ DeleteUnrecorded \/ NotDeleted \/ StartDeletion \/ DrainNode \/ DestroyVM
           \/ PurgeVMs \/ DeleteNode \/ FinishDeletion)
  <1>1. ~DeleteUnrecorded
    BY DEF Alive, DeleteUnrecorded
  <1>2. ~NotDeleted /\ ~StartDeletion
    <2>1. w.at = "decide" => ~w.m.deleting
      BY DEF AliveInv, WorkerFits, Matches
    <2> QED
      BY <2>1, Zenon DEF NotDeleted, StartDeletion
  <1>3. w.at \notin Deleting
    BY DEF AliveInv, WorkerFits
  <1>4. ~DrainNode /\ ~DestroyVM /\ ~PurgeVMs /\ ~DeleteNode /\ ~FinishDeletion
    BY <1>3, ZenonT(60) DEF Deleting, DrainNode, DestroyVM, PurgeVMs, DeleteNode, FinishDeletion
  <1> QED
    BY <1>1, <1>2, <1>4

\* The collector condemns no VM: the one it finds is the machine's, and the lister's copy,
\* however old, has its id or shows a machine still being created.
LEMMA CollectorAlive ==
  ASSUME VMInv, Alive, AliveInv, Collector
  PROVE  AliveInv'
  <1>1. ASSUME NEW v, v \in GetVMs(env.class, cloud)
        PROVE  PassedOver(v)
    <2>1. seen.exists /\ Matches(seen)
      BY <1>1, NothingListed DEF AliveInv
    <2>2. CASE seen.phase \in {"", "CrashLoopBackOff"}
      BY <2>1, <2>2, Zenon DEF PassedOver
    <2>3. CASE seen.phase \notin {"", "CrashLoopBackOff"}
      <3>1. seen.pid = obj.pid /\ obj.pid # NoID
        BY <2>1, <2>3, Zenon DEF Matches, Recorded, Begun
      <3>2. Tracked(obj.pid) /\ obj.pid \in ProviderID
        BY <3>1 DEF AliveInv, VMInv, TypeOK, MachineRec
      <3>3. Tracked(ListedID(v)) /\ ListedID(v) \in ProviderID
        BY <1>1, ListedTracked DEF Alive
      <3>4. obj.pid = ListedID(v)
        BY <3>2, <3>3, TrackedUnique
      <3> QED
        BY <2>1, <3>1, <3>4 DEF PassedOver
    <2> QED
      BY <2>2, <2>3, Zenon
  <1>2. col'.at # "kill" /\ UNCHANGED <<env, obj, seen, cloud, w>>
    <2>1. CASE ListVMs
      BY <2>1, Zenon DEF ListVMs, VMInv, TypeOK
    <2>2. CASE CheckVM
      <3>1. PICK v \in col.todo :
               \/ col' = [at |-> IF col.todo = {v} THEN "idle" ELSE "check",
                          todo |-> col.todo \ {v}, vm |-> NoID]
               \/ ~(PassedOver(v) \/ v \notin GetVMs(env.class, cloud))
        BY <2>2, Zenon DEF CheckVM
      <3>2. col'.at # "kill"
        <4>1. col' = [at |-> IF col.todo = {v} THEN "idle" ELSE "check",
                      todo |-> col.todo \ {v}, vm |-> NoID]
          BY <1>1, <3>1, Zenon
        <4> QED
          BY <4>1
      <3> QED
        BY <2>2, <3>2, Zenon DEF CheckVM
    <2>3. ~deleteOrphanVM
      BY DEF deleteOrphanVM, AliveInv
    <2> QED
      BY <2>1, <2>2, <2>3 DEF Collector
  <1>3. (\A i : Tracked(i)' <=> Tracked(i)) /\ (\A o : Matches(o)' <=> Matches(o))
    BY <1>2 DEF Tracked, Its, Matches, Recorded, Begun
  <1>4. WorkerFits(w)'
    BY <1>2, <1>3, Zenon DEF AliveInv, WorkerFits
  <1> QED
    BY <1>2, <1>3, <1>4, Zenon DEF AliveInv

\* The informer, the user, the kubelet, a restart.
LEMMA WorldAlive ==
  ASSUME VMInv, Alive, AliveInv, Alive', World \/ UNCHANGED vars
  PROVE  AliveInv'
  <1>0. obj \in MachineRec /\ ~Absent.exists
    BY DEF VMInv, TypeOK, Absent
  <1>1. ~DeleteMachine
    <2>1. [obj EXCEPT !.deleting = TRUE].deleting
      BY <1>0, WriteFields, Zenon
    <2> QED
      BY <1>0, <2>1, Zenon DEF DeleteMachine, Alive
  <1>2. ~ServerGone
    BY DEF ServerGone, Alive
  <1>3. UNCHANGED <<env, cloud>>
    BY <1>1, <1>2, ZenonT(60) DEF World, Deliver, MachineSetTerminates, DeletionOverdue,
       KubeletReports, NodeLost, Restart, vars
  <1>4. Same(obj, obj') /\ Recorded(obj')
    <2>1. CASE MachineSetTerminates
      <3>1. obj' = WithStatus(obj, "Terminating", FALSE)
        BY <2>1, Zenon DEF MachineSetTerminates
      <3>2. Same(obj, obj') /\ (obj.pid = NoID => obj'.early)
        BY <1>0, <3>1, StatusFields, ZenonT(60)
      <3> QED
        BY <3>2, WithID DEF Alive
    <2>2. CASE ~MachineSetTerminates
      <3>1. obj' = obj
        BY <1>1, <1>2, <2>2, ZenonT(60) DEF World, Deliver, DeletionOverdue, KubeletReports,
           NodeLost, Restart, vars
      <3> QED
        BY <3>1 DEF Same, AliveInv
    <2> QED
      BY <2>1, <2>2
  <1>5. (\A i : Tracked(i)' <=> Tracked(i)) /\ (\A o : Matches(o)' <=> Matches(o))
    BY <1>3, <1>4, Zenon DEF Tracked, Its, Matches, Recorded, Begun, Same
  <1>6. seen' = seen \/ (seen' = obj /\ obj' = obj)
    BY <1>1, <1>2, ZenonT(60) DEF World, Deliver, MachineSetTerminates, DeletionOverdue,
       KubeletReports, NodeLost, Restart, vars
  <1>7. Matches(obj) /\ obj.exists
    BY DEF AliveInv, Alive, Matches
  <1>8. UNCHANGED <<w, col>> \/ (w' = Idle /\ col' = Resting)
    BY <1>1, <1>2, ZenonT(60) DEF World, Deliver, MachineSetTerminates, DeletionOverdue,
       KubeletReports, NodeLost, Restart, vars
  <1>9. WorkerFits(w)' /\ (w'.at = "idle" \/ w' = w) /\ col'.at # "kill"
    <2>1. CASE UNCHANGED <<w, col>>
      BY <1>5, <2>1, Zenon DEF AliveInv, WorkerFits
    <2>2. CASE w' = Idle /\ col' = Resting
      BY <2>2 DEF WorkerFits, Deleting, Idle, Resting
    <2> QED
      BY <1>8, <2>1, <2>2
  <1>10. /\ seen'.exists \/ (w'.at = "idle" /\ cloud' = EmptyCloud)
         /\ seen'.exists => Matches(seen)'
    BY <1>3, <1>5, <1>6, <1>7, <1>9, Zenon DEF AliveInv
  <1>11. obj'.pid # NoID => Tracked(obj.pid)'
    BY <1>4, <1>5 DEF AliveInv, Same
  <1> QED
    BY <1>4, <1>9, <1>10, <1>11, Zenon DEF AliveInv

\* The id the driver was made with.
LEMMA PidStep ==
  ASSUME VMInv, IdInv, Numbered, Alive, AliveInv, PidFits, Next, Alive'
  PROVE  PidFits'
  <1>0. TypeOK /\ ~Absent.exists /\ obj'.exists
    BY DEF VMInv, Absent, Alive
  <1>1. obj.pid # NoID => obj'.pid = obj.pid
    <2>1. CASE RecordID /\ obj'.pid = w.vm
      <3>1. Tracked(w.vm) /\ w.vm \in ProviderID /\ obj.pid \in ProviderID
        BY <2>1 DEF RecordID, AliveInv, WorkerFits, VMInv, TypeOK, MachineRec
      <3> QED
        BY <2>1, <3>1, TrackedUnique DEF AliveInv
    <2>2. CASE MachineUpdate /\ obj'.pid = w.pid
      <3>1. w.pid # NoID
        BY <2>2 DEF MachineUpdate, IdInv, Late
      <3> QED
        BY <2>2, <3>1 DEF PidFits
    <2>3. CASE Same(obj, obj')
      BY <2>3 DEF Same
    <2>4. ~obj'.deleting
      BY DEF Alive
    <2> QED
      BY <1>0, <2>1, <2>2, <2>3, <2>4, ObjStep, Zenon
  <1>2. CASE w'.pid \in {w.pid, NoID}
    BY <1>1, <1>2 DEF PidFits
  <1>3. CASE Reconcile /\ w'.pid = seen.pid
    <2>1. seen.exists
      BY <1>3 DEF Reconcile
    <2> QED
      BY <1>1, <1>3, <2>1 DEF AliveInv, Matches, PidFits
  <1> QED
    BY <1>0, <1>2, <1>3, HandStep, Zenon

LEMMA BackInit == Init => BackInv
  <1> SUFFICES ASSUME Init PROVE BackInv
    OBVIOUS
  <1>1. /\ obj.pid = NoID /\ ~Begun(obj)
        /\ cloud = EmptyCloud /\ w.at = "idle" /\ col.at = "idle" /\ ~seen.exists
        /\ ~node.exists /\ w.pid = NoID
    BY Zenon DEF Init, Absent, Begun, Idle, Resting, NoNode
  <1>2. cloud.vms = {}
    BY <1>1 DEF EmptyCloud
  <1> QED
    BY <1>1, <1>2 DEF BackInv, Numbered, AliveInv, PidFits, Recorded, WorkerFits, Deleting

LEMMA BackStep == VMInv /\ IdInv /\ BackInv /\ [Next]_vars => BackInv'
  <1> SUFFICES ASSUME VMInv, IdInv, BackInv, [Next]_vars PROVE BackInv'
    OBVIOUS
  <1>1. Numbered'
    <2>1. CASE UNCHANGED vars
      BY <2>1 DEF vars, BackInv, Numbered
    <2> QED
      BY <2>1, NumberedStep DEF BackInv
  <1>2. ASSUME Alive' PROVE AliveInv' /\ PidFits'
    <2>1. Alive
      <3>1. CASE UNCHANGED vars
        BY <1>2, <3>1 DEF vars, Alive
      <3> QED
        BY <1>2, <3>1, AliveBefore DEF VMInv
    <2>2. AliveInv /\ PidFits /\ Numbered
      BY <2>1 DEF BackInv
    <2>3. CASE Worker
      BY <1>2, <2>1, <2>2, <2>3, AdoptNodeAlive, UpdateAlive, LabelAlive, EarlyAlive,
         MachineUpdateAlive, AdoptAlive, CreateAlive, RecordAlive, RecordStatusAlive, NoDeletion,
         PidStep, ZenonT(60) DEF Worker, Next
    <2>4. CASE Collector
      BY <1>2, <2>1, <2>2, <2>4, CollectorAlive, PidStep, Zenon DEF Next
    <2>5. CASE World
      BY <1>2, <2>1, <2>2, <2>5, WorldAlive, PidStep, Zenon DEF Next
    <2>6. CASE UNCHANGED vars
      <3>1. PidFits'
        BY <2>2, <2>6 DEF vars, PidFits
      <3> QED
        BY <1>2, <2>1, <2>2, <2>6, <3>1, WorldAlive, Zenon
    <2> QED
      BY <2>3, <2>4, <2>5, <2>6 DEF Next
  <1> QED
    BY <1>1, <1>2 DEF BackInv

\* The collector never deletes the VM that a machine has recorded while that is not being
\* deleted, although it decides on an old copy and acts after the last look: for every driver
\* but those of Packet and OpenStack, any number of failed calls and restarts, unless the
\* machine was called Failed or Terminating before it had an id.
THEOREM RecordedVMKept == Spec => BackedVMKept
  <1>1. BackInv /\ [Next]_vars =>
           [deleteOrphanVM /\ env.class.kind \notin {"Packet", "OpenStack"}
               => ~(obj.exists /\ ~obj.deleting /\ ~obj.early /\ obj.pid = col.vm)]_vars
    BY DEF BackInv, AliveInv, Alive, deleteOrphanVM
  <1> QED
    BY <1>1, BackInit, BackStep, VMInvHolds, IdInvHolds, PTL DEF Spec, BackedVMKept
=============================================================================
