------------------------------- MODULE Drivers -------------------------------
(***************************************************************************)
(* The drivers compiled into the machine controller (pkg/driver): what a   *)
(* call of Create, Delete or GetVMs may do to the resources that one       *)
(* Machine has at its cloud.                                               *)
(*                                                                         *)
(* An operation is the set of its outcomes: the cloud it leaves behind and *)
(* whether it returns an error.  Every request to a cloud may fail before  *)
(* or after it took effect, so the outcomes include what is left behind by *)
(* each early return, and by a crash at that point.  Only resources with   *)
(* the name of the Machine appear; parameters of VMs and credentials are   *)
(* left out.  Classes passed validation, so they have the two tags without *)
(* which GetVMs finds nothing.                                             *)
(***************************************************************************)
EXTENDS Naturals, FiniteSets

Kinds == {"AWS", "GCP", "Alicloud", "Packet", "OpenStack", "Azure"}

\* The settings of a class that the drivers branch on: whether a port is made in a
\* given subnet (OpenStack), and whether VMs get data disks (Azure).
Class == [kind: Kinds, subnet: BOOLEAN, dataDisks: BOOLEAN]

\* vms: the instances, by number; leaving: those whose deletion OpenStack has accepted;
\* parts: what Azure keeps beside the instance; ports: OpenStack ports with the name of
\* the machine; made: how many instances were made.
Cloud == [vms: SUBSET Nat, leaving: SUBSET Nat, parts: SUBSET {"nic", "disk", "data"},
          ports: Nat, made: Nat]

EmptyCloud == [vms |-> {}, leaving |-> {}, parts |-> {}, ports |-> 0, made |-> 0]

Outcome(c, err) == [cloud |-> c, err |-> err]

\* One request: it may fail before or after it took effect.
Request(before, after) == {Outcome(after, FALSE), Outcome(after, TRUE), Outcome(before, TRUE)}

\* The outcomes of a clean-up after a failure, whose own result is only logged.
Failed(outcomes) == {Outcome(r.cloud, TRUE) : r \in outcomes}

\* GCP and Azure find an instance by the name of the machine, the others give it an id.
NamedVM == 1

NewVM(class, c) == IF class.kind \in {"GCP", "Azure"} THEN NamedVM ELSE c.made + 1

WithVM(c, id) == [c EXCEPT !.vms = @ \cup {id}, !.made = @ + 1]

WithoutVM(c, id) == [c EXCEPT !.vms = @ \ {id}]

-----------------------------------------------------------------------------
(* AWS, GCP, Alibaba Cloud and Packet: the instance is the only resource. *)

AWSCreate(c, id) == {Outcome(c, TRUE)} \cup Request(c, WithVM(c, id))

\* An instance with this name makes the Insert fail.
GCPCreate(c, id) ==
    {Outcome(c, TRUE)} \cup (IF id \in c.vms THEN {} ELSE Request(c, WithVM(c, id)))

AlicloudCreate(c, id) == {Outcome(c, TRUE)} \cup Request(c, WithVM(c, id))

PacketCreate(c, id) == {Outcome(c, TRUE)} \cup Request(c, WithVM(c, id))

\* GetVMs first: an instance that is not listed counts as deleted.
AWSDelete(c, id) ==
    {Outcome(c, TRUE)}
    \cup (IF id \in c.vms THEN Request(c, WithoutVM(c, id)) ELSE {Outcome(c, FALSE)})

GCPDelete(c, id) ==
    {Outcome(c, TRUE)}
    \cup (IF id \in c.vms THEN Request(c, WithoutVM(c, id)) ELSE {Outcome(c, FALSE)})

\* Also refused while the instance is neither running nor stopped.
AlicloudDelete(c, id) ==
    {Outcome(c, TRUE)}
    \cup (IF id \in c.vms THEN Request(c, WithoutVM(c, id)) ELSE {Outcome(c, FALSE)})

\* No list first; the answer 404 counts as deleted.
PacketDelete(c, id) ==
    {Outcome(c, TRUE)}
    \cup (IF id \in c.vms THEN Request(c, WithoutVM(c, id)) ELSE {Outcome(c, FALSE)})

-----------------------------------------------------------------------------
(* OpenStack: a server, and a port of its own if the class names a subnet. *)

\* The port is found by name; two ports of that name are an error.
deletePort(class, c) ==
    IF ~class.subnet
    THEN {Outcome(c, FALSE)}
    ELSE {Outcome(c, TRUE)}
         \cup (IF c.ports = 0 THEN {Outcome(c, FALSE)} ELSE {})
         \cup (IF c.ports = 1 THEN Request(c, [c EXCEPT !.ports = 0]) ELSE {})

Accepted(c, id) == [c EXCEPT !.leaving = @ \cup {id}]

\* The wait for the end of the server asks for it by the encoded id, under which there is
\* none: it ends at once, and Delete succeeds while the server is still there.
OpenStackDelete(class, c, id) ==
    {Outcome(c, TRUE)}
    \cup UNION {IF r.err THEN {r} ELSE deletePort(class, r.cloud) :
                    r \in IF id \in c.vms THEN Request(c, Accepted(c, id))
                                          ELSE {Outcome(c, FALSE)}}

createPort(class, c) ==
    IF class.subnet THEN Request(c, [c EXCEPT !.ports = @ + 1]) ELSE {Outcome(c, FALSE)}

\* When the Neutron client cannot be made, deleteOnFail runs before there is a machine
\* id: no server is found, the port of that name is deleted.  When the server cannot be
\* made, the port stays.  After that every failure deletes server and port.
OpenStackCreate(class, c, id) ==
    {Outcome(c, TRUE)}
    \cup Failed(deletePort(class, c))
    \cup UNION {IF p.err THEN {p}
                ELSE UNION {IF s.err THEN {s}
                            ELSE {s} \cup Failed(OpenStackDelete(class, s.cloud, id)) :
                                s \in Request(p.cloud, WithVM(p.cloud, id))} :
                    p \in createPort(class, c)}

-----------------------------------------------------------------------------
(* Azure: a network interface, the instance with its disks. *)

AzureDisks(class) == {"disk"} \cup (IF class.dataDisks THEN {"data"} ELSE {})

\* The instance first; then interface and disks in parallel, each of which may fail.
\* While the instance is there they are attached to it, and none is deleted.
deleteVMNicDisks(c) ==
    {Outcome(c, TRUE)}
    \cup UNION {IF r.err THEN {r}
                ELSE {Outcome([r.cloud EXCEPT !.parts = kept], TRUE) :
                         kept \in SUBSET r.cloud.parts}
                     \cup {Outcome([r.cloud EXCEPT !.parts = {}], FALSE)} :
                    r \in IF NamedVM \in c.vms THEN Request(c, WithoutVM(c, NamedVM))
                                               ELSE {Outcome(c, FALSE)}}

createNIC(c) ==
    IF "nic" \in c.parts THEN {Outcome(c, FALSE)}
    ELSE Request(c, [c EXCEPT !.parts = @ \cup {"nic"}])

\* A failed creation may leave any of the instance's disks, or the instance with them.
createVM(class, c) ==
    LET made(disks) == [c EXCEPT !.parts = @ \cup disks]
    IN  {Outcome(made(disks), TRUE) : disks \in SUBSET AzureDisks(class)}
        \cup Request(c, WithVM(made(AzureDisks(class)), NamedVM))

\* Every failure after the subnet was read deletes what there is; errors of the clean-up
\* are only logged.
AzureCreate(class, c) ==
    {Outcome(c, TRUE)}
    \cup UNION {IF n.err THEN Failed(deleteVMNicDisks(n.cloud))
                ELSE Failed(deleteVMNicDisks(n.cloud))
                     \cup UNION {IF v.err THEN Failed(deleteVMNicDisks(v.cloud)) ELSE {v} :
                                     v \in createVM(class, n.cloud)} :
                    n \in createNIC(c)}

\* Then interfaces and disks that still carry the name are looked for.
checkOrphans(c) == {Outcome(c, TRUE)} \cup {Outcome([c EXCEPT !.parts = {}], FALSE)}

AzureDelete(c) ==
    {Outcome(c, TRUE)}
    \cup UNION {IF r.err THEN {r} ELSE checkOrphans(r.cloud) : r \in deleteVMNicDisks(c)}

-----------------------------------------------------------------------------
(* The interface. *)

\* Mutant: only instances are listed.
GetVMsInstances(class, c) == c.vms

\* What GetVMs("") returns for the name, tag by tag.
AWSGetVMs(c) == c.vms

GCPGetVMs(c) == c.vms

AlicloudGetVMs(c) == c.vms

\* In another form than Create returns: without the facility.
PacketGetVMs(c) == c.vms

OpenStackGetVMs(c) == c.vms

\* An interface or an OS disk counts for the instance, a data disk does not.
getRelevantVMs(c) == c.vms

getRelevantNICs(c) == IF "nic" \in c.parts THEN {NamedVM} ELSE {}

getRelevantDisks(c) == IF "disk" \in c.parts THEN {NamedVM} ELSE {}

AzureGetVMs(c) == getRelevantVMs(c) \cup getRelevantNICs(c) \cup getRelevantDisks(c)

GetVMs(class, c) ==
    CASE class.kind = "AWS"       -> AWSGetVMs(c)
      [] class.kind = "GCP"       -> GCPGetVMs(c)
      [] class.kind = "Alicloud"  -> AlicloudGetVMs(c)
      [] class.kind = "Packet"    -> PacketGetVMs(c)
      [] class.kind = "OpenStack" -> OpenStackGetVMs(c)
      [] class.kind = "Azure"     -> AzureGetVMs(c)

Create(class, c) ==
    LET id == NewVM(class, c)
    IN  CASE class.kind = "AWS"       -> AWSCreate(c, id)
          [] class.kind = "GCP"       -> GCPCreate(c, id)
          [] class.kind = "Alicloud"  -> AlicloudCreate(c, id)
          [] class.kind = "Packet"    -> PacketCreate(c, id)
          [] class.kind = "OpenStack" -> OpenStackCreate(class, c, id)
          [] class.kind = "Azure"     -> AzureCreate(class, c)

Delete(class, c, id) ==
    CASE class.kind = "AWS"       -> AWSDelete(c, id)
      [] class.kind = "GCP"       -> GCPDelete(c, id)
      [] class.kind = "Alicloud"  -> AlicloudDelete(c, id)
      [] class.kind = "Packet"    -> PacketDelete(c, id)
      [] class.kind = "OpenStack" -> OpenStackDelete(class, c, id)
      [] class.kind = "Azure"     -> AzureDelete(c)

\* Something of the machine is left at the cloud, and is not on its way out.
Resources(c) == c.vms \ c.leaving # {} \/ c.parts # {} \/ c.ports > 0
=============================================================================
