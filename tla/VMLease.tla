------------------------------- MODULE VMLease -------------------------------
(***************************************************************************)
(* What the machine controller promises about virtual machines, without    *)
(* reconciles, caches, conflicts and restarts.  A machine holds a lease,   *)
(* its finalizer, while it may have a VM: it gets one only with the lease, *)
(* never two, never that of another machine; it keeps the VM until its     *)
(* deletion is asked for, and gives the lease back only when the VM is     *)
(* gone.                                                                   *)
(***************************************************************************)
CONSTANTS
    Machine,  \* the Machine objects
    VM        \* the VMs the provider can make

VARIABLES
    lease,  \* of each machine: "new", "held", "ending" or "released"
    vms     \* the VMs of each machine

vars == <<lease, vms>>

Init ==
    /\ lease = [m \in Machine |-> "new"]
    /\ vms = [m \in Machine |-> {}]

\* addMachineFinalizers
Acquire(m) ==
    /\ lease[m] = "new"
    /\ lease' = [lease EXCEPT ![m] = "held"]
    /\ UNCHANGED vms

\* triggerCreationFlow; a reconcile may not know yet that the machine is to be deleted.
Create(m) ==
    /\ lease[m] \in {"held", "ending"}
    /\ vms[m] = {}
    /\ \E id \in VM :
          /\ \A n \in Machine : id \notin vms[n]
          /\ vms' = [vms EXCEPT ![m] = {id}]
    /\ UNCHANGED lease

\* The deletion timestamp is set.
Revoke(m) ==
    /\ lease[m] = "held"
    /\ lease' = [lease EXCEPT ![m] = "ending"]
    /\ UNCHANGED vms

\* deleteVM
Destroy(m) ==
    /\ lease[m] = "ending"
    /\ vms' = [vms EXCEPT ![m] = {}]
    /\ UNCHANGED lease

\* deleteMachineFinalizers, or a deletion before the finalizer was added.
Release(m) ==
    /\ lease[m] \in {"new", "ending"}
    /\ vms[m] = {}
    /\ lease' = [lease EXCEPT ![m] = "released"]
    /\ UNCHANGED vms

Next == \E m \in Machine : Acquire(m) \/ Create(m) \/ Revoke(m) \/ Destroy(m) \/ Release(m)

Spec == Init /\ [][Next]_vars
=============================================================================
