---------------------- MODULE MCInTreeMachineController ----------------------
(***************************************************************************)
(* Instances of InTreeMachineController for TLC.                           *)
(***************************************************************************)
EXTENDS InTreeMachineController

ClassOf(kind) == [kind |-> kind, subnet |-> FALSE, dataDisks |-> FALSE]

With(class, collector, tokens, maxFaults) ==
    [class |-> class, collector |-> collector, tokens |-> tokens, maxFaults |-> maxFaults]

\* One scenario per driver; OpenStack with and without a subnet.  The collector runs beside
\* AWS and Azure; for GCP and Alibaba Cloud it would see what it sees for AWS.  It is left out
\* for Packet, whose VMs it takes for orphans, and Azure has no data disks, which it does not
\* see.
MCScenarios == {
    With(ClassOf("AWS"), TRUE, FALSE, 2),
    With(ClassOf("GCP"), FALSE, FALSE, 1),
    With(ClassOf("Alicloud"), FALSE, FALSE, 0),
    With(ClassOf("Packet"), FALSE, FALSE, 1),
    With(ClassOf("OpenStack"), FALSE, FALSE, 0),
    With([ClassOf("OpenStack") EXCEPT !.subnet = TRUE], FALSE, TRUE, 1),
    With(ClassOf("Azure"), TRUE, TRUE, 1)}
=============================================================================
