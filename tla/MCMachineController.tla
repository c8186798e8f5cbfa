------------------------ MODULE MCMachineController ------------------------
(***************************************************************************)
(* Instances of MachineController for TLC.  One machine is enough: keys    *)
(* share nothing but the provider's id counter and the collector's list.   *)
(***************************************************************************)
EXTENDS MachineController

AllEvents == EventNames
LiveEvents == {"mcm", "restart"}

=============================================================================
