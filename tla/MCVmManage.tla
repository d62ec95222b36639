----------------------------- MODULE MCVmManage -----------------------------
(***************************************************************************)
(* Model-checking instance of VmManage: VMs 9 and 10 can be given as a     *)
(* range, and the name of VM 10 is the beginning of the name of VM 100.    *)
(***************************************************************************)
EXTENDS VmManage
=============================================================================
