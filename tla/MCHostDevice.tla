---------------------------- MODULE MCHostDevice ----------------------------
(***************************************************************************)
(* Model-checking instance of HostDevice: more pods than binder devices, so*)
(* that an ID is handed back and out again.                                *)
(***************************************************************************)
EXTENDS HostDevice
=============================================================================
