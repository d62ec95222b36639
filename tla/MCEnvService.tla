---------------------------- MODULE MCEnvService ----------------------------
(***************************************************************************)
(* Model-checking instance of EnvService. VMs are interchangeable, so the  *)
(* runs that check only invariants use symmetry.                           *)
(***************************************************************************)
EXTENDS EnvService, TLC

Symmetry == Permutations(VM)
=============================================================================
