---------------------------- MODULE MCFsWatcher -----------------------------
(***************************************************************************)
(* Model-checking instance of FsWatcher: a kernel queue and a read buffer  *)
(* of a few events, so that both fill up.                                  *)
(***************************************************************************)
EXTENDS FsWatcher
=============================================================================
