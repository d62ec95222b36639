---------------------------- MODULE MCDevPlugin ----------------------------
(***************************************************************************)
(* Model-checking instance of DevPlugin: two devices of the three of       *)
(* devList, so that one server can be up and the next one not yet. The     *)
(* configurations bound the faults, kubelet restarts and signals.          *)
(***************************************************************************)
EXTENDS DevPlugin
=============================================================================
