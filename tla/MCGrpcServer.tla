---------------------------- MODULE MCGrpcServer -----------------------------
(* GrpcServer with connections as model values: one is made by the plugin   *)
(* itself, one by kubelet.                                                  *)
EXTENDS GrpcServer
=============================================================================
