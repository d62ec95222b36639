------------------------------ MODULE Endpoint -------------------------------
(***************************************************************************)
(* What the rest of the device plugin may take the gRPC server of one      *)
(* device to be: a path in the file system, a server that is going to      *)
(* serve it or does, at least one ListAndWatch handler or none, and        *)
(* possibly the Serve goroutine of an earlier server that has not run yet. *)
(* DevPlugin is written against this, GrpcServer is shown to be it.        *)
(***************************************************************************)
VARIABLES
  sock,    \* whose socket is at the path: "cur", "old" or "none"
  server,  \* "nil", "spawned" (go Serve has been said) or "serving"
  stream,  \* a ListAndWatch handler runs that nobody has told to stop
  late     \* an earlier server's Serve has still to close its listener

vars == <<sock, server, stream, late>>

Init == sock = "none" /\ server = "nil" /\ stream = FALSE /\ late = FALSE

\* Remove the path, bind it, go Serve: only when the last server is stopped.
Bind ==
  /\ server = "nil" /\ server' = "spawned" /\ sock' = "cur"
  /\ UNCHANGED <<stream, late>>

Serve ==
  /\ server = "spawned" /\ server' = "serving"
  /\ UNCHANGED <<sock, stream, late>>

Open ==
  /\ server = "serving" /\ ~stream /\ stream' = TRUE
  /\ UNCHANGED <<sock, server, late>>

Stop ==
  /\ server # "nil" /\ server' = "nil"
  /\ late' = (late \/ server = "spawned")
  /\ sock' = "none" /\ stream' = FALSE

\* Whoever has bound the path by now loses it.
LateServe ==
  /\ late /\ late' = FALSE /\ sock' = "none"
  /\ UNCHANGED <<server, stream>>

\* Somebody else removes the file.
Wiped == sock' = "none" /\ UNCHANGED <<server, stream, late>>

\* A new manager takes over from one that is stopped.
Outdated ==
  /\ server = "nil" /\ sock = "cur" /\ sock' = "old"
  /\ UNCHANGED <<server, stream, late>>

\* The process ends; the file stays.
Gone ==
  /\ sock' \in {sock, "old"}
  /\ server' = "nil" /\ stream' = FALSE /\ late' = FALSE

Next ==
  \/ Bind \/ Serve \/ Open \/ Stop \/ LateServe \/ Wiped \/ Outdated \/ Gone

Spec == Init /\ [][Next]_vars
=============================================================================
