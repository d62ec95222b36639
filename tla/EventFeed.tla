----------------------------- MODULE EventFeed ------------------------------
(***************************************************************************)
(* What main.go may expect of its file system watcher as far as one file,  *)
(* kubelet.sock, is concerned: every creation of the file while it is      *)
(* watched is an event, and an event goes away only because main() takes   *)
(* it, because the file has gone again, or with the watcher. Only a queue  *)
(* overflow loses one.                                                     *)
(***************************************************************************)
EXTENDS Naturals

VARIABLES
  file,      \* the file exists
  watched,   \* its creation makes an event
  events,    \* events that are neither taken nor ignored
  overflow,  \* the event of the last creation was lost
  idle       \* main() waits in select

vars == <<file, watched, events, overflow, idle>>

Init ==
  /\ file \in BOOLEAN /\ watched = FALSE /\ events = 0 /\ overflow = FALSE
  /\ idle = FALSE

Create ==
  /\ ~file /\ file' = TRUE
  /\ \/ watched /\ events' = events + 1 /\ overflow' = FALSE
     \/ watched /\ events' = events /\ overflow' = TRUE
     \/ ~watched /\ events' = events /\ overflow' = FALSE
  /\ UNCHANGED <<watched, idle>>

Delete == file /\ file' = FALSE /\ UNCHANGED <<watched, events, overflow, idle>>

\* main() receives the event and acts on it.
Take ==
  /\ idle /\ idle' = FALSE /\ events > 0 /\ events' = events - 1
  /\ UNCHANGED <<file, watched, overflow>>

\* An event about a file that is not there any more is not passed on.
Ignore ==
  /\ ~file /\ events > 0 /\ events' = events - 1
  /\ UNCHANGED <<file, watched, overflow, idle>>

Watch ==
  /\ ~watched /\ watched' = TRUE /\ UNCHANGED <<file, events, overflow>>
  /\ idle' \in BOOLEAN

\* The watcher is closed, or its process is gone.
Unwatch ==
  /\ watched /\ watched' = FALSE /\ events' = 0 /\ idle' = FALSE
  /\ overflow' \in {overflow, FALSE}
  /\ UNCHANGED file

\* main() turns to something else, or back to select.
Turn == idle' = ~idle /\ UNCHANGED <<file, watched, events, overflow>>

Next == Create \/ Delete \/ Take \/ Ignore \/ Watch \/ Unwatch \/ Turn

Spec == Init /\ [][Next]_vars
=============================================================================
