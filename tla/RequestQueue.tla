---------------------------- MODULE RequestQueue ----------------------------
(***************************************************************************)
(* What android-env-service.sh promises to those that append lines to its  *)
(* queue files: one request at a time is worked on, the first of its       *)
(* queue; a request leaves its queue only when it has been handled; and an *)
(* interrupted one is found again. What it does not promise is that every  *)
(* line that is appended is read: those that reach the file while a        *)
(* completed request is being removed may go with it.                      *)
(***************************************************************************)
EXTENDS Naturals, Sequences

CONSTANTS
  Queue,  \* names of the queues
  Client  \* who may be named in a request

VARIABLES
  pending,  \* per queue: the requests, oldest first
  active,   \* the queue that is being served, a set of at most one
  handled   \* the request at its head has been carried out

vars == <<pending, active, handled>>

Init ==
  /\ pending = [k \in Queue |-> <<>>]
  /\ active = {}
  /\ handled = FALSE

Submit(k, c) ==
  /\ pending' = [pending EXCEPT ![k] = Append(@, c)]
  /\ UNCHANGED <<active, handled>>

Begin(k) ==
  /\ active = {} /\ pending[k] # <<>>
  /\ active' = {k} /\ UNCHANGED <<pending, handled>>

Handle ==
  /\ active # {} /\ ~handled
  /\ handled' = TRUE /\ UNCHANGED <<pending, active>>

\* The head goes, and possibly some of the latest requests.
Complete(k) ==
  /\ active = {k} /\ handled /\ pending[k] # <<>>
  /\ \E n \in 1..Len(pending[k]) :
       pending' = [pending EXCEPT ![k] = SubSeq(@, 2, n)]
  /\ active' = {} /\ handled' = FALSE

\* The server goes away; what it was at stays where it was.
Interrupt ==
  /\ active # {}
  /\ active' = {} /\ handled' = FALSE /\ UNCHANGED pending

Next ==
  \/ Handle \/ Interrupt
  \/ \E k \in Queue : Begin(k) \/ Complete(k) \/ (\E c \in Client : Submit(k, c))

Spec == Init /\ [][Next]_vars
=============================================================================
