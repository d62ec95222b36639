--------------------------- MODULE EnvOrderProofs ---------------------------
(***************************************************************************)
(* What the daemon of EnvService guarantees to a VM whose requests never   *)
(* crossed, for every set of VMs and every bound: the VM runs on a usable  *)
(* environment, a VM that is gone has left no process, and a deleted one   *)
(* no data. The inductive invariant says which single line of the queue    *)
(* files explains what is on the host for such a VM.                       *)
(***************************************************************************)
EXTENDS EnvServiceProofs

-----------------------------------------------------------------------------
(* The inductive invariant                                                 *)

\* The daemon has taken the VM's line and is not through with it.
Working(v) == spc \in Busy /\ cur = {v}

\* There is one line for the VM at most, in all three files.
OneLine(v) ==
  \A k, l \in Queue : \A i \in 1..Len(queue[k]), j \in 1..Len(queue[l]) :
    queue[k][i] = v /\ queue[l][j] = v => k = l /\ i = j

\* How the line, the pod and the directory of an uncrossed VM go together.
\* The answer to an init comes when the daemon is about to remove the line,
\* or never any more when it was killed.
Straight(v) ==
  /\ OneLine(v)
  /\ Queued("init", v) => pod[v] \in {"wait", "running"}
  /\ Queued("uninit", v) => pod[v] \notin {"wait", "running"} /\ cfg[v]
  /\ Queued("delete", v) => pod[v] \notin {"wait", "running", "stopping"}
  /\ pod[v] \in {"running", "stopping"} => cfg[v]
  /\ pod[v] = "append" => status[v] \in {"empty", "none"}
  /\ pod[v] = "running" => status[v] = "ok"
  /\ status[v] = "ok" /\ Queued("init", v) =>
       LockedOut \/ (Working(v) /\ spc \in {"sed", "rename"})

\* What there is on the host for an orderly VM.
HostFollows(v) ==
  /\ pod[v] \notin {"wait", "running"} /\ ~Queued("uninit", v) => procs[v] = {}
  /\ pod[v] = "wait" /\ status[v] # "ok" =>
       \/ procs[v] = {}
       \/ Queued("init", v) /\ (LockedOut \/ (Working(v) /\ spc \in {"status", "undo"}))
  /\ pod[v] \in {"wait", "running"} /\ status[v] = "ok" => Usable(v) /\ data[v]
  /\ Working(v) /\ q = "init" /\ spc = "status" /\ ret = "ok" =>
       Usable(v) /\ data[v] /\ cfg[v]
  /\ Working(v) /\ q = "init" /\ spc \in {"status", "undo"} =>
       procs[v] = {} \/ cfg[v]
  /\ Working(v) /\ q = "uninit" /\ spc \in {"sed", "rename"} => procs[v] = {}

\* Only the first line of delete.queue has been worked on.
OnlyFirstWorked(v) ==
  \A i \in 1..Len(queue["delete"]) : queue["delete"][i] = v /\ i > 1 => cfg[v]

\* What there is in the VM's directories.
FilesFollow(v) ==
  /\ OnlyFirstWorked(v)
  /\ failures = 0 /\ ~cfg[v] /\ ~Queued("delete", v) => ~data[v]
  /\ failures = 0 /\ Working(v) /\ q = "delete" /\ spc \in {"sed", "rename"} =>
       ~data[v]

PidFileFollows == spc # "off" => pidFile

\* Only a line of init.queue gets an answer, or is undone.
AnswersInits == spc \in {"status", "undo"} => q = "init"

\* What holds for one VM.
VMInv(v) ==
  /\ v \notin crossed => Straight(v) /\ FilesFollow(v)
  /\ Orderly(v) => HostFollows(v)

OrderInv ==
  /\ PidFileFollows
  /\ AnswersInits
  /\ \A v \in VM : VMInv(v)

-----------------------------------------------------------------------------
(* The lines of a VM                                                       *)

LEMMA QueuedMeans ==
  ASSUME NEW k \in Queue, NEW v \in VM
  PROVE  Queued(k, v) <=> \E i \in 1..Len(queue[k]) : queue[k][i] = v
BY DEF Queued, Names

LEMMA QueuedMeansNext ==
  ASSUME NEW k \in Queue, NEW v \in VM
  PROVE  Queued(k, v)' <=> \E i \in 1..Len(queue'[k]) : queue'[k][i] = v
BY DEF Queued, Names

\* The VM the daemon works on has its line in this queue, and in no other.
LEMMA WorkingLine ==
  ASSUME IInv, NEW v \in VM, Working(v)
  PROVE  Queued(q, v) /\ (OneLine(v) => \A k \in Queue \ {q} : ~Queued(k, v))
<1>1. /\ q \in Queue /\ queue[q] \in Seq(VM) /\ queue[q] # <<>>
      /\ v = Head(queue[q])
  BY DEF IInv, TypeOK, HeadIsCurrent, Working
<1>2. 1 \in 1..Len(queue[q]) /\ queue[q][1] = v
  BY <1>1, HeadTailFacts
<1>3. Queued(q, v)
  BY <1>1, <1>2, QueuedMeans
<1>4. ASSUME OneLine(v), NEW k \in Queue \ {q} PROVE ~Queued(k, v)
  BY <1>1, <1>2, <1>4, QueuedMeans DEF OneLine
<1>5. QED
  BY <1>3, <1>4

LEMMA OneFile ==
  ASSUME NEW v \in VM, OneLine(v), NEW k \in Queue, NEW l \in Queue,
         Queued(k, v), Queued(l, v)
  PROVE  k = l
BY QueuedMeans DEF OneLine

\* What an append to a queue file changes for a VM.
LEMMA AppendOrder ==
  ASSUME TypeOK, NEW k \in Queue, NEW u \in VM, NEW v \in VM, AppendTo(k, u)
  PROVE  /\ \A l \in Queue : Queued(l, v)' <=> Queued(l, v) \/ (l = k /\ v = u)
         /\ v \notin crossed' =>
              /\ v \notin crossed
              /\ v = u => Quiet(v) /\ (k = "delete" => pod[v] = "none")
         /\ v \notin crossed' /\ OneLine(v) => OneLine(v)'
         /\ OnlyFirstWorked(v) /\ cfg' = cfg /\ (k = "delete" /\ u = v => cfg[v])
              => OnlyFirstWorked(v)'
         /\ v # u \/ k # "uninit" =>
              (v \in lost'["uninit"] <=> v \in lost["uninit"])
<1>a. /\ queue[k] \in Seq(VM) /\ queue' = [queue EXCEPT ![k] = Append(queue[k], u)]
      /\ lost' = [lost EXCEPT ![k] = lost[k] \ {u}]
      /\ crossed' = IF Quiet(u) /\ (k = "delete" => pod[u] = "none")
                    THEN crossed ELSE crossed \cup {u}
      /\ queue \in [Queue -> Seq(VM)] /\ lost \in [Queue -> SUBSET VM]
  BY DEF AppendTo, TypeOK
<1>b. /\ Len(Append(queue[k], u)) = Len(queue[k]) + 1 /\ Len(queue[k]) \in Nat
      /\ \A i \in 1..Len(queue[k]) : Append(queue[k], u)[i] = queue[k][i]
      /\ Append(queue[k], u)[Len(queue[k]) + 1] = u
  BY <1>a, AppendFacts
<1>c. queue'[k] = Append(queue[k], u) /\ \A l \in Queue \ {k} : queue'[l] = queue[l]
  BY <1>a
<1>d. \A i : i \in 1..Len(queue'[k]) <=> i \in 1..Len(queue[k]) \/ i = Len(queue[k]) + 1
  BY <1>b, <1>c
<1>1. ASSUME NEW l \in Queue
      PROVE  Queued(l, v)' <=> Queued(l, v) \/ (l = k /\ v = u)
  <2>1. CASE l # k
    BY <1>c, <2>1, QueuedMeans, QueuedMeansNext
  <2>2. CASE l = k
    <3>1. Queued(k, v) <=> \E i \in 1..Len(queue[k]) : queue[k][i] = v
      BY QueuedMeans
    <3>2. Queued(k, v)' <=> \E i \in 1..Len(queue'[k]) : queue'[k][i] = v
      BY QueuedMeansNext
    <3>3. ASSUME NEW i \in 1..Len(queue[k])
          PROVE  i \in 1..Len(queue'[k]) /\ queue'[k][i] = queue[k][i]
      BY <1>b, <1>c, <1>d
    <3>4. Len(queue[k]) + 1 \in 1..Len(queue'[k])
          /\ queue'[k][Len(queue[k]) + 1] = u
      BY <1>b, <1>c
    <3>5. QED
      BY <1>d, <2>2, <3>1, <3>2, <3>3, <3>4
  <2>3. QED
    BY <2>1, <2>2
<1>2. v \notin crossed' =>
        /\ v \notin crossed
        /\ v = u => Quiet(v) /\ (k = "delete" => pod[v] = "none")
  BY <1>a
<1>3. ASSUME v \notin crossed', OneLine(v) PROVE OneLine(v)'
  <2>1. ASSUME NEW l \in Queue, NEW i \in 1..Len(queue'[l]), queue'[l][i] = v
        PROVE  \/ i \in 1..Len(queue[l]) /\ queue[l][i] = v
               \/ v = u /\ l = k /\ i = Len(queue[k]) + 1
    BY <1>b, <1>c, <1>d, <2>1
  <2>2. CASE v # u
    BY <1>3, <2>1, <2>2 DEF OneLine
  <2>3. CASE v = u
    <3>1. \A l \in Queue : ~Queued(l, v)
      BY <1>2, <1>3, <2>3 DEF Quiet
    <3>2. \A l \in Queue : \A i \in 1..Len(queue[l]) : queue[l][i] # v
      BY <3>1, QueuedMeans
    <3>3. QED
      BY <2>1, <3>2 DEF OneLine
  <2>4. QED
    BY <2>2, <2>3
<1>4. ASSUME OnlyFirstWorked(v), cfg' = cfg, k = "delete" /\ u = v => cfg[v]
      PROVE  OnlyFirstWorked(v)'
  <2> SUFFICES ASSUME NEW i \in 1..Len(queue'["delete"]),
                      queue'["delete"][i] = v, i > 1
               PROVE  cfg[v]
    BY <1>4 DEF OnlyFirstWorked
  <2>1. CASE k # "delete"
    BY <1>4, <1>c, <2>1 DEF OnlyFirstWorked, Queue
  <2>2. CASE k = "delete"
    BY <1>4, <1>b, <1>c, <1>d, <2>2 DEF OnlyFirstWorked
  <2>3. QED
    BY <2>1, <2>2
<1>5. v # u \/ k # "uninit" => (v \in lost'["uninit"] <=> v \in lost["uninit"])
  BY <1>a DEF Queue
<1>6. QED
  BY <1>1, <1>2, <1>3, <1>4, <1>5

\* What sed makes of the lines of a VM: the line the daemon worked on goes,
\* another stays or is lost.
LEMMA SedOrder ==
  ASSUME IInv, SedRename, NEW v \in VM
  PROVE  /\ \A l \in Queue : Queued(l, v)' => Queued(l, v)
         /\ OneLine(v) => OneLine(v)'
         /\ \A l \in Queue : OneLine(v) /\ cur = {v} => ~Queued(l, v)'
         /\ \A l \in Queue :
              Queued(l, v) => \/ Queued(l, v)'
                              \/ l = q /\ (cur = {v} \/ v \in lost'[l])
         /\ OnlyFirstWorked(v) => OnlyFirstWorked(v)'
         /\ cur # {v} /\ q = "delete" /\ Queued(q, v) /\ OnlyFirstWorked(v)
              => cfg[v]
         /\ v \in lost["uninit"] => v \in lost'["uninit"]
         /\ q # "uninit" /\ v \in lost'["uninit"] => v \in lost["uninit"]
<1>a. /\ q \in Queue /\ queue \in [Queue -> Seq(VM)] /\ copy \in Seq(VM)
      /\ lost \in [Queue -> SUBSET VM]
      /\ queue[q] \in Seq(VM) /\ queue[q] # <<>> /\ cur = {Head(queue[q])}
      /\ Len(copy) + 1 <= Len(queue[q])
      /\ \A i \in 1..Len(copy) : copy[i] = queue[q][i + 1]
  BY DEF IInv, TypeOK, HeadIsCurrent, CopyFollowsHead, SedRename, Goto, Busy
<1>b. /\ queue' = [queue EXCEPT ![q] = copy] /\ cfg' = cfg
      /\ lost' = [lost EXCEPT ![q] = lost[q] \cup AddedSince(q)] /\ q' = q
  BY DEF SedRename, fileVars
<1>c. /\ queue'[q] = copy /\ \A l \in Queue \ {q} : queue'[l] = queue[l]
      /\ lost'[q] = lost[q] \cup AddedSince(q)
  BY <1>a, <1>b
<1>d. /\ Len(copy) \in Nat /\ Len(queue[q]) \in Nat
      /\ Head(queue[q]) = queue[q][1]
  BY <1>a, HeadTailFacts
<1>e. \A i \in 1..Len(copy) : i + 1 \in 1..Len(queue[q]) /\ i + 1 > 1
  BY <1>a, <1>d
<1>1. \A l \in Queue \ {q} : Queued(l, v)' <=> Queued(l, v)
  BY <1>c, QueuedMeans, QueuedMeansNext
<1>k. PICK k \in Queue : k = q
  BY <1>a
<1>0. /\ Queued(k, v)' <=> \E i \in 1..Len(copy) : copy[i] = v
      /\ Queued(k, v) <=> \E i \in 1..Len(queue[q]) : queue[q][i] = v
  BY <1>c, <1>k, QueuedMeans, QueuedMeansNext
<1>2. Queued(k, v)' => Queued(k, v)
  BY <1>0, <1>a, <1>e
<1>3. ASSUME OneLine(v) PROVE OneLine(v)'
  <2> SUFFICES ASSUME NEW m \in Queue, NEW l \in Queue,
                      NEW i \in 1..Len(queue'[m]), NEW j \in 1..Len(queue'[l]),
                      queue'[m][i] = v, queue'[l][j] = v
               PROVE  m = l /\ i = j
    BY DEF OneLine
  <2>1. CASE m = q /\ l = q
    <3>1. /\ i \in 1..Len(copy) /\ j \in 1..Len(copy)
          /\ queue[q][i + 1] = v /\ queue[q][j + 1] = v
      BY <1>a, <1>c, <2>1
    <3>2. i + 1 = j + 1
      BY <1>3, <1>a, <1>e, <3>1 DEF OneLine
    <3>3. QED
      BY <1>d, <2>1, <3>1, <3>2
  <2>2. CASE m = q /\ l # q
    <3>1. i \in 1..Len(copy) /\ queue[q][i + 1] = v
          /\ j \in 1..Len(queue[l]) /\ queue[l][j] = v
      BY <1>a, <1>c, <2>2
    <3>2. QED
      BY <1>3, <1>a, <1>e, <2>2, <3>1 DEF OneLine
  <2>3. CASE m # q /\ l = q
    <3>1. j \in 1..Len(copy) /\ queue[q][j + 1] = v
          /\ i \in 1..Len(queue[m]) /\ queue[m][i] = v
      BY <1>a, <1>c, <2>3
    <3>2. QED
      BY <1>3, <1>a, <1>e, <2>3, <3>1 DEF OneLine
  <2>4. CASE m # q /\ l # q
    BY <1>3, <1>c, <2>4 DEF OneLine
  <2>5. QED
    BY <2>1, <2>2, <2>3, <2>4
<1>4. ASSUME OneLine(v), cur = {v} PROVE ~Queued(k, v)'
  <2> SUFFICES ASSUME NEW i \in 1..Len(copy), copy[i] = v PROVE FALSE
    BY <1>0
  <2>1. queue[q][i + 1] = v /\ queue[q][1] = v /\ 1 \in 1..Len(queue[q])
    <3>1. Len(queue[q]) >= 1 /\ Head(queue[q]) = v
      BY <1>4, <1>a, <1>e, HeadTailFacts
    <3>2. QED
      BY <1>a, <1>d, <3>1
  <2>2. i + 1 = 1
    BY <1>4, <1>a, <1>e, <2>1 DEF OneLine
  <2>3. QED
    BY <1>e, <2>2
<1>5. ASSUME cur # {v}, Queued(k, v)
      PROVE  \E i \in 1..Len(queue[q]) : i > 1 /\ queue[q][i] = v
  <2>1. PICK i \in 1..Len(queue[q]) : queue[q][i] = v
    BY <1>0, <1>5
  <2>2. i # 1
    BY <1>5, <1>a, <1>d, <2>1
  <2>3. QED
    BY <1>d, <2>1, <2>2
<1>6. ASSUME cur # {v}, Queued(k, v) PROVE Queued(k, v)' \/ v \in lost'[k]
  <2>1. PICK i \in 1..Len(queue[q]) : i > 1 /\ queue[q][i] = v
    BY <1>5, <1>6
  <2>2. CASE i <= Len(copy) + 1
    <3>1. i - 1 \in 1..Len(copy) /\ copy[i - 1] = v
      <4>1. i - 1 \in 1..Len(copy) /\ (i - 1) + 1 = i
        BY <1>d, <2>1, <2>2
      <4>2. QED
        BY <1>a, <2>1, <4>1
    <3>2. QED
      BY <1>0, <3>1
  <2>3. CASE ~(i <= Len(copy) + 1)
    <3>1. i \in (Len(copy) + 2)..Len(queue[q])
      BY <1>d, <2>3
    <3>2. QED
      BY <1>c, <1>k, <2>1, <3>1 DEF AddedSince
  <2>4. QED
    BY <2>2, <2>3
<1>7. ASSUME OnlyFirstWorked(v) PROVE OnlyFirstWorked(v)'
  <2>1. CASE q # "delete"
    BY <1>7, <1>b, <1>c, <2>1 DEF OnlyFirstWorked, Queue
  <2>2. CASE q = "delete"
    <3> SUFFICES ASSUME NEW i \in 1..Len(copy), copy[i] = v PROVE cfg[v]
      BY <1>b, <1>c, <2>2 DEF OnlyFirstWorked
    <3>1. queue[q][i + 1] = v
      BY <1>a
    <3>2. QED
      BY <1>7, <1>e, <2>2, <3>1 DEF OnlyFirstWorked
  <2>3. QED
    BY <2>1, <2>2
<1>8. cur # {v} /\ q = "delete" /\ Queued(q, v) /\ OnlyFirstWorked(v) => cfg[v]
  BY <1>5, <1>k DEF OnlyFirstWorked
<1>9. /\ v \in lost["uninit"] => v \in lost'["uninit"]
      /\ q # "uninit" /\ v \in lost'["uninit"] => v \in lost["uninit"]
  BY <1>a, <1>b DEF Queue
<1>10. \A l \in Queue : Queued(l, v)' => Queued(l, v)
  BY <1>1, <1>2, <1>k
<1>11. ASSUME NEW l \in Queue, OneLine(v), cur = {v} PROVE ~Queued(l, v)'
  <2>1. CASE l = q
    BY <1>4, <1>11, <1>k, <2>1
  <2>2. CASE l # q
    <3>1. Working(v)
      BY <1>11 DEF Working, SedRename, Goto, Busy
    <3>2. QED
      BY <1>1, <1>11, <2>2, <3>1, WorkingLine
  <2>3. QED
    BY <2>1, <2>2
<1>12. ASSUME NEW l \in Queue, Queued(l, v)
       PROVE  \/ Queued(l, v)'
              \/ l = q /\ (cur = {v} \/ v \in lost'[l])
  BY <1>1, <1>6, <1>12, <1>k
<1>13. QED
  BY <1>3, <1>7, <1>8, <1>9, <1>10, <1>11, <1>12

-----------------------------------------------------------------------------
(* Preservation                                                            *)

SameFor(v) ==
  /\ pod'[v] = pod[v] /\ cfg'[v] = cfg[v] /\ status'[v] = status[v]
  /\ procs'[v] = procs[v] /\ sockets'[v] = sockets[v] /\ data'[v] = data[v]

LEMMA QueueSame ==
  ASSUME queue' = queue, NEW v \in VM
  PROVE  /\ \A k \in Queue : Queued(k, v)' <=> Queued(k, v)
         /\ OneLine(v)' <=> OneLine(v)
         /\ cfg'[v] = cfg[v] => (OnlyFirstWorked(v)' <=> OnlyFirstWorked(v))
BY DEF Queued, Names, OneLine, OnlyFirstWorked

\* A step that is about other VMs: nothing of this one changes, nor does
\* the daemon work on it, before or after, unless the daemon does nothing.
LEMMA Untouched ==
  ASSUME NEW v \in VM, VMInv(v), SameFor(v),
         \A k \in Queue : Queued(k, v)' <=> Queued(k, v),
         v \notin crossed' => v \notin crossed, Orderly(v)' => Orderly(v),
         v \notin crossed' /\ OneLine(v) => OneLine(v)',
         OnlyFirstWorked(v) => OnlyFirstWorked(v)',
         failures' = 0 => failures = 0, LockedOut => LockedOut',
         (~Working(v) /\ ~Working(v)') \/ UNCHANGED <<spc, q, cur, ret>>
  PROVE  VMInv(v)'
<1>a. /\ Queued("init", v)' <=> Queued("init", v)
      /\ Queued("uninit", v)' <=> Queued("uninit", v)
      /\ Queued("delete", v)' <=> Queued("delete", v)
  BY DEF Queue
<1>b. ~(~Working(v) /\ ~Working(v)') =>
        /\ Working(v)' <=> Working(v)
        /\ spc' = spc /\ q' = q /\ ret' = ret
  BY DEF Working
<1>1. ASSUME Straight(v), v \notin crossed', v \notin crossed PROVE Straight(v)'
  BY <1>1, <1>a, <1>b DEF Straight, SameFor
<1>2. ASSUME FilesFollow(v) PROVE FilesFollow(v)'
  BY <1>2, <1>a, <1>b DEF FilesFollow, SameFor
<1>3. ASSUME HostFollows(v) PROVE HostFollows(v)'
  <2>1. Usable(v)' <=> Usable(v)
    BY DEF Usable, SameFor
  <2>2. QED
    BY <1>3, <1>a, <1>b, <2>1 DEF HostFollows, SameFor
<1>4. QED
  BY <1>1, <1>2, <1>3 DEF VMInv

\* The steps of the daemon between two lines, and its coming and going as
\* long as it is not at work on the VM.
LEMMA IdleOrder ==
  ASSUME IInv, OrderInv, NEW v \in VM, ~Working(v),
         \/ StartService \/ Setup \/ SetupFails \/ LoopDone \/ Choose \/ Term
         \/ Kill
  PROVE  VMInv(v)'
<1> USE DEF Goto, Busy, queueVars, fileVars, envVars, boundVars
<1>1. VMInv(v) /\ failures \in Nat
  BY DEF OrderInv, IInv, TypeOK
<1>2. UNCHANGED <<queue, lost, pod, cfg, status, data, procs, sockets>>
  BY DEF StartService, Setup, SetupFails, LoopDone, Choose, Term, Kill
<1>3. SameFor(v)
  BY <1>2 DEF SameFor
<1>4. v \notin crossed' => v \notin crossed
  BY DEF StartService, Setup, SetupFails, LoopDone, Choose, Term, Kill
<1>5. failures' = 0 => failures = 0
  BY <1>1 DEF StartService, Setup, SetupFails, LoopDone, Choose, Term, Kill
<1>6. LockedOut => LockedOut'
  BY DEF LockedOut, StartService, Setup, SetupFails, LoopDone, Choose, Term, Kill
<1>7. ~Working(v)'
  BY DEF Working, StartService, Setup, SetupFails, LoopDone, Choose, Term, Kill
<1>8. Orderly(v)' => Orderly(v)
  BY <1>2, <1>4 DEF Orderly
<1>9. /\ \A k \in Queue : Queued(k, v)' <=> Queued(k, v)
      /\ OneLine(v)' <=> OneLine(v)
      /\ OnlyFirstWorked(v)' <=> OnlyFirstWorked(v)
  BY <1>2, QueueSame
<1>10. QED
  BY <1>1, <1>3, <1>4, <1>5, <1>6, <1>7, <1>8, <1>9, Untouched

\* A signal while the daemon works on the VM: unless the request was an
\* init that has been run, it is carried out once more; after SIGKILL nothing
\* is.
LEMMA SignalOrder ==
  ASSUME IInv, OrderInv, NEW v \in VM, Working(v), Term \/ Kill
  PROVE  VMInv(v)'
<1> USE DEF Goto, Busy, queueVars, fileVars, envVars, boundVars
<1>1. VMInv(v) /\ PidFileFollows /\ q \in Queue
  BY DEF OrderInv, IInv, TypeOK
<1>2. UNCHANGED <<queue, lost, pod, cfg, status, data, procs, sockets, failures>>
  BY DEF Term, Kill
<1>3. SameFor(v)
  BY <1>2 DEF SameFor
<1>4. /\ Queued("init", v)' <=> Queued("init", v)
      /\ Queued("uninit", v)' <=> Queued("uninit", v)
      /\ Queued("delete", v)' <=> Queued("delete", v)
      /\ OneLine(v)' <=> OneLine(v)
      /\ OnlyFirstWorked(v)' <=> OnlyFirstWorked(v)
  BY <1>2, <1>3, QueueSame DEF Queue, SameFor
<1>5. spc' = "off" /\ ~Working(v)' /\ ~LockedOut
  BY DEF Term, Kill, Working, LockedOut
<1>6. v \notin crossed' =>
        /\ v \notin crossed
        /\ LockedOut' \/ ~Queued("init", v) \/ spc \in {"run", "rmdata"}
  <2>1. CASE Kill
    BY <1>1, <2>1 DEF Kill, PidFileFollows, LockedOut
  <2>2. CASE Term
    <3>1. v \notin crossed' =>
            /\ v \notin crossed
            /\ q # "init" \/ spc \in {"run", "rmdata"}
      BY <2>2 DEF Term, Working
    <3>2. v \notin crossed /\ q # "init" => ~Queued("init", v)
      BY <1>1, WorkingLine DEF VMInv, Straight, Queue
    <3>3. QED
      BY <3>1, <3>2
  <2>3. QED
    BY <2>1, <2>2
<1>7. ASSUME v \notin crossed' PROVE Straight(v)' /\ FilesFollow(v)'
  <2>1. Straight(v) /\ FilesFollow(v)
    BY <1>1, <1>6, <1>7 DEF VMInv
  <2>2. Straight(v)'
    BY <1>3, <1>4, <1>5, <1>6, <1>7, <2>1 DEF Straight, SameFor
  <2>3. FilesFollow(v)'
    BY <1>2, <1>3, <1>4, <1>5, <2>1 DEF FilesFollow, SameFor
  <2>4. QED
    BY <2>2, <2>3
<1>8. ASSUME Orderly(v)' PROVE HostFollows(v)'
  <2>1. v \notin crossed' /\ Orderly(v)
    BY <1>2, <1>6, <1>8 DEF Orderly
  <2>2. HostFollows(v)
    BY <1>1, <2>1 DEF VMInv
  <2>3. Usable(v)' <=> Usable(v)
    BY <1>3 DEF Usable, SameFor
  <2>4. QED
    BY <1>3, <1>4, <1>5, <1>6, <2>1, <2>2, <2>3 DEF HostFollows, SameFor
<1>9. QED
  BY <1>7, <1>8 DEF VMInv

\* Taking a line and reading it with sed.
LEMMA TakeOrder ==
  ASSUME IInv, OrderInv, NEW v \in VM, TakeHead \/ SedRead
  PROVE  VMInv(v)'
<1> USE DEF Goto, Busy, queueVars, fileVars, envVars, boundVars
<1>1. VMInv(v)
  BY DEF OrderInv
<1>2. UNCHANGED <<queue, lost, crossed, pod, cfg, status, data, procs,
                  sockets, failures, q, ret>>
  BY DEF TakeHead, SedRead
<1>3. SameFor(v)
  BY <1>2 DEF SameFor
<1>4. /\ Queued("init", v)' <=> Queued("init", v)
      /\ Queued("uninit", v)' <=> Queued("uninit", v)
      /\ Queued("delete", v)' <=> Queued("delete", v)
      /\ OneLine(v)' <=> OneLine(v)
      /\ OnlyFirstWorked(v)' <=> OnlyFirstWorked(v)
  BY <1>2, <1>3, QueueSame DEF Queue, SameFor
<1>5. ~LockedOut /\ ~LockedOut'
  BY DEF LockedOut, TakeHead, SedRead
<1>6. \/ ~Working(v) /\ spc' = "run"
      \/ spc = "sed" /\ spc' = "rename" /\ (Working(v)' <=> Working(v))
  BY DEF Working, TakeHead, SedRead
<1>7. ASSUME v \notin crossed' PROVE Straight(v)' /\ FilesFollow(v)'
  <2>1. Straight(v) /\ FilesFollow(v)
    BY <1>1, <1>2, <1>7 DEF VMInv
  <2>2. Straight(v)'
    BY <1>3, <1>4, <1>5, <1>6, <2>1 DEF Straight, SameFor
  <2>3. FilesFollow(v)'
    BY <1>2, <1>3, <1>4, <1>6, <2>1 DEF FilesFollow, SameFor
  <2>4. QED
    BY <2>2, <2>3
<1>8. ASSUME Orderly(v)' PROVE HostFollows(v)'
  <2>1. HostFollows(v)
    BY <1>1, <1>2, <1>8 DEF VMInv, Orderly
  <2>2. Usable(v)' <=> Usable(v)
    BY <1>3 DEF Usable, SameFor
  <2>3. QED
    BY <1>2, <1>3, <1>4, <1>5, <1>6, <2>1, <2>2 DEF HostFollows, SameFor
<1>9. QED
  BY <1>7, <1>8 DEF VMInv

\* Removing the line: what it asked for has been done, or the line is lost.
LEMMA SedRenameOrder ==
  ASSUME IInv, OrderInv, NEW v \in VM, SedRename
  PROVE  VMInv(v)'
<1> USE DEF Goto, Busy, queueVars, fileVars, envVars, boundVars
<1>1. VMInv(v) /\ q \in Queue
  BY DEF OrderInv, IInv, TypeOK
<1>2. /\ UNCHANGED <<crossed, pod, cfg, status, data, procs, sockets, failures,
                     q, cur, ret>>
      /\ spc = "rename" /\ spc' = "test"
  BY DEF SedRename
<1>3. SameFor(v) /\ ~Working(v)' /\ ~LockedOut
  BY <1>2 DEF SameFor, Working, LockedOut
<1>4. /\ \A l \in Queue : Queued(l, v)' => Queued(l, v)
      /\ OneLine(v) => OneLine(v)'
      /\ \A l \in Queue : OneLine(v) /\ cur = {v} => ~Queued(l, v)'
      /\ \A l \in Queue :
           Queued(l, v) => \/ Queued(l, v)'
                           \/ l = q /\ (cur = {v} \/ v \in lost'[l])
      /\ OnlyFirstWorked(v) => OnlyFirstWorked(v)'
      /\ cur # {v} /\ q = "delete" /\ Queued(q, v) /\ OnlyFirstWorked(v) => cfg[v]
      /\ v \in lost["uninit"] => v \in lost'["uninit"]
  BY SedOrder
<1>5. Working(v) <=> cur = {v}
  BY <1>2 DEF Working
<1>6. /\ Queued("init", v)' => Queued("init", v)
      /\ Queued("uninit", v)' => Queued("uninit", v)
      /\ Queued("delete", v)' => Queued("delete", v)
  BY <1>1, <1>4 DEF Queue
<1>7. ASSUME v \notin crossed' PROVE Straight(v)' /\ FilesFollow(v)'
  <2>1. Straight(v) /\ FilesFollow(v)
    BY <1>1, <1>2, <1>7 DEF VMInv
  <2>2. OneLine(v)
    BY <2>1 DEF Straight
  <2>3. Working(v) => ~Queued("init", v)'
    BY <1>4, <1>5, <2>2 DEF Queue
  <2>4. Straight(v)'
    BY <1>3, <1>4, <1>6, <2>1, <2>2, <2>3 DEF Straight, SameFor
  <2>5. failures = 0 /\ ~cfg[v] /\ ~Queued("delete", v)' => ~data[v]
    <3>1. CASE ~Queued("delete", v)
      BY <2>1, <3>1 DEF FilesFollow
    <3>2. CASE Queued("delete", v) /\ ~Queued("delete", v)'
      <4>1. q = "delete"
        BY <1>1, <1>4, <3>2 DEF Queue
      <4>2. CASE cur = {v}
        BY <1>2, <1>5, <2>1, <4>1, <4>2 DEF FilesFollow
      <4>3. CASE cur # {v}
        BY <1>4, <2>1, <3>2, <4>1, <4>3 DEF FilesFollow
      <4>4. QED
        BY <4>2, <4>3
    <3>3. QED
      BY <3>1, <3>2
  <2>6. FilesFollow(v)'
    BY <1>2, <1>3, <1>4, <2>1, <2>5 DEF FilesFollow, SameFor
  <2>7. QED
    BY <2>4, <2>6
<1>8. ASSUME Orderly(v)' PROVE HostFollows(v)'
  <2>1. Orderly(v) /\ v \notin lost'["uninit"] /\ v \notin crossed
    BY <1>2, <1>4, <1>8 DEF Orderly
  <2>2. HostFollows(v) /\ Straight(v)
    BY <1>1, <2>1 DEF VMInv
  <2>3. Usable(v)' <=> Usable(v)
    BY <1>3 DEF Usable, SameFor
  <2>4. ~Queued("uninit", v)' /\ Queued("uninit", v) => procs[v] = {}
    <3> SUFFICES ASSUME ~Queued("uninit", v)', Queued("uninit", v)
                 PROVE  procs[v] = {}
      OBVIOUS
    <3>1. q = "uninit"
      BY <1>1, <1>4 DEF Queue
    <3>2. cur = {v}
      BY <1>4, <2>1, <3>1 DEF Queue
    <3>3. QED
      BY <1>2, <1>5, <2>2, <3>1, <3>2 DEF HostFollows
  <2>5. pod[v] = "wait" /\ status[v] # "ok" => procs[v] = {}
    BY <1>2, <1>3, <2>2 DEF HostFollows
  <2>6. QED
    BY <1>3, <2>2, <2>3, <2>4, <2>5 DEF HostFollows, SameFor
<1>9. QED
  BY <1>7, <1>8 DEF VMInv
\* What the daemon does with a line of another VM.
LEMMA WorkElsewhere ==
  ASSUME IInv, OrderInv, NEW v \in VM, ~Working(v),
         \/ RunStart \/ RunStartFails \/ RunStartNoCfg \/ WriteStatus
         \/ RunStop \/ RunDelete \/ DeleteData
  PROVE  VMInv(v)'
<1> USE DEF Goto, Busy, queueVars, fileVars, envVars, boundVars, Started
<1>1. VMInv(v) /\ TypeOK
  BY DEF OrderInv, IInv
<1>2. /\ UNCHANGED <<queue, lost, crossed, pod, cur>>
      /\ spc \in Busy /\ spc' \in Busy
  BY DEF RunStart, RunStartFails, RunStartNoCfg, WriteStatus, RunStop,
         RunDelete, DeleteData
<1>3. \A u \in cur : u # v
  BY <1>2 DEF Working, IInv, HeadIsCurrent
<1>4. SameFor(v)
  <2>1. CASE RunStart \/ RunStartFails \/ RunStartNoCfg
    BY <1>1, <1>3, <2>1 DEF RunStart, RunStartFails, RunStartNoCfg, TypeOK, SameFor
  <2>2. CASE WriteStatus \/ RunDelete \/ DeleteData
    BY <1>1, <1>3, <2>2 DEF WriteStatus, RunDelete, DeleteData, TypeOK, SameFor
  <2>3. CASE RunStop
    BY <1>1, <1>3, <2>3 DEF RunStop, Stop, TypeOK, SameFor
  <2>4. QED
    BY <2>1, <2>2, <2>3
<1>5. failures' = 0 => failures = 0
  BY <1>1 DEF TypeOK, RunStart, RunStartFails, RunStartNoCfg, WriteStatus,
              RunStop, RunDelete, DeleteData
<1>6. ~LockedOut /\ ~Working(v)'
  BY <1>2 DEF LockedOut, Working
<1>7. Orderly(v)' => Orderly(v)
  BY <1>2 DEF Orderly
<1>8. /\ \A k \in Queue : Queued(k, v)' <=> Queued(k, v)
      /\ OneLine(v)' <=> OneLine(v)
      /\ OnlyFirstWorked(v)' <=> OnlyFirstWorked(v)
  BY <1>2, <1>4, QueueSame DEF SameFor
<1>9. QED
  BY <1>1, <1>2, <1>4, <1>5, <1>6, <1>7, <1>8, Untouched

\* What is queued for the VM the daemon works on, if its requests did not
\* cross: the line the daemon took, which the queue file still holds.
LEMMA WorkingAlone ==
  ASSUME IInv, OrderInv, NEW v \in VM, Working(v), v \notin crossed
  PROVE  /\ Straight(v) /\ FilesFollow(v)
         /\ q = "init" <=> Queued("init", v)
         /\ q = "uninit" <=> Queued("uninit", v)
         /\ q = "delete" <=> Queued("delete", v)
         /\ q \in Queue
<1>1. Straight(v) /\ FilesFollow(v) /\ q \in Queue
  BY DEF OrderInv, VMInv, IInv, TypeOK
<1>2. Queued(q, v) /\ \A k \in Queue \ {q} : ~Queued(k, v)
  BY <1>1, WorkingLine DEF Straight
<1>3. QED
  BY <1>1, <1>2 DEF Queue
\* What android-env.sh start comes to.
LEMMA OutcomeFields ==
  ASSUME NEW p, NEW s, NEW d, NEW r
  PROVE  LET o == Outcome(p, s, d, r)
         IN  o.procs = p /\ o.sockets = s /\ o.data = d /\ o.ret = r
BY DEF Outcome

LEMMA StartFailedReturns ==
  ASSUME NEW v \in VM, NEW o \in StartFailed(v)
  PROVE  o.ret = "failed"
BY DEF StartFailed, Outcome

\* Starting the VM's environment: nothing ran for it before, and a start
\* that says it succeeded has left a session manager and its sockets.
LEMMA StartOrder ==
  ASSUME IInv, OrderInv, NEW v \in VM, Working(v),
         RunStart \/ RunStartFails \/ RunStartNoCfg
  PROVE  VMInv(v)'
<1> USE DEF Goto, Busy, queueVars, fileVars, envVars, boundVars
<1>1. TypeOK /\ VMInv(v)
  BY DEF OrderInv, IInv
<1>2. /\ UNCHANGED <<queue, lost, crossed, pod, cur, cfg, status, q>>
      /\ spc = "run" /\ spc' = "status" /\ q = "init"
  BY DEF RunStart, RunStartFails, RunStartNoCfg, Started
<1>3. Working(v)' /\ ~LockedOut
  BY <1>2 DEF Working, LockedOut
<1>4. /\ Queued("init", v)' <=> Queued("init", v)
      /\ Queued("uninit", v)' <=> Queued("uninit", v)
      /\ Queued("delete", v)' <=> Queued("delete", v)
      /\ OneLine(v)' <=> OneLine(v)
      /\ OnlyFirstWorked(v)' <=> OnlyFirstWorked(v)
  BY <1>2, QueueSame DEF Queue
<1>5. ASSUME v \notin crossed
      PROVE  /\ Straight(v) /\ FilesFollow(v) /\ Queued("init", v)
             /\ pod[v] = "wait" /\ status[v] # "ok"
  <2>1. Straight(v) /\ FilesFollow(v) /\ Queued("init", v)
    BY <1>2, <1>5, WorkingAlone
  <2>2. QED
    BY <1>2, <1>3, <2>1 DEF Straight
<1>6. \/ /\ cfg[v] /\ ret' = "ok" /\ failures' = failures
         /\ sockets'[v] = ("session-manager" \notin procs[v])
         /\ data'[v] = TRUE /\ procs'[v] = Proc
      \/ cfg[v] /\ ret' = "failed" /\ failures' = failures + 1
      \/ /\ ~cfg[v] /\ ret' = "failed" /\ failures' = failures
         /\ procs'[v] = procs[v] /\ data'[v] = data[v]
  <2>1. cur = {v}
    BY DEF Working
  <2>2. CASE RunStart
    <3>1. cfg[v] /\ Started(v, StartOk(v)) /\ failures' = failures
      BY <2>1, <2>2 DEF RunStart
    <3>2. /\ StartOk(v).procs = Proc /\ StartOk(v).data = TRUE
          /\ StartOk(v).sockets = ("session-manager" \notin procs[v])
          /\ StartOk(v).ret = "ok"
      BY DEF StartOk, Outcome
    <3>3. QED
      BY <1>1, <3>1, <3>2 DEF Started, TypeOK
  <2>3. CASE RunStartFails
    <3>1. /\ cfg[v] /\ failures' = failures + 1
          /\ \E o \in StartFailed(v) : Started(v, o)
      BY <2>1, <2>3 DEF RunStartFails
    <3>2. QED
      BY <3>1, StartFailedReturns DEF Started
  <2>4. CASE RunStartNoCfg
    <3>1. /\ ~cfg[v] /\ failures' = failures
          /\ Started(v, Outcome(procs[v], sockets[v], data[v], "failed"))
      BY <2>1, <2>4 DEF RunStartNoCfg
    <3>2. QED
      BY <1>1, <3>1, OutcomeFields DEF Started, TypeOK
  <2>5. QED
    BY <2>2, <2>3, <2>4
<1>7. failures \in Nat
  BY <1>1 DEF TypeOK
<1>8. ASSUME v \notin crossed' PROVE Straight(v)' /\ FilesFollow(v)'
  <2>1. v \notin crossed
    BY <1>2, <1>8
  <2>2. Straight(v)'
    BY <1>2, <1>4, <1>5, <2>1 DEF Straight
  <2>3. failures' = 0 /\ ~cfg[v] => failures = 0 /\ data'[v] = data[v]
    BY <1>6, <1>7
  <2>4. FilesFollow(v)'
    BY <1>2, <1>4, <1>5, <2>1, <2>3 DEF FilesFollow
  <2>5. QED
    BY <2>2, <2>4
<1>9. ASSUME Orderly(v)' PROVE HostFollows(v)'
  <2>1. Orderly(v) /\ v \notin crossed
    BY <1>2, <1>9 DEF Orderly
  <2>2. HostFollows(v)
    BY <1>1, <2>1 DEF VMInv
  <2>3. procs[v] = {}
    BY <1>2, <1>3, <1>5, <2>1, <2>2 DEF HostFollows
  <2>4. /\ ret' = "ok" => Usable(v)' /\ data'[v] /\ cfg[v]
        /\ procs'[v] = {} \/ cfg[v]
    BY <1>6, <2>3 DEF Usable, Proc
  <2>5. QED
    BY <1>2, <1>3, <1>4, <1>5, <2>1, <2>4 DEF HostFollows
<1>10. QED
  BY <1>8, <1>9 DEF VMInv

\* The answer of an init: it is "ok" only when the environment is usable.
LEMMA AnswerOrder ==
  ASSUME IInv, OrderInv, NEW v \in VM, Working(v), WriteStatus
  PROVE  VMInv(v)'
<1> USE DEF Goto, Busy, queueVars, fileVars, envVars, boundVars
<1>1. TypeOK /\ VMInv(v) /\ AnswersInits /\ cur = {v}
  BY DEF OrderInv, IInv, Working
<1>2. /\ UNCHANGED <<queue, lost, crossed, pod, cur, cfg, data, procs, sockets,
                     q, failures>>
      /\ spc = "status" /\ q = "init"
      /\ spc' = IF ret = "ok" THEN "sed" ELSE "undo"
      /\ ret \in {"ok", "failed"}
  BY <1>1 DEF WriteStatus, AnswersInits, TypeOK
<1>3. Working(v)' /\ ~LockedOut
  BY <1>2 DEF Working, LockedOut
<1>4. /\ Queued("init", v)' <=> Queued("init", v)
      /\ Queued("uninit", v)' <=> Queued("uninit", v)
      /\ Queued("delete", v)' <=> Queued("delete", v)
      /\ OneLine(v)' <=> OneLine(v)
      /\ OnlyFirstWorked(v)' <=> OnlyFirstWorked(v)
  BY <1>2, QueueSame DEF Queue
<1>5. ASSUME v \notin crossed
      PROVE  /\ Straight(v) /\ FilesFollow(v) /\ Queued("init", v)
             /\ pod[v] = "wait" /\ status[v] # "ok"
  <2>1. Straight(v) /\ FilesFollow(v) /\ Queued("init", v)
    BY <1>2, <1>5, WorkingAlone
  <2>2. QED
    BY <1>2, <1>3, <2>1 DEF Straight
<1>6. status'[v] = IF cfg[v] THEN ret ELSE status[v]
  BY <1>1 DEF WriteStatus, TypeOK
<1>7. ASSUME v \notin crossed' PROVE Straight(v)' /\ FilesFollow(v)'
  <2>1. v \notin crossed
    BY <1>2, <1>7
  <2>2. Straight(v)'
    BY <1>2, <1>3, <1>4, <1>5, <1>6, <2>1 DEF Straight
  <2>3. FilesFollow(v)'
    BY <1>2, <1>4, <1>5, <2>1 DEF FilesFollow
  <2>4. QED
    BY <2>2, <2>3
<1>8. ASSUME Orderly(v)' PROVE HostFollows(v)'
  <2>1. Orderly(v) /\ v \notin crossed
    BY <1>2, <1>8 DEF Orderly
  <2>2. HostFollows(v)
    BY <1>1, <2>1 DEF VMInv
  <2>3. Usable(v)' <=> Usable(v)
    BY <1>2 DEF Usable
  <2>4. /\ ret = "ok" => Usable(v) /\ data[v] /\ cfg[v]
        /\ procs[v] = {} \/ cfg[v]
    BY <1>2, <2>2 DEF HostFollows, Working
  <2>5. QED
    BY <1>2, <1>3, <1>4, <1>5, <1>6, <2>1, <2>3, <2>4 DEF HostFollows
<1>9. QED
  BY <1>7, <1>8 DEF VMInv

\* Taking the VM's environment down: after a failed start, or for a line of
\* uninit.queue, which finds the description it needs.
LEMMA StopOrder ==
  ASSUME IInv, OrderInv, NEW v \in VM, Working(v), RunStop
  PROVE  VMInv(v)'
<1> USE DEF Goto, Busy, queueVars, fileVars, envVars, boundVars
<1>1. TypeOK /\ VMInv(v) /\ AnswersInits /\ cur = {v}
  BY DEF OrderInv, IInv, Working
<1>2. /\ UNCHANGED <<queue, lost, crossed, pod, cur, cfg, status, data, q, failures>>
      /\ spc' = "sed"
      /\ (spc = "undo" /\ q = "init") \/ (spc = "run" /\ q = "uninit")
  BY <1>1 DEF RunStop, AnswersInits
<1>3. Working(v)' /\ ~LockedOut
  BY <1>2 DEF Working, LockedOut
<1>4. /\ Queued("init", v)' <=> Queued("init", v)
      /\ Queued("uninit", v)' <=> Queued("uninit", v)
      /\ Queued("delete", v)' <=> Queued("delete", v)
      /\ OneLine(v)' <=> OneLine(v)
      /\ OnlyFirstWorked(v)' <=> OnlyFirstWorked(v)
  BY <1>2, QueueSame DEF Queue
<1>5. cfg[v] => procs'[v] = {}
  BY <1>1 DEF RunStop, Stop, TypeOK
<1>6. ~cfg[v] => procs' = procs
  BY <1>1 DEF RunStop, Stop
<1>7. ASSUME v \notin crossed
      PROVE  /\ Straight(v) /\ FilesFollow(v)
             /\ q = "init" => pod[v] = "wait" /\ status[v] # "ok"
             /\ q = "uninit" => pod[v] \notin {"wait", "running"} /\ cfg[v]
  <2>1. /\ Straight(v) /\ FilesFollow(v)
        /\ q = "init" => Queued("init", v)
        /\ q = "uninit" => Queued("uninit", v)
    BY <1>7, WorkingAlone
  <2>2. QED
    BY <1>2, <1>3, <2>1 DEF Straight
<1>8. ASSUME v \notin crossed' PROVE Straight(v)' /\ FilesFollow(v)'
  <2>1. v \notin crossed
    BY <1>2, <1>8
  <2>2. Straight(v)'
    BY <1>2, <1>3, <1>4, <1>7, <2>1 DEF Straight
  <2>3. FilesFollow(v)'
    BY <1>2, <1>4, <1>7, <2>1 DEF FilesFollow
  <2>4. QED
    BY <2>2, <2>3
<1>9. ASSUME Orderly(v)' PROVE HostFollows(v)'
  <2>1. Orderly(v) /\ v \notin crossed
    BY <1>2, <1>9 DEF Orderly
  <2>2. HostFollows(v)
    BY <1>1, <2>1 DEF VMInv
  <2>3. procs'[v] = {}
    BY <1>2, <1>5, <1>6, <1>7, <2>1, <2>2 DEF HostFollows, Working
  <2>4. QED
    BY <1>2, <1>7, <2>1, <2>3 DEF HostFollows
<1>10. QED
  BY <1>8, <1>9 DEF VMInv
\* Deleting the VM's files, which nothing that is still queued needs.
LEMMA DeleteOrder ==
  ASSUME IInv, OrderInv, NEW v \in VM, Working(v), RunDelete \/ DeleteData
  PROVE  VMInv(v)'
<1> USE DEF Goto, Busy, queueVars, fileVars, envVars, boundVars
<1>1. TypeOK /\ VMInv(v) /\ RmdataInDelete /\ cur = {v}
  BY DEF OrderInv, IInv, Working
<1>2. /\ UNCHANGED <<queue, lost, crossed, pod, cur, procs, sockets, q>>
      /\ spc \in Busy /\ spc' \in {"rmdata", "sed"} /\ q = "delete"
  BY <1>1 DEF RunDelete, DeleteData, RmdataInDelete
<1>3. Working(v)' /\ ~LockedOut
  BY <1>2 DEF Working, LockedOut
<1>4. /\ Queued("init", v)' <=> Queued("init", v)
      /\ Queued("uninit", v)' <=> Queued("uninit", v)
      /\ Queued("delete", v)' <=> Queued("delete", v)
      /\ OneLine(v)' <=> OneLine(v)
  BY <1>2, QueueSame DEF Queue
<1>5. ASSUME v \notin crossed
      PROVE  /\ Straight(v) /\ FilesFollow(v)
             /\ ~Queued("init", v) /\ ~Queued("uninit", v) /\ Queued("delete", v)
             /\ pod[v] \notin {"wait", "running", "stopping"}
  <2>1. /\ Straight(v) /\ FilesFollow(v)
        /\ ~Queued("init", v) /\ ~Queued("uninit", v) /\ Queued("delete", v)
    BY <1>2, <1>5, WorkingAlone
  <2>2. QED
    BY <2>1 DEF Straight
<1>6. \/ cfg'[v] = FALSE /\ status'[v] = "none" /\ spc' = "rmdata"
      \/ cfg'[v] = cfg[v] /\ status'[v] = status[v]
  BY <1>1 DEF RunDelete, DeleteData, TypeOK
<1>7. spc' = "sed" /\ failures' = 0 => ~data'[v]
  BY <1>1 DEF RunDelete, DeleteData, TypeOK
<1>8. ASSUME v \notin crossed' PROVE Straight(v)' /\ FilesFollow(v)'
  <2>1. v \notin crossed
    BY <1>2, <1>8
  <2>2. Straight(v)'
    BY <1>2, <1>4, <1>5, <1>6, <2>1 DEF Straight
  <2>3. OnlyFirstWorked(v)'
    <3> SUFFICES ASSUME NEW i \in 1..Len(queue["delete"]),
                        queue["delete"][i] = v, i > 1
                 PROVE  FALSE
      BY <1>2 DEF OnlyFirstWorked
    <3>1. /\ queue["delete"] \in Seq(VM) /\ queue["delete"] # <<>>
          /\ v = Head(queue["delete"])
      BY <1>1, <1>2 DEF IInv, HeadIsCurrent, TypeOK
    <3>2. 1 \in 1..Len(queue["delete"]) /\ queue["delete"][1] = v
      BY <3>1, HeadTailFacts
    <3>3. i = 1
      BY <1>5, <2>1, <3>2 DEF Straight, OneLine, Queue
    <3>4. QED
      BY <3>3
  <2>4. FilesFollow(v)'
    BY <1>2, <1>4, <1>5, <1>7, <2>1, <2>3 DEF FilesFollow
  <2>5. QED
    BY <2>2, <2>4
<1>9. ASSUME Orderly(v)' PROVE HostFollows(v)'
  <2>1. Orderly(v) /\ v \notin crossed
    BY <1>2, <1>9 DEF Orderly
  <2>2. HostFollows(v)
    BY <1>1, <2>1 DEF VMInv
  <2>3. QED
    BY <1>2, <1>4, <1>5, <2>1, <2>2 DEF HostFollows
<1>10. QED
  BY <1>8, <1>9 DEF VMInv

\* What becomes of another VM's pod.
LEMMA PodElsewhere ==
  ASSUME IInv, OrderInv, NEW v \in VM, NEW u \in VM, u # v,
         \/ PodCreated(u) \/ InitWriteCfg(u) \/ InitClearStatus(u)
         \/ InitQueue(u) \/ InitDone(u) \/ PreStop(u) \/ PodGone(u)
         \/ InitPodDeleted(u) \/ DeleteJob(u)
  PROVE  VMInv(v)'
<1> USE DEF daemonVars, queueVars, fileVars, envVars, boundVars
<1>1. VMInv(v) /\ TypeOK
  BY DEF OrderInv, IInv
<1>2. UNCHANGED <<spc, q, cur, ret, pidFile>> /\ (failures' = 0 => failures = 0)
  BY <1>1 DEF PodCreated, InitWriteCfg, InitClearStatus, InitQueue, InitDone,
              PreStop, PodGone, InitPodDeleted, DeleteJob, TypeOK
<1>3. SameFor(v)
  <2>1. CASE InitWriteCfg(u) \/ InitClearStatus(u) \/ InitDone(u)
    BY <1>1, <2>1 DEF InitWriteCfg, InitClearStatus, InitDone, SameFor, TypeOK
  <2>2. CASE \/ PodCreated(u) \/ InitQueue(u) \/ PreStop(u) \/ PodGone(u)
             \/ InitPodDeleted(u) \/ DeleteJob(u)
    BY <1>1, <2>2 DEF PodCreated, InitQueue, PreStop, PodGone, InitPodDeleted,
                      DeleteJob, SameFor, TypeOK
  <2>3. QED
    BY <2>1, <2>2
<1>4. LockedOut => LockedOut'
  BY <1>2 DEF LockedOut
<1>5. CASE InitQueue(u) \/ PreStop(u) \/ DeleteJob(u)
  <2>1. PICK k \in Queue : AppendTo(k, u)
    BY <1>5 DEF InitQueue, PreStop, DeleteJob, Queue
  <2>2. /\ \A l \in Queue : Queued(l, v)' <=> Queued(l, v)
        /\ v \notin crossed' => v \notin crossed
        /\ v \notin crossed' /\ OneLine(v) => OneLine(v)'
        /\ cfg' = cfg => (OnlyFirstWorked(v) => OnlyFirstWorked(v)')
        /\ v \in lost'["uninit"] <=> v \in lost["uninit"]
    BY <1>1, <2>1, AppendOrder
  <2>3. cfg' = cfg
    BY <1>5 DEF InitQueue, PreStop, DeleteJob
  <2>4. Orderly(v)' => Orderly(v)
    BY <2>2 DEF Orderly
  <2>5. QED
    BY <1>1, <1>2, <1>3, <1>4, <2>2, <2>3, <2>4, Untouched
<1>6. CASE \/ PodCreated(u) \/ InitWriteCfg(u) \/ InitClearStatus(u)
           \/ InitDone(u) \/ PodGone(u) \/ InitPodDeleted(u)
  <2>1. queue' = queue /\ lost' = lost
    BY <1>6 DEF PodCreated, InitWriteCfg, InitClearStatus, InitDone, PodGone,
                InitPodDeleted
  <2>2. v \notin crossed' => v \notin crossed
    BY <1>6 DEF PodCreated, InitWriteCfg, InitClearStatus, InitDone, PodGone,
                InitPodDeleted
  <2>3. /\ \A k \in Queue : Queued(k, v)' <=> Queued(k, v)
        /\ OneLine(v)' <=> OneLine(v)
        /\ OnlyFirstWorked(v)' <=> OnlyFirstWorked(v)
    BY <1>3, <2>1, QueueSame DEF SameFor
  <2>4. Orderly(v)' => Orderly(v)
    BY <2>1, <2>2 DEF Orderly
  <2>5. QED
    BY <1>1, <1>2, <1>3, <1>4, <2>2, <2>3, <2>4, Untouched
<1>7. QED
  BY <1>5, <1>6
\* The life of the VM's own pod, as long as it asks for nothing.
LEMMA PodOrder ==
  ASSUME IInv, OrderInv, NEW v \in VM,
         \/ PodCreated(v) \/ InitWriteCfg(v) \/ InitClearStatus(v)
         \/ InitDone(v) \/ PodGone(v) \/ InitPodDeleted(v)
  PROVE  VMInv(v)'
<1> USE DEF daemonVars, queueVars, fileVars, envVars, boundVars
<1>1. VMInv(v) /\ TypeOK /\ StatusInDir
  BY DEF OrderInv, IInv
<1>2. UNCHANGED <<spc, q, cur, ret, pidFile, failures, queue, lost, procs, sockets>>
  BY DEF PodCreated, InitWriteCfg, InitClearStatus, InitDone, PodGone,
         InitPodDeleted
<1>3. /\ Queued("init", v)' <=> Queued("init", v)
      /\ Queued("uninit", v)' <=> Queued("uninit", v)
      /\ Queued("delete", v)' <=> Queued("delete", v)
      /\ OneLine(v)' <=> OneLine(v)
      /\ cfg'[v] = cfg[v] => (OnlyFirstWorked(v)' <=> OnlyFirstWorked(v))
  BY <1>2, QueueSame DEF Queue
<1>4. /\ Working(v)' <=> Working(v)
      /\ LockedOut' <=> LockedOut
      /\ Usable(v)' <=> Usable(v)
  BY <1>2 DEF Working, LockedOut, Usable
<1>5. v \notin crossed' => v \notin crossed
  BY DEF PodCreated, InitWriteCfg, InitClearStatus, InitDone, PodGone,
         InitPodDeleted
<1>6. Working(v) => Queued(q, v) /\ q \in Queue
  BY <1>1, WorkingLine DEF TypeOK
<1>7. Straight(v) /\ Working(v) /\ q = "delete" => pod[v] # "wait"
  BY <1>6 DEF Straight
<1>8. \/ /\ pod[v] = "none" /\ pod'[v] = "cfg"
         /\ cfg'[v] = cfg[v] /\ status'[v] = status[v] /\ data'[v] = data[v]
      \/ /\ pod[v] = "cfg" /\ pod'[v] = "clear"
         /\ cfg'[v] = TRUE /\ status'[v] = status[v] /\ data'[v] = data[v]
      \/ /\ pod[v] = "clear" /\ pod'[v] = "append"
         /\ cfg'[v] = cfg[v] /\ status'[v] \in {"empty", "none"}
         /\ data'[v] = data[v]
      \/ /\ pod[v] = "wait" /\ pod'[v] = "running" /\ status[v] = "ok"
         /\ cfg[v] /\ cfg'[v] = cfg[v] /\ status'[v] = status[v] /\ data'[v] = TRUE
      \/ /\ pod[v] = "stopping" /\ pod'[v] = "none"
         /\ cfg'[v] = cfg[v] /\ status'[v] = status[v] /\ data'[v] = data[v]
      \/ /\ pod[v] \in InitPhase /\ pod'[v] = "none"
         /\ v \notin crossed' => Quiet(v) /\ (pod[v] = "wait" => status[v] # "ok")
         /\ cfg'[v] = cfg[v] /\ status'[v] = status[v] /\ data'[v] = data[v]
  <2>1. CASE PodCreated(v) \/ PodGone(v)
    BY <1>1, <2>1 DEF PodCreated, PodGone, TypeOK
  <2>2. CASE InitWriteCfg(v)
    BY <1>1, <2>2 DEF InitWriteCfg, TypeOK
  <2>3. CASE InitClearStatus(v)
    <3>1. status'[v] \in {"empty", "none"}
      BY <1>1, <2>3 DEF InitClearStatus, TypeOK, StatusInDir
    <3>2. QED
      BY <1>1, <2>3, <3>1 DEF InitClearStatus, TypeOK
  <2>4. CASE InitDone(v)
    <3>1. cfg[v]
      BY <1>1, <2>4 DEF InitDone, StatusInDir
    <3>2. QED
      BY <1>1, <2>4, <3>1 DEF InitDone, TypeOK
  <2>5. CASE InitPodDeleted(v)
    BY <1>1, <2>5 DEF InitPodDeleted, TypeOK
  <2>6. QED
    BY <2>1, <2>2, <2>3, <2>4, <2>5
<1>9. Quiet(v) => /\ ~Queued("init", v) /\ ~Queued("uninit", v)
                  /\ ~Queued("delete", v)
  BY DEF Quiet, Queue
<1>10. ASSUME v \notin crossed' PROVE Straight(v)' /\ FilesFollow(v)'
  <2>1. Straight(v) /\ FilesFollow(v)
    BY <1>1, <1>5, <1>10 DEF VMInv
  <2>2. Straight(v)'
    BY <1>2, <1>3, <1>4, <1>8, <1>9, <1>10, <2>1 DEF Straight, InitPhase
  <2>3. OnlyFirstWorked(v)'
    BY <1>3, <1>8, <2>1 DEF OnlyFirstWorked, FilesFollow
  <2>4. FilesFollow(v)'
    BY <1>2, <1>3, <1>4, <1>7, <1>8, <2>1, <2>3 DEF FilesFollow
  <2>5. QED
    BY <2>2, <2>4
<1>11. ASSUME Orderly(v)' PROVE HostFollows(v)'
  <2>1. v \notin crossed' /\ Orderly(v) /\ v \notin crossed
    BY <1>2, <1>5, <1>11 DEF Orderly
  <2>2. HostFollows(v) /\ Straight(v)
    BY <1>1, <2>1 DEF VMInv
  <2>3. QED
    BY <1>2, <1>3, <1>4, <1>8, <1>9, <2>1, <2>2 DEF HostFollows, InitPhase
<1>12. QED
  BY <1>10, <1>11 DEF VMInv

\* A request for the VM; its earlier ones are over unless they cross.
LEMMA AskOrder ==
  ASSUME IInv, OrderInv, NEW v \in VM, InitQueue(v) \/ PreStop(v) \/ DeleteJob(v)
  PROVE  VMInv(v)'
<1> USE DEF daemonVars, queueVars, fileVars, envVars, boundVars
<1>1. VMInv(v) /\ TypeOK /\ StatusInDir
  BY DEF OrderInv, IInv
<1>2. /\ UNCHANGED <<spc, q, cur, ret, pidFile, cfg, status, data, procs, sockets>>
      /\ failures' = 0 => failures = 0
  BY <1>1 DEF InitQueue, PreStop, DeleteJob, TypeOK
<1>3. PICK k \in Queue :
        /\ AppendTo(k, v)
        /\ \/ k = "init" /\ pod[v] = "append" /\ pod'[v] = "wait"
           \/ k = "uninit" /\ pod[v] = "running" /\ pod'[v] = "stopping"
           \/ k = "delete" /\ pod'[v] = pod[v] /\ (pod[v] = "none" => cfg[v])
  BY <1>1 DEF InitQueue, PreStop, DeleteJob, Queue, TypeOK
<1>4. /\ \A l \in Queue : Queued(l, v)' <=> Queued(l, v) \/ l = k
      /\ v \notin crossed' => /\ v \notin crossed /\ Quiet(v)
                              /\ k = "delete" => pod[v] = "none"
      /\ v \notin crossed' /\ OneLine(v) => OneLine(v)'
      /\ v \notin crossed' /\ OnlyFirstWorked(v) => OnlyFirstWorked(v)'
      /\ k # "uninit" => (v \in lost'["uninit"] <=> v \in lost["uninit"])
  BY <1>1, <1>2, <1>3, AppendOrder
<1>5. SUFFICES ASSUME v \notin crossed'
               PROVE  /\ Straight(v)' /\ FilesFollow(v)'
                      /\ Orderly(v)' => HostFollows(v)'
  BY DEF VMInv, Orderly
<1>6. /\ ~Queued("init", v) /\ ~Queued("uninit", v) /\ ~Queued("delete", v)
      /\ Queued("init", v)' <=> k = "init"
      /\ Queued("uninit", v)' <=> k = "uninit"
      /\ Queued("delete", v)' <=> k = "delete"
  BY <1>4, <1>5 DEF Quiet, Queue
<1>7. ~Working(v)
  BY <1>1, <1>4, <1>5, WorkingLine DEF Quiet, TypeOK
<1>8. ~Working(v)' /\ (LockedOut' <=> LockedOut) /\ (Usable(v)' <=> Usable(v))
  BY <1>2, <1>7 DEF Working, LockedOut, Usable
<1>9. Straight(v) /\ FilesFollow(v)
  BY <1>1, <1>4, <1>5 DEF VMInv
<1>10. Straight(v)'
  BY <1>2, <1>3, <1>4, <1>5, <1>6, <1>8, <1>9 DEF Straight
<1>11. FilesFollow(v)'
  BY <1>2, <1>3, <1>4, <1>5, <1>6, <1>8, <1>9 DEF FilesFollow
<1>12. ASSUME Orderly(v)' PROVE HostFollows(v)'
  <2>1. k # "uninit" => HostFollows(v)
    BY <1>1, <1>4, <1>5, <1>12 DEF VMInv, Orderly
  <2>2. QED
    BY <1>2, <1>3, <1>4, <1>5, <1>6, <1>8, <1>9, <2>1 DEF HostFollows, Straight
<1>13. QED
  BY <1>10, <1>11, <1>12

\* The host goes down: no process is left, and no pod waits or runs.
LEMMA RebootOrder ==
  ASSUME IInv, OrderInv, NEW v \in VM, HostReboot
  PROVE  VMInv(v)'
<1> USE DEF fileVars
<1>1. VMInv(v) /\ TypeOK
  BY DEF OrderInv, IInv
<1>2. /\ UNCHANGED <<queue, lost, cfg, status, data, failures>>
      /\ spc' = "off" /\ procs'[v] = {} /\ pod'[v] \in {"none", "cfg"}
      /\ v \notin crossed' => v \notin crossed /\ ~Queued("init", v)
  BY DEF HostReboot
<1>3. /\ Queued("init", v)' <=> Queued("init", v)
      /\ Queued("uninit", v)' <=> Queued("uninit", v)
      /\ Queued("delete", v)' <=> Queued("delete", v)
      /\ OneLine(v)' <=> OneLine(v)
      /\ OnlyFirstWorked(v)' <=> OnlyFirstWorked(v)
  BY <1>2, QueueSame DEF Queue
<1>4. ~Working(v)'
  BY <1>2 DEF Working, Busy
<1>5. ASSUME v \notin crossed' PROVE Straight(v)' /\ FilesFollow(v)'
  <2>1. Straight(v) /\ FilesFollow(v) /\ ~Queued("init", v)
    BY <1>1, <1>2, <1>5 DEF VMInv
  <2>2. Straight(v)'
    BY <1>2, <1>3, <2>1 DEF Straight
  <2>3. FilesFollow(v)'
    BY <1>2, <1>3, <1>4, <2>1 DEF FilesFollow
  <2>4. QED
    BY <2>2, <2>3
<1>6. HostFollows(v)'
  BY <1>2, <1>4 DEF HostFollows
<1>7. QED
  BY <1>5, <1>6 DEF VMInv
-----------------------------------------------------------------------------
(* The invariant                                                           *)

LEMMA InitOrder == Init => OrderInv
<1> SUFFICES ASSUME Init PROVE OrderInv
  OBVIOUS
<1>1. PidFileFollows /\ AnswersInits
  BY DEF Init, PidFileFollows, AnswersInits
<1>2. ASSUME NEW v \in VM PROVE VMInv(v)
  <2>1. \A k \in Queue : Len(queue[k]) = 0
    BY DEF Init
  <2>2. /\ ~Queued("init", v) /\ ~Queued("uninit", v) /\ ~Queued("delete", v)
        /\ OneLine(v) /\ OnlyFirstWorked(v)
    BY <2>1 DEF Queued, Names, OneLine, OnlyFirstWorked, Queue
  <2>3. /\ spc = "off" /\ pod[v] = "none" /\ status[v] = "none"
        /\ data[v] = FALSE /\ procs[v] = {}
    BY DEF Init
  <2>4. ~Working(v)
    BY <2>3 DEF Working, Busy
  <2>5. Straight(v) /\ FilesFollow(v) /\ HostFollows(v)
    BY <2>2, <2>3, <2>4 DEF Straight, FilesFollow, HostFollows
  <2>6. QED
    BY <2>5 DEF VMInv
<1>3. QED
  BY <1>1, <1>2 DEF OrderInv

\* The parts of the invariant that are about the daemon alone.
LEMMA DaemonOrder ==
  ASSUME IInv, OrderInv, [Next]_vars
  PROVE  PidFileFollows' /\ AnswersInits'
<1> USE DEF PidFileFollows, AnswersInits, Goto, queueVars, fileVars, envVars,
            boundVars, daemonVars
<1>1. PidFileFollows /\ AnswersInits /\ TypeOK
  BY DEF OrderInv, IInv
<1>2. CASE UNCHANGED vars
  BY <1>1, <1>2 DEF vars
<1>3. CASE \/ StartService \/ StartRefused \/ Setup \/ TakeHead \/ LoopDone
           \/ Choose \/ SedRead \/ SedRename
  BY <1>1, <1>3 DEF StartService, StartRefused, Setup, TakeHead, LoopDone,
                    Choose, SedRead, SedRename, vars
<1>4. CASE \/ RunStart \/ RunStartFails \/ RunStartNoCfg \/ WriteStatus
           \/ RunStop \/ RunDelete \/ DeleteData
  BY <1>1, <1>4 DEF RunStart, RunStartFails, RunStartNoCfg, Started,
                    WriteStatus, RunStop, RunDelete, DeleteData
<1>5. CASE SetupFails \/ Term \/ Kill \/ HostReboot
  BY <1>1, <1>5 DEF SetupFails, Term, Kill, HostReboot
<1>6. CASE \E v \in VM :
             \/ PodCreated(v) \/ PreStop(v) \/ InitPodDeleted(v) \/ DeleteJob(v)
             \/ InitContainer(v) \/ PodGone(v)
  <2>1. UNCHANGED <<spc, q, pidFile>>
    BY <1>6 DEF PodCreated, PreStop, InitPodDeleted, DeleteJob, InitContainer,
                InitWriteCfg, InitClearStatus, InitQueue, InitDone, InitFailed,
                PodGone, vars
  <2>2. QED
    BY <1>1, <2>1
<1>7. QED
  BY <1>2, <1>3, <1>4, <1>5, <1>6 DEF Next, Daemon, Environment

\* A step that changes nothing.
LEMMA StutterOrder ==
  ASSUME OrderInv, NEW v \in VM, UNCHANGED vars
  PROVE  VMInv(v)'
<1> USE DEF vars, daemonVars, queueVars, fileVars, envVars, boundVars
<1>1. VMInv(v) /\ SameFor(v)
  BY DEF OrderInv, SameFor
<1>2. UNCHANGED <<queue, lost, crossed, failures, spc, q, cur, ret, pidFile>>
  OBVIOUS
<1>3. /\ \A k \in Queue : Queued(k, v)' <=> Queued(k, v)
      /\ OneLine(v)' <=> OneLine(v)
      /\ OnlyFirstWorked(v)' <=> OnlyFirstWorked(v)
  BY <1>1, <1>2, QueueSame DEF SameFor
<1>4. (Orderly(v)' => Orderly(v)) /\ (LockedOut => LockedOut')
  BY <1>2 DEF Orderly, LockedOut
<1>5. QED
  BY <1>1, <1>2, <1>3, <1>4, Untouched

LEMMA NextOrder ==
  ASSUME IInv, OrderInv, [Next]_vars
  PROVE  OrderInv'
<1>1. PidFileFollows' /\ AnswersInits'
  BY DaemonOrder
<1>2. ASSUME NEW v \in VM PROVE VMInv(v)'
  <2>1. CASE UNCHANGED vars
    BY <2>1, StutterOrder
  <2>2. CASE StartRefused \/ \E u \in VM : InitFailed(u)
    BY <2>2, StutterOrder DEF StartRefused, InitFailed
  <2>3. CASE StartService \/ Setup \/ SetupFails \/ LoopDone \/ Choose
    <3>1. ~Working(v)
      BY <2>3 DEF Working, Busy, StartService, Setup, SetupFails, LoopDone,
                  Choose, Goto
    <3>2. QED
      BY <2>3, <3>1, IdleOrder
  <2>4. CASE Term \/ Kill
    BY <2>4, IdleOrder, SignalOrder
  <2>5. CASE TakeHead \/ SedRead \/ SedRename
    BY <2>5, TakeOrder, SedRenameOrder
  <2>6. CASE \/ RunStart \/ RunStartFails \/ RunStartNoCfg \/ WriteStatus
             \/ RunStop \/ RunDelete \/ DeleteData
    <3>1. CASE ~Working(v)
      BY <2>6, <3>1, WorkElsewhere
    <3>2. CASE Working(v)
      BY <2>6, <3>2, StartOrder, AnswerOrder, StopOrder, DeleteOrder
    <3>3. QED
      BY <3>1, <3>2
  <2>7. ASSUME NEW u \in VM,
               \/ PodCreated(u) \/ InitWriteCfg(u) \/ InitClearStatus(u)
               \/ InitQueue(u) \/ InitDone(u) \/ PreStop(u) \/ PodGone(u)
               \/ InitPodDeleted(u) \/ DeleteJob(u)
        PROVE  VMInv(v)'
    <3>1. CASE u # v
      BY <2>7, <3>1, PodElsewhere
    <3>2. CASE u = v
      BY <2>7, <3>2, PodOrder, AskOrder
    <3>3. QED
      BY <3>1, <3>2
  <2>8. CASE HostReboot
    BY <2>8, RebootOrder
  <2>9. QED
    BY <2>1, <2>2, <2>3, <2>4, <2>5, <2>6, <2>7, <2>8
       DEF Next, Daemon, Environment, InitContainer
<1>3. QED
  BY <1>1, <1>2 DEF OrderInv

\* Which line of the queue files explains what is on the host for a VM whose
\* requests did not cross (android-env-service.sh:15-116).
THEOREM OrderInvariant == Spec => []OrderInv
<1>1. IInv /\ OrderInv /\ [Next]_vars => OrderInv'
  BY NextOrder
<1>2. QED
  BY InitOrder, InductiveInvariant, <1>1, PTL DEF Spec

-----------------------------------------------------------------------------
(* What follows                                                            *)

\* A VM that runs, and whose requests did not cross, has a session manager,
\* its sockets, its description and its data (android-env.sh:160-181,253-276,
\* android-env-service.sh:15-55).
THEOREM RunningStaysUsable == Spec => []RunningUsable
<1>1. OrderInv => RunningUsable
  <2> SUFFICES ASSUME OrderInv, NEW v \in VM, pod[v] = "running", Orderly(v)
               PROVE  Usable(v) /\ cfg[v] /\ data[v]
    BY DEF RunningUsable
  <2>1. Straight(v) /\ HostFollows(v)
    BY DEF OrderInv, VMInv, Orderly
  <2>2. QED
    BY <2>1 DEF Straight, HostFollows
<1>2. QED
  BY OrderInvariant, <1>1, PTL

\* A VM without a pod, and that no queue file names, has left no process on
\* the host (android-env-service.sh:25-27,98-105).
THEOREM NothingLeaks == Spec => []NoLeak
<1>1. OrderInv => NoLeak
  <2> SUFFICES ASSUME OrderInv, NEW v \in VM, pod[v] = "none", Quiet(v), Orderly(v)
               PROVE  procs[v] = {}
    BY DEF NoLeak
  <2>1. HostFollows(v) /\ ~Queued("uninit", v)
    BY DEF OrderInv, VMInv, Quiet, Queue
  <2>2. QED
    BY <2>1 DEF HostFollows
<1>2. QED
  BY OrderInvariant, <1>1, PTL

\* A deletion that was carried out has left neither data nor status
\* (android-env-service.sh:39-55).
THEOREM DeletedStaysGone == Spec => []DeletedIsGone
<1>1. IInv /\ OrderInv => DeletedIsGone
  <2> SUFFICES ASSUME IInv, OrderInv, NEW v \in VM, ~cfg[v], Quiet(v),
                      Orderly(v), failures = 0
               PROVE  ~data[v] /\ status[v] = "none"
    BY DEF DeletedIsGone
  <2>1. FilesFollow(v) /\ ~Queued("delete", v)
    BY DEF OrderInv, VMInv, Quiet, Queue, Orderly
  <2>2. ~data[v]
    BY <2>1 DEF FilesFollow
  <2>3. status[v] = "none"
    BY DEF IInv, StatusInDir
  <2>4. QED
    BY <2>2, <2>3
<1>2. QED
  BY InductiveInvariant, OrderInvariant, <1>1, PTL
=============================================================================
