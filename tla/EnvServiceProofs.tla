-------------------------- MODULE EnvServiceProofs --------------------------
(***************************************************************************)
(* The invariants of the daemon's queue handling, for every set of VMs and *)
(* every bound, and that the daemon implements RequestQueue. The inductive *)
(* invariant says where in init.queue the line of a waiting init container *)
(* is while the daemon works on the first line, and what sed's copy of a   *)
(* queue file has to do with the file.                                     *)
(***************************************************************************)
EXTENDS EnvService, TLAPS

\* The status file lives in the directory that holds init_cfg.
StatusInDir == \A v \in VM : status[v] # "none" => cfg[v] = TRUE

\* Only a line of delete.queue leads to the removal of data.
RmdataInDelete == spc = "rmdata" => q = "delete"

\* What sed is about to put in place is what follows the first line, as far
\* as sed has read it.
CopyFollowsHead ==
  spc = "rename" =>
    /\ Len(copy) + 1 <= Len(queue[q])
    /\ \A i \in 1..Len(copy) : copy[i] = queue[q][i + 1]

\* The first line of init.queue has had its answer.
HeadAnswered == q = "init" /\ spc \in {"undo", "sed", "rename"}

\* The line of a waiting init container is in init.queue, and not in first
\* place once the first line has been answered.
LineOf(v) ==
  \E i \in 1..Len(queue["init"]) :
    queue["init"][i] = v /\ (HeadAnswered => i > 1)

WaitingHasLine ==
  \A v \in VM :
    pod[v] = "wait" /\ status[v] = "empty" /\ v \notin lost["init"] =>
      LineOf(v)

IInv ==
  /\ TypeOK
  /\ HeadIsCurrent
  /\ StatusInDir
  /\ RmdataInDelete
  /\ CopyFollowsHead
  /\ WaitingHasLine

-----------------------------------------------------------------------------
(* Sequences                                                               *)

\* What an append to a queue file leaves in place.
LEMMA AppendFacts ==
  ASSUME NEW S, NEW s \in Seq(S), NEW v \in S
  PROVE  /\ Append(s, v) \in Seq(S)
         /\ Len(Append(s, v)) = Len(s) + 1
         /\ Append(s, v) # <<>>
         /\ \A i \in 1..Len(s) : Append(s, v)[i] = s[i]
         /\ Append(s, v)[Len(s) + 1] = v
         /\ s # <<>> => Head(Append(s, v)) = Head(s)
<1>1. /\ Append(s, v) \in Seq(S)
      /\ Len(Append(s, v)) = Len(s) + 1
      /\ \A i \in 1..Len(s) : Append(s, v)[i] = s[i]
      /\ Append(s, v)[Len(s) + 1] = v
  OBVIOUS
<1>2. Append(s, v) # <<>>
  BY <1>1
<1>3. ASSUME s # <<>> PROVE Head(Append(s, v)) = Head(s)
  <2>1. Len(s) >= 1 /\ Head(s) = s[1]
    BY <1>3
  <2>2. Head(Append(s, v)) = Append(s, v)[1]
    BY <1>1, <1>2
  <2>3. QED
    BY <1>1, <2>1, <2>2
<1>4. QED
  BY <1>1, <1>2, <1>3

\* What head -1 and sed '1d' make of a queue file that is not empty.
LEMMA HeadTailFacts ==
  ASSUME NEW S, NEW s \in Seq(S), s # <<>>
  PROVE  /\ Head(s) \in S /\ Head(s) = s[1]
         /\ Tail(s) \in Seq(S)
         /\ Len(s) \in Nat /\ Len(s) >= 1
         /\ Len(Tail(s)) = Len(s) - 1
         /\ \A i \in 1..Len(Tail(s)) : Tail(s)[i] = s[i + 1]
OBVIOUS

\* Whoever appends a line to whichever queue file, the daemon's first line
\* and what sed has read of the file stay as they are.
LEMMA AppendKeepsHead ==
  ASSUME TypeOK, HeadIsCurrent, RmdataInDelete, CopyFollowsHead,
         NEW k \in Queue, NEW v \in VM, AppendTo(k, v),
         UNCHANGED <<spc, q, cur, copy>>
  PROVE  HeadIsCurrent' /\ RmdataInDelete' /\ CopyFollowsHead'
<1>1. queue[k] \in Seq(VM)
  BY DEF TypeOK
<1>2. /\ Append(queue[k], v) # <<>>
      /\ Len(Append(queue[k], v)) = Len(queue[k]) + 1
      /\ Len(queue[k]) \in Nat
      /\ \A i \in 1..Len(queue[k]) : Append(queue[k], v)[i] = queue[k][i]
      /\ queue[k] # <<>> => Head(Append(queue[k], v)) = Head(queue[k])
  BY <1>1, AppendFacts
<1>3. CASE q # k
  <2>1. queue'[q'] = queue[q]
    BY <1>3 DEF AppendTo, TypeOK
  <2>2. QED
    BY <2>1 DEF HeadIsCurrent, RmdataInDelete, CopyFollowsHead
<1>4. CASE q = k
  <2>1. queue'[q'] = Append(queue[q], v)
    BY <1>4 DEF AppendTo, TypeOK
  <2>2. HeadIsCurrent' /\ RmdataInDelete'
    BY <1>2, <1>4, <2>1 DEF HeadIsCurrent, RmdataInDelete
  <2>3. CopyFollowsHead'
    <3> SUFFICES ASSUME spc = "rename"
                 PROVE  /\ Len(copy) + 1 <= Len(Append(queue[q], v))
                        /\ \A i \in 1..Len(copy) :
                             copy[i] = Append(queue[q], v)[i + 1]
      BY <2>1 DEF CopyFollowsHead
    <3>1. copy \in Seq(VM) /\ Len(copy) \in Nat
      BY DEF TypeOK
    <3>2. /\ Len(copy) + 1 <= Len(queue[q])
          /\ \A i \in 1..Len(copy) : copy[i] = queue[q][i + 1]
      BY DEF CopyFollowsHead
    <3>3. QED
      BY <1>2, <1>4, <3>1, <3>2
  <2>4. QED
    BY <2>2, <2>3
<1>5. QED
  BY <1>3, <1>4

-----------------------------------------------------------------------------
(* Preservation                                                            *)

\* A host on which nothing has happened satisfies the inductive invariant.
LEMMA InitIInv == Init => IInv
<1> SUFFICES ASSUME Init PROVE IInv
  OBVIOUS
<1>1. TypeOK
  <2>1. pidFile \in BOOLEAN
    BY Zenon DEF Init
  <2>2. QED
    BY <2>1 DEF Init, TypeOK, Queue, InitPhase, Busy
<1>2. QED
  BY <1>1 DEF Init, IInv, HeadIsCurrent, StatusInDir, RmdataInDelete,
     CopyFollowsHead, WaitingHasLine, Busy

\* Every step of the daemon preserves the invariant.
LEMMA DaemonIInv == IInv /\ Daemon => IInv'
<1> SUFFICES ASSUME IInv, Daemon PROVE IInv'
  OBVIOUS
<1> USE DEF Queue, InitPhase, Busy, Goto, daemonVars, queueVars, fileVars,
     envVars, boundVars
<1>a. TypeOK /\ HeadIsCurrent /\ StatusInDir /\ RmdataInDelete
      /\ CopyFollowsHead /\ WaitingHasLine
  BY DEF IInv
<1>1. CASE StartService
  BY <1>a, <1>1 DEF StartService, IInv, TypeOK, HeadIsCurrent, StatusInDir,
     RmdataInDelete, CopyFollowsHead, WaitingHasLine, LineOf, HeadAnswered
<1>2. CASE StartRefused
  BY <1>a, <1>2 DEF StartRefused, vars, IInv, TypeOK, HeadIsCurrent,
     StatusInDir, RmdataInDelete, CopyFollowsHead, WaitingHasLine, LineOf,
     HeadAnswered
<1>3. CASE Setup
  BY <1>a, <1>3 DEF Setup, IInv, TypeOK, HeadIsCurrent, StatusInDir,
     RmdataInDelete, CopyFollowsHead, WaitingHasLine, LineOf, HeadAnswered
<1>4. CASE TakeHead
  <2>1. TypeOK'
    BY <1>a, <1>4 DEF TakeHead, TypeOK
  <2>2. HeadIsCurrent' /\ RmdataInDelete' /\ CopyFollowsHead'
    BY <1>a, <1>4 DEF TakeHead, TypeOK, HeadIsCurrent, RmdataInDelete,
       CopyFollowsHead
  <2>3. StatusInDir'
    BY <1>a, <1>4 DEF TakeHead, TypeOK, StatusInDir
  <2>4. WaitingHasLine'
    BY <1>a, <1>4 DEF TakeHead, TypeOK, HeadIsCurrent, StatusInDir,
       RmdataInDelete, WaitingHasLine, LineOf, HeadAnswered
  <2>5. QED
    BY <2>1, <2>2, <2>3, <2>4 DEF IInv
<1>5. CASE LoopDone
  BY <1>a, <1>5 DEF LoopDone, IInv, TypeOK, HeadIsCurrent, StatusInDir,
     RmdataInDelete, CopyFollowsHead, WaitingHasLine, LineOf, HeadAnswered
<1>6. CASE Choose
  BY <1>a, <1>6 DEF Choose, IInv, TypeOK, HeadIsCurrent, StatusInDir,
     RmdataInDelete, CopyFollowsHead, WaitingHasLine, LineOf, HeadAnswered
<1>7. CASE SedRead
  <2>1. TypeOK'
    <3>1. queue[q] \in Seq(VM) /\ queue[q] # <<>>
      BY <1>a, <1>7 DEF SedRead, TypeOK, HeadIsCurrent
    <3>2. Tail(queue[q]) \in Seq(VM)
      BY <3>1, HeadTailFacts
    <3>3. QED
      BY <1>a, <1>7, <3>2 DEF SedRead, TypeOK
  <2>2. HeadIsCurrent' /\ RmdataInDelete' /\ CopyFollowsHead'
    BY <1>a, <1>7 DEF SedRead, TypeOK, HeadIsCurrent, RmdataInDelete,
       CopyFollowsHead
  <2>3. StatusInDir'
    BY <1>a, <1>7 DEF SedRead, TypeOK, StatusInDir
  <2>4. WaitingHasLine'
    BY <1>a, <1>7 DEF SedRead, TypeOK, HeadIsCurrent, StatusInDir,
       RmdataInDelete, WaitingHasLine, LineOf, HeadAnswered
  <2>5. QED
    BY <2>1, <2>2, <2>3, <2>4 DEF IInv
<1>8. CASE SedRename
  <2>1. TypeOK'
    <3>1. queue' \in [Queue -> Seq(VM)]
      BY <1>a, <1>8 DEF SedRename, TypeOK
    <3>2. AddedSince(q) \subseteq VM
      <4>1. /\ queue[q] \in Seq(VM) /\ Len(queue[q]) \in Nat
            /\ Len(copy) \in Nat
        BY <1>a DEF TypeOK
      <4>2. ASSUME NEW i \in (Len(copy) + 2)..Len(queue[q])
            PROVE  queue[q][i] \in VM
        <5>1. i \in 1..Len(queue[q])
          BY <4>1
        <5>2. QED
          BY <4>1, <5>1
      <4>3. QED
        BY <4>2 DEF AddedSince
    <3>3. lost' \in [Queue -> SUBSET VM]
      <4>1. lost[q] \cup AddedSince(q) \in SUBSET VM
        BY <1>a, <3>2 DEF TypeOK
      <4>2. QED
        BY <1>a, <1>8, <4>1 DEF SedRename, TypeOK
    <3>4. QED
      BY <1>a, <1>8, <3>1, <3>3 DEF SedRename, TypeOK
  <2>2. HeadIsCurrent' /\ RmdataInDelete' /\ CopyFollowsHead'
    BY <1>a, <1>8 DEF SedRename, TypeOK, HeadIsCurrent, RmdataInDelete,
       CopyFollowsHead
  <2>3. StatusInDir'
    BY <1>a, <1>8 DEF SedRename, TypeOK, StatusInDir
  <2>4. WaitingHasLine'
    <3> SUFFICES ASSUME NEW v \in VM, pod'[v] = "wait", status'[v] = "empty",
                        v \notin lost'["init"]
                 PROVE  LineOf(v)'
      BY DEF WaitingHasLine
    <3>1. v \notin lost["init"]
      BY <1>a, <1>8 DEF SedRename, TypeOK
    <3>2. PICK i \in 1..Len(queue["init"]) :
            queue["init"][i] = v /\ (HeadAnswered => i > 1)
      BY <1>a, <1>8, <3>1 DEF SedRename, WaitingHasLine, LineOf
    <3>3. CASE q # "init"
      BY <1>a, <1>8, <3>2, <3>3 DEF SedRename, TypeOK, LineOf, HeadAnswered
    <3>4. CASE q = "init"
      <4>1. i > 1
        BY <1>8, <3>2, <3>4 DEF SedRename, HeadAnswered
      <4>2. v \notin AddedSince("init")
        BY <1>a, <1>8, <3>4 DEF SedRename, TypeOK
      <4>3. /\ queue["init"] \in Seq(VM) /\ copy \in Seq(VM)
            /\ Len(queue["init"]) \in Nat /\ Len(copy) \in Nat
        BY <1>a DEF TypeOK
      <4>4. i <= Len(copy) + 1
        BY <3>2, <4>2, <4>3 DEF AddedSince
      <4>5. i - 1 \in 1..Len(copy) /\ copy[i - 1] = v
        BY <1>a, <1>8, <3>2, <3>4, <4>1, <4>3, <4>4
           DEF SedRename, CopyFollowsHead
      <4>6. queue'["init"] = copy /\ spc' = "test"
        BY <1>a, <1>8, <3>4 DEF SedRename, TypeOK
      <4>7. QED
        BY <4>5, <4>6 DEF LineOf, HeadAnswered
    <3>5. QED
      BY <3>3, <3>4
  <2>5. QED
    BY <2>1, <2>2, <2>3, <2>4 DEF IInv
<1>9. CASE RunStart
  <2>1. TypeOK'
    BY <1>a, <1>9 DEF RunStart, Started, StartOk, Outcome, Proc, TypeOK
  <2>2. HeadIsCurrent' /\ RmdataInDelete' /\ CopyFollowsHead'
    BY <1>a, <1>9 DEF RunStart, Started, StartOk, Outcome, Proc, TypeOK,
       HeadIsCurrent, RmdataInDelete, CopyFollowsHead
  <2>3. StatusInDir'
    BY <1>a, <1>9 DEF RunStart, Started, StartOk, Outcome, Proc, TypeOK,
       StatusInDir
  <2>4. WaitingHasLine'
    BY <1>a, <1>9 DEF RunStart, Started, StartOk, Outcome, Proc, TypeOK,
       HeadIsCurrent, StatusInDir, RmdataInDelete, WaitingHasLine, LineOf,
       HeadAnswered
  <2>5. QED
    BY <2>1, <2>2, <2>3, <2>4 DEF IInv
<1>10. CASE RunStartNoCfg
  <2>1. TypeOK'
    BY <1>a, <1>10 DEF RunStartNoCfg, Started, Outcome, TypeOK
  <2>2. HeadIsCurrent' /\ RmdataInDelete' /\ CopyFollowsHead'
    BY <1>a, <1>10 DEF RunStartNoCfg, Started, Outcome, TypeOK,
       HeadIsCurrent, RmdataInDelete, CopyFollowsHead
  <2>3. StatusInDir'
    BY <1>a, <1>10 DEF RunStartNoCfg, Started, Outcome, TypeOK, StatusInDir
  <2>4. WaitingHasLine'
    BY <1>a, <1>10 DEF RunStartNoCfg, Started, Outcome, TypeOK,
       HeadIsCurrent, StatusInDir, RmdataInDelete, WaitingHasLine, LineOf,
       HeadAnswered
  <2>5. QED
    BY <2>1, <2>2, <2>3, <2>4 DEF IInv
<1>11. CASE WriteStatus
  <2>1. TypeOK'
    BY <1>a, <1>11 DEF WriteStatus, TypeOK
  <2>2. HeadIsCurrent' /\ RmdataInDelete' /\ CopyFollowsHead'
    BY <1>a, <1>11 DEF WriteStatus, TypeOK, HeadIsCurrent, RmdataInDelete,
       CopyFollowsHead
  <2>3. StatusInDir'
    BY <1>a, <1>11 DEF WriteStatus, TypeOK, StatusInDir
  <2>4. WaitingHasLine'
    BY <1>a, <1>11 DEF WriteStatus, TypeOK, HeadIsCurrent, StatusInDir,
       RmdataInDelete, WaitingHasLine, LineOf, HeadAnswered
  <2>5. QED
    BY <2>1, <2>2, <2>3, <2>4 DEF IInv
<1>12. CASE RunStop
  <2>1. TypeOK'
    BY <1>a, <1>12 DEF RunStop, Stop, TypeOK
  <2>2. HeadIsCurrent' /\ RmdataInDelete' /\ CopyFollowsHead'
    BY <1>a, <1>12 DEF RunStop, Stop, TypeOK, HeadIsCurrent, RmdataInDelete,
       CopyFollowsHead
  <2>3. StatusInDir'
    BY <1>a, <1>12 DEF RunStop, Stop, TypeOK, StatusInDir
  <2>4. WaitingHasLine'
    BY <1>a, <1>12 DEF RunStop, Stop, TypeOK, HeadIsCurrent, StatusInDir,
       RmdataInDelete, WaitingHasLine, LineOf, HeadAnswered
  <2>5. QED
    BY <2>1, <2>2, <2>3, <2>4 DEF IInv
<1>13. CASE RunDelete
  <2>1. TypeOK'
    BY <1>a, <1>13 DEF RunDelete, TypeOK
  <2>2. HeadIsCurrent' /\ RmdataInDelete' /\ CopyFollowsHead'
    BY <1>a, <1>13 DEF RunDelete, TypeOK, HeadIsCurrent, RmdataInDelete,
       CopyFollowsHead
  <2>3. StatusInDir'
    BY <1>a, <1>13 DEF RunDelete, TypeOK, StatusInDir
  <2>4. WaitingHasLine'
    BY <1>a, <1>13 DEF RunDelete, TypeOK, HeadIsCurrent, StatusInDir,
       RmdataInDelete, WaitingHasLine, LineOf, HeadAnswered
  <2>5. QED
    BY <2>1, <2>2, <2>3, <2>4 DEF IInv
<1>14. CASE DeleteData
  <2>1. TypeOK'
    <3>1. data' \in [VM -> BOOLEAN]
      BY <1>a, <1>14 DEF DeleteData, TypeOK
    <3>2. failures' \in Nat
      BY <1>a, <1>14 DEF DeleteData, TypeOK
    <3>3. spc' = "sed"
      BY <1>14 DEF DeleteData
    <3>4. UNCHANGED <<q, cur, ret, copy, pidFile, queueVars, pod, cfg, status,
                      envVars, pods, deletes, terms, crashes>>
      BY <1>14 DEF DeleteData
    <3>5. QED
      BY <1>a, <3>1, <3>2, <3>3, <3>4 DEF TypeOK
  <2>2. HeadIsCurrent' /\ RmdataInDelete' /\ CopyFollowsHead'
    BY <1>a, <1>14 DEF DeleteData, TypeOK, HeadIsCurrent, RmdataInDelete,
       CopyFollowsHead
  <2>3. StatusInDir'
    BY <1>a, <1>14 DEF DeleteData, TypeOK, StatusInDir
  <2>4. WaitingHasLine'
    BY <1>a, <1>14 DEF DeleteData, TypeOK, HeadIsCurrent, StatusInDir,
       RmdataInDelete, WaitingHasLine, LineOf, HeadAnswered
  <2>5. QED
    BY <2>1, <2>2, <2>3, <2>4 DEF IInv
<1>15. QED
  BY <1>1, <1>2, <1>3, <1>4, <1>5, <1>6, <1>7, <1>8, <1>9, <1>10, <1>11,
     <1>12, <1>13, <1>14 DEF Daemon

\* Every step of an init container, and the end of a pod, preserves the
\* invariant.
LEMMA PodIInv == IInv /\ (\E v \in VM : InitContainer(v) \/ PodGone(v)) => IInv'
<1> SUFFICES ASSUME IInv, \E v \in VM : InitContainer(v) \/ PodGone(v)
             PROVE  IInv'
  OBVIOUS
<1> USE DEF Queue, InitPhase, Busy, Goto, daemonVars, queueVars, fileVars,
     envVars, boundVars
<1>a. TypeOK /\ HeadIsCurrent /\ StatusInDir /\ RmdataInDelete
      /\ CopyFollowsHead /\ WaitingHasLine
  BY DEF IInv
<1>b. PICK v \in VM : InitContainer(v) \/ PodGone(v)
  OBVIOUS
<1>1. CASE InitWriteCfg(v)
  <2>1. TypeOK'
    BY <1>a, <1>1 DEF InitWriteCfg, TypeOK
  <2>2. HeadIsCurrent' /\ RmdataInDelete' /\ CopyFollowsHead'
    BY <1>a, <1>1 DEF InitWriteCfg, TypeOK, HeadIsCurrent, RmdataInDelete,
       CopyFollowsHead
  <2>3. StatusInDir'
    BY <1>a, <1>1 DEF InitWriteCfg, TypeOK, StatusInDir
  <2>4. WaitingHasLine'
    BY <1>a, <1>1 DEF InitWriteCfg, TypeOK, HeadIsCurrent, StatusInDir,
       RmdataInDelete, WaitingHasLine, LineOf, HeadAnswered
  <2>5. QED
    BY <2>1, <2>2, <2>3, <2>4 DEF IInv
<1>2. CASE InitClearStatus(v)
  <2>1. TypeOK'
    BY <1>a, <1>2 DEF InitClearStatus, TypeOK
  <2>2. HeadIsCurrent' /\ RmdataInDelete' /\ CopyFollowsHead'
    BY <1>a, <1>2 DEF InitClearStatus, TypeOK, HeadIsCurrent,
       RmdataInDelete, CopyFollowsHead
  <2>3. StatusInDir'
    BY <1>a, <1>2 DEF InitClearStatus, TypeOK, StatusInDir
  <2>4. WaitingHasLine'
    BY <1>a, <1>2 DEF InitClearStatus, TypeOK, HeadIsCurrent, StatusInDir,
       RmdataInDelete, WaitingHasLine, LineOf, HeadAnswered
  <2>5. QED
    BY <2>1, <2>2, <2>3, <2>4 DEF IInv
<1>3. CASE InitQueue(v)
  <2>1. TypeOK'
    <3>1. queue["init"] \in Seq(VM)
      BY <1>a DEF TypeOK
    <3>2. Append(queue["init"], v) \in Seq(VM)
      BY <3>1, AppendFacts
    <3>3. QED
      BY <1>a, <1>3, <3>2 DEF InitQueue, AppendTo, TypeOK
  <2>2. HeadIsCurrent' /\ RmdataInDelete' /\ CopyFollowsHead'
    BY <1>a, <1>3, AppendKeepsHead DEF InitQueue
  <2>3. StatusInDir'
    BY <1>a, <1>3 DEF InitQueue, AppendTo, TypeOK, StatusInDir
  <2>4. WaitingHasLine'
    <3>1. queue["init"] \in Seq(VM) /\ Len(queue["init"]) \in Nat
      BY <1>a DEF TypeOK
    <3>2. /\ queue'["init"] = Append(queue["init"], v)
          /\ UNCHANGED <<spc, q, status>>
      BY <1>a, <1>3 DEF InitQueue, AppendTo, TypeOK
    <3>3. /\ Len(queue'["init"]) = Len(queue["init"]) + 1
          /\ queue'["init"][Len(queue["init"]) + 1] = v
          /\ \A i \in 1..Len(queue["init"]) :
               queue'["init"][i] = queue["init"][i]
      BY <3>1, <3>2, AppendFacts
    <3>4. HeadAnswered => Len(queue["init"]) >= 1
      BY <1>a, <3>1 DEF HeadAnswered, HeadIsCurrent
    <3>5. LineOf(v)'
      BY <3>1, <3>2, <3>3, <3>4 DEF LineOf, HeadAnswered
    <3>6. ASSUME NEW u \in VM, u # v, pod'[u] = "wait", status'[u] = "empty",
                 u \notin lost'["init"]
          PROVE  LineOf(u)'
      <4>1. LineOf(u)
        BY <1>a, <1>3, <3>6 DEF InitQueue, AppendTo, TypeOK, WaitingHasLine
      <4>2. QED
        BY <3>1, <3>2, <3>3, <4>1 DEF LineOf, HeadAnswered
    <3>7. QED
      BY <3>5, <3>6 DEF WaitingHasLine
  <2>5. QED
    BY <2>1, <2>2, <2>3, <2>4 DEF IInv
<1>4. CASE InitDone(v)
  <2>1. TypeOK'
    BY <1>a, <1>4 DEF InitDone, TypeOK
  <2>2. HeadIsCurrent' /\ RmdataInDelete' /\ CopyFollowsHead'
    BY <1>a, <1>4 DEF InitDone, TypeOK, HeadIsCurrent, RmdataInDelete,
       CopyFollowsHead
  <2>3. StatusInDir'
    BY <1>a, <1>4 DEF InitDone, TypeOK, StatusInDir
  <2>4. WaitingHasLine'
    BY <1>a, <1>4 DEF InitDone, TypeOK, HeadIsCurrent, StatusInDir,
       RmdataInDelete, WaitingHasLine, LineOf, HeadAnswered
  <2>5. QED
    BY <2>1, <2>2, <2>3, <2>4 DEF IInv
<1>5. CASE InitFailed(v)
  BY <1>a, <1>5 DEF InitFailed, vars, IInv, TypeOK, HeadIsCurrent,
     StatusInDir, RmdataInDelete, CopyFollowsHead, WaitingHasLine, LineOf,
     HeadAnswered
<1>6. CASE PodGone(v)
  <2>1. TypeOK'
    BY <1>a, <1>6 DEF PodGone, TypeOK
  <2>2. HeadIsCurrent' /\ RmdataInDelete' /\ CopyFollowsHead'
    BY <1>a, <1>6 DEF PodGone, TypeOK, HeadIsCurrent, RmdataInDelete,
       CopyFollowsHead
  <2>3. StatusInDir'
    BY <1>a, <1>6 DEF PodGone, TypeOK, StatusInDir
  <2>4. WaitingHasLine'
    BY <1>a, <1>6 DEF PodGone, TypeOK, HeadIsCurrent, StatusInDir,
       RmdataInDelete, WaitingHasLine, LineOf, HeadAnswered
  <2>5. QED
    BY <2>1, <2>2, <2>3, <2>4 DEF IInv
<1>7. QED
  BY <1>b, <1>1, <1>2, <1>3, <1>4, <1>5, <1>6 DEF InitContainer

\* What users, kubelet, systemd and failing commands do preserves the
\* invariant.
LEMMA EnvironmentIInv == IInv /\ Environment => IInv'
<1> SUFFICES ASSUME IInv, Environment PROVE IInv'
  OBVIOUS
<1> USE DEF Queue, InitPhase, Busy, Goto, daemonVars, queueVars, fileVars,
     envVars, boundVars
<1>a. TypeOK /\ HeadIsCurrent /\ StatusInDir /\ RmdataInDelete
      /\ CopyFollowsHead /\ WaitingHasLine
  BY DEF IInv
<1>1. CASE SetupFails
  <2>1. TypeOK'
    BY <1>a, <1>1 DEF SetupFails, TypeOK
  <2>2. HeadIsCurrent' /\ RmdataInDelete' /\ CopyFollowsHead'
    BY <1>a, <1>1 DEF SetupFails, TypeOK, HeadIsCurrent, RmdataInDelete,
       CopyFollowsHead
  <2>3. StatusInDir'
    BY <1>a, <1>1 DEF SetupFails, TypeOK, StatusInDir
  <2>4. WaitingHasLine'
    BY <1>a, <1>1 DEF SetupFails, TypeOK, HeadIsCurrent, StatusInDir,
       RmdataInDelete, WaitingHasLine, LineOf, HeadAnswered
  <2>5. QED
    BY <2>1, <2>2, <2>3, <2>4 DEF IInv
<1>2. CASE RunStartFails
  <2>1. TypeOK'
    <3>1. PICK v \in cur : \E o \in StartFailed(v) : Started(v, o)
      BY <1>2 DEF RunStartFails
    <3>2. PICK o \in StartFailed(v) : Started(v, o)
      BY <3>1
    <3>3. v \in VM
      BY <1>a DEF TypeOK
    <3>4. /\ procs[v] \in SUBSET Proc /\ sockets[v] \in BOOLEAN
          /\ data[v] \in BOOLEAN
      BY <1>a, <3>3 DEF TypeOK
    <3>5. /\ o.procs \in SUBSET Proc /\ o.sockets \in BOOLEAN
          /\ o.data \in BOOLEAN /\ o.ret = "failed"
      <4>1. \E p \in SUBSET Proc, s \in BOOLEAN, d \in BOOLEAN :
              o = Outcome(p, s, d, "failed")
        <5>1. /\ procs[v] \cup {"Xvfb"} \in SUBSET Proc
              /\ procs[v] \cup {"Xvfb"} \cup {"session-manager"}
                   \in SUBSET Proc
              /\ Proc \in SUBSET Proc
          BY <3>4 DEF Proc
        <5>2. ("session-manager" \notin procs[v]) \in BOOLEAN
          BY Zenon
        <5>3. TRUE \in BOOLEAN /\ FALSE \in BOOLEAN
          BY Zenon
        <5>4. QED
          BY <3>2, <3>4, <5>1, <5>2, <5>3, Zenon DEF StartFailed
      <4>2. PICK p \in SUBSET Proc, s \in BOOLEAN, d \in BOOLEAN :
              o = Outcome(p, s, d, "failed")
        BY <4>1
      <4>3. o.procs = p /\ o.sockets = s /\ o.data = d /\ o.ret = "failed"
        BY <4>2 DEF Outcome
      <4>4. QED
        BY <4>3
    <3>6. failures' \in Nat /\ UNCHANGED <<pods, deletes, terms, crashes>>
      BY <1>a, <1>2 DEF RunStartFails, TypeOK
    <3>7. QED
      BY <1>a, <3>2, <3>3, <3>5, <3>6 DEF Started, TypeOK
  <2>2. HeadIsCurrent' /\ RmdataInDelete' /\ CopyFollowsHead'
    BY <1>a, <1>2 DEF RunStartFails, Started, StartFailed, Outcome, Proc,
       TypeOK, HeadIsCurrent, RmdataInDelete, CopyFollowsHead
  <2>3. StatusInDir'
    BY <1>a, <1>2 DEF RunStartFails, Started, StartFailed, Outcome, Proc,
       TypeOK, StatusInDir
  <2>4. WaitingHasLine'
    BY <1>a, <1>2 DEF RunStartFails, Started, StartFailed, Outcome, Proc,
       TypeOK, HeadIsCurrent, StatusInDir, RmdataInDelete, WaitingHasLine,
       LineOf, HeadAnswered
  <2>5. QED
    BY <2>1, <2>2, <2>3, <2>4 DEF IInv
<1>3. CASE Term
  <2>1. TypeOK'
    <3>1. pidFile' \in BOOLEAN
      BY <1>3, Zenon DEF Term
    <3>2. QED
      BY <1>a, <1>3, <3>1 DEF Term, TypeOK
  <2>2. HeadIsCurrent' /\ RmdataInDelete' /\ CopyFollowsHead'
    BY <1>a, <1>3 DEF Term, TypeOK, HeadIsCurrent, RmdataInDelete,
       CopyFollowsHead
  <2>3. StatusInDir'
    BY <1>a, <1>3 DEF Term, TypeOK, StatusInDir
  <2>4. WaitingHasLine'
    BY <1>a, <1>3 DEF Term, TypeOK, HeadIsCurrent, StatusInDir,
       RmdataInDelete, WaitingHasLine, LineOf, HeadAnswered
  <2>5. QED
    BY <2>1, <2>2, <2>3, <2>4 DEF IInv
<1>4. CASE Kill
  <2>1. TypeOK'
    BY <1>a, <1>4 DEF Kill, TypeOK
  <2>2. HeadIsCurrent' /\ RmdataInDelete' /\ CopyFollowsHead'
    BY <1>a, <1>4 DEF Kill, TypeOK, HeadIsCurrent, RmdataInDelete,
       CopyFollowsHead
  <2>3. StatusInDir'
    BY <1>a, <1>4 DEF Kill, TypeOK, StatusInDir
  <2>4. WaitingHasLine'
    BY <1>a, <1>4 DEF Kill, TypeOK, HeadIsCurrent, StatusInDir,
       RmdataInDelete, WaitingHasLine, LineOf, HeadAnswered
  <2>5. QED
    BY <2>1, <2>2, <2>3, <2>4 DEF IInv
<1>5. CASE HostReboot
  <2>1. TypeOK'
    <3>1. pidFile' \in BOOLEAN
      BY <1>5, Zenon DEF HostReboot
    <3>2. QED
      BY <1>a, <1>5, <3>1 DEF HostReboot, TypeOK
  <2>2. HeadIsCurrent' /\ RmdataInDelete' /\ CopyFollowsHead'
    BY <1>a, <1>5 DEF HostReboot, TypeOK, HeadIsCurrent, RmdataInDelete,
       CopyFollowsHead
  <2>3. StatusInDir'
    BY <1>a, <1>5 DEF HostReboot, TypeOK, StatusInDir
  <2>4. WaitingHasLine'
    BY <1>a, <1>5 DEF HostReboot, TypeOK, HeadIsCurrent, StatusInDir,
       RmdataInDelete, WaitingHasLine, LineOf, HeadAnswered
  <2>5. QED
    BY <2>1, <2>2, <2>3, <2>4 DEF IInv
<1>6. ASSUME NEW v \in VM, PodCreated(v) PROVE IInv'
  <2>1. TypeOK'
    BY <1>a, <1>6 DEF PodCreated, TypeOK
  <2>2. HeadIsCurrent' /\ RmdataInDelete' /\ CopyFollowsHead'
    BY <1>a, <1>6 DEF PodCreated, TypeOK, HeadIsCurrent, RmdataInDelete,
       CopyFollowsHead
  <2>3. StatusInDir'
    BY <1>a, <1>6 DEF PodCreated, TypeOK, StatusInDir
  <2>4. WaitingHasLine'
    BY <1>a, <1>6 DEF PodCreated, TypeOK, HeadIsCurrent, StatusInDir,
       RmdataInDelete, WaitingHasLine, LineOf, HeadAnswered
  <2>5. QED
    BY <2>1, <2>2, <2>3, <2>4 DEF IInv
<1>7. ASSUME NEW v \in VM, PreStop(v) PROVE IInv'
  <2>1. TypeOK'
    <3>1. queue["uninit"] \in Seq(VM)
      BY <1>a DEF TypeOK
    <3>2. Append(queue["uninit"], v) \in Seq(VM)
      BY <3>1, AppendFacts
    <3>3. QED
      BY <1>a, <1>7, <3>2 DEF PreStop, AppendTo, TypeOK
  <2>2. HeadIsCurrent' /\ RmdataInDelete' /\ CopyFollowsHead'
    BY <1>a, <1>7, AppendKeepsHead DEF PreStop
  <2>3. StatusInDir'
    BY <1>a, <1>7 DEF PreStop, AppendTo, TypeOK, StatusInDir
  <2>4. WaitingHasLine'
    BY <1>a, <1>7 DEF PreStop, AppendTo, TypeOK, WaitingHasLine, LineOf,
       HeadAnswered
  <2>5. QED
    BY <2>1, <2>2, <2>3, <2>4 DEF IInv
<1>8. ASSUME NEW v \in VM, InitPodDeleted(v) PROVE IInv'
  <2>1. TypeOK'
    BY <1>a, <1>8 DEF InitPodDeleted, TypeOK
  <2>2. HeadIsCurrent' /\ RmdataInDelete' /\ CopyFollowsHead'
    BY <1>a, <1>8 DEF InitPodDeleted, TypeOK, HeadIsCurrent, RmdataInDelete,
       CopyFollowsHead
  <2>3. StatusInDir'
    BY <1>a, <1>8 DEF InitPodDeleted, TypeOK, StatusInDir
  <2>4. WaitingHasLine'
    BY <1>a, <1>8 DEF InitPodDeleted, TypeOK, HeadIsCurrent, StatusInDir,
       RmdataInDelete, WaitingHasLine, LineOf, HeadAnswered
  <2>5. QED
    BY <2>1, <2>2, <2>3, <2>4 DEF IInv
<1>9. ASSUME NEW v \in VM, DeleteJob(v) PROVE IInv'
  <2>1. TypeOK'
    <3>1. queue["delete"] \in Seq(VM)
      BY <1>a DEF TypeOK
    <3>2. Append(queue["delete"], v) \in Seq(VM)
      BY <3>1, AppendFacts
    <3>3. QED
      BY <1>a, <1>9, <3>2 DEF DeleteJob, AppendTo, TypeOK
  <2>2. HeadIsCurrent' /\ RmdataInDelete' /\ CopyFollowsHead'
    BY <1>a, <1>9, AppendKeepsHead DEF DeleteJob
  <2>3. StatusInDir'
    BY <1>a, <1>9 DEF DeleteJob, AppendTo, TypeOK, StatusInDir
  <2>4. WaitingHasLine'
    BY <1>a, <1>9 DEF DeleteJob, AppendTo, TypeOK, WaitingHasLine, LineOf,
       HeadAnswered
  <2>5. QED
    BY <2>1, <2>2, <2>3, <2>4 DEF IInv
<1>10. QED
  BY <1>1, <1>2, <1>3, <1>4, <1>5, <1>6, <1>7, <1>8, <1>9 DEF Environment

\* IInv is an invariant of the daemon and everything around it.
THEOREM InductiveInvariant == Spec => []IInv
<1>1. IInv /\ UNCHANGED vars => IInv'
  BY DEF vars, daemonVars, queueVars, fileVars, envVars, boundVars, IInv,
     TypeOK, HeadIsCurrent, StatusInDir, RmdataInDelete, CopyFollowsHead,
     WaitingHasLine, LineOf, HeadAnswered
<1>2. IInv /\ [Next]_vars => IInv'
  BY <1>1, DaemonIInv, PodIInv, EnvironmentIInv DEF Next
<1>3. QED
  BY InitIInv, <1>2, PTL DEF Spec

-----------------------------------------------------------------------------
(* What follows                                                            *)

\* Every variable keeps its type (android-env-service.sh, android-env.sh,
\* android-cfg-init.sh).
THEOREM TypeCorrect == Spec => []TypeOK
<1>1. IInv => TypeOK
  BY DEF IInv
<1>2. QED
  BY InductiveInvariant, <1>1, PTL

\* The line that sed deletes is the one the daemon worked on
\* (android-env-service.sh:90-113).
THEOREM HeadStaysCurrent == Spec => []HeadIsCurrent
<1>1. IInv => HeadIsCurrent
  BY DEF IInv
<1>2. QED
  BY InductiveInvariant, <1>1, PTL

\* No waiting init container is forgotten, but for a line that fell into a
\* rewrite of the queue file (android-env-service.sh:90-96,
\* android-cfg-init.sh:37-45).
THEOREM WaitingStaysQueued == Spec => []WaitingIsQueued
<1>1. IInv => WaitingIsQueued
  BY DEF IInv, WaitingHasLine, LineOf, WaitingIsQueued, Queued, Names
<1>2. QED
  BY InductiveInvariant, <1>1, PTL

-----------------------------------------------------------------------------
(* The daemon implements RequestQueue                                      *)

\* A step that leaves the queue files alone, and does not begin, handle or
\* end a request, is a stutter of RequestQueue.
Unseen ==
  /\ UNCHANGED queue
  /\ spc \in Busy <=> spc' \in Busy
  /\ spc \in {"sed", "rename"} <=> spc' \in {"sed", "rename"}
  /\ spc \in Busy => q' = q

LEMMA UnseenStutters == Unseen => UNCHANGED Requests!vars
<1> SUFFICES ASSUME Unseen PROVE UNCHANGED Requests!vars
  OBVIOUS
<1>1. UNCHANGED queue
  BY DEF Unseen
<1>2. (IF spc \in Busy THEN {q} ELSE {})' = IF spc \in Busy THEN {q} ELSE {}
  BY DEF Unseen
<1>3. (spc \in {"sed", "rename"})' = (spc \in {"sed", "rename"})
  BY DEF Unseen
<1>4. QED
  BY <1>1, <1>2, <1>3 DEF Requests!vars

\* echo >> appends a request and nothing else.
LEMMA AppendSubmits ==
  ASSUME NEW k \in Queue, NEW v \in VM, AppendTo(k, v), UNCHANGED daemonVars
  PROVE  Requests!Next
<1>1. Requests!Submit(k, v)
  BY DEF Requests!Submit, AppendTo, daemonVars
<1>2. QED
  BY <1>1 DEF Requests!Next

\* sed -i removes the first line, which has been handled, and at most the
\* last ones besides.
LEMMA SedCompletes ==
  ASSUME IInv, SedRename
  PROVE  Requests!Next
<1>0. spc = "rename" /\ spc' = "test" /\ q' = q /\ q \in Queue
  BY DEF SedRename, Goto, IInv, TypeOK
<1>1. /\ queue[q] \in Seq(VM) /\ copy \in Seq(VM)
      /\ Len(copy) + 1 <= Len(queue[q])
      /\ \A i \in 1..Len(copy) : copy[i] = queue[q][i + 1]
  BY <1>0 DEF IInv, TypeOK, CopyFollowsHead
<1> DEFINE n == Len(copy) + 1
<1>2. n \in 1..Len(queue[q])
  BY <1>1
<1>3. copy = SubSeq(queue[q], 2, n)
  <2>1. /\ SubSeq(queue[q], 2, n) \in Seq(VM)
        /\ Len(SubSeq(queue[q], 2, n)) = Len(copy)
    BY <1>1, <1>2
  <2>2. \A i \in 1..Len(copy) : SubSeq(queue[q], 2, n)[i] = copy[i]
    BY <1>1, <1>2
  <2>3. QED
    BY <1>1, <2>1, <2>2
<1>4. queue' = [queue EXCEPT ![q] = SubSeq(queue[q], 2, n)]
  BY <1>3 DEF SedRename
<1>5. queue[q] # <<>>
  BY <1>0, <1>1
<1>6. Requests!Complete(q)
  <2>1. (IF spc \in Busy THEN {q} ELSE {}) = {q} /\ spc \in {"sed", "rename"}
    BY <1>0 DEF Busy
  <2>2. /\ (IF spc \in Busy THEN {q} ELSE {})' = {}
        /\ (spc \in {"sed", "rename"})' = FALSE
    BY <1>0 DEF Busy
  <2>3. \E m \in 1..Len(queue[q]) :
          queue' = [queue EXCEPT ![q] = SubSeq(queue[q], 2, m)]
    BY <1>2, <1>4
  <2>4. QED
    BY <1>5, <2>1, <2>2, <2>3 DEF Requests!Complete
<1>7. QED
  BY <1>0, <1>6 DEF Requests!Next

\* Every step of the daemon is a step of RequestQueue or a stutter.
LEMMA DaemonImplements ==
  ASSUME IInv, Daemon
  PROVE  Requests!Next \/ UNCHANGED Requests!vars
<1> USE DEF Queue, Busy, Goto, queueVars
<1>a. TypeOK /\ HeadIsCurrent
  BY DEF IInv
<1>1. CASE StartService \/ Setup \/ LoopDone \/ Choose \/ SedRead
  BY <1>1, UnseenStutters DEF Unseen, StartService, Setup, LoopDone, Choose,
     SedRead
<1>2. CASE StartRefused
  BY <1>2, UnseenStutters DEF Unseen, StartRefused, vars, daemonVars
<1>3. CASE RunStart \/ RunStartNoCfg \/ RunDelete
  BY <1>3, UnseenStutters DEF Unseen, RunStart, RunStartNoCfg, RunDelete,
     Started
<1>4. CASE TakeHead
  <2>1. Requests!Begin(q)
    BY <1>4 DEF Requests!Begin, TakeHead
  <2>2. QED
    BY <1>a, <2>1 DEF Requests!Next, TypeOK
<1>5. CASE SedRename
  BY <1>5, SedCompletes
<1>6. CASE WriteStatus \/ RunStop \/ DeleteData
  <2>1. CASE spc' = "undo"
    BY <1>6, <2>1, UnseenStutters DEF Unseen, WriteStatus, RunStop, DeleteData
  <2>2. CASE spc' # "undo"
    <3>1. /\ spc \in Busy \ {"sed", "rename"} /\ spc' = "sed"
          /\ q' = q /\ queue' = queue
      BY <1>6, <2>2 DEF WriteStatus, RunStop, DeleteData
    <3>2. /\ (IF spc \in Busy THEN {q} ELSE {}) = {q}
          /\ (IF spc \in Busy THEN {q} ELSE {})' = {q}
          /\ ~(spc \in {"sed", "rename"})
          /\ (spc \in {"sed", "rename"})' = TRUE
      BY <3>1
    <3>3. Requests!Handle
      BY <3>1, <3>2 DEF Requests!Handle
    <3>4. QED
      BY <3>3 DEF Requests!Next
  <2>3. QED
    BY <2>1, <2>2
<1>7. QED
  BY <1>1, <1>2, <1>3, <1>4, <1>5, <1>6 DEF Daemon

\* So is every step of its surroundings: an append, an interruption, or
\* nothing that concerns the queues.
LEMMA OthersImplement ==
  ASSUME IInv,
         Environment \/ \E v \in VM : InitContainer(v) \/ PodGone(v)
  PROVE  Requests!Next \/ UNCHANGED Requests!vars
<1> USE DEF Queue, Busy, Goto, queueVars, daemonVars
<1>1. CASE SetupFails
  BY <1>1, UnseenStutters DEF Unseen, SetupFails
<1>2. CASE RunStartFails
  BY <1>2, UnseenStutters DEF Unseen, RunStartFails, Started
<1>3. CASE Term \/ Kill \/ HostReboot
  <2>1. spc' = "off" /\ queue' = queue
    BY <1>3 DEF Term, Kill, HostReboot
  <2>2. CASE spc \in Busy
    <3>1. /\ (IF spc \in Busy THEN {q} ELSE {}) = {q}
          /\ (IF spc \in Busy THEN {q} ELSE {})' = {}
          /\ (spc \in {"sed", "rename"})' = FALSE
      BY <2>1, <2>2
    <3>2. Requests!Interrupt
      BY <2>1, <3>1 DEF Requests!Interrupt
    <3>3. QED
      BY <3>2 DEF Requests!Next
  <2>3. CASE spc \notin Busy
    BY <2>1, <2>3, UnseenStutters DEF Unseen
  <2>4. QED
    BY <2>2, <2>3
<1>4. ASSUME NEW v \in VM,
             \/ PodCreated(v) \/ InitPodDeleted(v) \/ PodGone(v)
             \/ InitWriteCfg(v) \/ InitClearStatus(v) \/ InitDone(v)
      PROVE  UNCHANGED Requests!vars
  BY <1>4, UnseenStutters DEF Unseen, PodCreated, InitPodDeleted, PodGone,
     InitWriteCfg, InitClearStatus, InitDone
<1>5. ASSUME NEW v \in VM, InitFailed(v) PROVE UNCHANGED Requests!vars
  BY <1>5, UnseenStutters DEF Unseen, InitFailed, vars
<1>6. ASSUME NEW v \in VM, PreStop(v) \/ DeleteJob(v) \/ InitQueue(v)
      PROVE  Requests!Next
  BY <1>6, AppendSubmits DEF PreStop, DeleteJob, InitQueue
<1>7. QED
  BY <1>1, <1>2, <1>3, <1>4, <1>5, <1>6 DEF Environment, InitContainer

\* The daemon, with everything around it, keeps the promise of RequestQueue
\* (android-env-service.sh:90-116).
THEOREM KeepsRequestsHolds == Spec => KeepsRequests
<1>1. Init => Requests!Init
  BY DEF Init, Requests!Init, Queue, Busy
<1>2. IInv /\ [Next]_vars => [Requests!Next]_(Requests!vars)
  <2>1. ASSUME UNCHANGED vars PROVE UNCHANGED Requests!vars
    BY <2>1, UnseenStutters DEF Unseen, vars, daemonVars, queueVars
  <2>2. QED
    BY <2>1, DaemonImplements, OthersImplement DEF Next
<1>3. QED
  BY InductiveInvariant, <1>1, <1>2, PTL DEF Spec, KeepsRequests, Requests!Spec
=============================================================================
