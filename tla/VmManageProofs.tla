--------------------------- MODULE VmManageProofs ----------------------------
(***************************************************************************)
(* Theorems about VmManage, for every finite set of VMs, any number of     *)
(* invocations of the script, of workers and of failures.                  *)
(***************************************************************************)
EXTENDS VmManage, Integers, FiniteSetTheorems, TLAPS

-----------------------------------------------------------------------------
(* The inductive invariant                                                 *)

Started(i) == {v \in VM : worker[i][v] # "none"}
Through(i) == {v \in VM : worker[i][v] = "ok"}

\* Invocations begin one after the other, and have nothing before.
BegunInOrder ==
  \A i \in Invocation :
    /\ main[i] # "off" => \A j \in Invocation : j < i => main[j] # "off"
    /\ main[i] = "off" => todo[i] = {} /\ Started(i) = {}
    /\ main[i] \in {"wait", "done"} => todo[i] = {}

\* ANDROID_TOTAL_NUM is the number of VMs that have a worker or may get one.
Counted ==
  \A i \in Invocation :
    /\ todo[i] \cap Started(i) = {}
    /\ total[i] = Cardinality(todo[i] \cup Started(i))

\* Nobody else is under way with an invocation that has not met another and
\* is under way itself or the last one begun.
AloneMeansAlone ==
  \A i \in Invocation :
    /\ main[i] # "off" /\ ~shared[i]
    /\ UnderWay(i) \/ \A j \in Invocation : j > i => main[j] = "off"
    => \A j \in Invocation \ {i} : ~UnderWay(j)

\* The file has the lines of the invocation that is alone.
LinesAreItsOwn ==
  \A i \in Invocation : main[i] \in {"loop", "wait"} /\ ~shared[i] =>
    lines = Cardinality(Through(i))

\* The VM's name is the beginning of no other's.
Unambiguous(v) == \A u \in VM : Matches(v, u) => u = v

\* A Job that is not complete has a worker that waits for it.
JobsHaveWorkers ==
  \A v \in VM : Unambiguous(v) /\ job[v] = "0/1" =>
    \E i \in Invocation : worker[i][v] = "job"

\* Nobody else has touched the VM, or nobody does since i began.
Exclusive(i, v) ==
  \/ \A j \in Invocation \ {i} : worker[j][v] = "none"
  \/ ~shared[i] /\ \A j \in Invocation : j > i => main[j] = "off"

\* How far a worker has come with its VM: what it asked of the StatefulSet is
\* so, and what it saw too, if that was reliable.
InProgress(i, v) ==
  /\ worker[i][v] = "running" => replicas[v] = "1"
  /\ worker[i][v] = "gone" /\ op[i] = "shutdown" => replicas[v] = "0"
  /\ worker[i][v] = "gone" /\ op[i] = "delete" => replicas[v] = "absent"
  /\ worker[i][v] = "again" /\ op[i] = "delete" =>
       /\ replicas[v] = "absent"
       /\ Reliable(i, v) => pod[v] = "none" /\ job[v] = "none"
  /\ worker[i][v] = "job" =>
       /\ replicas[v] = "absent"
       /\ Reliable(i, v) => pod[v] = "none" /\ (job[v] = "1/1" => ~fresh[v])
  /\ worker[i][v] = "ok" =>
       /\ replicas[v] = Asked(op[i])
       /\ Reliable(i, v) => InPlace(op[i], v)

\* A worker waits for what its operation leads to ...
WaitsFit(i, v) ==
  /\ worker[i][v] = "running" => op[i] \in {"create", "startup", "reboot"}
  /\ worker[i][v] = "gone" => op[i] \in {"shutdown", "reboot", "delete"}
  /\ worker[i][v] = "again" => op[i] \in {"reboot", "delete"}
  /\ worker[i][v] = "job" => op[i] = "delete"

\* ... and gets it, if it has the VM to itself.
WorkersGetOn ==
  \A i \in Invocation, v \in VM :
    /\ WaitsFit(i, v)
    /\ Exclusive(i, v) => InProgress(i, v)

ScriptInv ==
  /\ BegunInOrder
  /\ Counted
  /\ AloneMeansAlone
  /\ LinesAreItsOwn
  /\ EndMeansDone

IInv ==
  /\ TypeOK
  /\ ScriptInv
  /\ JobsHaveWorkers
  /\ WorkersGetOn
-----------------------------------------------------------------------------
(* Facts the proofs share                                                  *)

LEMMA SubsetsCount ==
  ASSUME NEW S \in SUBSET VM
  PROVE  IsFiniteSet(S) /\ Cardinality(S) \in Nat
<1>1. IsFiniteSet(S)
  BY VMAssumption, FS_Subset
<1>2. QED
  BY <1>1, FS_CardinalityType

\* A step of a background function, be it one that a failed call lets go on.
WorkerStep(i, v) == Worker(i, v) \/ GetPodFails(i, v)

\* What every step of a background function does to the script's state: the
\* function itself gets on, and adds its line when it is through.
Moves(i, v, s) ==
  /\ worker[i][v] \in Active /\ worker' = [worker EXCEPT ![i][v] = s]
  /\ lines' = IF s = "ok" THEN lines + 1 ELSE lines
  /\ UNCHANGED <<main, op, todo, total, shared>>

LEMMA WorkerMoves ==
  ASSUME NEW i \in Invocation, NEW v \in VM, WorkerStep(i, v)
  PROVE  \E s \in Active \cup {"ok", "failed"} : Moves(i, v, s)
<1> USE DEF WorkerStep, Worker, Active, WorkerTo, WorkerOk, scriptVars
<1>1. CASE Request(i, v)
  <2>1. CASE op[i] \in {"create", "startup"}
    <3>1. Moves(i, v, "running")
      BY <1>1, <2>1 DEF Request, Moves
    <3>2. QED
      BY <3>1
  <2>2. CASE ~(op[i] \in {"create", "startup"})
    <3>1. Moves(i, v, "gone")
      BY <1>1, <2>2 DEF Request, Moves
    <3>2. QED
      BY <3>1
  <2>3. QED
    BY <2>1, <2>2
<1>2. CASE RequestFails(i, v) \/ AgainFails(i, v)
  <2>1. Moves(i, v, "failed")
    BY <1>2 DEF RequestFails, AgainFails, Moves
  <2>2. QED
    BY <2>1
<1>3. CASE PodsGone(i, v) \/ GetPodFails(i, v)
  <2>1. Moves(i, v, "ok") \/ Moves(i, v, "again")
    BY <1>3 DEF PodsGone, GetPodFails, GoneThen, Moves
  <2>2. QED
    BY <2>1
<1>4. CASE PatchAgain(i, v)
  <2>1. Moves(i, v, "running")
    BY <1>4 DEF PatchAgain, Moves
  <2>2. QED
    BY <2>1
<1>5. CASE ApplyJob(i, v)
  <2>1. Moves(i, v, "job")
    BY <1>5 DEF ApplyJob, Moves
  <2>2. QED
    BY <2>1
<1>6. CASE PodRunning(i, v) \/ JobComplete(i, v)
  <2>1. Moves(i, v, "ok")
    BY <1>6 DEF PodRunning, JobComplete, Moves
  <2>2. QED
    BY <2>1
<1>7. QED
  BY <1>1, <1>2, <1>3, <1>4, <1>5, <1>6

\* Whose steps change what of the workers.
LEMMA MovesOne ==
  ASSUME TypeOK, NEW i \in Invocation, NEW v \in VM,
         NEW s \in Active \cup {"ok", "failed"}, Moves(i, v, s)
  PROVE  /\ worker' \in [Invocation -> [VM -> Active \cup {"none", "ok", "failed"}]]
         /\ worker'[i][v] = s
         /\ \A j \in Invocation, u \in VM :
              j # i \/ u # v => worker'[j][u] = worker[j][u]
         /\ \A j \in Invocation : Started(j)' = Started(j)
         /\ \A j \in Invocation : UnderWay(j)' => UnderWay(j)
         /\ UnderWay(i)
<1>1. /\ worker' \in [Invocation -> [VM -> Active \cup {"none", "ok", "failed"}]]
      /\ worker'[i][v] = s
      /\ \A j \in Invocation, u \in VM :
           j # i \/ u # v => worker'[j][u] = worker[j][u]
  BY DEF TypeOK, Moves
<1>2. worker[i][v] \in Active /\ worker[i][v] # "none" /\ s # "none"
  BY DEF Moves, Active
<1>3. \A j \in Invocation : Started(j)' = Started(j)
  BY <1>1, <1>2 DEF Started
<1>4. UnderWay(i)
  BY <1>2 DEF UnderWay
<1>5. ASSUME NEW j \in Invocation, j # i PROVE UnderWay(j)' => UnderWay(j)
  BY <1>1, <1>5 DEF UnderWay, Moves
<1>6. QED
  BY <1>1, <1>3, <1>4, <1>5

\* The background functions preserve the script's invariant: no other
\* invocation that counts on its own lines is there when one adds its line.
LEMMA MovesScriptInv ==
  ASSUME TypeOK, ScriptInv, NEW i \in Invocation, NEW v \in VM,
         NEW s \in Active \cup {"ok", "failed"}, Moves(i, v, s)
  PROVE  ScriptInv'
<1>a. BegunInOrder /\ Counted /\ AloneMeansAlone /\ LinesAreItsOwn /\ EndMeansDone
  BY DEF ScriptInv
<1>b. /\ worker'[i][v] = s
      /\ \A j \in Invocation, u \in VM :
           j # i \/ u # v => worker'[j][u] = worker[j][u]
      /\ \A j \in Invocation : Started(j)' = Started(j)
      /\ \A j \in Invocation : UnderWay(j)' => UnderWay(j)
      /\ UnderWay(i)
  BY MovesOne
<1>c. /\ UNCHANGED <<main, op, todo, total, shared>> /\ worker[i][v] \in Active
      /\ lines' = IF s = "ok" THEN lines + 1 ELSE lines
  BY DEF Moves
<1>1. BegunInOrder' /\ Counted'
  BY <1>a, <1>b, <1>c DEF BegunInOrder, Counted
<1>2. AloneMeansAlone'
  BY <1>a, <1>b, <1>c DEF AloneMeansAlone
<1>3. LinesAreItsOwn'
  <2> SUFFICES ASSUME NEW j \in Invocation, main[j] \in {"loop", "wait"},
                      ~shared[j]
               PROVE  lines' = Cardinality(Through(j)')
    BY <1>c DEF LinesAreItsOwn
  <2>1. lines = Cardinality(Through(j))
    BY <1>a DEF LinesAreItsOwn
  <2>2. j = i
    BY <1>a, <1>b DEF AloneMeansAlone, UnderWay
  <2>3. v \notin Through(j) /\ IsFiniteSet(Through(j))
    BY <1>c, <2>2, SubsetsCount DEF Through, Active
  <2>4. CASE s = "ok"
    <3>1. Through(j)' = Through(j) \cup {v}
      BY <1>b, <2>2, <2>4 DEF Through
    <3>2. QED
      BY <1>c, <2>1, <2>3, <2>4, <3>1, FS_AddElement
  <2>5. CASE s # "ok"
    <3>1. Through(j)' = Through(j)
      BY <1>b, <1>c, <2>2, <2>5 DEF Through, Active
    <3>2. QED
      BY <1>c, <2>1, <2>5, <3>1
  <2>6. QED
    BY <2>4, <2>5
<1>4. EndMeansDone'
  <2>1. main[i] = "done" => shared[i]
    BY <1>a, <1>c DEF EndMeansDone, Active
  <2>2. QED
    BY <1>a, <1>b, <1>c, <2>1 DEF EndMeansDone
<1>5. QED
  BY <1>1, <1>2, <1>3, <1>4 DEF ScriptInv
-----------------------------------------------------------------------------
(* The script                                                              *)

\* The for loop finds the smallest index it has not reached.
LEMMA SmallestExists ==
  ASSUME NEW S \in SUBSET VM, S # {}
  PROVE  (CHOOSE u \in S : \A w \in S : u <= w) \in S
<1> DEFINE R == {ss \in Nat \X Nat : ss[1] < ss[2]}
<1>1. IsWellFoundedOn(R, Nat)
  BY NatLessThanWellFounded, Zenon DEF OpToRel
<1>2. S \subseteq Nat
  BY VMAssumption
<1>3. \E x \in S : \A y \in S : ~(<<y, x>> \in R)
  <2> HIDE DEF R
  <2>1. QED
    BY <1>1, <1>2, WFMin
<1>4. PICK x \in S : \A y \in S : ~(<<y, x>> \in R)
  BY <1>3
<1>5. \A y \in S : x <= y
  <2> SUFFICES ASSUME NEW y \in S PROVE x <= y
    OBVIOUS
  <2>1. x \in Nat /\ y \in Nat
    BY <1>2
  <2>2. y < x => <<y, x>> \in R
    BY <2>1
  <2>3. QED
    BY <1>4, <2>1, <2>2
<1>6. QED
  BY <1>5

\* A new invocation meets whoever is under way.
LEMMA BeginIInv ==
  ASSUME IInv, NEW i \in Invocation, Begin(i)
  PROVE  TypeOK' /\ ScriptInv'
<1>a. /\ TypeOK /\ BegunInOrder /\ Counted /\ AloneMeansAlone
      /\ LinesAreItsOwn /\ EndMeansDone
  BY DEF IInv, ScriptInv
<1>b. PICK o \in Op, lo \in VM, hi \in VM :
        /\ lo <= hi /\ lo..hi \subseteq VM
        /\ op' = [op EXCEPT ![i] = o]
        /\ todo' = [todo EXCEPT ![i] = lo..hi]
        /\ total' = [total EXCEPT ![i] = hi - lo + 1]
  BY DEF Begin
<1>c. /\ main[i] = "off" /\ main' = [main EXCEPT ![i] = "loop"] /\ lines' = 0
      /\ \A j \in Invocation : j < i => main[j] # "off"
      /\ UNCHANGED <<worker, replicas, pod, job, fresh, blind, failures>>
      /\ shared' = [j \in Invocation |->
           \/ shared[j] \/ j \in {k \in Invocation \ {i} : UnderWay(k)}
           \/ (j = i /\ {k \in Invocation \ {i} : UnderWay(k)} # {})]
  BY DEF Begin, Meet, clusterVars
<1>d. lo \in Nat /\ hi \in Nat /\ hi - lo + 1 \in Nat
      /\ Cardinality(lo..hi) = hi - lo + 1
  BY <1>b, VMAssumption, FS_Interval
<1>e. todo[i] = {} /\ Started(i) = {}
  BY <1>a, <1>c DEF BegunInOrder
<1>f. /\ \A j \in Invocation : Started(j)' = Started(j)
      /\ Through(i)' = {}
  BY <1>c, <1>e DEF Started, Through
<1>g. \A j \in Invocation \ {i} :
        main'[j] = main[j] /\ todo'[j] = todo[j] /\ total'[j] = total[j]
  BY <1>a, <1>b, <1>c DEF TypeOK
<1>h. main'[i] = "loop" /\ todo'[i] = lo..hi /\ total'[i] = hi - lo + 1
  BY <1>a, <1>b, <1>c DEF TypeOK
<1>i. \A j \in Invocation \ {i} : UnderWay(j)' <=> UnderWay(j)
  BY <1>c, <1>g DEF UnderWay
<1>j. /\ \A j \in Invocation \ {i} : ~shared'[j] => ~shared[j] /\ ~UnderWay(j)
      /\ ~shared'[i] => \A j \in Invocation \ {i} : ~UnderWay(j)
  BY <1>c
<1>k. \A j \in Invocation : j > i => main[j] = "off"
  BY <1>a, <1>c DEF BegunInOrder, Invocation
<1>1. TypeOK'
  <2>1. shared' \in [Invocation -> BOOLEAN]
    BY <1>c, Zenon
  <2>2. QED
    BY <1>a, <1>b, <1>c, <1>d, <2>1 DEF TypeOK
<1>2. BegunInOrder'
  BY <1>a, <1>c, <1>e, <1>f, <1>g, <1>h DEF BegunInOrder
<1>3. Counted'
  <2> SUFFICES ASSUME NEW j \in Invocation
               PROVE  /\ todo'[j] \cap Started(j)' = {}
                      /\ total'[j] = Cardinality(todo'[j] \cup Started(j)')
    BY DEF Counted
  <2>1. CASE j = i
    <3>1. Started(i)' = {}
      BY <1>e, <1>f
    <3>2. todo'[i] \cup Started(i)' = lo..hi /\ todo'[i] \cap Started(i)' = {}
      BY <1>h, <3>1
    <3>3. QED
      BY <1>d, <1>h, <2>1, <3>2
  <2>2. CASE j # i
    BY <1>a, <1>f, <1>g, <2>2 DEF Counted
  <2>3. QED
    BY <2>1, <2>2
<1>4. AloneMeansAlone'
  <2> SUFFICES ASSUME NEW j \in Invocation, main'[j] # "off", ~shared'[j],
                      \/ UnderWay(j)'
                      \/ \A k \in Invocation : k > j => main'[k] = "off",
                      NEW k \in Invocation \ {j}
               PROVE  ~UnderWay(k)'
    BY DEF AloneMeansAlone
  <2>1. CASE j = i
    BY <1>i, <1>j, <2>1
  <2>2. CASE j # i
    <3>1. ~UnderWay(j)'
      BY <1>i, <1>j, <2>2
    <3>2. main'[i] = "loop" /\ main[j] # "off"
      BY <1>g, <1>h, <2>2
    <3>3. ~(i > j)
      BY <3>1, <3>2
    <3>4. QED
      BY <1>k, <2>2, <3>2, <3>3 DEF Invocation
  <2>3. QED
    BY <2>1, <2>2
<1>5. LinesAreItsOwn'
  <2>1. \A j \in Invocation \ {i} : main'[j] \in {"loop", "wait"} => shared'[j]
    BY <1>g, <1>j DEF UnderWay
  <2>2. Cardinality({}) = 0
    BY FS_EmptySet
  <2>3. QED
    BY <1>c, <1>f, <2>1, <2>2 DEF LinesAreItsOwn
<1>6. EndMeansDone'
  BY <1>a, <1>c, <1>g, <1>h, <1>j DEF EndMeansDone
<1>7. QED
  BY <1>1, <1>2, <1>3, <1>4, <1>5, <1>6 DEF ScriptInv

\* A round of the for loop: a worker more or a VM less to count.
LEMMA LaunchIInv ==
  ASSUME IInv, NEW i \in Invocation, Launch(i)
  PROVE  TypeOK' /\ ScriptInv'
<1>a. /\ TypeOK /\ BegunInOrder /\ Counted /\ AloneMeansAlone
      /\ LinesAreItsOwn /\ EndMeansDone
  BY DEF IInv, ScriptInv
<1> DEFINE v == CHOOSE u \in todo[i] : \A w \in todo[i] : u <= w
<1>b. /\ main[i] = "loop" /\ todo[i] # {}
      /\ todo' = [todo EXCEPT ![i] = @ \ {v}]
      /\ \/ /\ worker' = [worker EXCEPT ![i][v] = "request"]
            /\ UNCHANGED <<total, failures>>
         \/ /\ UNCHANGED worker
            /\ UNCHANGED failures \/ Fail
            /\ total' = [total EXCEPT ![i] = @ - 1]
      /\ UNCHANGED <<main, op, lines, replicas, pod, job, fresh, shared,
                     blind>>
  BY DEF Launch, clusterVars
<1>c. v \in todo[i] /\ v \in VM
  BY <1>a, <1>b, SmallestExists DEF TypeOK
<1> HIDE DEF v
<1>d. /\ todo'[i] = todo[i] \ {v} /\ worker[i][v] = "none"
      /\ \A j \in Invocation \ {i} : todo'[j] = todo[j]
      /\ v \notin Started(i)
  <2>1. todo'[i] = todo[i] \ {v} /\ \A j \in Invocation \ {i} : todo'[j] = todo[j]
    BY <1>a, <1>b DEF TypeOK
  <2>2. todo[i] \cap Started(i) = {}
    BY <1>a DEF Counted
  <2>3. v \notin Started(i)
    BY <1>c, <2>2
  <2>4. QED
    BY <1>c, <2>1, <2>3 DEF Started
<1>e. /\ todo[i] \cup Started(i) \in SUBSET VM
      /\ IsFiniteSet(todo[i] \cup Started(i))
      /\ Cardinality(todo[i] \cup Started(i)) \in Nat
  BY <1>a, SubsetsCount DEF TypeOK, Started
<1>f. total[i] \in Nat \ {0} /\ total[i] = Cardinality(todo[i] \cup Started(i))
  <2>1. Cardinality(todo[i] \cup Started(i)) # 0
    BY <1>c, <1>e, FS_EmptySet
  <2>2. QED
    BY <1>a, <1>e, <2>1 DEF Counted
<1>g. /\ \A j \in Invocation \ {i}, u \in VM : worker'[j][u] = worker[j][u]
      /\ \A u \in VM \ {v} : worker'[i][u] = worker[i][u]
      /\ worker'[i][v] \in {"none", "request"}
  BY <1>a, <1>b, <1>c, <1>d DEF TypeOK
<1>h. /\ \A j \in Invocation \ {i} : Started(j)' = Started(j)
      /\ \A j \in Invocation : Through(j)' = Through(j)
      /\ \A j \in Invocation : UnderWay(j)' <=> UnderWay(j)
  BY <1>b, <1>c, <1>d, <1>g DEF Started, Through, UnderWay
<1>1. TypeOK'
  <2>1. total' \in [Invocation -> Nat]
    <3>1. total \in [Invocation -> Nat] /\ total[i] - 1 \in Nat
      BY <1>a, <1>f DEF TypeOK
    <3>2. total' = total \/ total' = [total EXCEPT ![i] = total[i] - 1]
      BY <1>b
    <3>3. QED
      BY <3>1, <3>2
  <2>2. /\ todo' \in [Invocation -> SUBSET VM]
        /\ worker' \in [Invocation -> [VM -> Active \cup {"none", "ok", "failed"}]]
        /\ failures' \in Nat
    <3>1. todo' \in [Invocation -> SUBSET VM]
      <4>1. todo \in [Invocation -> SUBSET VM]
        BY <1>a DEF TypeOK
      <4>2. QED
        BY <1>b, <4>1
    <3>2. worker' \in [Invocation -> [VM -> Active \cup {"none", "ok", "failed"}]]
      <4>1. worker \in [Invocation -> [VM -> Active \cup {"none", "ok", "failed"}]]
        BY <1>a DEF TypeOK
      <4>2. worker' = worker \/ worker' = [worker EXCEPT ![i][v] = "request"]
        BY <1>b
      <4>3. QED
        BY <1>c, <4>1, <4>2 DEF Active
    <3>3. failures' \in Nat
      BY <1>a, <1>b DEF TypeOK, Fail
    <3>4. QED
      BY <3>1, <3>2, <3>3
  <2>3. QED
    BY <1>a, <1>b, <2>1, <2>2 DEF TypeOK
<1>2. BegunInOrder'
  BY <1>a, <1>b, <1>d, <1>h DEF BegunInOrder
<1>3. Counted'
  <2> SUFFICES ASSUME NEW j \in Invocation
               PROVE  /\ todo'[j] \cap Started(j)' = {}
                      /\ total'[j] = Cardinality(todo'[j] \cup Started(j)')
    BY DEF Counted
  <2>1. CASE j # i
    <3>1. total'[j] = total[j]
      BY <1>a, <1>b, <2>1 DEF TypeOK
    <3>2. QED
      BY <1>a, <1>d, <1>h, <2>1, <3>1 DEF Counted
  <2>2. CASE j = i /\ worker' = [worker EXCEPT ![i][v] = "request"]
                   /\ UNCHANGED total
    <3>1. Started(i)' = Started(i) \cup {v}
      BY <1>a, <1>c, <2>2 DEF Started, TypeOK
    <3>2. todo'[i] \cup Started(i)' = todo[i] \cup Started(i)
      BY <1>c, <1>d, <3>1
    <3>3. QED
      BY <1>a, <1>d, <1>f, <2>2, <3>1, <3>2 DEF Counted
  <2>3. CASE j = i /\ UNCHANGED worker
                   /\ total' = [total EXCEPT ![i] = @ - 1]
    <3>1. Started(i)' = Started(i)
      BY <2>3 DEF Started
    <3>2. todo'[i] \cup Started(i)' = (todo[i] \cup Started(i)) \ {v}
      BY <1>d, <3>1
    <3>3. Cardinality((todo[i] \cup Started(i)) \ {v}) = total[i] - 1
      BY <1>c, <1>e, <1>f, FS_RemoveElement
    <3>4. total'[i] = total[i] - 1
      BY <1>a, <2>3 DEF TypeOK
    <3>5. QED
      <4>1. todo[i] \cap Started(i) = {}
        BY <1>a DEF Counted
      <4>2. todo'[i] \cap Started(i)' = {}
        BY <1>d, <3>1, <4>1
      <4>3. QED
        BY <2>3, <3>2, <3>3, <3>4, <4>2
  <2>4. QED
    BY <1>b, <2>1, <2>2, <2>3
<1>4. AloneMeansAlone' /\ LinesAreItsOwn'
  BY <1>a, <1>b, <1>h DEF AloneMeansAlone, LinesAreItsOwn
<1>5. EndMeansDone'
  BY <1>a, <1>b, <1>g DEF EndMeansDone
<1>6. QED
  BY <1>1, <1>2, <1>3, <1>4, <1>5 DEF ScriptInv

\* The end of the for loop and that of wait_op_finish: as many lines as VMs
\* were counted means that every worker is through.
LEMMA EndIInv ==
  ASSUME IInv, NEW i \in Invocation, LoopDone(i) \/ WaitOpFinish(i)
  PROVE  TypeOK' /\ ScriptInv'
<1>a. /\ TypeOK /\ BegunInOrder /\ Counted /\ AloneMeansAlone
      /\ LinesAreItsOwn /\ EndMeansDone
  BY DEF IInv, ScriptInv
<1>b. UNCHANGED <<shared, blind, op, todo, total, lines, worker, replicas, pod,
                  job, fresh, failures>>
  BY DEF LoopDone, WaitOpFinish, clusterVars
<1>c. /\ main[i] \in {"loop", "wait"} /\ main'[i] \in {"wait", "done"}
      /\ \A j \in Invocation \ {i} : main'[j] = main[j]
      /\ todo[i] = {}
      /\ main' \in [Invocation -> {"off", "loop", "wait", "done"}]
  BY <1>a DEF LoopDone, WaitOpFinish, TypeOK, BegunInOrder
<1>d. \A j \in Invocation : Started(j)' = Started(j) /\ Through(j)' = Through(j)
  BY <1>b DEF Started, Through
<1>1. TypeOK'
  BY <1>a, <1>b, <1>c DEF TypeOK
<1>2. BegunInOrder'
  BY <1>a, <1>b, <1>c, <1>d DEF BegunInOrder
<1>3. Counted'
  BY <1>a, <1>b, <1>d DEF Counted
<1>4. AloneMeansAlone'
  <2>1. \A j \in Invocation : UnderWay(j)' => UnderWay(j)
    BY <1>b, <1>c DEF UnderWay
  <2>2. \A j \in Invocation : main'[j] = "off" <=> main[j] = "off"
    BY <1>c
  <2>3. QED
    BY <1>a, <1>b, <2>1, <2>2 DEF AloneMeansAlone
<1>5. LinesAreItsOwn'
  BY <1>a, <1>b, <1>c, <1>d DEF LinesAreItsOwn
<1>6. EndMeansDone'
  <2> SUFFICES ASSUME main'[i] = "done", ~shared[i], NEW v \in VM
               PROVE  worker[i][v] \in {"none", "ok"}
    BY <1>a, <1>b, <1>c DEF EndMeansDone
  <2>1. main[i] = "wait" /\ lines = total[i]
    BY <1>a, <1>c DEF LoopDone, WaitOpFinish, TypeOK
  <2>2. Cardinality(Through(i)) = Cardinality(Started(i))
    <3>1. Cardinality(Through(i)) = total[i]
      BY <1>a, <2>1 DEF LinesAreItsOwn
    <3>2. todo[i] \cup Started(i) = Started(i)
      BY <1>c
    <3>3. QED
      BY <1>a, <3>1, <3>2 DEF Counted
  <2>3. Through(i) = Started(i)
    <3>1. Through(i) \in SUBSET Started(i) /\ IsFiniteSet(Started(i))
      BY SubsetsCount DEF Through, Started
    <3>2. QED
      BY <2>2, <3>1, FS_Subset
  <2>4. QED
    BY <2>3 DEF Through, Started
<1>7. QED
  BY <1>1, <1>2, <1>3, <1>4, <1>5, <1>6 DEF ScriptInv
-----------------------------------------------------------------------------
(* The VMs                                                                 *)

\* With a worker that has its VM to itself, no other is at work on it.
LEMMA QuietElsewhere ==
  ASSUME IInv, NEW i \in Invocation, NEW v \in VM, worker[i][v] # "none",
         Exclusive(i, v), NEW j \in Invocation, j # i
  PROVE  worker[j][v] \notin Active
<1>1. CASE \A k \in Invocation \ {i} : worker[k][v] = "none"
  BY <1>1 DEF Active
<1>2. CASE ~shared[i] /\ \A k \in Invocation : k > i => main[k] = "off"
  <2>1. main[i] # "off"
    BY DEF IInv, ScriptInv, BegunInOrder, Started
  <2>2. ~UnderWay(j)
    BY <1>2, <2>1 DEF IInv, ScriptInv, AloneMeansAlone
  <2>3. QED
    BY <2>2 DEF UnderWay
<1>3. QED
  BY <1>1, <1>2 DEF Exclusive

\* Nor is there a Job under way on which nobody of its own waits.
LEMMA NoForeignJob ==
  ASSUME IInv, NEW i \in Invocation, NEW v \in VM,
         worker[i][v] \notin {"none", "job"}, Exclusive(i, v), Unambiguous(v)
  PROVE  job[v] # "0/1"
<1> SUFFICES ASSUME job[v] = "0/1" PROVE FALSE
  OBVIOUS
<1>1. PICK j \in Invocation : worker[j][v] = "job"
  BY DEF IInv, JobsHaveWorkers
<1>2. QED
  BY <1>1, QuietElsewhere DEF Active

\* Whoever has a VM to himself after a step had it before.
LEMMA ExclusiveBefore ==
  ASSUME \A j \in Invocation, u \in VM : worker'[j][u] = "none" => worker[j][u] = "none",
         \A j \in Invocation : shared[j] => shared'[j],
         \A j \in Invocation : main'[j] = "off" => main[j] = "off",
         NEW i \in Invocation, NEW v \in VM, Exclusive(i, v)'
  PROVE  Exclusive(i, v)
BY DEF Exclusive

\* The script only starts workers.
LEMMA ScriptCluster ==
  ASSUME IInv, NEW i \in Invocation,
         Begin(i) \/ Launch(i) \/ LoopDone(i) \/ WaitOpFinish(i)
  PROVE  JobsHaveWorkers' /\ WorkersGetOn'
<1>a. TypeOK /\ ScriptInv /\ JobsHaveWorkers /\ WorkersGetOn
  BY DEF IInv
<1>b. UNCHANGED <<replicas, pod, job, fresh, blind>>
  BY DEF Begin, Launch, LoopDone, WaitOpFinish, clusterVars
<1>c. \A j \in Invocation, u \in VM :
        \/ worker'[j][u] = worker[j][u]
        \/ worker[j][u] = "none" /\ worker'[j][u] = "request"
  <2>1. CASE Launch(i)
    <3> DEFINE v == CHOOSE u \in todo[i] : \A w \in todo[i] : u <= w
    <3>1. /\ todo[i] # {}
          /\ \/ worker' = [worker EXCEPT ![i][v] = "request"]
             \/ UNCHANGED worker
      BY <2>1 DEF Launch
    <3>2. v \in todo[i] /\ v \in VM
      BY <1>a, <3>1, SmallestExists DEF TypeOK
    <3> HIDE DEF v
    <3>3. todo[i] \cap Started(i) = {}
      BY <1>a DEF ScriptInv, Counted
    <3>4. worker[i][v] = "none"
      BY <3>2, <3>3 DEF Started
    <3>5. QED
      BY <1>a, <3>1, <3>2, <3>4 DEF TypeOK
  <2>2. CASE Begin(i) \/ LoopDone(i) \/ WaitOpFinish(i)
    BY <2>2 DEF Begin, LoopDone, WaitOpFinish
  <2>3. QED
    BY <2>1, <2>2
<1>d. \A j \in Invocation, u \in VM : worker[j][u] # "none" => op'[j] = op[j]
  <2>1. CASE Begin(i)
    <3>1. \A u \in VM : worker[i][u] = "none"
      BY <1>a, <2>1 DEF Begin, ScriptInv, BegunInOrder, Started
    <3>2. PICK o \in Op : op' = [op EXCEPT ![i] = o]
      BY <2>1 DEF Begin
    <3>3. QED
      BY <1>a, <3>1, <3>2 DEF TypeOK
  <2>2. CASE Launch(i) \/ LoopDone(i) \/ WaitOpFinish(i)
    BY <2>2 DEF Launch, LoopDone, WaitOpFinish
  <2>3. QED
    BY <2>1, <2>2
<1>e. /\ \A j \in Invocation : shared[j] => shared'[j]
      /\ \A j \in Invocation : main'[j] = "off" => main[j] = "off"
  <2>1. CASE Begin(i)
    BY <1>a, <2>1 DEF Begin, Meet, TypeOK
  <2>2. CASE Launch(i) \/ LoopDone(i) \/ WaitOpFinish(i)
    BY <1>a, <2>2 DEF Launch, LoopDone, WaitOpFinish, TypeOK
  <2>3. QED
    BY <2>1, <2>2
<1>1. JobsHaveWorkers'
  <2> SUFFICES ASSUME NEW v \in VM, Unambiguous(v), job[v] = "0/1"
               PROVE  \E j \in Invocation : worker'[j][v] = "job"
    BY <1>b DEF JobsHaveWorkers, Unambiguous
  <2>1. PICK j \in Invocation : worker[j][v] = "job"
    BY <1>a DEF JobsHaveWorkers
  <2>2. QED
    BY <1>c, <2>1
<1>2. WorkersGetOn'
  <2> SUFFICES ASSUME NEW j \in Invocation, NEW v \in VM
               PROVE  /\ WaitsFit(j, v)'
                      /\ Exclusive(j, v)' => InProgress(j, v)'
    BY DEF WorkersGetOn
  <2>1. CASE worker'[j][v] \in {"none", "request"}
    BY <2>1 DEF WaitsFit, InProgress
  <2>2. CASE worker'[j][v] \notin {"none", "request"}
    <3>1. worker'[j][v] = worker[j][v] /\ op'[j] = op[j]
      BY <1>c, <1>d, <2>2
    <3>2. Exclusive(j, v)' => Exclusive(j, v)
      BY <1>c, <1>e, ExclusiveBefore
    <3>3. WaitsFit(j, v)'
      BY <1>a, <3>1 DEF WorkersGetOn, WaitsFit
    <3>4. Exclusive(j, v) => InProgress(j, v)
      BY <1>a DEF WorkersGetOn
    <3>5. InProgress(j, v) => InProgress(j, v)'
      BY <1>b, <3>1 DEF InProgress, InPlace, Asked, Reliable
    <3>6. QED
      BY <3>2, <3>3, <3>4, <3>5
  <2>3. QED
    BY <2>1, <2>2
<1>3. QED
  BY <1>1, <1>2

\* A step of a worker concerns only that worker, if it has the VM to itself.
LEMMA MovesCluster ==
  ASSUME IInv, NEW i \in Invocation, NEW v \in VM,
         NEW s \in Active \cup {"ok", "failed"}, Moves(i, v, s),
         \A u \in VM \ {v} : /\ replicas'[u] = replicas[u] /\ pod'[u] = pod[u]
                             /\ job'[u] = job[u] /\ fresh'[u] = fresh[u],
         \A j \in Invocation, u \in VM :
           j # i \/ u # v => (u \in blind'[j] <=> u \in blind[j]),
         Unambiguous(v) /\ job'[v] = "0/1" =>
           s = "job" \/ (job[v] = "0/1" /\ worker[i][v] # "job"),
         WaitsFit(i, v)',
         Exclusive(i, v) => InProgress(i, v)'
  PROVE  JobsHaveWorkers' /\ WorkersGetOn'
<1>a. TypeOK /\ ScriptInv /\ JobsHaveWorkers /\ WorkersGetOn
  BY DEF IInv
<1>b. /\ worker'[i][v] = s
      /\ \A j \in Invocation, u \in VM :
           j # i \/ u # v => worker'[j][u] = worker[j][u]
  BY <1>a, MovesOne
<1>c. UNCHANGED <<main, op, shared>> /\ worker[i][v] \in Active
  BY DEF Moves
<1>d. \A j \in Invocation, u \in VM :
        worker'[j][u] = "none" => worker[j][u] = "none"
  BY <1>b DEF Active
<1>1. JobsHaveWorkers'
  <2> SUFFICES ASSUME NEW u \in VM, Unambiguous(u), job'[u] = "0/1"
               PROVE  \E j \in Invocation : worker'[j][u] = "job"
    BY DEF JobsHaveWorkers, Unambiguous
  <2>1. CASE u = v /\ s = "job"
    BY <1>b, <2>1
  <2>2. CASE ~(u = v /\ s = "job")
    <3>1. job[u] = "0/1" /\ (u = v => worker[i][v] # "job")
      BY <2>2
    <3>2. PICK j \in Invocation : worker[j][u] = "job"
      BY <1>a, <3>1 DEF JobsHaveWorkers
    <3>3. QED
      BY <1>b, <3>1, <3>2
  <2>3. QED
    BY <2>1, <2>2
<1>2. WorkersGetOn'
  <2> SUFFICES ASSUME NEW j \in Invocation, NEW u \in VM
               PROVE  /\ WaitsFit(j, u)'
                      /\ Exclusive(j, u)' => InProgress(j, u)'
    BY DEF WorkersGetOn
  <2>1. Exclusive(j, u)' => Exclusive(j, u)
    BY <1>c, <1>d, ExclusiveBefore
  <2>2. /\ WaitsFit(j, u)
        /\ Exclusive(j, u) => InProgress(j, u)
    BY <1>a DEF WorkersGetOn
  <2>3. CASE j = i /\ u = v
    BY <2>1, <2>3
  <2>4. CASE u # v
    <3>1. worker'[j][u] = worker[j][u] /\ op'[j] = op[j]
      BY <1>b, <1>c, <2>4
    <3>2. WaitsFit(j, u)'
      BY <2>2, <3>1 DEF WaitsFit
    <3>3. InProgress(j, u) => InProgress(j, u)'
      BY <2>4, <3>1 DEF InProgress, InPlace, Asked, Reliable
    <3>4. QED
      BY <2>1, <2>2, <3>2, <3>3
  <2>5. CASE u = v /\ j # i
    <3>1. worker'[j][v] = worker[j][v] /\ op'[j] = op[j]
      BY <1>b, <1>c, <2>5
    <3>2. WaitsFit(j, v)'
      BY <2>2, <2>5, <3>1 DEF WaitsFit
    <3>3. CASE worker[j][v] = "none"
      BY <2>5, <3>1, <3>2, <3>3 DEF InProgress
    <3>4. CASE worker[j][v] # "none"
      <4>1. ~Exclusive(j, v)
        BY <1>c, <2>5, <3>4, QuietElsewhere
      <4>2. QED
        BY <2>1, <2>5, <3>2, <4>1
    <3>5. QED
      BY <3>3, <3>4
  <2>6. QED
    BY <2>3, <2>4, <2>5
<1>3. QED
  BY <1>1, <1>2
\* Each step of a background function keeps what it and its VM promise.
LEMMA WorkerCluster ==
  ASSUME IInv, NEW i \in Invocation, NEW v \in VM, WorkerStep(i, v)
  PROVE  JobsHaveWorkers' /\ WorkersGetOn'
<1> USE DEF WorkerTo, WorkerOk, GoneThen, scriptVars, clusterVars
<1>a. /\ TypeOK /\ WaitsFit(i, v)
      /\ Exclusive(i, v) => InProgress(i, v)
  BY DEF IInv, WorkersGetOn
<1>b. PICK s \in Active \cup {"ok", "failed"} : Moves(i, v, s)
  BY WorkerMoves
<1>c. worker'[i][v] = s /\ worker[i][v] \in Active /\ op' = op
  BY <1>a, <1>b, MovesOne DEF Moves
<1>d. op[i] \in Op /\ job[v] \in {"none", "0/1", "1/1"}
  BY <1>a DEF TypeOK
<1>e. Matches(v, v)
  BY DEF Matches
<1>f. CASE GetPodFails(i, v)
  <2>1. /\ s = IF op[i] = "shutdown" THEN "ok" ELSE "again"
        /\ UNCHANGED <<replicas, pod, job, fresh>> /\ worker[i][v] = "gone"
    BY <1>a, <1>c, <1>f DEF GetPodFails, TypeOK
  <2>2. /\ v \in blind'[i]
        /\ \A j \in Invocation, u \in VM :
             j # i \/ u # v => (u \in blind'[j] <=> u \in blind[j])
    BY <1>a, <1>f DEF GetPodFails, TypeOK
  <2>3. WaitsFit(i, v)'
    BY <1>a, <1>c, <2>1 DEF WaitsFit
  <2>4. ASSUME Exclusive(i, v) PROVE InProgress(i, v)'
    BY <1>a, <1>c, <2>1, <2>2, <2>4 DEF InProgress, Asked, Reliable
  <2>5. QED
    BY <1>b, <2>1, <2>2, <2>3, <2>4, MovesCluster
<1>1. CASE Request(i, v)
  <2>1. worker[i][v] = "request"
        /\ s = IF op[i] \in {"create", "startup"} THEN "running" ELSE "gone"
    BY <1>a, <1>1, <1>c DEF Request, TypeOK
  <2>2. /\ UNCHANGED <<pod, job, blind>>
        /\ \A u \in VM \ {v} : replicas'[u] = replicas[u] /\ fresh'[u] = fresh[u]
        /\ op[i] \in {"create", "startup"} => replicas'[v] = "1"
        /\ op[i] = "shutdown" => replicas'[v] = "0"
        /\ op[i] = "delete" => replicas'[v] = "absent"
    BY <1>a, <1>1 DEF Request, TypeOK
  <2>3. WaitsFit(i, v)' /\ InProgress(i, v)'
    BY <1>c, <1>d, <2>1, <2>2 DEF WaitsFit, InProgress, Op
  <2>4. QED
    BY <1>b, <2>1, <2>2, <2>3, MovesCluster
<1>2. CASE RequestFails(i, v) \/ AgainFails(i, v)
  <2>1. s = "failed" /\ UNCHANGED <<replicas, pod, job, fresh, blind>>
        /\ worker[i][v] # "job"
    BY <1>a, <1>2, <1>c DEF RequestFails, AgainFails, TypeOK
  <2>2. WaitsFit(i, v)' /\ InProgress(i, v)'
    BY <1>c, <2>1 DEF WaitsFit, InProgress
  <2>3. QED
    BY <1>b, <2>1, <2>2, MovesCluster
<1>3. CASE PodsGone(i, v)
  <2>1. /\ s = IF op[i] = "shutdown" THEN "ok" ELSE "again"
        /\ UNCHANGED <<replicas, pod, job, fresh, blind>>
        /\ worker[i][v] = "gone" /\ pod[v] = "none" /\ job[v] # "1/1"
    BY <1>a, <1>3, <1>c, <1>e DEF PodsGone, TypeOK
  <2>2. WaitsFit(i, v)'
    BY <1>a, <1>c, <2>1 DEF WaitsFit
  <2>3. ASSUME Exclusive(i, v) PROVE InProgress(i, v)'
    <3>1. Unambiguous(v) => job[v] = "none"
      BY <1>d, <2>1, <2>3, NoForeignJob
    <3>2. InProgress(i, v)
      BY <1>a, <2>3
    <3>3. QED
      BY <1>c, <2>1, <3>1, <3>2
         DEF InProgress, InPlace, Asked, Reliable, Unambiguous
  <2>4. QED
    BY <1>b, <2>1, <2>2, <2>3, MovesCluster
<1>4. CASE PatchAgain(i, v)
  <2>1. /\ s = "running" /\ UNCHANGED <<pod, job, fresh, blind>>
        /\ worker[i][v] = "again" /\ op[i] = "reboot" /\ replicas'[v] = "1"
        /\ \A u \in VM \ {v} : replicas'[u] = replicas[u]
    BY <1>a, <1>4, <1>c DEF PatchAgain, TypeOK
  <2>2. WaitsFit(i, v)' /\ InProgress(i, v)'
    BY <1>c, <2>1 DEF WaitsFit, InProgress
  <2>3. QED
    BY <1>b, <2>1, <2>2, MovesCluster
<1>5. CASE ApplyJob(i, v)
  <2>1. /\ s = "job" /\ UNCHANGED <<replicas, pod, fresh, blind>>
        /\ worker[i][v] = "again" /\ op[i] = "delete"
        /\ job[v] = "none" => job'[v] = "0/1"
        /\ \A u \in VM \ {v} : job'[u] = job[u]
    BY <1>a, <1>5, <1>c DEF ApplyJob, TypeOK
  <2>2. WaitsFit(i, v)'
    BY <1>c, <2>1 DEF WaitsFit
  <2>3. ASSUME Exclusive(i, v) PROVE InProgress(i, v)'
    BY <1>a, <1>c, <2>1, <2>3 DEF InProgress, Reliable
  <2>4. QED
    BY <1>b, <2>1, <2>2, <2>3, MovesCluster
<1>6. CASE PodRunning(i, v)
  <2>1. /\ s = "ok" /\ UNCHANGED <<replicas, pod, job, fresh, blind>>
        /\ worker[i][v] = "running"
        /\ \E u \in VM : Matches(v, u) /\ (pod[u] = "Running" \/ job[u] = "0/1")
    BY <1>a, <1>6, <1>c DEF PodRunning, TypeOK
  <2>2. WaitsFit(i, v)'
    BY <1>c, <2>1 DEF WaitsFit
  <2>3. ASSUME Exclusive(i, v) PROVE InProgress(i, v)'
    <3>1. Unambiguous(v) => pod[v] = "Running" \/ job[v] = "0/1"
      BY <2>1 DEF Unambiguous
    <3>2. Unambiguous(v) => job[v] # "0/1"
      BY <2>1, <2>3, NoForeignJob
    <3>3. replicas[v] = "1" /\ op[i] \in {"create", "startup", "reboot"}
      BY <1>a, <2>1, <2>3 DEF InProgress, WaitsFit
    <3>4. QED
      BY <1>c, <2>1, <3>1, <3>2, <3>3
         DEF InProgress, InPlace, Asked, Reliable, Unambiguous
  <2>4. QED
    BY <1>b, <2>1, <2>2, <2>3, MovesCluster
<1>7. CASE JobComplete(i, v)
  <2>1. /\ s = "ok" /\ UNCHANGED <<replicas, pod, fresh, blind>>
        /\ worker[i][v] = "job" /\ op[i] = "delete"
        /\ \E u \in VM : Matches(v, u) /\ job[u] = "1/1"
        /\ \A u \in VM \ {v} : job'[u] = job[u]
        /\ job'[v] \in {"none", job[v]}
    BY <1>a, <1>7, <1>c DEF JobComplete, TypeOK, WaitsFit
  <2>2. WaitsFit(i, v)'
    BY <1>c, <2>1 DEF WaitsFit
  <2>3. Unambiguous(v) => job[v] = "1/1"
    BY <2>1 DEF Unambiguous
  <2>4. ASSUME Exclusive(i, v) PROVE InProgress(i, v)'
    BY <1>a, <1>c, <2>1, <2>3, <2>4
       DEF InProgress, InPlace, Asked, Reliable, Unambiguous
  <2>5. QED
    BY <1>b, <2>1, <2>2, <2>3, <2>4, MovesCluster
<1>8. QED
  BY <1>1, <1>2, <1>3, <1>4, <1>5, <1>6, <1>7, <1>f DEF Worker, WorkerStep

LEMMA WorkerTypeOK ==
  ASSUME IInv, NEW i \in Invocation, NEW v \in VM, WorkerStep(i, v)
  PROVE  TypeOK'
<1>a. TypeOK
  BY DEF IInv
<1>b. PICK s \in Active \cup {"ok", "failed"} : Moves(i, v, s)
  BY WorkerMoves
<1>1. worker' \in [Invocation -> [VM -> Active \cup {"none", "ok", "failed"}]]
  BY <1>a, <1>b, MovesOne
<1>2. lines' \in Nat /\ UNCHANGED <<main, op, todo, total, shared>>
  BY <1>a, <1>b DEF Moves, TypeOK
<1>3. /\ replicas' \in [VM -> {"absent", "0", "1"}] /\ pod' = pod
      /\ job' \in [VM -> {"none", "0/1", "1/1"}]
      /\ failures' \in Nat
  <2>1. replicas' \in [VM -> {"absent", "0", "1"}]
    <3>1. \/ replicas' = replicas
          \/ \E x \in {"absent", "0", "1"} :
               replicas' = [replicas EXCEPT ![v] = x]
      BY <1>a DEF TypeOK, Op, WorkerStep, Worker, GetPodFails, Request, RequestFails, PodsGone,
         PatchAgain, ApplyJob, AgainFails, PodRunning, JobComplete, clusterVars
    <3>2. QED
      BY <1>a, <3>1 DEF TypeOK
  <2>2. job' \in [VM -> {"none", "0/1", "1/1"}]
    <3>1. \/ job' = job
          \/ \E x \in {"none", "0/1", "1/1"} : job' = [job EXCEPT ![v] = x]
      BY <1>a DEF TypeOK, WorkerStep, Worker, GetPodFails, Request,
         RequestFails, PodsGone,
         PatchAgain, ApplyJob, AgainFails, PodRunning, JobComplete, clusterVars
    <3>2. QED
      BY <1>a, <3>1 DEF TypeOK
  <2>3. pod' = pod /\ failures' \in Nat
    BY <1>a DEF TypeOK, WorkerStep, Worker, GetPodFails, Request, RequestFails,
       PodsGone, PatchAgain,
       ApplyJob, AgainFails, PodRunning, JobComplete, clusterVars, Fail
  <2>4. QED
    BY <2>1, <2>2, <2>3
<1>4. fresh' \in [VM -> BOOLEAN]
  <2>1. fresh' = fresh
        \/ fresh' = [fresh EXCEPT ![v] = fresh[v] \/ op[i] = "create"]
    BY DEF WorkerStep, Worker, GetPodFails, Request, RequestFails, PodsGone, PatchAgain,
       ApplyJob, AgainFails, PodRunning, JobComplete, clusterVars
  <2>2. QED
    BY <1>a, <2>1 DEF TypeOK
<1>5. blind' \in [Invocation -> SUBSET VM]
  <2>1. blind' = blind \/ blind' = [blind EXCEPT ![i] = blind[i] \cup {v}]
    BY DEF WorkerStep, Worker, GetPodFails, Request, RequestFails, PodsGone,
       PatchAgain, ApplyJob, AgainFails, PodRunning, JobComplete
  <2>2. blind \in [Invocation -> SUBSET VM]
    BY <1>a DEF TypeOK
  <2>3. QED
    BY <2>1, <2>2
<1>6. QED
  BY <1>a, <1>1, <1>2, <1>3, <1>4, <1>5 DEF TypeOK

\* What Kubernetes does on its own takes nothing back.
LEMMA ClusterIInv ==
  ASSUME IInv, NEW v \in VM, Cluster(v)
  PROVE  IInv'
<1> USE DEF Cluster, scriptVars
<1>a. TypeOK /\ ScriptInv /\ JobsHaveWorkers /\ WorkersGetOn
  BY DEF IInv
<1>b. UNCHANGED <<main, op, todo, total, lines, worker, replicas, shared, blind,
                  failures>>
  BY DEF PodStarts, PodStops, JobRuns
<1>1. TypeOK'
  <2>1. pod' \in [VM -> {"none", "pending", "Running"}]
    BY <1>a DEF TypeOK, PodStarts, PodStops, JobRuns
  <2>2. job' \in [VM -> {"none", "0/1", "1/1"}] /\ fresh' \in [VM -> BOOLEAN]
    <3>1. \/ UNCHANGED <<job, fresh>>
          \/ /\ job' = [job EXCEPT ![v] = "1/1"]
             /\ fresh' = [fresh EXCEPT ![v] = FALSE]
      BY DEF PodStarts, PodStops, JobRuns
    <3>2. job \in [VM -> {"none", "0/1", "1/1"}] /\ fresh \in [VM -> BOOLEAN]
      BY <1>a DEF TypeOK
    <3>3. job' \in [VM -> {"none", "0/1", "1/1"}]
      BY <3>1, <3>2
    <3>4. fresh' \in [VM -> BOOLEAN]
      BY <3>1, <3>2
    <3>5. QED
      BY <3>3, <3>4
  <2>3. QED
    BY <1>a, <1>b, <2>1, <2>2 DEF TypeOK
<1>2. ScriptInv'
  BY <1>a, <1>b DEF ScriptInv, BegunInOrder, Counted, AloneMeansAlone,
     LinesAreItsOwn, EndMeansDone, Started, Through, UnderWay
<1>3. JobsHaveWorkers'
  <2>1. \A u \in VM : job'[u] = "0/1" => job[u] = "0/1"
    BY <1>a DEF PodStarts, PodStops, JobRuns, TypeOK
  <2>2. QED
    BY <1>a, <1>b, <2>1 DEF JobsHaveWorkers, Unambiguous
<1>4. WorkersGetOn'
  <2> SUFFICES ASSUME NEW j \in Invocation, NEW u \in VM
               PROVE  WaitsFit(j, u)' /\ (InProgress(j, u) => InProgress(j, u)')
    BY <1>a, <1>b DEF WorkersGetOn, Exclusive
  <2>1. WaitsFit(j, u)'
    BY <1>a, <1>b DEF WorkersGetOn, WaitsFit
  <2>2. CASE PodStarts(v) \/ PodStops(v)
    <3>1. /\ UNCHANGED <<job, fresh>> /\ \A w \in VM \ {v} : pod'[w] = pod[w]
          /\ replicas[v] = "1" => pod[v] # "Running"
          /\ replicas[v] # "1" => pod'[v] = "none"
      BY <1>a, <2>2 DEF PodStarts, PodStops, TypeOK
    <3>2. InProgress(j, u) => InProgress(j, u)'
      <4>1. worker'[j][u] = worker[j][u] /\ op'[j] = op[j] /\ op[j] \in Op
        BY <1>a, <1>b DEF TypeOK
      <4>2. CASE u = v
        BY <1>b, <3>1, <4>1, <4>2 DEF InProgress, InPlace, Asked, Reliable, Op
      <4>3. CASE u # v
        BY <1>b, <3>1, <4>1, <4>3 DEF InProgress, InPlace, Asked, Reliable
      <4>4. QED
        BY <4>2, <4>3
    <3>3. QED
      BY <2>1, <3>2
  <2>3. CASE JobRuns(v)
    <3>1. /\ UNCHANGED pod
          /\ \A w \in VM \ {v} : job'[w] = job[w] /\ fresh'[w] = fresh[w]
          /\ job[v] = "0/1" /\ ~fresh'[v]
      BY <1>a, <2>3 DEF JobRuns, TypeOK
    <3>2. InProgress(j, u) => InProgress(j, u)'
      <4>1. worker'[j][u] = worker[j][u] /\ op'[j] = op[j] /\ op[j] \in Op
        BY <1>a, <1>b DEF TypeOK
      <4>2. CASE u = v
        BY <1>b, <3>1, <4>1, <4>2 DEF InProgress, InPlace, Asked, Reliable, Op
      <4>3. CASE u # v
        BY <1>b, <3>1, <4>1, <4>3 DEF InProgress, InPlace, Asked, Reliable
      <4>4. QED
        BY <4>2, <4>3
    <3>3. QED
      BY <2>1, <3>2
  <2>4. QED
    BY <2>2, <2>3
<1>5. QED
  BY <1>1, <1>2, <1>3, <1>4 DEF IInv

\* The initial state satisfies the inductive invariant.
LEMMA InitIInv == Init => IInv
<1> SUFFICES ASSUME Init PROVE IInv
  OBVIOUS
<1>a. /\ \A i \in Invocation : /\ main[i] = "off" /\ todo[i] = {}
                               /\ total[i] = 0 /\ ~shared[i]
                               /\ \A v \in VM : worker[i][v] = "none"
      /\ \A v \in VM : job[v] # "0/1"
  BY DEF Init
<1>b. \A i \in Invocation : Started(i) = {} /\ ~UnderWay(i)
  BY <1>a DEF Started, UnderWay, Active
<1>1. TypeOK
  <2>1. failures \in Nat
    <3>1. {v \in VM : job[v] # "none"} \in SUBSET VM
      OBVIOUS
    <3>2. QED
      BY <3>1, SubsetsCount DEF Init
  <2>2. fresh \in [VM -> BOOLEAN] /\ shared \in [Invocation -> BOOLEAN]
    BY Zenon DEF Init
  <2>3. pod \in [VM -> {"none", "pending", "Running"}]
    BY DEF Init
  <2>4. QED
    BY <2>1, <2>2, <2>3 DEF Init, TypeOK, Op
<1>2. ScriptInv
  <2>1. Counted
    <3>1. Cardinality({} \cup {}) = 0
      BY FS_EmptySet
    <3>2. QED
      BY <1>a, <1>b, <3>1 DEF Counted
  <2>2. QED
    BY <1>a, <1>b, <2>1 DEF ScriptInv, BegunInOrder, AloneMeansAlone,
       LinesAreItsOwn, EndMeansDone
<1>3. JobsHaveWorkers /\ WorkersGetOn
  BY <1>a DEF JobsHaveWorkers, WorkersGetOn, WaitsFit, InProgress
<1>4. QED
  BY <1>1, <1>2, <1>3 DEF IInv

-----------------------------------------------------------------------------
(* Theorems                                                                *)

\* The conjunction above is an inductive invariant of the script's
\* invocations, their workers and the cluster.
THEOREM InductiveInvariant == Spec => []IInv
<1>1. IInv /\ [Next]_vars => IInv'
  <2> SUFFICES ASSUME IInv, [Next]_vars PROVE IInv'
    OBVIOUS
  <2>1. ASSUME NEW i \in Invocation,
               Begin(i) \/ Launch(i) \/ LoopDone(i) \/ WaitOpFinish(i)
        PROVE  IInv'
    BY <2>1, BeginIInv, LaunchIInv, EndIInv, ScriptCluster DEF IInv
  <2>2. ASSUME NEW i \in Invocation, NEW v \in VM, WorkerStep(i, v)
        PROVE  IInv'
    <3>1. PICK s \in Active \cup {"ok", "failed"} : Moves(i, v, s)
      BY <2>2, WorkerMoves
    <3>2. ScriptInv'
      BY <3>1, MovesScriptInv DEF IInv
    <3>3. QED
      BY <2>2, <3>2, WorkerTypeOK, WorkerCluster DEF IInv
  <2>3. ASSUME NEW v \in VM, Cluster(v) PROVE IInv'
    BY <2>3, ClusterIInv
  <2>4. CASE UNCHANGED vars
    <3>1. UNCHANGED <<main, op, todo, total, lines, worker, replicas, pod,
                      job, fresh, shared, blind, failures>>
      BY <2>4 DEF vars, scriptVars, clusterVars
    <3>2. TypeOK'
      BY <3>1 DEF IInv, TypeOK
    <3>3. ScriptInv'
      BY <3>1 DEF IInv, ScriptInv, BegunInOrder, Counted, AloneMeansAlone,
         LinesAreItsOwn, EndMeansDone, Started, Through, UnderWay
    <3>4. JobsHaveWorkers'
      BY <3>1 DEF IInv, JobsHaveWorkers, Unambiguous
    <3>5. ASSUME NEW i \in Invocation, NEW v \in VM
          PROVE  /\ WaitsFit(i, v)' <=> WaitsFit(i, v)
                 /\ Exclusive(i, v)' <=> Exclusive(i, v)
                 /\ InProgress(i, v)' <=> InProgress(i, v)
      BY <3>1 DEF WaitsFit, InProgress, InPlace, Asked, Reliable, Exclusive
    <3>6. WorkersGetOn'
      BY <3>5 DEF IInv, WorkersGetOn
    <3>7. QED
      BY <3>2, <3>3, <3>4, <3>6 DEF IInv
  <2>5. QED
    BY <2>1, <2>2, <2>3, <2>4
    DEF Next, Script, WorkerStep, WaitOpContinues, Finished
<1>2. QED
  BY InitIInv, <1>1, PTL DEF Spec

\* Every variable keeps its type; in particular ANDROID_TOTAL_NUM never goes
\* below zero, whatever VMs do not exist (android-vm-manage.sh:57-67).
THEOREM TypeCorrect == Spec => []TypeOK
<1>1. IInv => TypeOK
  BY DEF IInv
<1>2. QED
  BY InductiveInvariant, <1>1, PTL

\* An invocation that ends, having had the machine to itself, is through
\* with every VM (android-vm-manage.sh:406-421,463-479).
THEOREM EndsWhenDone == Spec => []EndMeansDone
<1>1. IInv => EndMeansDone
  BY DEF IInv, ScriptInv
<1>2. QED
  BY InductiveInvariant, <1>1, PTL

\* Of a VM that a worker reported as done the StatefulSet is as it was asked
\* for, until somebody else turns to it, and so is the pod, unless kubectl get
\* pod failed or a longer name could be found in its place
\* (android-vm-manage.sh:229-239,276-292,305-320,333-343,356-366,379-403).
THEOREM ReportedIsInPlace == Spec => []OkMeansInPlace
<1>1. IInv => OkMeansInPlace
  BY DEF IInv, WorkersGetOn, InProgress, Exclusive, OkMeansInPlace
<1>2. QED
  BY InductiveInvariant, <1>1, PTL
=============================================================================
