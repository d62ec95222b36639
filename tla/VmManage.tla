------------------------------ MODULE VmManage ------------------------------
(***************************************************************************)
(* android-vm-manage.sh: invocations of the script, each of which starts   *)
(* one background worker per VM and then counts the lines the workers add  *)
(* to $OP_STATUS_FILE, a file all invocations on the machine share.        *)
(* The Kubernetes objects they act on (StatefulSets, their pods, the Job   *)
(* that queues a deletion) are external.                                   *)
(***************************************************************************)
EXTENDS Naturals, FiniteSets

CONSTANTS
  VM,              \* indices of VMs, as in <start_android_idx>
  MaxInvocations,  \* bound: invocations of the script
  MaxWorkers,      \* bound: background workers of all invocations together
  MaxFailures      \* bound: kubectl calls that fail

ASSUME VMAssumption == VM \subseteq Nat \ {0} /\ IsFiniteSet(VM)
ASSUME BoundsAssumption ==
  MaxInvocations \in Nat /\ MaxWorkers \in Nat /\ MaxFailures \in Nat

VARIABLES
  main,      \* per invocation: where the script itself stands
  op,        \* per invocation: $1
  todo,      \* per invocation: VMs the for loop has not reached
  total,     \* per invocation: ANDROID_TOTAL_NUM
  worker,    \* per invocation and VM: the background function
  lines,     \* number of lines of $OP_STATUS_FILE
  replicas,  \* external, per VM: "absent", or the StatefulSet's replicas
  pod,       \* external, per VM
  job,       \* external, per VM: the Job that queues its deletion
  fresh,     \* history, per VM: (re-)created since a deletion was queued
  shared,    \* history, per invocation: another was under way with it
  blind,     \* history, per invocation: VMs whose pods it took for gone
             \* because kubectl get pod failed
  failures   \* how much of the bound is used

scriptVars == <<main, op, todo, total, lines>>
clusterVars == <<replicas, pod, job, fresh>>
vars == <<scriptVars, worker, clusterVars, shared, blind, failures>>

\* Invocations, in the order in which they are made.
Invocation == 1..MaxInvocations
Op == {"create", "delete", "startup", "shutdown", "reboot"}
Active == {"request", "gone", "again", "running", "job"}

TypeOK ==
  /\ main \in [Invocation -> {"off", "loop", "wait", "done"}]
  /\ op \in [Invocation -> Op]
  /\ todo \in [Invocation -> SUBSET VM]
  /\ total \in [Invocation -> Nat]
  /\ worker \in [Invocation -> [VM -> Active \cup {"none", "ok", "failed"}]]
  /\ lines \in Nat
  /\ replicas \in [VM -> {"absent", "0", "1"}]
  /\ pod \in [VM -> {"none", "pending", "Running"}]
  /\ job \in [VM -> {"none", "0/1", "1/1"}]
  /\ fresh \in [VM -> BOOLEAN]
  /\ shared \in [Invocation -> BOOLEAN]
  /\ blind \in [Invocation -> SUBSET VM]
  /\ failures \in Nat

\* VMs may exist already (to be shut down takes an invocation); nothing is
\* under way. An earlier invocation may have left a Job behind, by a kubectl
\* delete job that failed.
Init ==
  /\ main = [i \in Invocation |-> "off"]
  /\ op = [i \in Invocation |-> "create"]
  /\ todo = [i \in Invocation |-> {}]
  /\ total = [i \in Invocation |-> 0]
  /\ worker = [i \in Invocation |-> [v \in VM |-> "none"]]
  /\ lines = 0
  /\ replicas \in [VM -> {"absent", "1"}]
  /\ pod = [v \in VM |-> IF replicas[v] = "1" THEN "Running" ELSE "none"]
  /\ job \in [VM -> {"none", "1/1"}]
  /\ fresh = [v \in VM |-> replicas[v] # "absent"]
  /\ shared = [i \in Invocation |-> FALSE]
  /\ blind = [i \in Invocation |-> {}]
  /\ failures = Cardinality({v \in VM : job[v] # "none"})
  /\ failures <= MaxFailures

Fail == failures < MaxFailures /\ failures' = failures + 1

\* What the decimal digits of u begin with, of two digits or more ("%02d":
\* indices below ten have a leading zero, which no longer index has).
Prefixes[u \in Nat] ==
  {u} \cup (IF u < 100 THEN {} ELSE Prefixes[u \div 10])

\* grep $vmName finds "<node>-<u>-0" too when the digits of v are the first
\* digits of u.
Matches(v, u) == u = v \/ v \in Prefixes[u]

-----------------------------------------------------------------------------
(* The script                                                              *)

\* The script of invocation i, or a worker it left behind, is under way.
UnderWay(i) ==
  main[i] \in {"loop", "wait"} \/ \E v \in VM : worker[i][v] \in Active

Meet(i) ==
  LET others == {j \in Invocation \ {i} : UnderWay(j)}
  IN  shared' = [j \in Invocation |->
                   shared[j] \/ j \in others \/ (j = i /\ others # {})]

\* The workers started so far, and those the for loops have yet to start.
Workers ==
  {w \in Invocation \X VM :
     w[2] \in todo[w[1]] \/ worker[w[1]][w[2]] # "none"}

\* Mutant: the end of the range is not counted.
BeginOffByOne(i) ==
  /\ main[i] = "off" /\ main' = [main EXCEPT ![i] = "loop"]
  /\ \A j \in Invocation : j < i => main[j] # "off"
  /\ \E o \in Op, lo, hi \in VM :
       /\ lo <= hi /\ lo..hi \subseteq VM
       /\ Cardinality(Workers) + (hi - lo + 1) <= MaxWorkers
       /\ op' = [op EXCEPT ![i] = o]
       /\ todo' = [todo EXCEPT ![i] = lo..hi]
       /\ total' = [total EXCEPT ![i] = hi - lo]
  /\ lines' = 0
  /\ Meet(i) /\ UNCHANGED <<worker, clusterVars, blind, failures>>

\* Mutant: the file is not emptied.
BeginKeepsLines(i) ==
  /\ main[i] = "off" /\ main' = [main EXCEPT ![i] = "loop"]
  /\ \A j \in Invocation : j < i => main[j] # "off"
  /\ \E o \in Op, lo, hi \in VM :
       /\ lo <= hi /\ lo..hi \subseteq VM
       /\ Cardinality(Workers) + (hi - lo + 1) <= MaxWorkers
       /\ op' = [op EXCEPT ![i] = o]
       /\ todo' = [todo EXCEPT ![i] = lo..hi]
       /\ total' = [total EXCEPT ![i] = hi - lo + 1]
  /\ lines' = lines
  /\ Meet(i) /\ UNCHANGED <<worker, clusterVars, blind, failures>>

\* check_param, then $OP_STATUS_FILE is emptied.
Begin(i) ==
  /\ main[i] = "off" /\ main' = [main EXCEPT ![i] = "loop"]
  /\ \A j \in Invocation : j < i => main[j] # "off"
  /\ \E o \in Op, lo, hi \in VM :
       /\ lo <= hi /\ lo..hi \subseteq VM
       /\ Cardinality(Workers) + (hi - lo + 1) <= MaxWorkers
       /\ op' = [op EXCEPT ![i] = o]
       /\ todo' = [todo EXCEPT ![i] = lo..hi]
       /\ total' = [total EXCEPT ![i] = hi - lo + 1]
  /\ lines' = 0
  /\ Meet(i) /\ UNCHANGED <<worker, clusterVars, blind, failures>>

\* Mutant: a VM that does not exist still counts.
LaunchCountsAll(i) ==
  /\ main[i] = "loop" /\ todo[i] # {}
  /\ LET v == CHOOSE u \in todo[i] : \A w \in todo[i] : u <= w
     IN  /\ todo' = [todo EXCEPT ![i] = @ \ {v}]
         /\ total' = total
         /\ \/ /\ op[i] = "create" \/ replicas[v] # "absent"
               /\ worker' = [worker EXCEPT ![i][v] = "request"]
               /\ UNCHANGED failures
            \/ /\ op[i] # "create" /\ UNCHANGED worker
               /\ (replicas[v] = "absent" /\ UNCHANGED failures) \/ Fail
  /\ UNCHANGED <<main, op, lines, clusterVars, shared, blind>>

\* One round of the for loop: vm_is_exist, except for create, and the
\* background function. A kubectl get that fails counts as "isn't exist".
Launch(i) ==
  /\ main[i] = "loop" /\ todo[i] # {}
  /\ LET v == CHOOSE u \in todo[i] : \A w \in todo[i] : u <= w
     IN  /\ todo' = [todo EXCEPT ![i] = @ \ {v}]
         /\ \/ /\ op[i] = "create" \/ replicas[v] # "absent"
               /\ worker' = [worker EXCEPT ![i][v] = "request"]
               /\ UNCHANGED <<total, failures>>
            \/ /\ op[i] # "create" /\ UNCHANGED worker
               /\ (replicas[v] = "absent" /\ UNCHANGED failures) \/ Fail
               /\ total' = [total EXCEPT ![i] = @ - 1]
  /\ UNCHANGED <<main, op, lines, clusterVars, shared, blind>>

LoopDone(i) ==
  /\ main[i] = "loop" /\ todo[i] = {} /\ main' = [main EXCEPT ![i] = "wait"]
  /\ UNCHANGED <<shared, blind, op, todo, total, lines, worker, clusterVars, failures>>

\* wait_op_finish counts the lines, over and over.
WaitOpFinish(i) ==
  /\ main[i] = "wait" /\ lines = total[i]
  /\ main' = [main EXCEPT ![i] = "done"]
  /\ UNCHANGED <<shared, blind, op, todo, total, lines, worker, clusterVars, failures>>

WaitOpContinues(i) ==
  main[i] = "wait" /\ lines # total[i] /\ UNCHANGED vars

-----------------------------------------------------------------------------
(* The background functions                                                *)

WorkerTo(i, v, s) == worker' = [worker EXCEPT ![i][v] = s]

\* echo 1 >> $OP_STATUS_FILE; "... ok."
WorkerOk(i, v) == WorkerTo(i, v, "ok") /\ lines' = lines + 1

\* The first kubectl call of create (apply), delete (delete statefulset) and
\* of the others (patch).
Request(i, v) ==
  /\ worker[i][v] = "request"
  /\ op[i] = "create" \/ replicas[v] # "absent"
  /\ replicas' = [replicas EXCEPT ![v] =
       CASE op[i] \in {"create", "startup"} -> "1"
         [] op[i] \in {"shutdown", "reboot"} -> "0"
         [] op[i] = "delete" -> "absent"]
  /\ fresh' = [fresh EXCEPT ![v] = @ \/ op[i] = "create"]
  /\ WorkerTo(i, v,
       IF op[i] \in {"create", "startup"} THEN "running" ELSE "gone")
  /\ UNCHANGED <<shared, blind, scriptVars, pod, job, failures>>

\* It fails, for sure if the VM was deleted since vm_is_exist.
RequestFails(i, v) ==
  /\ worker[i][v] = "request" /\ WorkerTo(i, v, "failed")
  /\ \/ op[i] # "create" /\ replicas[v] = "absent" /\ UNCHANGED failures
     \/ Fail
  /\ UNCHANGED <<shared, blind, scriptVars, clusterVars>>

\* What follows the wait for the pods to be gone.
GoneThen(i, v) ==
  IF op[i] = "shutdown" THEN WorkerOk(i, v)
                        ELSE WorkerTo(i, v, "again") /\ UNCHANGED lines

\* Mutant: only the pod of the StatefulSet is waited for (grep $vmName-0).
PodsGoneNotJobs(i, v) ==
  /\ worker[i][v] = "gone" /\ pod[v] = "none" /\ GoneThen(i, v)
  /\ UNCHANGED <<shared, blind, main, op, todo, total, clusterVars, failures>>

\* kubectl get pod finds no pod of that name any more. The pod of the Job
\* that queues a deletion has the VM's name, too, and stays as long as the Job.
PodsGone(i, v) ==
  /\ worker[i][v] = "gone"
  /\ \A u \in VM : Matches(v, u) => pod[u] = "none" /\ job[u] # "1/1"
  /\ GoneThen(i, v)
  /\ UNCHANGED <<shared, blind, main, op, todo, total, clusterVars, failures>>

\* kubectl get pod fails: its error is thrown away and grep, which got no
\* line, ends the wait, whatever pods there are.
GetPodFails(i, v) ==
  /\ worker[i][v] = "gone" /\ Fail /\ GoneThen(i, v)
  /\ blind' = [blind EXCEPT ![i] = @ \cup {v}]
  /\ UNCHANGED <<shared, main, op, todo, total, clusterVars>>

\* The second kubectl call of reboot: patch.
PatchAgain(i, v) ==
  /\ worker[i][v] = "again" /\ op[i] = "reboot" /\ replicas[v] # "absent"
  /\ replicas' = [replicas EXCEPT ![v] = "1"]
  /\ WorkerTo(i, v, "running")
  /\ UNCHANGED <<shared, blind, scriptVars, pod, job, fresh, failures>>

\* The second kubectl call of delete: apply of the Job, which changes nothing
\* if there is one of that name.
ApplyJob(i, v) ==
  /\ worker[i][v] = "again" /\ op[i] = "delete"
  /\ job' = [job EXCEPT ![v] = IF @ = "none" THEN "0/1" ELSE @]
  /\ WorkerTo(i, v, "job")
  /\ UNCHANGED <<shared, blind, scriptVars, replicas, pod, fresh, failures>>

AgainFails(i, v) ==
  /\ worker[i][v] = "again" /\ WorkerTo(i, v, "failed")
  /\ \/ op[i] = "reboot" /\ replicas[v] = "absent" /\ UNCHANGED failures
     \/ Fail
  /\ UNCHANGED <<shared, blind, scriptVars, clusterVars>>

\* kubectl get pod finds a pod of that name that is Running, be it a Job's.
PodRunning(i, v) ==
  /\ worker[i][v] = "running"
  /\ \E u \in VM : Matches(v, u) /\ (pod[u] = "Running" \/ job[u] = "0/1")
  /\ WorkerOk(i, v)
  /\ UNCHANGED <<shared, blind, main, op, todo, total, clusterVars, failures>>

\* The Job is complete: delete it; nobody looks whether that succeeds.
JobComplete(i, v) ==
  /\ worker[i][v] = "job" /\ \E u \in VM : Matches(v, u) /\ job[u] = "1/1"
  /\ \/ job' = [job EXCEPT ![v] = "none"] /\ UNCHANGED failures
     \/ job' = job /\ Fail
  /\ WorkerOk(i, v)
  /\ UNCHANGED <<shared, blind, main, op, todo, total, replicas, pod, fresh>>

-----------------------------------------------------------------------------
(* Kubernetes                                                              *)

PodStarts(v) ==
  /\ replicas[v] = "1" /\ pod[v] # "Running"
  /\ pod' = [pod EXCEPT ![v] = IF @ = "none" THEN "pending" ELSE "Running"]
  /\ UNCHANGED <<shared, blind, scriptVars, worker, replicas, job, fresh, failures>>

PodStops(v) ==
  /\ replicas[v] # "1" /\ pod[v] # "none"
  /\ pod' = [pod EXCEPT ![v] = "none"]
  /\ UNCHANGED <<shared, blind, scriptVars, worker, replicas, job, fresh, failures>>

\* The Job's pod adds the VM's name to delete.queue.
JobRuns(v) ==
  /\ job[v] = "0/1" /\ job' = [job EXCEPT ![v] = "1/1"]
  /\ fresh' = [fresh EXCEPT ![v] = FALSE]
  /\ UNCHANGED <<shared, blind, scriptVars, worker, replicas, pod, failures>>

-----------------------------------------------------------------------------
Script(i) ==
  \/ Begin(i) \/ Launch(i) \/ LoopDone(i)
  \/ WaitOpFinish(i) \/ WaitOpContinues(i)

Worker(i, v) ==
  \/ Request(i, v) \/ RequestFails(i, v) \/ PodsGone(i, v)
  \/ PatchAgain(i, v) \/ ApplyJob(i, v) \/ AgainFails(i, v)
  \/ PodRunning(i, v) \/ JobComplete(i, v)

Cluster(v) == PodStarts(v) \/ PodStops(v) \/ JobRuns(v)

\* No invocation is under way: nothing has to happen.
Finished ==
  /\ \A i \in Invocation : main[i] \in {"off", "done"}
  /\ UNCHANGED vars

Next ==
  \/ \E i \in Invocation :
       Script(i) \/ \E v \in VM : Worker(i, v) \/ GetPodFails(i, v)
  \/ \E v \in VM : Cluster(v)
  \/ Finished

\* The script's loops and its workers go on, and the cluster gets to what it
\* was asked for. Nobody has to start the script, and no call has to fail in
\* order that a wait ends.
Fairness ==
  /\ \A i \in Invocation :
       /\ WF_vars(Launch(i)) /\ WF_vars(LoopDone(i)) /\ WF_vars(WaitOpFinish(i))
       /\ \A v \in VM : WF_vars(Worker(i, v))
  /\ \A v \in VM : WF_vars(Cluster(v))

Spec == Init /\ [][Next]_vars /\ Fairness

-----------------------------------------------------------------------------
(* Properties                                                              *)

\* An invocation that ends, and that had the machine to itself, is through
\* with every VM it was given: the lines it counted were its own
\* (android-vm-manage.sh:406-421,463-479).
EndMeansDone ==
  \A i \in Invocation : main[i] = "done" /\ ~shared[i] =>
    \A v \in VM : worker[i][v] \in {"none", "ok"}

\* What an operation is for.
InPlace(o, v) ==
  CASE o \in {"create", "startup", "reboot"} ->
         replicas[v] = "1" /\ pod[v] = "Running"
    [] o = "shutdown" -> replicas[v] = "0" /\ pod[v] = "none"
    [] o = "delete" -> replicas[v] = "absent" /\ pod[v] = "none" /\ ~fresh[v]

\* What it asks of the StatefulSet in the end.
Asked(o) ==
  CASE o \in {"create", "startup", "reboot"} -> "1"
    [] o = "shutdown" -> "0"
    [] o = "delete" -> "absent"

\* The lines that made a worker go on were its VM's own, or absent: its kubectl
\* get pod did not fail, and its VM's name is the beginning of no other's. A
\* shutdown only waits for lines to be gone, which takes all that match.
Reliable(i, v) ==
  /\ v \notin blind[i]
  /\ op[i] = "shutdown" \/ \A u \in VM : Matches(v, u) => u = v

\* Of a VM that a worker reported as done the StatefulSet is what was asked
\* for, and, if what the worker saw was reliable, so is the pod (for a
\* deletion: it was queued, since the VM was last created), whatever Jobs were
\* left behind and whatever other invocations do to other VMs at the same
\* time, until somebody else turns to this VM. A wait that ended because
\* kubectl get pod failed, or because a longer name was found, says nothing of
\* the pod (lines 229-239,276-292,305-320,333-343,356-366,379-403).
OkMeansInPlace ==
  \A i \in Invocation, v \in VM :
    /\ worker[i][v] = "ok"
    /\ \/ \A j \in Invocation \ {i} : worker[j][v] = "none"
       \/ ~shared[i] /\ \A j \in Invocation : j > i => main[j] = "off"
    => /\ replicas[v] = Asked(op[i])
       /\ Reliable(i, v) => InPlace(op[i], v)

\* A worker of i was given a VM whose name is the beginning of another's.
Ambiguous(i) ==
  \E v, u \in VM : worker[i][v] # "none" /\ u # v /\ Matches(v, u)

\* An invocation that has the machine to itself comes to its end, if no
\* kubectl call failed, earlier or now, and no name it was given is the
\* beginning of another: the lines it waits for are those of the VMs that
\* exist (lines 57-67,406-421).
Ends ==
  \A i \in Invocation :
    main[i] = "loop" ~>
      main[i] = "done" \/ shared[i] \/ failures > 0 \/ Ambiguous(i)
=============================================================================
