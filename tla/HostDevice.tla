----------------------------- MODULE HostDevice -----------------------------
(***************************************************************************)
(* The binder nodes of a host and who uses them: k8s-dev-init.sh, which    *)
(* the device plugin runs before anything else and which loads the kernel  *)
(* modules; newDevicePlugin and Allocate of server.go, which announce the  *)
(* devices and say what a container gets for an ID; android-cfg-init.sh,   *)
(* which passes the index on in init_cfg; and android-env.sh, which starts *)
(* the session manager of a VM on that index. The order in which the       *)
(* daemon takes requests of different VMs is the subject of EnvService and *)
(* is left open here. kubelet's choice of a free ID, docker's bind of the  *)
(* node and the kernel's module reference count are external.              *)
(***************************************************************************)
EXTENDS Naturals, FiniteSets

CONSTANTS
  VM,           \* names of the VMs of this host
  N,            \* devInstanceNum, the number of CPUs
  MaxPods,      \* bound: pods admitted
  MaxStops,     \* bound: systemctl stop or restart of the plugin
  MaxFailures,  \* bound: commands that fail
  MaxReboots    \* bound: reboots of the host

ASSUME NAssumption == N \in Nat \ {0}
ASSUME BoundsAssumption ==
  /\ MaxPods \in Nat /\ MaxStops \in Nat
  /\ MaxFailures \in Nat /\ MaxReboots \in Nat

VARIABLES
  plugin,   \* where the plugin process is; "ready": it serves kubelet
  ashmem,   \* ashmem_linux is loaded
  nodes,    \* indexes of the nodes /dev/binder<i>; empty: not loaded
  pod,      \* per VM: how far its pod has come
  held,     \* per VM: index of the binder ID that kubelet gave its pod
  bound,    \* per VM: index of the node its Android container has
  idx,      \* per VM: binderIdx of init_cfg; 0: nothing there
  sm,       \* per VM: index its session manager runs on; 0: none runs
  todo,     \* per VM: requests that the daemon has not carried out
  crossed,  \* history: VMs for which something was asked while an earlier
            \* request was pending, or whose pod vanished during its init
  pods, stops, failures, reboots  \* how much of each bound is used up

pluginVars == <<plugin, ashmem, nodes>>
podVars == <<pod, held, bound>>
envVars == <<idx, sm, todo, crossed>>
boundVars == <<pods, stops, failures, reboots>>
vars == <<pluginVars, podVars, envVars, boundVars>>

Index == 0..N
Loading == {"ashmem", "lsmod", "rmmod", "insmod"}

TypeOK ==
  /\ plugin \in {"off", "ready"} \cup Loading
  /\ ashmem \in BOOLEAN
  /\ nodes \in SUBSET Index
  /\ pod \in [VM -> {"none", "admitted", "wait", "ready", "running",
                     "stopping"}]
  /\ held \in [VM -> Index] /\ bound \in [VM -> Index]
  /\ idx \in [VM -> Index] /\ sm \in [VM -> Index]
  /\ todo \in [VM -> SUBSET {"init", "uninit"}]
  /\ crossed \in SUBSET VM
  /\ pods \in Nat /\ stops \in Nat /\ failures \in Nat /\ reboots \in Nat

Init ==
  /\ plugin = "off" /\ ashmem = FALSE /\ nodes = {}
  /\ pod = [v \in VM |-> "none"]
  /\ held = [v \in VM |-> 0] /\ bound = [v \in VM |-> 0]
  /\ idx = [v \in VM |-> 0] /\ sm = [v \in VM |-> 0]
  /\ todo = [v \in VM |-> {}] /\ crossed = {}
  /\ pods = 0 /\ stops = 0 /\ failures = 0 /\ reboots = 0

Goto(from, to) == plugin = from /\ plugin' = to
Fail == failures < MaxFailures /\ failures' = failures + 1

\* The processes that keep binder_linux busy: session managers, and what
\* runs in Android containers.
BinderInUse == \E v \in VM : sm[v] # 0 \/ pod[v] = "running"

\* What runs in a container that is being stopped may have ended or not.
BinderMayBeInUse == BinderInUse \/ \E v \in VM : pod[v] = "stopping"

-----------------------------------------------------------------------------
(* k8s-dev-init.sh, run by initHostDevice                                  *)

PluginStarts ==
  /\ Goto("off", "ashmem")
  /\ UNCHANGED <<ashmem, nodes, podVars, envVars, boundVars>>

\* Mutant: insmod without the test whether the module is there, which fails
\* when it is.
AshmemUnchecked ==
  /\ plugin = "ashmem" /\ plugin' = (IF ashmem THEN "off" ELSE "lsmod")
  /\ ashmem' = TRUE
  /\ UNCHANGED <<nodes, podVars, envVars, boundVars>>

Ashmem ==
  /\ Goto("ashmem", "lsmod") /\ ashmem' = TRUE
  /\ UNCHANGED <<nodes, podVars, envVars, boundVars>>

\* No module: load it. Otherwise the nodes are counted, all N + 1 of them,
\* and the module is left as it is only if there are N.
Lsmod ==
  /\ plugin = "lsmod"
  /\ plugin' = CASE nodes = {} -> "insmod"
                 [] nodes # {} /\ Cardinality(nodes) # N -> "rmmod"
                 [] OTHER -> "ready"
  /\ UNCHANGED <<ashmem, nodes, podVars, envVars, boundVars>>

Rmmod ==
  /\ Goto("rmmod", "insmod") /\ ~BinderInUse /\ nodes' = {}
  /\ UNCHANGED <<ashmem, podVars, envVars, boundVars>>

\* "failed to rmmod": exit, log.Fatal, and systemd tries again.
RmmodFails ==
  /\ Goto("rmmod", "off") /\ BinderMayBeInUse
  /\ UNCHANGED <<ashmem, nodes, podVars, envVars, boundVars>>

\* Mutant: one device too many.
InsmodOneMore ==
  /\ Goto("insmod", "ready") /\ nodes' = 0..(N + 1)
  /\ UNCHANGED <<ashmem, podVars, envVars, boundVars>>

\* Mutant: num_devices is the number of IDs.
InsmodOneShort ==
  /\ Goto("insmod", "ready") /\ nodes' = 0..(N - 1)
  /\ UNCHANGED <<ashmem, podVars, envVars, boundVars>>

\* num_devices=N+1. The devices are announced right after.
Insmod ==
  /\ Goto("insmod", "ready") /\ nodes' = 0..N
  /\ UNCHANGED <<ashmem, podVars, envVars, boundVars>>

\* A missing .ko file or a failing insmod.
InsmodFails ==
  /\ plugin \in {"ashmem", "insmod"} /\ plugin' = "off" /\ Fail
  /\ UNCHANGED <<ashmem, nodes, podVars, envVars, pods, stops, reboots>>

\* A clean end of the process; its restart runs the script again.
PluginStops ==
  /\ Goto("ready", "off") /\ stops < MaxStops /\ stops' = stops + 1
  /\ UNCHANGED <<ashmem, nodes, podVars, envVars, pods, failures, reboots>>

-----------------------------------------------------------------------------
(* Device IDs and Allocate                                                 *)

\* newDevicePlugin: the IDs of a device are numbered from 1.
DeviceIDs(base) == {<<base, i>> : i \in 1..N}

\* Mutant: the index handed on counts from 0.
AllocateFromZero(id) == [node |-> id[2], binderIdx |-> id[2] - 1]

\* What the container gets for an ID: /dev/<id> and ANDROID_BINDER_IDX for a
\* binder ID, the one node of the device and no index for the others.
Allocate(id) ==
  IF id[1] = "binder" THEN [node |-> id[2], binderIdx |-> id[2]]
                      ELSE [node |-> 0, binderIdx |-> 0]

\* kubelet admits a VM's pod: a binder ID that no other pod has, for the
\* init container and then for the Android container.
Admit(v, id) ==
  /\ plugin = "ready" /\ pod[v] = "none"
  /\ \A w \in VM : held[w] # id[2]
  /\ pods < MaxPods /\ pods' = pods + 1
  /\ pod' = [pod EXCEPT ![v] = "admitted"]
  /\ held' = [held EXCEPT ![v] = id[2]]
  /\ UNCHANGED <<pluginVars, bound, envVars, stops, failures, reboots>>

-----------------------------------------------------------------------------
(* The VM's pod and the daemon                                             *)

Ask(v, what) ==
  /\ todo' = [todo EXCEPT ![v] = @ \cup {what}]
  /\ crossed' = IF todo[v] = {} THEN crossed ELSE crossed \cup {v}

\* android-cfg-init.sh: binderIdx into init_cfg, the name into init.queue.
InitContainer(v) ==
  /\ pod[v] = "admitted" /\ held[v] \in nodes
  /\ pod' = [pod EXCEPT ![v] = "wait"]
  /\ idx' = [idx EXCEPT ![v] = Allocate(<<"binder", held[v]>>).binderIdx]
  /\ Ask(v, "init")
  /\ UNCHANGED <<pluginVars, held, bound, sm, boundVars>>

\* start_session_manager: one that runs under the VM's name stays.
SessionManager(v) == IF sm[v] # 0 THEN sm[v] ELSE idx[v]

\* android-env.sh start, and the answer to the init container.
EnvStart(v) ==
  /\ "init" \in todo[v] /\ SessionManager(v) \in nodes
  /\ todo' = [todo EXCEPT ![v] = @ \ {"init"}]
  /\ sm' = [sm EXCEPT ![v] = SessionManager(v)]
  /\ pod' = [pod EXCEPT ![v] = IF @ = "wait" THEN "ready" ELSE @]
  /\ UNCHANGED <<pluginVars, held, bound, idx, crossed, boundVars>>

\* It fails, certainly so without the node, and is undone; the pod waits on.
EnvStartFails(v) ==
  /\ "init" \in todo[v]
  /\ IF SessionManager(v) \in nodes THEN Fail ELSE UNCHANGED failures
  /\ todo' = [todo EXCEPT ![v] = @ \ {"init"}]
  /\ sm' = [sm EXCEPT ![v] = 0]
  /\ UNCHANGED <<pluginVars, podVars, idx, crossed, pods, stops, reboots>>

\* The Android container starts, with the node of the pod's ID.
Container(v) ==
  /\ pod[v] = "ready" /\ held[v] \in nodes
  /\ pod' = [pod EXCEPT ![v] = "running"]
  /\ bound' = [bound EXCEPT ![v] = Allocate(<<"binder", held[v]>>).node]
  /\ UNCHANGED <<pluginVars, held, envVars, boundVars>>

\* The pod is deleted: preStop queues the uninit.
PreStop(v) ==
  /\ pod[v] = "running" /\ pod' = [pod EXCEPT ![v] = "stopping"]
  /\ Ask(v, "uninit")
  /\ UNCHANGED <<pluginVars, held, bound, idx, sm, boundVars>>

\* kubelet has the ID back when the containers are gone, which says nothing
\* of the host processes of the VM.
PodGone(v) ==
  /\ pod[v] = "stopping" /\ pod' = [pod EXCEPT ![v] = "none"]
  /\ held' = [held EXCEPT ![v] = 0] /\ bound' = [bound EXCEPT ![v] = 0]
  /\ UNCHANGED <<pluginVars, envVars, boundVars>>

\* Before the Android container runs there is no preStop.
InitPodDeleted(v) ==
  /\ pod[v] \in {"admitted", "wait", "ready"}
  /\ pod' = [pod EXCEPT ![v] = "none"] /\ held' = [held EXCEPT ![v] = 0]
  /\ crossed' = IF todo[v] = {} /\ sm[v] = 0 THEN crossed ELSE crossed \cup {v}
  /\ UNCHANGED <<pluginVars, bound, idx, sm, todo, boundVars>>

\* Mutant: the session manager survives.
EnvStopKeepsManager(v) ==
  /\ "uninit" \in todo[v]
  /\ todo' = [todo EXCEPT ![v] = @ \ {"uninit"}]
  /\ UNCHANGED <<pluginVars, podVars, idx, sm, crossed, boundVars>>

\* android-env.sh stop
EnvStop(v) ==
  /\ "uninit" \in todo[v]
  /\ todo' = [todo EXCEPT ![v] = @ \ {"uninit"}]
  /\ sm' = [sm EXCEPT ![v] = 0]
  /\ UNCHANGED <<pluginVars, podVars, idx, crossed, boundVars>>

\* The host reboots: modules and processes are gone, the queue files and
\* what kubelet gave to whom stay, and the pods start over.
HostReboot ==
  /\ reboots < MaxReboots /\ reboots' = reboots + 1
  /\ plugin' = "off" /\ ashmem' = FALSE /\ nodes' = {}
  /\ sm' = [v \in VM |-> 0] /\ bound' = [v \in VM |-> 0]
  /\ pod' = [v \in VM |-> IF pod[v] \in {"none", "stopping"} THEN "none"
                                                             ELSE "admitted"]
  /\ held' = [v \in VM |-> IF pod[v] \in {"none", "stopping"} THEN 0
                                                              ELSE held[v]]
  /\ crossed' = crossed \cup {v \in VM : "init" \in todo[v]}
  /\ UNCHANGED <<idx, todo, pods, stops, failures>>

-----------------------------------------------------------------------------
Plugin ==
  \/ PluginStarts \/ Ashmem \/ Lsmod \/ Rmmod \/ RmmodFails \/ Insmod

EnvDaemon(v) == EnvStart(v) \/ EnvStartFails(v) \/ EnvStop(v)
Pod(v) == InitContainer(v) \/ Container(v) \/ PodGone(v)

Environment ==
  \/ InsmodFails \/ PluginStops \/ HostReboot
  \/ \E v \in VM : \/ PreStop(v) \/ InitPodDeleted(v)
                   \/ \E id \in DeviceIDs("binder") : Admit(v, id)

Next == Plugin \/ Environment \/ \E v \in VM : EnvDaemon(v) \/ Pod(v)

\* systemd restarts the plugin (Restart=always, StartLimitInterval=0), the
\* script runs to its end, and the daemon and kubelet go on.
Fairness ==
  /\ WF_vars(Plugin)
  /\ \A v \in VM : WF_vars(EnvDaemon(v)) /\ WF_vars(Pod(v))

Spec == Init /\ [][Next]_vars /\ Fairness

-----------------------------------------------------------------------------
(* Properties                                                              *)

\* While kubelet is served, every announced ID stands for a node that is
\* there: no unload, reload, failed insmod or reboot leaves it announcing
\* what it does not have (server.go:82-86, k8s-dev-init.sh:12,37-50).
AnnouncedHaveNodes ==
  plugin = "ready" => ashmem /\ \A id \in DeviceIDs("binder") : id[2] \in nodes

\* The node in a running VM's container is the one its session manager was
\* started on, and no reload took it away: the index went from Allocate
\* through init_cfg to android-env.sh while IDs were handed back and out
\* again (server.go:257-263, android-cfg-init.sh:31, android-env.sh:72,175).
SameNode ==
  \A v \in VM :
    pod[v] = "running" /\ v \notin crossed =>
      /\ sm[v] = bound[v] /\ bound[v] \in nodes
      /\ \A w \in VM \ {v} : bound[w] # bound[v] \/ bound[w] = 0

\* Two session managers are on one node only while the shutdown of the VM
\* that had it before is still pending: kubelet gives the ID away before
\* the daemon has come to it (android-env.sh:93,160-181,266-276).
SharedOnlyWhilePending ==
  \A v, w \in VM :
    v # w /\ sm[v] = sm[w] /\ sm[v] # 0 /\ v \notin crossed /\ w \notin crossed
      => "uninit" \in todo[v] \cup todo[w]

\* The plugin comes back after every stop, failure and reboot once no VM
\* keeps the module busy: nothing in the script is left half done in a way
\* that its next run cannot deal with (k8s-dev-init.sh:23-50).
ComesBack == <>[]~BinderInUse => <>[](plugin = "ready")

\* What k8s-dev-plugin.service:8 asks for (Restart=always): a plugin that
\* was stopped comes back, whatever runs on the host.
AlwaysBack == plugin = "off" ~> plugin = "ready"
=============================================================================
