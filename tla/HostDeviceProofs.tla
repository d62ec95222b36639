-------------------------- MODULE HostDeviceProofs ---------------------------
(***************************************************************************)
(* Theorems about HostDevice, for every number of CPUs and so of binder    *)
(* nodes, every set of VMs, and any number of pods, stops, failures and    *)
(* reboots.                                                                *)
(***************************************************************************)
EXTENDS HostDevice, FiniteSetTheorems, TLAPS

-----------------------------------------------------------------------------
(* The inductive invariant                                                 *)

\* The module is loaded with all its nodes or not at all, and what the script
\* has got to tells which: after rmmod there are none, and past insmod all.
NodesFollowScript ==
  /\ nodes \in {{}, 0..N}
  /\ plugin = "insmod" => nodes = {}
  /\ plugin \in {"lsmod", "rmmod", "insmod", "ready"} => ashmem
  /\ plugin = "ready" => nodes = 0..N

\* kubelet's book-keeping: an ID is held by one pod, from its admission to
\* its end, and the container has the node of the ID.
IdsFollowPods ==
  /\ \A v \in VM : held[v] = 0 <=> pod[v] = "none"
  /\ \A v, w \in VM : v # w /\ held[v] # 0 => held[v] # held[w]
  /\ \A v \in VM :
       bound[v] = IF pod[v] \in {"running", "stopping"} THEN held[v] ELSE 0

\* The nodes of processes that run are there: rmmod fails while one does.
UsedAreThere ==
  \A v \in VM :
    /\ sm[v] # 0 => sm[v] \in nodes
    /\ pod[v] = "running" => held[v] \in nodes

\* What is pending for a VM whose requests did not cross, and what runs for
\* it, as its pod goes through its life.
OneRequest(v) ==
  /\ pod[v] \in {"none", "admitted", "stopping"} =>
       todo[v] \subseteq {"uninit"} /\ (sm[v] # 0 => "uninit" \in todo[v])
  /\ pod[v] = "wait" =>
       todo[v] \subseteq {"init"} /\ sm[v] = 0 /\ idx[v] = held[v]
  /\ pod[v] \in {"ready", "running"} => todo[v] = {} /\ sm[v] = held[v]

IInv ==
  /\ TypeOK
  /\ NodesFollowScript
  /\ IdsFollowPods
  /\ UsedAreThere
  /\ \A v \in VM \ crossed : OneRequest(v)

-----------------------------------------------------------------------------
(* Preservation                                                            *)

\* There is a node more than the script looks for, so it never leaves a
\* loaded module alone (k8s-dev-init.sh:12,42).
LEMMA OneNodeMore == nodes = 0..N => Cardinality(nodes) # N /\ nodes # {}
<1> SUFFICES ASSUME nodes = 0..N PROVE Cardinality(nodes) # N /\ nodes # {}
  OBVIOUS
<1>1. N \in Nat /\ N \in Int /\ 0 \in Int
  BY NAssumption
<1>2. Cardinality(0..N) = N + 1
  BY <1>1, FS_Interval
<1>3. Cardinality(nodes) # N
  <2>1. Cardinality(nodes) = N + 1
    BY <1>2
  <2>2. QED
    BY <2>1, <1>1
<1>4. nodes # {}
  <2>1. 0 \in nodes
    BY <1>1
  <2>2. QED
    BY <2>1
<1>5. QED
  BY <1>3, <1>4

\* The initial state satisfies the inductive invariant.
LEMMA InitIInv == Init => IInv
<1> SUFFICES ASSUME Init PROVE IInv
  OBVIOUS
<1>1. TypeOK
  <2>1. ashmem \in BOOLEAN
    BY Zenon DEF Init
  <2>2. QED
    BY <2>1, NAssumption DEF Init, TypeOK, Index, Loading
<1>2. QED
  BY <1>1, NAssumption DEF Init, IInv, NodesFollowScript, IdsFollowPods,
     UsedAreThere, OneRequest

\* The steps of k8s-dev-init.sh and of the plugin's ends preserve the
\* invariant.
LEMMA PluginIInv ==
  ASSUME IInv, Plugin \/ InsmodFails \/ PluginStops
  PROVE  IInv'
<1> USE NAssumption, BoundsAssumption DEF pluginVars, podVars, envVars,
     boundVars, Goto
<1>a. TypeOK /\ NodesFollowScript /\ IdsFollowPods /\ UsedAreThere
      /\ \A v \in VM \ crossed : OneRequest(v)
  BY DEF IInv
<1>b. UNCHANGED <<podVars, envVars>>
  BY DEF Plugin, PluginStarts, Ashmem, Lsmod, Rmmod, RmmodFails, Insmod,
     InsmodFails, PluginStops
<1>1. TypeOK'
  <2>1. ashmem' \in BOOLEAN
    BY <1>a, Zenon DEF TypeOK, Plugin, PluginStarts, Ashmem, Lsmod, Rmmod,
       RmmodFails, Insmod, InsmodFails, PluginStops
  <2>2. QED
    BY <1>a, <2>1 DEF TypeOK, Index, Loading, Plugin, PluginStarts, Ashmem,
       Lsmod, Rmmod, RmmodFails, Insmod, InsmodFails, PluginStops, Fail
<1>2. NodesFollowScript'
  <2>1. CASE PluginStarts \/ Ashmem
    BY <1>a, <2>1 DEF NodesFollowScript, PluginStarts, Ashmem
  <2>2. CASE Lsmod
    BY <1>a, <2>2, OneNodeMore DEF NodesFollowScript, Lsmod
  <2>3. CASE Rmmod \/ RmmodFails \/ Insmod
    BY <1>a, <2>3 DEF NodesFollowScript, Rmmod, RmmodFails, Insmod
  <2>4. CASE InsmodFails \/ PluginStops
    BY <1>a, <2>4 DEF NodesFollowScript, InsmodFails, PluginStops
  <2>5. QED
    BY <2>1, <2>2, <2>3, <2>4 DEF Plugin
<1>3. IdsFollowPods'
  BY <1>a, <1>b DEF IdsFollowPods
<1>4. UsedAreThere'
  <2>1. CASE Rmmod
    BY <1>a, <1>b, <2>1 DEF UsedAreThere, Rmmod, BinderInUse
  <2>2. CASE Insmod
    BY <1>a, <1>b, <2>2 DEF UsedAreThere, Insmod, NodesFollowScript
  <2>3. CASE UNCHANGED nodes
    BY <1>a, <1>b, <2>3 DEF UsedAreThere
  <2>4. QED
    BY <2>1, <2>2, <2>3 DEF Plugin, PluginStarts, Ashmem, Lsmod, RmmodFails,
       InsmodFails, PluginStops
<1>5. \A v \in VM \ crossed' : OneRequest(v)'
  BY <1>a, <1>b DEF OneRequest
<1>6. QED
  BY <1>1, <1>2, <1>3, <1>4, <1>5 DEF IInv

\* The pods and the daemon preserve the invariant.
LEMMA PodIInv ==
  ASSUME IInv, NEW v \in VM, Pod(v) \/ EnvDaemon(v)
  PROVE  IInv'
<1> USE NAssumption, BoundsAssumption DEF pluginVars, podVars, envVars,
     boundVars, Allocate, Ask, SessionManager
<1>a. TypeOK /\ NodesFollowScript /\ IdsFollowPods /\ UsedAreThere
      /\ \A w \in VM \ crossed : OneRequest(w)
  BY DEF IInv
<1>1. CASE InitContainer(v)
  <2>1. TypeOK'
    BY <1>a, <1>1 DEF InitContainer, TypeOK, Index
  <2>2. NodesFollowScript' /\ IdsFollowPods' /\ UsedAreThere'
    BY <1>a, <1>1 DEF InitContainer, TypeOK, NodesFollowScript, IdsFollowPods,
       UsedAreThere
  <2>3. \A w \in VM \ crossed' : OneRequest(w)'
    BY <1>a, <1>1 DEF InitContainer, TypeOK, OneRequest
  <2>4. QED
    BY <2>1, <2>2, <2>3 DEF IInv
<1>2. CASE Container(v)
  <2>1. TypeOK'
    BY <1>a, <1>2 DEF Container, TypeOK, Index
  <2>2. NodesFollowScript' /\ IdsFollowPods' /\ UsedAreThere'
    BY <1>a, <1>2 DEF Container, TypeOK, NodesFollowScript, IdsFollowPods,
       UsedAreThere
  <2>3. \A w \in VM \ crossed' : OneRequest(w)'
    BY <1>a, <1>2 DEF Container, TypeOK, OneRequest
  <2>4. QED
    BY <2>1, <2>2, <2>3 DEF IInv
<1>3. CASE PodGone(v)
  <2>1. TypeOK'
    BY <1>a, <1>3 DEF PodGone, TypeOK, Index
  <2>2. NodesFollowScript' /\ IdsFollowPods' /\ UsedAreThere'
    BY <1>a, <1>3 DEF PodGone, TypeOK, NodesFollowScript, IdsFollowPods,
       UsedAreThere
  <2>3. \A w \in VM \ crossed' : OneRequest(w)'
    BY <1>a, <1>3 DEF PodGone, TypeOK, OneRequest
  <2>4. QED
    BY <2>1, <2>2, <2>3 DEF IInv
<1>4. CASE EnvStart(v)
  <2>1. TypeOK'
    BY <1>a, <1>4 DEF EnvStart, TypeOK, Index
  <2>2. NodesFollowScript' /\ IdsFollowPods' /\ UsedAreThere'
    BY <1>a, <1>4 DEF EnvStart, TypeOK, NodesFollowScript, IdsFollowPods,
       UsedAreThere
  <2>3. \A w \in VM \ crossed' : OneRequest(w)'
    BY <1>a, <1>4 DEF EnvStart, TypeOK, OneRequest
  <2>4. QED
    BY <2>1, <2>2, <2>3 DEF IInv
<1>5. CASE EnvStartFails(v)
  <2>1. TypeOK'
    BY <1>a, <1>5 DEF EnvStartFails, TypeOK, Index, Fail
  <2>2. NodesFollowScript' /\ IdsFollowPods' /\ UsedAreThere'
    BY <1>a, <1>5 DEF EnvStartFails, TypeOK, NodesFollowScript, IdsFollowPods,
       UsedAreThere
  <2>3. \A w \in VM \ crossed' : OneRequest(w)'
    BY <1>a, <1>5 DEF EnvStartFails, TypeOK, OneRequest
  <2>4. QED
    BY <2>1, <2>2, <2>3 DEF IInv
<1>6. CASE EnvStop(v)
  <2>1. TypeOK'
    BY <1>a, <1>6 DEF EnvStop, TypeOK, Index
  <2>2. NodesFollowScript' /\ IdsFollowPods' /\ UsedAreThere'
    BY <1>a, <1>6 DEF EnvStop, TypeOK, NodesFollowScript, IdsFollowPods,
       UsedAreThere
  <2>3. \A w \in VM \ crossed' : OneRequest(w)'
    BY <1>a, <1>6 DEF EnvStop, TypeOK, OneRequest
  <2>4. QED
    BY <2>1, <2>2, <2>3 DEF IInv
<1>7. QED
  BY <1>1, <1>2, <1>3, <1>4, <1>5, <1>6 DEF Pod, EnvDaemon

\* Admissions, deletions and reboots preserve the invariant.
LEMMA UserIInv ==
  ASSUME IInv,
         \/ HostReboot
         \/ \E v \in VM : \/ PreStop(v) \/ InitPodDeleted(v)
                          \/ \E id \in DeviceIDs("binder") : Admit(v, id)
  PROVE  IInv'
<1> USE NAssumption, BoundsAssumption DEF pluginVars, podVars, envVars,
     boundVars, Ask
<1>a. TypeOK /\ NodesFollowScript /\ IdsFollowPods /\ UsedAreThere
      /\ \A w \in VM \ crossed : OneRequest(w)
  BY DEF IInv
<1>1. ASSUME NEW v \in VM, PreStop(v) PROVE IInv'
  <2>1. TypeOK'
    BY <1>a, <1>1 DEF PreStop, TypeOK
  <2>2. NodesFollowScript' /\ IdsFollowPods' /\ UsedAreThere'
    BY <1>a, <1>1 DEF PreStop, TypeOK, NodesFollowScript, IdsFollowPods,
       UsedAreThere
  <2>3. \A w \in VM \ crossed' : OneRequest(w)'
    BY <1>a, <1>1 DEF PreStop, TypeOK, OneRequest
  <2>4. QED
    BY <2>1, <2>2, <2>3 DEF IInv
<1>2. ASSUME NEW v \in VM, InitPodDeleted(v) PROVE IInv'
  <2>1. TypeOK'
    BY <1>a, <1>2 DEF InitPodDeleted, TypeOK, Index
  <2>2. NodesFollowScript' /\ IdsFollowPods' /\ UsedAreThere'
    BY <1>a, <1>2 DEF InitPodDeleted, TypeOK, NodesFollowScript,
       IdsFollowPods, UsedAreThere
  <2>3. \A w \in VM \ crossed' : OneRequest(w)'
    BY <1>a, <1>2 DEF InitPodDeleted, TypeOK, OneRequest
  <2>4. QED
    BY <2>1, <2>2, <2>3 DEF IInv
<1>3. ASSUME NEW v \in VM, NEW id \in DeviceIDs("binder"), Admit(v, id)
      PROVE  IInv'
  <2>0. id[2] \in 1..N
    BY DEF DeviceIDs
  <2>1. TypeOK'
    BY <1>a, <1>3, <2>0 DEF Admit, TypeOK, Index
  <2>2. NodesFollowScript' /\ IdsFollowPods' /\ UsedAreThere'
    BY <1>a, <1>3, <2>0 DEF Admit, TypeOK, NodesFollowScript, IdsFollowPods,
       UsedAreThere
  <2>3. \A w \in VM \ crossed' : OneRequest(w)'
    BY <1>a, <1>3, <2>0 DEF Admit, TypeOK, OneRequest
  <2>4. QED
    BY <2>1, <2>2, <2>3 DEF IInv
<1>4. CASE HostReboot
  <2>0. ashmem' \in BOOLEAN
    BY <1>4, Zenon DEF HostReboot
  <2>1. TypeOK'
    BY <1>a, <1>4, <2>0 DEF HostReboot, TypeOK, Index
  <2>2. NodesFollowScript' /\ IdsFollowPods' /\ UsedAreThere'
    BY <1>a, <1>4 DEF HostReboot, TypeOK, NodesFollowScript, IdsFollowPods,
       UsedAreThere
  <2>3. \A w \in VM \ crossed' : OneRequest(w)'
    BY <1>a, <1>4 DEF HostReboot, TypeOK, OneRequest
  <2>4. QED
    BY <2>1, <2>2, <2>3 DEF IInv
<1>5. QED
  BY <1>1, <1>2, <1>3, <1>4

-----------------------------------------------------------------------------
(* Theorems                                                                *)

\* IInv is an invariant of the host, for every number of nodes and every set
\* of VMs.
THEOREM InductiveInvariant == Spec => []IInv
<1>1. IInv /\ UNCHANGED vars => IInv'
  BY DEF vars, pluginVars, podVars, envVars, boundVars, IInv, TypeOK,
     NodesFollowScript, IdsFollowPods, UsedAreThere, OneRequest
<1>2. IInv /\ [Next]_vars => IInv'
  BY <1>1, PluginIInv, PodIInv, UserIInv DEF Next, Environment
<1>3. QED
  BY InitIInv, <1>2, PTL DEF Spec

\* Every variable keeps its type (k8s-dev-init.sh, server.go).
THEOREM TypeCorrect == Spec => []TypeOK
<1>1. IInv => TypeOK
  BY DEF IInv
<1>2. QED
  BY InductiveInvariant, <1>1, PTL

\* The plugin never announces an ID whose node is not there: unloading,
\* reloading, a failing insmod and a reboot all take it out of service first
\* (server.go:82-86, k8s-dev-init.sh:12,37-50).
THEOREM AnnouncedHaveTheirNodes == Spec => []AnnouncedHaveNodes
<1>1. IInv => AnnouncedHaveNodes
  BY NAssumption DEF IInv, NodesFollowScript, AnnouncedHaveNodes, DeviceIDs
<1>2. QED
  BY InductiveInvariant, <1>1, PTL

\* The container of a running VM and its session manager are on one node,
\* which is there and which no other container has, unless requests for the
\* VM crossed (server.go:257-263, android-cfg-init.sh:31, android-env.sh:72).
THEOREM RunningOnOneNode == Spec => []SameNode
<1>1. IInv => SameNode
  <2> SUFFICES ASSUME IInv, NEW v \in VM, pod[v] = "running", v \notin crossed
               PROVE  /\ sm[v] = bound[v] /\ bound[v] \in nodes
                      /\ \A w \in VM \ {v} : bound[w] # bound[v] \/ bound[w] = 0
    BY DEF SameNode
  <2>1. sm[v] = held[v] /\ bound[v] = held[v] /\ held[v] \in nodes
    BY DEF IInv, OneRequest, IdsFollowPods, UsedAreThere
  <2>2. ASSUME NEW w \in VM \ {v} PROVE bound[w] # bound[v] \/ bound[w] = 0
    BY <2>1 DEF IInv, IdsFollowPods
  <2>3. QED
    BY <2>1, <2>2
<1>2. QED
  BY InductiveInvariant, <1>1, PTL

\* Two session managers share a node only while the shutdown of one of their
\* VMs is pending (android-env.sh:93,160-181,266-276).
THEOREM SharedNodeMeansPending == Spec => []SharedOnlyWhilePending
<1>1. IInv => SharedOnlyWhilePending
  <2> SUFFICES ASSUME IInv, NEW v \in VM, NEW w \in VM, v # w,
                      sm[v] = sm[w], sm[v] # 0, v \notin crossed,
                      w \notin crossed
               PROVE  "uninit" \in todo[v] \cup todo[w]
    BY DEF SharedOnlyWhilePending
  <2>1. ASSUME NEW u \in {v, w}, "uninit" \notin todo[u]
        PROVE  sm[u] = held[u]
    BY <2>1 DEF IInv, TypeOK, OneRequest
  <2>2. held[v] # 0 => held[v] # held[w]
    BY DEF IInv, IdsFollowPods
  <2>3. QED
    BY <2>1, <2>2
<1>2. QED
  BY InductiveInvariant, <1>1, PTL
=============================================================================
