----------------------------- MODULE EnvService -----------------------------
(***************************************************************************)
(* android-env-service.sh, the daemon that prepares the host environment   *)
(* of the Android VMs (Xvfb, session manager, x11vnc), with the parts it   *)
(* meets through the files of /opt/openvmi/android-env/docker:             *)
(*   - android-cfg-init.sh, the init container of a VM's pod,              *)
(*   - android-env-uninit.sh, the preStop hook of its Android container,   *)
(*   - the Job of android-vm-manage.sh that asks for a VM's deletion,      *)
(*   - android-env.sh, which the daemon runs to start and stop a VM's      *)
(*     environment.                                                        *)
(* The pods themselves (kubelet, the StatefulSet controller) are external. *)
(***************************************************************************)
EXTENDS Naturals, Sequences

CONSTANTS
  VM,           \* names of the VMs of this host
  MaxPods,      \* bound: pods created
  MaxDeletes,   \* bound: deletion Jobs
  MaxFailures,  \* bound: commands of the scripts that fail
  MaxTerms,     \* bound: systemctl stop or restart (SIGTERM)
  MaxCrashes    \* bound: SIGKILLs of the daemon and reboots of the host

ASSUME BoundsAssumption ==
  /\ MaxPods \in Nat /\ MaxDeletes \in Nat /\ MaxFailures \in Nat
  /\ MaxTerms \in Nat /\ MaxCrashes \in Nat

VARIABLES
  spc,      \* where the daemon stands; "off": there is no daemon
  q,        \* which of the three loops it is in
  cur,      \* ANDROID_NAME, a set of at most one VM
  ret,      \* what android-env.sh start returned
  copy,     \* sed -i: the lines of the new file
  pidFile,  \* /run/android_env_service.pid exists
  queue,    \* the files init.queue, uninit.queue and delete.queue
  lost,     \* history, per queue: VMs whose last line sed -i dropped
  crossed,  \* history: VMs for which something was asked while an earlier
            \* request was pending or a pod still there, or a request was
            \* carried out twice
  pod,      \* per VM: how far its pod has come
  cfg,      \* per VM: docker/data/<vm>/init_cfg, and its directory, exist
  status,   \* per VM: docker/data/<vm>/init_status
  procs,    \* per VM: host processes that run for it
  sockets,  \* per VM: its socket files exist
  data,     \* per VM: android-data/<vm> exists
  pods, deletes, failures, terms, crashes  \* how much of a bound is used

daemonVars == <<spc, q, cur, ret, copy, pidFile>>
queueVars == <<queue, lost, crossed>>
fileVars == <<cfg, status, data>>
envVars == <<procs, sockets>>
boundVars == <<pods, deletes, failures, terms, crashes>>
vars == <<daemonVars, queueVars, pod, fileVars, envVars, boundVars>>

Queue == {"init", "uninit", "delete"}
Proc == {"Xvfb", "session-manager", "x11vnc"}
InitPhase == {"cfg", "clear", "append", "wait"}
Busy == {"run", "status", "undo", "rmdata", "sed", "rename"}

TypeOK ==
  /\ spc \in {"off", "setup", "test", "choose"} \cup Busy
  /\ q \in Queue
  /\ cur \in SUBSET VM
  /\ ret \in {"ok", "failed"}
  /\ copy \in Seq(VM)
  /\ pidFile \in BOOLEAN
  /\ queue \in [Queue -> Seq(VM)]
  /\ lost \in [Queue -> SUBSET VM]
  /\ crossed \in SUBSET VM
  /\ pod \in [VM -> {"none", "running", "stopping"} \cup InitPhase]
  /\ cfg \in [VM -> BOOLEAN]
  /\ status \in [VM -> {"none", "empty", "ok", "failed"}]
  /\ procs \in [VM -> SUBSET Proc]
  /\ sockets \in [VM -> BOOLEAN]
  /\ data \in [VM -> BOOLEAN]
  /\ pods \in Nat /\ deletes \in Nat /\ failures \in Nat
  /\ terms \in Nat /\ crashes \in Nat

Init ==
  /\ spc = "off" /\ q = "init" /\ cur = {} /\ ret = "ok" /\ copy = <<>>
  /\ pidFile = FALSE
  /\ queue = [k \in Queue |-> <<>>]
  /\ lost = [k \in Queue |-> {}]
  /\ crossed = {}
  /\ pod = [v \in VM |-> "none"]
  /\ cfg = [v \in VM |-> FALSE]
  /\ status = [v \in VM |-> "none"]
  /\ procs = [v \in VM |-> {}]
  /\ sockets = [v \in VM |-> FALSE]
  /\ data = [v \in VM |-> FALSE]
  /\ pods = 0 /\ deletes = 0 /\ failures = 0 /\ terms = 0 /\ crashes = 0

Names(s) == {s[i] : i \in 1..Len(s)}
Queued(k, v) == v \in Names(queue[k])
Quiet(v) == \A k \in Queue : ~Queued(k, v)

\* echo $ANDROID_NAME >> file
AppendTo(k, v) ==
  /\ queue' = [queue EXCEPT ![k] = Append(@, v)]
  /\ lost' = [lost EXCEPT ![k] = @ \ {v}]
  /\ crossed' = IF Quiet(v) /\ (k = "delete" => pod[v] = "none")
                THEN crossed ELSE crossed \cup {v}

Goto(from, to) == spc = from /\ spc' = to

-----------------------------------------------------------------------------
(* The daemon: coming and going                                            *)

\* systemd starts the unit; no pid file: create it.
StartService ==
  /\ Goto("off", "setup") /\ ~pidFile /\ pidFile' = TRUE
  /\ q' = "init" /\ cur' = {} /\ ret' = "ok" /\ copy' = <<>>
  /\ UNCHANGED <<queueVars, pod, fileVars, envVars, boundVars>>

\* "error: app is running."
StartRefused == spc = "off" /\ pidFile /\ UNCHANGED vars

Setup ==
  /\ Goto("setup", "test")
  /\ UNCHANGED <<q, cur, ret, copy, pidFile>>
  /\ UNCHANGED <<queueVars, pod, fileVars, envVars, boundVars>>

\* One of the four sysctl calls fails: exit, and the pid file stays.
SetupFails ==
  /\ Goto("setup", "off") /\ failures < MaxFailures
  /\ failures' = failures + 1
  /\ UNCHANGED <<q, cur, ret, copy, pidFile, queueVars, pod, fileVars>>
  /\ UNCHANGED <<envVars, pods, deletes, terms, crashes>>

\* The trap for SIGTERM. bash runs it between two commands, so a signal that
\* arrives during android-env.sh or sed takes effect when that has ended. An
\* init that was run, but whose line is still there, will be run once more.
Term ==
  /\ spc \notin {"off", "rename"} /\ spc' = "off" /\ pidFile' = FALSE
  /\ terms < MaxTerms /\ terms' = terms + 1
  /\ crossed' = IF spc \in {"status", "undo", "sed"} /\ q = "init"
                THEN crossed \cup cur ELSE crossed
  /\ UNCHANGED <<q, cur, ret, copy, queue, lost, pod, fileVars, envVars>>
  /\ UNCHANGED <<pods, deletes, failures, crashes>>

\* SIGKILL. KillMode=process: the command the daemon was running goes on to
\* its end, which is a kill right after it.
Kill ==
  /\ spc \notin {"off", "rename"} /\ spc' = "off"
  /\ crashes < MaxCrashes /\ crashes' = crashes + 1
  /\ UNCHANGED <<q, cur, ret, copy, pidFile, queueVars, pod, fileVars>>
  /\ UNCHANGED <<envVars, pods, deletes, failures, terms>>

-----------------------------------------------------------------------------
(* The daemon: the main loop                                               *)

\* Mutant: tail -1 instead of head -1.
TakeLast ==
  /\ Goto("test", "run") /\ queue[q] # <<>>
  /\ cur' = {queue[q][Len(queue[q])]}
  /\ UNCHANGED <<q, ret, copy, pidFile>>
  /\ UNCHANGED <<queueVars, pod, fileVars, envVars, boundVars>>

\* Mutant: the line is removed when it is taken, not when it is done.
TakeHeadRemoves ==
  /\ Goto("test", "run") /\ queue[q] # <<>>
  /\ cur' = {Head(queue[q])}
  /\ queue' = [queue EXCEPT ![q] = Tail(@)]
  /\ UNCHANGED <<q, ret, copy, pidFile, lost, crossed>>
  /\ UNCHANGED <<pod, fileVars, envVars, boundVars>>

\* The queue file is not empty: take its first line, but leave it there.
TakeHead ==
  /\ Goto("test", "run") /\ queue[q] # <<>>
  /\ cur' = {Head(queue[q])}
  /\ UNCHANGED <<q, ret, copy, pidFile>>
  /\ UNCHANGED <<queueVars, pod, fileVars, envVars, boundVars>>

\* The loop over init.queue is followed by the choice between the other two,
\* each of these by sleep and the loop over init.queue.
LoopDone ==
  /\ spc = "test" /\ queue[q] = <<>>
  /\ spc' = IF q = "init" THEN "choose" ELSE "test"
  /\ q' = "init"
  /\ UNCHANGED <<cur, ret, copy, pidFile>>
  /\ UNCHANGED <<queueVars, pod, fileVars, envVars, boundVars>>

\* Mutant: the test for a non-empty uninit.queue is inverted.
ChooseInverted ==
  /\ Goto("choose", "test")
  /\ q' = IF queue["uninit"] = <<>> THEN "uninit" ELSE "delete"
  /\ UNCHANGED <<cur, ret, copy, pidFile>>
  /\ UNCHANGED <<queueVars, pod, fileVars, envVars, boundVars>>

\* if [ -s $UNINIT_QUEUE_FILE ]: the deletions wait for the uninits.
Choose ==
  /\ Goto("choose", "test")
  /\ q' = IF queue["uninit"] # <<>> THEN "uninit" ELSE "delete"
  /\ UNCHANGED <<cur, ret, copy, pidFile>>
  /\ UNCHANGED <<queueVars, pod, fileVars, envVars, boundVars>>

\* sed -i '1d' reads the file ...
SedRead ==
  /\ Goto("sed", "rename") /\ copy' = Tail(queue[q])
  /\ UNCHANGED <<q, cur, ret, pidFile>>
  /\ UNCHANGED <<queueVars, pod, fileVars, envVars, boundVars>>

\* Lines appended since sed read queue k.
AddedSince(k) == {queue[k][i] : i \in (Len(copy) + 2)..Len(queue[k])}

\* Mutant: the file is renamed although the line was not deleted.
SedRenameKeepsLine ==
  /\ Goto("rename", "test")
  /\ UNCHANGED <<q, cur, ret, copy, pidFile>>
  /\ UNCHANGED <<queueVars, pod, fileVars, envVars, boundVars>>

\* ... and puts a new file in its place; what was appended in between goes.
SedRename ==
  /\ Goto("rename", "test")
  /\ queue' = [queue EXCEPT ![q] = copy]
  /\ lost' = [lost EXCEPT ![q] = @ \cup AddedSince(q)]
  /\ UNCHANGED <<q, cur, ret, copy, pidFile, crossed>>
  /\ UNCHANGED <<pod, fileVars, envVars, boundVars>>

-----------------------------------------------------------------------------
(* android-env.sh                                                          *)

Outcome(p, s, d, r) == [procs |-> p, sockets |-> s, data |-> d, ret |-> r]

\* start, every command succeeding. start_session_manager removes the socket
\* files before it looks whether a session manager runs already, and if one
\* does it neither starts one nor waits for sockets.
StartOk(v) ==
  Outcome(Proc, "session-manager" \notin procs[v], TRUE, "ok")

\* start, one command failing: get_android_cfg_data (the only one to fail
\* for sure, without init_cfg); start_framebuffer; start_session_manager
\* before or after the process is there; start_vnc_server; configure_network.
StartFailed(v) ==
  LET up == "session-manager" \in procs[v]
      fb == procs[v] \cup {"Xvfb"}
      sm == fb \cup {"session-manager"}
  IN  {Outcome(procs[v], sockets[v], data[v], "failed")}
        \cup {Outcome(p, FALSE, data[v], "failed") : p \in {fb, sm}}
        \cup {Outcome(sm, ~up, data[v], "failed"),
              Outcome(Proc, ~up, TRUE, "failed")}

\* Mutant: stop leaves the session manager alone.
StopKeepsSessionManager(v) ==
  /\ procs' = IF cfg[v] THEN [procs EXCEPT ![v] = @ \cap {"session-manager"}]
                        ELSE procs
  /\ sockets' = IF cfg[v] THEN [sockets EXCEPT ![v] = FALSE] ELSE sockets

\* stop: kill the three processes, remove the sockets; without init_cfg
\* get_android_cfg_data exits before any of it.
Stop(v) ==
  /\ procs' = IF cfg[v] THEN [procs EXCEPT ![v] = {}] ELSE procs
  /\ sockets' = IF cfg[v] THEN [sockets EXCEPT ![v] = FALSE] ELSE sockets

-----------------------------------------------------------------------------
(* The daemon: what it does with a line                                    *)

Started(v, o) ==
  /\ Goto("run", "status") /\ q = "init"
  /\ procs' = [procs EXCEPT ![v] = o.procs]
  /\ sockets' = [sockets EXCEPT ![v] = o.sockets]
  /\ data' = [data EXCEPT ![v] = o.data]
  /\ ret' = o.ret
  /\ UNCHANGED <<q, cur, copy, pidFile, queueVars, pod, cfg, status>>

\* init_android_run_env, line 20: android-env.sh start.
RunStart ==
  \E v \in cur : cfg[v] /\ Started(v, StartOk(v)) /\ UNCHANGED boundVars

RunStartFails ==
  \E v \in cur :
    /\ cfg[v] /\ failures < MaxFailures /\ failures' = failures + 1
    /\ \E o \in StartFailed(v) : Started(v, o)
    /\ UNCHANGED <<pods, deletes, terms, crashes>>

\* "init_cfg isn't exist."
RunStartNoCfg ==
  \E v \in cur :
    /\ ~cfg[v]
    /\ Started(v, Outcome(procs[v], sockets[v], data[v], "failed"))
    /\ UNCHANGED boundVars

\* Mutant: the answer is appended (>>) to what an earlier one left.
WriteStatusAppends ==
  \E v \in cur :
    /\ spc = "status" /\ spc' = IF ret = "ok" THEN "sed" ELSE "undo"
    /\ status' = [status EXCEPT ![v] =
         IF @ \in {"none", "empty"} THEN ret ELSE @ \o ret]
    /\ UNCHANGED <<q, cur, ret, copy, pidFile, queueVars, pod, cfg, data>>
    /\ UNCHANGED <<envVars, boundVars>>

\* init_android_run_env, line 23: into a directory that may be gone.
WriteStatus ==
  \E v \in cur :
    /\ spc = "status" /\ spc' = IF ret = "ok" THEN "sed" ELSE "undo"
    /\ status' = IF cfg[v] THEN [status EXCEPT ![v] = ret] ELSE status
    /\ UNCHANGED <<q, cur, ret, copy, pidFile, queueVars, pod, cfg, data>>
    /\ UNCHANGED <<envVars, boundVars>>

\* uninit_android_run_env after a failed start, or for a line of uninit.queue
RunStop ==
  \E v \in cur :
    /\ Goto("undo", "sed") \/ (Goto("run", "sed") /\ q = "uninit")
    /\ Stop(v)
    /\ UNCHANGED <<q, cur, ret, copy, pidFile, queueVars, pod, fileVars>>
    /\ UNCHANGED boundVars

\* delete_android_vm: the VM's directory under docker/data, then ...
RunDelete ==
  \E v \in cur :
    /\ Goto("run", "rmdata") /\ q = "delete"
    /\ cfg' = [cfg EXCEPT ![v] = FALSE]
    /\ status' = [status EXCEPT ![v] = "none"]
    /\ UNCHANGED <<q, cur, ret, copy, pidFile, queueVars, pod, data>>
    /\ UNCHANGED <<envVars, boundVars>>

\* Mutant: the loop around rm -rf is not entered.
DeleteDataSkipped ==
  /\ cur # {} /\ Goto("rmdata", "sed")
  /\ UNCHANGED <<q, cur, ret, copy, pidFile, queueVars, pod, fileVars>>
  /\ UNCHANGED <<envVars, boundVars>>

\* ... its Android data; after nine failed attempts that is "ok" as well.
DeleteData ==
  \E v \in cur :
    /\ Goto("rmdata", "sed")
    /\ \/ data' = [data EXCEPT ![v] = FALSE] /\ UNCHANGED failures
       \/ failures < MaxFailures /\ failures' = failures + 1 /\ UNCHANGED data
    /\ UNCHANGED <<q, cur, ret, copy, pidFile, queueVars, pod, cfg, status>>
    /\ UNCHANGED <<envVars, pods, deletes, terms, crashes>>

-----------------------------------------------------------------------------
(* Pods                                                                    *)

\* create, startup, the second half of reboot: the StatefulSet gets a pod.
PodCreated(v) ==
  /\ pod[v] = "none" /\ pod' = [pod EXCEPT ![v] = "cfg"]
  /\ pods < MaxPods /\ pods' = pods + 1
  /\ UNCHANGED <<daemonVars, queueVars, fileVars, envVars>>
  /\ UNCHANGED <<deletes, failures, terms, crashes>>

\* android-cfg-init.sh: mkdir, write init_cfg.
InitWriteCfg(v) ==
  /\ pod[v] = "cfg" /\ pod' = [pod EXCEPT ![v] = "clear"]
  /\ cfg' = [cfg EXCEPT ![v] = TRUE]
  /\ UNCHANGED <<daemonVars, queueVars, status, data, envVars, boundVars>>

\* Mutant: the answer of an earlier init is left in place.
InitKeepStatus(v) ==
  /\ pod[v] = "clear" /\ pod' = [pod EXCEPT ![v] = "append"]
  /\ UNCHANGED <<daemonVars, queueVars, fileVars, envVars, boundVars>>

InitClearStatus(v) ==
  /\ pod[v] = "clear" /\ pod' = [pod EXCEPT ![v] = "append"]
  /\ status' = IF cfg[v] THEN [status EXCEPT ![v] = "empty"] ELSE status
  /\ UNCHANGED <<daemonVars, queueVars, cfg, data, envVars, boundVars>>

InitQueue(v) ==
  /\ pod[v] = "append" /\ pod' = [pod EXCEPT ![v] = "wait"]
  /\ AppendTo("init", v)
  /\ UNCHANGED <<daemonVars, fileVars, envVars, boundVars>>

\* The status is 0: exit 0, and the Android container starts (docker creates
\* the directories of its volumes that are missing).
InitDone(v) ==
  /\ pod[v] = "wait" /\ status[v] = "ok"
  /\ pod' = [pod EXCEPT ![v] = "running"]
  /\ data' = [data EXCEPT ![v] = TRUE]
  /\ UNCHANGED <<daemonVars, queueVars, cfg, status, envVars, boundVars>>

\* The status is not 0: init_failed, which without an argument does nothing.
InitFailed(v) == pod[v] = "wait" /\ status[v] = "failed" /\ UNCHANGED vars

\* The pod is deleted while its Android container runs: preStop.
PreStop(v) ==
  /\ pod[v] = "running" /\ pod' = [pod EXCEPT ![v] = "stopping"]
  /\ AppendTo("uninit", v)
  /\ UNCHANGED <<daemonVars, fileVars, envVars, boundVars>>

PodGone(v) ==
  /\ pod[v] = "stopping" /\ pod' = [pod EXCEPT ![v] = "none"]
  /\ UNCHANGED <<daemonVars, queueVars, fileVars, envVars, boundVars>>

\* The pod is deleted before that: there is no container to run preStop in.
InitPodDeleted(v) ==
  /\ pod[v] \in InitPhase /\ pod' = [pod EXCEPT ![v] = "none"]
  /\ crossed' = IF Quiet(v) /\ (pod[v] = "wait" => status[v] = "failed")
                THEN crossed ELSE crossed \cup {v}
  /\ UNCHANGED <<daemonVars, queue, lost, fileVars, envVars, boundVars>>

\* delete: once the pod is gone, or taken for gone because kubectl get pod
\* failed, a Job queues the VM's name.
DeleteJob(v) ==
  /\ \/ pod[v] = "none" /\ cfg[v] /\ UNCHANGED failures
     \/ /\ pod[v] # "none"
        /\ failures < MaxFailures /\ failures' = failures + 1
  /\ deletes < MaxDeletes /\ deletes' = deletes + 1
  /\ AppendTo("delete", v)
  /\ UNCHANGED <<daemonVars, pod, fileVars, envVars>>
  /\ UNCHANGED <<pods, terms, crashes>>

\* The host goes down and comes up: processes and /run are gone, other files
\* stay, kubelet starts the pods that are still wanted from the beginning.
HostReboot ==
  /\ crashes < MaxCrashes /\ crashes' = crashes + 1
  /\ spc' = "off" /\ pidFile' = FALSE
  /\ procs' = [v \in VM |-> {}]
  /\ pod' = [v \in VM |-> IF pod[v] \in {"none", "stopping"} THEN "none"
                                                             ELSE "cfg"]
  /\ crossed' = crossed \cup {v \in VM : Queued("init", v)}
  /\ UNCHANGED <<q, cur, ret, copy, queue, lost, fileVars, sockets>>
  /\ UNCHANGED <<pods, deletes, failures, terms>>

-----------------------------------------------------------------------------
Daemon ==
  \/ StartService \/ StartRefused \/ Setup \/ TakeHead \/ LoopDone \/ Choose
  \/ SedRead \/ SedRename \/ RunStart \/ RunStartNoCfg \/ WriteStatus
  \/ RunStop \/ RunDelete \/ DeleteData

InitContainer(v) ==
  \/ InitWriteCfg(v) \/ InitClearStatus(v) \/ InitQueue(v)
  \/ InitDone(v) \/ InitFailed(v)

Environment ==
  \/ SetupFails \/ RunStartFails \/ Term \/ Kill \/ HostReboot
  \/ \E v \in VM : \/ PodCreated(v) \/ PreStop(v) \/ InitPodDeleted(v)
                   \/ DeleteJob(v)

Next ==
  \/ Daemon \/ Environment
  \/ \E v \in VM : InitContainer(v) \/ PodGone(v)

\* The daemon and the init containers keep running, systemd restarts the
\* unit, and a pod that is being deleted goes away.
Fairness ==
  /\ WF_vars(Daemon)
  /\ \A v \in VM : WF_vars(InitContainer(v)) /\ WF_vars(PodGone(v))

Spec == Init /\ [][Next]_vars /\ Fairness

-----------------------------------------------------------------------------
(* Properties                                                              *)

\* The line that sed -i '1d' deletes is the line the daemon worked on: head
\* and sed are separate commands, appends, restarts and other loops come in
\* between (android-env-service.sh:90-116).
HeadIsCurrent ==
  spc \in Busy => queue[q] # <<>> /\ cur = {Head(queue[q])}

\* An init container that waits for its answer, and whose line did not fall
\* into a rewrite of the queue file, is still queued: no restart of the
\* daemon, no crash and no other VM's request makes the daemon forget it
\* (android-env-service.sh:90-96, android-cfg-init.sh:37-45).
WaitingIsQueued ==
  \A v \in VM :
    pod[v] = "wait" /\ status[v] = "empty" /\ v \notin lost["init"] =>
      Queued("init", v)

Usable(v) == sockets[v] /\ "session-manager" \in procs[v]

\* A VM whose shutdown was heard and whose requests never crossed.
Orderly(v) == v \notin crossed /\ v \notin lost["uninit"]

\* A VM that runs has a session manager, the sockets to reach it, and the
\* files its environment is described by: no pending shutdown or deletion of
\* an earlier incarnation takes them away, whatever the other VMs do, the
\* daemon's crashes and the host's reboots included, unless requests for
\* this VM crossed (android-env.sh:160-181,253-276,
\* android-env-service.sh:15-55).
RunningUsable ==
  \A v \in VM :
    pod[v] = "running" /\ Orderly(v) => Usable(v) /\ cfg[v] /\ data[v]

\* A VM without a pod, and that no queue names any more, has left no process
\* on the host (android-env-service.sh:25-27,98-105).
NoLeak ==
  \A v \in VM : pod[v] = "none" /\ Quiet(v) /\ Orderly(v) => procs[v] = {}

\* A VM whose deletion is done has no Android data left either, unless all
\* attempts to remove them failed, which the daemon also calls "data ok"
\* (android-env-service.sh:39-55).
DeletedIsGone ==
  \A v \in VM :
    /\ pod[v] = "none" /\ ~cfg[v] /\ Quiet(v) /\ Orderly(v)
    /\ failures = 0
    => ~data[v] /\ status[v] = "none"

\* The daemon keeps the promise of RequestQueue, for all three queue files at
\* once: whatever the order in which head, the work on a line and sed meet
\* with appends, signals, crashes and reboots, no request is dropped unhandled
\* or handled out of turn (android-env-service.sh:90-116).
Requests ==
  INSTANCE RequestQueue
    WITH Client <- VM,
         pending <- queue,
         active <- IF spc \in Busy THEN {q} ELSE {},
         handled <- spc \in {"sed", "rename"}

KeepsRequests == Requests!Spec

\* The pid file of a daemon that is gone: every later start refuses.
LockedOut == spc = "off" /\ pidFile

\* Every init container gets its answer, whatever else is queued and however
\* often the daemon is restarted, unless the line was lost, the VM's files
\* were deleted or the daemon is locked out.
InitAnswered ==
  \A v \in VM :
    pod[v] = "wait" ~>
      \/ pod[v] # "wait" \/ status[v] # "empty"
      \/ v \in lost["init"] \/ LockedOut

\* The environment of a VM that is shut down is taken down, although every
\* pending init goes first (android-env-service.sh:90-105).
ShutdownCompletes ==
  \A v \in VM :
    pod[v] = "stopping" ~>
      \/ procs[v] = {} \/ pod[v] \notin {"stopping", "none"}
      \/ ~Orderly(v) \/ LockedOut

\* What android-vm-manage.sh:403 says once the new pod runs, "$1 reboot ok.":
\* the shutdown that was part of the reboot is over by then.
ShutdownSparesNewVm ==
  [][RunStop => \A v \in cur : pod[v] # "running"]_vars

\* What android-vm-manage.sh:320 says once the deletion of a VM is queued,
\* "$1 deleted ok.": the shutdown that preStop queued before takes down
\* everything that runs for the VM.
UninitTakesDown ==
  [][RunStop /\ q = "uninit" => \A v \in cur : procs'[v] = {}]_vars

\* What init_failed is for (android-cfg-init.sh:10-16, "exit $FAILED"): the
\* init container of a failed init ends, so that kubelet can try again.
FailedInitExits ==
  \A v \in VM :
    pod[v] = "wait" /\ status[v] = "failed" ~>
      ~(pod[v] = "wait" /\ status[v] = "failed")
=============================================================================
