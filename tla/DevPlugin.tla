------------------------------ MODULE DevPlugin ------------------------------
(***************************************************************************)
(* The k8s-dev-plugin process: main() of main.go, the watchers of          *)
(* watcher.go and the DevicePluginManager / DevicePlugin methods of        *)
(* server.go, running against kubelet (external) and supervised by systemd *)
(* (external, k8s-dev-plugin.service: Restart=always).                     *)
(*                                                                         *)
(* A manager is rebuilt from scratch by every round of the main loop, so   *)
(* the model does not number the rounds: what belongs to the manager in    *)
(* use is "cur", what an earlier manager or process left behind is "old".  *)
(***************************************************************************)
EXTENDS Naturals

CONSTANTS
  N,            \* length of devList: one DevicePlugin per device
  MaxFaults,    \* bound: crashes, failed system calls, spurious timeouts
  MaxRestarts,  \* bound: restarts of kubelet
  MaxSignals    \* bound: signals sent to the process

ASSUME NAssumption == N \in Nat \ {0}
ASSUME BoundsAssumption ==
  /\ MaxFaults \in Nat /\ MaxRestarts \in Nat /\ MaxSignals \in Nat

VARIABLES
  pc,           \* where main() stands; "off": there is no process
  idx,          \* loop variable of the manager's loops over devPlugins
  pidFile,      \* /run/k8s_dev_plugin_service.pid exists
  sock,         \* per device: whose socket file is at unixSockPath
  server,       \* per device: gRpcServer and its Serve goroutine
  isRigistered, \* per device: the flag of that name
  stream,       \* per device: a ListAndWatch handler waits on stopChan
  late,         \* per device: a Serve goroutine of a stopped server has not
                \* run yet; it still owns that server's open listener
  overslept,    \* history: such a goroutine unlinked a socket in use
  events,       \* unread fsnotify Create events for kubelet.sock
  overflow,     \* history: the last creation of kubelet.sock, while watched,
                \* found the inotify queue full
  sigCh,        \* the signal channel, of capacity 1
  kubelet,      \* external: "up", "down", or "wiped" (starting: it emptied
                \* the socket directory and does not listen yet)
  kreg,         \* external, per device: the registration kubelet holds
  faults, restarts, signals  \* how much of each bound is used up

mainVars == <<pc, idx, pidFile>>
pluginVars == <<sock, server, isRigistered, stream, late,
                overslept>>
chanVars == <<events, overflow, sigCh>>
kubeletVars == <<kubelet, kreg>>
boundVars == <<faults, restarts, signals>>
vars == <<mainVars, pluginVars, chanVars, kubeletVars, boundVars>>

Dev == 1..N
Owner == {"none", "cur", "old"}
Booting == {"check", "hostdev", "watch"}
Stopping == {"stopRetry", "stopRestart", "stopExit"}
PC == {"off", "pid", "init", "listen", "dial", "register",
       "sleep", "select", "exit"} \cup Booting \cup Stopping

TypeOK ==
  /\ pc \in PC
  /\ idx \in Dev
  /\ pidFile \in BOOLEAN
  /\ sock \in [Dev -> Owner]
  /\ server \in [Dev -> {"nil", "spawned", "serving"}]
  /\ isRigistered \in [Dev -> BOOLEAN]
  /\ stream \in [Dev -> BOOLEAN]
  /\ late \in [Dev -> BOOLEAN]
  /\ overslept \in BOOLEAN
  /\ events \in Nat /\ overflow \in BOOLEAN
  /\ sigCh \in {"none", "HUP", "TERM"}
  /\ kubelet \in {"up", "down", "wiped"}
  /\ kreg \in [Dev -> Owner]
  /\ faults \in Nat /\ restarts \in Nat /\ signals \in Nat

Init ==
  /\ pc = "off" /\ idx = 1 /\ pidFile = FALSE
  /\ sock = [d \in Dev |-> "none"]
  /\ server = [d \in Dev |-> "nil"]
  /\ isRigistered = [d \in Dev |-> FALSE]
  /\ stream = [d \in Dev |-> FALSE]
  /\ late = [d \in Dev |-> FALSE]
  /\ overslept = FALSE
  /\ events = 0 /\ overflow = FALSE /\ sigCh = "none"
  /\ kubelet \in {"up", "wiped"}
  /\ kreg = [d \in Dev |-> "none"]
  /\ faults = 0 /\ restarts = 0 /\ signals = 0

\* What was current stops being so.
Outdate(f) == [d \in Dev |-> IF f[d] = "cur" THEN "old" ELSE f[d]]

\* The process ends without running its defers: goroutines and descriptors
\* go with it, socket files and the pid file stay.
ProcessGone ==
  /\ pc' = "off" /\ idx' = 1
  /\ sock' = Outdate(sock)
  /\ kreg' = Outdate(kreg)
  /\ server' = [d \in Dev |-> "nil"]
  /\ isRigistered' = [d \in Dev |-> FALSE]
  /\ stream' = [d \in Dev |-> FALSE]
  /\ late' = [d \in Dev |-> FALSE]
  /\ events' = 0 /\ overflow' = FALSE /\ sigCh' = "none"
  /\ UNCHANGED overslept

\* log.Fatal: os.Exit(1), so no deferred call runs.
Fatal == ProcessGone /\ UNCHANGED <<pidFile, kubelet, restarts, signals>>

Fault == faults < MaxFaults /\ faults' = faults + 1
NoFault == UNCHANGED boundVars

Goto(from, to) == pc = from /\ pc' = to

-----------------------------------------------------------------------------
(* main(): before the loop                                                 *)

\* systemd starts the unit, and starts it again whenever it ended.
Start ==
  /\ Goto("off", "check")
  /\ UNCHANGED <<idx, pidFile, pluginVars, chanVars, kubeletVars>> /\ NoFault

\* appIsRunning() found the pid file: "app is running."
AppIsRunning ==
  pc = "check" /\ pidFile /\ Fatal /\ UNCHANGED faults

AppIsNotRunning ==
  /\ Goto("check", "hostdev") /\ ~pidFile
  /\ UNCHANGED <<idx, pidFile, pluginVars, chanVars, kubeletVars>> /\ NoFault

InitHostDevice ==
  /\ Goto("hostdev", "watch")
  /\ UNCHANGED <<idx, pidFile, pluginVars, chanVars, kubeletVars>> /\ NoFault

\* newFsWatcher on the socket directory, then newOsWatcher.
StartWatchers ==
  /\ Goto("watch", "pid")
  /\ UNCHANGED <<idx, pidFile, pluginVars, chanVars, kubeletVars>> /\ NoFault

CreatePidFile ==
  /\ Goto("pid", "init") /\ pidFile' = TRUE
  /\ UNCHANGED <<idx, pluginVars, chanVars, kubeletVars>> /\ NoFault

\* os.Create fails, or WriteString fails once the file is there.
CreatePidFileFails ==
  /\ pc = "pid" /\ Fault /\ ProcessGone
  /\ pidFile' \in {pidFile, TRUE}
  /\ UNCHANGED <<kubelet, restarts, signals>>

\* initHostDevice or newFsWatcher returns an error.
SetupFails == pc \in {"hostdev", "watch"} /\ Fault /\ Fatal

-----------------------------------------------------------------------------
(* main(): the restart branch of the loop                                  *)

\* A fresh manager: fresh plugins, fresh stopChans, nothing registered.
InitPluginManager ==
  /\ Goto("init", "listen") /\ idx' = 1
  /\ sock' = Outdate(sock)
  /\ kreg' = Outdate(kreg)
  /\ server' = [d \in Dev |-> "nil"]
  /\ isRigistered' = [d \in Dev |-> FALSE]
  /\ UNCHANGED <<pidFile, stream, late, overslept, chanVars, kubelet>> /\ NoFault

\* Mutant: the loop that starts the servers begins again at the first one.
ListenAtFirst ==
  /\ Goto("listen", "dial")
  /\ sock' = [sock EXCEPT ![1] = "cur"]
  /\ server' = [server EXCEPT ![1] = "spawned"]
  /\ UNCHANGED <<idx, pidFile, isRigistered, stream, late, overslept>>
  /\ UNCHANGED <<chanVars, kubeletVars>> /\ NoFault

\* startGrpcServer of one plugin: Remove the path, Listen, go Serve.
Listen ==
  /\ Goto("listen", "dial")
  /\ sock' = [sock EXCEPT ![idx] = "cur"]
  /\ server' = [server EXCEPT ![idx] = "spawned"]
  /\ UNCHANGED <<idx, pidFile, isRigistered, stream, late, overslept>>
  /\ UNCHANGED <<chanVars, kubeletVars>> /\ NoFault

ListenFails == pc = "listen" /\ Fault /\ Fatal

\* Mutant: the loop bound is off by one.
ConnectOffByOne ==
  /\ pc = "dial" /\ sock[idx] = "cur"
  /\ IF idx <= N THEN pc' = "listen" /\ idx' = idx + 1
                 ELSE pc' = "register" /\ idx' = 1
  /\ UNCHANGED <<pidFile, pluginVars, chanVars, kubeletVars>> /\ NoFault

\* The blocking connection to the plugin's own socket. The kernel completes
\* it from the listen backlog, whether or not Serve has been scheduled.
Connect ==
  /\ pc = "dial" /\ sock[idx] = "cur"
  /\ IF idx < N THEN pc' = "listen" /\ idx' = idx + 1
                ELSE pc' = "register" /\ idx' = 1
  /\ UNCHANGED <<pidFile, pluginVars, chanVars, kubeletVars>> /\ NoFault

\* The path is gone: kubelet emptied the directory since Listen.
ConnectFails ==
  pc = "dial" /\ sock[idx] # "cur" /\ Fatal /\ UNCHANGED faults

ConnectTimesOut == pc = "dial" /\ sock[idx] = "cur" /\ Fault /\ Fatal

\* registerToKubelet of one plugin answers; after the last one the loop
\* clears restart and reaches select.
Register ==
  /\ pc = "register" /\ kubelet = "up"
  /\ kreg' = [kreg EXCEPT ![idx] = "cur"]
  /\ isRigistered' = [isRigistered EXCEPT ![idx] = TRUE]
  /\ IF idx < N THEN pc' = pc /\ idx' = idx + 1
                ELSE pc' = "select" /\ idx' = 1
  /\ UNCHANGED <<pidFile, sock, server, stream, late, overslept, chanVars>>
  /\ UNCHANGED kubelet /\ NoFault

\* Dial or Register returns an error: stop everything, sleep, try again.
RegisterError ==
  /\ Goto("register", "stopRetry") /\ idx' = 1
  /\ isRigistered' = [isRigistered EXCEPT ![idx] = FALSE]
  /\ UNCHANGED <<pidFile, sock, server, stream, late, overslept, chanVars>>
  /\ UNCHANGED kubeletVars

RegisterRefused == kubelet # "up" /\ RegisterError /\ NoFault

RegisterTimesOut ==
  kubelet = "up" /\ RegisterError /\ Fault /\ UNCHANGED <<restarts, signals>>

Sleep ==
  /\ Goto("sleep", "init")
  /\ UNCHANGED <<idx, pidFile, pluginVars, chanVars, kubeletVars>> /\ NoFault

-----------------------------------------------------------------------------
(* main(): select, and stopGrpcServer                                      *)

\* Mutant: register again without restarting the servers.
KubeletSocketCreatedReregisters ==
  /\ Goto("select", "register") /\ idx' = 1
  /\ events > 0 /\ events' = events - 1
  /\ UNCHANGED <<pidFile, pluginVars, overflow, sigCh, kubeletVars>> /\ NoFault

KubeletSocketCreated ==
  /\ Goto("select", "stopRestart") /\ idx' = 1
  /\ events > 0 /\ events' = events - 1
  /\ UNCHANGED <<pidFile, pluginVars, overflow, sigCh, kubeletVars>> /\ NoFault

\* Mutant: every signal restarts, none ends the process.
SignalAlwaysRestarts ==
  /\ pc = "select" /\ idx' = 1
  /\ sigCh # "none" /\ pc' = "stopRestart" /\ sigCh' = "none"
  /\ UNCHANGED <<pidFile, pluginVars, events, overflow, kubeletVars>>
  /\ NoFault

SignalReceived ==
  /\ pc = "select" /\ idx' = 1
  /\ \/ sigCh = "HUP" /\ pc' = "stopRestart"
     \/ sigCh = "TERM" /\ pc' = "stopExit"
  /\ sigCh' = "none"
  /\ UNCHANGED <<pidFile, pluginVars, events, overflow, kubeletVars>>
  /\ NoFault

\* Mutant: a failed registration does not go back to the restart branch.
AfterStopGivesUp(p) ==
  CASE p = "stopRetry" -> "select"
    [] p = "stopRestart" -> "init"
    [] p = "stopExit" -> "exit"

AfterStop(p) ==
  CASE p = "stopRetry" -> "sleep"
    [] p = "stopRestart" -> "init"
    [] p = "stopExit" -> "exit"

\* The manager's loop goes on to the next plugin, or is done.
NextStop ==
  IF idx < N THEN pc' = pc /\ idx' = idx + 1
             ELSE pc' = AfterStop(pc) /\ idx' = 1

\* Mutant: stopChan is not closed.
StopGrpcServerKeepsChan ==
  /\ pc \in Stopping /\ server[idx] # "nil"
  /\ late' = [late EXCEPT ![idx] = @ \/ server[idx] = "spawned"]
  /\ server' = [server EXCEPT ![idx] = "nil"]
  /\ isRigistered' = [isRigistered EXCEPT ![idx] = FALSE]
  /\ sock' = [sock EXCEPT ![idx] = "none"]
  /\ NextStop
  /\ UNCHANGED <<pidFile, stream, overslept, chanVars, kubeletVars>>
  /\ NoFault

\* stopGrpcServer of one plugin: Stop(), forget the server, clear the flag,
\* close stopChan (which ends ListAndWatch), Remove the path. Stop() closes
\* the listener only if Serve has already handed it over.
StopGrpcServer ==
  /\ pc \in Stopping /\ server[idx] # "nil"
  /\ late' = [late EXCEPT ![idx] = @ \/ server[idx] = "spawned"]
  /\ server' = [server EXCEPT ![idx] = "nil"]
  /\ isRigistered' = [isRigistered EXCEPT ![idx] = FALSE]
  /\ stream' = [stream EXCEPT ![idx] = FALSE]
  /\ sock' = [sock EXCEPT ![idx] = "none"]
  /\ NextStop
  /\ UNCHANGED <<pidFile, overslept, chanVars, kubeletVars>> /\ NoFault

\* Mutant: the pid file is not removed on the way out.
ExitKeepsPidFile ==
  pc = "exit" /\ ProcessGone /\ UNCHANGED <<pidFile, kubelet>> /\ NoFault

\* return from main(): deletePidFile and watcher.Close run as defers.
Exit ==
  /\ pc = "exit" /\ ProcessGone /\ pidFile' = FALSE
  /\ UNCHANGED kubelet /\ NoFault

-----------------------------------------------------------------------------
(* The other goroutines                                                    *)

\* Serve takes over the listener and starts accepting.
Serve(d) ==
  /\ server[d] = "spawned"
  /\ server' = [server EXCEPT ![d] = "serving"]
  /\ UNCHANGED <<mainVars, sock, isRigistered, stream, late, overslept>>
  /\ UNCHANGED <<chanVars, kubeletVars>> /\ NoFault

\* Serve of a server that is already stopped closes its listener, which
\* unlinks the path, whoever has bound it by now.
LateServe(d) ==
  /\ late[d]
  /\ late' = [late EXCEPT ![d] = FALSE]
  /\ sock' = [sock EXCEPT ![d] = "none"]
  /\ overslept' = (overslept \/ sock[d] = "cur")
  /\ UNCHANGED <<mainVars, server, isRigistered, stream, chanVars>>
  /\ UNCHANGED kubeletVars /\ NoFault

\* kubelet dials the endpoint it was told of and opens ListAndWatch.
ListAndWatch(d) ==
  /\ kubelet = "up" /\ kreg[d] = "cur" /\ sock[d] = "cur"
  /\ server[d] = "serving" /\ ~stream[d]
  /\ stream' = [stream EXCEPT ![d] = TRUE]
  /\ UNCHANGED <<mainVars, sock, server, isRigistered, late, overslept>>
  /\ UNCHANGED <<chanVars, kubeletVars>> /\ NoFault

\* Every ten seconds an open handler sends the same list again.
ListAndWatchTick(d) == stream[d] /\ UNCHANGED vars

-----------------------------------------------------------------------------
(* Environment: kubelet, the fsnotify reader, signals, crashes             *)

KubeletDies ==
  /\ kubelet = "up" /\ restarts < MaxRestarts
  /\ kubelet' = "down" /\ restarts' = restarts + 1
  /\ kreg' = [d \in Dev |-> "none"]
  /\ UNCHANGED <<mainVars, pluginVars, chanVars, faults, signals>>

\* A starting kubelet empties the socket directory ...
KubeletWipes ==
  /\ kubelet = "down" /\ kubelet' = "wiped"
  /\ sock' = [d \in Dev |-> "none"]
  /\ UNCHANGED <<mainVars, server, isRigistered, stream, late, overslept>>
  /\ UNCHANGED <<chanVars, kreg>> /\ NoFault

\* Mutant: the watcher is set up after the first registration.
WatchingLate == pc = "select"

\* The directory is watched once StartWatchers has run.
Watching == pc \notin {"off"} \cup Booting

\* ... and then creates kubelet.sock.
KubeletListens ==
  /\ kubelet = "wiped" /\ kubelet' = "up"
  /\ events' = (IF Watching THEN events + 1 ELSE events) /\ overflow' = FALSE
  /\ UNCHANGED <<mainVars, pluginVars, sigCh, kreg>> /\ NoFault

\* The same with a full inotify queue: main() gets ErrEventOverflow in place
\* of the event, which it logs.
KubeletListensUnnoticed ==
  /\ kubelet = "wiped" /\ kubelet' = "up" /\ Watching /\ Fault
  /\ overflow' = TRUE
  /\ UNCHANGED <<mainVars, pluginVars, events, sigCh, kreg>>
  /\ UNCHANGED <<restarts, signals>>

\* fsnotify ignores a Create event whose file has gone again.
StaleEventIgnored ==
  /\ events > 0 /\ kubelet = "wiped"
  /\ events' = events - 1
  /\ UNCHANGED <<mainVars, pluginVars, overflow, sigCh, kubeletVars>> /\ NoFault

\* signal.Notify never blocks: a signal that finds the channel full is lost.
\* Before newOsWatcher the default action ends the process.
Signal(s) ==
  /\ pc # "off" /\ signals < MaxSignals /\ signals' = signals + 1
  /\ \/ Watching /\ sigCh' = (IF sigCh = "none" THEN s ELSE sigCh)
        /\ UNCHANGED <<mainVars, pluginVars, events, overflow, kubeletVars>>
     \/ ~Watching /\ ProcessGone /\ UNCHANGED <<pidFile, kubelet>>
  /\ UNCHANGED <<faults, restarts>>

\* SIGKILL (systemd sends it when SIGTERM is not acted upon), a panic, OOM.
Crash == pc # "off" /\ Fault /\ Fatal

-----------------------------------------------------------------------------
Main ==
  \/ Start \/ AppIsRunning \/ AppIsNotRunning \/ InitHostDevice
  \/ StartWatchers \/ CreatePidFile \/ InitPluginManager \/ Listen
  \/ Connect \/ ConnectFails \/ Register \/ RegisterRefused \/ Sleep
  \/ KubeletSocketCreated \/ SignalReceived \/ StopGrpcServer \/ Exit

Failure ==
  \/ SetupFails \/ CreatePidFileFails \/ ListenFails \/ ConnectTimesOut
  \/ RegisterTimesOut \/ Crash \/ KubeletListensUnnoticed

Environment ==
  \/ KubeletDies \/ KubeletWipes \/ KubeletListens \/ StaleEventIgnored
  \/ \E s \in {"HUP", "TERM"} : Signal(s)

Goroutines ==
  \E d \in Dev :
    Serve(d) \/ LateServe(d) \/ ListAndWatch(d) \/ ListAndWatchTick(d)

Next == Main \/ Failure \/ Environment \/ Goroutines

\* main() and every ready goroutine keep being scheduled, systemd restarts
\* the unit, and a kubelet that went down is started again. Nothing is
\* assumed of failures, signals or of when kubelet goes down.
Fairness ==
  /\ WF_vars(Main)
  /\ \A d \in Dev : WF_vars(Serve(d)) /\ WF_vars(ListAndWatch(d))
  /\ \A d \in Dev : WF_vars(LateServe(d))
  /\ WF_vars(KubeletWipes) /\ WF_vars(KubeletListens)

Spec == Init /\ [][Next]_vars /\ Fairness

-----------------------------------------------------------------------------
(* Properties                                                              *)

\* A plugin that waits in select while kubelet is up, with no Create event
\* for kubelet.sock still to be read and none lost to a full queue, is known
\* to that kubelet for every device: no restart of kubelet, at whatever point
\* of start-up or registration it fell, goes unnoticed (main.go:107-116).
RegistrationKnown ==
  pc = "select" /\ kubelet = "up" /\ events = 0 /\ ~overflow =>
    \A d \in Dev : kreg[d] = "cur"

\* In the same situation the socket files kubelet was told of are the ones
\* of the running servers, although a starting kubelet deletes them, unless
\* a Serve goroutine of an earlier server ran too late (server.go:131-153,
\* main.go:112-116).
EndpointInPlace ==
  pc = "select" /\ kubelet = "up" /\ events = 0 /\ ~overflow =>
    \A d \in Dev : (sock[d] = "cur" \/ overslept) /\ server[d] # "nil"

\* A ListAndWatch handler never outlives the server it was opened on: every
\* way of stopping a server closes its stopChan (server.go:162-174,241-248).
NoOrphanHandler ==
  \A d \in Dev : stream[d] => server[d] # "nil"

\* The pid file of a process that is gone: every later start refuses.
LockedOut == pidFile /\ pc \in {"off", "check"}

\* Signals alone never leave the pid file behind: it takes a fault, a
\* kubelet that starts at the wrong moment, or a late Serve goroutine
\* (main.go:74-78,125-128).
LockedOutOnlyByFault == LockedOut => faults + restarts > 0 \/ overslept

\* Everything is as it should be: registered, reachable, watched.
Settled ==
  /\ pc = "select" /\ events = 0 /\ kubelet = "up"
  /\ \A d \in Dev : kreg[d] = "cur" /\ sock[d] = "cur" /\ stream[d]

\* Once faults, signals and kubelet restarts are over, the retry loop and
\* the event loop bring the plugin to a settled state for good, unless it is
\* locked out, lost a socket to a late goroutine or the event to a full
\* queue (main.go:81-131).
EventuallySettled == <>[](Settled \/ LockedOut \/ overslept \/ overflow)

\* A termination signal in the channel ends the process, however many
\* registration attempts come first (main.go:100-101,118-129).
TermHonoured == sigCh = "TERM" ~> pc = "off"

\* main() and the watcher agree: what this module takes the events to be is
\* what FsWatcher is shown to deliver (main.go:63-68,107-116).
Feed ==
  INSTANCE EventFeed
    WITH file <- kubelet # "wiped",
         watched <- Watching,
         idle <- pc = "select"

FollowsFeed == Feed!Spec

\* What this module takes the gRPC server of each device to be is what
\* GrpcServer is shown to be; in particular a plugin is never given a second
\* server while the first one has not been stopped (server.go:130-174).
Server(d) ==
  INSTANCE Endpoint
    WITH sock <- sock[d], server <- server[d], stream <- stream[d],
         late <- late[d]

FollowsEndpoint ==
  /\ \A d \in Dev : Server(d)!Init
  /\ [][\A d \in Dev : [Server(d)!Next]_(Server(d)!vars)]_vars

\* What k8s-dev-plugin.service:8 (Restart=always) asks for: the service
\* always comes back to serving.
AlwaysComesBack == []<>(pc = "select")
=============================================================================
