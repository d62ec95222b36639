# A TLA+ model of the OpenVMI cloud platform's host services

This directory holds TLA+ modules that model the services this repository adds
to Kubernetes to run Android VMs as pods, the TLC configurations that check them
on small instances, and TLAPS proofs of all their invariants and refinements for
every value of the constants. `PROJECT.json` lists the runs, the
source lines each definition stands for, the hazards and the theorems.

To check: `tlc -config X.cfg <module>` for a run, `tlapm <M>Proofs.tla` for the
proofs.

## 1. The system

What the platform adds to Kubernetes is in three places: two services and a
script. The rest of the tree is vendored third-party Go code; of that, the two
libraries whose goroutines the device plugin depends on are modelled as well.

| Part | Source | State it keeps | Operations |
|---|---|---|---|
| Device plugin process | `services/k8s-dev-plugin-service/{main,server,watcher}.go` | pid file, one gRPC server, socket, `isRigistered` flag and `stopChan` per device, fsnotify and signal channels | start, listen, self-dial, register, retry, restart on a new `kubelet.sock` or SIGHUP, stop, `ListAndWatch`, `Allocate` |
| File system watcher | `watcher.go`, vendored `fsnotify/inotify*.go` | inotify, epoll and pipe descriptors, `done` and `doneResp`, the reader's buffer | `NewWatcher`, `Add`, `readEvents`, `Close` |
| gRPC server | `server.go`, vendored `grpc/server.go`, `grpc/transport/http2_server.go` | `s.lis`, `s.conns`, per connection a transport with `state`, `writableChan`, controller and streams | `Serve`, `Stop`, connection set-up, stream handling, close |
| Host devices | `k8s-dev-init.sh`, `newDevicePlugin` and `Allocate` | loaded kernel modules, binder nodes, device IDs | load, reload, announce, allocate |
| Environment daemon | `services/android-env-service/android-env/android-env-service.sh` | pid file, `init.queue`, `uninit.queue`, `delete.queue` | drain the three queues, in that order of preference |
| Environment start/stop | `.../android-env/android-env.sh` | Xvfb, session manager, x11vnc and socket files of each VM | `start`, `stop` |
| Init container, preStop hook | `.../android-env/docker/*.sh` | `init_cfg`, `init_status` of each VM | write the configuration, queue, poll for the answer; queue the uninit |
| VM management script | `tools/android-vm-manage.sh` | the count file in `/tmp`, StatefulSets, deletion Jobs | create, delete, startup, shutdown, reboot of a range of VMs |
| Installers, unit files, seccomp profile | `install.sh`, `Makefile`, `*.service`, `android.json` | none while the system runs | copy, enable |

How they interact. The device plugin talks gRPC to kubelet over sockets in
kubelet's directory, which a starting kubelet empties; it learns of the restart
from an fsnotify event. kubelet gives a pod one of the announced binder IDs, and
the index travels from `Allocate` through `init_cfg` to the session manager. The
management script talks to the API server; the pods it makes run the init
container and the preStop hook, and its deletions run a Job: all three append a
VM's name to a queue file on the host. The daemon works through these files, runs
`android-env.sh` for each line, answers an init by writing `init_status`, and then
deletes the line with `sed -i`. There are no locks between the scripts: the files
are the interface.

What is hard here:

- kubelet restarts at any point of the plugin's start-up, registration or retry;
- the event of a restart is looked at late, or is lost to a full inotify queue;
- a process dies without its clean-up and its pid file blocks the next one;
- Serve goroutines that are scheduled late, even after their server was stopped,
  and connections that are set up while `Stop` closes what it finds;
- `Close` and `Stop` wait for goroutines that may be blocked on channels;
- a binder node is given to a new VM while its former user's session manager runs;
- `head`, the work, and `sed` are separate commands while others append to the
  same file, and `sed -i` replaces the file by an earlier copy of it;
- requests of different kinds on one VM overtake one another;
- the daemon restarts in the middle of a line and takes it a second time;
- a start that fails half-way;
- concurrent invocations of the script share one count file, and names are
  matched with an unanchored `grep`.

## 2. Modules

| Module | Models |
|---|---|
| `DevPlugin`, `DevPluginProofs` | the plugin process against kubelet, systemd, signals and crashes; its theorems |
| `EventFeed` | abstract: what `main()` may expect of its watcher |
| `FsWatcher`, `FsWatcherProofs` | the fsnotify watcher, its reader goroutine, and the kernel's queue; its theorems |
| `Endpoint` | abstract: what the plugin may take the gRPC server of one device to be |
| `GrpcServer`, `GrpcServerProofs` | that server, with all its goroutines; its theorems |
| `HostDevice`, `HostDeviceProofs` | kernel modules, binder nodes and IDs, and who uses them; its theorems |
| `RequestQueue` | abstract: what a queue file promises to those that append to it |
| `EnvService`, `EnvServiceProofs`, `EnvOrderProofs` | the daemon, `android-env.sh`, init containers, preStop hooks, deletion Jobs, host reboots; theorems about the queue files, and about what orderly VMs find on the host |
| `VmManage`, `VmManageProofs` | invocations of the script and their background workers against the cluster; its theorems |
| `MC*` | the instances TLC checks |

Operators whose comment begins with "Mutant:" are wrong variants of the
definition that follows them. They are not used by any specification; each shows
that a property notices the mistake when it is put in the definition's place.

**How they compose.** `DevPlugin` meets its two libraries only at an interface, and
that interface is a specification of its own. Seen from `DevPlugin`, the event
queue behaves as `EventFeed` (`FollowsFeed`) and the server of each device as
`Endpoint` (`FollowsEndpoint`): the model of the plugin assumes nothing that these
two do not allow. Seen from the libraries, `FsWatcher` implements `EventFeed`
(`FeedsEvents`) and `GrpcServer` implements `Endpoint` (`ActsAsEndpoint`). So the
one-step `Serve` and `LateServe` of `DevPlugin`, and its counter of unread events,
are justified by what the models of the vendored code do. All four are proved, for
every number of devices, size of the queue and set of connections. In the same way `EnvService`
implements `RequestQueue` (`KeepsRequests`); `HostDevice`, where a request is pending
until the daemon has handled it, assumes no more than that of the daemon, lost lines
aside.

### DevPlugin

`pc` is the place of `main()`, one value per call that another process can
observe; `idx` is the loop variable of the manager's loops. The manager is
rebuilt in every round of the main loop, so sockets and registrations are only
told apart as those of the manager in use (`"cur"`) and leftovers (`"old"`).
`sock[d]` is whose file is at the path, `server[d]` the gRPC server (`"spawned"`
until its Serve goroutine runs), `late[d]` a Serve goroutine whose server was
stopped before it ran: in the vendored gRPC `Serve` then closes the listener it
was given, and Go's unix listener unlinks its path, whoever bound it since.
`overslept` remembers that this hit a socket in use. `events` counts unread
Create events of `kubelet.sock`; `overflow` remembers that the last creation found
the inotify queue full (`KubeletListensUnnoticed`), which `main()` only logs.
`sigCh` is the channel of capacity one, on which a second signal is dropped.
SIGINT, SIGQUIT and SIGTERM are handled alike and are one value.

`log.Fatal` is `Fatal`: no deferred call runs, so the pid file stays. Connecting
to the own socket succeeds when the path is there, whether or not Serve runs,
because the kernel completes the connection from the backlog.

kubelet, fsnotify, gRPC and systemd are external here. A starting kubelet empties
the directory (`KubeletWipes`), then creates its socket (`KubeletListens`);
registrations die with it.

### FsWatcher

One watch, one reader goroutine (`rpc`), and `main()` (`mpc`) as the reader of its
channels and the caller of `Close`. `kq` is the kernel's bounded queue of raw
events, which ends in an overflow record when it is full; `buf` is what one `read`
returned. `IgnoreLinux` is the vendored function of that name: it looks whether
the file is there when the event is handled, not when it happened. `fds` and
`pipe` are the poller, which `Close` wakes by a byte that the reader may never
see because it found `done` closed first. The channels are unbuffered, so a send
and its receipt are one step, or a `GiveUp` once `done` is closed. `unheard`,
`dropped` and `told` are history: a creation `main()` has not heard of, whether
the last one found the queue full, and whether `main()` got `ErrEventOverflow`.

### GrpcServer

One server from `net.Listen` to the moment nothing is left of it. `mpc` is `main()`
in `startGrpcServer` and `stopGrpcServer`, `spc` the Serve goroutine, `cpc[c]` the
goroutine of `handleRawConn` and `serveStreams`, `ctl[c]` the transport's
controller, `hpc[c]` the `ListAndWatch` handler. The locks of the code make each
critical section one action. `token[c]` is `writableChan`, a channel of capacity
one that holds the right to write; whoever writes takes it and must give it back,
on failure too. A connection carries one stream at most: `Allocate` returns at once.
Of the frames those remain that open or end something, and one the controller has
to answer.

### HostDevice

`plugin` is the place in `k8s-dev-init.sh` up to `"ready"`, when kubelet is served.
`nodes` is the set of binder nodes. `insmod` makes N+1 of them and the next start
compares their number with N, so it always unloads and reloads; `rmmod` fails while
a session manager or an Android container has a node open, and may fail while a
container is being stopped. For each VM, `held` is the
ID kubelet gave, `bound` the node in the container, `idx` what is in `init_cfg`, `sm`
the index the session manager runs on. The daemon takes requests of different VMs in
any order here. `crossed` has the meaning it has in `EnvService`. kubelet's choice of
a free ID and the module's use count are external.

### EnvService

`spc` and `q` are the daemon's place and which of the three loops it is in; `cur`
is `ANDROID_NAME`. A round is: `TakeHead`, the work (`RunStart*` and
`WriteStatus`, perhaps followed by `RunStop`; or `RunStop`; or `RunDelete` and
`DeleteData`), `SedRead`, `SedRename`. Between any two of them others append, the
daemon may be killed or the host may go down. `android-env.sh` is the set of its
outcomes: which processes run, whether the sockets are there and what it returned
after each command that can fail. `lost` remembers lines that fell between
`SedRead` and `SedRename`, and so were overwritten.

bash runs a trap between two commands. A SIGTERM therefore never falls between
`SedRead` and `SedRename`. The unit has `KillMode=process`, so a SIGKILL of the
daemon does not stop the command it is running.

Users are not restrained: pods are created, stopped and deleted whenever Kubernetes
allows it, whatever the queues hold. A deletion Job normally waits for the pod to be
gone; it also starts when the `kubectl get pod` of that wait failed (`DeleteJob`).
`crossed` is a history variable that collects
the VMs for which something was asked while an earlier request for the same VM was
still pending, which were deleted with a pod still there, whose pod vanished during
its init, or whose request was carried out twice (`Term` after `start` has run and
before its line is removed). `Orderly(v)` says that this did not happen to `v` and that its uninit was not
overwritten. The invariants about the host hold for every orderly VM, whatever
happened to the others; the violation runs show what VMs whose requests crossed meet.

### VmManage

Each invocation has a script part (`main`) and a background function for each
VM (`worker`). `lines` is the length of the count file. `fresh` remembers that a
VM was created since its deletion was last queued, `shared` that two invocations
were under way together. The wait for the pods to be gone ends when `grep` finds no
line (`PodsGone`), or when `kubectl get pod` fails and prints none (`GetPodFails`);
the script does not tell the two apart, and `blind` remembers the second. In the waits
for `Running` a failing call only means one more round. `Matches` is the unanchored `grep`: `<node>-10` also finds
`<node>-100-0`, and any other index whose digits begin with those of 10 (`Prefixes`). The pod of a deletion Job has the VM's name too, and is found as
well; a Job may be left over from the start, or because `kubectl delete job`, which
is not checked, failed. `MaxWorkers` bounds the workers of all invocations together.
StatefulSet and Job controllers are external. Validation of the command line rejects
a bad call before anything is changed and is left out, as is `create_namespace`.

## 3. Runs

| Run | Bounds | What it shows |
|---|---|---|
| `DevPlugin` | 2 devices, 1 fault, 2 kubelet restarts, 1 signal | `RegistrationKnown`, `EndpointInPlace`, `NoOrphanHandler`, `LockedOutOnlyByFault`; `EventuallySettled`, `TermHonoured`; `FollowsFeed`, `FollowsEndpoint` |
| `FsWatcher` | 1 file beside `kubelet.sock`, a kernel queue and a buffer of 2 events, 5 operations on the directory, 1 failing call | `NoSilentLoss`, `ClosedClean`; `CloseReturns`, `Delivered`; `FeedsEvents` |
| `GrpcServer` | the plugin's own connection and one of kubelet, 1 fault | `StopReachesAll`, `DoneIsClean`, `OneWriter`; `EverythingEnds`; `ActsAsEndpoint` |
| `HostDevice` | 2 VMs, N = 2, 3 pods, 1 stop of the plugin, 1 failure, 1 host reboot | `AnnouncedHaveNodes`, `SameNode`, `SharedOnlyWhilePending`; `ComesBack` |
| `EnvFaults` | 2 VMs (symmetric), 2 pods, 1 each of deletion, failing command, SIGTERM, and SIGKILL or host reboot | `HeadIsCurrent`, `WaitingIsQueued`, `RunningUsable`, `NoLeak`, `DeletedIsGone`; `KeepsRequests` |
| `EnvLive` | 2 VMs, 3 pods, 1 SIGTERM | `InitAnswered`, `ShutdownCompletes` |
| `VmManage` | VMs 9, 10 and 100, 2 invocations at any time, 2 workers in all, 1 leftover Job or failing call of any kind | `EndMeansDone`, `OkMeansInPlace`; `Ends` |

Each of the runs but `EnvLive` also checks its module's `TypeOK`.

Why these bounds. Two kubelet restarts let the second hit the recovery from the
first; two devices are the fewest for which a restart can fall between two
registrations. A queue of two overflows, and a buffer of two lets one `read` leave
events behind, within five operations: create, delete and create `kubelet.sock`
with two others between. One connection of kubelet beside the plugin's own is the
fewest for which one is served while the other is being set up. Two VMs, two
binder nodes and three pods let a node be handed from one VM to another while both
are under way. Two VMs are also the fewest for which one request waits behind
another. The VMs 9 and 10 are a range and 10 is the beginning of 100; two workers
are two invocations of one VM each, or one of two. Symmetry is used only in
`EnvFaults`, where the only temporal property is a refinement without fairness, in
which the VMs are interchangeable too. The invariants and the refinements do not
rest on the bounds: they are proved. The liveness properties do.

Deadlock is checked for `EnvService` and `VmManage`. The other systems really may
stop: a plugin whose socket was unlinked, or whose event was lost, waits in `select`
for ever; a watcher is closed, a server is over when it is stopped; and once the
bounds of `HostDevice` are used up nobody has anything left to ask for.

Five runs show where the program does not do what its own text says; each checks
one property and TLC finds it violated. Their bounds are the smallest for which the
case exists.

| Run | Property | What happens |
|---|---|---|
| `DevPluginLockout` | `AlwaysComesBack` | a crash after `createPidFile` leaves the pid file; `Restart=always` then restarts a process that refuses to run |
| `HostRestart` | `AlwaysBack` | N+1 nodes are never N, so a restarted plugin runs `rmmod`, which fails as long as a VM runs |
| `EnvReboot` | `ShutdownSparesNewVm` | inits go before uninits, so the old pod's uninit takes down the environment of the new, running pod |
| `EnvDeleteLeak` | `UninitTakesDown` | a deletion overtakes the uninit that preStop queued before it; the uninit no longer finds `init_cfg`, and the processes stay |
| `EnvInitFailed` | `FailedInitExits` | `init_failed` is called without its argument and does nothing |

Further observations made while modelling, for which there is no run:

- A daemon that is restarted between `android-env.sh start` and the rewrite of the
  queue runs `start` again: it removes the sockets, finds the session manager running
  (`android-env.sh:164`) and reports "init ok". `RunningUsable` excludes such VMs through
  `crossed`.
- `api.proto:22` of the device plugin API says a plugin "is expected to terminate
  upon registration failure"; `main.go:97-101` retries without limit.
- `server.go:145` says the self-dial waits for the server to start; it may return
  before Serve has run.
- "deleted ok." (`android-vm-manage.sh:320`) is printed when the deletion is
  queued, and the daemon takes inits first; a VM of that name created meanwhile loses its
  configuration and data, running or not (`android-env-service.sh:110`).
- "data ok" (`android-env-service.sh:54`) is printed even if every attempt to remove
  the data failed; `DeletedIsGone` holds without such failures only.
- A failed `sysctl` (`android-env-service.sh:70-85`) leaves the daemon's pid file
  behind, with the effect of `DevPluginLockout` (`SetupFails`, `StartRefused`).
- A failing `kubectl get pod` is taken for a pod that is gone: the errors are discarded and
  `grep` finds nothing (`android-vm-manage.sh:307,358,381`). "shutdown ok." is then printed
  while the pod runs, a reboot scales up again before the old pod is gone, and a deletion
  applies its Job while the pod is there. `OkMeansInPlace` says what is left: the
  StatefulSet is what was asked for.
- VM 10 is reported created because VM 100 runs, since the `grep` is not anchored
  (`android-vm-manage.sh:231`), and a deletion of 10 because the Job of 100 is complete. A
  shutdown is not reported too early: its wait ends later, never sooner.
- All invocations use one count file, which each empties (`android-vm-manage.sh:463`): of
  two at a time one can end on a line of the other while its own VM is not done, or miss
  its total. `EndMeansDone` and `Ends` are about an invocation that is alone; the VMs
  themselves are not disturbed (`OkMeansInPlace`).
- `kubectl delete job` is not checked; a Job that stays makes every later wait for
  that VM's pods endless. The wait is also what keeps the script honest: with a
  `grep` that ignored the Job's pod, applying a Job that is still there would change
  nothing, and a deletion would be reported that was never queued. A failing
  `kubectl get pod` has that effect.
- A second signal on the channel of capacity one is dropped (`watcher.go:28`), a SIGTERM
  behind an unread SIGHUP too; `TermHonoured` speaks of a SIGTERM that is in the channel.
- A line appended to a queue file between the read and the rename of `sed -i` is lost
  (`android-env-service.sh:95,104,112`), and an init container whose line it was waits for
  ever. That this is the only way to lose a line is what `WaitingIsQueued` and
  `KeepsRequests` say.
- An answer to an earlier pod's line, written after the new pod cleared the status file,
  lets the new pod start before its own init (`android-cfg-init.sh:42`); such VMs count
  as crossed.
- An overflow of the inotify queue is only logged (`main.go:108-110`): if it took the
  Create event of `kubelet.sock`, the plugin stays unregistered until the next one.

## 4. Fairness

`DevPlugin`: weak fairness of `main()` and of each goroutine (the Go scheduler),
of a start after an end (`Restart=always`, `StartLimitInterval=0`), and of a
kubelet that is down coming up again. Nothing is assumed of faults, signals and
kubelet's going down, other than that there are finitely many in an instance.
`FsWatcher`: weak fairness of the reader goroutine and of `main()`, which returns to
`select` when it has dealt with an event; nothing makes files come and go.
`GrpcServer`: weak fairness of each goroutine, and strong fairness of the handler's
seeing `stopChan`: its `select` is between a ticker and the closed channel, both can be
ready each time, and Go chooses at random. Weak fairness would not be enough because
the handler is not always in `select`.
`HostDevice`: weak fairness of the plugin and the script it runs, of the daemon, and of
the pods' own steps; none of stops, failures, admissions and deletions.
`EnvService`: weak fairness of the daemon (systemd restarts it in the same way), of
each init container's loop, and of a pod under deletion going away. No fairness of
users, failures or crashes. `VmManage`: weak fairness of the script's own steps and
of its workers, and of the controllers reaching what was asked of them; nobody has
to run the script, and no call has to fail in order that a wait ends.

## 5. Proofs

`DevPluginProofs` proves, for every number of devices, faults, restarts and
signals: `TypeCorrect`, `RegistrationIsKnown`, `HandlersFollowServers`,
`EndpointStaysInPlace`, `LockoutNeedsFault`, `FeedIsFollowed`, `EndpointIsFollowed`.
Assumptions: `N` is a positive natural number, the bounds are natural numbers.
`RegistrationKnown` is not inductive: it speaks of `select` only, while a restart may
fall anywhere before. `IInv` says, for each place of `main()`, which prefix of the
devices has a server and that the rest have none (`ServersFollowLoop`), and that each
device already registered in this round is still known to kubelet, or kubelet is not
up, or an event is unread or was lost (`RegistrationsFollowLoop`); the same for the
socket files (`SocketsFollowLoop`). `LockoutNeedsFault` adds a second invariant that
ties the pid file to the place of `main()`. The two refinements go step by step:
`FeedIsFollowed` needs that nothing is unread before the watcher is there
(`NothingUnwatched`), `EndpointIsFollowed` needs `ServersFollowLoop`, since a second
`Bind` without a `Stop` is what `Endpoint` forbids.

`GrpcServerProofs` proves, for every set of connections and any number of faults:
`TypeCorrect`, `StopReachesEveryConnection`, `DoneStaysClean`, `OneWriterAtATime`,
`ImplementsEndpoint`. Assumptions: the own connection is not one of kubelet's, the bound
is a natural number. The invariant relates the Serve goroutine and the maps to how far
`main()` has come (`ServeFollowsMain`), each connection's descriptor, transport and
membership in `s.conns` to where its goroutine stands (`ConnFollows`), and its stream to
its transport (`StreamFollows`). `StopReachesAll` follows since a connection that is past
`addConn` was in the map when `Stop` took it, and one that is not will find it `nil`.

`EnvServiceProofs` proves, for every set of VMs and all bounds: `TypeCorrect`,
`HeadStaysCurrent`, `WaitingStaysQueued`, `KeepsRequestsHolds`. `WaitingIsQueued`
is not inductive either: deleting the first line would lose the last line of a
waiting container. What saves it is that the first line has been answered by then,
which is a fact about positions: `WaitingHasLine` says that a container whose
status is still empty has a line that is not the first once the first was answered.
That the rewrite by `sed` keeps this needs `CopyFollowsHead` (what sed read is what
follows the first line), and that the answer reaches the file needs `StatusInDir`
(a status file exists only where `init_cfg` does). The lemma `AppendKeepsHead`
carries all appends, whoever makes them. `KeepsRequestsHolds` uses the same invariant:
`HeadIsCurrent` makes the line that goes the one that was handled, `CopyFollowsHead`
makes the new file a stretch of the old one (`SedCompletes`).

`EnvOrderProofs` goes on from that invariant and proves, under the same assumptions,
`RunningStaysUsable`, `NothingLeaks` and `DeletedStaysGone`: what the host holds for a
VM whose requests never crossed. None of the three is inductive, because what is on the
host is explained by what is still queued. `OrderInv` says, for each uncrossed VM, that
all three files together hold one line for it at most (`OneLine`), which pods such a line
goes with and how far the answer has come (`Straight`), and what its files are
(`FilesFollow`: only the first line of `delete.queue` has been worked on, so the others
still have an `init_cfg`). For an orderly VM `HostFollows` then says what runs: nothing
without a pod and a pending uninit; nothing before an init was answered, unless the
daemon is in the middle of it, or was killed there and is locked out by its pid file; and
a usable environment from the answer on. The killed daemon is why `OrderInv` mentions
`LockedOut`: after a SIGTERM or a reboot, unlike after a SIGKILL, an init may be carried
out a second time, and then the VM counts as crossed. The proof has one lemma for each kind of step,
and `Untouched` for every VM that a step is not about. `OrderInv` was first checked by
TLC with the bounds of `EnvFaults`, and for one VM with three pods and two of everything
else.

`FsWatcherProofs` proves, for every size of the kernel's queue and of the reader's buffer,
every set of other files and any number of operations and faults: `TypeCorrect`,
`NothingLostInSilence`, `CloseLeavesNothing` and `WatcherFeedsEvents`. Assumptions: both
sizes are at least one, the bounds are natural numbers. The invariant says what `main()`'s
place tells of the reader (`ReaderFollowsMain`), how far the reader is with its own end
(`EndFollowsDone`), what it has in its hands (`BufferFollowsReader`), and that a queue over
its limit holds an overflow record (`QueueFollowsWatch`). With the last, an event that
finds the queue full leaves a trace, and `NoSilentLoss` is inductive. The refinement maps
the number of unread creations; its lemmas (`CreationsAppend`, `CreationsTail`,
`ConcatEnds`, `CreationsQueued`) say what each operation on buffer and queue does to that
number, as facts about cardinalities. `ReadEvents` moves events from one to the other and
is a stutter by `ReadSplits`.

`HostDeviceProofs` proves, for every number of nodes, every set of VMs and all bounds:
`TypeCorrect`, `AnnouncedHaveTheirNodes`, `RunningOnOneNode`, `SharedNodeMeansPending`.
Assumptions: `N` is a positive natural number, the bounds are natural numbers. The script
reaches `"ready"` only past `insmod` with all nodes (`NodesFollowScript`); that it never
leaves a loaded module alone rests on the lemma `OneNodeMore`: 0..N has N+1 elements.
kubelet's IDs are held once and by pods only (`IdsFollowPods`); nodes in use are there
(`UsedAreThere`), since `rmmod` fails while one is open; and `OneRequest` says, for an
uncrossed VM, which request is pending and what runs at each stage of its pod, from which
both properties about sharing follow.

`VmManageProofs` proves, for every finite set of indices and any number of invocations,
workers and failures: `TypeCorrect`, `EndsWhenDone`, `ReportedIsInPlace`. Assumptions: the
indices are positive natural numbers, finitely many; the bounds are natural numbers. That
an invocation ends only when it is done is a matter of counting: `ANDROID_TOTAL_NUM` is
the number of VMs that have a worker or will be looked at (`Counted`), the lines of the
file are the number of workers that are through (`LinesAreItsOwn`), and a subset as large
as the whole is the whole (`SubsetsCount`). That the lines are its own needs
`AloneMeansAlone`. `ReportedIsInPlace` needs, for a worker that has its VM to itself, what
it has achieved at each stage (`WorkersGetOn`): the StatefulSet is what it asked for, and
the pods are what it saw if that was `Reliable`: its `kubectl get pod` did not fail
(`blind`), and no longer name can have been found in the place of its own. It also needs
that a Job that has not run yet has a worker waiting for it (`JobsHaveWorkers`), since
`grep Running` also finds a Job's pod.

Only model-checked: everything about liveness, since the prover handles neither fairness
nor ENABLED: `EventuallySettled`, `TermHonoured`, `CloseReturns`, `Delivered`,
`EverythingEnds`, `ComesBack`, `InitAnswered`, `ShutdownCompletes` and `Ends`. The abstract
specifications state no fairness, so their refinements are safety properties and are
proved in full. What `Prefixes` computes, being recursive, is not proved about either; the
theorems of `VmManageProofs` need only that a name matches itself.

## 6. Not modelled

- The gRPC client. `DevPlugin` has its outcomes; each connection is used once and closed.
- Of the gRPC server: flow control beyond "Send has quota or not", pings, draining, and
  options the plugin leaves at their defaults. Of fsnotify: `Remove`, which the plugin does
  not call, and the removal of the watched directory.
- Two plugin or daemon processes at once; systemd starts one.
- An `Allocate` request that names no container or no device, which kubelet does not send.
- The session manager, Xvfb and x11vnc themselves; a VM's processes only end when
  they are stopped or the host goes down.
- Kubernetes beyond what the scripts see of it; pods that fail on their own.
- Installers and the seccomp profile.
- The rest of the vendored tree: Unicode and IDNA tables, generated protobuf code and its
  runtime, HTTP/2 framing, logging. Nearly all lines of Go in this repository are of that
  kind. They hold no state that the two services share with anybody, and the platform's own
  logic is in three Go files and a handful of shell scripts, all of which are modelled.

## 7. Plan

Done: all modules of section 2, their runs, and the proofs of section 5, which cover every
invariant and every refinement that a run checks. What is left:

1. The safety half of the liveness properties: for `CloseReturns` and `EverythingEnds`, that
   a goroutine that is blocked always has a counterpart that is not, as an invariant that
   can be proved.
2. `EnvService` and `HostDevice` describe the same pods from two sides; a statement that
   every step of the former, seen through the requests of the latter, is one of its steps.
