--------------------------- MODULE DevPluginProofs ---------------------------
(***************************************************************************)
(* The safety invariants of DevPlugin, for every number of devices and     *)
(* every bound. The inductive invariant says how far each loop of the      *)
(* manager over its plugins has come.                                      *)
(***************************************************************************)
EXTENDS DevPlugin, TLAPS

\* No server before startGrpcServer and after stopGrpcServer.
Serverless == {"off", "pid", "init", "sleep", "exit"} \cup Booting

\* How far starting and stopping the servers has come.
ServersFollowLoop ==
  /\ pc \in Serverless => \A d \in Dev : server[d] = "nil"
  /\ pc = "listen" =>
       \A d \in Dev : IF d < idx THEN server[d] # "nil" ELSE server[d] = "nil"
  /\ pc = "dial" =>
       \A d \in Dev : IF d <= idx THEN server[d] # "nil" ELSE server[d] = "nil"
  /\ pc \in {"register", "select"} => \A d \in Dev : server[d] # "nil"
  /\ pc \in Stopping =>
       \A d \in Dev : IF d < idx THEN server[d] = "nil" ELSE server[d] # "nil"

\* A registration is lost only together with a Create event to be read.
Known(d) == kubelet = "up" /\ events = 0 /\ ~overflow => kreg[d] = "cur"

RegistrationsFollowLoop ==
  /\ pc = "register" => \A d \in Dev : d < idx => Known(d)
  /\ pc = "select" => \A d \in Dev : Known(d)

\* A socket file is lost only to a kubelet whose Create event comes.
Placed(d) ==
  sock[d] = "cur" \/ kubelet = "wiped" \/ events > 0 \/ overflow

SocketsFollowLoop ==
  ~overslept =>
    /\ pc \in {"listen", "dial"} => \A d \in Dev : d < idx => Placed(d)
    /\ pc \in {"register", "select"} => \A d \in Dev : Placed(d)

IInv ==
  /\ TypeOK
  /\ NoOrphanHandler
  /\ ServersFollowLoop
  /\ RegistrationsFollowLoop
  /\ SocketsFollowLoop

-----------------------------------------------------------------------------
(* Preservation                                                            *)

\* The initial state of the process satisfies the inductive invariant.
LEMMA InitIInv == Init => IInv
<1> SUFFICES ASSUME Init PROVE IInv
  OBVIOUS
<1> USE NAssumption, BoundsAssumption DEF Init, Dev
<1>1. pidFile \in BOOLEAN /\ overslept \in BOOLEAN /\ overflow \in BOOLEAN
  BY Zenon
<1>2. TypeOK
  BY <1>1 DEF TypeOK, PC, Owner, Booting, Stopping
<1>3. QED
  BY <1>2 DEF IInv, NoOrphanHandler, ServersFollowLoop,
     RegistrationsFollowLoop, SocketsFollowLoop, Stopping

\* A process that is gone leaves the invariant true, whatever main() was
\* doing: this covers log.Fatal, crashes, signals and the clean exit.
LEMMA ProcessGoneIInv ==
  ASSUME IInv, ProcessGone, pidFile' \in BOOLEAN, UNCHANGED kubelet,
         faults' \in Nat, restarts' \in Nat, signals' \in Nat
  PROVE  IInv'
<1> USE NAssumption DEF IInv, ProcessGone, Dev
<1>0. overflow' \in BOOLEAN
  BY Zenon
<1>1. TypeOK'
  BY <1>0 DEF TypeOK, PC, Owner, Outdate, Booting, Stopping
<1>2. QED
  BY <1>1 DEF NoOrphanHandler, ServersFollowLoop,
     RegistrationsFollowLoop, SocketsFollowLoop, Stopping

\* Every step of main() preserves the invariant.
LEMMA MainIInv == IInv /\ Main => IInv'
<1> SUFFICES ASSUME IInv, Main PROVE IInv'
  OBVIOUS
<1> USE NAssumption, BoundsAssumption DEF Dev, PC, Owner, Booting, Stopping,
     Serverless, Goto, NoFault, pluginVars, chanVars, kubeletVars, boundVars
<1>a. TypeOK /\ NoOrphanHandler /\ ServersFollowLoop
      /\ RegistrationsFollowLoop /\ SocketsFollowLoop
  BY DEF IInv
<1>1. CASE Start
  BY <1>a, <1>1 DEF Start, IInv, TypeOK, NoOrphanHandler,
     ServersFollowLoop, RegistrationsFollowLoop, SocketsFollowLoop
<1>2. CASE AppIsRunning
  BY <1>a, <1>2, ProcessGoneIInv DEF AppIsRunning, Fatal, TypeOK
<1>3. CASE AppIsNotRunning
  BY <1>a, <1>3 DEF AppIsNotRunning, IInv, TypeOK, NoOrphanHandler, ServersFollowLoop, RegistrationsFollowLoop,
     SocketsFollowLoop
<1>4. CASE InitHostDevice
  BY <1>a, <1>4 DEF InitHostDevice, IInv, TypeOK, NoOrphanHandler, ServersFollowLoop, RegistrationsFollowLoop,
     SocketsFollowLoop
<1>5. CASE StartWatchers
  BY <1>a, <1>5 DEF StartWatchers, IInv, TypeOK, NoOrphanHandler, ServersFollowLoop, RegistrationsFollowLoop,
     SocketsFollowLoop
<1>6. CASE CreatePidFile
  BY <1>a, <1>6 DEF CreatePidFile, IInv, TypeOK, NoOrphanHandler, ServersFollowLoop, RegistrationsFollowLoop,
     SocketsFollowLoop
<1>7. CASE InitPluginManager
  <2>1. TypeOK'
    BY <1>a, <1>7 DEF InitPluginManager, TypeOK, Outdate
  <2>2. NoOrphanHandler' /\ ServersFollowLoop'
    BY <1>a, <1>7 DEF InitPluginManager, TypeOK, NoOrphanHandler, ServersFollowLoop
  <2>3. RegistrationsFollowLoop' /\ SocketsFollowLoop'
    BY <1>7 DEF InitPluginManager, RegistrationsFollowLoop, SocketsFollowLoop
  <2>4. QED
    BY <2>1, <2>2, <2>3 DEF IInv
<1>8. CASE Listen
  <2>1. TypeOK'
    BY <1>a, <1>8 DEF Listen, TypeOK
  <2>2. NoOrphanHandler' /\ ServersFollowLoop'
    BY <1>a, <1>8 DEF Listen, TypeOK, NoOrphanHandler, ServersFollowLoop
  <2>3. RegistrationsFollowLoop' /\ SocketsFollowLoop'
    BY <1>a, <1>8 DEF Listen, TypeOK, RegistrationsFollowLoop,
       SocketsFollowLoop, Placed
  <2>4. QED
    BY <2>1, <2>2, <2>3 DEF IInv
<1>9. CASE Connect
  <2>1. TypeOK'
    BY <1>a, <1>9 DEF Connect, TypeOK
  <2>2. NoOrphanHandler' /\ ServersFollowLoop'
    BY <1>a, <1>9 DEF Connect, TypeOK, NoOrphanHandler, ServersFollowLoop
  <2>3. RegistrationsFollowLoop' /\ SocketsFollowLoop'
    BY <1>a, <1>9 DEF Connect, TypeOK, RegistrationsFollowLoop,
       SocketsFollowLoop, Placed
  <2>4. QED
    BY <2>1, <2>2, <2>3 DEF IInv
<1>10. CASE ConnectFails
  BY <1>a, <1>10, ProcessGoneIInv DEF ConnectFails, Fatal, TypeOK
<1>11. CASE Register
  <2>1. TypeOK'
    BY <1>a, <1>11 DEF Register, TypeOK
  <2>2. NoOrphanHandler' /\ ServersFollowLoop'
    BY <1>a, <1>11 DEF Register, TypeOK, NoOrphanHandler, ServersFollowLoop
  <2>3. RegistrationsFollowLoop'
    BY <1>a, <1>11 DEF Register, TypeOK, RegistrationsFollowLoop, Known
  <2>4. SocketsFollowLoop'
    BY <1>a, <1>11 DEF Register, TypeOK, SocketsFollowLoop, Placed
  <2>5. QED
    BY <2>1, <2>2, <2>3, <2>4 DEF IInv
<1>12. CASE RegisterRefused
  BY <1>a, <1>12 DEF RegisterRefused, RegisterError, IInv, TypeOK,
     NoOrphanHandler, ServersFollowLoop,
     RegistrationsFollowLoop, SocketsFollowLoop
<1>13. CASE Sleep
  BY <1>a, <1>13 DEF Sleep, IInv, TypeOK, NoOrphanHandler, ServersFollowLoop, RegistrationsFollowLoop,
     SocketsFollowLoop
<1>14. CASE KubeletSocketCreated
  BY <1>a, <1>14 DEF KubeletSocketCreated, IInv, TypeOK, NoOrphanHandler, ServersFollowLoop, RegistrationsFollowLoop,
     SocketsFollowLoop
<1>15. CASE SignalReceived
  BY <1>a, <1>15 DEF SignalReceived, IInv, TypeOK, NoOrphanHandler, ServersFollowLoop, RegistrationsFollowLoop,
     SocketsFollowLoop
<1>16. CASE StopGrpcServer
  <2>1. TypeOK'
    BY <1>a, <1>16 DEF StopGrpcServer, NextStop, AfterStop, TypeOK
  <2>3. NoOrphanHandler'
    BY <1>a, <1>16 DEF StopGrpcServer, TypeOK, NoOrphanHandler
  <2>4. ServersFollowLoop'
    BY <1>a, <1>16 DEF StopGrpcServer, NextStop, AfterStop, TypeOK,
       ServersFollowLoop
  <2>5. RegistrationsFollowLoop' /\ SocketsFollowLoop'
    BY <1>a, <1>16 DEF StopGrpcServer, NextStop, AfterStop, TypeOK,
       RegistrationsFollowLoop, SocketsFollowLoop
  <2>6. QED
    BY <2>1, <2>3, <2>4, <2>5 DEF IInv
<1>17. CASE Exit
  BY <1>a, <1>17, ProcessGoneIInv DEF Exit, TypeOK
<1>18. QED
  BY <1>1, <1>2, <1>3, <1>4, <1>5, <1>6, <1>7, <1>8, <1>9, <1>10, <1>11,
     <1>12, <1>13, <1>14, <1>15, <1>16, <1>17 DEF Main

\* Every failed call and every crash preserves the invariant.
LEMMA FailureIInv == IInv /\ Failure => IInv'
<1> SUFFICES ASSUME IInv, Failure PROVE IInv'
  OBVIOUS
<1>a. TypeOK
  BY DEF IInv
<1>1. CASE RegisterTimesOut
  BY <1>1, NAssumption DEF RegisterTimesOut, RegisterError, Fault, Goto, IInv,
     TypeOK, NoOrphanHandler, ServersFollowLoop,
     RegistrationsFollowLoop, SocketsFollowLoop, Dev, PC, Owner, Booting,
     Stopping, Serverless, chanVars, kubeletVars
<1>2. CASE CreatePidFileFails
  <2>1. pidFile \in BOOLEAN
    BY <1>a DEF TypeOK
  <2>2. pidFile' \in BOOLEAN
    BY <1>2, <2>1, Zenon DEF CreatePidFileFails
  <2>3. QED
    BY <1>a, <1>2, <2>2, ProcessGoneIInv DEF CreatePidFileFails, Fault, TypeOK
<1>3. CASE SetupFails \/ ListenFails \/ ConnectTimesOut \/ Crash
  <2>1. Fault /\ Fatal
    BY <1>3 DEF SetupFails, ListenFails, ConnectTimesOut, Crash
  <2>2. QED
    BY <1>a, <2>1, ProcessGoneIInv DEF Fault, Fatal, TypeOK
<1>4. CASE KubeletListensUnnoticed
  <2>1. overflow' = TRUE /\ overflow' \in BOOLEAN
    BY <1>4, Zenon DEF KubeletListensUnnoticed
  <2>2. TypeOK'
    BY <1>a, <1>4, <2>1 DEF KubeletListensUnnoticed, Fault, TypeOK, mainVars,
       pluginVars
  <2>3. QED
    BY <1>a, <1>4, <2>1, <2>2 DEF KubeletListensUnnoticed, IInv, TypeOK, Dev,
       NoOrphanHandler, ServersFollowLoop, RegistrationsFollowLoop,
       SocketsFollowLoop, Known, Placed, mainVars, pluginVars
<1>5. QED
  BY <1>1, <1>2, <1>3, <1>4 DEF Failure

\* What kubelet, the fsnotify reader and signals do preserves the invariant:
\* a kubelet that restarts leaves an event behind whatever it destroys.
LEMMA EnvironmentIInv == IInv /\ Environment => IInv'
<1> SUFFICES ASSUME IInv, Environment PROVE IInv'
  OBVIOUS
<1> USE DEF Dev, PC, Owner, Booting, Stopping, Serverless, NoFault,
     mainVars, pluginVars, chanVars, kubeletVars, boundVars
<1>a. TypeOK /\ NoOrphanHandler /\ ServersFollowLoop
      /\ RegistrationsFollowLoop /\ SocketsFollowLoop
  BY DEF IInv
<1>1. CASE KubeletDies
  BY <1>a, <1>1 DEF KubeletDies, IInv, TypeOK, NoOrphanHandler, ServersFollowLoop, RegistrationsFollowLoop,
     SocketsFollowLoop, Known, Placed
<1>2. CASE KubeletWipes
  BY <1>a, <1>2 DEF KubeletWipes, IInv, TypeOK, NoOrphanHandler, ServersFollowLoop, RegistrationsFollowLoop,
     SocketsFollowLoop, Known, Placed
<1>3. CASE KubeletListens
  <2>1. overflow' \in BOOLEAN
    BY <1>3, Zenon DEF KubeletListens
  <2>2. QED
    BY <1>a, <1>3, <2>1 DEF KubeletListens, Watching, IInv, TypeOK,
       NoOrphanHandler, ServersFollowLoop,
       RegistrationsFollowLoop, SocketsFollowLoop, Known, Placed
<1>4. CASE StaleEventIgnored
  BY <1>a, <1>4 DEF StaleEventIgnored, IInv, TypeOK, NoOrphanHandler, ServersFollowLoop, RegistrationsFollowLoop,
     SocketsFollowLoop, Known, Placed
<1>5. CASE \E s \in {"HUP", "TERM"} : Signal(s)
  <2>1. PICK s \in {"HUP", "TERM"} : Signal(s)
    BY <1>5
  <2>2. CASE ProcessGone /\ UNCHANGED <<pidFile, kubelet>>
    BY <1>a, <2>1, <2>2, ProcessGoneIInv DEF Signal, TypeOK
  <2>3. CASE /\ sigCh' = (IF sigCh = "none" THEN s ELSE sigCh)
             /\ UNCHANGED <<mainVars, pluginVars, events, overflow, kubeletVars>>
    BY <1>a, <2>1, <2>3 DEF Signal, IInv, TypeOK, NoOrphanHandler, ServersFollowLoop, RegistrationsFollowLoop,
       SocketsFollowLoop, Known, Placed
  <2>4. QED
    BY <2>1, <2>2, <2>3 DEF Signal
<1>6. QED
  BY <1>1, <1>2, <1>3, <1>4, <1>5 DEF Environment

\* What the Serve goroutines and the ListAndWatch handlers do preserves the
\* invariant.
LEMMA GoroutinesIInv == IInv /\ Goroutines => IInv'
<1> SUFFICES ASSUME IInv, Goroutines PROVE IInv'
  OBVIOUS
<1> USE DEF Dev, PC, Owner, Booting, Stopping, Serverless, NoFault,
     mainVars, pluginVars, chanVars, kubeletVars, boundVars
<1>a. TypeOK /\ NoOrphanHandler /\ ServersFollowLoop
      /\ RegistrationsFollowLoop /\ SocketsFollowLoop
  BY DEF IInv
<1>b. PICK d \in Dev :
        Serve(d) \/ LateServe(d) \/ ListAndWatch(d) \/ ListAndWatchTick(d)
  BY DEF Goroutines
<1>1. CASE Serve(d)
  BY <1>a, <1>1 DEF Serve, IInv, TypeOK, NoOrphanHandler, ServersFollowLoop, RegistrationsFollowLoop,
     SocketsFollowLoop, Known, Placed
<1>2. CASE LateServe(d)
  BY <1>a, <1>2 DEF LateServe, IInv, TypeOK, NoOrphanHandler, ServersFollowLoop, RegistrationsFollowLoop,
     SocketsFollowLoop, Known, Placed
<1>3. CASE ListAndWatch(d)
  BY <1>a, <1>3 DEF ListAndWatch, IInv, TypeOK, NoOrphanHandler, ServersFollowLoop, RegistrationsFollowLoop,
     SocketsFollowLoop, Known, Placed
<1>4. CASE ListAndWatchTick(d)
  BY <1>a, <1>4 DEF ListAndWatchTick, vars, IInv, TypeOK, NoOrphanHandler, ServersFollowLoop, RegistrationsFollowLoop,
     SocketsFollowLoop, Known, Placed
<1>5. QED
  BY <1>b, <1>1, <1>2, <1>3, <1>4

\* A step that changes nothing preserves the invariant.
LEMMA StutterIInv == IInv /\ UNCHANGED vars => IInv'
BY DEF vars, mainVars, pluginVars, chanVars, kubeletVars, boundVars, IInv,
   TypeOK, NoOrphanHandler, ServersFollowLoop,
   RegistrationsFollowLoop, SocketsFollowLoop, Known, Placed

\* IInv is an invariant of the process, for every number of devices, every
\* number of faults, kubelet restarts and signals.
THEOREM InductiveInvariant == Spec => []IInv
<1>1. IInv /\ [Next]_vars => IInv'
  BY MainIInv, FailureIInv, EnvironmentIInv, GoroutinesIInv, StutterIInv
     DEF Next
<1>2. QED
  BY InitIInv, <1>1, PTL DEF Spec

\* Every variable keeps its type (main.go, server.go).
THEOREM TypeCorrect == Spec => []TypeOK
<1>1. IInv => TypeOK
  BY DEF IInv
<1>2. QED
  BY InductiveInvariant, <1>1, PTL

\* No restart of kubelet goes unnoticed: a process waiting in select with no
\* event to read is registered with the kubelet that is up (main.go:107-116).
THEOREM RegistrationIsKnown == Spec => []RegistrationKnown
<1>1. IInv => RegistrationKnown
  BY DEF IInv, RegistrationsFollowLoop, Known, RegistrationKnown
<1>2. QED
  BY InductiveInvariant, <1>1, PTL

\* No ListAndWatch handler outlives its server (server.go:162-174,241-248).
THEOREM HandlersFollowServers == Spec => []NoOrphanHandler
<1>1. IInv => NoOrphanHandler
  BY DEF IInv
<1>2. QED
  BY InductiveInvariant, <1>1, PTL

\* The socket files kubelet was told of are those of the running servers,
\* unless a late Serve goroutine unlinked one (server.go:131-153).
THEOREM EndpointStaysInPlace == Spec => []EndpointInPlace
<1>1. IInv => EndpointInPlace
  BY DEF IInv, SocketsFollowLoop, Placed, EndpointInPlace,
     ServersFollowLoop
<1>2. QED
  BY InductiveInvariant, <1>1, PTL
-----------------------------------------------------------------------------
(* The pid file                                                            *)

\* The pid file exists only while main() is between createPidFile and its
\* return, unless something failed; and the self-dial of a plugin finds its
\* own socket unless a restarting kubelet or a late goroutine removed it.
PidFileFollowsMain ==
  /\ kubelet = "down" => restarts > 0
  /\ pc = "dial" => sock[idx] = "cur" \/ restarts > 0 \/ overslept = TRUE
  /\ pidFile = TRUE /\ pc \in {"off", "pid"} \cup Booting =>
       faults + restarts > 0 \/ overslept = TRUE

\* Every step preserves PidFileFollowsMain.
LEMMA NextPidFile ==
  ASSUME IInv, PidFileFollowsMain, [Next]_vars
  PROVE  PidFileFollowsMain'
<1> USE DEF PidFileFollowsMain, Dev, Booting, Stopping, NoFault, Fault, Goto,
     Fatal, ProcessGone, mainVars, pluginVars, chanVars, kubeletVars, boundVars
<1>a. /\ faults \in Nat /\ restarts \in Nat
      /\ sock \in [Dev -> Owner] /\ idx \in Dev
  BY DEF IInv, TypeOK
<1>1. CASE Start
  BY <1>a, <1>1 DEF Start
<1>2. CASE AppIsRunning
  BY <1>a, <1>2 DEF AppIsRunning
<1>3. CASE AppIsNotRunning
  BY <1>a, <1>3 DEF AppIsNotRunning
<1>4. CASE InitHostDevice
  BY <1>a, <1>4 DEF InitHostDevice
<1>5. CASE StartWatchers
  BY <1>a, <1>5 DEF StartWatchers
<1>6. CASE CreatePidFile
  BY <1>a, <1>6 DEF CreatePidFile
<1>7. CASE InitPluginManager
  BY <1>a, <1>7 DEF InitPluginManager
<1>8. CASE Listen
  BY <1>a, <1>8 DEF Listen
<1>9. CASE Connect
  BY <1>a, <1>9 DEF Connect
<1>10. CASE ConnectFails
  BY <1>a, <1>10 DEF ConnectFails
<1>11. CASE Register
  BY <1>a, <1>11 DEF Register
<1>12. CASE RegisterRefused
  BY <1>a, <1>12 DEF RegisterRefused, RegisterError
<1>13. CASE RegisterTimesOut
  BY <1>a, <1>13 DEF RegisterTimesOut, RegisterError
<1>14. CASE Sleep
  BY <1>a, <1>14 DEF Sleep
<1>15. CASE KubeletSocketCreated
  BY <1>a, <1>15 DEF KubeletSocketCreated
<1>16. CASE SignalReceived
  BY <1>a, <1>16 DEF SignalReceived
<1>17. CASE StopGrpcServer
  BY <1>a, <1>17 DEF StopGrpcServer, NextStop, AfterStop
<1>18. CASE Exit
  BY <1>a, <1>18 DEF Exit
<1>19. CASE SetupFails
  BY <1>a, <1>19 DEF SetupFails
<1>20. CASE CreatePidFileFails
  BY <1>a, <1>20 DEF CreatePidFileFails
<1>21. CASE ListenFails
  BY <1>a, <1>21 DEF ListenFails
<1>22. CASE ConnectTimesOut
  BY <1>a, <1>22 DEF ConnectTimesOut
<1>23. CASE Crash
  BY <1>a, <1>23 DEF Crash
<1>24. CASE KubeletDies
  BY <1>a, <1>24 DEF KubeletDies
<1>25. CASE KubeletWipes
  BY <1>a, <1>25 DEF KubeletWipes
<1>26. CASE KubeletListens
  BY <1>a, <1>26 DEF KubeletListens
<1>27. CASE StaleEventIgnored
  BY <1>a, <1>27 DEF StaleEventIgnored
<1>28. CASE \E s \in {"HUP", "TERM"} : Signal(s)
  BY <1>a, <1>28 DEF Signal, Watching
<1>0. CASE KubeletListensUnnoticed
  BY <1>a, <1>0 DEF KubeletListensUnnoticed
<1>29. CASE Goroutines
  BY <1>a, <1>29 DEF Goroutines, Serve, LateServe, ListAndWatch,
     ListAndWatchTick, vars
<1>30. CASE UNCHANGED vars
  BY <1>30 DEF vars
<1>31. QED
  BY <1>0, <1>1, <1>2, <1>3, <1>4, <1>5, <1>6, <1>7, <1>8, <1>9, <1>10, <1>11,
     <1>12, <1>13, <1>14, <1>15, <1>16, <1>17, <1>18, <1>19, <1>20, <1>21,
     <1>22, <1>23, <1>24, <1>25, <1>26, <1>27, <1>28, <1>29, <1>30
     DEF Next, Main, Failure, Environment

\* Only a fault, a kubelet that restarts or a late Serve goroutine leaves the
\* pid file of a dead process behind (main.go:74-78,125-128): no sequence of
\* signals does, however they fall.
THEOREM LockoutNeedsFault == Spec => []LockedOutOnlyByFault
<1>1. Init => PidFileFollowsMain
  BY DEF Init, PidFileFollowsMain
<1>2. IInv /\ PidFileFollowsMain /\ [Next]_vars => PidFileFollowsMain'
  BY NextPidFile
<1>3. PidFileFollowsMain => LockedOutOnlyByFault
  BY DEF PidFileFollowsMain, LockedOutOnlyByFault, LockedOut, Booting
<1>4. QED
  BY InductiveInvariant, <1>1, <1>2, <1>3, PTL DEF Spec

-----------------------------------------------------------------------------
(* main() uses its watcher the way EventFeed describes it                  *)

\* A step that concerns neither the watcher nor kubelet.sock is a stutter of
\* EventFeed, or main() coming to or leaving select.
LEMMA ElsewhereTurns ==
  ASSUME UNCHANGED <<kubelet, events, overflow>>, Watching' = Watching
  PROVE  Feed!Turn \/ UNCHANGED Feed!vars
<1>1. (kubelet # "wiped")' = (kubelet # "wiped")
  OBVIOUS
<1>2. CASE (pc = "select")' = (pc = "select")
  BY <1>1, <1>2 DEF Feed!vars
<1>3. CASE (pc = "select")' = ~(pc = "select")
  BY <1>1, <1>3 DEF Feed!Turn
<1>4. QED
  BY <1>2, <1>3

\* The end of the process closes the watcher.
LEMMA GoneUnwatches ==
  ASSUME ProcessGone, UNCHANGED kubelet, IInv,
         ~Watching => events = 0 /\ overflow = FALSE
  PROVE  Feed!Unwatch \/ UNCHANGED Feed!vars
<1>1. /\ Watching' = FALSE /\ (pc = "select")' = FALSE
      /\ events' = 0 /\ overflow' = FALSE
      /\ (kubelet # "wiped")' = (kubelet # "wiped")
  BY DEF ProcessGone, Watching
<1>2. CASE Watching
  BY <1>1, <1>2 DEF Feed!Unwatch
<1>3. CASE ~Watching
  <2>1. (pc = "select") = FALSE
    BY <1>3 DEF Watching, Booting
  <2>2. Watching' = Watching
    BY <1>1, <1>3 DEF Watching
  <2>3. QED
    BY <1>1, <1>3, <2>1, <2>2 DEF Feed!vars
<1>4. QED
  BY <1>2, <1>3

\* There is nothing to read before the watcher is there.
NothingUnwatched == ~Watching => events = 0 /\ overflow = FALSE

LEMMA NextNothingUnwatched ==
  ASSUME IInv, NothingUnwatched, [Next]_vars
  PROVE  NothingUnwatched'
<1> USE DEF NothingUnwatched, Watching, Booting, Stopping, Goto, mainVars,
     chanVars
<1>1. CASE ProcessGone
  BY <1>1 DEF ProcessGone
<1>2. CASE UNCHANGED chanVars /\ (Watching => Watching')
  BY <1>2
<1>3. CASE KubeletSocketCreated \/ SignalReceived
  BY <1>3 DEF KubeletSocketCreated, SignalReceived
<1>4. CASE KubeletListens \/ KubeletListensUnnoticed \/ StaleEventIgnored
  BY <1>4 DEF KubeletListens, KubeletListensUnnoticed, StaleEventIgnored, IInv,
     TypeOK
<1>5. CASE \E s \in {"HUP", "TERM"} : Signal(s)
  BY <1>1, <1>5 DEF Signal
<1>6. CASE StopGrpcServer
  BY <1>6 DEF StopGrpcServer, NextStop, AfterStop
<1>7. CASE Main
  BY <1>1, <1>2, <1>3, <1>6, <1>7 DEF Main, Start, AppIsRunning,
     AppIsNotRunning, InitHostDevice, StartWatchers, CreatePidFile,
     InitPluginManager, Listen, Connect, ConnectFails, Register,
     RegisterRefused, RegisterError, Sleep, Exit, Fatal
<1>8. CASE Failure
  BY <1>1, <1>2, <1>4, <1>8 DEF Failure, SetupFails, CreatePidFileFails,
     ListenFails, ConnectTimesOut, RegisterTimesOut, RegisterError, Crash,
     Fatal
<1>9. CASE Environment
  BY <1>2, <1>4, <1>5, <1>9 DEF Environment, KubeletDies, KubeletWipes
<1>10. CASE Goroutines
  BY <1>2, <1>10 DEF Goroutines, Serve, LateServe, ListAndWatch,
     ListAndWatchTick, vars
<1>11. QED
  BY <1>2, <1>7, <1>8, <1>9, <1>10 DEF Next, vars

\* Every step of the process and of kubelet is a step of EventFeed or a
\* stutter.
LEMMA NextFollowsFeed ==
  ASSUME IInv, NothingUnwatched, [Next]_vars
  PROVE  Feed!Next \/ UNCHANGED Feed!vars
<1> USE DEF Booting, Stopping, Goto, mainVars, chanVars, kubeletVars
<1>1. CASE ProcessGone /\ UNCHANGED kubelet
  BY <1>1, GoneUnwatches DEF NothingUnwatched, Feed!Next
<1>2. CASE UNCHANGED <<kubelet, events, overflow>> /\ Watching' = Watching
  BY <1>2, ElsewhereTurns DEF Feed!Next
<1>3. CASE StartWatchers
  <2>1. /\ Watching = FALSE /\ Watching' = TRUE
        /\ (pc = "select")' \in BOOLEAN
        /\ (kubelet # "wiped")' = (kubelet # "wiped")
        /\ events' = events /\ overflow' = overflow
    BY <1>3 DEF StartWatchers, Watching
  <2>2. QED
    BY <2>1 DEF Feed!Next, Feed!Watch
<1>4. CASE KubeletSocketCreated
  <2>1. /\ (pc = "select") = TRUE /\ (pc = "select")' = FALSE
        /\ Watching' = Watching
        /\ (kubelet # "wiped")' = (kubelet # "wiped")
    BY <1>4 DEF KubeletSocketCreated, Watching
  <2>2. events > 0 /\ events' = events - 1 /\ overflow' = overflow
    BY <1>4 DEF KubeletSocketCreated
  <2>3. QED
    BY <2>1, <2>2 DEF Feed!Next, Feed!Take
<1>5. CASE KubeletListens \/ KubeletListensUnnoticed
  <2>1. /\ ~(kubelet # "wiped") /\ (kubelet # "wiped")' = TRUE
        /\ Watching' = Watching /\ (pc = "select")' = (pc = "select")
    BY <1>5 DEF KubeletListens, KubeletListensUnnoticed, Watching
  <2>2. \/ Watching /\ events' = events + 1 /\ overflow' = FALSE
        \/ Watching /\ events' = events /\ overflow' = TRUE
        \/ ~Watching /\ events' = events /\ overflow' = FALSE
    BY <1>5 DEF KubeletListens, KubeletListensUnnoticed
  <2>3. QED
    BY <2>1, <2>2 DEF Feed!Next, Feed!Create
<1>6. CASE StaleEventIgnored
  <2>1. /\ ~(kubelet # "wiped") /\ (kubelet # "wiped")' = (kubelet # "wiped")
        /\ Watching' = Watching /\ (pc = "select")' = (pc = "select")
        /\ events > 0 /\ events' = events - 1 /\ overflow' = overflow
    BY <1>6 DEF StaleEventIgnored, Watching
  <2>2. QED
    BY <2>1 DEF Feed!Next, Feed!Ignore
<1>7. CASE KubeletWipes
  <2>1. /\ kubelet # "wiped" /\ (kubelet # "wiped")' = FALSE
        /\ Watching' = Watching /\ (pc = "select")' = (pc = "select")
        /\ events' = events /\ overflow' = overflow
    BY <1>7 DEF KubeletWipes, Watching
  <2>2. QED
    BY <2>1 DEF Feed!Next, Feed!Delete
<1>8. CASE KubeletDies
  <2>1. /\ (kubelet # "wiped")' = (kubelet # "wiped")
        /\ Watching' = Watching /\ (pc = "select")' = (pc = "select")
        /\ events' = events /\ overflow' = overflow
    BY <1>8 DEF KubeletDies, Watching
  <2>2. QED
    BY <2>1 DEF Feed!vars
<1>9. CASE \E s \in {"HUP", "TERM"} : Signal(s)
  BY <1>1, <1>2, <1>9 DEF Signal, Watching
<1>10. CASE StopGrpcServer
  BY <1>2, <1>10 DEF StopGrpcServer, NextStop, AfterStop, Watching
<1>11. CASE Main
  BY <1>1, <1>2, <1>3, <1>4, <1>10, <1>11 DEF Main, Start, AppIsRunning,
     AppIsNotRunning, InitHostDevice, CreatePidFile, InitPluginManager, Listen,
     Connect, ConnectFails, Register, RegisterRefused, RegisterError, Sleep,
     SignalReceived, Exit, Fatal, Watching
<1>12. CASE Failure
  BY <1>1, <1>2, <1>5, <1>12 DEF Failure, SetupFails, CreatePidFileFails,
     ListenFails, ConnectTimesOut, RegisterTimesOut, RegisterError, Crash,
     Fatal, Watching
<1>13. CASE Environment
  BY <1>5, <1>6, <1>7, <1>8, <1>9, <1>13 DEF Environment
<1>14. CASE Goroutines
  BY <1>2, <1>14 DEF Goroutines, Serve, LateServe, ListAndWatch,
     ListAndWatchTick, vars, Watching
<1>15. CASE UNCHANGED vars
  BY <1>2, <1>15 DEF vars, Watching
<1>16. QED
  BY <1>11, <1>12, <1>13, <1>14, <1>15 DEF Next

\* The process uses its watcher the way EventFeed, which FsWatcher is checked
\* against, describes it (main.go:63-68,107-116).
THEOREM FeedIsFollowed == Spec => FollowsFeed
<1>1. Init => NothingUnwatched
  BY DEF Init, NothingUnwatched
<1>2. Init => Feed!Init
  <2> SUFFICES ASSUME Init PROVE Feed!Init
    OBVIOUS
  <2>1. Watching = FALSE /\ (pc = "select") = FALSE
    BY DEF Init, Watching
  <2>2. (kubelet # "wiped") \in BOOLEAN
    BY Zenon
  <2>3. events = 0 /\ overflow = FALSE
    BY DEF Init
  <2>4. QED
    BY <2>1, <2>2, <2>3 DEF Feed!Init
<1>3. IInv /\ NothingUnwatched /\ [Next]_vars => NothingUnwatched'
  BY NextNothingUnwatched
<1>4. IInv /\ NothingUnwatched /\ [Next]_vars => [Feed!Next]_(Feed!vars)
  BY NextFollowsFeed
<1>5. QED
  BY InductiveInvariant, <1>1, <1>2, <1>3, <1>4, PTL
     DEF Spec, FollowsFeed, Feed!Spec

-----------------------------------------------------------------------------
(* main() treats every gRPC server the way Endpoint describes it           *)

\* Every step is, for the server of each device, a step of Endpoint or a
\* stutter.
LEMMA NextFollowsEndpoint ==
  ASSUME IInv, [Next]_vars, NEW d \in Dev
  PROVE  Server(d)!Next \/ UNCHANGED Server(d)!vars
<1> USE DEF Server!Next, Server!vars, Goto, pluginVars, mainVars, NoFault
<1>a. TypeOK /\ ServersFollowLoop
  BY DEF IInv
<1>1. CASE UNCHANGED <<sock, server, stream, late>>
  BY <1>1
<1>2. CASE ProcessGone
  BY <1>a, <1>2 DEF ProcessGone, Outdate, Server!Gone, TypeOK
<1>3. CASE InitPluginManager
  BY <1>a, <1>3 DEF InitPluginManager, Outdate, Server!Outdated, TypeOK,
     ServersFollowLoop, Serverless
<1>4. CASE Listen
  BY <1>a, <1>4 DEF Listen, Server!Bind, TypeOK, ServersFollowLoop, Dev
<1>5. CASE StopGrpcServer
  BY <1>a, <1>5 DEF StopGrpcServer, Server!Stop, TypeOK
<1>6. CASE KubeletWipes
  BY <1>a, <1>6 DEF KubeletWipes, Server!Wiped, TypeOK
<1>7. CASE Goroutines
  <2>1. PICK e \in Dev :
          Serve(e) \/ LateServe(e) \/ ListAndWatch(e) \/ ListAndWatchTick(e)
    BY <1>7 DEF Goroutines
  <2>2. CASE Serve(e)
    BY <1>a, <2>2 DEF Serve, Server!Serve, TypeOK
  <2>3. CASE LateServe(e)
    BY <1>a, <2>3 DEF LateServe, Server!LateServe, TypeOK
  <2>4. CASE ListAndWatch(e)
    BY <1>a, <2>4 DEF ListAndWatch, Server!Open, TypeOK
  <2>5. CASE ListAndWatchTick(e)
    BY <1>1, <2>5 DEF ListAndWatchTick, vars
  <2>6. QED
    BY <2>1, <2>2, <2>3, <2>4, <2>5
<1>8. CASE Main
  BY <1>1, <1>2, <1>3, <1>4, <1>5, <1>8 DEF Main, Start, AppIsRunning,
     AppIsNotRunning, InitHostDevice, StartWatchers, CreatePidFile, Connect,
     ConnectFails, Register, RegisterRefused, RegisterError, Sleep,
     KubeletSocketCreated, SignalReceived, Exit, Fatal
<1>9. CASE Failure
  BY <1>1, <1>2, <1>9 DEF Failure, SetupFails, CreatePidFileFails,
     ListenFails, ConnectTimesOut, RegisterTimesOut, RegisterError, Crash,
     Fatal, KubeletListensUnnoticed
<1>10. CASE Environment
  BY <1>1, <1>2, <1>6, <1>10 DEF Environment, KubeletDies, KubeletListens,
     StaleEventIgnored, Signal
<1>11. QED
  BY <1>1, <1>7, <1>8, <1>9, <1>10 DEF Next, vars

\* The process treats the server of every device the way Endpoint, which
\* GrpcServer is checked against, describes it (server.go:130-174).
THEOREM EndpointIsFollowed == Spec => FollowsEndpoint
<1>1. Init => \A d \in Dev : Server(d)!Init
  BY DEF Init, Server!Init
<1>2. IInv /\ [Next]_vars => [\A d \in Dev : [Server(d)!Next]_(Server(d)!vars)]_vars
  BY NextFollowsEndpoint
<1>3. QED
  BY InductiveInvariant, <1>1, <1>2, PTL DEF Spec, FollowsEndpoint
=============================================================================
