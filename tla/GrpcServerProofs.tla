-------------------------- MODULE GrpcServerProofs ---------------------------
(***************************************************************************)
(* The safety of GrpcServer for any number of connections, and that it     *)
(* implements Endpoint.                                                    *)
(***************************************************************************)
EXTENDS GrpcServer, TLAPS

\* What main() and the goroutine of Serve know of each other.
ServeFollowsMain ==
  /\ maps = "nil" <=> mpc \in Stopping \cup Stopped
  /\ mpc = "listen" <=> spc = "none"
  /\ spc = "late" => maps = "nil"
  /\ spc \in {"spawned", "late"} => lisOpen = TRUE
  /\ spc \in {"none", "spawned", "late"} =>
       lis = FALSE /\ \A c \in Conn : cpc[c] \in {"none", "backlog"}
  /\ mpc \in {"closeChan", "remove"} \cup Stopped => conns = {}

Serving == {"preface", "serve", "start"}

\* How the descriptor, the transport and the entry in s.conns of a connection
\* follow its goroutine.
ConnFollows(c) ==
  /\ cpc[c] = "none" => link[c] = "none"
  /\ cpc[c] \in {"none", "backlog", "raw", "setup"} => state[c] = "none"
  /\ cpc[c] \in {"add", "wait"} \cup Serving => state[c] # "none"
  /\ cpc[c] \in Serving /\ c \notin conns => link[c] = "closed"
  /\ cpc[c] = "wait" => link[c] = "closed" /\ state[c] = "closing"
  /\ cpc[c] = "done" => link[c] = "closed" /\ state[c] # "reachable"
  /\ c \in conns => cpc[c] \in {"wait", "done"} \cup Serving
  /\ c \in conns /\ cpc[c] = "done" => maps = "nil"

\* How the handler and the right to write follow the transport.
StreamFollows(c) ==
  /\ state[c] = "none" => token[c] = 0 /\ ctl[c] = "none" /\ hpc[c] = "none"
  /\ cpc[c] = "start" => hpc[c] = "none"
  /\ hpc[c] \in {"status", "trailer", "done"} => StopChanClosed

IInv ==
  /\ TypeOK
  /\ ServeFollowsMain
  /\ \A c \in Conn : ConnFollows(c) /\ StreamFollows(c)
  /\ OneWriter

-----------------------------------------------------------------------------
(* Preservation                                                            *)

\* The initial state satisfies the inductive invariant.
LEMMA InitIInv == Init => IInv
<1> SUFFICES ASSUME Init PROVE IInv
  OBVIOUS
<1>1. lisOpen \in BOOLEAN /\ lis \in BOOLEAN
  BY Zenon DEF Init
<1>2. ack \in [Conn -> BOOLEAN] /\ over \in [Conn -> BOOLEAN]
  BY Zenon DEF Init
<1>3. TypeOK
  BY <1>1, <1>2, BoundsAssumption DEF Init, TypeOK
<1>4. ServeFollowsMain
  BY DEF Init, ServeFollowsMain, Stopping, Stopped
<1>5. \A c \in Conn : ConnFollows(c) /\ StreamFollows(c)
  BY DEF Init, ConnFollows, StreamFollows, Serving
<1>6. OneWriter
  BY DEF Init, OneWriter, Writers
<1>7. QED
  BY <1>3, <1>4, <1>5, <1>6 DEF IInv

\* Closing a transport keeps the types.
LEMMA CloseTypes ==
  ASSUME TypeOK, NEW c \in Conn, Close(c)
  PROVE  /\ over' \in [Conn -> BOOLEAN]
         /\ link' \in [Conn -> {"none", "up", "hup", "closed"}]
         /\ state' \in [Conn -> {"none", "reachable", "closing"}]
<1>1. over \in [Conn -> BOOLEAN] /\ TRUE \in BOOLEAN
  BY DEF TypeOK
<1>2. over' \in [Conn -> BOOLEAN]
  BY <1>1, Zenon DEF Close
<1>3. QED
  BY <1>2 DEF Close, TypeOK

\* So does closing the listener.
LEMMA CloseListenerTypes ==
  ASSUME TypeOK, CloseListener
  PROVE  /\ lisOpen' \in BOOLEAN
         /\ path' \in {"none", "own", "next"}
         /\ link' \in [Conn -> {"none", "up", "hup", "closed"}]
         /\ cpc' \in [Conn -> {"none", "backlog", "raw", "setup", "add",
                              "preface", "serve", "start", "wait", "done"}]
<1>1. lisOpen' \in BOOLEAN
  BY Zenon DEF CloseListener
<1>2. QED
  BY <1>1 DEF CloseListener, TypeOK

\* Every step of main() preserves the invariant.
LEMMA MainIInv ==
  ASSUME IInv, Main \/ StopTakesMaps \/ NextListens \/ PathWiped
  PROVE  IInv'
<1> USE DEF Stopping, Stopped, Serving, mainVars, serverVars, connVars,
     transportVars, streamVars
<1>a. TypeOK /\ ServeFollowsMain /\ OneWriter
      /\ \A c \in Conn : ConnFollows(c) /\ StreamFollows(c)
  BY DEF IInv
<1>1. CASE Listen
  <2>1. TypeOK'
    BY <1>a, <1>1 DEF Listen, TypeOK, ConnFollows, StreamFollows, OneWriter,
       Writers, Conn
  <2>2. ServeFollowsMain'
    BY <1>a, <1>1 DEF Listen, TypeOK, ServeFollowsMain, Conn
  <2>3. ASSUME NEW e \in Conn PROVE ConnFollows(e)'
    BY <1>a, <1>1 DEF Listen, TypeOK, ServeFollowsMain, ConnFollows, Conn
  <2>4. ASSUME NEW e \in Conn PROVE StreamFollows(e)'
    BY <1>a, <1>1 DEF Listen, TypeOK, ConnFollows, StreamFollows,
       StopChanClosed, Conn
  <2>5. OneWriter'
    BY <1>a, <1>1 DEF Listen, TypeOK, ConnFollows, StreamFollows, OneWriter,
       Writers, Conn
  <2>6. QED
    BY <2>1, <2>2, <2>3, <2>4, <2>5 DEF IInv
<1>2. CASE Dial
  BY <1>a, <1>2 DEF Dial, Connects, IInv, TypeOK, ServeFollowsMain, Conn,
     ConnFollows, StreamFollows, OneWriter, Writers, StopChanClosed
<1>3. CASE StopTakesMaps
  BY <1>a, <1>3 DEF StopTakesMaps, IInv, TypeOK, ServeFollowsMain, ConnFollows,
     StreamFollows, OneWriter, Writers, StopChanClosed
<1>4. CASE StopClosesListener
  <2>0. lis' \in BOOLEAN
    BY <1>4, Zenon DEF StopClosesListener
  <2>1. TypeOK'
    BY <1>a, <1>4, <2>0, CloseListenerTypes DEF StopClosesListener, TypeOK
  <2>2. ServeFollowsMain'
    BY <1>a, <1>4 DEF StopClosesListener, CloseListener, TypeOK, ServeFollowsMain, Conn
  <2>3. ASSUME NEW e \in Conn PROVE ConnFollows(e)'
    BY <1>a, <1>4 DEF StopClosesListener, CloseListener, TypeOK, ServeFollowsMain, ConnFollows, Conn
  <2>4. ASSUME NEW e \in Conn PROVE StreamFollows(e)'
    BY <1>a, <1>4 DEF StopClosesListener, CloseListener, TypeOK, ConnFollows, StreamFollows,
       StopChanClosed, Conn
  <2>5. OneWriter'
    BY <1>a, <1>4 DEF StopClosesListener, CloseListener, TypeOK, ConnFollows, StreamFollows, OneWriter,
       Writers, Conn
  <2>6. QED
    BY <2>1, <2>2, <2>3, <2>4, <2>5 DEF IInv
<1>5. CASE \E c \in Conn : StopClosesConn(c)
  BY <1>a, <1>5 DEF StopClosesConn, Close, IInv, TypeOK,
     ServeFollowsMain, ConnFollows, StreamFollows, OneWriter, Writers,
     StopChanClosed
<1>6. CASE StopReturns
  BY <1>a, <1>6 DEF StopReturns, IInv, TypeOK, ServeFollowsMain, ConnFollows,
     StreamFollows, OneWriter, Writers, StopChanClosed
<1>7. CASE CloseStopChan
  BY <1>a, <1>7 DEF CloseStopChan, IInv, TypeOK, ServeFollowsMain, ConnFollows,
     StreamFollows, OneWriter, Writers, StopChanClosed
<1>8. CASE RemovePath
  BY <1>a, <1>8 DEF RemovePath, IInv, TypeOK, ServeFollowsMain, ConnFollows,
     StreamFollows, OneWriter, Writers, StopChanClosed
<1>9. CASE NextListens
  BY <1>a, <1>9 DEF NextListens, IInv, TypeOK, ServeFollowsMain, ConnFollows,
     StreamFollows, OneWriter, Writers, StopChanClosed
<1>10. CASE PathWiped
  BY <1>a, <1>10 DEF PathWiped, Fault, IInv, TypeOK, ServeFollowsMain,
     ConnFollows, StreamFollows, OneWriter, Writers, StopChanClosed
<1>11. QED
  BY <1>1, <1>2, <1>3, <1>4, <1>5, <1>6, <1>7, <1>8, <1>9, <1>10 DEF Main

\* Every step of Serve preserves the invariant.
LEMMA ServeIInv ==
  ASSUME IInv, Serve \/ AcceptTemporaryError
  PROVE  IInv'
<1> USE DEF Stopping, Stopped, Serving, mainVars, serverVars, connVars,
     transportVars, streamVars
<1>a. TypeOK /\ ServeFollowsMain /\ OneWriter
      /\ \A c \in Conn : ConnFollows(c) /\ StreamFollows(c)
  BY DEF IInv
<1>1. CASE ServeBegins
  BY <1>a, <1>1 DEF ServeBegins, IInv, TypeOK, ServeFollowsMain, ConnFollows,
     StreamFollows, OneWriter, Writers, StopChanClosed
<1>2. CASE ServeTooLate
  BY <1>a, <1>2 DEF ServeTooLate, CloseListener, IInv, TypeOK,
     ServeFollowsMain, ConnFollows, StreamFollows, OneWriter, Writers,
     StopChanClosed
<1>3. CASE \E c \in Conn : Accept(c)
  BY <1>a, <1>3 DEF Accept, IInv, TypeOK, ServeFollowsMain, ConnFollows,
     StreamFollows, OneWriter, Writers, StopChanClosed
<1>4. CASE AcceptTemporaryError \/ BackoffEnds \/ AcceptError
  BY <1>a, <1>4 DEF AcceptTemporaryError, BackoffEnds, AcceptError, Fault,
     IInv, TypeOK, ServeFollowsMain, ConnFollows, StreamFollows, OneWriter,
     Writers, StopChanClosed
<1>5. CASE ServeReturns
  <2>0. lis' \in BOOLEAN
    <3>1. lis' = FALSE \/ lis' = lis
      BY <1>5 DEF ServeReturns
    <3>2. QED
      BY <1>a, <3>1, Zenon DEF TypeOK
  <2>1. TypeOK'
    BY <1>a, <1>5, <2>0, CloseListenerTypes DEF ServeReturns, TypeOK
  <2>2. ServeFollowsMain'
    BY <1>a, <1>5 DEF ServeReturns, CloseListener, TypeOK, ServeFollowsMain, Conn
  <2>3. ASSUME NEW e \in Conn PROVE ConnFollows(e)'
    BY <1>a, <1>5 DEF ServeReturns, CloseListener, TypeOK, ServeFollowsMain, ConnFollows, Conn
  <2>4. ASSUME NEW e \in Conn PROVE StreamFollows(e)'
    BY <1>a, <1>5 DEF ServeReturns, CloseListener, TypeOK, ConnFollows, StreamFollows,
       StopChanClosed, Conn
  <2>5. OneWriter'
    BY <1>a, <1>5 DEF ServeReturns, CloseListener, TypeOK, ConnFollows, StreamFollows, OneWriter,
       Writers, Conn
  <2>6. QED
    BY <2>1, <2>2, <2>3, <2>4, <2>5 DEF IInv
<1>6. QED
  BY <1>1, <1>2, <1>3, <1>4, <1>5 DEF Serve

\* Every step of the goroutine of a connection, of its reader and of its
\* client preserves the invariant.
LEMMA ConnectionIInv ==
  ASSUME IInv, NEW c \in Conn,
         \/ Connection(c) \/ ClientConnects(c) \/ ClientCloses(c)
         \/ ReadPreface(c) \/ OperateHeaders(c) \/ HandleRSTStream(c)
         \/ KeepaliveCloses(c)
  PROVE  IInv'
<1> USE DEF Stopping, Stopped, Serving, mainVars, serverVars, connVars,
     transportVars, streamVars, CGoto
<1>a. TypeOK /\ ServeFollowsMain /\ OneWriter
      /\ \A e \in Conn : ConnFollows(e) /\ StreamFollows(e)
  BY DEF IInv
<1>1. CASE HandleRawConn(c)
  BY <1>a, <1>1 DEF HandleRawConn, IInv, TypeOK, ServeFollowsMain,
     ConnFollows, StreamFollows, OneWriter, Writers, StopChanClosed
<1>2. CASE NewServerTransport(c)
  BY <1>a, <1>2 DEF NewServerTransport, IInv, TypeOK, ServeFollowsMain,
     ConnFollows, StreamFollows, OneWriter, Writers, StopChanClosed
<1>3. CASE NewServerTransportFails(c)
  BY <1>a, <1>3 DEF NewServerTransportFails, IInv, TypeOK, ServeFollowsMain,
     ConnFollows, StreamFollows, OneWriter, Writers, StopChanClosed
<1>4. CASE AddConn(c)
  <2>1. TypeOK'
    BY <1>a, <1>4, CloseTypes DEF AddConn, TypeOK
  <2>2. ServeFollowsMain'
    BY <1>a, <1>4 DEF AddConn, Close, TypeOK, ServeFollowsMain, Conn
  <2>3. ASSUME NEW e \in Conn PROVE ConnFollows(e)'
    BY <1>a, <1>4 DEF AddConn, Close, TypeOK, ServeFollowsMain, ConnFollows, Conn
  <2>4. ASSUME NEW e \in Conn PROVE StreamFollows(e)'
    BY <1>a, <1>4 DEF AddConn, Close, TypeOK, ConnFollows, StreamFollows,
       StopChanClosed, Conn
  <2>5. OneWriter'
    BY <1>a, <1>4 DEF AddConn, Close, TypeOK, ConnFollows, StreamFollows, OneWriter,
       Writers, Conn
  <2>6. QED
    BY <2>1, <2>2, <2>3, <2>4, <2>5 DEF IInv
<1>5. CASE HandleStream(c)
  BY <1>a, <1>5 DEF HandleStream, IInv, TypeOK, ServeFollowsMain,
     ConnFollows, StreamFollows, OneWriter, Writers, StopChanClosed
<1>6. CASE ReadFails(c)
  BY <1>a, <1>6 DEF ReadFails, Close, IInv, TypeOK, ServeFollowsMain,
     ConnFollows, StreamFollows, OneWriter, Writers, StopChanClosed
<1>7. CASE ConnDone(c)
  BY <1>a, <1>7 DEF ConnDone, IInv, TypeOK, ServeFollowsMain,
     ConnFollows, StreamFollows, OneWriter, Writers, StopChanClosed
<1>8. CASE ClientConnects(c)
  BY <1>a, <1>8 DEF ClientConnects, Connects, IInv, TypeOK, ServeFollowsMain,
     ConnFollows, StreamFollows, OneWriter, Writers, StopChanClosed
<1>9. CASE ClientCloses(c)
  BY <1>a, <1>9 DEF ClientCloses, IInv, TypeOK, ServeFollowsMain,
     ConnFollows, StreamFollows, OneWriter, Writers, StopChanClosed
<1>10. CASE ReadPreface(c)
  BY <1>a, <1>10 DEF ReadPreface, IInv, TypeOK, ServeFollowsMain,
     ConnFollows, StreamFollows, OneWriter, Writers, StopChanClosed
<1>11. CASE OperateHeaders(c)
  BY <1>a, <1>11 DEF OperateHeaders, IInv, TypeOK, ServeFollowsMain,
     ConnFollows, StreamFollows, OneWriter, Writers, StopChanClosed
<1>12. CASE HandleRSTStream(c)
  BY <1>a, <1>12 DEF HandleRSTStream, IInv, TypeOK, ServeFollowsMain,
     ConnFollows, StreamFollows, OneWriter, Writers, StopChanClosed
<1>13. CASE KeepaliveCloses(c)
  BY <1>a, <1>13 DEF KeepaliveCloses, Close, Fault, IInv, TypeOK,
     ServeFollowsMain, ConnFollows, StreamFollows, OneWriter, Writers,
     StopChanClosed
<1>14. QED
  BY <1>1, <1>2, <1>3, <1>4, <1>5, <1>6, <1>7, <1>8, <1>9, <1>10, <1>11,
     <1>12, <1>13 DEF Connection

\* Every step of a controller and of a handler preserves the invariant: the
\* right to write is handed round, and is lost only with the transport.
LEMMA HandlerIInv ==
  ASSUME IInv, NEW c \in Conn,
         \/ Controller(c) \/ Handler(c) \/ HandlerStops(c)
         \/ SendTakes(c) \/ Tick(c)
  PROVE  IInv'
<1> USE DEF Stopping, Stopped, Serving, mainVars, serverVars, connVars,
     transportVars, streamVars, HGoto
<1>a. TypeOK /\ ServeFollowsMain /\ OneWriter
      /\ \A e \in Conn : ConnFollows(e) /\ StreamFollows(e)
  BY DEF IInv
<1>1. CASE ControllerTakes(c)
  BY <1>a, <1>1 DEF ControllerTakes, IInv, TypeOK, ServeFollowsMain,
     ConnFollows, StreamFollows, OneWriter, Writers, StopChanClosed
<1>2. CASE ControllerWrites(c)
  BY <1>a, <1>2 DEF ControllerWrites, IInv, TypeOK, ServeFollowsMain,
     ConnFollows, StreamFollows, OneWriter, Writers, StopChanClosed
<1>3. CASE ControllerEnds(c)
  BY <1>a, <1>3 DEF ControllerEnds, IInv, TypeOK, ServeFollowsMain,
     ConnFollows, StreamFollows, OneWriter, Writers, StopChanClosed
<1>4. CASE SendTakes(c)
  BY <1>a, <1>4 DEF SendTakes, IInv, TypeOK, ServeFollowsMain,
     ConnFollows, StreamFollows, OneWriter, Writers, StopChanClosed
<1>5. CASE SendGivesUp(c) \/ Tick(c)
  BY <1>a, <1>5 DEF SendGivesUp, Tick, IInv, TypeOK, ServeFollowsMain,
     ConnFollows, StreamFollows, OneWriter, Writers, StopChanClosed
<1>6. CASE SendWrites(c)
  <2>1. TypeOK'
    BY <1>a, <1>6, CloseTypes DEF SendWrites, TypeOK, OneWriter, Writers
  <2>2. ServeFollowsMain'
    BY <1>a, <1>6 DEF SendWrites, Close, TypeOK, ServeFollowsMain, Conn
  <2>3. ASSUME NEW e \in Conn PROVE ConnFollows(e)'
    BY <1>a, <1>6 DEF SendWrites, Close, TypeOK, ServeFollowsMain,
       ConnFollows, StreamFollows, Conn
  <2>4. ASSUME NEW e \in Conn PROVE StreamFollows(e)'
    BY <1>a, <1>6 DEF SendWrites, Close, TypeOK, ConnFollows, StreamFollows,
       StopChanClosed, Conn
  <2>5. OneWriter'
    BY <1>a, <1>6 DEF SendWrites, Close, TypeOK, ConnFollows, StreamFollows, OneWriter,
       Writers, Conn
  <2>6. QED
    BY <2>1, <2>2, <2>3, <2>4, <2>5 DEF IInv
<1>7. CASE HandlerStops(c) \/ StatusGivesUp(c)
  BY <1>a, <1>7 DEF HandlerStops, StatusGivesUp, IInv, TypeOK,
     ServeFollowsMain, ConnFollows, StreamFollows, OneWriter, Writers,
     StopChanClosed
<1>8. CASE StatusTakes(c)
  BY <1>a, <1>8 DEF StatusTakes, IInv, TypeOK, ServeFollowsMain,
     ConnFollows, StreamFollows, OneWriter, Writers, StopChanClosed
<1>9. CASE StatusWrites(c)
  <2>0. over' \in [Conn -> BOOLEAN]
    <3>1. over' = [over EXCEPT ![c] = TRUE]
      BY <1>9 DEF StatusWrites, Close
    <3>2. over \in [Conn -> BOOLEAN] /\ TRUE \in BOOLEAN
      BY <1>a DEF TypeOK
    <3>3. QED
      BY <3>1, <3>2, Zenon
  <2>1. TypeOK'
    BY <1>a, <1>9, <2>0, CloseTypes DEF StatusWrites, TypeOK, OneWriter,
       Writers
  <2>2. ServeFollowsMain'
    BY <1>a, <1>9 DEF StatusWrites, Close, TypeOK, ServeFollowsMain, Conn
  <2>3. ASSUME NEW e \in Conn PROVE ConnFollows(e)'
    BY <1>a, <1>9 DEF StatusWrites, Close, TypeOK, ServeFollowsMain,
       ConnFollows, StreamFollows, Conn
  <2>4. ASSUME NEW e \in Conn PROVE StreamFollows(e)'
    BY <1>a, <1>9 DEF StatusWrites, Close, TypeOK, ConnFollows, StreamFollows,
       StopChanClosed, Conn
  <2>5. OneWriter'
    BY <1>a, <1>9 DEF StatusWrites, Close, TypeOK, ConnFollows, StreamFollows, OneWriter,
       Writers, Conn
  <2>6. QED
    BY <2>1, <2>2, <2>3, <2>4, <2>5 DEF IInv
<1>10. QED
  BY <1>1, <1>2, <1>3, <1>4, <1>5, <1>6, <1>7, <1>8, <1>9
     DEF Controller, Handler

\* IInv is an invariant of the server, however many clients connect.
THEOREM InductiveInvariant == Spec => []IInv
<1>1. IInv /\ Next => IInv'
  BY MainIInv, ServeIInv, ConnectionIInv, HandlerIInv DEF Next, Environment
<1>2. IInv /\ UNCHANGED vars => IInv'
  BY DEF vars, mainVars, serverVars, connVars, transportVars, streamVars, IInv,
     TypeOK, ServeFollowsMain, ConnFollows, StreamFollows, OneWriter, Writers,
     StopChanClosed
<1>3. QED
  BY InitIInv, <1>1, <1>2, PTL DEF Spec

\* Every variable keeps its type; in particular writableChan never holds more
\* than the one right to write there is room for (http2_server.go:182).
THEOREM TypeCorrect == Spec => []TypeOK
<1>1. IInv => TypeOK
  BY DEF IInv
<1>2. QED
  BY InductiveInvariant, <1>1, PTL

\* Stop leaves no connection that is served (server.go:455-600,988-1012 of
\* grpc).
THEOREM StopReachesEveryConnection == Spec => []StopReachesAll
<1>1. IInv => StopReachesAll
  BY DEF IInv, TypeOK, ServeFollowsMain, ConnFollows, Serving, StopReachesAll,
     Stopped
<1>2. QED
  BY InductiveInvariant, <1>1, PTL

\* A connection that is dealt with leaves nothing behind (server.go:509-551 of
\* grpc).
THEOREM DoneStaysClean == Spec => []DoneIsClean
<1>1. IInv => DoneIsClean
  BY DEF IInv, TypeOK, ConnFollows, DoneIsClean
<1>2. QED
  BY InductiveInvariant, <1>1, PTL

\* The right to write is neither doubled nor lost (http2_server.go:747-842,
\* 945-994).
THEOREM OneWriterAtATime == Spec => []OneWriter
<1>1. IInv => OneWriter
  BY DEF IInv
<1>2. QED
  BY InductiveInvariant, <1>1, PTL

-----------------------------------------------------------------------------
(* The server implements Endpoint                                          *)

\* A step that leaves main(), the path and Serve alone is the first handler
\* starting, or a stutter: no handler ends while the server runs.
LEMMA ConnectionActs ==
  ASSUME IInv, IInv', UNCHANGED <<mpc, path, spc>>,
         \A c \in Conn : hpc[c] # "none" => hpc'[c] # "none"
  PROVE  View!Next \/ UNCHANGED View!vars
<1>1. Sock' = Sock /\ ServerState' = ServerState /\ Late' = Late
  BY DEF Sock, ServerState, Late
<1>2. Stream \in BOOLEAN /\ Stream' \in BOOLEAN
  BY Zenon DEF Stream
<1>3. CASE Stream' = Stream
  BY <1>1, <1>3 DEF View!vars
<1>4. CASE Stream = FALSE /\ Stream' = TRUE
  <2>1. PICK c \in Conn : hpc'[c] \notin {"none", "done"}
    BY <1>4 DEF Stream
  <2>2. mpc \in {"dial", "up"}
    BY <1>4 DEF Stream
  <2>3. spc # "spawned"
    BY <2>1 DEF IInv, ServeFollowsMain, ConnFollows, StreamFollows
  <2>4. ServerState = "serving"
    BY <2>2, <2>3 DEF ServerState
  <2>5. QED
    BY <1>1, <1>4, <2>4 DEF View!Next, View!Open
<1>5. CASE Stream = TRUE /\ Stream' = FALSE
  <2>1. PICK c \in Conn : hpc[c] \notin {"none", "done"}
    BY <1>5 DEF Stream
  <2>2. mpc' \in {"dial", "up"}
    BY <1>5 DEF Stream
  <2>3. hpc'[c] = "done"
    BY <1>5, <2>1, <2>2 DEF Stream
  <2>4. QED
    BY <2>2, <2>3 DEF IInv, StreamFollows, StopChanClosed, Stopped
<1>6. QED
  BY <1>2, <1>3, <1>4, <1>5

\* So is a step of main() or Serve that changes neither what DevPlugin sees
\* of them nor a handler, except that it may remove the path.
LEMMA UnseenActs ==
  ASSUME Sock' \in {Sock, "none"}, ServerState' = ServerState,
         Stream' = Stream, Late' = Late
  PROVE  View!Next \/ UNCHANGED View!vars
BY DEF View!Next, View!Wiped, View!vars

\* Before Serve has run there is no handler.
LEMMA NoEarlyHandler ==
  ASSUME IInv, spc \in {"none", "spawned", "late"}
  PROVE  \A c \in Conn : hpc[c] = "none"
BY DEF IInv, ServeFollowsMain, ConnFollows, StreamFollows

\* Every step of main() is a step of Endpoint or a stutter.
LEMMA MainActs ==
  ASSUME IInv, Main \/ StopTakesMaps \/ NextListens \/ PathWiped
  PROVE  View!Next \/ UNCHANGED View!vars
<1> USE DEF Stopping, Stopped, mainVars, serverVars, streamVars
<1>a. TypeOK /\ ServeFollowsMain
  BY DEF IInv
<1>1. CASE Listen
  <2>1. Sock' = "cur" /\ ServerState = "nil" /\ ServerState' = "spawned"
    BY <1>1 DEF Listen, Sock, ServerState
  <2>2. Stream = FALSE /\ Stream' = FALSE
    BY <1>a, <1>1, NoEarlyHandler DEF Listen, Stream, ServeFollowsMain
  <2>3. Late = FALSE /\ Late' = FALSE
    BY <1>1 DEF Listen, Late
  <2>4. QED
    BY <2>1, <2>2, <2>3 DEF View!Next, View!Bind
<1>2. CASE Dial
  <2>1. Sock' = Sock /\ ServerState' = ServerState /\ Stream' = Stream
    BY <1>2 DEF Dial, Connects, Sock, ServerState, Stream
  <2>2. Late' = Late
    BY <1>2 DEF Dial, Connects, Late
  <2>3. QED
    BY <2>1, <2>2, UnseenActs
<1>3. CASE StopTakesMaps
  <2>1. Sock' = "none" /\ ServerState' = "nil" /\ Stream' = FALSE
    BY <1>3 DEF StopTakesMaps, Sock, ServerState, Stream
  <2>2. ServerState # "nil" /\ Late = FALSE
    BY <1>3 DEF StopTakesMaps, ServerState, Late
  <2>3. Late' = (ServerState = "spawned")
    BY <1>a, <1>3 DEF StopTakesMaps, ServerState, Late, ServeFollowsMain, TypeOK
  <2>4. QED
    BY <2>1, <2>2, <2>3 DEF View!Next, View!Stop
<1>4. CASE \/ StopClosesListener \/ (\E c \in Conn : StopClosesConn(c))
           \/ StopReturns \/ CloseStopChan \/ RemovePath
  <2>1. mpc \in Stopping /\ mpc' \in Stopping \cup {"done"} /\ spc' = spc
    BY <1>4 DEF StopClosesListener, StopClosesConn, StopReturns,
       CloseStopChan, RemovePath
  <2>2. Sock = "none" /\ Sock' = "none" /\ ServerState' = ServerState
    BY <2>1 DEF Sock, ServerState
  <2>3. Stream' = Stream /\ Late' = Late
    BY <2>1 DEF Stream, Late
  <2>4. QED
    BY <2>2, <2>3, UnseenActs
<1>5. CASE NextListens
  <2>1. Sock' = "cur" /\ ServerState = "nil" /\ ServerState' = "spawned"
    BY <1>5 DEF NextListens, Sock, ServerState
  <2>2. Stream' = Stream /\ Late' = Late
    BY <1>5 DEF NextListens, Stream, Late
  <2>3. QED
    BY <2>1, <2>2 DEF View!Next, View!Bind
<1>6. CASE PathWiped
  <2>1. Sock' = "none" /\ ServerState' = ServerState /\ Late' = Late
    BY <1>6 DEF PathWiped, Sock, ServerState, Late
  <2>2. Stream' = Stream
    BY <1>6 DEF PathWiped, Stream
  <2>3. QED
    BY <2>1, <2>2, UnseenActs
<1>7. QED
  BY <1>1, <1>2, <1>3, <1>4, <1>5, <1>6 DEF Main

\* Every step of Serve is a step of Endpoint or a stutter.
LEMMA ServeActs ==
  ASSUME IInv, IInv', Serve \/ AcceptTemporaryError
  PROVE  View!Next \/ UNCHANGED View!vars
<1> USE DEF Stopping, Stopped, mainVars, serverVars, streamVars
<1>a. TypeOK /\ ServeFollowsMain
  BY DEF IInv
<1>1. CASE ServeBegins
  <2>1. Sock' = Sock /\ Stream' = Stream
    BY <1>1 DEF ServeBegins, Sock, Stream
  <2>2. CASE maps = "nil"
    <3>1. ServerState' = ServerState /\ Late' = Late
      BY <1>a, <1>1, <2>2 DEF ServeBegins, ServerState, Late, ServeFollowsMain
    <3>2. QED
      BY <2>1, <3>1, UnseenActs
  <2>3. CASE maps # "nil"
    <3>1. mpc \in {"dial", "up"}
      BY <1>a, <1>1, <2>3 DEF ServeBegins, ServeFollowsMain, TypeOK
    <3>2. ServerState = "spawned" /\ ServerState' = "serving" /\ Late' = Late
      BY <1>1, <2>3, <3>1 DEF ServeBegins, ServerState, Late
    <3>3. QED
      BY <2>1, <3>2 DEF View!Next, View!Serve
  <2>4. QED
    BY <2>2, <2>3
<1>2. CASE ServeTooLate
  <2>1. Late = TRUE /\ Late' = FALSE
    BY <1>a, <1>2 DEF ServeTooLate, Late, ServeFollowsMain
  <2>2. Sock' = "none"
    BY <1>a, <1>2 DEF ServeTooLate, CloseListener, Sock, ServeFollowsMain
  <2>3. ServerState' = ServerState /\ Stream' = Stream
    BY <1>a, <1>2 DEF ServeTooLate, ServerState, Stream, ServeFollowsMain
  <2>4. QED
    BY <2>1, <2>2, <2>3 DEF View!Next, View!LateServe
<1>3. CASE AcceptTemporaryError \/ BackoffEnds \/ AcceptError \/ ServeReturns
  <2>1. /\ spc \notin {"spawned", "late"} /\ spc' \notin {"spawned", "late"}
        /\ mpc' = mpc /\ hpc' = hpc /\ path' \in {path, "none"}
    BY <1>3 DEF AcceptTemporaryError, BackoffEnds, AcceptError, ServeReturns,
       CloseListener
  <2>2. Sock' \in {Sock, "none"} /\ ServerState' = ServerState
    BY <2>1 DEF Sock, ServerState
  <2>3. Stream' = Stream /\ Late' = Late
    BY <2>1 DEF Stream, Late
  <2>4. QED
    BY <2>2, <2>3, UnseenActs
<1>4. CASE \E c \in Conn : Accept(c)
  BY <1>4, ConnectionActs DEF Accept
<1>5. QED
  BY <1>1, <1>2, <1>3, <1>4 DEF Serve

\* Every step of a connection's goroutines is one too.
LEMMA ConnectionStepActs ==
  ASSUME IInv, IInv', NEW c \in Conn,
         \/ Connection(c) \/ ClientConnects(c) \/ ClientCloses(c)
         \/ ReadPreface(c) \/ OperateHeaders(c) \/ HandleRSTStream(c)
         \/ KeepaliveCloses(c) \/ Controller(c) \/ Handler(c)
         \/ HandlerStops(c) \/ SendTakes(c) \/ Tick(c)
  PROVE  View!Next \/ UNCHANGED View!vars
<1> USE DEF mainVars, serverVars, streamVars, CGoto, HGoto
<1>a. TypeOK
  BY DEF IInv
<1>1. UNCHANGED <<mpc, path, spc>>
  BY DEF Connection, HandleRawConn, NewServerTransport,
     NewServerTransportFails, AddConn, HandleStream, ReadFails, ConnDone,
     ClientConnects, Connects, ClientCloses, ReadPreface, OperateHeaders,
     HandleRSTStream, KeepaliveCloses, Controller, ControllerTakes,
     ControllerWrites, ControllerEnds, Handler, SendGivesUp, SendWrites,
     StatusTakes, StatusGivesUp, StatusWrites, HandlerStops, SendTakes, Tick
<1>2. \/ hpc' = hpc
      \/ \E p \in {"send", "write", "select", "status", "trailer", "done"} :
           hpc' = [hpc EXCEPT ![c] = p]
  BY DEF Connection, HandleRawConn, NewServerTransport,
     NewServerTransportFails, AddConn, HandleStream, ReadFails, ConnDone,
     ClientConnects, Connects, ClientCloses, ReadPreface, OperateHeaders,
     HandleRSTStream, KeepaliveCloses, Controller, ControllerTakes,
     ControllerWrites, ControllerEnds, Handler, SendGivesUp, SendWrites,
     StatusTakes, StatusGivesUp, StatusWrites, HandlerStops, SendTakes, Tick
<1>3. \A e \in Conn : hpc[e] # "none" => hpc'[e] # "none"
  BY <1>a, <1>2 DEF TypeOK
<1>4. QED
  BY <1>1, <1>3, ConnectionActs

\* The gRPC server of a device implements Endpoint, which is what DevPlugin
\* relies on, for any number of connections (server.go:130-174).
THEOREM ImplementsEndpoint == Spec => ActsAsEndpoint
<1>1. Init => View!Init
  BY DEF Init, View!Init, Sock, ServerState, Stream, Late, Stopping, Stopped
<1>2. IInv /\ IInv' /\ Next => View!Next \/ UNCHANGED View!vars
  BY MainActs, ServeActs, ConnectionStepActs DEF Next, Environment
<1>3. UNCHANGED vars => UNCHANGED View!vars
  BY DEF vars, mainVars, serverVars, streamVars, View!vars, Sock, ServerState,
     Stream, Late
<1>4. IInv /\ IInv' /\ [Next]_vars => [View!Next]_(View!vars)
  BY <1>2, <1>3
<1>5. QED
  BY InductiveInvariant, <1>1, <1>4, PTL DEF Spec, ActsAsEndpoint, View!Spec
=============================================================================
