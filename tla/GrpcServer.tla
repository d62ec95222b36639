----------------------------- MODULE GrpcServer ------------------------------
(***************************************************************************)
(* The gRPC server of one device plugin from net.Listen to the moment      *)
(* nothing is left of it: startGrpcServer, stopGrpcServer and ListAndWatch *)
(* of server.go, and of the vendored google.golang.org/grpc the goroutines *)
(* they start: Server.Serve, handleRawConn and serveStreams per            *)
(* connection, the http2Server transport with its reader, its controller   *)
(* and its keepalive, and the handler of the stream.                       *)
(* A connection carries one stream at most, a ListAndWatch: Allocate       *)
(* returns at once. Of the frames, those that open or end a stream or a    *)
(* connection are kept, and one that has to be answered by the controller, *)
(* the client's settings; window updates only show in when Send has quota. *)
(* Options the plugin leaves at their defaults (credentials, connection    *)
(* age and idle limits, tracing) and pings, which kubelet does not send,   *)
(* are left out.                                                           *)
(***************************************************************************)
EXTENDS Naturals

CONSTANTS
  Client,    \* connections kubelet may make
  Own,       \* the connection the plugin makes to itself
  MaxFaults  \* bound: failing accepts, silent peers, wiped directories

ASSUME OwnAssumption == Own \notin Client
ASSUME BoundsAssumption == MaxFaults \in Nat

Conn == Client \cup {Own}

VARIABLES
  mpc,     \* where main() stands with this server
  path,    \* whose socket file is at unixSockPath: "none", "own", "next"
  lisOpen, \* the listener's descriptor is open
  spc,     \* where the goroutine of Serve stands
  maps,    \* s.lis and s.conns are maps, or "nil" since Stop
  lis,     \* s.lis has the listener; once maps is "nil", Stop has it
  conns,   \* s.conns; once maps is "nil", those Stop has still to close
  cpc,     \* per connection: where the goroutine of handleRawConn stands
  link,    \* per connection: "up", "hup" once the client has closed its end,
           \* "closed" once the server has
  state,   \* per connection: http2Server.state; "none": no transport yet
  token,   \* per connection: rights to write in writableChan, a channel of
           \* capacity 1
  ctl,     \* per connection: its controller goroutine
  ack,     \* per connection: a settings ack waits in controlBuf
  hpc,     \* per connection: where the ListAndWatch handler stands
  over,    \* per connection: the context of the stream is done
  faults   \* how much of the bound is used

mainVars == <<mpc, path, lisOpen>>
serverVars == <<spc, maps, lis, conns>>
connVars == <<cpc, link>>
transportVars == <<state, token, ctl, ack>>
streamVars == <<hpc, over>>
vars == <<mainVars, serverVars, connVars, transportVars, streamVars, faults>>

Stopping == {"closeLis", "closeConns", "closeChan", "remove"}
Stopped == {"done", "next"}

TypeOK ==
  /\ mpc \in {"listen", "dial", "up"} \cup Stopping \cup Stopped
  /\ path \in {"none", "own", "next"}
  /\ lisOpen \in BOOLEAN
  /\ spc \in {"none", "spawned", "late", "accept", "backoff", "return", "ended"}
  /\ maps \in {"made", "nil"}
  /\ lis \in BOOLEAN
  /\ conns \in SUBSET Conn
  /\ cpc \in [Conn -> {"none", "backlog", "raw", "setup", "add", "preface",
                       "serve", "start", "wait", "done"}]
  /\ link \in [Conn -> {"none", "up", "hup", "closed"}]
  /\ state \in [Conn -> {"none", "reachable", "closing"}]
  /\ token \in [Conn -> 0..1]
  /\ ctl \in [Conn -> {"none", "idle", "write"}]
  /\ ack \in [Conn -> BOOLEAN]
  /\ hpc \in [Conn -> {"none", "send", "write", "select", "status",
                       "trailer", "done"}]
  /\ over \in [Conn -> BOOLEAN]
  /\ faults \in Nat

Init ==
  /\ mpc = "listen" /\ path = "none" /\ lisOpen = FALSE
  /\ spc = "none" /\ maps = "made" /\ lis = FALSE /\ conns = {}
  /\ cpc = [c \in Conn |-> "none"]
  /\ link = [c \in Conn |-> "none"]
  /\ state = [c \in Conn |-> "none"]
  /\ token = [c \in Conn |-> 0]
  /\ ctl = [c \in Conn |-> "none"]
  /\ ack = [c \in Conn |-> FALSE]
  /\ hpc = [c \in Conn |-> "none"]
  /\ over = [c \in Conn |-> FALSE]
  /\ faults = 0

Fault == faults < MaxFaults /\ faults' = faults + 1

\* Mutant: nobody closes stopChan.
StopChanNeverClosed == FALSE

StopChanClosed == mpc \in {"remove"} \cup Stopped

\* lis.Close(): the first one unlinks the path, whoever has bound it, and
\* the kernel resets what was in the backlog.
CloseListener ==
  /\ lisOpen' = FALSE
  /\ path' = IF lisOpen THEN "none" ELSE path
  /\ cpc' = [c \in Conn |-> IF cpc[c] = "backlog" THEN "done" ELSE cpc[c]]
  /\ link' = [c \in Conn |-> IF cpc[c] = "backlog" THEN "closed" ELSE link[c]]

\* http2Server.Close(): only the first call does anything.
Close(c) ==
  /\ state' = [state EXCEPT ![c] = "closing"]
  /\ link' = [link EXCEPT ![c] = "closed"]
  /\ over' = [over EXCEPT ![c] = TRUE]

-----------------------------------------------------------------------------
(* main(): startGrpcServer and stopGrpcServer                              *)

\* Remove the path, Listen, NewServer, go Serve.
Listen ==
  /\ mpc = "listen" /\ mpc' = "dial"
  /\ path' = "own" /\ lisOpen' = TRUE /\ spc' = "spawned"
  /\ UNCHANGED <<maps, lis, conns, connVars, transportVars, streamVars, faults>>

\* A client's connect succeeds from the backlog.
Connects(c) ==
  /\ cpc[c] = "none" /\ path = "own" /\ lisOpen
  /\ cpc' = [cpc EXCEPT ![c] = "backlog"]
  /\ link' = [link EXCEPT ![c] = "up"]
  /\ UNCHANGED <<path, lisOpen, serverVars, transportVars, streamVars>>
  /\ UNCHANGED faults

\* connectGrpcServer to the plugin's own socket.
Dial == mpc = "dial" /\ mpc' = "up" /\ Connects(Own)

\* Stop(), under the lock: take over both maps.
StopTakesMaps ==
  /\ mpc = "up" /\ mpc' = "closeLis" /\ maps' = "nil"
  /\ UNCHANGED <<path, lisOpen, spc, lis, conns, connVars, transportVars>>
  /\ UNCHANGED <<streamVars, faults>>

\* Stop(): close the listeners Serve has registered ...
StopClosesListener ==
  /\ mpc = "closeLis" /\ mpc' = "closeConns"
  /\ IF lis THEN CloseListener ELSE UNCHANGED <<lisOpen, path, connVars>>
  /\ lis' = FALSE
  /\ UNCHANGED <<spc, maps, conns, transportVars, streamVars, faults>>

\* ... then the transports ...
StopClosesConn(c) ==
  /\ mpc = "closeConns" /\ c \in conns
  /\ conns' = conns \ {c} /\ Close(c)
  /\ UNCHANGED <<mainVars, spc, maps, lis, cpc, token, ctl, ack>>
  /\ UNCHANGED <<hpc, faults>>

\* ... and cancel. gRpcServer is nil, isRigistered FALSE.
StopReturns ==
  /\ mpc = "closeConns" /\ conns = {} /\ mpc' = "closeChan"
  /\ UNCHANGED <<path, lisOpen, serverVars, connVars, transportVars>>
  /\ UNCHANGED <<streamVars, faults>>

CloseStopChan ==
  /\ mpc = "closeChan" /\ mpc' = "remove"
  /\ UNCHANGED <<path, lisOpen, serverVars, connVars, transportVars>>
  /\ UNCHANGED <<streamVars, faults>>

RemovePath ==
  /\ mpc = "remove" /\ mpc' = "done" /\ path' = "none"
  /\ UNCHANGED <<lisOpen, serverVars, connVars, transportVars, streamVars>>
  /\ UNCHANGED faults

\* The next manager binds the path for a server of its own.
NextListens ==
  /\ mpc = "done" /\ mpc' = "next" /\ path' = "next"
  /\ UNCHANGED <<lisOpen, serverVars, connVars, transportVars, streamVars>>
  /\ UNCHANGED faults

-----------------------------------------------------------------------------
(* Server.Serve                                                            *)

\* Mutant: s.lis is not tested for nil.
ServeBeginsUnchecked ==
  /\ spc = "spawned" /\ spc' = "accept" /\ lis' = TRUE
  /\ UNCHANGED <<mainVars, maps, conns, connVars, transportVars, streamVars>>
  /\ UNCHANGED faults

ServeBegins ==
  /\ spc = "spawned"
  /\ IF maps = "nil" THEN spc' = "late" /\ lis' = lis
                     ELSE spc' = "accept" /\ lis' = TRUE
  /\ UNCHANGED <<mainVars, maps, conns, connVars, transportVars, streamVars>>
  /\ UNCHANGED faults

\* The server is stopped: close the listener, ErrServerStopped.
ServeTooLate ==
  /\ spc = "late" /\ spc' = "ended" /\ CloseListener
  /\ UNCHANGED <<mpc, maps, lis, conns, transportVars, streamVars>>
  /\ UNCHANGED faults

Accept(c) ==
  /\ spc = "accept" /\ lisOpen /\ cpc[c] = "backlog"
  /\ cpc' = [cpc EXCEPT ![c] = "raw"]
  /\ UNCHANGED <<mainVars, serverVars, link, transportVars, streamVars, faults>>

\* No descriptor is left: sleep and try again.
AcceptTemporaryError ==
  /\ spc = "accept" /\ lisOpen /\ Fault /\ spc' = "backoff"
  /\ UNCHANGED <<mainVars, maps, lis, conns, connVars, transportVars>>
  /\ UNCHANGED streamVars

\* The delay is over, or Stop has called cancel.
BackoffEnds ==
  /\ spc = "backoff" /\ spc' = "accept"
  /\ UNCHANGED <<mainVars, maps, lis, conns, connVars, transportVars>>
  /\ UNCHANGED <<streamVars, faults>>

\* Any other error, as after lis.Close().
AcceptError ==
  /\ spc = "accept" /\ spc' = "return"
  /\ (~lisOpen /\ UNCHANGED faults) \/ (lisOpen /\ Fault)
  /\ UNCHANGED <<mainVars, maps, lis, conns, connVars, transportVars>>
  /\ UNCHANGED streamVars

\* The deferred function.
ServeReturns ==
  /\ spc = "return" /\ spc' = "ended"
  /\ IF maps = "made" /\ lis THEN CloseListener /\ lis' = FALSE
                             ELSE UNCHANGED <<lisOpen, path, connVars, lis>>
  /\ UNCHANGED <<mpc, maps, conns, transportVars, streamVars, faults>>

-----------------------------------------------------------------------------
(* handleRawConn, serveHTTP2Transport, serveStreams                        *)

CGoto(c, from, to) == cpc[c] = from /\ cpc' = [cpc EXCEPT ![c] = to]

\* s.conns == nil: close the connection; there is no transport yet.
HandleRawConn(c) ==
  /\ \/ /\ maps = "nil" /\ CGoto(c, "raw", "done")
        /\ link' = [link EXCEPT ![c] = "closed"]
     \/ maps = "made" /\ CGoto(c, "raw", "setup") /\ UNCHANGED link
  /\ UNCHANGED <<mainVars, serverVars, transportVars, streamVars, faults>>

\* newHTTP2Server: write the settings, start controller and keepalive, put
\* the right to write into writableChan.
NewServerTransport(c) ==
  /\ link[c] = "up" /\ CGoto(c, "setup", "add")
  /\ state' = [state EXCEPT ![c] = "reachable"]
  /\ token' = [token EXCEPT ![c] = @ + 1]
  /\ ctl' = [ctl EXCEPT ![c] = "idle"]
  /\ UNCHANGED <<mainVars, serverVars, link, ack, streamVars, faults>>

\* The client is gone already: the settings cannot be written.
NewServerTransportFails(c) ==
  /\ link[c] = "hup" /\ CGoto(c, "setup", "done")
  /\ link' = [link EXCEPT ![c] = "closed"]
  /\ UNCHANGED <<mainVars, serverVars, transportVars, streamVars, faults>>

\* Mutant: addConn does not look whether the server is stopped.
AddConnUnchecked(c) ==
  /\ CGoto(c, "add", "preface") /\ conns' = conns \cup {c}
  /\ UNCHANGED <<mainVars, spc, maps, lis, link, transportVars>>
  /\ UNCHANGED <<streamVars, faults>>

AddConn(c) ==
  /\ \/ /\ maps = "made" /\ CGoto(c, "add", "preface")
        /\ conns' = conns \cup {c} /\ UNCHANGED <<state, link, over>>
     \/ /\ maps = "nil" /\ CGoto(c, "add", "done")
        /\ Close(c) /\ UNCHANGED conns
  /\ UNCHANGED <<mainVars, spc, maps, lis, token, ctl, ack>>
  /\ UNCHANGED <<hpc, faults>>

\* HandleStreams: the client's preface and its settings.
ReadPreface(c) ==
  /\ link[c] # "closed" /\ CGoto(c, "preface", "serve")
  /\ ack' = [ack EXCEPT ![c] = TRUE]
  /\ UNCHANGED <<mainVars, serverVars, link, state, token, ctl>>
  /\ UNCHANGED <<streamVars, faults>>

\* operateHeaders: a stream is registered unless the transport is closing.
OperateHeaders(c) ==
  /\ c # Own /\ CGoto(c, "serve", "start") /\ hpc[c] = "none" /\ state[c] = "reachable"
  /\ UNCHANGED <<mainVars, serverVars, link, transportVars, streamVars>>
  /\ UNCHANGED faults

\* handle(s): ListAndWatch runs in a goroutine of its own and sends.
HandleStream(c) ==
  /\ CGoto(c, "start", "serve") /\ hpc' = [hpc EXCEPT ![c] = "send"]
  /\ UNCHANGED <<mainVars, serverVars, link, transportVars, over, faults>>

\* handleRSTStream: the client gives up the stream.
HandleRSTStream(c) ==
  /\ cpc[c] = "serve" /\ hpc[c] # "none" /\ link[c] # "closed" /\ ~over[c]
  /\ over' = [over EXCEPT ![c] = TRUE]
  /\ UNCHANGED <<mainVars, serverVars, connVars, transportVars, hpc, faults>>

\* The reader meets the end of the connection: Close, leave HandleStreams.
ReadFails(c) ==
  /\ CGoto(c, "preface", "wait") \/ CGoto(c, "serve", "wait")
  /\ link[c] # "up"
  /\ Close(c)
  /\ UNCHANGED <<mainVars, serverVars, token, ctl, ack, hpc, faults>>

\* Mutant: removeConn is not deferred.
ConnDoneKeepsConn(c) ==
  /\ CGoto(c, "wait", "done") /\ hpc[c] \in {"none", "done"}
  /\ UNCHANGED <<mainVars, serverVars, link, transportVars, streamVars>>
  /\ UNCHANGED faults

\* wg.Wait(), and the deferred calls: Close (again) and removeConn.
ConnDone(c) ==
  /\ CGoto(c, "wait", "done") /\ hpc[c] \in {"none", "done"}
  /\ conns' = IF maps = "made" THEN conns \ {c} ELSE conns
  /\ UNCHANGED <<mainVars, spc, maps, lis, link, transportVars>>
  /\ UNCHANGED <<streamVars, faults>>

-----------------------------------------------------------------------------
(* http2Server: controller and keepalive                                   *)

\* The controller takes the ack from controlBuf and the right to write.
ControllerTakes(c) ==
  /\ ctl[c] = "idle" /\ ack[c] /\ token[c] = 1
  /\ ctl' = [ctl EXCEPT ![c] = "write"]
  /\ ack' = [ack EXCEPT ![c] = FALSE]
  /\ token' = [token EXCEPT ![c] = @ - 1]
  /\ UNCHANGED <<mainVars, serverVars, connVars, state, streamVars, faults>>

\* It has written the frame, or failed to, and gives the right back.
ControllerWrites(c) ==
  /\ ctl[c] = "write" /\ ctl' = [ctl EXCEPT ![c] = "idle"]
  /\ token' = [token EXCEPT ![c] = @ + 1]
  /\ UNCHANGED <<mainVars, serverVars, connVars, state, ack, streamVars>>
  /\ UNCHANGED faults

\* shutdownChan is closed.
ControllerEnds(c) ==
  /\ ctl[c] = "idle" /\ state[c] = "closing"
  /\ ctl' = [ctl EXCEPT ![c] = "none"]
  /\ UNCHANGED <<mainVars, serverVars, connVars, state, token, ack>>
  /\ UNCHANGED <<streamVars, faults>>

\* The peer has not answered the ping that follows two silent hours.
KeepaliveCloses(c) ==
  /\ state[c] = "reachable" /\ Fault /\ Close(c)
  /\ UNCHANGED <<mainVars, serverVars, cpc, token, ctl, ack, hpc>>

-----------------------------------------------------------------------------
(* ListAndWatch, with Send (http2Server.Write) and WriteStatus             *)

HGoto(c, from, to) == hpc[c] = from /\ hpc' = [hpc EXCEPT ![c] = to]
Ended(c) == over[c] \/ state[c] = "closing"

\* Write: quota for the data, then the right to write. A client that does
\* not read leaves the handler without quota.
SendTakes(c) ==
  /\ token[c] = 1 /\ HGoto(c, "send", "write")
  /\ token' = [token EXCEPT ![c] = @ - 1]
  /\ UNCHANGED <<mainVars, serverVars, connVars, state, ctl, ack, over>>
  /\ UNCHANGED faults

\* Mutant: the right to write is put into the channel without having been
\* taken from it.
SendGivesUpPuts(c) ==
  /\ Ended(c) /\ HGoto(c, "send", "select")
  /\ token' = [token EXCEPT ![c] = @ + 1]
  /\ UNCHANGED <<mainVars, serverVars, connVars, state, ctl, ack, over, faults>>

\* The stream or the transport ended while it waited: the error Send returns
\* is not looked at.
SendGivesUp(c) ==
  /\ Ended(c) /\ HGoto(c, "send", "select")
  /\ UNCHANGED <<mainVars, serverVars, connVars, transportVars, over, faults>>

\* Mutant: the right to write is lost when the stream has ended.
SendWritesKeepsToken(c) ==
  /\ HGoto(c, "write", "select")
  /\ \/ link[c] # "up" /\ Close(c) /\ UNCHANGED token
     \/ /\ link[c] = "up" \/ over[c]
        /\ token' = [token EXCEPT ![c] = IF over[c] THEN @ ELSE @ + 1]
        /\ UNCHANGED <<state, link, over>>
  /\ UNCHANGED <<mainVars, serverVars, cpc, ctl, ack, faults>>

\* A frame that cannot be written closes the transport, and then the right to
\* write is not given back; data of a stream that has ended are not written,
\* the headers before the first message are.
SendWrites(c) ==
  /\ HGoto(c, "write", "select")
  /\ \/ link[c] # "up" /\ Close(c) /\ UNCHANGED token
     \/ /\ link[c] = "up" \/ over[c]
        /\ token' = [token EXCEPT ![c] = @ + 1] /\ UNCHANGED <<state, link, over>>
  /\ UNCHANGED <<mainVars, serverVars, cpc, ctl, ack, faults>>

\* case <-ticker.C
Tick(c) ==
  /\ HGoto(c, "select", "send")
  /\ UNCHANGED <<mainVars, serverVars, connVars, transportVars, over, faults>>

\* case <-plugin.stopChan: return nil, and processStreamingRPC goes on to
\* WriteStatus.
HandlerStops(c) ==
  /\ StopChanClosed /\ HGoto(c, "select", "status")
  /\ UNCHANGED <<mainVars, serverVars, connVars, transportVars, over, faults>>

StatusTakes(c) ==
  /\ token[c] = 1 /\ HGoto(c, "status", "trailer")
  /\ token' = [token EXCEPT ![c] = @ - 1]
  /\ UNCHANGED <<mainVars, serverVars, connVars, state, ctl, ack, over>>
  /\ UNCHANGED faults

StatusGivesUp(c) ==
  /\ Ended(c) /\ HGoto(c, "status", "done")
  /\ UNCHANGED <<mainVars, serverVars, connVars, transportVars, over, faults>>

StatusWrites(c) ==
  /\ HGoto(c, "trailer", "done")
  /\ IF link[c] # "up"
     THEN Close(c) /\ UNCHANGED token
     ELSE /\ token' = [token EXCEPT ![c] = @ + 1]
          /\ over' = [over EXCEPT ![c] = TRUE] /\ UNCHANGED <<state, link>>
  /\ UNCHANGED <<mainVars, serverVars, cpc, ctl, ack, faults>>

-----------------------------------------------------------------------------
(* Clients                                                                 *)

ClientConnects(c) ==
  c # Own /\ mpc \notin {"listen", "dial"} /\ Connects(c) /\ UNCHANGED mpc

ClientCloses(c) ==
  /\ link[c] = "up" /\ link' = [link EXCEPT ![c] = "hup"]
  /\ UNCHANGED <<mainVars, serverVars, cpc, transportVars, streamVars>>
  /\ UNCHANGED faults

\* A starting kubelet empties the directory.
PathWiped ==
  /\ path # "none" /\ path' = "none" /\ Fault
  /\ UNCHANGED <<mpc, lisOpen, serverVars, connVars, transportVars, streamVars>>

-----------------------------------------------------------------------------
Main ==
  \/ Listen \/ Dial \/ StopClosesListener \/ StopReturns \/ CloseStopChan
  \/ RemovePath \/ (\E c \in Conn : StopClosesConn(c))

Serve ==
  \/ ServeBegins \/ ServeTooLate \/ BackoffEnds \/ AcceptError \/ ServeReturns
  \/ \E c \in Conn : Accept(c)

Connection(c) ==
  \/ HandleRawConn(c) \/ NewServerTransport(c) \/ NewServerTransportFails(c)
  \/ AddConn(c) \/ HandleStream(c) \/ ReadFails(c) \/ ConnDone(c)

Controller(c) == ControllerTakes(c) \/ ControllerWrites(c) \/ ControllerEnds(c)

Handler(c) ==
  \/ SendGivesUp(c) \/ SendWrites(c)
  \/ StatusTakes(c) \/ StatusGivesUp(c) \/ StatusWrites(c)

Environment ==
  \/ StopTakesMaps \/ NextListens \/ AcceptTemporaryError \/ PathWiped
  \/ \E c \in Conn :
       \/ ClientConnects(c) \/ ClientCloses(c) \/ ReadPreface(c)
       \/ OperateHeaders(c) \/ HandleRSTStream(c) \/ KeepaliveCloses(c)
       \/ SendTakes(c) \/ Tick(c)

Next ==
  \/ Main \/ Serve \/ Environment
  \/ \E c \in Conn :
       \/ Connection(c) \/ Controller(c) \/ Handler(c) \/ HandlerStops(c)

\* Every goroutine that can go on does, and select does not for ever prefer
\* the ticker to a closed stopChan. Nothing is assumed of clients, of quota,
\* or of when main() calls stopGrpcServer.
Fairness ==
  /\ WF_vars(Main) /\ WF_vars(Serve)
  /\ \A c \in Conn :
       /\ WF_vars(Connection(c)) /\ WF_vars(Controller(c))
       /\ WF_vars(Handler(c)) /\ SF_vars(HandlerStops(c))

Spec == Init /\ [][Next]_vars /\ Fairness

-----------------------------------------------------------------------------
(* Properties                                                              *)

\* Once Stop has returned no connection is served any more: one that is
\* still open is in the hands of a goroutine that has yet to find out, under
\* the lock, that the server is stopped, whatever the order in which Accept,
\* handleRawConn, addConn and Stop came (server.go:450-599,988-1012 of grpc).
StopReachesAll ==
  mpc \in {"closeChan", "remove"} \cup Stopped =>
    \A c \in Conn :
      link[c] \in {"up", "hup"} => cpc[c] \in {"backlog", "raw", "setup", "add"}

\* A goroutine that has dealt with its connection leaves neither the
\* descriptor open nor an entry in s.conns (server.go:493-527,601-608 of grpc).
DoneIsClean ==
  \A c \in Conn :
    cpc[c] = "done" =>
      /\ link[c] = "closed" /\ state[c] # "reachable"
      /\ maps = "made" => c \notin conns

Writers(c) ==
  (IF ctl[c] = "write" THEN 1 ELSE 0)
    + (IF hpc[c] \in {"write", "trailer"} THEN 1 ELSE 0)

\* The right to write is never held twice, so frames are never mixed up, and
\* never lost while the transport is in use, which would block all later
\* writes (http2_server.go:747-842,945-994).
OneWriter ==
  \A c \in Conn :
    LET n == Writers(c) + token[c]
    IN  n <= 1 /\ (state[c] = "reachable" => n = 1)

\* Nothing of the server is left.
Quiet ==
  /\ spc = "ended" /\ ~lisOpen
  /\ \A c \in Conn :
       /\ cpc[c] \in {"none", "done"} /\ link[c] \in {"none", "closed"}
       /\ ctl[c] = "none" /\ hpc[c] \in {"none", "done"}

\* stopGrpcServer brings every goroutine of the server to an end and closes
\* every descriptor, although it waits for none of them and ListAndWatch
\* looks at nothing but stopChan (server.go:162-174,236-250).
EverythingEnds == mpc = "closeLis" ~> Quiet

\* What DevPlugin sees of the server: the path, the server and its Serve
\* goroutine, whether a handler runs, and whether Serve comes too late. What
\* stopGrpcServer is about to do counts as done.
Sock ==
  IF path # "none" /\ mpc \in {"dial", "up", "next"} THEN "cur" ELSE "none"

ServerState ==
  CASE mpc \in {"dial", "up"} -> IF spc = "spawned" THEN "spawned" ELSE "serving"
    [] mpc = "next" -> "spawned"
    [] OTHER -> "nil"

Stream ==
  mpc \in {"dial", "up"} /\ \E c \in Conn : hpc[c] \notin {"none", "done"}

Late == mpc \in Stopping \cup Stopped /\ spc \in {"spawned", "late"}

View ==
  INSTANCE Endpoint
    WITH sock <- Sock, server <- ServerState, stream <- Stream, late <- Late

\* The server is what DevPlugin takes it to be, whatever the order in which
\* Serve, the connections and stopGrpcServer come (server.go:130-174).
ActsAsEndpoint == View!Spec
=============================================================================
