----------------------------- MODULE FsWatcher ------------------------------
(***************************************************************************)
(* The file system watcher of the device plugin: newFsWatcher of           *)
(* watcher.go and the fsnotify.Watcher behind it (inotify.go,              *)
(* inotify_poller.go), with main() as the reader of its channels and the   *)
(* kernel's inotify queue (external). There is one watch, on the directory *)
(* of the device plugin sockets, and one reader goroutine.                 *)
(***************************************************************************)
EXTENDS Naturals, Sequences, FiniteSets

CONSTANTS
  Other,      \* files of the directory other than kubelet.sock
  MaxQueue,   \* fs.inotify.max_queued_events
  BufEvents,  \* raw events that fit into readEvents' buffer
  MaxOps,     \* bound: operations on the directory
  MaxFaults   \* bound: system calls that fail

ASSUME QueueAssumption == MaxQueue \in Nat \ {0} /\ BufEvents \in Nat \ {0}
ASSUME BoundsAssumption == MaxOps \in Nat /\ MaxFaults \in Nat

VARIABLES
  exists,   \* external: files in the directory
  watch,    \* external: the kernel's watch on it
  kq,       \* external: the kernel's queue of raw events
  fds,      \* open descriptors: inotify, and the poller's epoll and pipe
  pipe,     \* there is a byte in the poller's pipe
  done,     \* the channel of that name is closed
  doneResp, \* the channel of that name is closed, and Events and Errors
  rpc,      \* where readEvents stands
  buf,      \* raw events read and not yet dealt with
  mpc,      \* where main() stands
  unheard,  \* history: kubelet.sock was created, watched, and main() has
            \* received no Create event for it since
  dropped,  \* history: the last creation of kubelet.sock found the queue full
  told,     \* history: main() received ErrEventOverflow since then
  ops, faults  \* how much of each bound is used up

kernelVars == <<exists, watch, kq>>
watcherVars == <<fds, pipe, done, doneResp>>
readerVars == <<rpc, buf>>
historyVars == <<unheard, dropped, told>>
boundVars == <<ops, faults>>
vars == <<kernelVars, watcherVars, readerVars, mpc, historyVars, boundVars>>

Sock == "kubelet.sock"
File == Other \cup {Sock}
Mask == {"create", "delete", "attrib", "overflow"}
Raw == [mask : Mask, file : File \cup {""}]
Descriptor == {"inotify", "epoll", "pipe"}

TypeOK ==
  /\ exists \in SUBSET File /\ watch \in BOOLEAN
  /\ kq \in Seq(Raw) /\ Len(kq) <= MaxQueue + 1
  /\ fds \in SUBSET Descriptor
  /\ pipe \in BOOLEAN /\ done \in BOOLEAN /\ doneResp \in BOOLEAN
  /\ rpc \in {"none", "check", "wait", "read", "error", "next", "overflow",
              "send", "exit", "fin", "gone"}
  /\ buf \in Seq(Raw) /\ Len(buf) <= BufEvents
  /\ mpc \in {"start", "add", "select", "busy", "close", "wake", "join",
              "closed", "failed"}
  /\ unheard \in BOOLEAN /\ dropped \in BOOLEAN /\ told \in BOOLEAN
  /\ ops \in Nat /\ faults \in Nat

Init ==
  /\ exists \in SUBSET {Sock} /\ watch = FALSE /\ kq = <<>>
  /\ fds = {} /\ pipe = FALSE /\ done = FALSE /\ doneResp = FALSE
  /\ rpc = "none" /\ buf = <<>> /\ mpc = "start"
  /\ unheard = FALSE /\ dropped = FALSE /\ told = FALSE
  /\ ops = 0 /\ faults = 0

Fault == faults < MaxFaults /\ faults' = faults + 1 /\ UNCHANGED ops
Read(from, to) == rpc = from /\ rpc' = to
Main(from, to) == mpc = from /\ mpc' = to

-----------------------------------------------------------------------------
(* The directory and the kernel's queue                                    *)

Overflow == [mask |-> "overflow", file |-> ""]
Holds(s, r) == \E i \in 1..Len(s) : s[i] = r

\* The kernel queues a raw event, or one overflow record in its place.
Queued(r) ==
  CASE ~watch -> kq
    [] watch /\ Len(kq) < MaxQueue -> Append(kq, r)
    [] OTHER -> IF Holds(kq, Overflow) THEN kq ELSE Append(kq, Overflow)

Operation ==
  /\ ops < MaxOps /\ ops' = ops + 1
  /\ UNCHANGED <<watch, watcherVars, readerVars, mpc, faults>>

CreateFile(f) ==
  /\ f \notin exists /\ exists' = exists \cup {f}
  /\ kq' = Queued([mask |-> "create", file |-> f])
  /\ IF f = Sock
       THEN /\ unheard' = watch
            /\ dropped' = (watch /\ ~done /\ Len(kq) >= MaxQueue)
            /\ told' = FALSE
       ELSE UNCHANGED historyVars
  /\ Operation

DeleteFile(f) ==
  /\ f \in exists /\ exists' = exists \ {f}
  /\ kq' = Queued([mask |-> "delete", file |-> f])
  /\ UNCHANGED historyVars /\ Operation

\* A chmod, say.
TouchFile(f) ==
  /\ f \in exists /\ kq' = Queued([mask |-> "attrib", file |-> f])
  /\ UNCHANGED <<exists, historyVars>> /\ Operation

-----------------------------------------------------------------------------
(* main(): newFsWatcher and the deferred Close                             *)

NewWatcher ==
  /\ Main("start", "add") /\ fds' = Descriptor /\ rpc' = "check"
  /\ UNCHANGED <<kernelVars, pipe, done, doneResp, buf, historyVars>>
  /\ UNCHANGED boundVars

\* newFdPoller closes what it opened, NewWatcher the inotify descriptor.
NewWatcherFails ==
  /\ Main("start", "failed") /\ Fault
  /\ UNCHANGED <<kernelVars, watcherVars, readerVars, historyVars>>

Add ==
  /\ Main("add", "select") /\ watch' = TRUE
  /\ UNCHANGED <<exists, kq, watcherVars, readerVars, historyVars, boundVars>>

\* newFsWatcher closes the watcher before it returns the error.
AddFails ==
  /\ Main("add", "close") /\ Fault
  /\ UNCHANGED <<kernelVars, watcherVars, readerVars, historyVars>>

\* main() is back from restarting the servers and registering them.
Back ==
  /\ Main("busy", "select")
  /\ UNCHANGED <<kernelVars, watcherVars, readerVars, historyVars, boundVars>>

\* A signal ends the loop.
Quit ==
  /\ Main("select", "close")
  /\ UNCHANGED <<kernelVars, watcherVars, readerVars, historyVars, boundVars>>

\* Close: close(w.done) ...
CloseDone ==
  /\ Main("close", "wake") /\ done' = TRUE
  /\ UNCHANGED <<kernelVars, fds, pipe, doneResp, readerVars, historyVars>>
  /\ UNCHANGED boundVars

\* ... w.poller.wake(), whose error is ignored: the reader may have seen done
\* and closed the pipe already ...
Wake ==
  /\ Main("wake", "join") /\ pipe' = (pipe \/ "pipe" \in fds)
  /\ UNCHANGED <<kernelVars, fds, done, doneResp, readerVars, historyVars>>
  /\ UNCHANGED boundVars

\* ... <-w.doneResp.
Join ==
  /\ Main("join", "closed") /\ doneResp
  /\ UNCHANGED <<kernelVars, watcherVars, readerVars, historyVars, boundVars>>

-----------------------------------------------------------------------------
(* readEvents                                                              *)

Check ==
  /\ rpc = "check" /\ rpc' = IF done THEN "exit" ELSE "wait"
  /\ UNCHANGED <<kernelVars, watcherVars, buf, mpc, historyVars, boundVars>>

\* poller.wait: data, or a byte in the pipe, which is taken out.
Wait ==
  /\ rpc = "wait" /\ (kq # <<>> \/ pipe)
  /\ rpc' = IF kq # <<>> THEN "read" ELSE "check"
  /\ pipe' = FALSE
  /\ UNCHANGED <<kernelVars, fds, done, doneResp, buf, mpc, historyVars>>
  /\ UNCHANGED boundVars

WaitFails ==
  /\ Read("wait", "error") /\ Fault
  /\ UNCHANGED <<kernelVars, watcherVars, buf, mpc, historyVars>>

\* Mutant: the whole queue is read, whatever the size of the buffer.
ReadEventsUnbounded ==
  /\ rpc = "read" /\ rpc' = IF done THEN "exit" ELSE "next"
  /\ buf' = kq /\ kq' = <<>>
  /\ UNCHANGED <<exists, watch, watcherVars, mpc, historyVars, boundVars>>

\* As many events as the buffer takes; when Close came first, none matters.
ReadEvents ==
  LET n == IF Len(kq) < BufEvents THEN Len(kq) ELSE BufEvents
  IN  /\ rpc = "read" /\ rpc' = IF done THEN "exit" ELSE "next"
      /\ buf' = SubSeq(kq, 1, n) /\ kq' = SubSeq(kq, n + 1, Len(kq))
      /\ UNCHANGED <<exists, watch, watcherVars, mpc, historyVars, boundVars>>

\* EINTR, or an error, an EOF or a short read, which are reported.
ReadFails ==
  /\ rpc = "read" /\ rpc' \in {"check", IF done THEN "exit" ELSE "error"}
  /\ Fault
  /\ UNCHANGED <<kernelVars, watcherVars, buf, mpc, historyVars>>

\* newEvent, as far as this plugin's directory needs it.
Op(mask) ==
  CASE mask = "create" -> "Create"
    [] mask = "delete" -> "Remove"
    [] mask = "attrib" -> "Chmod"
    [] mask = "overflow" -> "none"

\* Mutant: the test for a file that is gone is inverted.
IgnoreExisting(r) == Op(r.mask) # "Remove" /\ r.file \in exists

\* ignoreLinux: an event that is not about a removal needs its file, and the
\* empty name of an overflow record is no file's.
IgnoreLinux(r) == Op(r.mask) # "Remove" /\ r.file \notin exists

\* Mutant: an overflow record is skipped like any other record to ignore.
NextEventNoOverflow ==
  /\ rpc = "next" /\ buf # <<>>
  /\ IF IgnoreLinux(Head(buf))
       THEN rpc' = "next" /\ buf' = Tail(buf)
       ELSE rpc' = "send" /\ UNCHANGED buf
  /\ UNCHANGED <<kernelVars, watcherVars, mpc, historyVars, boundVars>>

\* The next event of the buffer.
NextEvent ==
  /\ rpc = "next" /\ buf # <<>>
  /\ CASE Head(buf).mask = "overflow" -> rpc' = "overflow" /\ UNCHANGED buf
       [] Head(buf).mask # "overflow" /\ IgnoreLinux(Head(buf)) ->
            rpc' = "next" /\ buf' = Tail(buf)
       [] OTHER -> rpc' = "send" /\ UNCHANGED buf
  /\ UNCHANGED <<kernelVars, watcherVars, mpc, historyVars, boundVars>>

BufferDone ==
  /\ Read("next", "check") /\ buf = <<>>
  /\ UNCHANGED <<kernelVars, watcherVars, buf, mpc, historyVars, boundVars>>

\* w.Events <- event, and the select of main(): the creation of kubelet.sock
\* restarts the servers, anything else is passed over.
SendEvent ==
  /\ Read("send", "next") /\ mpc = "select"
  /\ buf' = Tail(buf)
  /\ IF Head(buf).file = Sock /\ Op(Head(buf).mask) = "Create"
       THEN mpc' = "busy" /\ unheard' = FALSE
       ELSE UNCHANGED <<mpc, unheard>>
  /\ UNCHANGED <<kernelVars, watcherVars, dropped, told, boundVars>>

\* w.Errors <- ErrEventOverflow, which main() logs. What follows for the
\* record is the path of an event that is ignored.
SendOverflow ==
  /\ Read("overflow", "next") /\ mpc = "select" /\ told' = TRUE
  /\ buf' = Tail(buf)
  /\ UNCHANGED <<kernelVars, watcherVars, mpc, unheard, dropped, boundVars>>

\* w.Errors <- errno, logged as well.
SendError ==
  /\ Read("error", "check") /\ mpc = "select"
  /\ UNCHANGED <<kernelVars, watcherVars, buf, mpc, historyVars, boundVars>>

\* Mutant: only the sends of errors look at done.
GiveUpErrorsOnly ==
  /\ rpc \in {"overflow", "error"} /\ done /\ rpc' = "exit"
  /\ UNCHANGED <<kernelVars, watcherVars, buf, mpc, historyVars, boundVars>>

\* case <-w.done of the three sends
GiveUp ==
  /\ rpc \in {"send", "overflow", "error"} /\ done /\ rpc' = "exit"
  /\ UNCHANGED <<kernelVars, watcherVars, buf, mpc, historyVars, boundVars>>

\* Mutant: doneResp is closed first.
ReleaseRespFirst ==
  /\ Read("exit", "fin") /\ doneResp' = TRUE
  /\ UNCHANGED <<kernelVars, fds, pipe, done, buf, mpc, historyVars>>
  /\ UNCHANGED boundVars

\* The defers, last one first: poller.close and Close(w.fd), with which the
\* kernel drops the watch and the queue; then the three channels.
Release ==
  /\ Read("exit", "fin") /\ fds' = {} /\ watch' = FALSE /\ kq' = <<>>
  /\ UNCHANGED <<exists, pipe, done, doneResp, buf, mpc, historyVars>>
  /\ UNCHANGED boundVars

CloseChannels ==
  /\ Read("fin", "gone") /\ doneResp' = TRUE
  /\ UNCHANGED <<kernelVars, fds, pipe, done, buf, mpc, historyVars>>
  /\ UNCHANGED boundVars

-----------------------------------------------------------------------------
Reader ==
  \/ Check \/ Wait \/ ReadEvents \/ NextEvent \/ BufferDone \/ SendEvent
  \/ SendOverflow \/ SendError \/ GiveUp \/ Release \/ CloseChannels

MainSteps == NewWatcher \/ Add \/ Back \/ CloseDone \/ Wake \/ Join

Environment ==
  \/ NewWatcherFails \/ AddFails \/ Quit \/ WaitFails \/ ReadFails
  \/ \E f \in File : CreateFile(f) \/ DeleteFile(f) \/ TouchFile(f)

Next == Reader \/ MainSteps \/ Environment

\* Both goroutines keep being scheduled, and main() comes back to select.
Fairness == WF_vars(Reader) /\ WF_vars(MainSteps)

Spec == Init /\ [][Next]_vars /\ Fairness

-----------------------------------------------------------------------------
(* Properties                                                              *)

Unread == buf \o kq
Open == mpc \in {"select", "busy"}

\* While the watcher is open, a kubelet.sock that main() has not heard of has
\* its Create event in the buffer or the kernel's queue, or main() has been
\* or will be told of an overflow: neither the test for files that are gone
\* nor a failed system call loses it, however files come and go in between
\* (inotify.go:186-294,300-316, main.go:108-116).
NoSilentLoss ==
  Open /\ unheard /\ Sock \in exists =>
    \/ Holds(Unread, [mask |-> "create", file |-> Sock])
    \/ dropped /\ (told \/ Holds(Unread, Overflow))

\* Close returns only when no descriptor is left and the reader is through
\* with its channels (inotify.go:73-88,180-184, watcher.go:18-21).
ClosedClean == mpc = "closed" => fds = {} /\ rpc = "gone" /\ ~watch

\* Close returns, wherever the reader is: in epoll_wait, in read, or blocked
\* on a channel that main() does not read any more (inotify.go:79-85,194-198,
\* 231-235,250-254,284-288, inotify_poller.go:79-160).
CloseReturns == mpc = "close" ~> mpc = "closed"

\* main() hears of every kubelet.sock that stays, unless it is told of an
\* overflow or ends (inotify.go:284-288, main.go:111-116).
Delivered ==
  unheard /\ Sock \in exists ~>
    ~unheard \/ Sock \notin exists \/ told \/ ~Open

SockCreations ==
  {i \in 1..Len(Unread) : Unread[i] = [mask |-> "create", file |-> Sock]}

\* The watcher is what main() may expect of it: an implementation of
\* EventFeed for kubelet.sock (inotify.go:36-337, main.go:107-116).
Feed ==
  INSTANCE EventFeed
    WITH file <- Sock \in exists,
         watched <- watch /\ ~done,
         events <- IF done THEN 0 ELSE Cardinality(SockCreations),
         overflow <- dropped,
         idle <- mpc = "select"

FeedsEvents == Feed!Spec
=============================================================================
