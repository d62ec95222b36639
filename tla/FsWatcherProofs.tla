--------------------------- MODULE FsWatcherProofs ---------------------------
(***************************************************************************)
(* Theorems about FsWatcher, for every size of the kernel's queue and of   *)
(* the buffer of readEvents, every set of files and any number of          *)
(* operations and faults.                                                  *)
(***************************************************************************)
EXTENDS FsWatcher, FiniteSetTheorems, SequenceTheorems, TLAPS

-----------------------------------------------------------------------------
(* The inductive invariant                                                 *)

Creation == [mask |-> "create", file |-> Sock]

\* What main() has done with the watcher tells what there is of it: the
\* reader from NewWatcher on, the watch from Add on, done from Close on.
ReaderFollowsMain ==
  /\ rpc = "none" <=> mpc \in {"start", "failed"}
  /\ done <=> mpc \in {"wake", "join", "closed"}
  /\ mpc \in {"start", "add", "failed"} => ~watch
  /\ Open => watch
  /\ mpc = "closed" => doneResp

\* How far the reader has come with its end: it ends only when it is told
\* to, closes its descriptors, with which the watch goes, then its channels.
EndFollowsDone ==
  /\ rpc \in {"exit", "fin", "gone"} => done
  /\ doneResp <=> rpc = "gone"
  /\ fds = IF rpc \in {"none", "fin", "gone"} THEN {} ELSE Descriptor
  /\ rpc \in {"fin", "gone"} => ~watch

\* What the reader has in its hands: nothing before read, and the event it
\* is about to send is the first of the buffer.
BufferFollowsReader ==
  /\ rpc \in {"none", "check", "wait", "read", "error"} => buf = <<>>
  /\ rpc = "send" => buf # <<>> /\ Head(buf).mask # "overflow"
  /\ rpc = "overflow" => buf # <<>> /\ Head(buf).mask = "overflow"

\* Without a watch there are no events, and a queue that is over its limit
\* has its overflow record. A record without a file's name is such a record.
QueueFollowsWatch ==
  /\ ~watch => kq = <<>>
  /\ ~watch /\ ~done => buf = <<>> /\ ~unheard
  /\ Len(kq) > MaxQueue => Holds(kq, Overflow)

IInv ==
  /\ TypeOK
  /\ ReaderFollowsMain
  /\ EndFollowsDone
  /\ BufferFollowsReader
  /\ QueueFollowsWatch
  /\ NoSilentLoss

-----------------------------------------------------------------------------
(* Sequences of raw events                                                 *)

\* A record is in a concatenation when it is in one of its parts.
LEMMA HoldsConcat ==
  ASSUME NEW S, NEW s \in Seq(S), NEW t \in Seq(S), NEW r
  PROVE  Holds(s \o t, r) <=> Holds(s, r) \/ Holds(t, r)
<1>1. /\ Len(s \o t) = Len(s) + Len(t)
      /\ \A i \in 1 .. Len(s) + Len(t) :
           (s \o t)[i] = IF i <= Len(s) THEN s[i] ELSE t[i - Len(s)]
      /\ Len(s) \in Nat /\ Len(t) \in Nat
  BY ConcatProperties, LenProperties
<1>2. ASSUME NEW i \in 1..Len(t), t[i] = r
      PROVE  Holds(s \o t, r)
  <2>1. Len(s) + i \in 1..Len(s \o t) /\ (s \o t)[Len(s) + i] = r
    BY <1>1, <1>2
  <2>2. QED
    BY <2>1 DEF Holds
<1>3. ASSUME NEW i \in 1..Len(s), s[i] = r
      PROVE  Holds(s \o t, r)
  <2>1. i \in 1..Len(s \o t) /\ (s \o t)[i] = r
    BY <1>1, <1>3
  <2>2. QED
    BY <2>1 DEF Holds
<1>4. ASSUME NEW i \in 1..Len(s \o t), (s \o t)[i] = r
      PROVE  Holds(s, r) \/ Holds(t, r)
  <2>1. CASE i <= Len(s)
    BY <1>1, <1>4, <2>1 DEF Holds
  <2>2. CASE ~(i <= Len(s))
    <3>1. i - Len(s) \in 1..Len(t) /\ t[i - Len(s)] = r
      BY <1>1, <1>4, <2>2
    <3>2. QED
      BY <3>1 DEF Holds
  <2>3. QED
    BY <2>1, <2>2
<1>5. QED
  BY <1>2, <1>3, <1>4 DEF Holds

\* An append adds one record, a Tail takes the first away.
LEMMA HoldsAppend ==
  ASSUME NEW S, NEW s \in Seq(S), NEW e \in S, NEW r
  PROVE  Holds(Append(s, e), r) <=> Holds(s, r) \/ e = r
<1>1. /\ Len(Append(s, e)) = Len(s) + 1 /\ Len(s) \in Nat
      /\ \A i \in 1..Len(s) : Append(s, e)[i] = s[i]
      /\ Append(s, e)[Len(s) + 1] = e
  BY AppendProperties, LenProperties
<1>2. \A i : i \in 1..(Len(s) + 1) <=> i \in 1..Len(s) \/ i = Len(s) + 1
  BY <1>1
<1>3. QED
  BY <1>1, <1>2 DEF Holds

LEMMA HoldsTail ==
  ASSUME NEW S, NEW s \in Seq(S), s # <<>>, NEW r
  PROVE  Holds(s, r) <=> Head(s) = r \/ Holds(Tail(s), r)
<1>1. /\ Len(Tail(s)) = Len(s) - 1 /\ Len(s) \in Nat \ {0}
      /\ \A i \in 1..Len(Tail(s)) : Tail(s)[i] = s[i + 1]
      /\ Head(s) = s[1]
  BY HeadTailProperties, LenProperties, EmptySeq
<1>2. ASSUME NEW i \in 1..Len(s), s[i] = r, Head(s) # r
      PROVE  Holds(Tail(s), r)
  <2>1. i - 1 \in 1..Len(Tail(s)) /\ Tail(s)[i - 1] = r
    BY <1>1, <1>2
  <2>2. QED
    BY <2>1 DEF Holds
<1>3. ASSUME NEW i \in 1..Len(Tail(s)), Tail(s)[i] = r
      PROVE  Holds(s, r)
  <2>1. i + 1 \in 1..Len(s) /\ s[i + 1] = r
    BY <1>1, <1>3
  <2>2. QED
    BY <2>1 DEF Holds
<1>4. Head(s) = r => Holds(s, r)
  BY <1>1 DEF Holds
<1>5. QED
  BY <1>2, <1>3, <1>4 DEF Holds

\* The two records the invariant speaks of.
LEMMA RecordFields ==
  /\ Creation.mask = "create" /\ Creation.file = Sock
  /\ Overflow.mask = "overflow" /\ Overflow.file = ""
BY DEF Creation, Overflow

\* What read leaves in the kernel's queue and what it takes are all there
\* was.
LEMMA ReadSplits ==
  ASSUME NEW S, NEW s \in Seq(S), NEW n \in 0..Len(s)
  PROVE  /\ SubSeq(s, 1, n) \in Seq(S) /\ SubSeq(s, n + 1, Len(s)) \in Seq(S)
         /\ Len(SubSeq(s, 1, n)) = n
         /\ Len(SubSeq(s, n + 1, Len(s))) = Len(s) - n
         /\ SubSeq(s, 1, n) \o SubSeq(s, n + 1, Len(s)) = s
<1>1. Len(s) \in Nat /\ \A i \in 1..Len(s) : s[i] \in S
  BY LenProperties, ElementOfSeq
<1>2. SubSeq(s, 1, n) \in Seq(S) /\ Len(SubSeq(s, 1, n)) = n
  <2>1. \A i \in 1..n : s[i] \in S
    BY <1>1
  <2>2. n \in Int /\ 1 \in Int /\ n \in Nat
    BY <1>1
  <2>3. SubSeq(s, 1, n) \in Seq(S)
        /\ Len(SubSeq(s, 1, n)) = IF 1 <= n THEN n - 1 + 1 ELSE 0
    BY <2>1, <2>2, SubSeqProperties
  <2>4. QED
    BY <2>2, <2>3
<1>3. /\ SubSeq(s, n + 1, Len(s)) \in Seq(S)
      /\ Len(SubSeq(s, n + 1, Len(s))) = Len(s) - n
  <2>1. \A i \in (n + 1)..Len(s) : s[i] \in S
    BY <1>1
  <2>2. n + 1 \in Int /\ Len(s) \in Int
    BY <1>1
  <2>3. SubSeq(s, n + 1, Len(s)) \in Seq(S)
        /\ Len(SubSeq(s, n + 1, Len(s))) =
             IF n + 1 <= Len(s) THEN Len(s) - (n + 1) + 1 ELSE 0
    BY <2>1, <2>2, SubSeqProperties
  <2>4. QED
    BY <1>1, <2>3
<1>4. SubSeq(s, 1, n) \o SubSeq(s, n + 1, Len(s)) = s
  <2>1. 1 \in 1..(Len(s) + 1) /\ n \in (1 - 1)..Len(s) /\ Len(s) \in n..Len(s)
    BY <1>1
  <2>2. SubSeq(s, 1, n) \o SubSeq(s, n + 1, Len(s)) = SubSeq(s, 1, Len(s))
    BY <2>1, ConcatAdjacentSubSeq
  <2>3. QED
    BY <2>2, SubSeqFull
<1>5. QED
  BY <1>2, <1>3, <1>4

\* What the kernel does with one more raw event.
LEMMA QueuedFacts ==
  ASSUME TypeOK, QueueFollowsWatch, NEW r \in Raw
  PROVE  /\ Queued(r) \in Seq(Raw) /\ Len(Queued(r)) <= MaxQueue + 1
         /\ \A x : Holds(kq, x) => Holds(Queued(r), x)
         /\ Len(Queued(r)) > MaxQueue => Holds(Queued(r), Overflow)
         /\ watch /\ Len(kq) < MaxQueue => Holds(Queued(r), r)
         /\ watch /\ Len(kq) >= MaxQueue => Holds(Queued(r), Overflow)
         /\ ~watch => Queued(r) = kq
<1>1. /\ MaxQueue \in Nat /\ kq \in Seq(Raw) /\ Len(kq) \in Nat
      /\ Len(kq) <= MaxQueue + 1 /\ watch \in BOOLEAN
      /\ Len(kq) > MaxQueue => Holds(kq, Overflow)
  BY QueueAssumption, LenProperties DEF TypeOK, QueueFollowsWatch
<1>2. Overflow \in Raw
  BY DEF Overflow, Raw, Mask
<1>3. ASSUME NEW e \in Raw
      PROVE  /\ Append(kq, e) \in Seq(Raw) /\ Len(Append(kq, e)) = Len(kq) + 1
             /\ \A x : Holds(kq, x) => Holds(Append(kq, e), x)
             /\ Holds(Append(kq, e), e)
  BY <1>1, AppendProperties, HoldsAppend
<1>4. CASE ~watch
  BY <1>1, <1>4 DEF Queued
<1>5. CASE watch /\ Len(kq) < MaxQueue
  <2>1. Queued(r) = Append(kq, r)
    BY <1>5 DEF Queued
  <2>2. QED
    BY <1>1, <1>3, <1>5, <2>1
<1>6. CASE watch /\ Len(kq) >= MaxQueue
  <2>1. Queued(r) = IF Holds(kq, Overflow) THEN kq ELSE Append(kq, Overflow)
    BY <1>1, <1>6 DEF Queued
  <2>2. CASE Holds(kq, Overflow)
    BY <1>1, <1>6, <2>1, <2>2
  <2>3. CASE ~Holds(kq, Overflow)
    <3>1. Queued(r) = Append(kq, Overflow) /\ Len(kq) = MaxQueue
      BY <1>1, <1>6, <2>1, <2>3
    <3>2. QED
      BY <1>1, <1>2, <1>3, <1>6, <3>1
  <2>4. QED
    BY <2>2, <2>3
<1>7. QED
  BY <1>1, <1>4, <1>5, <1>6

-----------------------------------------------------------------------------
(* Preservation                                                            *)

\* Where an event may be that main() has not got yet.
LEMMA UnreadHolds ==
  ASSUME TypeOK, NEW r
  PROVE  Holds(Unread, r) <=> Holds(buf, r) \/ Holds(kq, r)
BY HoldsConcat DEF TypeOK, Unread

LEMMA UnreadHoldsNext ==
  ASSUME TypeOK', NEW r
  PROVE  Holds(Unread', r) <=> Holds(buf', r) \/ Holds(kq', r)
BY HoldsConcat DEF TypeOK, Unread

\* The initial state satisfies the inductive invariant.
LEMMA InitIInv == Init => IInv
<1> SUFFICES ASSUME Init PROVE IInv
  OBVIOUS
<1>1. TypeOK
  <2>1. /\ watch \in BOOLEAN /\ pipe \in BOOLEAN /\ done \in BOOLEAN
        /\ doneResp \in BOOLEAN
        /\ unheard \in BOOLEAN /\ dropped \in BOOLEAN /\ told \in BOOLEAN
    BY Zenon DEF Init
  <2>2. <<>> \in Seq(Raw) /\ Len(<<>>) = 0
    BY EmptySeq
  <2>3. exists \in SUBSET File
    BY DEF Init, File
  <2>4. QED
    BY <2>1, <2>2, <2>3, QueueAssumption DEF Init, TypeOK
<1>2. Len(kq) = 0
  BY EmptySeq DEF Init
<1>3. QED
  BY <1>1, <1>2, QueueAssumption DEF Init, IInv, ReaderFollowsMain,
     EndFollowsDone, BufferFollowsReader, QueueFollowsWatch, NoSilentLoss, Open

\* Creating, deleting and touching files preserves the invariant: whatever
\* has to be heard of is queued, or the overflow is.
LEMMA DirectoryIInv ==
  ASSUME IInv,
         \E f \in File : CreateFile(f) \/ DeleteFile(f) \/ TouchFile(f)
  PROVE  IInv'
<1> USE DEF Operation, watcherVars, readerVars, historyVars
<1>a. /\ TypeOK /\ ReaderFollowsMain /\ EndFollowsDone /\ BufferFollowsReader
      /\ QueueFollowsWatch /\ NoSilentLoss
  BY DEF IInv
<1>b. PICK f \in File : CreateFile(f) \/ DeleteFile(f) \/ TouchFile(f)
  OBVIOUS
<1>c. PICK r \in Raw : kq' = Queued(r)
                       /\ (CreateFile(f) => r = [mask |-> "create", file |-> f])
  BY <1>b DEF CreateFile, DeleteFile, TouchFile, Raw, Mask
<1>d. /\ kq' \in Seq(Raw) /\ Len(kq') <= MaxQueue + 1
      /\ \A x : Holds(kq, x) => Holds(kq', x)
      /\ Len(kq') > MaxQueue => Holds(kq', Overflow)
      /\ watch /\ Len(kq) < MaxQueue => Holds(kq', r)
      /\ watch /\ Len(kq) >= MaxQueue => Holds(kq', Overflow)
      /\ ~watch => kq' = kq
  BY <1>a, <1>c, QueuedFacts
<1>e. UNCHANGED <<watch, fds, pipe, done, doneResp, rpc, buf, mpc, faults>>
  BY <1>b DEF CreateFile, DeleteFile, TouchFile
<1>1. TypeOK'
  <2>1. /\ watch' \in BOOLEAN /\ pipe' \in BOOLEAN /\ done' \in BOOLEAN
        /\ doneResp' \in BOOLEAN /\ fds' \in SUBSET Descriptor
        /\ buf' \in Seq(Raw) /\ Len(buf') <= BufEvents
        /\ rpc' = rpc /\ mpc' = mpc /\ faults' \in Nat
    BY <1>a, <1>e DEF TypeOK
  <2>2. unheard' \in BOOLEAN /\ dropped' \in BOOLEAN /\ told' \in BOOLEAN
    <3>1. CASE CreateFile(f) /\ f = Sock
      BY <1>a, <3>1 DEF TypeOK, CreateFile
    <3>2. CASE UNCHANGED historyVars
      BY <1>a, <3>2 DEF TypeOK
    <3>3. QED
      BY <1>b, <3>1, <3>2 DEF CreateFile, DeleteFile, TouchFile
  <2>3. exists' \in SUBSET File /\ ops' \in Nat
    BY <1>a, <1>b DEF TypeOK, CreateFile, DeleteFile, TouchFile
  <2>4. QED
    BY <1>a, <1>d, <2>1, <2>2, <2>3 DEF TypeOK
<1>2. ReaderFollowsMain' /\ EndFollowsDone' /\ BufferFollowsReader'
  BY <1>a, <1>e DEF ReaderFollowsMain, EndFollowsDone, BufferFollowsReader,
     Open
<1>3. QueueFollowsWatch'
  <2>1. ~watch => ~unheard' \/ unheard' = unheard
    BY <1>b DEF CreateFile, DeleteFile, TouchFile
  <2>2. QED
    BY <1>a, <1>d, <1>e, <2>1 DEF QueueFollowsWatch
<1>4. NoSilentLoss'
  <2> SUFFICES ASSUME Open', unheard', Sock \in exists'
               PROVE  \/ Holds(Unread', Creation)
                      \/ dropped' /\ (told' \/ Holds(Unread', Overflow))
    BY DEF NoSilentLoss, Creation, Overflow
  <2>0. Open /\ watch /\ ~done
    BY <1>a, <1>e DEF Open, ReaderFollowsMain
  <2>1. CASE CreateFile(f) /\ f = Sock
    <3>1. r = Creation /\ dropped' = (Len(kq) >= MaxQueue)
      BY <1>c, <2>0, <2>1 DEF CreateFile, Creation
    <3>2. Len(kq) \in Nat /\ MaxQueue \in Nat
      BY <1>a, LenProperties, QueueAssumption DEF TypeOK
    <3>3. CASE Len(kq) < MaxQueue
      BY <1>1, <1>d, <2>0, <3>1, <3>3, UnreadHoldsNext
    <3>4. CASE Len(kq) >= MaxQueue
      BY <1>1, <1>d, <2>0, <3>1, <3>4, UnreadHoldsNext
    <3>5. QED
      BY <3>2, <3>3, <3>4
  <2>2. CASE ~(CreateFile(f) /\ f = Sock)
    <3>1. UNCHANGED <<unheard, dropped, told>> /\ Sock \in exists
      BY <1>b, <2>2 DEF CreateFile, DeleteFile, TouchFile
    <3>2. \/ Holds(Unread, Creation)
          \/ dropped /\ (told \/ Holds(Unread, Overflow))
      BY <1>a, <2>0, <3>1 DEF NoSilentLoss, Creation
    <3>3. \A x : Holds(Unread, x) => Holds(Unread', x)
      BY <1>a, <1>1, <1>d, <1>e, UnreadHolds, UnreadHoldsNext
    <3>4. QED
      BY <3>1, <3>2, <3>3
  <2>3. QED
    BY <2>1, <2>2
<1>5. QED
  BY <1>1, <1>2, <1>3, <1>4 DEF IInv

\* A step that leaves what is unread, and what has to be heard of, as it is.
LEMMA NothingLost ==
  ASSUME NoSilentLoss, Open' => Open, UNCHANGED <<exists, historyVars, buf, kq>>
  PROVE  NoSilentLoss'
BY DEF NoSilentLoss, historyVars, Unread, Overflow

\* The steps of main(), from NewWatcher to the end of Close, preserve the
\* invariant.
LEMMA MainIInv ==
  ASSUME IInv, MainSteps \/ NewWatcherFails \/ AddFails \/ Quit
  PROVE  IInv'
<1> USE QueueAssumption DEF kernelVars, watcherVars, readerVars, historyVars,
     boundVars, Main, Open, Fault
<1>a. /\ TypeOK /\ ReaderFollowsMain /\ EndFollowsDone /\ BufferFollowsReader
      /\ QueueFollowsWatch /\ NoSilentLoss
  BY DEF IInv
<1>b. UNCHANGED <<exists, kq, buf, historyVars>>
  BY DEF MainSteps, NewWatcher, NewWatcherFails, Add, AddFails, Back, Quit,
     CloseDone, Wake, Join
<1>1. TypeOK'
  <2>1. /\ watch' \in BOOLEAN /\ pipe' \in BOOLEAN /\ done' \in BOOLEAN
        /\ doneResp' \in BOOLEAN
    BY <1>a, Zenon DEF TypeOK, MainSteps, NewWatcher, NewWatcherFails, Add,
       AddFails, Back, Quit, CloseDone, Wake, Join
  <2>2. fds' = fds \/ fds' = Descriptor
    BY DEF MainSteps, NewWatcher, NewWatcherFails, Add, AddFails, Back, Quit,
       CloseDone, Wake, Join
  <2>3. ops' \in Nat /\ faults' \in Nat
    BY <1>a DEF TypeOK, MainSteps, NewWatcher, NewWatcherFails, Add,
       AddFails, Back, Quit, CloseDone, Wake, Join
  <2>4. QED
    BY <1>a, <1>b, <2>1, <2>2, <2>3 DEF TypeOK, MainSteps, NewWatcher,
       NewWatcherFails, Add, AddFails, Back, Quit, CloseDone, Wake, Join
<1>2. ReaderFollowsMain' /\ EndFollowsDone'
  BY <1>a DEF TypeOK, ReaderFollowsMain, EndFollowsDone, MainSteps, NewWatcher,
     NewWatcherFails, Add, AddFails, Back, Quit, CloseDone, Wake, Join,
     Descriptor
<1>3. BufferFollowsReader'
  BY <1>a, <1>b DEF BufferFollowsReader, ReaderFollowsMain, MainSteps,
     NewWatcher, NewWatcherFails, Add, AddFails, Back, Quit, CloseDone, Wake, Join
<1>4. QueueFollowsWatch'
  BY <1>a, <1>b DEF QueueFollowsWatch, MainSteps, NewWatcher,
     NewWatcherFails, Add, AddFails, Back, Quit, CloseDone, Wake, Join
<1>5. NoSilentLoss'
  <2>1. CASE Add
    BY <1>a, <1>b, <2>1 DEF Add, NoSilentLoss, QueueFollowsWatch,
       ReaderFollowsMain
  <2>2. CASE ~Add
    <3>1. Open' => Open
      BY <2>2 DEF MainSteps, NewWatcher, NewWatcherFails, AddFails, Back,
         Quit, CloseDone, Wake, Join
    <3>2. QED
      BY <1>a, <1>b, <3>1, NothingLost
  <2>3. QED
    BY <2>1, <2>2
<1>6. QED
  BY <1>1, <1>2, <1>3, <1>4, <1>5 DEF IInv

\* The steps of readEvents around its buffer preserve the invariant: those
\* that leave both the buffer and the queue alone, and the end of the
\* goroutine, which only comes when done is closed.
LEMMA ReaderTurnsIInv ==
  ASSUME IInv,
         \/ Check \/ Wait \/ WaitFails \/ ReadFails \/ BufferDone \/ SendError
         \/ GiveUp \/ Release \/ CloseChannels
  PROVE  IInv'
<1> USE QueueAssumption DEF kernelVars, watcherVars, readerVars, historyVars,
     boundVars, Read, Open, Fault
<1>a. /\ TypeOK /\ ReaderFollowsMain /\ EndFollowsDone /\ BufferFollowsReader
      /\ QueueFollowsWatch /\ NoSilentLoss
  BY DEF IInv
<1>b. UNCHANGED <<exists, buf, historyVars, mpc, done>>
  BY DEF Check, Wait, WaitFails, ReadFails, BufferDone, SendError, GiveUp,
     Release, CloseChannels
<1>c. <<>> \in Seq(Raw) /\ Len(<<>>) = 0
  BY EmptySeq
<1>1. TypeOK'
  <2>1. watch' \in BOOLEAN /\ pipe' \in BOOLEAN /\ doneResp' \in BOOLEAN
    BY <1>a, Zenon DEF TypeOK, Check, Wait, WaitFails, ReadFails, BufferDone,
       SendError, GiveUp, Release, CloseChannels
  <2>2. (fds' = fds /\ kq' = kq) \/ (fds' = {} /\ kq' = <<>>)
    BY DEF Check, Wait, WaitFails, ReadFails, BufferDone, SendError, GiveUp,
       Release, CloseChannels
  <2>3. ops' \in Nat /\ faults' \in Nat
    BY <1>a DEF TypeOK, Check, Wait, WaitFails, ReadFails, BufferDone,
       SendError, GiveUp, Release, CloseChannels
  <2>4. kq' \in Seq(Raw) /\ Len(kq') <= MaxQueue + 1
    <3>1. CASE kq' = kq
      BY <1>a, <3>1 DEF TypeOK
    <3>2. CASE kq' = <<>>
      BY <1>c, <3>2
    <3>3. QED
      BY <2>2, <3>1, <3>2
  <2>5. QED
    BY <1>a, <1>b, <2>1, <2>2, <2>3, <2>4 DEF TypeOK, Check, Wait, WaitFails, ReadFails,
       BufferDone, SendError, GiveUp, Release, CloseChannels
<1>2. ReaderFollowsMain' /\ EndFollowsDone'
  BY <1>a, <1>b DEF TypeOK, ReaderFollowsMain, EndFollowsDone, Check, Wait,
     WaitFails, ReadFails, BufferDone, SendError, GiveUp, Release,
     CloseChannels, Descriptor
<1>3. BufferFollowsReader'
  BY <1>a, <1>b DEF BufferFollowsReader, Check, Wait, WaitFails, ReadFails,
     BufferDone, SendError, GiveUp, Release, CloseChannels
<1>4. QueueFollowsWatch'
  BY <1>a, <1>b, <1>c DEF QueueFollowsWatch, EndFollowsDone, Check, Wait,
     WaitFails, ReadFails, BufferDone, SendError, GiveUp, Release,
     CloseChannels
<1>5. NoSilentLoss'
  <2>1. CASE Release
    BY <1>a, <1>b, <2>1 DEF Release, NoSilentLoss, EndFollowsDone,
       ReaderFollowsMain
  <2>2. CASE ~Release
    <3>1. UNCHANGED kq
      BY <2>2 DEF Check, Wait, WaitFails, ReadFails, BufferDone, SendError,
         GiveUp, CloseChannels
    <3>2. QED
      BY <1>a, <1>b, <3>1, NothingLost
  <2>3. QED
    BY <2>1, <2>2
<1>6. QED
  BY <1>1, <1>2, <1>3, <1>4, <1>5 DEF IInv

\* read moves events from the kernel's queue to the buffer.
LEMMA ReadEventsMoves ==
  ASSUME TypeOK, BufferFollowsReader, ReadEvents
  PROVE  /\ buf' \in Seq(Raw) /\ Len(buf') <= BufEvents
         /\ kq' \in Seq(Raw) /\ Len(kq') <= MaxQueue /\ Len(kq') <= Len(kq)
         /\ buf' \o kq' = kq /\ buf = <<>>
<1> DEFINE n == IF Len(kq) < BufEvents THEN Len(kq) ELSE BufEvents
<1>1. /\ buf' = SubSeq(kq, 1, n) /\ kq' = SubSeq(kq, n + 1, Len(kq))
      /\ rpc = "read"
  BY DEF ReadEvents
<1>2. /\ kq \in Seq(Raw) /\ Len(kq) \in Nat /\ Len(kq) <= MaxQueue + 1
      /\ BufEvents \in Nat \ {0} /\ MaxQueue \in Nat
  BY LenProperties, QueueAssumption DEF TypeOK
<1>3. n \in 0..Len(kq) /\ n <= BufEvents /\ Len(kq) - n <= MaxQueue
  BY <1>2
<1> HIDE DEF n
<1>4. /\ SubSeq(kq, 1, n) \in Seq(Raw) /\ SubSeq(kq, n + 1, Len(kq)) \in Seq(Raw)
      /\ Len(SubSeq(kq, 1, n)) = n
      /\ Len(SubSeq(kq, n + 1, Len(kq))) = Len(kq) - n
      /\ SubSeq(kq, 1, n) \o SubSeq(kq, n + 1, Len(kq)) = kq
  BY <1>2, <1>3, ReadSplits
<1>5. buf' \in Seq(Raw) /\ kq' \in Seq(Raw) /\ buf' \o kq' = kq
  BY <1>1, <1>4
<1>6. Len(buf') = n /\ Len(kq') = Len(kq) - n
  BY <1>1, <1>4
<1>7. Len(buf') <= BufEvents /\ Len(kq') <= MaxQueue /\ Len(kq') <= Len(kq)
  BY <1>2, <1>3, <1>6
<1>8. buf = <<>>
  BY <1>1 DEF BufferFollowsReader
<1>9. QED
  BY <1>5, <1>7, <1>8

LEMMA ReadEventsIInv ==
  ASSUME IInv, ReadEvents
  PROVE  IInv'
<1> USE DEF kernelVars, watcherVars, historyVars, boundVars
<1>a. /\ TypeOK /\ ReaderFollowsMain /\ EndFollowsDone /\ BufferFollowsReader
      /\ QueueFollowsWatch /\ NoSilentLoss
  BY DEF IInv
<1>b. /\ UNCHANGED <<exists, watch, fds, pipe, done, doneResp, mpc, unheard,
                     dropped, told, ops, faults>>
      /\ rpc = "read" /\ rpc' = IF done THEN "exit" ELSE "next"
  BY DEF ReadEvents
<1>c. /\ buf' \in Seq(Raw) /\ Len(buf') <= BufEvents
      /\ kq' \in Seq(Raw) /\ Len(kq') <= MaxQueue /\ Len(kq') <= Len(kq)
      /\ buf' \o kq' = kq /\ buf = <<>>
  BY <1>a, ReadEventsMoves
<1>d. Len(kq') \in Nat /\ MaxQueue \in Nat
  BY <1>c, LenProperties, QueueAssumption
<1>1. TypeOK'
  <2>1. Len(kq') <= MaxQueue + 1
    BY <1>c, <1>d
  <2>2. QED
    BY <1>a, <1>b, <1>c, <2>1 DEF TypeOK
<1>2. ReaderFollowsMain' /\ EndFollowsDone' /\ BufferFollowsReader'
  BY <1>a, <1>b DEF ReaderFollowsMain, EndFollowsDone, BufferFollowsReader,
     Open
<1>3. QueueFollowsWatch'
  <2>1. ~watch => kq' = <<>> /\ buf' = <<>>
    BY <1>a, <1>c, ConcatEqualIffEmpty, EmptySeq DEF QueueFollowsWatch
  <2>2. QED
    BY <1>a, <1>b, <1>c, <1>d, <2>1 DEF QueueFollowsWatch
<1>4. NoSilentLoss'
  <2>1. Unread' = Unread
    BY <1>a, <1>c, ConcatEmptySeq DEF Unread, TypeOK
  <2>2. QED
    BY <1>a, <1>b, <2>1 DEF NoSilentLoss, Open, Overflow
<1>5. QED
  BY <1>1, <1>2, <1>3, <1>4 DEF IInv

\* Taking events out of the buffer, to be sent or ignored, preserves the
\* invariant: what main() waits for is not ignored while the file is there.
LEMMA BufferIInv ==
  ASSUME IInv, NextEvent \/ SendEvent \/ SendOverflow
  PROVE  IInv'
<1> USE DEF kernelVars, watcherVars, historyVars, boundVars, Read
<1>a. /\ TypeOK /\ ReaderFollowsMain /\ EndFollowsDone /\ BufferFollowsReader
      /\ QueueFollowsWatch /\ NoSilentLoss
  BY DEF IInv
<1>b. /\ UNCHANGED <<exists, watch, kq, fds, pipe, done, doneResp, dropped,
                     ops, faults>>
      /\ rpc \in {"next", "send", "overflow"} /\ buf # <<>>
      /\ rpc' \in {"next", "send", "overflow"}
      /\ buf' = buf \/ (buf' = Tail(buf) /\ rpc' = "next")
  BY <1>a DEF NextEvent, SendEvent, SendOverflow, BufferFollowsReader
<1>c. /\ buf \in Seq(Raw) /\ Len(buf) \in Nat /\ BufEvents \in Nat
      /\ Head(buf) \in Raw /\ Tail(buf) \in Seq(Raw)
      /\ Len(Tail(buf)) = Len(buf) - 1 /\ Len(buf) <= BufEvents
  BY <1>a, <1>b, LenProperties, HeadTailProperties, QueueAssumption DEF TypeOK
<1>1. TypeOK'
  <2>1. buf' \in Seq(Raw) /\ Len(buf') <= BufEvents
    BY <1>b, <1>c
  <2>2. unheard' \in BOOLEAN /\ told' \in BOOLEAN
    BY <1>a, Zenon DEF TypeOK, NextEvent, SendEvent, SendOverflow
  <2>3. mpc' \in {mpc, "busy"}
    BY DEF NextEvent, SendEvent, SendOverflow
  <2>4. QED
    BY <1>a, <1>b, <2>1, <2>2, <2>3 DEF TypeOK
<1>2. ReaderFollowsMain' /\ EndFollowsDone'
  <2>1. mpc' = mpc \/ (mpc = "select" /\ mpc' = "busy")
    BY DEF NextEvent, SendEvent, SendOverflow
  <2>2. QED
    BY <1>a, <1>b, <2>1 DEF ReaderFollowsMain, EndFollowsDone, Open
<1>3. BufferFollowsReader'
  <2>1. CASE NextEvent
    BY <1>b, <2>1 DEF NextEvent, BufferFollowsReader
  <2>2. CASE SendEvent \/ SendOverflow
    BY <2>2 DEF SendEvent, SendOverflow, BufferFollowsReader
  <2>3. QED
    BY <2>1, <2>2
<1>4. QueueFollowsWatch'
  <2>1. watch \/ done
    BY <1>a, <1>b DEF QueueFollowsWatch
  <2>2. QED
    BY <1>a, <1>b, <2>1 DEF QueueFollowsWatch
<1>5. NoSilentLoss'
  <2> SUFFICES ASSUME Open', unheard', Sock \in exists'
               PROVE  \/ Holds(Unread', Creation)
                      \/ dropped' /\ (told' \/ Holds(Unread', Overflow))
    BY DEF NoSilentLoss, Creation, Overflow
  <2>0. Open /\ unheard /\ Sock \in exists
    BY <1>b DEF NextEvent, SendEvent, SendOverflow, Open
  <2>1. \/ Holds(Unread, Creation)
        \/ dropped /\ (told \/ Holds(Unread, Overflow))
    BY <1>a, <2>0 DEF NoSilentLoss, Creation
  <2>2. \A x : Holds(Unread, x) => Holds(Unread', x) \/ Head(buf) = x
    BY <1>a, <1>1, <1>b, <1>c, HoldsTail, UnreadHolds, UnreadHoldsNext
  <2>3. Head(buf) = Creation => buf' = buf
    <3>1. Op("create") = "Create"
      BY DEF Op
    <3>2. CASE NextEvent
      BY <2>0, <3>1, <3>2 DEF NextEvent, IgnoreLinux, Creation
    <3>3. CASE SendEvent
      <4>1. Head(buf) = Creation => unheard' = FALSE
        BY <3>1, <3>3, RecordFields DEF SendEvent
      <4>2. QED
        BY <4>1, Zenon
    <3>4. CASE SendOverflow
      BY <1>a, <3>4 DEF SendOverflow, BufferFollowsReader, Creation
    <3>5. QED
      BY <3>2, <3>3, <3>4
  <2>4. Head(buf) = Overflow => buf' = buf \/ told' = TRUE
    <3>1. Head(buf) = Overflow => Head(buf).mask = "overflow"
      BY RecordFields
    <3>2. CASE NextEvent
      BY <3>1, <3>2 DEF NextEvent
    <3>3. CASE SendEvent
      BY <1>a, <3>1, <3>3 DEF SendEvent, BufferFollowsReader
    <3>4. CASE SendOverflow
      BY <3>4 DEF SendOverflow
    <3>5. QED
      BY <3>2, <3>3, <3>4
  <2>5. told => told'
    BY DEF NextEvent, SendEvent, SendOverflow
  <2>6. buf' = buf => Unread' = Unread
    BY <1>b DEF Unread
  <2>7. QED
    BY <1>b, <2>1, <2>2, <2>3, <2>4, <2>5, <2>6
<1>6. QED
  BY <1>1, <1>2, <1>3, <1>4, <1>5 DEF IInv

-----------------------------------------------------------------------------
(* Theorems                                                                *)

\* The conjunction above is an inductive invariant of the watcher.
THEOREM InductiveInvariant == Spec => []IInv
<1>1. IInv /\ [Next]_vars => IInv'
  <2> SUFFICES ASSUME IInv, [Next]_vars PROVE IInv'
    OBVIOUS
  <2>1. CASE MainSteps \/ NewWatcherFails \/ AddFails \/ Quit
    BY <2>1, MainIInv
  <2>2. CASE \/ Check \/ Wait \/ WaitFails \/ ReadFails \/ BufferDone
             \/ SendError \/ GiveUp \/ Release \/ CloseChannels
    BY <2>2, ReaderTurnsIInv
  <2>3. CASE ReadEvents
    BY <2>3, ReadEventsIInv
  <2>4. CASE NextEvent \/ SendEvent \/ SendOverflow
    BY <2>4, BufferIInv
  <2>5. CASE \E f \in File : CreateFile(f) \/ DeleteFile(f) \/ TouchFile(f)
    BY <2>5, DirectoryIInv
  <2>6. CASE UNCHANGED vars
    <3>1. UNCHANGED <<exists, watch, kq, fds, pipe, done, doneResp, rpc, buf,
                      mpc, unheard, dropped, told, ops, faults>>
      BY <2>6 DEF vars, kernelVars, watcherVars, readerVars, historyVars,
         boundVars
    <3>2. TypeOK'
      BY <3>1 DEF IInv, TypeOK
    <3>3. ReaderFollowsMain' /\ EndFollowsDone' /\ BufferFollowsReader'
      BY <3>1 DEF IInv, ReaderFollowsMain, EndFollowsDone,
         BufferFollowsReader, Open
    <3>4. QueueFollowsWatch'
      BY <3>1 DEF IInv, QueueFollowsWatch, Overflow
    <3>5. NoSilentLoss'
      BY <3>1, NothingLost DEF IInv, Open, historyVars
    <3>6. QED
      BY <3>2, <3>3, <3>4, <3>5 DEF IInv
  <2>7. QED
    BY <2>1, <2>2, <2>3, <2>4, <2>5, <2>6 DEF Next, Reader, Environment
<1>2. QED
  BY InitIInv, <1>1, PTL DEF Spec

\* Every variable keeps its type; in particular the kernel's queue is never
\* longer than its limit and one overflow record, and readEvents' buffer
\* never holds more than fits into it.
THEOREM TypeCorrect == Spec => []TypeOK
<1>1. IInv => TypeOK
  BY DEF IInv
<1>2. QED
  BY InductiveInvariant, <1>1, PTL

\* A kubelet.sock that main() has not heard of is never lost in silence
\* (inotify.go:186-294,300-316, main.go:108-116).
THEOREM NothingLostInSilence == Spec => []NoSilentLoss
<1>1. IInv => NoSilentLoss
  BY DEF IInv
<1>2. QED
  BY InductiveInvariant, <1>1, PTL

\* When Close has returned there is no descriptor, no reader and no watch
\* left (inotify.go:73-88,180-184).
THEOREM CloseLeavesNothing == Spec => []ClosedClean
<1>1. IInv => ClosedClean
  BY DEF IInv, ClosedClean, ReaderFollowsMain, EndFollowsDone
<1>2. QED
  BY InductiveInvariant, <1>1, PTL
-----------------------------------------------------------------------------
(* How many creations of kubelet.sock a sequence of raw events has         *)

Created(s) == {i \in 1..Len(s) : s[i] = Creation}
Creations(s) == Cardinality(Created(s))

LEMMA CreatedFinite ==
  ASSUME NEW S, NEW s \in Seq(S)
  PROVE  IsFiniteSet(Created(s)) /\ Creations(s) \in Nat
<1>1. IsFiniteSet(1..Len(s))
  BY LenProperties, FS_Interval
<1>2. IsFiniteSet(Created(s))
  BY <1>1, FS_Subset DEF Created
<1>3. QED
  BY <1>2, FS_CardinalityType DEF Creations

LEMMA CreationsEmpty == Creations(<<>>) = 0
<1>1. Len(<<>>) = 0
  BY EmptySeq
<1>2. Created(<<>>) = {}
  BY <1>1 DEF Created
<1>3. QED
  BY <1>2, FS_EmptySet DEF Creations

\* One more event is one more creation or none.
LEMMA CreationsAppend ==
  ASSUME NEW S, NEW s \in Seq(S), NEW e \in S
  PROVE  Creations(Append(s, e)) =
           IF e = Creation THEN Creations(s) + 1 ELSE Creations(s)
<1>1. /\ Len(Append(s, e)) = Len(s) + 1 /\ Len(s) \in Nat
      /\ \A i \in 1..Len(s) : Append(s, e)[i] = s[i]
      /\ Append(s, e)[Len(s) + 1] = e
  BY AppendProperties, LenProperties
<1>2. IsFiniteSet(Created(s))
  BY CreatedFinite
<1>3. \A i : i \in 1..(Len(s) + 1) <=> i \in 1..Len(s) \/ i = Len(s) + 1
  BY <1>1
<1>4. CASE e = Creation
  <2>1. Created(Append(s, e)) = Created(s) \cup {Len(s) + 1}
    BY <1>1, <1>3, <1>4 DEF Created
  <2>2. Len(s) + 1 \notin Created(s)
    BY <1>1 DEF Created
  <2>3. QED
    BY <1>2, <1>4, <2>1, <2>2, FS_AddElement DEF Creations
<1>5. CASE e # Creation
  <2>1. Created(Append(s, e)) = Created(s)
    BY <1>1, <1>3, <1>5 DEF Created
  <2>2. QED
    BY <1>5, <2>1 DEF Creations
<1>6. QED
  BY <1>4, <1>5

\* Without its first event a sequence has one creation less, or as many.
LEMMA CreationsTail ==
  ASSUME NEW S, NEW s \in Seq(S), s # <<>>
  PROVE  Creations(s) = IF Head(s) = Creation THEN Creations(Tail(s)) + 1
                                              ELSE Creations(Tail(s))
<1>1. /\ Len(Tail(s)) = Len(s) - 1 /\ Len(s) \in Nat \ {0}
      /\ \A i \in 1..Len(Tail(s)) : Tail(s)[i] = s[i + 1]
      /\ Head(s) = s[1] /\ Tail(s) \in Seq(S)
  BY HeadTailProperties, LenProperties, EmptySeq
<1> DEFINE T == Created(Tail(s))
           U == {i \in 2..Len(s) : s[i] = Creation}
           f == [i \in T |-> i + 1]
<1>2. IsFiniteSet(T)
  BY <1>1, CreatedFinite
<1>3. ExistsBijection(T, U)
  <2>1. \A i \in T : i \in Nat /\ i + 1 \in U
    BY <1>1 DEF Created
  <2>2. \A u \in U : u \in Nat /\ u - 1 \in T
    BY <1>1 DEF Created
  <2>3. f \in Injection(T, U)
    BY <2>1 DEF Injection, IsInjective
  <2>4. \A u \in U : u - 1 \in T /\ f[u - 1] = u
    BY <2>2
  <2>5. f \in Surjection(T, U)
    BY <2>1, <2>4 DEF Surjection
  <2>6. QED
    BY <2>3, <2>5 DEF Bijection, ExistsBijection
<1>4. IsFiniteSet(U) /\ Cardinality(U) = Creations(Tail(s))
  BY <1>2, <1>3, FS_Bijection DEF Creations
<1>5. 1 \notin U
  OBVIOUS
<1>6. \A i : i \in 1..Len(s) <=> i \in 2..Len(s) \/ i = 1
  BY <1>1
<1> HIDE DEF T, f
<1>7. CASE Head(s) = Creation
  <2>1. Created(s) = U \cup {1}
    BY <1>1, <1>6, <1>7 DEF Created
  <2>2. QED
    BY <1>4, <1>5, <1>7, <2>1, FS_AddElement DEF Creations
<1>8. CASE Head(s) # Creation
  <2>1. Created(s) = U
    BY <1>1, <1>6, <1>8 DEF Created
  <2>2. QED
    BY <1>4, <1>8, <2>1 DEF Creations
<1>9. QED
  BY <1>7, <1>8

\* An event that is queued behind others, and one taken from before others.
LEMMA ConcatEnds ==
  ASSUME NEW S, NEW s \in Seq(S), NEW t \in Seq(S), NEW e \in S
  PROVE  /\ s \o Append(t, e) = Append(s \o t, e)
         /\ s # <<>> => /\ s \o t # <<>> /\ Tail(s \o t) = Tail(s) \o t
                        /\ Head(s \o t) = Head(s)
<1>1. s \o Append(t, e) = Append(s \o t, e)
  <2>1. <<e>> \in Seq(S)
    OBVIOUS
  <2>2. s \o t \in Seq(S)
    BY ConcatProperties
  <2>3. Append(t, e) = t \o <<e>> /\ Append(s \o t, e) = (s \o t) \o <<e>>
    BY <2>2, AppendIsConcat
  <2>4. (s \o t) \o <<e>> = s \o (t \o <<e>>)
    BY <2>1, ConcatAssociative
  <2>5. QED
    BY <2>3, <2>4
<1>2. ASSUME s # <<>>
      PROVE  /\ s \o t # <<>> /\ Tail(s \o t) = Tail(s) \o t
             /\ Head(s \o t) = Head(s)
  <2>1. /\ Len(s) \in Nat \ {0} /\ Len(t) \in Nat
        /\ Head(s) = s[1] /\ Head(s) \in S /\ Tail(s) \in Seq(S)
        /\ Len(Tail(s)) = Len(s) - 1
        /\ \A i \in 1..Len(Tail(s)) : Tail(s)[i] = s[i + 1]
    BY <1>2, HeadTailProperties, LenProperties, EmptySeq
  <2>2. /\ s \o t \in Seq(S) /\ Len(s \o t) = Len(s) + Len(t)
        /\ \A i \in 1..Len(s) + Len(t) :
             (s \o t)[i] = IF i <= Len(s) THEN s[i] ELSE t[i - Len(s)]
    BY ConcatProperties
  <2>3. s \o t # <<>>
    BY <2>1, <2>2, EmptySeq
  <2>4. /\ Tail(s \o t) \in Seq(S) /\ Len(Tail(s \o t)) = Len(s \o t) - 1
        /\ \A i \in 1..Len(Tail(s \o t)) : Tail(s \o t)[i] = (s \o t)[i + 1]
        /\ Head(s \o t) = (s \o t)[1]
    BY <2>2, <2>3, HeadTailProperties
  <2>5. /\ Tail(s) \o t \in Seq(S) /\ Len(Tail(s) \o t) = Len(s) - 1 + Len(t)
        /\ \A i \in 1..(Len(s) - 1 + Len(t)) : (Tail(s) \o t)[i] =
             IF i <= Len(s) - 1 THEN Tail(s)[i] ELSE t[i - (Len(s) - 1)]
    BY <2>1, ConcatProperties
  <2>6. ASSUME NEW i \in 1..(Len(s) - 1 + Len(t))
        PROVE  Tail(s \o t)[i] = (Tail(s) \o t)[i]
    <3>1. /\ i + 1 \in 1..Len(s) + Len(t) /\ i \in 1..Len(Tail(s \o t))
          /\ i + 1 - Len(s) = i - (Len(s) - 1)
          /\ i + 1 <= Len(s) <=> i <= Len(s) - 1
      BY <2>1, <2>2, <2>4
    <3>2. Tail(s \o t)[i] =
            IF i + 1 <= Len(s) THEN s[i + 1] ELSE t[i + 1 - Len(s)]
      BY <2>2, <2>4, <3>1
    <3>3. CASE i <= Len(s) - 1
      <4>1. Tail(s)[i] = s[i + 1]
        BY <2>1, <3>3
      <4>2. QED
        BY <2>5, <3>1, <3>2, <3>3, <4>1
    <3>4. CASE ~(i <= Len(s) - 1)
      BY <2>5, <3>1, <3>2, <3>4
    <3>5. QED
      BY <3>3, <3>4
  <2>7. Len(Tail(s \o t)) = Len(s) - 1 + Len(t)
    BY <2>1, <2>2, <2>4
  <2>8. Tail(s \o t) = Tail(s) \o t
    BY <2>4, <2>5, <2>6, <2>7, SeqEqual
  <2>9. QED
    BY <2>1, <2>2, <2>3, <2>4, <2>8
<1>3. QED
  BY <1>1, <1>2
-----------------------------------------------------------------------------
(* The watcher implements EventFeed                                        *)

\* What the mapping counts.
LEMMA CountIsCreations ==
  /\ Cardinality(SockCreations) = Creations(buf \o kq)
  /\ Cardinality(SockCreations)' = Creations(buf' \o kq')
BY DEF SockCreations, Creations, Created, Creation, Unread

\* The kernel queues the creation of kubelet.sock, or drops it.
LEMMA CreationsQueued ==
  ASSUME TypeOK, NEW r \in Raw, kq' = Queued(r), buf' = buf
  PROVE  Creations(buf' \o kq') =
           IF r = Creation /\ watch /\ Len(kq) < MaxQueue
             THEN Creations(buf \o kq) + 1 ELSE Creations(buf \o kq)
<1>1. /\ buf \in Seq(Raw) /\ kq \in Seq(Raw) /\ buf \o kq \in Seq(Raw)
  BY ConcatProperties DEF TypeOK
<1>2. ASSUME NEW e \in Raw, kq' = Append(kq, e)
      PROVE  Creations(buf' \o kq') =
               IF e = Creation THEN Creations(buf \o kq) + 1
                               ELSE Creations(buf \o kq)
  <2>1. buf' \o kq' = Append(buf \o kq, e)
    BY <1>1, <1>2, ConcatEnds
  <2>2. QED
    BY <1>1, <2>1, CreationsAppend
<1>3. Overflow \in Raw
  BY DEF Overflow, Raw, Mask
<1>4. Overflow # Creation
  BY RecordFields
<1>5. CASE watch /\ Len(kq) < MaxQueue
  <2>1. kq' = Append(kq, r)
    BY <1>5 DEF Queued
  <2>2. QED
    BY <1>2, <1>5, <2>1
<1>6. CASE ~(watch /\ Len(kq) < MaxQueue)
  <2>1. kq' = kq \/ kq' = Append(kq, Overflow)
    BY <1>6 DEF Queued
  <2>2. QED
    BY <1>2, <1>3, <1>4, <1>6, <2>1
<1>7. QED
  BY <1>5, <1>6

\* Every step is a step of EventFeed or leaves what it sees as it is.
LEMMA NextFeedsEvents ==
  ASSUME IInv, [Next]_vars
  PROVE  Feed!Next \/ UNCHANGED Feed!vars
<1> USE DEF Feed!Next, Feed!vars, kernelVars, watcherVars, readerVars,
     historyVars, boundVars, Main, Read
<1>a. /\ TypeOK /\ ReaderFollowsMain /\ EndFollowsDone /\ BufferFollowsReader
      /\ QueueFollowsWatch
  BY DEF IInv
<1>b. /\ buf \in Seq(Raw) /\ kq \in Seq(Raw) /\ buf \o kq \in Seq(Raw)
      /\ Creations(buf \o kq) \in Nat
      /\ done \in BOOLEAN /\ watch \in BOOLEAN
  BY <1>a, ConcatProperties, CreatedFinite DEF TypeOK
<1>c. /\ Cardinality(SockCreations) = Creations(buf \o kq)
      /\ Cardinality(SockCreations)' = Creations(buf' \o kq')
  BY CountIsCreations
<1>1. CASE /\ UNCHANGED <<exists, watch, done, buf, kq, dropped>>
           /\ mpc' = "select" <=> mpc = "select"
  BY <1>1, <1>c
<1>2. CASE \E f \in File : CreateFile(f) \/ DeleteFile(f) \/ TouchFile(f)
  <2> USE DEF Operation
  <2>1. PICK f \in File : CreateFile(f) \/ DeleteFile(f) \/ TouchFile(f)
    BY <1>2
  <2>2. PICK r \in Raw : /\ kq' = Queued(r)
                         /\ CreateFile(f) => r = [mask |-> "create", file |-> f]
                         /\ ~CreateFile(f) => r.mask # "create"
    <3>1. \A m \in Mask : [mask |-> m, file |-> f] \in Raw
                           /\ [mask |-> m, file |-> f].mask = m
      BY DEF Raw
    <3>2. CASE CreateFile(f)
      BY <3>1, <3>2 DEF CreateFile, Mask
    <3>3. CASE ~CreateFile(f) /\ DeleteFile(f)
      BY <3>1, <3>3 DEF DeleteFile, Mask
    <3>4. CASE ~CreateFile(f) /\ TouchFile(f)
      BY <3>1, <3>4 DEF TouchFile, Mask
    <3>5. QED
      BY <2>1, <3>2, <3>3, <3>4
  <2>3. UNCHANGED <<watch, done, buf, mpc>>
    BY <2>1 DEF CreateFile, DeleteFile, TouchFile
  <2>4. Creations(buf' \o kq') =
          IF r = Creation /\ watch /\ Len(kq) < MaxQueue
            THEN Creations(buf \o kq) + 1 ELSE Creations(buf \o kq)
    BY <1>a, <2>2, <2>3, CreationsQueued
  <2>5. CASE CreateFile(f) /\ f = Sock
    <3>1. r = Creation /\ Sock \notin exists /\ Sock \in exists'
      BY <2>2, <2>5 DEF CreateFile, Creation
    <3>2. dropped' = (watch /\ ~done /\ Len(kq) >= MaxQueue)
      BY <2>5 DEF CreateFile
    <3>3. Len(kq) \in Nat /\ MaxQueue \in Nat
      BY <1>b, LenProperties, QueueAssumption
    <3>4. Feed!Create
      <4>1. CASE watch /\ ~done /\ Len(kq) < MaxQueue
        <5>0. ~(Len(kq) >= MaxQueue)
          BY <3>3, <4>1
        <5>1. Creations(buf' \o kq') = Creations(buf \o kq) + 1
          BY <2>4, <3>1, <4>1
        <5>2. dropped' = FALSE
          BY <3>2, <5>0, Zenon
        <5>3. QED
          BY <1>c, <2>3, <3>1, <4>1, <5>1, <5>2 DEF Feed!Create
      <4>2. CASE watch /\ ~done /\ ~(Len(kq) < MaxQueue)
        <5>0. Len(kq) >= MaxQueue
          BY <3>3, <4>2
        <5>1. Creations(buf' \o kq') = Creations(buf \o kq)
          BY <2>4, <4>2
        <5>2. dropped' = TRUE
          BY <3>2, <4>2, <5>0, Zenon
        <5>3. QED
          BY <1>c, <2>3, <3>1, <4>2, <5>1, <5>2 DEF Feed!Create
      <4>3. CASE ~watch \/ done
        <5>1. dropped' = FALSE
          BY <3>2, <4>3, Zenon
        <5>2. ~done => Creations(buf' \o kq') = Creations(buf \o kq)
          BY <2>4, <4>3
        <5>3. QED
          BY <1>c, <2>3, <3>1, <4>3, <5>1, <5>2 DEF Feed!Create
      <4>4. QED
        BY <4>1, <4>2, <4>3
    <3>5. QED
      BY <3>4
  <2>6. CASE ~(CreateFile(f) /\ f = Sock)
    <3>1. UNCHANGED dropped
      BY <2>1, <2>6 DEF CreateFile, DeleteFile, TouchFile
    <3>2. r # Creation
      <4>1. CASE CreateFile(f)
        <5>1. r.file = f
          BY <2>2, <4>1
        <5>2. QED
          BY <2>6, <4>1, <5>1, RecordFields
      <4>2. CASE ~CreateFile(f)
        BY <2>2, <4>2, RecordFields
      <4>3. QED
        BY <4>1, <4>2
    <3>3. Creations(buf' \o kq') = Creations(buf \o kq)
      BY <2>4, <3>2
    <3>4. CASE DeleteFile(f) /\ f = Sock
      BY <1>c, <2>3, <3>1, <3>3, <3>4 DEF DeleteFile, Feed!Delete
    <3>5. CASE ~(DeleteFile(f) /\ f = Sock)
      <4>1. Sock \in exists' <=> Sock \in exists
        BY <2>1, <2>6, <3>5 DEF CreateFile, DeleteFile, TouchFile
      <4>2. QED
        BY <1>c, <2>3, <3>1, <3>3, <4>1
    <3>6. QED
      BY <3>4, <3>5
  <2>7. QED
    BY <2>5, <2>6
<1>3. CASE Add
  <2>1. ~watch /\ ~done /\ buf' \o kq' = buf \o kq
    BY <1>a, <1>3 DEF Add, ReaderFollowsMain
  <2>2. Feed!Watch
    BY <1>3, <1>c, <2>1 DEF Add, Feed!Watch
  <2>3. QED
    BY <2>2
<1>4. CASE Back \/ Quit
  BY <1>4, <1>c DEF Back, Quit, Feed!Turn
<1>5. CASE CloseDone
  <2>1. done' = TRUE /\ ~done /\ mpc = "close" /\ mpc' = "wake"
        /\ UNCHANGED <<exists, dropped, watch>>
    BY <1>a, <1>5 DEF CloseDone, ReaderFollowsMain
  <2>2. CASE watch
    BY <2>1, <2>2 DEF Feed!Unwatch
  <2>3. CASE ~watch
    <3>1. buf \o kq = <<>>
      BY <1>a, <1>b, <2>1, <2>3, ConcatEqualIffEmpty DEF QueueFollowsWatch
    <3>2. Cardinality(SockCreations) = 0
      BY <1>c, <3>1, CreationsEmpty
    <3>3. QED
      BY <2>1, <2>3, <3>2
  <2>4. QED
    BY <1>b, <2>2, <2>3
<1>6. CASE ReadEvents
  <2>1. buf' \o kq' = buf \o kq
    BY <1>a, <1>6, ReadEventsMoves, ConcatEmptySeq DEF TypeOK
  <2>2. UNCHANGED <<exists, watch, done, dropped, mpc>>
    BY <1>6 DEF ReadEvents
  <2>3. QED
    BY <1>c, <2>1, <2>2
<1>7. CASE Release
  <2>1. done /\ done' /\ UNCHANGED <<exists, dropped, mpc>>
    BY <1>a, <1>7 DEF Release, EndFollowsDone
  <2>2. QED
    BY <2>1
<1>8. CASE NextEvent \/ SendEvent \/ SendOverflow
  <2>1. /\ UNCHANGED <<exists, watch, kq, done, dropped>> /\ buf # <<>>
        /\ buf' = buf => NextEvent
        /\ buf' = buf \/ buf' = Tail(buf)
    BY <1>a, <1>8 DEF NextEvent, SendEvent, SendOverflow, BufferFollowsReader
  <2>2. CASE buf' = buf
    BY <1>1, <2>1, <2>2 DEF NextEvent
  <2>3. CASE buf' # buf
    <3>1. /\ Tail(buf) \in Seq(Raw) /\ Head(buf) \in Raw
      BY <1>b, <2>1, HeadTailProperties
    <3>2. /\ Tail(buf \o kq) = buf' \o kq' /\ Head(buf \o kq) = Head(buf)
          /\ buf \o kq # <<>>
      <4>1. /\ buf \o kq # <<>> /\ Tail(buf \o kq) = Tail(buf) \o kq
            /\ Head(buf \o kq) = Head(buf)
        BY <1>b, <2>1, <3>1, ConcatEnds
      <4>2. QED
        BY <2>1, <2>3, <4>1
    <3>3. Creations(buf \o kq) =
            IF Head(buf) = Creation THEN Creations(buf' \o kq') + 1
                                    ELSE Creations(buf' \o kq')
      BY <1>b, <3>2, CreationsTail
    <3>4. Creations(buf' \o kq') \in Nat
      <4>1. Tail(buf) \o kq \in Seq(Raw)
        BY <1>b, <3>1, ConcatProperties
      <4>2. QED
        BY <2>1, <2>3, <4>1, CreatedFinite
    <3>5. CASE NextEvent
      <4>1. IgnoreLinux(Head(buf)) /\ UNCHANGED mpc
        BY <2>3, <3>5 DEF NextEvent
      <4>2. Head(buf) = Creation => Sock \notin exists
        BY <4>1, RecordFields DEF IgnoreLinux
      <4>3. CASE done
        BY <2>1, <4>1, <4>3
      <4>4. CASE ~done /\ Head(buf) = Creation
        <5>1. Feed!Ignore
          BY <1>c, <2>1, <3>3, <3>4, <4>1, <4>2, <4>4 DEF Feed!Ignore
        <5>2. QED
          BY <5>1
      <4>5. CASE ~done /\ Head(buf) # Creation
        BY <1>c, <2>1, <3>3, <4>1, <4>5
      <4>6. QED
        BY <1>b, <4>3, <4>4, <4>5
    <3>6. CASE SendEvent
      <4>1. mpc = "select" /\ ~done
        BY <1>a, <3>6 DEF SendEvent, ReaderFollowsMain
      <4>2. CASE Head(buf) = Creation
        <5>1. mpc' = "busy"
          BY <3>6, <4>2, RecordFields DEF SendEvent, Op
        <5>2. Feed!Take
          BY <1>c, <2>1, <3>3, <3>4, <4>1, <4>2, <5>1 DEF Feed!Take
        <5>3. QED
          BY <5>2
      <4>3. CASE Head(buf) # Creation
        <5>1. ~(Head(buf).file = Sock /\ Head(buf).mask = "create")
          BY <3>1, <4>3 DEF Raw, Creation
        <5>2. Op(Head(buf).mask) = "Create" => Head(buf).mask = "create"
          BY <3>1 DEF Raw, Mask, Op
        <5>3. UNCHANGED mpc
          BY <3>6, <5>1, <5>2 DEF SendEvent
        <5>4. QED
          BY <1>c, <2>1, <3>3, <4>3, <5>3
      <4>4. QED
        BY <4>2, <4>3
    <3>7. CASE SendOverflow
      <4>1. Head(buf) # Creation
        BY <1>a, <3>7, RecordFields DEF SendOverflow, BufferFollowsReader
      <4>2. QED
        BY <1>c, <2>1, <3>3, <3>7, <4>1 DEF SendOverflow
    <3>8. QED
      BY <1>8, <3>5, <3>6, <3>7
  <2>4. QED
    BY <2>2, <2>3
<1>9. CASE \/ NewWatcher \/ NewWatcherFails \/ AddFails \/ Wake \/ Join \/ Check
           \/ Wait \/ WaitFails \/ ReadFails \/ BufferDone \/ SendError
           \/ GiveUp \/ CloseChannels \/ UNCHANGED vars
  <2>1. /\ UNCHANGED <<exists, watch, done, buf, kq, dropped>>
        /\ mpc' = "select" <=> mpc = "select"
    BY <1>9 DEF NewWatcher, NewWatcherFails, AddFails, Wake, Join, Check,
       Wait, WaitFails, ReadFails, BufferDone, SendError, GiveUp,
       CloseChannels, vars
  <2>2. QED
    BY <1>1, <2>1
<1>10. QED
  BY <1>2, <1>3, <1>4, <1>5, <1>6, <1>7, <1>8, <1>9
     DEF Next, Reader, MainSteps, Environment

\* The watcher is an EventFeed for kubelet.sock, the one that main() is
\* shown to rely on: every creation that is watched is an event, and an
\* event goes only when main() takes it, when the file is gone again, or
\* with the watcher (inotify.go:36-337, main.go:107-116).
THEOREM WatcherFeedsEvents == Spec => FeedsEvents
<1>1. Init => Feed!Init
  <2> SUFFICES ASSUME Init PROVE Feed!Init
    OBVIOUS
  <2>1. buf \o kq = <<>>
    BY EmptySeq, ConcatEmptySeq DEF Init
  <2>2. Cardinality(SockCreations) = 0
    BY <2>1, CountIsCreations, CreationsEmpty
  <2>3. QED
    BY <2>2 DEF Init, Feed!Init
<1>2. IInv /\ [Next]_vars => [Feed!Next]_(Feed!vars)
  BY NextFeedsEvents
<1>3. QED
  BY InductiveInvariant, <1>1, <1>2, PTL DEF Spec, FeedsEvents, Feed!Spec
=============================================================================
