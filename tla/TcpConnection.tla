--------------------------- MODULE TcpConnection ---------------------------
(***************************************************************************)
(* One TcpConnection: its I/O loop, the loop of the TcpServer that owns it *)
(* (or the TcpClient, which shares the loop), other threads that hold a    *)
(* TcpConnectionPtr, the kernel's socket and the peer.                     *)
(*                                                                         *)
(* A handler or functor of the I/O loop is one step: it reads state_ once, *)
(* and everything else it touches belongs to its thread.  The calls other  *)
(* threads make (send, shutdown, forceClose) are split where they read     *)
(* state_, write it, and queue a functor.  A functor queue is FIFO and the *)
(* loop alternates poll, dispatch and one batch of functors (EventLoop);   *)
(* channel_ is registered with the kernel exactly when its index_ is       *)
(* KAdded (Poller).                                                        *)
(***************************************************************************)
EXTENDS Naturals, Sequences

CONSTANTS
  Threads,        \* threads that hold a TcpConnectionPtr, other than the loop's
  Loop,           \* the I/O loop's thread
  LoopOps,        \* what callbacks in the I/O loop may call
  Uses,           \* how the connection may be used: whether TcpServer runs in the
                  \* I/O loop's thread too, and what the other threads may call
  MaxCalls,       \* bound: calls a thread makes on the connection
  MsgLen,         \* bound: length of a message
  MaxRoom,        \* bound: size of the kernel's send buffer
  MaxRx,          \* bound: chunks the peer sends
  HighWaterMark   \* highWaterMark_

Callers == Threads \cup {Loop}
Ops == {"send", "shutdown", "forceClose"}

ASSUME ConnAssumption ==
  /\ Loop \notin Threads
  /\ LoopOps \subseteq Ops /\ Uses \subseteq [sameLoop : BOOLEAN, foreign : SUBSET Ops]
  /\ MaxCalls \in Nat /\ MaxRx \in Nat /\ HighWaterMark \in Nat
  /\ MsgLen \in Nat \ {0} /\ MaxRoom \in Nat \ {0}

VARIABLES
  state_,
  index_, events_,  \* of channel_
  outputBuffer_,
  phase,            \* of the I/O loop: "poll", "dispatch", "functors"; or "fault":
                    \* it has called into a connection that was destroyed
  todo,             \* what Channel::handleEvent still has to call
  guard,            \* handleEvent holds the tie
  queue,            \* functors of the I/O loop, oldest first
  batch,            \* how many of them doPendingFunctors has swapped out
  batchHolds,       \* the batch has run a functor that owns the connection
  baseQueue,        \* functors of the server's loop
  inMap,            \* TcpServer::connections_ holds the connection
  use,              \* the one of Uses at hand; it never changes
  holds,            \* per thread: it holds a TcpConnectionPtr
  call,             \* per thread: the call it is in the middle of
  calls,            \* per caller: calls made so far
  peer,             \* "open", "finned" or "reset"
  rx,               \* received chunks not yet read
  err,              \* SO_ERROR is pending
  room,             \* free space in the kernel's send buffer
  wire,             \* history: units handed to the kernel
  fin,              \* shutdownWrite() was called
  lateWrite,        \* history: write() was called after shutdownWrite()
  ups, downs        \* history: connectionCallback_ calls, up and down

sockVars == <<peer, rx, err>>
outVars  == <<outputBuffer_, wire, room, fin, lateWrite>>
chanVars == <<index_, events_>>
loopVars == <<phase, todo, guard, batch, batchHolds>>
userVars == <<holds, call, calls>>
cbVars   == <<ups, downs>>
mapVars  == <<inMap, use>>
vars == <<state_, chanVars, outVars, loopVars, queue, baseQueue, mapVars,
          userVars, sockVars, cbVars>>

-----------------------------------------------------------------------------
(***************************************************************************)
(* Functors and lifetime                                                   *)
(***************************************************************************)

Functor(op, by, k) == [op |-> op, by |-> by, k |-> k]
Established == Functor("connectEstablished", Loop, 0)
Destroyed   == Functor("connectDestroyed", Loop, 0)
WriteComplete == Functor("writeComplete", Loop, 0)
HighWater == Functor("highWaterMark", Loop, 0)

\* send() and shutdown() bind the bare this pointer, the others a
\* TcpConnectionPtr.
IsRaw(fn) == fn.op \in {"sendInLoop", "shutdownInLoop"}

Elems(s) == {s[i] : i \in 1..Len(s)}

\* Some TcpConnectionPtr exists: in connections_, in a functor of either loop
\* (a batch keeps its functors until it is finished), in a thread, or in
\* Channel::handleEvent.
Alive ==
  \/ inMap
  \/ \E fn \in Elems(queue) : ~IsRaw(fn)
  \/ batchHolds
  \/ baseQueue # <<>>
  \/ \E t \in Threads : holds[t]
  \/ guard

\* Unit i of the k-th message of thread t.
Message(t, k) == [i \in 1..MsgLen |-> [by |-> t, k |-> k, part |-> i]]
Smaller(x, y) == IF x < y THEN x ELSE y

\* TcpServer::newConnection has just called runInLoop(connectEstablished): in
\* the I/O loop's own thread, where Acceptor's handler is still running, it has
\* run; in another thread it is queued.
Init ==
  /\ use \in Uses
  /\ IF use.sameLoop
     THEN /\ state_ = "kConnected" /\ index_ = "KAdded" /\ events_ = {"read"}
          /\ ups = 1 /\ holds = [t \in Threads |-> TRUE]
          /\ phase = "dispatch" /\ queue = <<>>
     ELSE /\ state_ = "kConnecting" /\ index_ = "KNew" /\ events_ = {}
          /\ ups = 0 /\ holds = [t \in Threads |-> FALSE]
          /\ phase = "poll" /\ queue = <<Established>>
  /\ outputBuffer_ = <<>>
  /\ todo = {} /\ guard = FALSE
  /\ batch = 0 /\ batchHolds = FALSE
  /\ baseQueue = <<>>
  /\ inMap = TRUE
  /\ call = [t \in Threads |-> "none"]
  /\ calls = [t \in Callers |-> 0]
  /\ peer = "open" /\ rx = 0 /\ err = FALSE
  /\ room = MaxRoom /\ wire = <<>>
  /\ fin = FALSE /\ lateWrite = FALSE
  /\ downs = 0

-----------------------------------------------------------------------------
(***************************************************************************)
(* Effects shared by handlers and functors; q is the I/O loop's queue      *)
(* without the functor that is running.                                    *)
(***************************************************************************)

\* Channel::update through EPollPoller::updateChannel.
UpdateChannel(ev) ==
  /\ events_' = ev
  /\ index_' = IF index_ = "KAdded" /\ ev = {} THEN "KDelete" ELSE "KAdded"

isWriting == "write" \in events_

\* TcpServer::removeConnection, the connection's closeCallback_.
RemoveConnection(q) ==
  /\ IF use.sameLoop
     THEN /\ inMap' = FALSE
          /\ queue' = Append(q, Destroyed)
          /\ UNCHANGED baseQueue
     ELSE /\ baseQueue' = Append(baseQueue, "removeConnectionInLoop")
          /\ queue' = q
          /\ UNCHANGED inMap
  /\ UNCHANGED use

\* Mutant: the channel keeps its interest after the connection is closed.
MutHandleClose(q) ==
  /\ state_' = "kDisconnected"
  /\ downs' = Smaller(downs + 1, 2)
  /\ RemoveConnection(q)
  /\ UNCHANGED <<chanVars, outVars, ups>>

\* TcpConnection::handleClose
HandleClose(q) ==
  /\ state_' = "kDisconnected"
  /\ UpdateChannel({})
  /\ downs' = Smaller(downs + 1, 2)
  /\ RemoveConnection(q)
  /\ UNCHANGED <<outVars, ups>>

\* Mutant: shutdownInLoop does not wait for outputBuffer_.
MutShutdownInLoop ==
  /\ fin' = TRUE
  /\ UNCHANGED <<outputBuffer_, wire, room, lateWrite>>

\* TcpConnection::shutdownInLoop
ShutdownInLoop ==
  /\ fin' = (fin \/ ~isWriting)
  /\ UNCHANGED <<outputBuffer_, wire, room, lateWrite>>

\* Mutant: data goes straight to the socket although older data is waiting.
MutSendInLoop(msg, q) ==
  LET fails == fin \/ peer = "reset"
      n     == IF fails THEN 0 ELSE Smaller(room, MsgLen)
      rest  == SubSeq(msg, n + 1, MsgLen)
  IN
  /\ lateWrite' = (lateWrite \/ fin)
  /\ wire' = wire \o SubSeq(msg, 1, n)
  /\ room' = room - n
  /\ outputBuffer_' = IF fails THEN outputBuffer_ ELSE outputBuffer_ \o rest
  /\ IF ~fails /\ rest # <<>> THEN UpdateChannel(events_ \cup {"write"}) ELSE UNCHANGED chanVars
  /\ queue' = q
  /\ UNCHANGED fin

\* Mutant: what could not be written is buffered, and nobody waits for EPOLLOUT.
MutNoEnableWriting(msg, q) ==
  LET direct == ~isWriting /\ outputBuffer_ = <<>>
      n      == IF direct /\ ~fin /\ peer # "reset" THEN Smaller(room, MsgLen) ELSE 0
  IN
  /\ wire' = wire \o SubSeq(msg, 1, n)
  /\ room' = room - n
  /\ outputBuffer_' = outputBuffer_ \o SubSeq(msg, n + 1, MsgLen)
  /\ queue' = q
  /\ UNCHANGED <<chanVars, fin, lateWrite>>

\* TcpConnection::sendInLoop.  write() fails with EPIPE or ECONNRESET after
\* shutdownWrite() and after a reset, takes what fits otherwise; a full send
\* buffer (EWOULDBLOCK) takes nothing and is no fault.
SendInLoop(msg, q) ==
  LET direct == ~isWriting /\ outputBuffer_ = <<>>
      fails  == direct /\ (fin \/ peer = "reset")
      n      == IF direct /\ ~fails THEN Smaller(room, MsgLen) ELSE 0
      rest   == SubSeq(msg, n + 1, MsgLen)
      oldlen == Len(outputBuffer_)
      buffer == ~fails /\ rest # <<>>
      crosses == buffer /\ oldlen + Len(rest) >= HighWaterMark /\ oldlen < HighWaterMark
  IN
  IF state_ = "kDisconnected"
  THEN queue' = q /\ UNCHANGED <<chanVars, outVars>>
  ELSE
  /\ lateWrite' = (lateWrite \/ (direct /\ fin))
  /\ wire' = wire \o SubSeq(msg, 1, n)
  /\ room' = room - n
  /\ queue' = CASE direct /\ rest = <<>> -> Append(q, WriteComplete)
                [] crosses               -> Append(q, HighWater)
                [] OTHER                 -> q
  /\ outputBuffer_' = IF buffer THEN outputBuffer_ \o rest ELSE outputBuffer_
  /\ IF buffer /\ ~isWriting THEN UpdateChannel(events_ \cup {"write"}) ELSE UNCHANGED chanVars
  /\ UNCHANGED fin

-----------------------------------------------------------------------------
(***************************************************************************)
(* The I/O loop: poll and Channel::handleEvent                             *)
(***************************************************************************)

\* The socket's conditions, and those epoll reports.
Conditions ==
  (IF rx > 0 \/ peer # "open" THEN {"IN"} ELSE {})
  \cup (IF room > 0 \/ fin \/ peer = "reset" THEN {"OUT"} ELSE {})
  \cup (IF peer = "reset" \/ (peer = "finned" /\ fin) THEN {"HUP"} ELSE {})
  \cup (IF err THEN {"ERR"} ELSE {})

Reported ==
  IF index_ # "KAdded" THEN {}
  ELSE Conditions \cap ( {"HUP", "ERR"}
                         \cup (IF "read" \in events_ THEN {"IN"} ELSE {})
                         \cup (IF "write" \in events_ THEN {"OUT"} ELSE {}) )

\* What handleEvent has to call for what was reported, between the lock of the
\* tie and its unlock.
Due ==
  IF Reported = {} THEN {}
  ELSE {"lock", "unlock"}
       \cup (IF "HUP" \in Reported /\ "IN" \notin Reported THEN {"close"} ELSE {})
       \cup (IF "ERR" \in Reported THEN {"error"} ELSE {})
       \cup (IF "IN" \in Reported THEN {"read"} ELSE {})
       \cup (IF "OUT" \in Reported THEN {"write"} ELSE {})

\* What comes before a callback in handleEventWithGuard.
Earlier == [lock   |-> {},
            close  |-> {"lock"},
            error  |-> {"lock", "close"},
            read   |-> {"lock", "close", "error"},
            write  |-> {"lock", "close", "error", "read"},
            unlock |-> {"lock", "close", "error", "read", "write"}]

\* poll() returns, because of this connection or of anything else.
Poll ==
  /\ phase = "poll"
  /\ phase' = "dispatch"
  /\ todo' = Due
  /\ UNCHANGED <<state_, chanVars, outVars, guard, batch, batchHolds, queue,
                 baseQueue, mapVars, userVars, sockVars, cbVars>>

\* handleEvent goes on to cb.
Calling(cb) ==
  /\ phase = "dispatch"
  /\ cb \in todo /\ todo \cap Earlier[cb] = {}
  /\ UNCHANGED <<phase, batch, batchHolds>>

\* handleEvent: tie_.lock(), without which no callback is made ...
LockTie ==
  /\ Calling("lock")
  /\ guard' = Alive
  /\ todo' = IF Alive THEN todo \ {"lock"} ELSE {}
  /\ UNCHANGED <<state_, chanVars, outVars, queue, baseQueue, mapVars, userVars, sockVars, cbVars>>

\* ... and the end of the guard's scope.
UnlockTie ==
  /\ Calling("unlock") /\ todo' = todo \ {"unlock"}
  /\ guard' = FALSE
  /\ UNCHANGED <<state_, chanVars, outVars, queue, baseQueue, mapVars, userVars, sockVars, cbVars>>

\* The close callback.
CloseCallback ==
  /\ Calling("close") /\ todo' = todo \ {"close"}
  /\ HandleClose(queue)
  /\ UNCHANGED <<guard, userVars, sockVars>>

\* TcpConnection::handleError: getsockopt clears SO_ERROR.
HandleError ==
  /\ Calling("error") /\ todo' = todo \ {"error"}
  /\ err' = FALSE
  /\ UNCHANGED <<state_, chanVars, outVars, guard, queue, baseQueue, mapVars,
                 userVars, peer, rx, cbVars>>

\* TcpConnection::handleRead: data, then a pending error, then the end of the
\* stream.  What messageCallback_ calls on the connection are LoopCalls.
HandleRead ==
  /\ Calling("read") /\ todo' = todo \ {"read"}
  /\ \/ /\ rx > 0
        /\ rx' = 0
        /\ UNCHANGED <<err, state_, chanVars, outVars, queue, baseQueue, mapVars, cbVars>>
     \/ /\ rx = 0 /\ err
        /\ err' = FALSE
        /\ UNCHANGED <<rx, state_, chanVars, outVars, queue, baseQueue, mapVars, cbVars>>
     \/ /\ rx = 0 /\ ~err /\ peer # "open"
        /\ HandleClose(queue)
        /\ UNCHANGED <<rx, err>>
  /\ UNCHANGED <<guard, userVars, peer>>

\* Mutant: handleWrite forgets that a shutdown is waiting for it.
MutHandleWrite ==
  /\ Calling("write") /\ todo' = todo \ {"write"}
  /\ LET n    == IF fin \/ peer = "reset" THEN 0 ELSE Smaller(room, Len(outputBuffer_))
         rest == SubSeq(outputBuffer_, n + 1, Len(outputBuffer_))
     IN  IF ~isWriting \/ n = 0
         THEN UNCHANGED <<chanVars, outVars, queue>>
         ELSE /\ wire' = wire \o SubSeq(outputBuffer_, 1, n)
              /\ room' = room - n
              /\ outputBuffer_' = rest
              /\ IF rest = <<>>
                 THEN /\ UpdateChannel(events_ \ {"write"})
                      /\ queue' = Append(queue, WriteComplete)
                 ELSE UNCHANGED <<chanVars, queue>>
              /\ UNCHANGED <<fin, lateWrite>>
  /\ UNCHANGED <<state_, guard, baseQueue, mapVars, userVars, sockVars, cbVars>>

\* TcpConnection::handleWrite
HandleWrite ==
  /\ Calling("write") /\ todo' = todo \ {"write"}
  /\ LET n    == IF fin \/ peer = "reset" THEN 0 ELSE Smaller(room, Len(outputBuffer_))
         rest == SubSeq(outputBuffer_, n + 1, Len(outputBuffer_))
     IN  IF ~isWriting \/ n = 0
         THEN UNCHANGED <<chanVars, outVars, queue>>
         ELSE /\ wire' = wire \o SubSeq(outputBuffer_, 1, n)
              /\ room' = room - n
              /\ outputBuffer_' = rest
              /\ IF rest = <<>>
                 THEN /\ UpdateChannel(events_ \ {"write"})
                      /\ queue' = Append(queue, WriteComplete)
                      /\ fin' = (fin \/ state_ = "kDisconnecting")
                 ELSE UNCHANGED <<chanVars, queue, fin>>
              /\ UNCHANGED lateWrite
  /\ UNCHANGED <<state_, guard, baseQueue, mapVars, userVars, sockVars, cbVars>>

-----------------------------------------------------------------------------
(***************************************************************************)
(* The I/O loop: functors                                                  *)
(***************************************************************************)

\* doPendingFunctors swaps the pending functors out ...
SwapPending ==
  /\ phase = "dispatch" /\ todo = {}
  /\ phase' = "functors"
  /\ batch' = Len(queue)
  /\ UNCHANGED <<state_, chanVars, outVars, todo, guard, batchHolds, queue,
                 baseQueue, mapVars, userVars, sockVars, cbVars>>

\* ... runs them ...
Running(op) ==
  /\ phase = "functors" /\ batch > 0
  /\ Head(queue).op = op
  /\ batch' = batch - 1
  /\ batchHolds' = (batchHolds \/ ~IsRaw(Head(queue)))
  /\ UNCHANGED <<phase, todo, guard>>

\* ... and lets go of them.
EndBatch ==
  /\ phase = "functors" /\ batch = 0
  /\ phase' = "poll"
  /\ batchHolds' = FALSE
  /\ UNCHANGED <<state_, chanVars, outVars, todo, guard, batch, queue,
                 baseQueue, mapVars, userVars, sockVars, cbVars>>

\* TcpConnection::connectEstablished; the up callback hands the connection to
\* the other threads.
ConnectEstablished ==
  /\ Running("connectEstablished")
  /\ queue' = Tail(queue)
  /\ state_' = "kConnected"
  /\ UpdateChannel(events_ \cup {"read"})
  /\ ups' = ups + 1
  /\ holds' = [t \in Threads |-> TRUE]
  /\ UNCHANGED <<outVars, baseQueue, mapVars, call, calls, sockVars, downs>>

\* Mutant: the channel is left in the poller.
MutConnectDestroyed ==
  /\ Running("connectDestroyed")
  /\ queue' = Tail(queue)
  /\ UNCHANGED <<state_, chanVars, outVars, baseQueue, mapVars, userVars, sockVars, cbVars>>

\* TcpConnection::connectDestroyed
ConnectDestroyed ==
  /\ Running("connectDestroyed")
  /\ queue' = Tail(queue)
  /\ index_' = "KNew"
  /\ IF state_ = "kConnected"
     THEN state_' = "kDisconnected" /\ events_' = {} /\ downs' = Smaller(downs + 1, 2)
     ELSE UNCHANGED <<state_, events_, downs>>
  /\ UNCHANGED <<outVars, baseQueue, mapVars, userVars, sockVars, ups>>

\* sendInLoop as a functor, on the string that its caller has kept.
RunSendInLoop ==
  /\ Running("sendInLoop") /\ Alive
  /\ SendInLoop(Message(Head(queue).by, Head(queue).k), Tail(queue))
  /\ UNCHANGED <<state_, baseQueue, mapVars, userVars, sockVars, cbVars>>

RunShutdownInLoop ==
  /\ Running("shutdownInLoop") /\ Alive
  /\ ShutdownInLoop
  /\ queue' = Tail(queue)
  /\ UNCHANGED <<state_, chanVars, baseQueue, mapVars, userVars, sockVars, cbVars>>

\* A functor that send() or shutdown() queued with the bare this pointer runs
\* when the last TcpConnectionPtr is gone.  What the process does after that is
\* undefined: its loop takes no further step here.
RunDangling ==
  /\ phase = "functors" /\ batch > 0
  /\ IsRaw(Head(queue)) /\ ~Alive
  /\ phase' = "fault"
  /\ UNCHANGED <<state_, chanVars, outVars, todo, guard, batch, batchHolds, queue,
                 baseQueue, mapVars, userVars, sockVars, cbVars>>

\* TcpConnection::forceCloseInLoop
ForceCloseInLoop ==
  /\ Running("forceCloseInLoop")
  /\ IF state_ \in {"kConnected", "kDisconnecting"}
     THEN HandleClose(Tail(queue))
     ELSE queue' = Tail(queue) /\ UNCHANGED <<state_, chanVars, outVars, baseQueue, mapVars, cbVars>>
  /\ UNCHANGED <<userVars, sockVars>>

\* writeCompleteCallback_ and highWaterMarkCallback_: user code, whose calls on
\* the connection are LoopCalls.
RunUserCallback ==
  /\ Running("writeComplete") \/ Running("highWaterMark")
  /\ queue' = Tail(queue)
  /\ UNCHANGED <<state_, chanVars, outVars, baseQueue, mapVars, userVars, sockVars, cbVars>>

\* TcpServer::removeConnectionInLoop, in the server's loop.
RemoveConnectionInLoop ==
  /\ baseQueue # <<>>
  /\ baseQueue' = Tail(baseQueue)
  /\ inMap' = FALSE
  /\ queue' = Append(queue, Destroyed)
  /\ UNCHANGED <<use, state_, chanVars, outVars, loopVars, userVars, sockVars, cbVars>>

-----------------------------------------------------------------------------
(***************************************************************************)
(* Calls on the connection by callbacks of the I/O loop's thread           *)
(***************************************************************************)

\* A callback is running: the connection's own, or another channel's or
\* functor's of the same loop.
MayLoopCall(op) ==
  /\ op \in LoopOps
  /\ phase # "poll"
  /\ ups = 1 /\ Alive
  /\ calls[Loop] < MaxCalls
  /\ calls' = [calls EXCEPT ![Loop] = @ + 1]

LoopSend ==
  /\ MayLoopCall("send")
  /\ state_ = "kConnected"
  /\ SendInLoop(Message(Loop, calls[Loop] + 1), queue)
  /\ UNCHANGED <<state_, loopVars, baseQueue, mapVars, holds, call, sockVars, cbVars>>

LoopShutdown ==
  /\ MayLoopCall("shutdown")
  /\ state_ = "kConnected"
  /\ state_' = "kDisconnecting"
  /\ ShutdownInLoop
  /\ UNCHANGED <<chanVars, loopVars, queue, baseQueue, mapVars, holds, call, sockVars, cbVars>>

LoopForceClose ==
  /\ MayLoopCall("forceClose")
  /\ state_ \in {"kConnected", "kDisconnecting"}
  /\ state_' = "kDisconnecting"
  /\ queue' = Append(queue, Functor("forceCloseInLoop", Loop, 0))
  /\ UNCHANGED <<chanVars, outVars, loopVars, baseQueue, mapVars, holds, call, sockVars, cbVars>>

-----------------------------------------------------------------------------
(***************************************************************************)
(* Calls on the connection by other threads                                *)
(***************************************************************************)

\* A call begins: state_ is read, and admits it.
CallCheck(t, op) ==
  /\ op \in use.foreign
  /\ holds[t] /\ call[t] = "none" /\ calls[t] < MaxCalls
  /\ \/ state_ = "kConnected"
     \/ state_ = "kDisconnecting" /\ op = "forceClose"
  /\ call' = [call EXCEPT ![t] = op]
  /\ calls' = [calls EXCEPT ![t] = @ + 1]
  /\ UNCHANGED <<state_, chanVars, outVars, loopVars, queue, baseQueue, mapVars,
                 holds, sockVars, cbVars>>

\* shutdown and forceClose: setState(kDisconnecting).
CallSet(t) ==
  /\ call[t] \in {"shutdown", "forceClose"}
  /\ state_' = "kDisconnecting"
  /\ call' = [call EXCEPT ![t] = IF @ = "shutdown" THEN "shutdownInLoop" ELSE "forceCloseInLoop"]
  /\ UNCHANGED <<chanVars, outVars, loopVars, queue, baseQueue, mapVars, holds,
                 calls, sockVars, cbVars>>

\* runInLoop or queueInLoop.
CallPush(t) ==
  /\ call[t] \in {"send", "shutdownInLoop", "forceCloseInLoop"}
  /\ queue' = Append(queue, Functor(IF call[t] = "send" THEN "sendInLoop" ELSE call[t],
                                    t, calls[t]))
  /\ call' = [call EXCEPT ![t] = "none"]
  /\ UNCHANGED <<state_, chanVars, outVars, loopVars, baseQueue, mapVars, holds,
                 calls, sockVars, cbVars>>

\* The thread lets go of its TcpConnectionPtr at any moment between two calls,
\* whether the functors it has queued have run or not.
Drop(t) ==
  /\ holds[t] /\ call[t] = "none"
  /\ holds' = [holds EXCEPT ![t] = FALSE]
  /\ UNCHANGED <<state_, chanVars, outVars, loopVars, queue, baseQueue, mapVars,
                 call, calls, sockVars, cbVars>>

-----------------------------------------------------------------------------
(***************************************************************************)
(* The peer and the network                                                *)
(***************************************************************************)

netUnchanged ==
  UNCHANGED <<state_, chanVars, outputBuffer_, wire, fin, lateWrite, loopVars,
              queue, baseQueue, mapVars, userVars, cbVars>>

PeerSend  == peer = "open" /\ rx < MaxRx /\ rx' = rx + 1 /\ UNCHANGED <<peer, err, room>> /\ netUnchanged
PeerClose == peer = "open" /\ peer' = "finned" /\ UNCHANGED <<rx, err, room>> /\ netUnchanged
PeerReset == peer # "reset" /\ peer' = "reset" /\ err' = TRUE /\ UNCHANGED <<rx, room>> /\ netUnchanged
\* The network carries a unit to the peer.
Drain == room < MaxRoom /\ peer # "reset" /\ room' = room + 1 /\ UNCHANGED <<peer, rx, err>> /\ netUnchanged

-----------------------------------------------------------------------------
LoopStep ==
  \/ Poll \/ LockTie \/ UnlockTie \/ CloseCallback \/ HandleError \/ HandleRead
  \/ HandleWrite \/ SwapPending \/ EndBatch
  \/ ConnectEstablished \/ ConnectDestroyed \/ RunSendInLoop \/ RunShutdownInLoop
  \/ RunDangling \/ ForceCloseInLoop \/ RunUserCallback

LoopCall == LoopSend \/ LoopShutdown \/ LoopForceClose

ForeignStep(t) == CallSet(t) \/ CallPush(t)

Next ==
  \/ LoopStep
  \/ LoopCall
  \/ RemoveConnectionInLoop
  \/ \E t \in Threads : (\E op \in Ops : CallCheck(t, op)) \/ ForeignStep(t) \/ Drop(t)
  \/ PeerSend \/ PeerClose \/ PeerReset \/ Drain

Spec == Init /\ [][Next]_vars

\* The loops and the threads are scheduled; poll() returns when it has work
\* (EventLoop's NoLostWakeup, Poller's ReadyServed); a thread lets go of the
\* connection in the end; the network goes on carrying data.
Fairness ==
  /\ WF_vars(LoopStep)
  /\ WF_vars(RemoveConnectionInLoop)
  /\ \A t \in Threads : WF_vars(ForeignStep(t)) /\ WF_vars(Drop(t))
  /\ WF_vars(Drain)

FairSpec == Spec /\ Fairness

-----------------------------------------------------------------------------
(***************************************************************************)
(* Properties                                                              *)
(***************************************************************************)

Units == [by : Callers, k : 0..MaxCalls, part : 1..MsgLen]
FunctorOps == {"connectEstablished", "connectDestroyed", "sendInLoop", "shutdownInLoop",
               "forceCloseInLoop", "writeComplete", "highWaterMark"}
Functors == [op : FunctorOps, by : Callers, k : 0..MaxCalls]

\* Types; a batch is part of the queue, connectEstablished runs once.
TypeOK ==
  /\ state_ \in {"kConnecting", "kConnected", "kDisconnecting", "kDisconnected"}
  /\ index_ \in {"KNew", "KAdded", "KDelete"}
  /\ events_ \subseteq {"read", "write"}
  /\ outputBuffer_ \in Seq(Units) /\ wire \in Seq(Units)
  /\ phase \in {"poll", "dispatch", "functors", "fault"}
  /\ todo \subseteq {"lock", "close", "error", "read", "write", "unlock"}
  /\ guard \in BOOLEAN /\ batchHolds \in BOOLEAN /\ inMap \in BOOLEAN
  /\ queue \in Seq(Functors)
  /\ batch \in 0..Len(queue)
  /\ baseQueue \in Seq({"removeConnectionInLoop"})
  /\ holds \in [Threads -> BOOLEAN]
  /\ call \in [Threads -> Ops \cup {"none", "shutdownInLoop", "forceCloseInLoop"}]
  /\ calls \in [Callers -> 0..MaxCalls]
  /\ peer \in {"open", "finned", "reset"} /\ rx \in 0..MaxRx /\ err \in BOOLEAN
  /\ room \in 0..MaxRoom
  /\ fin \in BOOLEAN /\ lateWrite \in BOOLEAN /\ use \in Uses
  /\ ups \in 0..1 /\ downs \in 0..2

\* The other threads only send: they never write state_, so that no store of
\* theirs undoes what the loop's thread has stored.
OnlySends == use.foreign \subseteq {"send"}

\* state_ means what the loop's thread has stored: the other threads only send, or
\* the connection has not ended, and a store of theirs keeps it on its way there.
Orderly == OnlySends \/ downs = 0

Stream == wire \o outputBuffer_

\* A sequence of whole messages: a unit follows the one before it in its message
\* and is followed by the next one.
Whole(s) ==
  \A i \in 1..Len(s) :
    /\ s[i].part # 1 => i > 1 /\ s[i - 1] = [s[i] EXCEPT !.part = @ - 1]
    /\ s[i].part # MsgLen => i < Len(s) /\ s[i + 1] = [s[i] EXCEPT !.part = @ + 1]

\* Of two units of one thread the first was sent first.
SentBefore(u, v) == u.k < v.k \/ (u.k = v.k /\ u.part < v.part)
InSendOrder(s) ==
  \A i, j \in 1..Len(s) : i < j /\ s[i].by = s[j].by => SentBefore(s[i], s[j])

\* What has been handed to the kernel, followed by what waits in outputBuffer_,
\* is made of whole messages, each of them at most once, and the messages of one
\* thread are in the order of its send() calls (TcpConnection.cc:210-271,
\* 144-178), whatever was written directly, in part, or not at all.
StreamIntact == Whole(Stream) /\ InSendOrder(Stream)

\* Waiting output is never forgotten: while the connection is up, a nonempty
\* outputBuffer_ goes with a registered EPOLLOUT (TcpConnection.cc:253-270,
\* 153-155).
BacklogWatched ==
  (outputBuffer_ # <<>> /\ state_ # "kDisconnected") => (isWriting /\ index_ = "KAdded")

\* handleEvent is under way from its lock to its unlock.
Dispatching ==
  /\ todo = {} => ~guard
  /\ todo # {} => phase = "dispatch" /\ "unlock" \in todo /\ (guard <=> "lock" \notin todo)
  /\ "close" \in todo => "read" \notin todo

\* Some functor of q is an op.
Waits(q, op) == \E i \in 1..Len(q) : q[i].op = op
\* At most one functor of q is an op.
AtMostOne(q, op) == \A i, j \in 1..Len(q) : q[i].op = op /\ q[j].op = op => i = j

\* Before connectEstablished nobody has the connection and nothing has happened
\* to it, and it is queued once.
Unborn ==
  /\ state_ = "kConnecting" /\ index_ = "KNew" /\ events_ = {} /\ outputBuffer_ = <<>>
  /\ downs = 0 /\ todo = {} /\ queue = <<Established>> /\ baseQueue = <<>> /\ inMap
  /\ \A t \in Threads : ~holds[t]
Born == IF ups = 0 THEN Unborn
        ELSE state_ # "kConnecting" /\ ~Waits(queue, "connectEstablished")

\* A thread has its pointer while it makes a call, and calls nothing but what the
\* use allows; functors with a bare pointer come from other threads.
Held ==
  /\ \A t \in Threads : call[t] # "none" => holds[t]
  /\ \A fn \in Elems(queue) : IsRaw(fn) => fn.by \in Threads
  /\ OnlySends => /\ \A t \in Threads : call[t] \in {"none", "send"}
                  /\ ~Waits(queue, "shutdownInLoop")

\* By has made its k-th call, and is not about to queue what it sends.
Made(by, k, made, at) == k <= made[by] /\ (by \in Threads /\ at[by] # "none" => k < made[by])

\* Every unit of by in s is of an earlier call than its k-th.
Precede(s, by, k) == \A i \in 1..Len(s) : s[i].by = by => s[i].k < k

\* The messages of a thread that wait in the queue q are in order, and come after
\* those in the stream s and before the one it is about to queue.
InTurn(q, s, made, at) ==
  /\ \A i \in 1..Len(q) : q[i].op = "sendInLoop" => Made(q[i].by, q[i].k, made, at)
  /\ \A i \in 1..Len(s) : Made(s[i].by, s[i].k, made, at)
  /\ \A i, j \in 1..Len(q) :
       i < j /\ q[i].op = "sendInLoop" /\ q[j].op = "sendInLoop" /\ q[i].by = q[j].by
         => q[i].k < q[j].k
  /\ \A i \in 1..Len(q) : q[i].op = "sendInLoop" => Precede(s, q[i].by, q[i].k)
SendsInTurn == InTurn(queue, Stream, calls, call)

\* After the down callback the channel is not read.
Quiet == downs > 0 => "read" \notin events_ \cup todo

\* The end of the connection in connections_ and in the poller is under way:
\* it waits in the server's loop, or connectDestroyed waits in the I/O loop.
Ending ==
  \/ inMap /\ baseQueue = <<"removeConnectionInLoop">> /\ ~Waits(queue, "connectDestroyed")
  \/ ~inMap /\ baseQueue = <<>> /\ Waits(queue, "connectDestroyed")

\* A connection that is up is registered and in connections_; one that is down
\* has been reported once, watches nothing, and stays registered just until
\* connectDestroyed, which is queued once.
Life ==
  /\ state_ \in {"kConnected", "kDisconnecting"} =>
       /\ index_ = "KAdded" /\ "read" \in events_ /\ downs = 0
       /\ inMap /\ baseQueue = <<>> /\ ~Waits(queue, "connectDestroyed")
  /\ state_ = "kDisconnected" =>
       /\ events_ = {} /\ downs = 1 /\ todo \cap {"lock", "close", "read"} = {}
       /\ \/ index_ = "KDelete" /\ Ending
          \/ index_ = "KNew" /\ ~inMap /\ baseQueue = <<>> /\ ~Waits(queue, "connectDestroyed")
  /\ AtMostOne(queue, "connectDestroyed")

\* What is true of a connection at every moment; the part on its life and its
\* waiting output until it ends, and with threads that only send after that too.
ConnInv ==
  /\ TypeOK
  /\ Dispatching /\ Born /\ Held /\ Quiet
  /\ SendsInTurn /\ StreamIntact
  /\ Orderly => Life /\ BacklogWatched

\* shutdownWrite() happens with an empty outputBuffer_ (TcpConnection.cc:275),
\* whichever thread called shutdown() (TcpConnection.cc:87-96): nothing the
\* connection has accepted is cut off by it.
FinAfterFlush == [][(Orderly /\ ~fin /\ fin') => outputBuffer_' = <<>>]_vars

\* The application hears of the end of the connection once: handleClose and
\* connectDestroyed between them make one down callback (TcpConnection.cc:117,
\* 188), whichever of end of stream, HUP and forceClose comes first.
DownOnce == downs <= 1

\* DownOnce, when no other thread writes state_ (TcpConnection.cc:89, 285).
OneDown == OnlySends => DownOnce

\* No message callback (TcpConnection.cc:130) comes after the down callback,
\* even when both are due in one round of the loop.
QuietAfterDown == [][rx' < rx => downs = 0]_vars

\* The last TcpConnectionPtr leaves behind neither a callback of channel_ that
\* handleEvent still makes nor the poller's entry for channel_ (Channel.cc:31;
\* TcpServer.cc:121-125; TcpConnection.cc:112-122).  It may leave behind a functor
\* of send() or shutdown() (TcpConnection.cc:79, 93): those do not keep the
\* connection, nothing in the code makes the caller keep it, and RunDangling is
\* what comes of it.
NoUseAfterFree == Orderly /\ (todo # {} \/ index_ # "KNew") => Alive

\* A shutdown() of any thread is carried out: the write side is closed unless the
\* application is told of the end of the connection first (TcpConnection.cc:87-96,
\* 163-166).
ShutdownCompletes == (state_ = "kDisconnecting") ~> (fin \/ downs > 0)

\* When the peer is gone the connection is closed, taken out of connections_
\* and of the poller, and destroyed.
CloseReleases == (OnlySends /\ peer # "open" /\ ups = 1) ~> (~Alive /\ index_ = "KNew")

\* write() is not called after shutdownWrite() (TcpConnection.cc:216: shutdown
\* was called before, nothing can be sent any more).
NoLateWrite == ~lateWrite

=============================================================================
