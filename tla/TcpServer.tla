----------------------------- MODULE TcpServer -----------------------------
(***************************************************************************)
(* TcpServer and its Acceptor, composed with EventLoopThreadPool: the      *)
(* server is started, accepts connections, files them, hands them to the   *)
(* loops of the pool, drops those whose client hung up, and is destroyed   *)
(* with connections in every stage of their life.                          *)
(*                                                                         *)
(* The owner of the pool is the thread of the base loop.  A connection is  *)
(* reduced to what its server sees of it (TcpConnection has the rest), a   *)
(* loop to its queue of functors, which is a FIFO (EventLoop) and makes    *)
(* poll() return (NoLostWakeup there).  As in the examples, the server is  *)
(* destroyed by the base loop's thread after loop() has returned, and the  *)
(* base loop goes right after it.                                          *)
(***************************************************************************)
EXTENDS EventLoopThreadPool

CONSTANTS
  MaxConns,   \* bound: clients that connect
  MaxFds      \* descriptors that connections can have at a time

ASSUME ServerAssumption == MaxConns \in Nat /\ MaxFds \in Nat

Conns == 1..MaxConns       \* connections, by the nextConnId_ they got
Loops == 0..MaxThreads

VARIABLES
  server,        \* "new", "starting", "serving", "stopped", "pool", "gone"
  listenning_,   \* Acceptor: the listening socket is open, its channel registered
  backlog,       \* clients that wait to be accepted
  nextConnId_,
  connections_,
  ioLoop,        \* per connection: getLoop()
  state_,        \* per connection, as its constructor leaves it at first
  registered,    \* connections whose channel is in their loop's poller
  functors,      \* per loop: queued connectEstablished, connectDestroyed, removeConnectionInLoop
  polled         \* workers whose poll() has returned with an event of a connection

connVars == <<connections_, ioLoop, state_, registered, functors>>
acceptVars == <<listenning_, backlog, nextConnId_>>
serverVars == <<server, acceptVars, connVars, polled>>
allVars == <<vars, serverVars>>

AcceptorInit == listenning_ = FALSE /\ backlog = 0

ServerInit ==
  /\ Init /\ AcceptorInit
  /\ server = "new"
  /\ nextConnId_ = 1 /\ connections_ = {}
  /\ ioLoop = [n \in Conns |-> BaseLoop]
  /\ state_ = [n \in Conns |-> "kConnecting"]
  /\ registered = {}
  /\ functors = [l \in Loops |-> <<>>]
  /\ polled = {}

ConnStates == {"kConnecting", "kConnected", "kDisconnected"}
Ops == {"connectEstablished", "connectDestroyed", "removeConnectionInLoop"}
Functors == [op : Ops, conn : Conns]
Functor(op, n) == [op |-> op, conn |-> n]
Queue(l, f) == [functors EXCEPT ![l] = Append(@, f)]
Targets(fs, op) == {fs[i].conn : i \in {j \in 1..Len(fs) : fs[j].op = op}}

\* A connection lives while connections_ or a functor holds it; its descriptor
\* is open as long.
Exists(n) ==
  \/ n \in connections_
  \/ \E l \in Loops : \E i \in 1..Len(functors[l]) : functors[l][i].conn = n

OpenFds == Cardinality({n \in Conns : Exists(n)})

\* accept4 finds a descriptor.
HasFd == OpenFds < MaxFds

\* connectEstablished and connectDestroyed of the functors fs, in their order.
RunConnFunctors(fs) ==
  LET up == Targets(fs, "connectEstablished")
      down == Targets(fs, "connectDestroyed")
  IN /\ state_' = [n \in Conns |-> IF n \in down THEN "kDisconnected"
                                   ELSE IF n \in up THEN "kConnected" ELSE state_[n]]
     /\ registered' = (registered \cup up) \ down

\* runInLoop by the base loop's thread.
RunInLoop(l, f) ==
  IF l = BaseLoop
  THEN RunConnFunctors(<<f>>) /\ UNCHANGED functors
  ELSE functors' = Queue(l, f) /\ UNCHANGED <<state_, registered>>

-----------------------------------------------------------------------------
(***************************************************************************)
(* start()                                                                 *)
(***************************************************************************)

\* setThreadNum and the first start(); a later start() does nothing.
Start(n) ==
  /\ server = "new" /\ SetThreadNum(n)
  /\ server' = "starting"
  /\ UNCHANGED <<acceptVars, connVars, polled>>

PoolStarts ==
  /\ StartThread \/ StartLoopCheck
  /\ UNCHANGED serverVars

WaitReturns == SpuriousWakeup /\ UNCHANGED serverVars

\* The pool has started: Acceptor::listen, and the base loop's loop().
Listen ==
  /\ server = "starting" /\ StartDone
  /\ server' = "serving" /\ listenning_' = TRUE
  /\ UNCHANGED <<backlog, nextConnId_, connVars, polled>>

-----------------------------------------------------------------------------
(***************************************************************************)
(* The base loop: Acceptor::handleRead and the functors of the server      *)
(***************************************************************************)

Arrive ==
  /\ listenning_ /\ nextConnId_ + backlog <= MaxConns
  /\ backlog' = backlog + 1
  /\ UNCHANGED <<vars, server, listenning_, nextConnId_, connVars, polled>>

\* poll() reports the listening socket: handleRead calls accept.
Readable == server = "serving" /\ listenning_ /\ backlog > 0

\* accept succeeds: TcpServer::newConnection.
Accept ==
  /\ Readable /\ HasFd
  /\ GetNextLoop
  /\ LET n == nextConnId_ IN
     /\ nextConnId_' = n + 1
     /\ ioLoop' = [ioLoop EXCEPT ![n] = NextLoop]
     /\ connections_' = connections_ \cup {n}
     /\ RunInLoop(NextLoop, Functor("connectEstablished", n))
  /\ backlog' = backlog - 1
  /\ UNCHANGED <<server, listenning_, polled>>

\* Mutant: the acceptor stops listening when it is out of descriptors.
MutAcceptFails ==
  /\ Readable /\ ~HasFd
  /\ listenning_' = FALSE
  /\ UNCHANGED <<vars, server, backlog, nextConnId_, connVars, polled>>

\* accept fails with EMFILE, which is logged; the client stays in the backlog.
AcceptFails ==
  /\ Readable /\ ~HasFd
  /\ UNCHANGED allVars

\* Mutant: the connection is dropped and its channel left in the poller.
MutRemove(n, rest) ==
  /\ connections_' = connections_ \ {n}
  /\ functors' = rest

\* Mutant: the connection stays in connections_.
MutKeep(n, rest) ==
  /\ functors' = [rest EXCEPT ![ioLoop[n]] = Append(@, Functor("connectDestroyed", n))]
  /\ UNCHANGED connections_

\* removeConnectionInLoop, with the functors that are left.
RemoveConnectionInLoop(n, rest) ==
  /\ connections_' = connections_ \ {n}
  /\ functors' = [rest EXCEPT ![ioLoop[n]] = Append(@, Functor("connectDestroyed", n))]

RunBaseFunctor ==
  /\ server = "serving" /\ functors[BaseLoop] # <<>>
  /\ LET f == Head(functors[BaseLoop])
         rest == [functors EXCEPT ![BaseLoop] = Tail(@)]
     IN \/ /\ f.op = "removeConnectionInLoop"
           /\ RemoveConnectionInLoop(f.conn, rest)
           /\ UNCHANGED <<state_, registered>>
        \/ /\ f.op = "connectDestroyed"
           /\ RunConnFunctors(<<f>>)
           /\ functors' = rest
           /\ UNCHANGED connections_
  /\ UNCHANGED <<vars, server, acceptVars, ioLoop, polled>>

-----------------------------------------------------------------------------
(***************************************************************************)
(* A connection ends: TcpConnection::handleClose, TcpServer::removeConnection *)
(***************************************************************************)

Open(l, n) == n \in registered /\ ioLoop[n] = l /\ state_[n] = "kConnected"

CloseBase(n) ==
  /\ server = "serving" /\ Open(BaseLoop, n)
  /\ state_' = [state_ EXCEPT ![n] = "kDisconnected"]
  /\ RemoveConnectionInLoop(n, functors)
  /\ UNCHANGED <<vars, server, acceptVars, ioLoop, registered, polled>>

CloseAt(w, n) ==
  /\ pc[w] = "poll" /\ Open(w, n)
  /\ state_' = [state_ EXCEPT ![n] = "kDisconnected"]
  /\ functors' = Queue(BaseLoop, Functor("removeConnectionInLoop", n))
  /\ polled' = polled \cup {w}
  /\ UNCHANGED <<vars, server, acceptVars, connections_, ioLoop, registered>>

\* The round of a worker's loop comes to its functors.
Round(w) ==
  /\ LoopRound(w)
  /\ RunConnFunctors(functors[w])
  /\ functors' = [functors EXCEPT ![w] = <<>>]
  /\ polled' = polled \ {w}
  /\ UNCHANGED <<server, acceptVars, connections_, ioLoop>>

WorkerSteps(w) ==
  /\ InitLoop(w) \/ Publish(w) \/ EnterLoop(w) \/ LoopCheck(w)
  /\ UNCHANGED serverVars

\* The EventLoop of the worker is destroyed, with the functors it did not run.
WorkerEnds(w) ==
  /\ EndThread(w)
  /\ functors' = [functors EXCEPT ![w] = <<>>]
  /\ UNCHANGED <<server, acceptVars, connections_, ioLoop, state_, registered, polled>>

-----------------------------------------------------------------------------
(***************************************************************************)
(* ~TcpServer                                                              *)
(***************************************************************************)

\* The base loop's loop() returns.
StopBase ==
  /\ server = "serving"
  /\ server' = "stopped"
  /\ UNCHANGED <<vars, acceptVars, connVars, polled>>

\* One round of the destructor's loop over connections_.
CloseOne ==
  /\ server = "stopped"
  /\ \E n \in connections_ :
       /\ connections_' = connections_ \ {n}
       /\ RunInLoop(ioLoop[n], Functor("connectDestroyed", n))
  /\ UNCHANGED <<vars, server, acceptVars, ioLoop, polled>>

\* connections_ is done, threadPool_ is destroyed.
DestroyPool ==
  /\ server = "stopped" /\ connections_ = {} /\ BeginDestroy
  /\ server' = "pool"
  /\ UNCHANGED <<acceptVars, connVars, polled>>

PoolEnds ==
  /\ DtorCheck \/ DtorQuit \/ DtorWakeup \/ DtorJoin
  /\ UNCHANGED serverVars

\* ~Acceptor closes the listening socket; the server, then the base loop with
\* the functors it did not run, are gone.
Gone ==
  /\ DtorDone
  /\ server' = "gone"
  /\ listenning_' = FALSE /\ backlog' = 0
  /\ functors' = [functors EXCEPT ![BaseLoop] = <<>>]
  /\ UNCHANGED <<nextConnId_, connections_, ioLoop, state_, registered, polled>>

-----------------------------------------------------------------------------
BaseStep ==
  \/ PoolStarts \/ Listen
  \/ RunBaseFunctor
  \/ CloseOne \/ DestroyPool \/ PoolEnds \/ Gone

WorkerThread(w) == WorkerSteps(w) \/ WorkerEnds(w)

HangUp(n) == CloseBase(n) \/ \E w \in Workers : CloseAt(w, n)

ServerNext ==
  \/ \E n \in 0..MaxThreads : Start(n)
  \/ BaseStep \/ WaitReturns \/ Arrive \/ Accept \/ AcceptFails \/ StopBase
  \/ \E w \in Workers : WorkerThread(w) \/ Round(w)
  \/ \E n \in Conns : HangUp(n)

ServerSpec == ServerInit /\ [][ServerNext]_allVars

\* Threads are scheduled, the base loop's own work is not put off for ever, and
\* poll() returns when it has something to report.  Every client hangs up at
\* some time, and poll() reports it at one of its returns.
ServerFairSpec ==
  /\ ServerSpec
  /\ WF_allVars(BaseStep) /\ WF_allVars(Accept)
  /\ \A w \in Workers :
       /\ WF_allVars(WorkerThread(w))
       /\ WF_allVars(Round(w) /\ (wakeupFd_[w] \/ functors[w] # <<>> \/ w \in polled))
  /\ \A n \in Conns : SF_allVars(HangUp(n))

-----------------------------------------------------------------------------
(***************************************************************************)
(* Properties                                                              *)
(***************************************************************************)

\* Types of the composition, and what is filed was accepted.
ServerTypeOK ==
  /\ TypeOK
  /\ server \in {"new", "starting", "serving", "stopped", "pool", "gone"}
  /\ listenning_ \in BOOLEAN
  /\ nextConnId_ \in 1..(MaxConns + 1) /\ backlog \in 0..(MaxConns + 1 - nextConnId_)
  /\ connections_ \subseteq 1..(nextConnId_ - 1) /\ registered \subseteq 1..(nextConnId_ - 1)
  /\ ioLoop \in [Conns -> Loops]
  /\ state_ \in [Conns -> ConnStates]
  /\ functors \in [Loops -> Seq(Functors)]
  /\ polled \subseteq Workers

\* A channel that is in the poller of a live loop belongs to a connection that
\* somebody holds (TcpServer.cc:109-126 and 32-42): whichever of the client, the
\* server's destructor and the end of a thread comes first, connectDestroyed
\* takes the channel out before the last pointer goes.
NoStray ==
  \A n \in registered :
    \/ Exists(n)
    \/ ioLoop[n] \in Workers /\ pc[ioLoop[n]] = "done"
    \/ server = "gone"

-----------------------------------------------------------------------------
(***************************************************************************)
(* The inductive invariant behind NoStray                                  *)
(***************************************************************************)

\* A functor waits in the loop it is meant for, for a connection that was
\* accepted; connectEstablished of the base loop is never queued.
Placed ==
  \A l \in Loops :
    /\ \A op \in Ops : Targets(functors[l], op) \subseteq 1..(nextConnId_ - 1)
    /\ \A n \in Targets(functors[l], "connectEstablished") : l # BaseLoop /\ ioLoop[n] = l
    /\ \A n \in Targets(functors[l], "connectDestroyed") : ioLoop[n] = l
    /\ l # BaseLoop => Targets(functors[l], "removeConnectionInLoop") = {}

\* The server still has the connection, or its end is on the way, or its loop
\* is no more.
Held(n) ==
  \/ n \in connections_
  \/ n \in Targets(functors[ioLoop[n]], "connectDestroyed")
  \/ ioLoop[n] \in Workers /\ pc[ioLoop[n]] = "done"
  \/ server = "gone"

\* What is in a poller, and what is about to go there, is held.
Filed ==
  /\ \A n \in registered : Held(n)
  /\ \A l \in Loops : \A n \in Targets(functors[l], "connectEstablished") : Held(n)

\* What server and pool keep at every step (TcpServer.cc, EventLoopThreadPool.cc).
ServerInv == ServerTypeOK /\ PoolInv /\ Placed /\ Filed

\* A client that waits is accepted in the end, also when accept ran out of
\* descriptors in between (Acceptor.cc:66), unless the server stops.
AllAccepted ==
  \A n \in Conns :
    (server = "serving" /\ nextConnId_ = n /\ backlog > 0)
      ~> (nextConnId_ > n \/ server # "serving")

\* A connection that has ended is released in the end, descriptor and all
\* (TcpServer.cc:116-126), across the two loops and whatever stops first.
AllReleased == \A n \in Conns : (state_[n] = "kDisconnected") ~> ~Exists(n)

=============================================================================
