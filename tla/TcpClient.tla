----------------------------- MODULE TcpClient -----------------------------
(***************************************************************************)
(* TcpClient and its Connector on one event loop, with the descriptors     *)
(* they open, the channels they file with the poller, the functors and     *)
(* timers they leave in the loop, and a second thread that uses the client.*)
(*                                                                         *)
(* A handler or functor of the loop is one step, except that the restart() *)
(* at the end of removeConnection is a step of its own: it writes what     *)
(* stop() of another thread writes.  Calls of the other thread are split   *)
(* at every access to shared state.  The loop alternates poll, dispatch    *)
(* and one batch of functors (EventLoop); a TcpConnection is reduced to    *)
(* what its client sees of it (TcpConnection).                             *)
(*                                                                         *)
(* Callers keep three rules that the code relies on and does not check:    *)
(* connect() is called only on a client that has nothing under way         *)
(* (Settled, "FIXME: check state"), the client is destroyed in the loop's  *)
(* thread, and not in a round that still has a functor of its Connector to *)
(* run.                                                                    *)
(***************************************************************************)
EXTENDS Naturals, Sequences

CONSTANTS
  Fds,           \* descriptor numbers the client may get, used again once closed
  None,
  TimerQueues,   \* whether the loop has a timerQueue_ to dereference
  MaxCalls,      \* bound: calls made by the other thread
  kInitRetryDelayMs, kMaxRetryDelayMs

ASSUME ClientAssumption ==
  /\ Fds \subseteq Nat /\ None \notin Fds
  /\ TimerQueues \subseteq BOOLEAN
  /\ MaxCalls \in Nat
  /\ kInitRetryDelayMs \in Nat /\ kMaxRetryDelayMs \in Nat
  /\ kInitRetryDelayMs <= kMaxRetryDelayMs

VARIABLES
  cr,            \* the Connector and what its methods act on (see ConnectorInit)
  alive,         \* the TcpClient exists
  retry_, wants, \* TcpClient::retry_ and TcpClient::connect_
  connection_,
  conn,          \* per descriptor, its TcpConnection: "none", "up", "closing", "down"
  phase,         \* of the loop: "events" or "functors"
  restarting,    \* removeConnection has found that it has to restart()
  active,        \* what poll() reported and is still to be dispatched
  batch,         \* functors that doPendingFunctors has swapped out
  call, calls,   \* the other thread: rest of its call, calls made
  stopped        \* history: stop() by the loop's thread, and no connect() since

connVars == <<connection_, conn, restarting>>
loopVars == <<phase, restarting, active, batch>>
userVars == <<call, calls>>
vars == <<cr, alive, retry_, wants, connection_, conn, loopVars, userVars, stopped>>

Functor(op, fd) == [op |-> op, fd |-> fd]

\* Connector::Connector.
ConnectorInit ==
  cr \in [connect_ : {FALSE}, state_ : {"kDisconnected"}, channel_ : {None},
          retryDelayMs_ : {kInitRetryDelayMs},
          timerQueue_ : TimerQueues, \* EventLoop::timerQueue_ is set
          proc : {"run"},     \* or "exit" (LOG_FATAL), "fault" (null timerQueue_)
          open : {{}},        \* descriptors that are not closed
          watched : {{}},     \* descriptors whose channel is in EPollPoller::channels_
          timers : {0},       \* retry timers, each holds the Connector
          keeper : {FALSE},   \* the timer of ~TcpClient holds it
          queue : {<<>>},     \* EventLoop::pendingFunctors_
          refused : {FALSE}]  \* history: the last error of ::connect is not retried

\* TcpClient::TcpClient; enableRetry() may have been called.
Init ==
  /\ ConnectorInit
  /\ alive = TRUE /\ retry_ \in BOOLEAN /\ wants = TRUE /\ connection_ = None
  /\ conn = [f \in Fds |-> "none"]
  /\ phase = "functors" /\ restarting = FALSE /\ active = {} /\ batch = <<>>
  /\ call = <<>> /\ calls = 0 /\ stopped = FALSE

-----------------------------------------------------------------------------
(***************************************************************************)
(* Connector: its methods as functions of cr                               *)
(***************************************************************************)
Smaller(x, y) == IF x < y THEN x ELSE y

Queue(c, fn) == [c EXCEPT !.queue = Append(@, fn)]

\* EventLoop::runAfter: without a timerQueue_, a null dereference.
RunAfter(c) == IF c.timerQueue_ THEN c ELSE [c EXCEPT !.proc = "fault"]

\* Mutant: the delay is doubled without a limit.
MutRetryDelay(c, fd) ==
  LET closed == [c EXCEPT !.open = @ \ {fd}, !.state_ = "kDisconnected"] IN
  IF ~c.connect_ THEN closed
  ELSE RunAfter([closed EXCEPT !.timers = @ + 1, !.retryDelayMs_ = 2 * @])

\* Mutant: no more retries once the delay has reached its maximum.
MutRetry(c, fd) ==
  LET closed == [c EXCEPT !.open = @ \ {fd}, !.state_ = "kDisconnected"] IN
  IF ~c.connect_ \/ c.retryDelayMs_ = kMaxRetryDelayMs THEN closed
  ELSE RunAfter([closed EXCEPT !.timers = @ + 1,
                               !.retryDelayMs_ = Smaller(2 * @, kMaxRetryDelayMs)])

Retry(c, fd) ==
  LET closed == [c EXCEPT !.open = @ \ {fd}, !.state_ = "kDisconnected"] IN
  IF ~c.connect_ THEN closed
  ELSE RunAfter([closed EXCEPT !.timers = @ + 1,
                               !.retryDelayMs_ = Smaller(2 * @, kMaxRetryDelayMs)])

RemoveAndResetChannel(c) ==
  Queue([c EXCEPT !.watched = @ \ {c.channel_}], Functor("resetChannel", None))

Connecting(c, fd) ==
  [c EXCEPT !.state_ = "kConnecting", !.channel_ = fd, !.watched = @ \cup {fd}]

\* socket(): the lowest number that is free.
NewFd(c) == CHOOSE f \in Fds \ c.open : \A g \in Fds \ c.open : f <= g

\* Connector::connect: ::connect is under way, fails with an error that is
\* retried or with another one, or there is no descriptor for it (LOG_FATAL).
Connect(c) ==
  LET fd == NewFd(c)
      s == [c EXCEPT !.open = @ \cup {fd}, !.refused = FALSE]
      tried == {Connecting(s, fd), Retry(s, fd), [c EXCEPT !.refused = TRUE]}
  IN {[c EXCEPT !.proc = "exit"]} \cup (IF Fds \subseteq c.open THEN {} ELSE tried)

\* Mutant: connect_ is not looked at.
MutStartInLoop(c) == Connect(c)

StartInLoop(c) == IF c.connect_ THEN Connect(c) ELSE {c}

\* Mutant: the descriptor is forgotten.
MutStopInLoop(c) ==
  IF c.state_ = "kConnecting"
  THEN RemoveAndResetChannel([c EXCEPT !.state_ = "kDisconnected"])
  ELSE c

StopInLoop(c) ==
  IF c.state_ = "kConnecting" THEN Retry(RemoveAndResetChannel(c), c.channel_) ELSE c

-----------------------------------------------------------------------------
(***************************************************************************)
(* What is pending, and the callers' rules                                 *)
(***************************************************************************)
Elems(q) == {q[i] : i \in 1..Len(q)}
Pending == Elems(cr.queue) \cup Elems(batch)

\* No functor that binds the bare Connector pointer is pending.
Quiet == \A fn \in Pending : fn.op \notin {"startInLoop", "stopInLoop", "resetChannel"}

Settled ==
  /\ Quiet /\ call = <<>> /\ ~restarting
  /\ connection_ = None /\ cr.state_ # "kConnecting" /\ cr.timers = 0

\* The loop's thread is at the start of a handler, a functor, or a user's callback.
LoopFree == cr.proc = "run" /\ ~restarting

-----------------------------------------------------------------------------
(***************************************************************************)
(* The loop                                                                *)
(***************************************************************************)
Open(f) == conn[f] \in {"up", "closing"}
Source(who, fds) == [who : {who}, fd : fds]
Once(b) == {None : x \in {TRUE} \cap {b}}

\* What poll() may report: the connecting socket, the end of a connection, and
\* the timers.  A timer of half a second or more does not expire before the
\* functors that were queued when it was set have run.
Sources ==
  Source("connector", {cr.channel_} \cap cr.watched)
  \cup Source("conn", {f \in Fds : Open(f)})
  \cup Source("retry", Once(cr.timers > 0 /\ Quiet))
  \cup Source("keeper", Once(cr.keeper /\ Quiet))

Poll ==
  /\ LoopFree /\ phase = "functors" /\ batch = <<>>
  /\ active' \in SUBSET Sources
  /\ active' # {} \/ cr.queue # <<>>
  /\ phase' = "events"
  /\ UNCHANGED <<cr, alive, retry_, wants, connVars, batch, userVars, stopped>>

\* doPendingFunctors: the swap.
SwapPending ==
  /\ LoopFree /\ phase = "events" /\ active = {}
  /\ phase' = "functors" /\ batch' = cr.queue /\ cr' = [cr EXCEPT !.queue = <<>>]
  /\ UNCHANGED <<alive, retry_, wants, connVars, active, userVars, stopped>>

Dispatch(e, who) ==
  /\ LoopFree /\ phase = "events" /\ e \in active /\ e.who = who
  /\ active' = active \ {e}
  /\ UNCHANGED <<alive, retry_, wants, phase, batch, userVars, stopped>>

\* Connector::handleWrite with an error, or connected to itself.
HandleWriteFails(e) ==
  /\ Dispatch(e, "connector") /\ cr.state_ = "kConnecting"
  /\ cr' = Retry(RemoveAndResetChannel(cr), e.fd)
  /\ UNCHANGED connVars

\* TcpClient::newConnection, with connectEstablished.
NewConnection(c, fd) ==
  /\ cr' = [c EXCEPT !.watched = @ \cup {fd}]
  /\ connection_' = fd
  /\ conn' = [conn EXCEPT ![fd] = "up"]

\* Connector::handleWrite on an established connection, which is closed if
\* nobody wants it any more.
HandleWrite(e) ==
  /\ Dispatch(e, "connector") /\ cr.state_ = "kConnecting"
  /\ LET c == [RemoveAndResetChannel(cr) EXCEPT !.state_ = "kConnected"] IN
     IF cr.connect_
     THEN NewConnection(c, e.fd)
     ELSE /\ cr' = [c EXCEPT !.open = @ \ {e.fd}]
          /\ UNCHANGED <<connection_, conn>>
  /\ UNCHANGED restarting

\* Connector::handleError ends in LOG_FATAL.
HandleError(e) ==
  /\ Dispatch(e, "connector") /\ cr.state_ = "kConnecting"
  /\ cr' = [RemoveAndResetChannel(cr) EXCEPT !.proc = "exit"]
  /\ UNCHANGED connVars

\* An event of a channel that was stopped earlier in the round.
StaleEvent(e) ==
  /\ Dispatch(e, "connector") /\ cr.state_ # "kConnecting"
  /\ UNCHANGED <<cr, connVars>>

\* A retry timer: startInLoop; the timer lets go of the Connector.
RetryTimer(e) ==
  /\ Dispatch(e, "retry")
  /\ cr' \in StartInLoop([cr EXCEPT !.timers = @ - 1])
  /\ UNCHANGED connVars

KeeperTimer(e) ==
  /\ Dispatch(e, "keeper")
  /\ cr' = [cr EXCEPT !.keeper = FALSE]
  /\ UNCHANGED connVars

\* TcpConnection::handleClose.  Its closeCallback_ is removeConnection of the
\* client, which goes on to restart(), or once the client is destroyed that of
\* detail.
HandleClose(f) ==
  /\ conn' = [conn EXCEPT ![f] = "down"]
  /\ connection_' = None
  /\ cr' = Queue(cr, Functor("connectDestroyed", f))
  /\ restarting' = (alive /\ retry_ /\ wants)

ConnClosed(e) == Dispatch(e, "conn") /\ HandleClose(e.fd)

\* Connector::restart, out of removeConnection.
Restart ==
  /\ cr.proc = "run" /\ restarting
  /\ restarting' = FALSE
  /\ cr' \in StartInLoop([cr EXCEPT !.state_ = "kDisconnected", !.connect_ = TRUE])
  /\ UNCHANGED <<alive, retry_, wants, connection_, conn, phase, active, batch, userVars,
                 stopped>>

\* doPendingFunctors: the next functor.
RunFunctor ==
  /\ LoopFree /\ phase = "functors" /\ batch # <<>>
  /\ batch' = Tail(batch)
  /\ LET fn == Head(batch) IN
     \/ fn.op = "startInLoop" /\ cr' \in StartInLoop(cr) /\ UNCHANGED connVars
     \/ fn.op = "stopInLoop" /\ cr' = StopInLoop(cr) /\ UNCHANGED connVars
     \/ fn.op = "resetChannel" /\ cr' = [cr EXCEPT !.channel_ = None] /\ UNCHANGED connVars
     \/ /\ fn.op = "connectDestroyed"
        /\ cr' = [cr EXCEPT !.watched = @ \ {fn.fd}, !.open = @ \ {fn.fd}]
        /\ conn' = [conn EXCEPT ![fn.fd] = "none"]
        /\ UNCHANGED <<connection_, restarting>>
     \/ fn.op = "forceCloseInLoop" /\ Open(fn.fd) /\ HandleClose(fn.fd)
     \/ fn.op = "forceCloseInLoop" /\ ~Open(fn.fd) /\ UNCHANGED <<cr, connVars>>
     \/ fn.op = "shutdownInLoop" /\ UNCHANGED <<cr, connVars>>
  /\ UNCHANGED <<alive, retry_, wants, phase, active, userVars, stopped>>

-----------------------------------------------------------------------------
(***************************************************************************)
(* Calls in the loop's thread                                              *)
(***************************************************************************)
Here == LoopFree /\ alive /\ UNCHANGED <<retry_, loopVars, userVars>>

\* TcpClient::connect.
ConnectHere ==
  /\ Here /\ Settled
  /\ wants' = TRUE /\ stopped' = FALSE
  /\ cr' \in StartInLoop([cr EXCEPT !.connect_ = TRUE])
  /\ UNCHANGED <<alive, connection_, conn>>

\* TcpClient::stop; history leaves out a stop that overlaps a connect.
StopHere ==
  /\ Here
  /\ wants' = FALSE
  /\ stopped' = (call = <<>> \/ call[Len(call)] # "startInLoop")
  /\ cr' = StopInLoop([cr EXCEPT !.connect_ = FALSE])
  /\ UNCHANGED <<alive, connection_, conn>>

\* TcpConnection::shutdown, of connection_.
Shutdown(f) ==
  conn' = IF f # None /\ conn[f] = "up" THEN [conn EXCEPT ![f] = "closing"] ELSE conn

\* TcpClient::disconnect.
DisconnectHere ==
  /\ Here
  /\ wants' = FALSE
  /\ Shutdown(connection_)
  /\ UNCHANGED <<cr, alive, connection_, stopped>>

\* TcpConnection::forceClose.
ForceClose(f) ==
  /\ conn' = [conn EXCEPT ![f] = "closing"]
  /\ cr' = Queue(cr, Functor("forceCloseInLoop", f))

\* A callback force closes a connection (bound: once).
ForceCloseHere(f) ==
  /\ LoopFree /\ Open(f) /\ Functor("forceCloseInLoop", f) \notin Pending
  /\ ForceClose(f)
  /\ UNCHANGED <<alive, retry_, wants, connection_, loopVars, userVars, stopped>>

\* Mutant: without a connection the Connector is not kept for the functors it
\* has queued.
MutDestroyIdle ==
  /\ connection_ = None
  /\ cr' = StopInLoop([cr EXCEPT !.connect_ = FALSE])
  /\ UNCHANGED conn

\* ~TcpClient without a connection: stop the Connector and keep it for a second.
DestroyIdle ==
  /\ connection_ = None
  /\ cr' = RunAfter([StopInLoop([cr EXCEPT !.connect_ = FALSE]) EXCEPT !.keeper = TRUE])
  /\ UNCHANGED conn

\* ~TcpClient with a connection: close it, unless somebody else holds it too.  Such
\* a holder keeps it until it is closed: that it may not let go while channel_ is
\* registered is a rule of use (TcpClient.cc:96-99 leaves the connection as it is).
DestroyConnected ==
  /\ connection_ # None
  /\ ForceClose(connection_) \/ UNCHANGED <<cr, conn>>

Destroy ==
  /\ Here /\ Quiet /\ call = <<>>
  /\ DestroyIdle \/ DestroyConnected
  /\ alive' = FALSE /\ connection_' = None
  /\ UNCHANGED <<wants, stopped>>

-----------------------------------------------------------------------------
(***************************************************************************)
(* Calls of the other thread, one access at a time                         *)
(***************************************************************************)
Calls == {<<"clientOn", "connectorOn", "startInLoop">>,
          <<"clientOff", "connectorOff", "stopInLoop">>,
          <<"clientOff", "shutdown">>}

\* connect, stop and disconnect.
BeginCall(steps) ==
  /\ cr.proc = "run" /\ alive /\ call = <<>> /\ calls < MaxCalls
  /\ steps[1] = "clientOn" => Settled
  /\ call' = steps /\ calls' = calls + 1
  /\ stopped' = (stopped /\ steps[1] # "clientOn")
  /\ UNCHANGED <<cr, alive, retry_, wants, connection_, conn, loopVars>>

\* A step takes shutdown's test of state_ together with its store (TcpConnection.cc:
\* 89-91): what comes between the two in the loop's thread is in TcpConnection.
CallStep ==
  /\ cr.proc = "run" /\ call # <<>>
  /\ call' = Tail(call)
  /\ LET step == Head(call) IN
     \/ /\ step \in {"clientOn", "clientOff"}
        /\ wants' = (step = "clientOn")
        /\ UNCHANGED <<cr, conn>>
     \/ /\ step \in {"connectorOn", "connectorOff"}
        /\ cr' = [cr EXCEPT !.connect_ = (step = "connectorOn")]
        /\ UNCHANGED <<wants, conn>>
     \/ /\ step \in {"startInLoop", "stopInLoop"}
        /\ cr' = Queue(cr, Functor(step, None))
        /\ UNCHANGED <<wants, conn>>
     \/ /\ step = "shutdown"     \* with mutex_ held
        /\ Shutdown(connection_)
        /\ cr' = IF conn' = conn THEN cr ELSE Queue(cr, Functor("shutdownInLoop", connection_))
        /\ UNCHANGED wants
  /\ UNCHANGED <<alive, retry_, connection_, loopVars, calls, stopped>>

-----------------------------------------------------------------------------
Event(e) ==
  \/ HandleWriteFails(e) \/ HandleWrite(e) \/ HandleError(e) \/ StaleEvent(e)
  \/ RetryTimer(e) \/ KeeperTimer(e) \/ ConnClosed(e)

LoopStep == SwapPending \/ Restart \/ RunFunctor \/ (\E e \in active : Event(e))

Next ==
  \/ Poll \/ LoopStep
  \/ ConnectHere \/ StopHere \/ DisconnectHere \/ Destroy
  \/ \E f \in Fds : ForceCloseHere(f)
  \/ (\E steps \in Calls : BeginCall(steps)) \/ CallStep

Spec == Init /\ [][Next]_vars

\* An attempt that ::connect lets go ahead.
Attempt == LoopStep /\ cr.state_ # "kConnecting" /\ cr'.state_ = "kConnecting"

\* Callbacks return, poll() goes on reporting the connecting socket and the
\* retry timer, and of the attempts to connect not all fail: the server is
\* there, time and again.
Fairness ==
  /\ WF_vars(LoopStep)
  /\ SF_vars(Poll /\ \E e \in active' : e.who \in {"connector", "retry"})
  /\ WF_vars(Poll)
  /\ SF_vars(Attempt)
  /\ SF_vars(\E e \in active : HandleWrite(e))

FairSpec == Spec /\ Fairness

-----------------------------------------------------------------------------
(***************************************************************************)
(* Properties                                                              *)
(***************************************************************************)

States == {"kDisconnected", "kConnecting", "kConnected"}

Functors == [op : {"startInLoop", "stopInLoop", "resetChannel"}, fd : {None}]
            \cup [op : {"connectDestroyed", "forceCloseInLoop", "shutdownInLoop"}, fd : Fds]
Events == [who : {"connector", "conn"}, fd : Fds] \cup [who : {"retry", "keeper"}, fd : {None}]

\* What may be left of a connect(), and of another call, of the other thread.
Starts == {<<"clientOn", "connectorOn", "startInLoop">>, <<"connectorOn", "startInLoop">>,
           <<"startInLoop">>}
OtherCalls == {<<>>, <<"clientOff", "connectorOff", "stopInLoop">>, <<"connectorOff", "stopInLoop">>,
               <<"stopInLoop">>, <<"clientOff", "shutdown">>, <<"shutdown">>}

Connectors ==
  [connect_ : BOOLEAN, state_ : States, channel_ : Fds \cup {None},
   retryDelayMs_ : kInitRetryDelayMs..kMaxRetryDelayMs, timerQueue_ : BOOLEAN,
   proc : {"run", "exit", "fault"}, open : SUBSET Fds, watched : SUBSET Fds, timers : Nat,
   keeper : BOOLEAN, queue : Seq(Functors), refused : BOOLEAN]

\* The state of Connector.h:56-62 and TcpClient.h:55-72 keeps its types, and the
\* delay between two attempts stays in its range.
TypeOK ==
  /\ cr \in Connectors
  /\ alive \in BOOLEAN /\ retry_ \in BOOLEAN /\ wants \in BOOLEAN
  /\ connection_ \in Fds \cup {None}
  /\ conn \in [Fds -> {"none", "up", "closing", "down"}]
  /\ phase \in {"events", "functors"} /\ restarting \in BOOLEAN
  /\ active \subseteq Events /\ batch \in Seq(Functors)
  /\ call \in Starts \cup OtherCalls /\ calls \in 0..MaxCalls
  /\ stopped \in BOOLEAN

Connections == {f \in Fds : conn[f] # "none"}
Attempts == {f \in {cr.channel_} : cr.state_ = "kConnecting"}

\* Every descriptor belongs to one connection attempt or one connection, and is
\* closed with it; every channel the poller knows belongs to one of them too, so
\* that none is destroyed while it is registered, also when an attempt is
\* stopped, retried or restarted while resetChannel is still queued
\* (Connector.cc:125-133, 184-215, 273-277).
OneOwner ==
  cr.proc = "run" =>
    /\ cr.open = Attempts \cup Connections
    /\ Attempts \cap Connections = {}
    /\ Attempts \subseteq cr.watched /\ cr.watched \subseteq Attempts \cup Connections

\* Bare pointers: a functor, or a registered channel, that calls the Connector
\* finds it alive (Connector.cc:101, 121, 189, 206); the Connector finds the
\* client alive when it reports a connection (TcpClient.cc:75); shutdownInLoop
\* finds the connection alive (TcpClient.cc:126).
Kept ==
  cr.proc = "run" =>
    /\ (~Quiet \/ Attempts # {}) => (alive \/ cr.timers > 0 \/ cr.keeper)
    /\ (Attempts # {} /\ cr.connect_) => alive
    /\ \A fn \in Pending : fn.op = "shutdownInLoop" => conn[fn.fd] # "none"

\* After stop() in the loop's thread no attempt is under way, whatever timers,
\* functors and closing connections there still are, until connect() is called
\* again (TcpClient.cc:131-135, Connector.cc:107, TcpClient.cc:174).
StopSticks == stopped => Attempts = {}

(***************************************************************************)
(* What makes the three invariants above inductive                         *)
(***************************************************************************)

\* The functors that wait, in the order in which they will run.
Order == batch \o cr.queue
Has(q, op) == \E i \in 1..Len(q) : q[i].op = op
Waits(op) == Has(Order, op)

Attempting == cr.state_ = "kConnecting"
Connected == \E f \in Fds : Open(f)

\* A connection comes about in stages: a connect() of the other thread, its
\* startInLoop, an attempt, a retry timer, a connection, a restart().  At any time
\* the Connector is in one of them, or in none.
OneStage ==
  /\ call \in Starts =>
       ~Waits("startInLoop") /\ ~Attempting /\ cr.timers = 0 /\ ~Connected /\ ~restarting
  /\ Waits("startInLoop") => ~Attempting /\ cr.timers = 0 /\ ~Connected /\ ~restarting
  /\ Attempting => cr.timers = 0 /\ ~Connected /\ ~restarting
  /\ cr.timers > 0 => ~Connected /\ ~restarting
  /\ Connected => ~restarting
  /\ cr.timers <= 1
  /\ \A f, g \in Fds : Open(f) /\ Open(g) => f = g

\* connection_ is the connection that is open, as long as the client exists.
Linked ==
  /\ \A f \in Fds : alive /\ Open(f) => connection_ = f
  /\ connection_ # None => alive /\ Open(connection_)

\* The order of the functors in q: those about a connection run before it is gone,
\* and a forceCloseInLoop that finds its connection open runs after resetChannel.
InOrder(q, cs) ==
  \A i \in 1..Len(q) : LET fn == q[i] IN
    /\ fn.op \in {"forceCloseInLoop", "shutdownInLoop"} => cs[fn.fd] # "none"
    /\ fn.op = "connectDestroyed" => cs[fn.fd] = "down"
    /\ \A j \in 1..Len(q) : i < j =>
         /\ fn.op = "connectDestroyed" => q[j].fd # fn.fd
         /\ fn.op = "forceCloseInLoop" /\ q[j].op = "resetChannel" => cs[fn.fd] = "down"
         /\ fn.op = "startInLoop" => q[j].op # "startInLoop"

\* resetChannel finds the channel it was queued for, never that of a new attempt.
ResetFinds ==
  /\ Attempting => cr.channel_ # None
  /\ cr.channel_ # None => Attempting \/ Waits("resetChannel")
  /\ Waits("resetChannel") =>
       ~Attempting /\ call \notin Starts /\ ~Waits("startInLoop") /\ ~restarting
  /\ Connected /\ phase = "functors" => ~Has(cr.queue, "resetChannel")

\* What poll() has reported still holds when it is dispatched, or is recognised
\* as stale.
Fresh ==
  /\ phase = "functors" => active = {}
  /\ phase = "events" => batch = <<>>
  /\ \A e \in active :
       /\ e.who = "connector" => (Attempting /\ e.fd = cr.channel_) \/ Waits("resetChannel")
       /\ e.who = "conn" => Open(e.fd) /\ ~Waits("resetChannel")
       /\ e.who = "retry" => cr.timers > 0 /\ ~Waits("resetChannel")
       /\ e.who = "keeper" => cr.keeper /\ ~Waits("resetChannel")

\* What the destroyed client leaves behind.
Orphaned ==
  /\ cr.keeper => ~alive
  /\ ~alive =>
       /\ ~Attempting /\ ~restarting /\ call = <<>>
       /\ ~Waits("startInLoop") /\ ~Waits("stopInLoop")
       /\ cr.timers > 0 => ~cr.connect_
       /\ Waits("resetChannel") => cr.keeper

\* Once stopped, nothing is left that would start an attempt.
Stopped ==
  stopped => ~wants /\ ~cr.connect_ /\ ~restarting /\ call \notin Starts /\ ~Attempting

\* The client is in one stage of connecting at a time, and poll()'s reports, the
\* queued functors and the timers fit the stage it is in (Connector.cc:75-292,
\* TcpClient.cc:60-182).
ClientInv ==
  /\ TypeOK /\ Stopped
  /\ cr.proc = "run" =>
       /\ OneOwner /\ OneStage /\ Linked /\ InOrder(Order, conn) /\ ResetFinds /\ Fresh /\ Orphaned

Trying ==
  \/ restarting
  \/ cr.connect_ /\ (Attempts # {} \/ cr.timers > 0 \/ Functor("startInLoop", None) \in Pending)

\* A Connector that is trying to connect, by an attempt, a retry timer, a
\* startInLoop or a restart on its way, goes on until it is connected, stopped, or gets an
\* error that it does not retry (Connector.cc:141-174, 273-292).
Persists ==
  Trying ~> (connection_ # None \/ ~cr.connect_ \/ ~alive \/ cr.refused \/ cr.proc # "run")

\* A failed attempt is followed by another one, and does not end the process
\* (Connector.cc:279).
RetrySurvives == cr.proc # "fault"

=============================================================================
