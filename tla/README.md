# A TLA+ model of mymuduo

mymuduo is a C++ network library in the style of muduo: one event loop per
thread, non-blocking sockets over epoll, and callbacks. This directory models
the library in TLA+, checks the models with TLC on small instances and proves
the main safety properties with TLAPS for all instances.

## 1. Inventory

All of the library is in the root directory of the repository. There are no
tests; the documentation is the comments. `example/` holds three demonstration
programs.

| Component | State | Operations | Interacts with |
|---|---|---|---|
| `EventLoop` | `looping_`, `quit_`, `callingPendingFunctors_`, `pendingFunctors_` (mutex), `wakeupFd_`, `activeChannels_` | `loop`, `quit`, `runInLoop`, `queueInLoop`, `wakeup`, `handleRead`, `doPendingFunctors`, `runAfter`, `runAt` | every other thread, through the functor queue and the eventfd |
| `Channel`, `Poller`, `EPollPoller` | `events_`, `revents_`, `index_`, `tie_`; `channels_` (fd to channel); the kernel's interest list; `events_` (event list) | enable/disable reading and writing, `remove`, `updateChannel`, `removeChannel`, `poll`, `handleEvent` | the loop's thread only; owners are `TcpConnection`, `Acceptor`, `Connector`, `TimerQueue`, `EventLoop` |
| `TcpConnection` | `state_`, `channel_`, `outputBuffer_`, `inputBuffer_`, callbacks | `send`, `shutdown`, `forceClose`, `connectEstablished`, `connectDestroyed`, `handleRead/Write/Close/Error` | its I/O loop, the server's loop, threads that hold a `TcpConnectionPtr`, the socket |
| `TcpServer`, `Acceptor` | `connections_`, `nextConnId_`, `started_`; listening channel | `start`, `newConnection`, `removeConnection`, destructor; `listen`, `handleRead` | the base loop, the thread pool, connections |
| `TcpClient`, `Connector` | `connection_` (mutex), `connect_`, `retry_`; `state_`, `channel_`, `connect_`, `retryDelayMs_` | `connect`, `disconnect`, `stop`, destructor; `start`, `stop`, `restart`, `handleWrite`, `handleError`, `retry` | one loop, timers, any calling thread |
| `EventLoopThreadPool`, `EventLoopThread`, `Thread` | `threads_`, `loops_`, `next_`; `loop_` (mutex and condition) | `start`, `getNextLoop`, `startLoop`, `threadFunc`, destructors | owner thread and I/O threads |
| `TimerQueue`, `Timer`, `TimerId`, `Timestamp` | `timers_`, `activeTimers_`, `cancelingTimers_`, `callingExpiredTimers_`, `timerfd_` | `addTimer`, `cancel`, `handleRead`, `getExpired`, `reset`, `insert` | the loop's thread; other threads through `runInLoop` |
| `Buffer` | `buffer_`, `readerIndex_`, `writerIndex_` | `append`, `retrieve*`, `readFd`, `writeFd`, `makeSpace` | its connection |
| `Socket` | the descriptor, which its destructor closes | `accept`, `shutdownWrite`, options | owned by `TcpConnection` and `Acceptor` |
| `InetAddress`, `Logger`, `CurrentThread`, `Callbacks`, `DefaultPoller`, `noncopyable` | none that changes behaviour | formatting, type names | |

What is hard in this code, and what correctness means for each part:

* **EventLoop.** A functor is pushed under a lock, but the decision to wake the
  loop is taken after the lock is released, and `quit_` and
  `callingPendingFunctors_` are read without it. Correct: no functor and no quit
  waits on a blocked loop with no wakeup coming; functors run once each, in order.
* **Channel and EPollPoller.** The registration state is kept three times
  (`index_`, the map, the kernel) and what `epoll_wait` returns is dispatched
  through raw pointers. Correct: the three agree, `epoll_ctl` never fails
  fatally, no destroyed channel is dispatched, no ready channel starves.
* **TcpConnection.** `state_` is tested and set by several threads in separate
  steps, functors carry bare pointers, output may be written in part, and one
  round of the loop may call several handlers. Correct: the stream is made of
  whole messages in order, waiting output is watched, the application hears one
  end, nothing is used after it is freed, a shutdown comes after the last byte.
* **Thread pool.** Hand-over of a stack object between threads. Correct: start
  and destruction return, nothing outlives what it uses, loops are handed out
  evenly.
* **TcpServer and Acceptor.** A connection is created in the base loop, lives in
  an I/O loop, and ends in both, while the server may be destroyed or run out of
  descriptors. Correct: no channel stays in a poller without its connection,
  waiting clients are accepted, connections that ended are released.
* **TcpClient and Connector.** One descriptor passes from connector to
  connection; `resetChannel`, retry timers and a closing connection may still be
  on their way when the client is stopped, restarted or destroyed, and other
  threads call it. Correct: every descriptor has one owner, no bare pointer
  dangles, a stopped client makes no attempt, one that retries goes on trying.
* **TimerQueue.** Timers are cancelled while a batch of them runs, and the
  allocator reuses addresses. Correct: two sets agree, each timer is deleted
  once, the timerfd is armed while timers wait, a cancelled timer stays
  cancelled.
* **Buffer.** Index arithmetic at the boundaries. Correct: it is a FIFO of bytes.

`PROJECT.json` lists the hazards line by line, with the properties that cover
each of them.

## 2. Modules

| Module | Models | Notes |
|---|---|---|
| `FunctorQueue` | abstract: functors run once each, in the order in which they were queued | refined by `EventLoop` |
| `EventLoop` | `EventLoop.cc` | one action per access to shared state |
| `Poller` | `Channel.cc`, `EPollPoller.cc` | in the loop's thread; kernel as external actions |
| `TcpConnection` | `TcpConnection.cc`, part of `TcpServer.cc`, `Channel::tie` | relies on what `EventLoop` and `Poller` establish |
| `ByteQueue` | abstract: a FIFO of bytes | refined by `Buffer` |
| `Buffer` | `Buffer.h`, `Buffer.cc` | operations on a state record, since they call one another |
| `EventLoopThreadPool` | `EventLoopThreadPool.cc`, `EventLoopThread.cc`, `Thread.cc` | owner and workers |
| `TcpServer` | `TcpServer.cc`, `Acceptor.cc`, part of `Socket.cc` | extends `EventLoopThreadPool`: a composition of server, acceptor, pool and several connections |
| `TcpClient` | `TcpClient.cc`, `Connector.cc` | one loop and another thread |
| `TimerQueue` | `TimerQueue.cc`, `Timer`, `TimerId`, `Timestamp` | with a clock and an allocator |
| `EventLoopProofs`, `PollerProofs`, `BufferProofs`, `TcpConnectionProofs`, `TcpClientProofs`, `TimerQueueProofs`, `EventLoopThreadPoolProofs`, `TcpServerProofs` | theorems | the last one builds on the one before it |
| `MC*` | constants and instances for TLC | |

Operators named `Mut*` are wrong variants of the definition that follows them,
kept to show which properties depend on it. No specification uses them.

### How state and actions correspond to the code

**EventLoop.** The variables are the members of the class plus `pc`, the place
of the loop's thread in `loop()`, and `call`, the place of each thread in a call.
`queueInLoop` is two steps, `QueuePush` (the critical section) and `QueueWake`
(test and `wakeup()`); `quit()` is `QuitSet` and `QuitWake`. `loop()` is
`LoopStart`, `LoopCheck`, `PollReturn`, `HandleWakeup`, `HandleIo`, then
`BeginPending`, `SwapPending`, `RunFunctor`, `EndPending`. While a handler or a
functor runs, the loop's thread may itself call `runInLoop`, `queueInLoop` and
`quit`. The eventfd is a boolean: its counter is nonzero. `pc` may go from
"stopped" back into `loop()`, as the class allows. `posted`, `executed` and
`early` are history.

**Poller.** `alive` is the set of `Channel` objects; `epoll`, `interest` and
`ready` are the kernel's. The program's callbacks and functors are a window
(`MayOperate`) in which any channel operation may be called on any channel. Two
rules are the contract of the owners and are guards: one live registered channel
per descriptor (`OwnsFd`), and a channel is destroyed only after `remove()` and
only in a functor, as `TcpServer.cc:123` and `Connector.cc:205` do by queueing
it. `fatal` is the exit of `LOG_FATAL`.

**TcpConnection.** A handler or functor of the I/O loop is one step; it reads
`state_` once and everything else it touches belongs to its thread. `send`,
`shutdown` and `forceClose` by other threads are split into test (`CallCheck`),
store (`CallSet`) and push (`CallPush`). The functor queue is that of `EventLoop`
(FIFO, one batch per round); `todo` is the set of callbacks one `handleEvent`
still has to make, and `Calling` makes them in the order of `Channel.cc:63-98`
(`Earlier`). `Alive` says that some
`shared_ptr` to the connection exists. `Uses` is the set of ways in which the
connection may be used, and `use` the one of this behaviour: whether the server
is in the connection's own loop, and what other threads call. `OnlySends` says
that they only send. A caller lets go of its pointer at any moment between two
calls (`Drop`), also with a functor of `send()` or `shutdown()` still queued that
holds the bare `this` (`TcpConnection.cc:76-81, 92-94`). When such a functor runs
and the connection is gone, the behaviour is undefined: `RunDangling` ends the
loop in phase "fault". The string given to `send()` is another matter: it is taken
as kept until `sendInLoop` has run, which the code needs of its callers without
saying so. Data are units `[by, k, part]`: part `part` of the `k`-th message of
caller `by`.

**EventLoopThreadPool.** `owner` is the thread that runs the server; `cur` is the
`EventLoopThread` it is dealing with; `pc[w]` is the place of worker `w` in
`threadFunc`. `numThreads_` is chosen by `SetThreadNum`, from none to
`MaxThreads`. `PatientOwner` says that the pool is destroyed only after every
worker has entered `loop()`. Only the destructor quits a worker's loop.

**TcpServer.** Every step of the pool is a step of the server
(`Start`, `PoolStarts`, `WaitReturns`, `Listen`, `Accept`, `DestroyPool`,
`PoolEnds`, `Gone` and the worker's steps take the pool's actions as conjuncts).
A connection is the number that `nextConnId_` gave it; of its state it keeps
`state_`, its loop, whether its channel is `registered`, and the functors of the
server that hold it. `Accept` is `handleRead` with `newConnection`; without a
free descriptor it is `AcceptFails`, which changes nothing, since the listening
socket stays readable. `CloseAt` is `handleClose` in a worker's loop, with
`removeConnection`; `RunBaseFunctor` is `removeConnectionInLoop` and
`connectDestroyed` in the base loop; a worker runs all functors of a round in
`Round`, and those it did not run when its loop ends are destroyed with the loop
(`WorkerEnds`). `polled` says that `poll()` of a worker has returned with an
event. `~TcpServer` is `CloseOne` for each connection, then the members in
reverse order: the pool (`DestroyPool`, `PoolEnds`) before the acceptor (`Gone`).
A second `start()` does nothing and is no action. As in the examples, the server
is destroyed by the base loop's thread after `loop()` has returned, and the base
loop right after it.

**TcpClient.** `cr` is the `Connector` with all its methods act on: the record's
fields are its members, the open descriptors, the channels in the poller, the
timers and the loop's functor queue. The methods are operators on it, since they
call one another; `Connect` returns the set of outcomes of `::connect`. `proc` is
"run" until `LOG_FATAL` ends the process ("exit") or `runAfter` goes through the
null `timerQueue_` ("fault"). `TimerQueues` says whether the loop has one:
`EventLoop` never constructs it, and the run covers both. A step of the loop is a
handler or a functor; the `restart()` at the end of `removeConnection` is a step
of its own, since another thread's `stop()` may come before it. The calls of the
other thread are split at each access, but for the test and the store of `state_`
in `TcpConnection::shutdown` (`TcpConnection.cc:89-91`): what comes between those
two is in `TcpConnection`. Rules of use that the code relies on:
`connect()` only on a client that has nothing under way (`Settled`; the source
says "FIXME: check state"), the client is destroyed in the loop's thread and not
in a round that still has a functor of its `Connector` to run, somebody else who
holds the connection of a destroyed client keeps it until it is closed
(`TcpClient.cc:96-99` leaves it as it is), and timers of half
a second or more do not expire before functors that were queued before them.

**TimerQueue.** `heap` is the allocator: an address is free or holds a timer, and
a free one may be given out again. `time` is real time; `Now` is what
`Timestamp::now()` makes of it. Functors of other threads wait in `queue`;
`handleRead` is `HandleRead` (read the clock, take the expired timers),
`RunTimer` for each of them, and `Reset`, and callbacks may add and cancel in
between; `ran` is history. `addTimer` in another thread is three steps
(`TimerQueue.cc:94-97`): `NewElsewhere` constructs the timer, `PushElsewhere`
queues `addTimerInLoop`, and `ReturnElsewhere` reads `timer->sequence()` for the
`TimerId`. By then the loop may have run the timer and deleted it, and the number
read is that of the timer now at the address or, if there is none, any number.
Who made a `TimerId` may cancel it at any time. `EventLoop` never constructs its `timerQueue_`
(`EventLoop.h:78`), so the module models a `TimerQueue` on the loop it is given.

**Buffer.** `buffer_` is the vector with offset `i` at element `i + 1`; `io` is
the history of what the last operation was given or returned. `ReadFd` receives
any data that fit in the writable part and the stack buffer, with the same test
on the number of bytes as the code.

## 3. Runs

| Run | Properties | Shows |
|---|---|---|
| `event_loop` | `IInv`, `NoLostWakeup`, `NoLostQuit`, `ImplementsFunctorQueue`, `QueuedRuns`, `QuitStops` | two threads and the loop's thread, three functors, quit at any moment: no lost wakeup, FIFO order, every functor and every quit takes effect |
| `poller` | `PInv`, `Consistent`, `NoFatal`, `NoDangling`, `ReadyServed` | three channels, two of them on the same descriptor, and an event list that starts full |
| `connection` | `ConnInv`, `StreamIntact`, `OneDown`, `NoUseAfterFree`, `FinAfterFlush`, `QuietAfterDown`, `ShutdownCompletes`, `CloseReleases` | callbacks call everything; another thread sends and the server is in another loop, or it also shuts down and the server is in the same loop |
| `connection_force_close_race` | `DownOnce` (violated) | `forceClose` of another thread undoes `kDisconnected` |
| `connection_late_send` | `NoLateWrite` (violated) | a write after `shutdownWrite` |
| `buffer` | `BInv`, `ImplementsByteQueue` | every sequence of operations on a small vector |
| `thread_pool_lost_quit` | `DestroyReturns` (violated) | a quit before `loop()` is lost |
| `timer_queue` | `TimerInv`, `Paired`, `Owned`, `Armed`, `CancelSticks`, `TimersRun` | timers at two addresses, repeating or not, added and cancelled from everywhere |
| `timer_queue_units` | `Punctual` (violated) | `now()` counts seconds |
| `server` | `ServerInv`, `Balanced`, `JoinedBeforeGone`, `NoStray`, `StartReturns`, `DestroyReturns`, `AllAccepted`, `AllReleased` | start, accept, hang-up and destruction with none, one or two I/O threads |
| `client` | `ClientInv`, `OneOwner`, `Kept`, `StopSticks`, `Persists` | attempts that fail, are retried, stopped and restarted, a client that is destroyed, another thread that calls |
| `client_retry_dies` | `RetrySurvives` (violated) | the first retry goes through the null `timerQueue_` |

`IInv`, `PInv`, `ConnInv`, `BInv`, `TimerInv`, `ServerInv` and `ClientInv` are the
inductive invariants of the proofs, each with the module's type invariant in it.

The runs have up to 914 000 distinct states and take up to four minutes
with two workers. Liveness is checked in the same run as safety, so no symmetry
is used. In `connection`, the last part of `ConnInv` (`Life` and
`BacklogWatched`), `NoUseAfterFree` and `FinAfterFlush` are stated for `Orderly`
states: until the connection has ended, whatever the other threads call, and after
that for other threads that only send. `shutdown` and `forceClose` of another
thread test and set `state_` in two steps, and their store may undo the
`kDisconnected` of `handleClose`; nothing of the kind can be true after that.
`OneDown` and `CloseReleases` are stated for threads that only send;
`StreamIntact`, `QuietAfterDown`, `ShutdownCompletes` and the rest of `ConnInv` hold
for every use. `NoUseAfterFree` covers the callbacks of `channel_` and the poller's
entry. It does not cover the bare functors of other threads, which no code
protects. Likewise `Owned` is about the timers the loop handles, not about what a
caller of `addTimer` reads at `TimerQueue.cc:97`, and `TimersRun` lets a timer be
cancelled by a caller that misread its `TimerId` there. In `client`,
`StopSticks` is about `stop()` in the loop's thread; one of another thread can be
undone by the `restart()` of `removeConnection` (`TcpClient.cc:174`), and no line
of the source promises otherwise. `retryDelayMs_` is never reset by a restart; `Persists` says that the
client goes on trying all the same.

The violated properties state what a comment in the source says and the code
does not do; `PROJECT.json` quotes each comment.

### Bounds

* `EventLoop`: two foreign threads and three functors. Races are between two
  pushes, or a push and a quit, and the loop; the third functor lets a batch be
  running while one is queued and another arrives.
* `Poller`: channels `a` and `b` share a descriptor, `c` has its own: reuse of a
  number and two channels in one batch. `Conditions` is `IN` alone: which
  conditions there are only decides when a channel is reported, and the proofs
  cover every set of them. The list starts at one entry, so that it is full at
  once.
* `TcpConnection`: messages of two units and a kernel buffer of one, so that
  every write is partial or refused; a high water mark of two, which a second
  message crosses; one foreign thread with one to three calls.
* `Buffer`: prepend 1, initial size 2, stack buffer 2, operations of up to 3
  bytes and 5 readable bytes: growing, sliding, exact fill and spill all occur.
* `TcpServer`: no, one or two I/O threads, three clients and two descriptors, so
  that `accept` runs out and a loop is handed out again. The lost quit needs one
  worker.
* `TcpClient`: three descriptors (connecting, connected and closing at once),
  delays 1 and at most 3, so that doubling is cut off; two calls of the other
  thread, so that a `stop` and a `connect` of it can follow one another.
* `TimerQueue`: a second is two or three ticks; two addresses and two timers, so
  that two timers can be in one batch, and the second can also get the address of
  the first while the first one's id is still in use, or while its `addTimer` has
  yet to read its number. Timers are added up to tick 3 (`AddBy`) and time stops
  at tick 9: a repeating timer that is added last, and filed in the clock's wrong
  units, is due and restarted before that. One cancel may wait in
  the queue (`MaxQueue`), beside the adds.
* `CHECK_DEADLOCK FALSE`: a connection, pool, server or client that is
  destroyed, a process that has ended and a clock at its bound really stop.
  `EventLoop`, `Poller` and `Buffer` never stop and are checked for deadlock.

### Fairness

Threads that are not blocked are scheduled and callbacks return: weak fairness
of the loop's steps and of the second halves of calls. `poll()` is assumed to
return only when the eventfd is readable, never by its ten second timeout, so no
liveness result rests on the timeout. In `Poller`, strong fairness of `Poll`
says that not every `epoll_wait` is interrupted by a signal. In `TcpConnection`,
a thread lets go of its pointer in the end and the network goes on carrying data
(otherwise no shutdown need ever complete); that `poll()` returns when it has
work is what `NoLostWakeup` and `ReadyServed` establish. In `TimerQueue`, strong
fairness of `RunFunctor` stands for the round of `loop()`, which comes to the
functors after every dispatch, and a thread that has constructed a timer goes on
to queue it (`PushElsewhere`). In `TcpServer`, every client hangs up at some time
and `poll()` reports it, and the base loop's own work and the destructor, once
begun, are not put off. In `TcpClient`, the connecting socket and the retry timer
are reported, and not every attempt fails (strong fairness of `Attempt` and of
`HandleWrite`): the server is there, time and again. No thread is ever assumed to
make a call.

## 4. Proofs

All proofs are checked by TLAPS down to the last leaf and hold for every value of
the constants that satisfies the modules' assumptions: the loop's thread is not
among the others (`ThreadAssumption`); `None` is not a channel, each channel has
a descriptor, the event list is not empty (`ChannelAssumption`,
`SizeAssumption`); sizes, bounds and numbers of threads, connections and
descriptors are natural numbers (`BufferAssumption`, `PoolAssumption`,
`ServerAssumption`); a message is not empty and a use names operations that exist
(`ConnAssumption`); `None` is no descriptor (`ClientAssumption`); a second has a
tick and the mark of a free address is not a timer (`TimerAssumption`).

**EventLoopProofs.** `NoLostWakeup` is not inductive: it speaks only of
`pc = "poll"`, while the wakeup that keeps it true is produced and consumed
elsewhere. `IInv` adds `CallingFlag` (`callingPendingFunctors_` is set exactly
in `doPendingFunctors`, which is what makes the test in `queueInLoop` the right
one), `BatchEmpty` (the local vector is empty outside it) and `PendingCovered`:
everywhere but between `poll()` and the swap, a waiting functor has a wakeup
pending. Draining the eventfd is safe exactly because it happens in that gap.
Theorems: `Invariance`, `TypeCorrect`, `WakeupNeverLost`, `QuitNeverLost`, and
`Refinement` with the mapping `queue <- functors \o pendingFunctors_`: the swap
is a stuttering step because `functors` is empty when it happens (`BatchEmpty`).

**PollerProofs.** `Consistent` needs `FiledByFd` (an entry is filed under the
descriptor of the channel it points to), or an update through one channel could
disturb another; `NoDangling` needs `DispatchOnly` (pointers wait only while the
loop dispatches), since channels are destroyed in functors. `NeverFatal` follows
from `Consistent` and the owners' contract. Theorems: `PollerInvariance`,
`PollerTypeCorrect`, `RegistrationConsistent`, `NeverFatal`, `NeverDangling`.

**BufferProofs.** `BInv` is inductive as it stands. The work is in the lemmas on
what `copy`, `resize`, `makeSpace`, `append`, `retrieve` and `readFd` do to the
contents, from which `BufferRefinement` follows with the mapping
`content <- ` the bytes between the indices. Theorems: `BufferInvariance`,
`IndicesSafe`, `BufferRefinement`.

**EventLoopThreadPoolProofs.** `JoinedBeforeGone` is true because no thread is
ever detached: `~EventLoopThread` always finds `loop_` set. `PoolInv` says why.
`HandedOver`: `loop_` is set from `Publish` to `EndThread`, and a loop that was
left was quit. `StartedInTurn`: `start()` leaves every worker with its loop
published. `EndedInTurn`: nobody is quit before its turn in the destructor, and
what is gone was joined. `DealtInTurn` is what makes `Balanced` inductive:
`loops_` lists the workers in order, and for some `q` those before `next_` were
given out `q + 1` times and the others `q` times; the wrap-around of `next_` turns
`q` into `q + 1`. Theorems: `PoolInvariance`, `DealsEvenly`, `WorkersJoined`, all
of them for an owner that is patient or not.

**TcpServerProofs.** `UsesPool` is `ServerSpec => Spec`: every step of the server
is a step of the pool or leaves it alone, so that the pool's theorems carry over
(`ServerPoolSafe`). `NoStray` speaks of channels that are registered, but a
registration starts with a queued `connectEstablished`, and what keeps a
connection may be a queued `connectDestroyed`, so `ServerInv` adds `Placed` (a
functor waits in the loop it is meant for, about a connection that was accepted)
and `Filed`: what is registered or about to be is `Held`, by `connections_`, by a
`connectDestroyed` in its own loop, or because that loop is no more. The case that
needs `Placed` is `connectDestroyed` in the base loop, which must not leave a
`connectEstablished` behind in another. Theorems: `UsesPool`, `ServerInvariance`,
`NeverStray`, `ServerPoolSafe`.

**TcpConnectionProofs.** Of the properties only `StreamIntact` comes near to being
inductive, and even it says nothing of what is still to come. `SendsInTurn` does:
the messages of a thread that wait in the functor queue are in order, after all
of its messages in the stream and before the one it is about to queue. A message
is then appended to the stream whole (in part to the wire, the rest to
`outputBuffer_`) behind everything of its thread, and `handleWrite` moves units
from one to the other without changing their concatenation. `Dispatching` ties
the callbacks that are due to the lock of the tie, and says that a HUP that closes
is never reported together with input; `Quiet` needs both, since it must hold for the
callbacks left over in the round in which the connection went down. `Held` says
that the bare functors in the queue are those of other threads
(`TcpConnection.cc:79, 93`), and that a thread in the middle of a call holds the
connection. `Born` says that nothing but `connectEstablished` comes first. `Life`
is the order of the end, and what `OneDown`, `NoUseAfterFree` and `BacklogWatched` rest on: a connection
that is up is registered, read, in `connections_` and not on its way out; one that
is down was reported once, and is registered exactly while it is `Ending`, either
in `connections_` with one `removeConnectionInLoop` on its way or in the one
`connectDestroyed` that is queued. It is claimed for `Orderly` states: a store of
`state_` by another thread leaves it alone while the connection has not ended
(`DownsStep` is the lemma that it ends once and for all) and may break it
afterwards, which is what `connection_force_close_race` shows. `FinAfterFlush`
follows from `BacklogWatched`: `shutdownInLoop` looks at `isWriting`, not at the
buffer. Theorems: `ConnectionInvariant`, `StreamWhole`,
`EndsOnce`, `NeverUsedAfterFree`, `ShutsDownFlushed`, `QuietAfterEnd`.

**TcpClientProofs.** `OneOwner` alone is far from inductive: nothing in `Connector`
tests that no attempt is under way when one is started. What keeps attempts apart
is `OneStage`: a `connect()` of the other thread, a queued `startInLoop`, an
attempt, a retry timer, a connection and a `restart()` exclude one another, and
each handler turns one into the next. `Linked` ties `connection_` to the
connection that is open, `ResetFinds` says that a queued `resetChannel` finds the
channel it was queued for, `InOrder` orders the functors about one connection,
`Fresh` says that what `poll()` reported still holds when it is dispatched or is
recognised as stale, `Orphaned` what a destroyed client leaves behind, and
`Stopped` that nothing is left that would start an attempt. The methods of
`Connector` are called in the middle of a step, so the parts are restated as one
predicate on values (`Core`), and a lemma for each method and each smaller change
(`StartOk`, `StopOk`, `CloseOk`, `PushOk` and so on) says that what satisfies
`Core` before it does so after it. Theorems: `ClientInvariant`, `DescriptorsOwned`, `PointersKept`,
`StopIsFinal`.

**TimerQueueProofs.** `TimerInv` is `TypeOK`, the four properties and what they
lack: outside `handleRead` no batch is left over; a timer is on its way to
`timers_` once (`AddsOnce`), or the second insertion would find it deleted; an `addTimer` that has not queued its timer is the only one with it
(`QueuedOnce`); the number of every timer on the heap, and of every id in
`activeTimers_` and `cancelled`, was counted up (`Known`, `TypeOK`), so that a new
timer is told apart from every older one at its address by its number alone, while
the ids that callers hold may have any number; and a timer
that was cancelled and still exists is in the batch being run and in
`cancelingTimers_` (`Marked`), so that `reset` deletes it. `Paired` is needed for
the others: `cancelInLoop` looks into `activeTimers_` and erases from `timers_`.
Theorems: `TimerInvariant`, `TimersPaired`, `TimersOwned`, `TimerfdArmed`,
`CancelIsFinal`.

Every safety invariant and action property of the passing runs, and both
refinements, are proved. Only model-checked: the liveness properties
(`QueuedRuns`, `QuitStops`, `ReadyServed`, `ShutdownCompletes`, `CloseReleases`,
`TimersRun`, `StartReturns`, `DestroyReturns`, `AllAccepted`, `AllReleased`,
`Persists`), since fairness is out of the prover's reach.

## 5. Modelling decisions

* Booleans shared between threads (`quit_` is atomic, `callingPendingFunctors_`
  and `looping_` as the header declares them) and `state_` are read and written
  in one step each.
* `SIGPIPE` is ignored by the program: the library has an `EPIPE` branch, which
  runs only then. `writeCompleteCallback_` and `highWaterMarkCallback_` are set.
* `EAGAIN` on `write` is a write of nothing, as the code treats it; other errors
  than `EPIPE` and `ECONNRESET` are not produced.
* `epoll_wait` reports a descriptor's conditions at the moment it returns; which
  of the ready ones it picks when the list is short is any choice.
* Logging, names and address formatting are left out.

## 6. Not modelled, and the plan

* **TcpClient**: its destructor in another thread than the loop's, which reads
  and writes `connection_`'s callbacks while the loop runs (`TcpClient.cc:92`), and
  a second `connect()` with an attempt under way. The code supports neither.
* **EventLoop's life**: its destructor, the check for one loop per thread, a
  worker whose own callback quits its loop, and `quit()`'s `wakeup()` on a loop
  that has already returned and gone (`EventLoop.cc:96`).
* **TimerQueue**: its destructor, which deletes the timers that are left. No
  object of the library constructs a `TimerQueue`.
* **Memory that has been freed**: the model goes on to the read of a freed `Timer`
  (`ReturnElsewhere`, any number) and to a functor of a freed connection
  (`RunDangling`, no further step of the loop), not to what else the process may
  do. The string of a queued `send()` is taken as still there.
* **Arguments out of contract**: `retrieveAsString(len)` with more than the readable
  bytes (`Buffer.h:65-70` does not check).
* **SIGPIPE** (`TcpConnection.cc:226`): see the modelling decisions.
* **Proofs**: `TcpServer` models a connection by its functors and its
  registration, and `TcpConnection` in full; that each connection of `TcpServer`
  is an abstraction of `TcpConnection` is argued here by the common source lines
  and not stated as a refinement.

`InetAddress`, `Logger`, `CurrentThread`, `Callbacks`, `DefaultPoller`,
`noncopyable` and the examples stay out: formatting, type names and
demonstrations. Of `Socket` only what changes the state of others is modelled:
`accept` and the closing of a descriptor in `TcpServer`, `shutdownWrite` in
`TcpConnection`.
