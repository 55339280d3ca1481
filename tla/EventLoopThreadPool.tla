------------------------ MODULE EventLoopThreadPool ------------------------
(***************************************************************************)
(* EventLoopThreadPool and its EventLoopThreads (with Thread): starting    *)
(* the I/O threads one after the other, handing out their loops in turn,   *)
(* and stopping and joining them in the destructors.                       *)
(*                                                                         *)
(* The owner is the thread that runs TcpServer.  A worker is the thread of *)
(* one EventLoopThread: it owns the EventLoop on the stack of threadFunc,  *)
(* of which only quit_ and the eventfd matter here.                        *)
(***************************************************************************)
EXTENDS Naturals, Sequences, FiniteSets

CONSTANTS
  MaxThreads,    \* bound: argument of setThreadNum
  MaxAssign,     \* bound: calls of getNextLoop
  PatientOwner   \* the pool is destroyed only after every worker entered loop()

ASSUME PoolAssumption ==
  MaxThreads \in Nat /\ MaxAssign \in Nat /\ PatientOwner \in BOOLEAN

Workers == 1..MaxThreads
BaseLoop == 0     \* baseLoop_, among the loops 0..MaxThreads

VARIABLES
  numThreads_,
  owner,      \* what the owner does
  cur,        \* the EventLoopThread it does it to
  loops_,     \* EventLoopThreadPool::loops_
  next_,
  assigned,   \* history: connections given to each loop
  pc,         \* per worker: where it is in threadFunc
  loop_,      \* per EventLoopThread: loop_ # nullptr
  quit_,      \* per worker: its loop's quit_
  wakeupFd_,  \* per worker: its loop's eventfd is readable
  gone        \* EventLoopThreads that are destroyed

ownerVars == <<numThreads_, owner, cur, loops_, next_, assigned, gone>>
workerVars == <<pc, loop_, quit_, wakeupFd_>>
vars == <<ownerVars, workerVars>>

Init ==
  /\ numThreads_ = 0
  /\ owner = "new" /\ cur = 1
  /\ loops_ = <<>> /\ next_ = 0
  /\ assigned = [l \in 0..MaxThreads |-> 0]
  /\ pc = [w \in Workers |-> "none"]
  /\ loop_ = [w \in Workers |-> FALSE]
  /\ quit_ = [w \in Workers |-> FALSE]
  /\ wakeupFd_ = [w \in Workers |-> FALSE]
  /\ gone = {}

-----------------------------------------------------------------------------
(***************************************************************************)
(* The owner: EventLoopThreadPool::start with EventLoopThread::startLoop   *)
(***************************************************************************)

\* setThreadNum, and start() is called.
SetThreadNum(n) ==
  /\ owner = "new"
  /\ numThreads_' = n
  /\ owner' = "start"
  /\ UNCHANGED <<cur, loops_, next_, assigned, gone, workerVars>>

\* The next EventLoopThread is created and its thread started.
StartThread ==
  /\ owner = "start" /\ cur <= numThreads_
  /\ pc' = [pc EXCEPT ![cur] = "init"]
  /\ owner' = "lock"
  /\ UNCHANGED <<numThreads_, cur, loops_, next_, assigned, gone, loop_, quit_, wakeupFd_>>

\* startLoop: with mutex_ held, loop_ is there, or cond_.wait.
StartLoopCheck ==
  /\ owner = "lock"
  /\ IF loop_[cur]
     THEN /\ loops_' = Append(loops_, cur)
          /\ cur' = cur + 1
          /\ owner' = "start"
     ELSE owner' = "asleep" /\ UNCHANGED <<loops_, cur>>
  /\ UNCHANGED <<numThreads_, next_, assigned, gone, workerVars>>

\* cond_.wait may return without a notification.
SpuriousWakeup ==
  /\ owner = "asleep"
  /\ owner' = "lock"
  /\ UNCHANGED <<numThreads_, cur, loops_, next_, assigned, gone, workerVars>>

StartDone ==
  /\ owner = "start" /\ cur > numThreads_
  /\ owner' = "serve"
  /\ UNCHANGED <<numThreads_, cur, loops_, next_, assigned, gone, workerVars>>

\* The loop that getNextLoop returns.
NextLoop == IF loops_ = <<>> THEN BaseLoop ELSE loops_[next_ + 1]

\* Mutant: next_ wraps around one step late.
MutGetNextLoop ==
  /\ owner = "serve"
  /\ LET l == IF loops_ = <<>> \/ next_ >= Len(loops_) THEN BaseLoop ELSE loops_[next_ + 1] IN
     /\ assigned[l] < MaxAssign
     /\ assigned' = [assigned EXCEPT ![l] = @ + 1]
  /\ next_' = IF loops_ = <<>> THEN next_
              ELSE IF next_ + 1 > Len(loops_) THEN 0 ELSE next_ + 1
  /\ UNCHANGED <<numThreads_, owner, cur, loops_, gone, workerVars>>

\* Mutant: next_ stays on the first loop.
MutSameLoop ==
  /\ owner = "serve"
  /\ assigned[NextLoop] < MaxAssign
  /\ assigned' = [assigned EXCEPT ![NextLoop] = @ + 1]
  /\ UNCHANGED <<numThreads_, owner, cur, loops_, next_, gone, workerVars>>

\* EventLoopThreadPool::getNextLoop, for a new connection.
GetNextLoop ==
  /\ owner = "serve"
  /\ assigned[NextLoop] < MaxAssign
  /\ assigned' = [assigned EXCEPT ![NextLoop] = @ + 1]
  /\ next_' = IF loops_ = <<>> THEN next_
              ELSE IF next_ + 1 >= Len(loops_) THEN 0 ELSE next_ + 1
  /\ UNCHANGED <<numThreads_, owner, cur, loops_, gone, workerVars>>

-----------------------------------------------------------------------------
(***************************************************************************)
(* The owner: destruction of the pool                                      *)
(***************************************************************************)

BeginDestroy ==
  /\ owner = "serve"
  /\ PatientOwner => \A w \in Workers : pc[w] \notin {"init", "publish", "enter"}
  /\ owner' = "dtor" /\ cur' = 1
  /\ UNCHANGED <<numThreads_, loops_, next_, assigned, gone, workerVars>>

\* Mutant: the thread is detached, not joined.
MutDtorCheck ==
  /\ owner = "dtor" /\ cur <= numThreads_
  /\ gone' = gone \cup {cur}
  /\ cur' = cur + 1
  /\ UNCHANGED <<numThreads_, owner, loops_, next_, assigned, workerVars>>

\* ~EventLoopThread: loop_ is read without the mutex.  Without a loop the
\* thread is detached by ~Thread.
DtorCheck ==
  /\ owner = "dtor" /\ cur <= numThreads_
  /\ IF loop_[cur]
     THEN owner' = "quit" /\ UNCHANGED <<gone, cur>>
     ELSE gone' = gone \cup {cur} /\ cur' = cur + 1 /\ UNCHANGED owner
  /\ UNCHANGED <<numThreads_, loops_, next_, assigned, workerVars>>

\* loop_->quit(): quit_ = true ...
DtorQuit ==
  /\ owner = "quit"
  /\ quit_' = [quit_ EXCEPT ![cur] = TRUE]
  /\ owner' = "wakeup"
  /\ UNCHANGED <<numThreads_, cur, loops_, next_, assigned, gone, pc, loop_, wakeupFd_>>

\* Mutant: ... and no wakeup.
MutDtorWakeup ==
  /\ owner = "wakeup"
  /\ owner' = "join"
  /\ UNCHANGED <<numThreads_, cur, loops_, next_, assigned, gone, workerVars>>

\* ... and wakeup().
DtorWakeup ==
  /\ owner = "wakeup"
  /\ wakeupFd_' = [wakeupFd_ EXCEPT ![cur] = TRUE]
  /\ owner' = "join"
  /\ UNCHANGED <<numThreads_, cur, loops_, next_, assigned, gone, pc, loop_, quit_>>

\* thread_.join() returns, and the EventLoopThread is gone.
DtorJoin ==
  /\ owner = "join"
  /\ pc[cur] = "done"
  /\ gone' = gone \cup {cur}
  /\ cur' = cur + 1
  /\ owner' = "dtor"
  /\ UNCHANGED <<numThreads_, loops_, next_, assigned, workerVars>>

DtorDone ==
  /\ owner = "dtor" /\ cur > numThreads_
  /\ owner' = "end"
  /\ UNCHANGED <<numThreads_, cur, loops_, next_, assigned, gone, workerVars>>

-----------------------------------------------------------------------------
(***************************************************************************)
(* A worker: EventLoopThread::threadFunc                                   *)
(***************************************************************************)
At(w, from, to) == pc[w] = from /\ pc' = [pc EXCEPT ![w] = to]

\* The EventLoop is constructed and callback_ is run.
InitLoop(w) ==
  /\ At(w, "init", "publish")
  /\ UNCHANGED <<ownerVars, loop_, quit_, wakeupFd_>>

\* Mutant: loop_ is set and nobody is notified.
MutPublish(w) ==
  /\ At(w, "publish", "enter")
  /\ loop_' = [loop_ EXCEPT ![w] = TRUE]
  /\ UNCHANGED <<ownerVars, quit_, wakeupFd_>>

\* loop_ = &loop and notify_one, with mutex_ held.
Publish(w) ==
  /\ At(w, "publish", "enter")
  /\ loop_' = [loop_ EXCEPT ![w] = TRUE]
  /\ owner' = IF owner = "asleep" /\ cur = w THEN "lock" ELSE owner
  /\ UNCHANGED <<numThreads_, cur, loops_, next_, assigned, gone, quit_, wakeupFd_>>

\* loop() is entered: quit_ = false.
EnterLoop(w) ==
  /\ At(w, "enter", "check")
  /\ quit_' = [quit_ EXCEPT ![w] = FALSE]
  /\ UNCHANGED <<ownerVars, loop_, wakeupFd_>>

LoopCheck(w) ==
  /\ IF quit_[w] THEN At(w, "check", "ended") ELSE At(w, "check", "poll")
  /\ UNCHANGED <<ownerVars, loop_, quit_, wakeupFd_>>

\* poll() returns, and what it reported and what was queued is handled; the
\* eventfd is drained if it was readable.
LoopRound(w) ==
  /\ At(w, "poll", "check")
  /\ wakeupFd_' = [wakeupFd_ EXCEPT ![w] = FALSE]
  /\ UNCHANGED <<ownerVars, loop_, quit_>>

\* loop_ = nullptr with mutex_ held; then the EventLoop and the thread end.
EndThread(w) ==
  /\ At(w, "ended", "done")
  /\ loop_' = [loop_ EXCEPT ![w] = FALSE]
  /\ UNCHANGED <<ownerVars, quit_, wakeupFd_>>

-----------------------------------------------------------------------------
OwnerStep ==
  \/ StartThread \/ StartLoopCheck \/ StartDone
  \/ DtorCheck \/ DtorQuit \/ DtorWakeup \/ DtorJoin \/ DtorDone

WorkerStep(w) == InitLoop(w) \/ Publish(w) \/ EnterLoop(w) \/ LoopCheck(w) \/ EndThread(w)

Next ==
  \/ \E n \in 0..MaxThreads : SetThreadNum(n)
  \/ OwnerStep \/ SpuriousWakeup \/ GetNextLoop \/ BeginDestroy
  \/ \E w \in Workers : WorkerStep(w) \/ LoopRound(w)

Spec == Init /\ [][Next]_vars

\* The threads are scheduled; poll() is only assumed to return when the eventfd
\* is readable.
FairSpec ==
  /\ Spec
  /\ WF_vars(OwnerStep)
  /\ \A w \in Workers : WF_vars(WorkerStep(w)) /\ WF_vars(LoopRound(w) /\ wakeupFd_[w])

-----------------------------------------------------------------------------
(***************************************************************************)
(* Properties                                                              *)
(***************************************************************************)

\* Types; next_ is always an index of loops_ (EventLoopThreadPool.cc:43-48).
TypeOK ==
  /\ numThreads_ \in 0..MaxThreads
  /\ owner \in {"new", "start", "lock", "asleep", "serve", "dtor", "quit", "wakeup", "join", "end"}
  /\ cur \in 1..(MaxThreads + 1)
  /\ loops_ \in Seq(Workers)
  /\ next_ \in 0..(IF loops_ = <<>> THEN 0 ELSE Len(loops_) - 1)
  /\ assigned \in [0..MaxThreads -> 0..MaxAssign]
  /\ pc \in [Workers -> {"none", "init", "publish", "enter", "check", "poll", "ended", "done"}]
  /\ loop_ \in [Workers -> BOOLEAN]
  /\ quit_ \in [Workers -> BOOLEAN]
  /\ wakeupFd_ \in [Workers -> BOOLEAN]
  /\ gone \subseteq Workers

\* The pool hands its loops out evenly, all of them and none but them
\* (EventLoopThreadPool.cc:37-52): no two workers' loads differ by more than
\* one, and the base loop gets connections only when there are no workers.
Balanced ==
  owner = "serve" =>
    /\ \A v, w \in 1..numThreads_ : assigned[v] <= assigned[w] + 1
    /\ numThreads_ > 0 => assigned[BaseLoop] = 0

\* A worker never runs after its EventLoopThread is destroyed
\* (EventLoopThread.cc:15-23): threadFunc uses mutex_ and loop_ to its end.
JoinedBeforeGone == \A w \in gone : pc[w] \in {"none", "done"}

-----------------------------------------------------------------------------
(***************************************************************************)
(* The inductive invariant behind Balanced and JoinedBeforeGone            *)
(***************************************************************************)
Starting == {"start", "lock", "asleep"}
Ending == {"dtor", "quit", "wakeup", "join", "end"}

\* loop_ is set while the worker's EventLoop is in use, and a loop that is left
\* was quit.
HandedOver ==
  \A w \in Workers :
    /\ loop_[w] <=> pc[w] \in {"enter", "check", "poll", "ended"}
    /\ pc[w] \in {"ended", "done"} => quit_[w]

\* start() deals with the workers in turn and leaves each with its loop_ set.
StartedInTurn ==
  LET Ready(w) == pc[w] \notin {"none", "init", "publish"} IN
  /\ owner = "new" => cur = 1 /\ \A w \in Workers : pc[w] = "none"
  /\ owner \in Starting =>
       /\ cur <= (IF owner = "start" THEN numThreads_ + 1 ELSE numThreads_)
       /\ \A w \in Workers :
            /\ w < cur => Ready(w)
            /\ w > cur \/ (w = cur /\ owner = "start") => pc[w] = "none"
  /\ owner \in {"serve"} \cup Ending =>
       \A w \in Workers : IF w <= numThreads_ THEN Ready(w) ELSE pc[w] = "none"

\* The destructor quits the workers in turn, and joins each before the next.
EndedInTurn ==
  /\ owner \in {"quit", "wakeup", "join"} => cur <= numThreads_
  /\ \A w \in Workers :
       quit_[w] => /\ owner \in Ending
                   /\ w < cur \/ (w = cur /\ owner \in {"wakeup", "join"})
  /\ \A w \in gone : owner \in Ending /\ w < cur /\ pc[w] = "done"

\* loops_ lists the workers in order, and the loops before next_ have been given
\* out once more than the others.
DealtInTurn ==
  /\ Len(loops_) = IF owner = "new" THEN 0 ELSE IF owner \in Starting THEN cur - 1 ELSE numThreads_
  /\ \A i \in 1..Len(loops_) : loops_[i] = i
  /\ owner \in {"new"} \cup Starting => next_ = 0 /\ \A l \in 0..MaxThreads : assigned[l] = 0
  /\ loops_ # <<>> => assigned[BaseLoop] = 0
  /\ \E q \in 0..MaxAssign : \A w \in 1..Len(loops_) : assigned[w] = IF w <= next_ THEN q + 1 ELSE q

\* What the pool keeps at every step (EventLoopThreadPool.cc, EventLoopThread.cc).
PoolInv == TypeOK /\ HandedOver /\ StartedInTurn /\ EndedInTurn /\ DealtInTurn

\* startLoop returns, for every worker (EventLoopThread.cc:25-40).
StartReturns == (owner \in {"lock", "asleep"}) ~> (owner = "start")

\* The destructor of the pool comes to an end (EventLoopThread.cc:20-21:
\* quit() ends the loop, so that join() returns).
DestroyReturns == (owner = "dtor") ~> (owner = "end")

=============================================================================
