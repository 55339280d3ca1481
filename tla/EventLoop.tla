------------------------------ MODULE EventLoop ------------------------------
(***************************************************************************)
(* EventLoop: the thread that runs loop(), the threads that hand it        *)
(* functors with runInLoop / queueInLoop, and quit().                      *)
(*                                                                         *)
(* Steps are the accesses to what the threads share: pendingFunctors_      *)
(* (under mutex_), quit_, callingPendingFunctors_ and the eventfd.  A      *)
(* callback of the loop thread (an I/O handler or a functor) is a window   *)
(* in which that thread may itself call runInLoop, queueInLoop and quit.   *)
(***************************************************************************)
EXTENDS Naturals, Sequences

CONSTANTS
  LoopThread,   \* the thread threadId_ names
  Threads,      \* the other threads of the process
  Functors      \* the closures handed to the loop; each is handed over once

ASSUME ThreadAssumption == LoopThread \notin Threads

AllThreads == Threads \cup {LoopThread}

VARIABLES
  pc,                       \* where the loop thread is in loop()
  looping_,
  quit_,
  callingPendingFunctors_,
  pendingFunctors_,         \* shared vector, guarded by mutex_
  functors,                 \* doPendingFunctors' local vector, front already run
  inFunctor,                \* doPendingFunctors has called a functor of this batch
  activeChannels_,          \* channels poll() returned, front being handled
  wakeupFd_,                \* TRUE: the eventfd's counter is nonzero (readable)
  call,                     \* per thread: the call it is in the middle of
  posted,                   \* history: functors handed over
  executed,                 \* history: functors run, in order
  early                     \* history: functors the loop thread queued outside loop()

vars == <<pc, looping_, quit_, callingPendingFunctors_, pendingFunctors_,
          functors, inFunctor, activeChannels_, wakeupFd_, call,
          posted, executed, early>>

loopVars == <<pc, looping_, functors, inFunctor, activeChannels_>>
history  == <<posted, executed, early>>

\* Members of a sequence.
Elems(s) == {s[i] : i \in 1..Len(s)}

\* loop() has not been entered, or has returned.
NotLooping == pc \in {"before", "stopped"}

\* What poll() can put into activeChannels_: the wakeup channel, other channels
\* ("io" stands for one of them), in any order; nothing after kPollTimeMs or
\* EINTR.
ActiveLists == {<<>>, <<"wakeup">>, <<"io">>, <<"wakeup", "io">>, <<"io", "wakeup">>}

Init ==
  /\ pc = "before"
  /\ looping_ = FALSE
  /\ quit_ = FALSE
  /\ callingPendingFunctors_ = FALSE
  /\ pendingFunctors_ = <<>>
  /\ functors = <<>>
  /\ inFunctor = FALSE
  /\ activeChannels_ = <<>>
  /\ wakeupFd_ = FALSE
  /\ call = [t \in AllThreads |-> "none"]
  /\ posted = {}
  /\ executed = <<>>
  /\ early = {}

-----------------------------------------------------------------------------
(***************************************************************************)
(* Calls into the loop                                                     *)
(***************************************************************************)

\* Thread t runs code that may call the loop.  The loop thread does so outside
\* loop(), in an I/O handler and in a functor.
MayCall(t) ==
  /\ call[t] = "none"
  /\ t = LoopThread =>
       \/ NotLooping
       \/ pc = "dispatch" /\ activeChannels_ # <<>> /\ Head(activeChannels_) = "io"
       \/ pc = "run" /\ inFunctor

\* queueInLoop, up to the end of the critical section.
QueuePush(t, f) ==
  /\ MayCall(t)
  /\ f \notin posted
  /\ posted' = posted \cup {f}
  /\ pendingFunctors_' = Append(pendingFunctors_, f)
  /\ call' = [call EXCEPT ![t] = "pushed"]
  /\ early' = IF t = LoopThread /\ NotLooping THEN early \cup {f} ELSE early
  /\ UNCHANGED <<loopVars, quit_, callingPendingFunctors_, wakeupFd_, executed>>

\* Mutant: wake only for other threads, forgetting callingPendingFunctors_.
MutQueueWake(t) ==
  /\ call[t] = "pushed"
  /\ wakeupFd_' = IF t # LoopThread THEN TRUE ELSE wakeupFd_
  /\ call' = [call EXCEPT ![t] = "none"]
  /\ UNCHANGED <<loopVars, quit_, callingPendingFunctors_, pendingFunctors_, history>>

\* queueInLoop, the wakeup decision after the lock is released.
QueueWake(t) ==
  /\ call[t] = "pushed"
  /\ wakeupFd_' = IF t # LoopThread \/ callingPendingFunctors_ THEN TRUE ELSE wakeupFd_
  /\ call' = [call EXCEPT ![t] = "none"]
  /\ UNCHANGED <<loopVars, quit_, callingPendingFunctors_, pendingFunctors_, history>>

\* runInLoop in the loop's own thread: the functor runs before the call
\* returns.  In any other thread runInLoop is queueInLoop.
RunInLoopHere(f) ==
  /\ MayCall(LoopThread)
  /\ f \notin posted
  /\ posted' = posted \cup {f}
  /\ executed' = Append(executed, f)
  /\ UNCHANGED <<loopVars, quit_, callingPendingFunctors_, pendingFunctors_,
                 wakeupFd_, call, early>>

\* quit(): the store to quit_.
QuitSet(t) ==
  /\ MayCall(t)
  /\ quit_' = TRUE
  /\ call' = IF t # LoopThread THEN [call EXCEPT ![t] = "quitting"] ELSE call
  /\ UNCHANGED <<loopVars, callingPendingFunctors_, pendingFunctors_, wakeupFd_,
                 posted, executed, early>>

\* Mutant: quit() does not wake a loop that is blocked in poll().
MutQuitWake(t) ==
  /\ call[t] = "quitting"
  /\ call' = [call EXCEPT ![t] = "none"]
  /\ UNCHANGED <<loopVars, quit_, callingPendingFunctors_, pendingFunctors_,
                 wakeupFd_, history>>

\* quit(): wakeup(), by a thread that is not the loop's.
QuitWake(t) ==
  /\ call[t] = "quitting"
  /\ wakeupFd_' = TRUE
  /\ call' = [call EXCEPT ![t] = "none"]
  /\ UNCHANGED <<loopVars, quit_, callingPendingFunctors_, pendingFunctors_, history>>

-----------------------------------------------------------------------------
(***************************************************************************)
(* loop()                                                                  *)
(***************************************************************************)

\* Entering loop(): looping_ is set and quit_ is cleared.
LoopStart ==
  /\ NotLooping
  /\ call[LoopThread] = "none"
  /\ pc' = "check"
  /\ looping_' = TRUE
  /\ quit_' = FALSE
  /\ UNCHANGED <<callingPendingFunctors_, pendingFunctors_, functors, inFunctor,
                 activeChannels_, wakeupFd_, call, history>>

\* while (!quit_), and activeChannels_.clear().
LoopCheck ==
  /\ pc = "check"
  /\ IF quit_
     THEN pc' = "stopped" /\ looping_' = FALSE
     ELSE pc' = "poll" /\ UNCHANGED looping_
  /\ activeChannels_' = IF quit_ THEN activeChannels_ ELSE <<>>
  /\ UNCHANGED <<quit_, callingPendingFunctors_, pendingFunctors_, functors,
                 inFunctor, wakeupFd_, call, history>>

\* epoll_wait returns.  The wakeup channel is reported only when the eventfd is
\* readable, and need not be then: EINTR reports nothing, and a full event list
\* may have no room for it.  It is level triggered, so it stays reportable.
PollReturn ==
  /\ pc = "poll"
  /\ \E a \in ActiveLists :
       /\ "wakeup" \in Elems(a) => wakeupFd_
       /\ activeChannels_' = a
  /\ pc' = "dispatch"
  /\ UNCHANGED <<looping_, quit_, callingPendingFunctors_, pendingFunctors_,
                 functors, inFunctor, wakeupFd_, call, history>>

\* The wakeup channel's handler: EventLoop::handleRead drains the eventfd.
HandleWakeup ==
  /\ pc = "dispatch"
  /\ activeChannels_ # <<>> /\ Head(activeChannels_) = "wakeup"
  /\ wakeupFd_' = FALSE
  /\ activeChannels_' = Tail(activeChannels_)
  /\ UNCHANGED <<pc, looping_, quit_, callingPendingFunctors_, pendingFunctors_,
                 functors, inFunctor, call, history>>

\* Another channel's handler returns.
HandleIo ==
  /\ pc = "dispatch"
  /\ activeChannels_ # <<>> /\ Head(activeChannels_) = "io"
  /\ call[LoopThread] = "none"
  /\ activeChannels_' = Tail(activeChannels_)
  /\ UNCHANGED <<pc, looping_, quit_, callingPendingFunctors_, pendingFunctors_,
                 functors, inFunctor, wakeupFd_, call, history>>

\* doPendingFunctors: callingPendingFunctors_ = true.
BeginPending ==
  /\ pc = "dispatch"
  /\ activeChannels_ = <<>>
  /\ callingPendingFunctors_' = TRUE
  /\ pc' = "swap"
  /\ UNCHANGED <<looping_, quit_, pendingFunctors_, functors, inFunctor,
                 activeChannels_, wakeupFd_, call, history>>

\* Mutant: the batch is copied under the lock and pendingFunctors_ is not emptied.
MutSwapPending ==
  /\ pc = "swap"
  /\ functors' = pendingFunctors_
  /\ pc' = "run"
  /\ UNCHANGED <<looping_, quit_, callingPendingFunctors_, inFunctor,
                 pendingFunctors_, activeChannels_, wakeupFd_, call, history>>

\* doPendingFunctors: the swap under the lock.
SwapPending ==
  /\ pc = "swap"
  /\ functors' = pendingFunctors_
  /\ pendingFunctors_' = <<>>
  /\ pc' = "run"
  /\ UNCHANGED <<looping_, quit_, callingPendingFunctors_, inFunctor,
                 activeChannels_, wakeupFd_, call, history>>

\* doPendingFunctors: the next functor of the batch is called.
RunFunctor ==
  /\ pc = "run"
  /\ functors # <<>>
  /\ call[LoopThread] = "none"
  /\ functors' = Tail(functors)
  /\ executed' = Append(executed, Head(functors))
  /\ inFunctor' = TRUE
  /\ UNCHANGED <<pc, looping_, quit_, callingPendingFunctors_, pendingFunctors_,
                 activeChannels_, wakeupFd_, call, posted, early>>

\* Mutant: callingPendingFunctors_ stays set.
MutEndPending ==
  /\ pc = "run"
  /\ functors = <<>>
  /\ call[LoopThread] = "none"
  /\ inFunctor' = FALSE
  /\ pc' = "check"
  /\ UNCHANGED <<looping_, quit_, callingPendingFunctors_, pendingFunctors_, functors,
                 activeChannels_, wakeupFd_, call, history>>

\* doPendingFunctors returns; the loop goes round.
EndPending ==
  /\ pc = "run"
  /\ functors = <<>>
  /\ call[LoopThread] = "none"
  /\ inFunctor' = FALSE
  /\ callingPendingFunctors_' = FALSE
  /\ pc' = "check"
  /\ UNCHANGED <<looping_, quit_, pendingFunctors_, functors, activeChannels_,
                 wakeupFd_, call, history>>

-----------------------------------------------------------------------------
LoopStep ==
  \/ LoopCheck \/ HandleWakeup \/ HandleIo
  \/ BeginPending \/ SwapPending \/ RunFunctor \/ EndPending

Client(t) ==
  \/ \E f \in Functors : QueuePush(t, f)
  \/ QuitSet(t)

Finish(t) == QueueWake(t) \/ QuitWake(t)

Next ==
  \/ \E t \in AllThreads : Client(t) \/ Finish(t)
  \/ \E f \in Functors : RunInLoopHere(f)
  \/ LoopStart
  \/ PollReturn
  \/ LoopStep

Spec == Init /\ [][Next]_vars

(***************************************************************************)
(* Fairness.  A thread that is not blocked is scheduled, and callbacks     *)
(* return.  poll() is only assumed to return when the eventfd is readable: *)
(* no liveness property below leans on the kPollTimeMs timeout.            *)
(***************************************************************************)
Fairness ==
  /\ WF_vars(LoopStep)
  /\ WF_vars(PollReturn /\ wakeupFd_)
  /\ \A t \in AllThreads : WF_vars(Finish(t))

FairSpec == Spec /\ Fairness

-----------------------------------------------------------------------------
(***************************************************************************)
(* Properties                                                              *)
(***************************************************************************)

\* The state of EventLoop.h:61-76 keeps its types.
TypeOK ==
  /\ pc \in {"before", "check", "poll", "dispatch", "swap", "run", "stopped"}
  /\ looping_ \in BOOLEAN
  /\ quit_ \in BOOLEAN
  /\ callingPendingFunctors_ \in BOOLEAN
  /\ pendingFunctors_ \in Seq(Functors)
  /\ functors \in Seq(Functors)
  /\ inFunctor \in BOOLEAN
  /\ activeChannels_ \in Seq({"wakeup", "io"})
  /\ wakeupFd_ \in BOOLEAN
  /\ call \in [AllThreads -> {"none", "pushed", "quitting"}]
  /\ posted \in SUBSET Functors
  /\ executed \in Seq(Functors)
  /\ early \in SUBSET Functors

\* Some thread is between its push and its wakeup().
WakeupComing ==
  \/ \E t \in Threads : call[t] = "pushed"
  \/ call[LoopThread] = "pushed" /\ callingPendingFunctors_

\* No lost wakeup (EventLoop.cc:124): whenever the loop is blocked in poll()
\* with a functor waiting, the eventfd is readable or the thread that pushed is
\* about to make it so.  Exempt are functors the loop's own thread queued
\* before it called loop(): queueInLoop does not wake for those, and they wait
\* for the next event or for the poll timeout.
NoLostWakeup ==
  (pc = "poll" /\ Elems(pendingFunctors_) \ early # {}) => (wakeupFd_ \/ WakeupComing)

\* No lost quit (EventLoop.cc:91-97): a loop that is blocked in poll() after
\* quit_ was set will be woken.
NoLostQuit ==
  (pc = "poll" /\ quit_) => (wakeupFd_ \/ \E t \in Threads : call[t] = "quitting")

FQ == INSTANCE FunctorQueue WITH queue <- functors \o pendingFunctors_

\* EventLoop implements FunctorQueue (EventLoop.cc:101-128, 167-183): what was
\* swapped out and not yet run comes before what is still in pendingFunctors_,
\* so functors run once each and in the order of their pushes, whatever the
\* interleaving.
ImplementsFunctorQueue == FQ!Spec

\* Every functor queued to a running loop is run, unless the loop stops first
\* (EventLoop.cc:114-128, 167-183), without help from the poll timeout.
QueuedRuns ==
  \A f \in Functors :
    (f \in Elems(pendingFunctors_) \ early /\ ~NotLooping)
      ~> (f \in Elems(executed) \/ pc = "stopped")

\* quit() stops a running loop, without help from the poll timeout.
QuitStops == (quit_ /\ ~NotLooping) ~> pc = "stopped"

-----------------------------------------------------------------------------
(***************************************************************************)
(* The inductive invariant behind NoLostWakeup, NoLostQuit and the         *)
(* refinement.  Between poll() and the swap (pc "dispatch" and "swap") a   *)
(* functor may wait with the eventfd drained: the swap will collect it.    *)
(* Everywhere else a waiting functor keeps a wakeup alive.                 *)
(***************************************************************************)
CallingFlag == callingPendingFunctors_ <=> pc \in {"swap", "run"}

BatchEmpty == pc # "run" => functors = <<>>

PendingCovered ==
  pc \notin {"dispatch", "swap"} =>
    \A i \in 1..Len(pendingFunctors_) :
      pendingFunctors_[i] \in early \/ wakeupFd_ \/ WakeupComing

\* The strengthening that every step of EventLoop.cc:60-183 preserves: the
\* types, the flag tells where doPendingFunctors is, a batch exists only inside
\* it, and waiting functors and a pending quit keep a wakeup alive.
IInv == TypeOK /\ CallingFlag /\ BatchEmpty /\ PendingCovered /\ NoLostQuit

=============================================================================
