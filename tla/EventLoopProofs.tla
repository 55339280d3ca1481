-------------------------- MODULE EventLoopProofs --------------------------
(***************************************************************************)
(* For any set of threads and any set of functors: EventLoop's types, that *)
(* no wakeup and no quit is lost, and that EventLoop implements            *)
(* FunctorQueue.  The argument is the invariant IInv of EventLoop.         *)
(***************************************************************************)
EXTENDS EventLoop, SequenceTheorems, TLAPS

\* Appending to the second part of a concatenation appends to the whole: a
\* push to pendingFunctors_ is a push to the abstract queue.
LEMMA AppendToConcat ==
  ASSUME NEW S, NEW a \in Seq(S), NEW b \in Seq(S), NEW x \in S
  PROVE  a \o Append(b, x) = Append(a \o b, x)
  OBVIOUS

\* Taking the head of a nonempty first part takes the head of the whole: the
\* functor doPendingFunctors calls is the oldest one queued.
LEMMA TailOfConcat ==
  ASSUME NEW S, NEW a \in Seq(S), NEW b \in Seq(S), a # <<>>
  PROVE  /\ a \o b # <<>>
         /\ Head(a \o b) = Head(a)
         /\ Tail(a \o b) = Tail(a) \o b
  OBVIOUS

\* The loop starts with nothing pending and no call in progress.
LEMMA InitIInv == Init => IInv
  <1> SUFFICES ASSUME Init PROVE IInv
    OBVIOUS
  <1> USE DEF Init
  <1>1. TypeOK
    <2>1. /\ pendingFunctors_ \in Seq(Functors)
          /\ functors \in Seq(Functors)
          /\ activeChannels_ \in Seq({"wakeup", "io"})
          /\ executed \in Seq(Functors)
      OBVIOUS
    <2> QED
      BY <2>1 DEF TypeOK
  <1>2. CallingFlag /\ BatchEmpty /\ PendingCovered /\ NoLostQuit
    BY DEF CallingFlag, BatchEmpty, PendingCovered, NoLostQuit
  <1> QED
    BY <1>1, <1>2 DEF IInv

-----------------------------------------------------------------------------
(***************************************************************************)
(* One lemma per action.                                                   *)
(***************************************************************************)

LEMMA StepQueuePush ==
  ASSUME IInv, NEW t \in AllThreads, NEW f \in Functors, QueuePush(t, f)
  PROVE  IInv'
  <1> USE ThreadAssumption DEF IInv, QueuePush, loopVars, AllThreads, TypeOK
  <1>1. TypeOK'
    OBVIOUS
  <1>2. CallingFlag' /\ BatchEmpty'
    BY DEF CallingFlag, BatchEmpty
  <1>3. PendingCovered'
    <2>1. CASE t \in Threads
      BY <2>1 DEF PendingCovered, WakeupComing
    <2>2. CASE t = LoopThread /\ NotLooping
      BY <2>2 DEF PendingCovered, WakeupComing, MayCall, NotLooping
    <2>3. CASE t = LoopThread /\ ~NotLooping
      BY <2>3 DEF PendingCovered, WakeupComing, MayCall, NotLooping, CallingFlag
    <2> QED
      BY <2>1, <2>2, <2>3
  <1>4. NoLostQuit'
    BY DEF NoLostQuit, MayCall
  <1> QED
    BY <1>1, <1>2, <1>3, <1>4

LEMMA StepQueueWake ==
  ASSUME IInv, NEW t \in AllThreads, QueueWake(t)
  PROVE  IInv'
  <1> USE ThreadAssumption DEF IInv, QueueWake, loopVars, history, AllThreads, TypeOK
  <1>1. TypeOK'
    OBVIOUS
  <1>2. CallingFlag' /\ BatchEmpty'
    BY DEF CallingFlag, BatchEmpty
  <1>3. PendingCovered'
    BY DEF PendingCovered, WakeupComing
  <1>4. NoLostQuit'
    BY DEF NoLostQuit
  <1> QED
    BY <1>1, <1>2, <1>3, <1>4

LEMMA StepRunInLoopHere ==
  ASSUME IInv, NEW f \in Functors, RunInLoopHere(f)
  PROVE  IInv'
  BY DEF IInv, RunInLoopHere, loopVars, TypeOK, CallingFlag, BatchEmpty,
         PendingCovered, WakeupComing, NoLostQuit

LEMMA StepQuitSet ==
  ASSUME IInv, NEW t \in AllThreads, QuitSet(t)
  PROVE  IInv'
  <1> USE ThreadAssumption DEF IInv, QuitSet, loopVars, AllThreads, TypeOK, MayCall
  <1>1. TypeOK'
    BY DEF Elems
  <1>2. CallingFlag' /\ BatchEmpty'
    BY DEF CallingFlag, BatchEmpty
  <1>3. PendingCovered'
    BY DEF PendingCovered, WakeupComing
  <1>4. NoLostQuit'
    BY DEF NoLostQuit, NotLooping
  <1> QED
    BY <1>1, <1>2, <1>3, <1>4

LEMMA StepQuitWake ==
  ASSUME IInv, NEW t \in AllThreads, QuitWake(t)
  PROVE  IInv'
  <1> USE ThreadAssumption DEF IInv, QuitWake, loopVars, history, AllThreads, TypeOK
  <1>1. TypeOK'
    OBVIOUS
  <1>2. CallingFlag' /\ BatchEmpty'
    BY DEF CallingFlag, BatchEmpty
  <1>3. PendingCovered' /\ NoLostQuit'
    BY DEF PendingCovered, NoLostQuit
  <1> QED
    BY <1>1, <1>2, <1>3

\* What poll() returns is a sequence of channels.
LEMMA ActiveListsType == \A a \in ActiveLists : a \in Seq({"wakeup", "io"})
  <1> DEFINE C == {"wakeup", "io"}
  <1>1. <<>> \in Seq(C)
    OBVIOUS
  <1>2. <<"wakeup">> \in Seq(C) /\ <<"io">> \in Seq(C)
    OBVIOUS
  <1>3. <<"wakeup", "io">> \in Seq(C)
    OBVIOUS
  <1>4. <<"io", "wakeup">> \in Seq(C)
    OBVIOUS
  <1> QED
    BY <1>1, <1>2, <1>3, <1>4 DEF ActiveLists

\* The steps of the loop thread itself.
LEMMA StepLoop ==
  ASSUME IInv, LoopStart \/ PollReturn \/ LoopStep
  PROVE  IInv'
  <1> USE DEF IInv, history, TypeOK, CallingFlag, BatchEmpty, PendingCovered,
              WakeupComing, NoLostQuit
  <1>1. CASE LoopStart
    BY <1>1 DEF LoopStart, NotLooping
  <1>2. CASE LoopCheck
    <2>1. activeChannels_' \in Seq({"wakeup", "io"})
      BY <1>2 DEF LoopCheck
    <2> QED
      BY <1>2, <2>1 DEF LoopCheck
  <1>3. CASE PollReturn
    <2>1. activeChannels_' \in Seq({"wakeup", "io"})
      BY <1>3, ActiveListsType DEF PollReturn
    <2> QED
      BY <1>3, <2>1 DEF PollReturn
  <1>4. CASE HandleWakeup
    <2>1. activeChannels_' \in Seq({"wakeup", "io"})
      BY <1>4, HeadTailProperties DEF HandleWakeup
    <2> QED
      BY <1>4, <2>1 DEF HandleWakeup
  <1>5. CASE HandleIo
    BY <1>5 DEF HandleIo
  <1>6. CASE BeginPending
    BY <1>6 DEF BeginPending
  <1>7. CASE SwapPending
    BY <1>7 DEF SwapPending
  <1>8. CASE RunFunctor
    BY <1>8 DEF RunFunctor
  <1>9. CASE EndPending
    BY <1>9 DEF EndPending
  <1> QED
    BY <1>1, <1>2, <1>3, <1>4, <1>5, <1>6, <1>7, <1>8, <1>9 DEF LoopStep

LEMMA NextIInv == IInv /\ [Next]_vars => IInv'
  <1> SUFFICES ASSUME IInv, [Next]_vars PROVE IInv'
    OBVIOUS
  <1>1. CASE UNCHANGED vars
    BY <1>1 DEF vars, IInv, TypeOK, CallingFlag, BatchEmpty, PendingCovered,
                WakeupComing, NoLostQuit
  <1>2. CASE Next
    BY <1>2, StepQueuePush, StepQueueWake, StepRunInLoopHere, StepQuitSet,
       StepQuitWake, StepLoop DEF Next, Client, Finish
  <1> QED
    BY <1>1, <1>2

-----------------------------------------------------------------------------
\* IInv is an invariant of EventLoop.
THEOREM Invariance == Spec => []IInv
  BY InitIInv, NextIInv, PTL DEF Spec

\* Types: the state of EventLoop.h:61-76 keeps its types.
THEOREM TypeCorrect == Spec => []TypeOK
  <1>1. IInv => TypeOK
    BY DEF IInv
  <1> QED
    BY <1>1, Invariance, PTL

\* No lost wakeup (EventLoop.cc:115-128 with 157-183): the loop never blocks in
\* poll() on a functor that was queued to it while nobody is going to wake it.
THEOREM WakeupNeverLost == Spec => []NoLostWakeup
  <1>1. IInv => NoLostWakeup
    BY DEF IInv, PendingCovered, NoLostWakeup, Elems, TypeOK
  <1> QED
    BY <1>1, Invariance, PTL

\* No lost quit (EventLoop.cc:89-98): a quit() issued to a running loop cannot
\* leave it blocked in poll().
THEOREM QuitNeverLost == Spec => []NoLostQuit
  <1>1. IInv => NoLostQuit
    BY DEF IInv
  <1> QED
    BY <1>1, Invariance, PTL

-----------------------------------------------------------------------------
\* Each step of EventLoop is a step of FunctorQueue or changes none of its
\* variables.
LEMMA StepRefines == IInv /\ [Next]_vars => [FQ!Next]_(FQ!fqVars)
  <1> SUFFICES ASSUME IInv, [Next]_vars PROVE [FQ!Next]_(FQ!fqVars)
    OBVIOUS
  <1> USE DEF FQ!fqVars
  <1>1. CASE UNCHANGED vars
    BY <1>1 DEF vars
  <1>2. ASSUME NEW t \in AllThreads, NEW f \in Functors, QueuePush(t, f)
        PROVE  FQ!Next
    <2>1. functors \o pendingFunctors_' = Append(functors \o pendingFunctors_, f)
      BY <1>2, AppendToConcat DEF QueuePush, IInv, TypeOK
    <2>2. FQ!Post(f)
      BY <1>2, <2>1 DEF FQ!Post, QueuePush, loopVars
    <2> QED
      BY <2>2 DEF FQ!Next
  <1>3. ASSUME NEW t \in AllThreads, QueueWake(t) \/ QuitSet(t) \/ QuitWake(t)
        PROVE  UNCHANGED FQ!fqVars
    BY <1>3 DEF QueueWake, QuitSet, QuitWake, loopVars, history
  <1>4. ASSUME NEW f \in Functors, RunInLoopHere(f)
        PROVE  FQ!Next
    BY <1>4 DEF FQ!Next, FQ!RunNow, RunInLoopHere, loopVars
  <1>5. CASE SwapPending
    <2>1. functors = <<>> /\ pendingFunctors_ \in Seq(Functors)
      BY <1>5 DEF SwapPending, IInv, BatchEmpty, TypeOK
    <2>2. functors' \o pendingFunctors_' = functors \o pendingFunctors_
      BY <1>5, <2>1 DEF SwapPending
    <2> QED
      BY <1>5, <2>2 DEF SwapPending, history
  <1>6. CASE RunFunctor
    <2>1. /\ functors \o pendingFunctors_ # <<>>
          /\ Head(functors \o pendingFunctors_) = Head(functors)
          /\ Tail(functors \o pendingFunctors_) = functors' \o pendingFunctors_
      BY <1>6, TailOfConcat DEF RunFunctor, IInv, TypeOK
    <2>2. FQ!Take
      BY <1>6, <2>1 DEF FQ!Take, RunFunctor
    <2> QED
      BY <2>2 DEF FQ!Next
  <1>7. CASE \/ LoopStart \/ PollReturn \/ LoopCheck \/ HandleWakeup
            \/ HandleIo \/ BeginPending \/ EndPending
    BY <1>7 DEF LoopStart, PollReturn, LoopCheck, HandleWakeup, HandleIo,
                BeginPending, EndPending, history
  <1> QED
    BY <1>1, <1>2, <1>3, <1>4, <1>5, <1>6, <1>7
    DEF Next, Client, Finish, LoopStep

\* EventLoop implements FunctorQueue (EventLoop.cc:101-128, 167-183): whatever
\* the interleaving of threads, swaps and wakeups, each queued functor is run
\* at most once, and in the order in which the functors were queued.
THEOREM Refinement == Spec => ImplementsFunctorQueue
  <1>1. Init => FQ!Init
    BY DEF Init, FQ!Init
  <1> QED
    BY <1>1, StepRefines, Invariance, PTL DEF Spec, ImplementsFunctorQueue, FQ!Spec

=============================================================================
