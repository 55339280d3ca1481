--------------------- MODULE EventLoopThreadPoolProofs ---------------------
(***************************************************************************)
(* Proofs about EventLoopThreadPool, for any number of threads and for an  *)
(* owner that is patient or not.                                           *)
(***************************************************************************)
EXTENDS EventLoopThreadPool, SequenceTheorems, TLAPS

\* The steps of the owner in start() and its calls of getNextLoop.
StartStep ==
  \/ \E n \in 0..MaxThreads : SetThreadNum(n)
  \/ StartThread \/ StartLoopCheck \/ SpuriousWakeup \/ StartDone

EndStep == BeginDestroy \/ DtorCheck \/ DtorQuit \/ DtorWakeup \/ DtorJoin \/ DtorDone

-----------------------------------------------------------------------------
\* The constructor establishes the invariant (EventLoopThreadPool.cc:4-11).
LEMMA PoolInitOk == Init => PoolInv
<1> SUFFICES ASSUME Init PROVE PoolInv
  OBVIOUS
<1> USE PoolAssumption DEF Init, Workers, BaseLoop
<1>1. TypeOK
  BY DEF TypeOK
<1>2. HandedOver
  BY DEF HandedOver
<1>3. StartedInTurn
  BY DEF StartedInTurn, Starting, Ending
<1>4. EndedInTurn
  BY DEF EndedInTurn
<1>5. DealtInTurn
  BY DEF DealtInTurn, Starting
<1> QED
  BY <1>1, <1>2, <1>3, <1>4, <1>5 DEF PoolInv

\* start() keeps the invariant (EventLoopThreadPool.cc:17-35).
LEMMA StartOk == PoolInv /\ StartStep => PoolInv'
<1> SUFFICES ASSUME PoolInv, StartStep PROVE PoolInv'
  OBVIOUS
<1> USE PoolAssumption DEF Workers, BaseLoop, PoolInv, workerVars, Starting, Ending
<1>1. CASE \E n \in 0..MaxThreads : SetThreadNum(n)
  <2> PICK n \in 0..MaxThreads : SetThreadNum(n)
    BY <1>1
  <2> USE DEF SetThreadNum
  <2>1. TypeOK'
    BY DEF TypeOK
  <2>2. HandedOver'
    BY DEF HandedOver
  <2>3. StartedInTurn'
    BY DEF StartedInTurn, TypeOK
  <2>4. EndedInTurn'
    BY DEF EndedInTurn
  <2>5. DealtInTurn'
    BY DEF DealtInTurn, StartedInTurn, TypeOK
  <2> QED
    BY <2>1, <2>2, <2>3, <2>4, <2>5
<1>2. CASE StartThread
  <2> USE <1>2 DEF StartThread
  <2>1. TypeOK'
    BY DEF TypeOK
  <2>2. HandedOver'
    BY DEF HandedOver, StartedInTurn, TypeOK
  <2>3. StartedInTurn'
    BY DEF StartedInTurn, TypeOK
  <2>4. EndedInTurn'
    BY DEF EndedInTurn, TypeOK
  <2>5. DealtInTurn'
    BY DEF DealtInTurn, TypeOK
  <2> QED
    BY <2>1, <2>2, <2>3, <2>4, <2>5
<1>3. CASE StartLoopCheck /\ loop_[cur]
  <2> USE <1>3 DEF StartLoopCheck
  <2>0. cur \in Workers /\ loops_ \in Seq(Workers) /\ loops_' = Append(loops_, cur)
    BY DEF TypeOK, StartedInTurn
  <2>6. /\ loops_' \in Seq(Workers) /\ Len(loops_') = Len(loops_) + 1
        /\ \A i \in 1..Len(loops_) : loops_'[i] = loops_[i]
        /\ loops_'[Len(loops_) + 1] = cur
        /\ loops_' # <<>>
    BY <2>0, AppendProperties
  <2>1. TypeOK'
    <3>1. next_ = 0 /\ Len(loops_) \in Nat
      BY DEF DealtInTurn, TypeOK
    <3>2. next_' \in 0..(IF loops_' = <<>> THEN 0 ELSE Len(loops_') - 1)
      BY <3>1, <2>6
    <3>3. cur' \in 1..(MaxThreads + 1)
      BY <2>0
    <3> QED
      BY <3>2, <3>3, <2>0, <2>6 DEF TypeOK
  <2>2. HandedOver'
    BY DEF HandedOver
  <2>3. StartedInTurn'
    <3>1. pc[cur] \notin {"none", "init", "publish"} /\ cur' = cur + 1 /\ cur \in Nat
      BY <2>0 DEF HandedOver
    <3>2. owner' = "start" /\ numThreads_' = numThreads_ /\ pc' = pc /\ owner = "lock"
      OBVIOUS
    <3>3. numThreads_ \in Nat /\ cur <= numThreads_
      BY <3>2 DEF StartedInTurn, TypeOK
    <3>4. \A w \in Workers : /\ w < cur => pc[w] \notin {"none", "init", "publish"}
                             /\ w > cur => pc[w] = "none"
      BY <3>2 DEF StartedInTurn
    <3>5. \A w \in Workers : /\ w < cur' => pc'[w] \notin {"none", "init", "publish"}
                             /\ w >= cur' => pc'[w] = "none"
      <4> TAKE w \in Workers
      <4> HIDE DEF StartLoopCheck, PoolInv
      <4>1. w \in Nat
        OBVIOUS
      <4> QED
        BY <3>1, <3>2, <3>4, <4>1
    <3> QED
      BY <3>1, <3>2, <3>3, <3>5 DEF StartedInTurn
  <2>4. EndedInTurn'
    BY DEF EndedInTurn, TypeOK
  <2>5. DealtInTurn'
    <3>0. owner = "lock" /\ cur' = cur + 1 /\ owner' = "start"
      OBVIOUS
    <3>1. Len(loops_) = cur - 1 /\ Len(loops_) \in Nat
      BY <3>0, <2>0, LenProperties DEF DealtInTurn
    <3>2. Len(loops_') = cur' - 1
      BY <3>0, <3>1, <2>0, <2>6
    <3>3. \A i \in 1..Len(loops_') : loops_'[i] = i
      BY <3>1, <2>0, <2>6 DEF DealtInTurn
    <3>4. next_' = 0 /\ \A l \in 0..MaxThreads : assigned'[l] = 0
      BY <3>0 DEF DealtInTurn
    <3>5. 0 \in 0..MaxAssign /\ \A w \in 1..Len(loops_') : assigned'[w] = IF w <= next_' THEN 0 + 1 ELSE 0
      BY <3>4, <3>2, <2>0
    <3> QED
      BY <3>0, <3>2, <3>3, <3>4, <3>5 DEF DealtInTurn
  <2> QED
    BY <2>1, <2>2, <2>3, <2>4, <2>5
<1>4. CASE StartLoopCheck /\ ~loop_[cur]
  <2> USE <1>4 DEF StartLoopCheck
  <2>1. TypeOK'
    BY DEF TypeOK
  <2>2. HandedOver'
    BY DEF HandedOver
  <2>3. StartedInTurn'
    BY DEF StartedInTurn, TypeOK
  <2>4. EndedInTurn'
    BY DEF EndedInTurn, TypeOK
  <2>5. DealtInTurn'
    BY DEF DealtInTurn, TypeOK
  <2> QED
    BY <2>1, <2>2, <2>3, <2>4, <2>5
<1>5. CASE SpuriousWakeup
  <2> USE <1>5 DEF SpuriousWakeup
  <2>1. TypeOK'
    BY DEF TypeOK
  <2>2. HandedOver'
    BY DEF HandedOver
  <2>3. StartedInTurn'
    BY DEF StartedInTurn, TypeOK
  <2>4. EndedInTurn'
    BY DEF EndedInTurn, TypeOK
  <2>5. DealtInTurn'
    BY DEF DealtInTurn, TypeOK
  <2> QED
    BY <2>1, <2>2, <2>3, <2>4, <2>5
<1>6. CASE StartDone
  <2> USE <1>6 DEF StartDone
  <2>1. TypeOK'
    BY DEF TypeOK
  <2>2. HandedOver'
    BY DEF HandedOver
  <2>6. cur = numThreads_ + 1 /\ numThreads_ \in Nat
    BY DEF StartedInTurn, TypeOK
  <2>3. StartedInTurn'
    <3>1. \A w \in Workers : /\ w < cur => pc[w] \notin {"none", "init", "publish"}
                             /\ w >= cur => pc[w] = "none"
      BY <2>6 DEF StartedInTurn
    <3> QED
      BY <3>1, <2>6 DEF StartedInTurn
  <2>4. EndedInTurn'
    BY DEF EndedInTurn, TypeOK
  <2>5. DealtInTurn'
    BY <2>6 DEF DealtInTurn
  <2> QED
    BY <2>1, <2>2, <2>3, <2>4, <2>5
<1> QED
  BY <1>1, <1>2, <1>3, <1>4, <1>5, <1>6 DEF StartStep

-----------------------------------------------------------------------------
\* getNextLoop keeps the loads within one of each other (EventLoopThreadPool.cc:37-52).
LEMMA DealOk == PoolInv /\ GetNextLoop => PoolInv'
<1> SUFFICES ASSUME PoolInv, GetNextLoop PROVE PoolInv'
  OBVIOUS
<1> USE PoolAssumption DEF Workers, BaseLoop, PoolInv, workerVars, Starting, Ending, GetNextLoop
<1>1. /\ loops_ \in Seq(Workers) /\ Len(loops_) \in Nat /\ next_ \in Nat
      /\ loops_ = <<>> <=> Len(loops_) = 0
      /\ Len(loops_) > 0 => next_ < Len(loops_)
      /\ Len(loops_) <= MaxThreads
  <2>1. loops_ \in Seq(Workers) /\ Len(loops_) \in Nat
    BY LenProperties DEF TypeOK
  <2>2. loops_ = <<>> <=> Len(loops_) = 0
    BY <2>1, EmptySeq
  <2> QED
    BY <2>1, <2>2 DEF TypeOK, DealtInTurn
<1>2. NextLoop = IF Len(loops_) = 0 THEN 0 ELSE next_ + 1
  BY <1>1 DEF NextLoop, DealtInTurn
<1>3. /\ NextLoop \in 0..MaxThreads /\ assigned \in [0..MaxThreads -> 0..MaxAssign]
      /\ assigned[NextLoop] < MaxAssign
      /\ \A l \in 0..MaxThreads :
           assigned'[l] = IF l = NextLoop THEN assigned[l] + 1 ELSE assigned[l]
  BY <1>1, <1>2 DEF TypeOK
<1>4. next_' = IF Len(loops_) = 0 THEN next_ ELSE IF next_ + 1 >= Len(loops_) THEN 0 ELSE next_ + 1
  BY <1>1
<1>5. /\ owner = "serve" /\ owner' = "serve" /\ numThreads_' = numThreads_ /\ cur' = cur
      /\ loops_' = loops_ /\ gone' = gone /\ pc' = pc /\ loop_' = loop_ /\ quit_' = quit_
      /\ wakeupFd_' = wakeupFd_
  OBVIOUS
<1>6. TypeOK'
  <2>1. next_' \in 0..(IF loops_' = <<>> THEN 0 ELSE Len(loops_') - 1)
    BY <1>1, <1>4, <1>5 DEF TypeOK
  <2>2. assigned' \in [0..MaxThreads -> 0..MaxAssign]
    BY <1>3
  <2> QED
    BY <1>5, <2>1, <2>2 DEF TypeOK
<1>7. HandedOver' /\ StartedInTurn' /\ EndedInTurn'
  BY <1>5 DEF HandedOver, StartedInTurn, EndedInTurn
<1>8. DealtInTurn'
  <2>1. loops_' # <<>> => assigned'[0] = 0
    BY <1>1, <1>2, <1>3, <1>5 DEF DealtInTurn
  <2>2. PICK q \in 0..MaxAssign : \A w \in 1..Len(loops_) : assigned[w] = IF w <= next_ THEN q + 1 ELSE q
    BY DEF DealtInTurn
  <2>3. \E r \in 0..MaxAssign : \A w \in 1..Len(loops_') : assigned'[w] = IF w <= next_' THEN r + 1 ELSE r
    <3>1. CASE Len(loops_) = 0
      BY <3>1, <1>5
    <3>2. CASE Len(loops_) > 0 /\ next_ + 1 < Len(loops_)
      <4>1. \A w \in 1..Len(loops_) : assigned'[w] = IF w <= next_' THEN q + 1 ELSE q
        <5> TAKE w \in 1..Len(loops_)
        <5> HIDE DEF GetNextLoop, PoolInv
        <5>1. next_' = next_ + 1 /\ NextLoop = next_ + 1 /\ w \in 0..MaxThreads /\ w \in Nat /\ q \in Nat
          BY <3>2, <1>1, <1>2, <1>4
        <5>2. assigned'[w] = IF w = next_ + 1 THEN assigned[w] + 1 ELSE assigned[w]
          BY <5>1, <1>3
        <5>3. assigned[w] = IF w <= next_ THEN q + 1 ELSE q
          BY <2>2
        <5> QED
          BY <5>1, <5>2, <5>3, <1>1
      <4> QED
        BY <4>1, <1>5
    <3>3. CASE Len(loops_) > 0 /\ next_ + 1 >= Len(loops_)
      <4>1. next_ + 1 = Len(loops_) /\ next_' = 0
        BY <3>3, <1>1, <1>4
      <4>2. \A w \in 1..Len(loops_) : assigned'[w] = q + 1
        <5> TAKE w \in 1..Len(loops_)
        <5> HIDE DEF GetNextLoop, PoolInv
        <5>1. NextLoop = next_ + 1 /\ w \in 0..MaxThreads /\ w \in Nat /\ q \in Nat
          BY <3>3, <1>1, <1>2
        <5>2. assigned'[w] = IF w = next_ + 1 THEN assigned[w] + 1 ELSE assigned[w]
          BY <5>1, <1>3
        <5>3. assigned[w] = IF w <= next_ THEN q + 1 ELSE q
          BY <2>2
        <5> QED
          BY <4>1, <5>1, <5>2, <5>3, <1>1
      <4>3. q + 1 \in 0..MaxAssign
        BY <4>1, <3>3, <2>2, <1>1, <1>2, <1>3
      <4> QED
        BY <4>1, <4>2, <4>3, <1>1, <1>5
    <3> QED
      BY <3>1, <3>2, <3>3, <1>1
  <2> QED
    BY <2>1, <2>3, <1>5 DEF DealtInTurn
<1> QED
  BY <1>6, <1>7, <1>8

-----------------------------------------------------------------------------
\* The destructors keep the invariant (EventLoopThread.cc:15-23): a worker that
\* start() has left behind has its loop_ set until it is quit, so none is detached.
LEMMA EndOk == PoolInv /\ EndStep => PoolInv'
<1> SUFFICES ASSUME PoolInv, EndStep PROVE PoolInv'
  OBVIOUS
<1> USE PoolAssumption DEF Workers, BaseLoop, PoolInv, workerVars, Starting, Ending
<1>1. CASE BeginDestroy
  <2> USE <1>1 DEF BeginDestroy
  <2>1. TypeOK'
    BY DEF TypeOK
  <2>2. HandedOver'
    BY DEF HandedOver
  <2>3. StartedInTurn'
    BY DEF StartedInTurn
  <2>4. EndedInTurn'
    BY DEF EndedInTurn, TypeOK
  <2>5. DealtInTurn'
    BY DEF DealtInTurn
  <2> QED
    BY <2>1, <2>2, <2>3, <2>4, <2>5
<1>2. CASE DtorCheck
  <2> USE <1>2 DEF DtorCheck
  <2>0. cur \in Workers /\ numThreads_ \in Nat /\ cur <= numThreads_ /\ owner = "dtor"
    BY DEF TypeOK
  <2>6. loop_[cur]
    <3>1. pc[cur] \notin {"none", "init", "publish"}
      BY <2>0 DEF StartedInTurn
    <3>2. ~quit_[cur]
      BY <2>0 DEF EndedInTurn
    <3>3. pc[cur] \notin {"ended", "done"}
      BY <2>0, <3>2 DEF HandedOver
    <3>4. pc[cur] \in {"enter", "check", "poll"}
      BY <2>0, <3>1, <3>3 DEF TypeOK
    <3> QED
      BY <2>0, <3>4 DEF HandedOver
  <2>7. owner' = "quit" /\ cur' = cur /\ gone' = gone
    BY <2>6
  <2>1. TypeOK'
    BY <2>7 DEF TypeOK
  <2>2. HandedOver'
    BY DEF HandedOver
  <2>3. StartedInTurn'
    BY <2>7 DEF StartedInTurn
  <2>4. EndedInTurn'
    BY <2>0, <2>7 DEF EndedInTurn
  <2>5. DealtInTurn'
    BY <2>7 DEF DealtInTurn
  <2> QED
    BY <2>1, <2>2, <2>3, <2>4, <2>5
<1>3. CASE DtorQuit
  <2> USE <1>3 DEF DtorQuit
  <2>0. cur \in Workers
    BY DEF TypeOK, EndedInTurn
  <2>1. TypeOK'
    BY DEF TypeOK
  <2>2. HandedOver'
    BY <2>0 DEF HandedOver, TypeOK
  <2>3. StartedInTurn'
    BY DEF StartedInTurn
  <2>4. EndedInTurn'
    BY <2>0 DEF EndedInTurn, TypeOK
  <2>5. DealtInTurn'
    BY DEF DealtInTurn
  <2> QED
    BY <2>1, <2>2, <2>3, <2>4, <2>5
<1>4. CASE DtorWakeup
  <2> USE <1>4 DEF DtorWakeup
  <2>1. TypeOK'
    BY DEF TypeOK
  <2>2. HandedOver'
    BY DEF HandedOver
  <2>3. StartedInTurn'
    BY DEF StartedInTurn
  <2>4. EndedInTurn'
    BY DEF EndedInTurn
  <2>5. DealtInTurn'
    BY DEF DealtInTurn
  <2> QED
    BY <2>1, <2>2, <2>3, <2>4, <2>5
<1>5. CASE DtorJoin
  <2> USE <1>5 DEF DtorJoin
  <2>0. /\ cur \in Workers /\ cur' = cur + 1 /\ cur' \in 1..(MaxThreads + 1)
        /\ owner = "join" /\ owner' = "dtor" /\ gone' = gone \cup {cur}
        /\ pc[cur] = "done" /\ pc' = pc /\ quit_' = quit_
    BY DEF TypeOK, EndedInTurn
  <2>1. TypeOK'
    <3>1. gone' \subseteq Workers
      BY <2>0 DEF TypeOK
    <3> QED
      BY <2>0, <3>1 DEF TypeOK
  <2>2. HandedOver'
    BY DEF HandedOver
  <2>3. StartedInTurn'
    BY DEF StartedInTurn
  <2>4. EndedInTurn'
    <3>1. \A w \in Workers : quit_'[w] => w < cur'
      <4> HIDE DEF DtorJoin
      <4> SUFFICES ASSUME NEW w \in Workers, quit_[w] PROVE w < cur + 1
        BY <2>0
      <4>1. w \in Nat /\ cur \in Nat /\ (w < cur \/ w = cur)
        BY <2>0 DEF EndedInTurn
      <4> QED
        BY <4>1
    <3>2. \A w \in gone' : w < cur' /\ pc'[w] = "done"
      <4> HIDE DEF DtorJoin
      <4> SUFFICES ASSUME NEW w \in gone' PROVE w < cur + 1 /\ pc[w] = "done"
        BY <2>0
      <4>1. w = cur \/ (w \in gone /\ w < cur /\ pc[w] = "done" /\ w \in Nat)
        BY <2>0 DEF EndedInTurn, TypeOK
      <4> QED
        BY <4>1, <2>0
    <3> QED
      BY <2>0, <3>1, <3>2 DEF EndedInTurn
  <2>5. DealtInTurn'
    BY DEF DealtInTurn
  <2> QED
    BY <2>1, <2>2, <2>3, <2>4, <2>5
<1>6. CASE DtorDone
  <2> USE <1>6 DEF DtorDone
  <2>1. TypeOK'
    BY DEF TypeOK
  <2>2. HandedOver'
    BY DEF HandedOver
  <2>3. StartedInTurn'
    BY DEF StartedInTurn
  <2>4. EndedInTurn'
    BY DEF EndedInTurn
  <2>5. DealtInTurn'
    BY DEF DealtInTurn
  <2> QED
    BY <2>1, <2>2, <2>3, <2>4, <2>5
<1> QED
  BY <1>1, <1>2, <1>3, <1>4, <1>5, <1>6 DEF EndStep

-----------------------------------------------------------------------------
\* threadFunc keeps the invariant (EventLoopThread.cc:42-65).
LEMMA WorkerOk == ASSUME NEW w \in Workers, PoolInv, WorkerStep(w) \/ LoopRound(w) PROVE PoolInv'
<1> USE PoolAssumption DEF Workers, BaseLoop, PoolInv, ownerVars, Starting, Ending
<1>0. pc \in [Workers -> {"none", "init", "publish", "enter", "check", "poll", "ended", "done"}]
  BY DEF TypeOK
<1>1. CASE InitLoop(w)
  <2> USE <1>1 DEF InitLoop, At
  <2>1. TypeOK'
    BY DEF TypeOK
  <2>2. HandedOver'
    BY <1>0 DEF HandedOver
  <2>3. StartedInTurn'
    BY <1>0 DEF StartedInTurn
  <2>4. EndedInTurn'
    BY <1>0 DEF EndedInTurn
  <2>5. DealtInTurn'
    BY DEF DealtInTurn
  <2> QED
    BY <2>1, <2>2, <2>3, <2>4, <2>5
<1>2. CASE Publish(w)
  <2> USE <1>2 DEF Publish, At
  <2>1. TypeOK'
    BY DEF TypeOK
  <2>2. HandedOver'
    BY <1>0 DEF HandedOver, TypeOK
  <2>3. StartedInTurn'
    BY <1>0 DEF StartedInTurn
  <2>4. EndedInTurn'
    BY <1>0 DEF EndedInTurn
  <2>5. DealtInTurn'
    BY DEF DealtInTurn
  <2> QED
    BY <2>1, <2>2, <2>3, <2>4, <2>5
<1>3. CASE EnterLoop(w)
  <2> USE <1>3 DEF EnterLoop, At
  <2>1. TypeOK'
    BY DEF TypeOK
  <2>2. HandedOver'
    BY <1>0 DEF HandedOver, TypeOK
  <2>3. StartedInTurn'
    BY <1>0 DEF StartedInTurn
  <2>4. EndedInTurn'
    BY <1>0 DEF EndedInTurn, TypeOK
  <2>5. DealtInTurn'
    BY DEF DealtInTurn
  <2> QED
    BY <2>1, <2>2, <2>3, <2>4, <2>5
<1>4. CASE LoopCheck(w)
  <2> USE <1>4 DEF LoopCheck, At
  <2>1. TypeOK'
    BY DEF TypeOK
  <2>2. HandedOver'
    BY <1>0 DEF HandedOver, TypeOK
  <2>3. StartedInTurn'
    BY <1>0 DEF StartedInTurn
  <2>4. EndedInTurn'
    <3>1. pc[w] = "check" /\ w \notin gone /\ \A v \in gone : pc'[v] = pc[v]
      BY <1>0 DEF EndedInTurn, TypeOK
    <3> QED
      BY <3>1 DEF EndedInTurn
  <2>5. DealtInTurn'
    BY DEF DealtInTurn
  <2> QED
    BY <2>1, <2>2, <2>3, <2>4, <2>5
<1>5. CASE LoopRound(w)
  <2> USE <1>5 DEF LoopRound, At
  <2>1. TypeOK'
    BY DEF TypeOK
  <2>2. HandedOver'
    BY <1>0 DEF HandedOver
  <2>3. StartedInTurn'
    BY <1>0 DEF StartedInTurn
  <2>4. EndedInTurn'
    BY <1>0 DEF EndedInTurn
  <2>5. DealtInTurn'
    BY DEF DealtInTurn
  <2> QED
    BY <2>1, <2>2, <2>3, <2>4, <2>5
<1>6. CASE EndThread(w)
  <2> USE <1>6 DEF EndThread, At
  <2>1. TypeOK'
    BY DEF TypeOK
  <2>2. HandedOver'
    BY <1>0 DEF HandedOver, TypeOK
  <2>3. StartedInTurn'
    BY <1>0 DEF StartedInTurn
  <2>4. EndedInTurn'
    BY <1>0 DEF EndedInTurn
  <2>5. DealtInTurn'
    BY DEF DealtInTurn
  <2> QED
    BY <2>1, <2>2, <2>3, <2>4, <2>5
<1> QED
  BY <1>1, <1>2, <1>3, <1>4, <1>5, <1>6 DEF WorkerStep

-----------------------------------------------------------------------------
\* A step that leaves the pool alone keeps the invariant.
LEMMA PoolStutterOk == PoolInv /\ UNCHANGED vars => PoolInv'
BY DEF vars, ownerVars, workerVars, PoolInv, TypeOK, HandedOver, StartedInTurn, EndedInTurn, DealtInTurn

\* One step of any thread keeps the invariant.
LEMMA PoolStepOk == PoolInv /\ [Next]_vars => PoolInv'
<1> SUFFICES ASSUME PoolInv, [Next]_vars PROVE PoolInv'
  OBVIOUS
<1>1. CASE StartStep
  BY <1>1, StartOk
<1>2. CASE GetNextLoop
  BY <1>2, DealOk
<1>3. CASE EndStep
  BY <1>3, EndOk
<1>4. CASE \E w \in Workers : WorkerStep(w) \/ LoopRound(w)
  BY <1>4, WorkerOk
<1>5. CASE UNCHANGED vars
  BY <1>5, PoolStutterOk
<1> QED
  BY <1>1, <1>2, <1>3, <1>4, <1>5 DEF Next, OwnerStep, StartStep, EndStep

\* PoolInv holds in every reachable state.
THEOREM PoolInvariance == Spec => []PoolInv
<1>1. Init => PoolInv
  BY PoolInitOk
<1>2. PoolInv /\ [Next]_vars => PoolInv'
  BY PoolStepOk
<1> QED
  BY <1>1, <1>2, PTL DEF Spec

\* getNextLoop deals evenly (EventLoopThreadPool.cc:37-52), for any number of
\* threads and of connections.
THEOREM DealsEvenly == Spec => []Balanced
<1>1. PoolInv => Balanced
  <2> SUFFICES ASSUME PoolInv, owner = "serve"
               PROVE /\ \A v, w \in 1..numThreads_ : assigned[v] <= assigned[w] + 1
                     /\ numThreads_ > 0 => assigned[BaseLoop] = 0
    BY DEF Balanced
  <2> USE DEF PoolInv
  <2>1. Len(loops_) = numThreads_ /\ numThreads_ \in Nat
    BY DEF DealtInTurn, TypeOK, Starting
  <2>2. PICK q \in 0..MaxAssign : \A w \in 1..numThreads_ : assigned[w] = IF w <= next_ THEN q + 1 ELSE q
    BY <2>1 DEF DealtInTurn
  <2>3. \A v, w \in 1..numThreads_ : assigned[v] <= assigned[w] + 1
    <3>1. q \in Nat
      BY PoolAssumption
    <3> QED
      BY <2>2, <3>1
  <2>4. numThreads_ > 0 => assigned[BaseLoop] = 0
    BY <2>1, EmptySeq DEF DealtInTurn, TypeOK
  <2> QED
    BY <2>3, <2>4
<1> QED
  BY <1>1, PoolInvariance, PTL

\* No worker outlives its EventLoopThread (EventLoopThread.cc:15-23), whether or
\* not the owner waits before it destroys the pool.
THEOREM WorkersJoined == Spec => []JoinedBeforeGone
<1>1. PoolInv => JoinedBeforeGone
  BY DEF PoolInv, EndedInTurn, JoinedBeforeGone
<1> QED
  BY <1>1, PoolInvariance, PTL

=============================================================================
