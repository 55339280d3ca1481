-------------------------- MODULE TcpServerProofs --------------------------
(***************************************************************************)
(* Proofs about TcpServer, for any number of threads, connections and      *)
(* descriptors: every step of the server is a step of its thread pool or   *)
(* leaves the pool alone, and no channel stays behind in a poller.         *)
(***************************************************************************)
EXTENDS TcpServer, EventLoopThreadPoolProofs

-----------------------------------------------------------------------------
(***************************************************************************)
(* The server and the pool                                                 *)
(***************************************************************************)

\* A step of the server is a step of the pool, or none.
LEMMA PoolStep == [ServerNext]_allVars => [Next]_vars
<1> SUFFICES ASSUME [ServerNext]_allVars PROVE [Next]_vars
  OBVIOUS
<1>1. CASE \E n \in 0..MaxThreads : Start(n)
  BY <1>1 DEF Start, Next
<1>2. CASE BaseStep
  BY <1>2 DEF BaseStep, PoolStarts, Listen, RunBaseFunctor, CloseOne, DestroyPool, PoolEnds, Gone, Next, OwnerStep
<1>3. CASE WaitReturns \/ Arrive \/ Accept \/ AcceptFails \/ StopBase
  BY <1>3 DEF WaitReturns, Arrive, Accept, AcceptFails, StopBase, Next, allVars
<1>4. CASE \E w \in Workers : WorkerThread(w) \/ Round(w)
  BY <1>4 DEF WorkerThread, WorkerSteps, WorkerEnds, Round, Next, WorkerStep
<1>5. CASE \E n \in Conns : HangUp(n)
  BY <1>5 DEF HangUp, CloseBase, CloseAt
<1>6. CASE UNCHANGED allVars
  BY <1>6 DEF allVars
<1> QED
  BY <1>1, <1>2, <1>3, <1>4, <1>5, <1>6 DEF ServerNext

\* The server uses its pool as EventLoopThreadPool allows (TcpServer.cc:15-51):
\* everything proved of the pool holds inside the server.
THEOREM UsesPool == ServerSpec => Spec
<1>1. ServerInit => Init
  BY DEF ServerInit
<1> QED
  BY <1>1, PoolStep, PTL DEF ServerSpec, Spec

-----------------------------------------------------------------------------
(***************************************************************************)
(* Queues of functors                                                      *)
(***************************************************************************)
\* Nothing is queued in an empty queue.
LEMMA TargetsEmpty == ASSUME NEW op PROVE Targets(<<>>, op) = {}
BY DEF Targets

\* The connections of a single functor.
LEMMA TargetsOne ==
  ASSUME NEW f \in Functors, NEW op
  PROVE  Targets(<<f>>, op) = IF f.op = op THEN {f.conn} ELSE {}
BY DEF Targets, Functors

\* What a push adds.
LEMMA TargetsAppend ==
  ASSUME NEW fs \in Seq(Functors), NEW f \in Functors, NEW op
  PROVE  Targets(Append(fs, f), op) = Targets(fs, op) \cup (IF f.op = op THEN {f.conn} ELSE {})
<1> DEFINE gs == Append(fs, f)
<1>1. /\ gs \in Seq(Functors) /\ Len(gs) = Len(fs) + 1 /\ Len(fs) \in Nat
      /\ \A i \in 1..Len(fs) : gs[i] = fs[i]
      /\ gs[Len(fs) + 1] = f
  BY AppendProperties, LenProperties
<1> HIDE DEF gs
<1>2. \A n : n \in Targets(gs, op) <=> \E i \in 1..Len(gs) : gs[i].op = op /\ gs[i].conn = n
  BY DEF Targets
<1>3. \A n : n \in Targets(fs, op) <=> \E i \in 1..Len(fs) : fs[i].op = op /\ fs[i].conn = n
  BY DEF Targets
<1>4. ASSUME NEW n PROVE n \in Targets(gs, op) <=> n \in Targets(fs, op) \/ (f.op = op /\ f.conn = n)
  <2>1. (\E i \in 1..Len(gs) : gs[i].op = op /\ gs[i].conn = n)
          <=> \/ \E i \in 1..Len(fs) : fs[i].op = op /\ fs[i].conn = n
              \/ f.op = op /\ f.conn = n
    BY <1>1
  <2> QED
    BY <2>1, <1>2, <1>3
<1> QED
  BY <1>4 DEF gs

\* What running the first functor takes away.
LEMMA TargetsTail ==
  ASSUME NEW fs \in Seq(Functors), fs # <<>>, NEW op
  PROVE  /\ Tail(fs) \in Seq(Functors) /\ Head(fs) \in Functors
         /\ Targets(Tail(fs), op) \subseteq Targets(fs, op)
         /\ \A n \in Targets(fs, op) :
              n \in Targets(Tail(fs), op) \/ (Head(fs).op = op /\ Head(fs).conn = n)
         /\ Head(fs).conn \in Targets(fs, Head(fs).op)
<1> DEFINE gs == Tail(fs)
<1>1. /\ gs \in Seq(Functors) /\ Len(gs) = Len(fs) - 1 /\ Len(fs) \in Nat \ {0}
      /\ \A i \in 1..Len(gs) : gs[i] = fs[i + 1]
      /\ Head(fs) = fs[1] /\ Head(fs) \in Functors
  BY HeadTailProperties, LenProperties, EmptySeq
<1> HIDE DEF gs
<1>2. \A n : n \in Targets(gs, op) <=> \E i \in 1..Len(gs) : gs[i].op = op /\ gs[i].conn = n
  BY DEF Targets
<1>3. \A n : n \in Targets(fs, op) <=> \E i \in 1..Len(fs) : fs[i].op = op /\ fs[i].conn = n
  BY DEF Targets
<1>4. Targets(gs, op) \subseteq Targets(fs, op)
  <2> SUFFICES ASSUME NEW n \in Targets(gs, op) PROVE n \in Targets(fs, op)
    OBVIOUS
  <2>1. PICK i \in 1..Len(gs) : gs[i].op = op /\ gs[i].conn = n
    BY <1>2
  <2>2. i + 1 \in 1..Len(fs) /\ fs[i + 1] = gs[i]
    BY <1>1
  <2> QED
    BY <2>1, <2>2, <1>3
<1>5. ASSUME NEW n \in Targets(fs, op)
      PROVE n \in Targets(gs, op) \/ (Head(fs).op = op /\ Head(fs).conn = n)
  <2>1. PICK i \in 1..Len(fs) : fs[i].op = op /\ fs[i].conn = n
    BY <1>3
  <2>2. CASE i = 1
    BY <2>1, <2>2, <1>1
  <2>3. CASE i # 1
    <3>1. i - 1 \in 1..Len(gs) /\ gs[i - 1] = fs[i]
      BY <2>3, <1>1
    <3> QED
      BY <3>1, <2>1, <1>2
  <2> QED
    BY <2>2, <2>3
<1>6. Head(fs).conn \in Targets(fs, Head(fs).op)
  BY <1>1 DEF Targets
<1> QED
  BY <1>1, <1>4, <1>5, <1>6 DEF gs

\* The queues hs are the queues gs with functor f pushed in loop l, and what that
\* means for the connections they are about.
Pushed(gs, hs, l, f) ==
  /\ gs \in [Loops -> Seq(Functors)] /\ l \in Loops /\ f \in Functors
  /\ hs = [gs EXCEPT ![l] = Append(@, f)]

Grown(gs, hs, l, f) ==
  /\ hs \in [Loops -> Seq(Functors)]
  /\ \A k \in Loops : \A op, m :
       m \in Targets(hs[k], op) <=> m \in Targets(gs[k], op) \/ (k = l /\ f.op = op /\ f.conn = m)

\* queueInLoop of a functor.
LEMMA PushOk == ASSUME NEW gs, NEW hs, NEW l, NEW f, Pushed(gs, hs, l, f) PROVE Grown(gs, hs, l, f)
<1>1. /\ gs \in [Loops -> Seq(Functors)] /\ l \in Loops /\ f \in Functors
      /\ hs = [gs EXCEPT ![l] = Append(@, f)]
  BY DEF Pushed
<1>2. hs \in [Loops -> Seq(Functors)]
  <2>1. Append(gs[l], f) \in Seq(Functors)
    BY <1>1, AppendProperties
  <2> QED
    BY <1>1, <2>1
<1>3. ASSUME NEW k \in Loops, NEW op, NEW m
      PROVE m \in Targets(hs[k], op) <=> m \in Targets(gs[k], op) \/ (k = l /\ f.op = op /\ f.conn = m)
  <2>1. CASE k = l
    <3>1. hs[k] = Append(gs[k], f) /\ gs[k] \in Seq(Functors)
      BY <2>1, <1>1
    <3>2. Targets(hs[k], op) = Targets(gs[k], op) \cup (IF f.op = op THEN {f.conn} ELSE {})
      BY <3>1, <1>1, TargetsAppend
    <3> QED
      BY <3>2, <2>1
  <2>2. CASE k # l
    BY <2>2, <1>1
  <2> QED
    BY <2>1, <2>2
<1> QED
  BY <1>2, <1>3 DEF Grown

\* A batch of functors leaves states of connections behind.
LEMMA RunOk ==
  ASSUME NEW fs \in Seq(Functors), RunConnFunctors(fs),
         state_ \in [Conns -> ConnStates]
  PROVE  /\ state_' \in [Conns -> ConnStates]
         /\ registered' = (registered \cup Targets(fs, "connectEstablished")) \ Targets(fs, "connectDestroyed")
BY DEF RunConnFunctors, ConnStates

-----------------------------------------------------------------------------
(***************************************************************************)
(* Steps that leave the connections alone                                  *)
(***************************************************************************)

\* A thread that has ended stays so.
LEMMA DoneStays ==
  ASSUME PoolInv, [Next]_vars, NEW w \in Workers, pc[w] = "done"
  PROVE  pc'[w] = "done"
<1> USE PoolAssumption DEF Workers
<1>0. pc \in [Workers -> {"none", "init", "publish", "enter", "check", "poll", "ended", "done"}]
  BY DEF PoolInv, TypeOK
<1>1. CASE StartThread
  <2>1. pc[cur] = "none" /\ pc' = [pc EXCEPT ![cur] = "init"]
    BY <1>1 DEF StartThread, PoolInv, StartedInTurn, TypeOK, Starting
  <2> QED
    BY <2>1, <1>0
<1>2. CASE \E v \in Workers : WorkerStep(v) \/ LoopRound(v)
  BY <1>0, <1>2 DEF WorkerStep, LoopRound, InitLoop, Publish, EnterLoop, LoopCheck, EndThread, At
<1>3. CASE UNCHANGED pc
  BY <1>3
<1>4. CASE Next /\ ~StartThread /\ ~(\E v \in Workers : WorkerStep(v) \/ LoopRound(v))
  <2>1. UNCHANGED pc
    BY <1>4 DEF Next, OwnerStep, SetThreadNum, StartLoopCheck, SpuriousWakeup, StartDone, GetNextLoop,
         BeginDestroy, DtorCheck, DtorQuit, DtorWakeup, DtorJoin, DtorDone, workerVars
  <2> QED
    BY <2>1
<1> QED
  BY <1>1, <1>2, <1>3, <1>4 DEF vars, workerVars

\* Steps of the pool and of the acceptor.
LEMMA QuietOk ==
  ASSUME ServerInv, PoolInv', \A w \in Workers : pc[w] = "done" => pc'[w] = "done",
         UNCHANGED <<connVars, nextConnId_>>, polled' \subseteq Workers,
         server' \in {"new", "starting", "serving", "stopped", "pool", "gone"},
         server = "gone" => server' = "gone",
         listenning_' \in BOOLEAN, backlog' \in 0..(MaxConns + 1 - nextConnId_)
  PROVE  ServerInv'
<1> USE DEF connVars
<1>1. ServerTypeOK'
  BY DEF ServerInv, ServerTypeOK, PoolInv
<1>2. Placed'
  BY DEF ServerInv, Placed
<1>3. Filed'
  BY DEF ServerInv, Filed, Held
<1> QED
  BY <1>1, <1>2, <1>3 DEF ServerInv

-----------------------------------------------------------------------------
(***************************************************************************)
(* Steps that create, close and remove connections                         *)
(***************************************************************************)

\* getNextLoop returns the base loop or the loop of a worker.
LEMMA NextLoopOk == PoolInv => NextLoop \in Loops
<1> SUFFICES ASSUME PoolInv PROVE NextLoop \in Loops
  OBVIOUS
<1> USE PoolAssumption DEF PoolInv, Workers, BaseLoop, Loops
<1>1. loops_ \in Seq(Workers) /\ Len(loops_) \in Nat /\ (loops_ # <<>> => Len(loops_) > 0)
  BY LenProperties, EmptySeq DEF TypeOK
<1>2. CASE loops_ = <<>>
  BY <1>2 DEF NextLoop
<1>3. CASE loops_ # <<>>
  <2>1. next_ + 1 \in 1..Len(loops_)
    BY <1>1, <1>3 DEF TypeOK
  <2>2. loops_[next_ + 1] \in Workers
    BY <1>1, <2>1, ElementOfSeq
  <2> QED
    BY <1>3, <2>2 DEF NextLoop
<1> QED
  BY <1>2, <1>3

\* newConnection: the connection is filed before its loop hears of it
\* (TcpServer.cc:56-107).
LEMMA AcceptOk ==
  ASSUME ServerInv, PoolInv', Accept, \A w \in Workers : pc[w] = "done" => pc'[w] = "done"
  PROVE  ServerInv'
<1>0. PICK n, l, f : n = nextConnId_ /\ l = NextLoop /\ f = Functor("connectEstablished", n)
  OBVIOUS
<1>1. /\ functors \in [Loops -> Seq(Functors)] /\ ioLoop \in [Conns -> Loops]
      /\ connections_ \subseteq 1..(n - 1) /\ registered \subseteq 1..(n - 1)
      /\ state_ \in [Conns -> ConnStates] /\ PoolInv /\ Placed /\ Filed
  BY <1>0 DEF ServerInv, ServerTypeOK
<1>2. /\ nextConnId_' = n + 1
      /\ connections_' = connections_ \cup {n}
      /\ ioLoop' = [ioLoop EXCEPT ![n] = l]
      /\ RunInLoop(l, f)
      /\ backlog' = backlog - 1 /\ backlog > 0
      /\ server' = server /\ listenning_' = listenning_ /\ polled' = polled
  BY <1>0 DEF Accept, Readable
<1>3. /\ n \in Conns /\ n \in Nat /\ 1..(n - 1) \subseteq Conns
      /\ n + 1 \in 1..(MaxConns + 1) /\ backlog - 1 \in 0..(MaxConns + 1 - (n + 1))
      /\ 1..((n + 1) - 1) = 1..(n - 1) \cup {n} /\ n \notin 1..(n - 1)
  <2>1. n \in 1..(MaxConns + 1) /\ backlog \in 0..(MaxConns + 1 - n)
    BY <1>0 DEF ServerInv, ServerTypeOK
  <2> QED
    BY <2>1, <1>2, ServerAssumption DEF Conns
<1>4. l \in Loops
  BY <1>0, <1>1, NextLoopOk
<1>5. f \in Functors /\ f.op = "connectEstablished" /\ f.conn = n
  BY <1>0, <1>3 DEF Functor, Functors, Ops
<1>11. \A k \in Loops :
         /\ \A op \in Ops : Targets(functors[k], op) \subseteq 1..(n - 1)
         /\ \A m \in Targets(functors[k], "connectEstablished") : k # BaseLoop /\ ioLoop[m] = k
         /\ \A m \in Targets(functors[k], "connectDestroyed") : ioLoop[m] = k
         /\ k # BaseLoop => Targets(functors[k], "removeConnectionInLoop") = {}
  BY <1>0, <1>1 DEF Placed
<1>12. "connectEstablished" \in Ops /\ "connectDestroyed" \in Ops /\ "removeConnectionInLoop" \in Ops
  BY DEF Ops
<1>13. \A m \in 1..(n - 1) \cup {n} : m \in 1..(nextConnId_' - 1)
  BY <1>2, <1>3
<1>6. /\ \A m \in 1..(n - 1) : ioLoop'[m] = ioLoop[m]
      /\ ioLoop'[n] = l /\ ioLoop' \in [Conns -> Loops]
  BY <1>1, <1>2, <1>3, <1>4
<1>7. Held(n)'
  BY <1>2 DEF Held
<1>8. /\ TypeOK'
      /\ server' \in {"new", "starting", "serving", "stopped", "pool", "gone"}
      /\ listenning_' \in BOOLEAN /\ polled' \subseteq Workers
      /\ nextConnId_' \in 1..(MaxConns + 1) /\ backlog' \in 0..(MaxConns + 1 - nextConnId_')
      /\ connections_' \subseteq 1..(nextConnId_' - 1)
  <2>1. /\ server \in {"new", "starting", "serving", "stopped", "pool", "gone"}
        /\ listenning_ \in BOOLEAN /\ polled \subseteq Workers
    BY DEF ServerInv, ServerTypeOK
  <2> QED
    BY <1>1, <1>2, <1>3, <2>1 DEF PoolInv
<1>9. CASE l = BaseLoop
  <2>1. RunConnFunctors(<<f>>) /\ functors' = functors
    BY <1>2, <1>9 DEF RunInLoop
  <2>2. /\ Targets(<<f>>, "connectEstablished") = {n} /\ Targets(<<f>>, "connectDestroyed") = {}
    BY <1>5, TargetsOne
  <2>9. <<f>> \in Seq(Functors)
    BY <1>5
  <2>3. registered' = registered \cup {n} /\ state_' \in [Conns -> ConnStates]
    BY <2>1, <2>2, <2>9, <1>1, RunOk
  <2>4. registered' \subseteq 1..(nextConnId_' - 1)
    BY <2>3, <1>1, <1>2, <1>3
  <2>5. ServerTypeOK'
    BY <1>1, <1>6, <1>8, <2>1, <2>3, <2>4 DEF ServerTypeOK
  <2>6. Placed'
    BY <1>6, <1>11, <1>12, <1>13, <2>1 DEF Placed
  <2>7. ASSUME NEW m \in 1..(n - 1), Held(m) PROVE Held(m)'
    BY <2>7, <1>2, <1>6, <2>1 DEF Held
  <2>8. Filed'
    BY <1>1, <1>7, <1>11, <1>12, <2>1, <2>3, <2>7 DEF Filed
  <2> QED
    BY <2>5, <2>6, <2>8 DEF ServerInv
<1>10. CASE l # BaseLoop
  <2>1. functors' = [functors EXCEPT ![l] = Append(@, f)] /\ state_' = state_ /\ registered' = registered
    BY <1>2, <1>10 DEF RunInLoop, Queue
  <2>2. /\ functors' \in [Loops -> Seq(Functors)]
        /\ \A k \in Loops : \A op, m :
             m \in Targets(functors'[k], op) <=> m \in Targets(functors[k], op) \/ (k = l /\ f.op = op /\ f.conn = m)
    <3>1. Pushed(functors, functors', l, f)
      BY <2>1, <1>1, <1>4, <1>5 DEF Pushed
    <3>2. Grown(functors, functors', l, f)
      BY <3>1, PushOk
    <3> QED
      BY <3>2 DEF Grown
  <2>3. registered' \subseteq 1..(nextConnId_' - 1)
    BY <2>1, <1>1, <1>2, <1>3
  <2>4. ServerTypeOK'
    BY <1>1, <1>6, <1>8, <2>1, <2>2, <2>3 DEF ServerTypeOK
  <2>5. Placed'
    <3> SUFFICES ASSUME NEW k \in Loops
                 PROVE /\ \A op \in Ops : Targets(functors'[k], op) \subseteq 1..(nextConnId_' - 1)
                       /\ \A m \in Targets(functors'[k], "connectEstablished") : k # BaseLoop /\ ioLoop'[m] = k
                       /\ \A m \in Targets(functors'[k], "connectDestroyed") : ioLoop'[m] = k
                       /\ k # BaseLoop => Targets(functors'[k], "removeConnectionInLoop") = {}
      BY DEF Placed
    <3>1. \A op \in Ops : Targets(functors'[k], op) \subseteq 1..(nextConnId_' - 1)
      <4> SUFFICES ASSUME NEW op \in Ops, NEW m \in Targets(functors'[k], op) PROVE m \in 1..(nextConnId_' - 1)
        OBVIOUS
      <4>1. m \in Targets(functors[k], op) \/ m = n
        BY <1>5, <2>2
      <4> QED
        BY <4>1, <1>11, <1>13
    <3>2. ASSUME NEW m \in Targets(functors'[k], "connectEstablished") PROVE k # BaseLoop /\ ioLoop'[m] = k
      <4>1. m \in Targets(functors[k], "connectEstablished") \/ (k = l /\ m = n)
        BY <1>5, <2>2 DEF Ops
      <4> QED
        BY <4>1, <1>6, <1>10, <1>11, <1>12
    <3>3. ASSUME NEW m \in Targets(functors'[k], "connectDestroyed") PROVE ioLoop'[m] = k
      <4>1. m \in Targets(functors[k], "connectDestroyed")
        BY <1>5, <2>2 DEF Ops
      <4> QED
        BY <4>1, <1>6, <1>11, <1>12
    <3>4. k # BaseLoop => Targets(functors'[k], "removeConnectionInLoop") = {}
      <4>1. Targets(functors'[k], "removeConnectionInLoop") = Targets(functors[k], "removeConnectionInLoop") \cup {}
        BY <1>5, <1>12, <2>2
      <4> QED
        BY <4>1, <1>11
    <3> QED
      BY <3>1, <3>2, <3>3, <3>4
  <2>6. ASSUME NEW m \in 1..(n - 1), Held(m) PROVE Held(m)'
    <3>1. ioLoop[m] \in Loops /\ ioLoop'[m] = ioLoop[m]
      BY <1>1, <1>3, <1>6
    <3>2. Targets(functors[ioLoop[m]], "connectDestroyed") \subseteq Targets(functors'[ioLoop[m]], "connectDestroyed")
      BY <3>1, <2>2 DEF Ops
    <3> QED
      BY <2>6, <3>1, <3>2, <1>2 DEF Held
  <2>7. Filed'
    <3>1. \A m \in registered' : Held(m)'
      BY <1>1, <2>1, <2>6 DEF Filed
    <3>2. ASSUME NEW k \in Loops, NEW m \in Targets(functors'[k], "connectEstablished") PROVE Held(m)'
      <4>1. m \in Targets(functors[k], "connectEstablished") \/ m = n
        BY <1>5, <2>2 DEF Ops
      <4>2. m \in Targets(functors[k], "connectEstablished") => m \in 1..(n - 1) /\ Held(m)
        BY <1>1, <1>11, <1>12 DEF Filed
      <4> QED
        BY <4>1, <4>2, <1>7, <2>6
    <3> QED
      BY <3>1, <3>2 DEF Filed
  <2> QED
    BY <2>4, <2>5, <2>7 DEF ServerInv
<1> QED
  BY <1>9, <1>10

\* Functors are taken out of the queues, and new ones are of known connections
\* and in the right loop: types and places stay.
Settles ==
  /\ UNCHANGED <<ioLoop, nextConnId_>>
  /\ server' \in {"new", "starting", "serving", "stopped", "pool", "gone"}
  /\ listenning_' \in BOOLEAN /\ backlog' \in 0..(MaxConns + 1 - nextConnId_)
  /\ polled' \subseteq Workers
  /\ connections_' \subseteq connections_
  /\ registered' \subseteq 1..(nextConnId_ - 1)
  /\ state_' \in [Conns -> ConnStates]
  /\ functors' \in [Loops -> Seq(Functors)]
  /\ \A k \in Loops : \A op \in Ops : \A m \in Targets(functors'[k], op) :
       \/ m \in Targets(functors[k], op)
       \/ /\ m \in 1..(nextConnId_ - 1)
          /\ \/ op = "connectDestroyed" /\ ioLoop[m] = k
             \/ op = "removeConnectionInLoop" /\ k = BaseLoop

\* Such a step keeps the invariant, if what is registered stays held.
LEMMA SettleOk ==
  ASSUME ServerInv, PoolInv', Settles, Filed'
  PROVE  ServerInv'
<1>1. ServerTypeOK'
  <2>1. TypeOK'
    BY DEF PoolInv
  <2>2. nextConnId_' = nextConnId_ /\ nextConnId_ \in 1..(MaxConns + 1) /\ ioLoop' \in [Conns -> Loops]
    BY DEF ServerInv, ServerTypeOK, Settles
  <2>3. connections_' \subseteq 1..(nextConnId_ - 1)
    BY DEF ServerInv, ServerTypeOK, Settles
  <2> QED
    BY <2>1, <2>2, <2>3 DEF Settles, ServerTypeOK
<1>2. Placed'
  <2>1. "connectEstablished" \in Ops /\ "connectDestroyed" \in Ops /\ "removeConnectionInLoop" \in Ops
    BY DEF Ops
  <2> SUFFICES ASSUME NEW k \in Loops
               PROVE /\ \A op \in Ops : Targets(functors'[k], op) \subseteq 1..(nextConnId_ - 1)
                     /\ \A n \in Targets(functors'[k], "connectEstablished") : k # BaseLoop /\ ioLoop[n] = k
                     /\ \A n \in Targets(functors'[k], "connectDestroyed") : ioLoop[n] = k
                     /\ k # BaseLoop => Targets(functors'[k], "removeConnectionInLoop") = {}
    BY DEF Placed, Settles
  <2>2. /\ \A op \in Ops : Targets(functors[k], op) \subseteq 1..(nextConnId_ - 1)
        /\ \A n \in Targets(functors[k], "connectEstablished") : k # BaseLoop /\ ioLoop[n] = k
        /\ \A n \in Targets(functors[k], "connectDestroyed") : ioLoop[n] = k
        /\ k # BaseLoop => Targets(functors[k], "removeConnectionInLoop") = {}
    BY DEF ServerInv, Placed
  <2>3. \A op \in Ops : \A m \in Targets(functors'[k], op) :
          \/ m \in Targets(functors[k], op)
          \/ /\ m \in 1..(nextConnId_ - 1)
             /\ \/ op = "connectDestroyed" /\ ioLoop[m] = k
                \/ op = "removeConnectionInLoop" /\ k = BaseLoop
    BY DEF Settles
  <2> QED
    BY <2>1, <2>2, <2>3
<1> QED
  BY <1>1, <1>2 DEF ServerInv

\* What every step below starts from.
LEMMA ServerTypes ==
  ASSUME ServerInv
  PROVE  /\ functors \in [Loops -> Seq(Functors)] /\ ioLoop \in [Conns -> Loops]
         /\ connections_ \subseteq 1..(nextConnId_ - 1) /\ registered \subseteq 1..(nextConnId_ - 1)
         /\ 1..(nextConnId_ - 1) \subseteq Conns
         /\ state_ \in [Conns -> ConnStates]
         /\ server \in {"new", "starting", "serving", "stopped", "pool", "gone"}
         /\ listenning_ \in BOOLEAN /\ backlog \in 0..(MaxConns + 1 - nextConnId_)
         /\ polled \subseteq Workers
<1>1. nextConnId_ \in 1..(MaxConns + 1)
  BY DEF ServerInv, ServerTypeOK
<1>2. 1..(nextConnId_ - 1) \subseteq Conns
  BY <1>1, ServerAssumption DEF Conns
<1> QED
  BY <1>2 DEF ServerInv, ServerTypeOK

\* removeConnectionInLoop takes the connection out of connections_ and sends
\* connectDestroyed after it (TcpServer.cc:116-126); gs is what was queued.
LEMMA RemoveOk ==
  ASSUME ServerInv, PoolInv', UNCHANGED <<pc, server, acceptVars, ioLoop, registered, polled>>,
         state_' \in [Conns -> ConnStates],
         NEW n \in 1..(nextConnId_ - 1), NEW gs \in [Loops -> Seq(Functors)],
         RemoveConnectionInLoop(n, gs),
         \A k \in Loops : \A op : Targets(gs[k], op) \subseteq Targets(functors[k], op),
         \A k \in Loops : Targets(functors[k], "connectDestroyed") \subseteq Targets(gs[k], "connectDestroyed")
  PROVE  ServerInv'
<1>0. PICK f : f = Functor("connectDestroyed", n)
  OBVIOUS
<1>1. n \in Conns /\ ioLoop[n] \in Loops /\ \A m \in 1..(nextConnId_ - 1) : ioLoop[m] \in Loops
  BY ServerTypes
<1>2. f \in Functors /\ f.op = "connectDestroyed" /\ f.conn = n
  BY <1>0, <1>1 DEF Functor, Functors, Ops
<1>3. connections_' = connections_ \ {n} /\ Pushed(gs, functors', ioLoop[n], f)
  BY <1>0, <1>1, <1>2 DEF RemoveConnectionInLoop, Pushed
<1>4. /\ functors' \in [Loops -> Seq(Functors)]
      /\ \A k \in Loops : \A op, m :
           m \in Targets(functors'[k], op) <=>
             m \in Targets(gs[k], op) \/ (k = ioLoop[n] /\ op = "connectDestroyed" /\ m = n)
  <2>1. Grown(gs, functors', ioLoop[n], f)
    BY <1>3, PushOk
  <2> QED
    BY <2>1, <1>2 DEF Grown
<1>5. Settles
  BY <1>1, <1>3, <1>4, ServerTypes DEF Settles, acceptVars
<1>6. ASSUME NEW m \in 1..(nextConnId_ - 1), Held(m) PROVE Held(m)'
  <2>1. m \in connections_ => m \in connections_' \/ m \in Targets(functors'[ioLoop[m]], "connectDestroyed")
    BY <1>1, <1>3, <1>4
  <2>2. m \in Targets(functors[ioLoop[m]], "connectDestroyed") => m \in Targets(functors'[ioLoop[m]], "connectDestroyed")
    BY <1>1, <1>4
  <2> QED
    BY <1>6, <2>1, <2>2 DEF Held
<1>7. Filed'
  <2>1. \A m \in registered' : Held(m)'
    BY <1>6, ServerTypes DEF ServerInv, Filed
  <2>2. ASSUME NEW k \in Loops, NEW m \in Targets(functors'[k], "connectEstablished") PROVE Held(m)'
    <3>1. m \in Targets(functors[k], "connectEstablished")
      BY <1>4
    <3>2. m \in 1..(nextConnId_ - 1) /\ Held(m)
      BY <3>1 DEF ServerInv, Filed, Placed, Ops
    <3> QED
      BY <3>2, <1>6
  <2> QED
    BY <2>1, <2>2 DEF Filed
<1> QED
  BY <1>5, <1>7, SettleOk

\* CloseBase: the client of a connection in the base loop hangs up.
LEMMA CloseBaseOk ==
  ASSUME ServerInv, PoolInv', NEW n \in Conns, CloseBase(n)
  PROVE  ServerInv'
<1>1. n \in 1..(nextConnId_ - 1) /\ functors \in [Loops -> Seq(Functors)]
  BY ServerTypes DEF CloseBase, Open
<1>2. state_' \in [Conns -> ConnStates]
  BY ServerTypes DEF CloseBase, ConnStates
<1>3. UNCHANGED <<pc, server, acceptVars, ioLoop, registered, polled>> /\ RemoveConnectionInLoop(n, functors)
  BY DEF CloseBase, vars, workerVars
<1> QED
  BY <1>1, <1>2, <1>3, RemoveOk

\* CloseAt: the client of a connection in a worker's loop hangs up.
LEMMA CloseAtOk ==
  ASSUME ServerInv, PoolInv', NEW w \in Workers, NEW n \in Conns, CloseAt(w, n)
  PROVE  ServerInv'
<1>0. PICK f : f = Functor("removeConnectionInLoop", n)
  OBVIOUS
<1>1. n \in 1..(nextConnId_ - 1)
  BY ServerTypes DEF CloseAt, Open
<1>2. BaseLoop \in Loops /\ f \in Functors /\ f.op = "removeConnectionInLoop" /\ f.conn = n
  BY <1>0, PoolAssumption DEF Functor, Functors, Ops, BaseLoop, Loops
<1>3. /\ UNCHANGED <<pc, server, acceptVars, connections_, ioLoop, registered>>
      /\ functors' = [functors EXCEPT ![BaseLoop] = Append(@, f)]
      /\ polled' = polled \cup {w}
      /\ state_' = [state_ EXCEPT ![n] = "kDisconnected"]
  BY <1>0 DEF CloseAt, Queue, vars, workerVars
<1>4. /\ functors' \in [Loops -> Seq(Functors)]
      /\ \A k \in Loops : \A op, m :
           m \in Targets(functors'[k], op) <=>
             m \in Targets(functors[k], op) \/ (k = BaseLoop /\ op = "removeConnectionInLoop" /\ m = n)
  <2>1. Pushed(functors, functors', BaseLoop, f)
    BY <1>2, <1>3, ServerTypes DEF Pushed
  <2>2. Grown(functors, functors', BaseLoop, f)
    BY <2>1, PushOk
  <2> QED
    BY <2>2, <1>2 DEF Grown
<1>5. Settles
  <2>1. state_' \in [Conns -> ConnStates] /\ polled' \subseteq Workers
    BY <1>3, ServerTypes DEF ConnStates
  <2> QED
    BY <2>1, <1>1, <1>3, <1>4, ServerTypes DEF Settles, acceptVars
<1>6. ASSUME NEW m \in 1..(nextConnId_ - 1), Held(m) PROVE Held(m)'
  <2>1. ioLoop[m] \in Loops
    BY ServerTypes
  <2>2. m \in Targets(functors[ioLoop[m]], "connectDestroyed") => m \in Targets(functors'[ioLoop[m]], "connectDestroyed")
    BY <2>1, <1>4
  <2> QED
    BY <1>6, <2>2, <1>3 DEF Held
<1>7. Filed'
  <2>1. \A m \in registered' : Held(m)'
    BY <1>3, <1>6, ServerTypes DEF ServerInv, Filed
  <2>2. ASSUME NEW k \in Loops, NEW m \in Targets(functors'[k], "connectEstablished") PROVE Held(m)'
    <3>1. m \in Targets(functors[k], "connectEstablished")
      BY <1>4
    <3>2. m \in 1..(nextConnId_ - 1) /\ Held(m)
      BY <3>1 DEF ServerInv, Filed, Placed, Ops
    <3> QED
      BY <3>2, <1>6
  <2> QED
    BY <2>1, <2>2 DEF Filed
<1> QED
  BY <1>5, <1>7, SettleOk

\* The base loop runs a functor: removeConnectionInLoop or connectDestroyed.
LEMMA BaseFunctorOk ==
  ASSUME ServerInv, PoolInv', RunBaseFunctor
  PROVE  ServerInv'
<1>0. PICK f, rest : f = Head(functors[BaseLoop]) /\ rest = [functors EXCEPT ![BaseLoop] = Tail(@)]
  OBVIOUS
<1>1. /\ functors[BaseLoop] # <<>>
      /\ UNCHANGED <<pc, server, acceptVars, ioLoop, polled>>
      /\ \/ /\ f.op = "removeConnectionInLoop"
            /\ RemoveConnectionInLoop(f.conn, rest) /\ UNCHANGED <<state_, registered>>
         \/ /\ f.op = "connectDestroyed"
            /\ RunConnFunctors(<<f>>) /\ functors' = rest /\ connections_' = connections_
  BY <1>0 DEF RunBaseFunctor, vars, workerVars
<1>2. BaseLoop \in Loops /\ functors[BaseLoop] \in Seq(Functors)
  BY ServerTypes, PoolAssumption DEF BaseLoop, Loops
<1>3. /\ Tail(functors[BaseLoop]) \in Seq(Functors) /\ f \in Functors
      /\ f.conn \in Targets(functors[BaseLoop], f.op)
      /\ \A op : Targets(Tail(functors[BaseLoop]), op) \subseteq Targets(functors[BaseLoop], op)
      /\ \A op : \A m \in Targets(functors[BaseLoop], op) :
           m \in Targets(Tail(functors[BaseLoop]), op) \/ (f.op = op /\ f.conn = m)
  BY <1>0, <1>1, <1>2, TargetsTail
<1>4. rest \in [Loops -> Seq(Functors)]
  BY <1>0, <1>2, <1>3, ServerTypes
<1>5. /\ rest[BaseLoop] = Tail(functors[BaseLoop])
      /\ \A k \in Loops : k # BaseLoop => rest[k] = functors[k]
  BY <1>0, <1>2, ServerTypes
<1>6. \A k \in Loops : \A op : Targets(rest[k], op) \subseteq Targets(functors[k], op)
  BY <1>3, <1>5
<1>7. f.conn \in 1..(nextConnId_ - 1)
  BY <1>1, <1>2, <1>3 DEF ServerInv, Placed, Ops
<1>8. CASE f.op = "removeConnectionInLoop"
  <2>1. RemoveConnectionInLoop(f.conn, rest) /\ UNCHANGED <<state_, registered>>
    BY <1>1, <1>8
  <2>2. \A k \in Loops : Targets(functors[k], "connectDestroyed") \subseteq Targets(rest[k], "connectDestroyed")
    BY <1>3, <1>5, <1>8
  <2>3. state_' \in [Conns -> ConnStates]
    BY <2>1, ServerTypes
  <2> QED
    BY <1>1, <1>4, <1>6, <1>7, <2>1, <2>2, <2>3, RemoveOk
<1>9. CASE f.op = "connectDestroyed"
  <2>1. RunConnFunctors(<<f>>) /\ functors' = rest /\ connections_' = connections_
    BY <1>1, <1>9
  <2>2. Targets(<<f>>, "connectEstablished") = {} /\ Targets(<<f>>, "connectDestroyed") = {f.conn}
    BY <1>3, <1>9, TargetsOne
  <2>3. <<f>> \in Seq(Functors)
    BY <1>3
  <2>4. registered' = registered \ {f.conn} /\ state_' \in [Conns -> ConnStates]
    BY <2>1, <2>2, <2>3, RunOk, ServerTypes
  <2>5. Settles
    BY <1>1, <1>4, <1>6, <2>1, <2>4, ServerTypes DEF Settles, acceptVars
  <2>6. ASSUME NEW m \in 1..(nextConnId_ - 1), Held(m), m # f.conn PROVE Held(m)'
    <3>1. ioLoop[m] \in Loops
      BY ServerTypes
    <3>2. m \in Targets(functors[ioLoop[m]], "connectDestroyed") => m \in Targets(functors'[ioLoop[m]], "connectDestroyed")
      BY <3>1, <1>3, <1>5, <2>1, <2>6
    <3> QED
      BY <2>6, <3>2, <2>1, <1>1 DEF Held
  <2>7. Filed'
    <3>1. \A m \in registered' : Held(m)'
      BY <2>4, <2>6, ServerTypes DEF ServerInv, Filed
    <3>2. ASSUME NEW k \in Loops, NEW m \in Targets(functors'[k], "connectEstablished") PROVE Held(m)'
      <4>1. m \in Targets(functors[k], "connectEstablished")
        BY <1>6, <2>1
      <4>2. m \in 1..(nextConnId_ - 1) /\ Held(m) /\ k # BaseLoop /\ ioLoop[m] = k
        BY <4>1 DEF ServerInv, Filed, Placed, Ops
      <4>3. ioLoop[f.conn] = BaseLoop
        BY <1>2, <1>3, <1>9 DEF ServerInv, Placed
      <4> QED
        BY <4>2, <4>3, <2>6
    <3> QED
      BY <3>1, <3>2 DEF Filed
  <2> QED
    BY <2>5, <2>7, SettleOk
<1> QED
  BY <1>1, <1>8, <1>9

\* A worker's queue is emptied.
LEMMA EmptiedOk ==
  ASSUME ServerInv, NEW l \in Loops, functors' = [functors EXCEPT ![l] = <<>>]
  PROVE  /\ functors' \in [Loops -> Seq(Functors)]
         /\ \A op : Targets(functors'[l], op) = {}
         /\ \A k \in Loops : k # l => functors'[k] = functors[k]
         /\ \A k \in Loops : \A op : Targets(functors'[k], op) \subseteq Targets(functors[k], op)
<1>1. functors' \in [Loops -> Seq(Functors)] /\ functors'[l] = <<>>
  BY ServerTypes
<1>2. \A op : Targets(functors'[l], op) = {}
  BY <1>1, TargetsEmpty
<1>3. \A k \in Loops : k # l => functors'[k] = functors[k]
  BY ServerTypes
<1> QED
  BY <1>1, <1>2, <1>3

\* A round of a worker's loop runs what was queued for it.
LEMMA RoundOk ==
  ASSUME ServerInv, PoolInv', NEW w \in Workers, Round(w),
         \A v \in Workers : pc[v] = "done" => pc'[v] = "done"
  PROVE  ServerInv'
<1>1. /\ RunConnFunctors(functors[w]) /\ functors' = [functors EXCEPT ![w] = <<>>]
      /\ polled' = polled \ {w} /\ UNCHANGED <<server, acceptVars, connections_, ioLoop>>
  BY DEF Round
<1>2. w \in Loops /\ functors[w] \in Seq(Functors)
  BY PoolAssumption, ServerTypes DEF Workers, Loops
<1>3. /\ functors' \in [Loops -> Seq(Functors)]
      /\ \A op : Targets(functors'[w], op) = {}
      /\ \A k \in Loops : k # w => functors'[k] = functors[k]
      /\ \A k \in Loops : \A op : Targets(functors'[k], op) \subseteq Targets(functors[k], op)
  BY <1>1, <1>2, EmptiedOk
<1>4. /\ registered' = (registered \cup Targets(functors[w], "connectEstablished"))
                       \ Targets(functors[w], "connectDestroyed")
      /\ state_' \in [Conns -> ConnStates]
  BY <1>1, <1>2, RunOk, ServerTypes
<1>5. registered' \subseteq 1..(nextConnId_ - 1)
  BY <1>2, <1>4, ServerTypes DEF ServerInv, Placed, Ops
<1>6. Settles
  BY <1>1, <1>3, <1>4, <1>5, ServerTypes DEF Settles, acceptVars
<1>7. ASSUME NEW m \in 1..(nextConnId_ - 1), Held(m),
             m \in Targets(functors[w], "connectDestroyed") => ioLoop[m] # w
      PROVE  Held(m)'
  <2>1. ioLoop[m] \in Loops
    BY ServerTypes
  <2>2. m \in Targets(functors[ioLoop[m]], "connectDestroyed") => m \in Targets(functors'[ioLoop[m]], "connectDestroyed")
    BY <2>1, <1>3, <1>7
  <2> QED
    BY <1>1, <1>7, <2>2 DEF Held
<1>8. Filed'
  <2>1. ASSUME NEW m \in registered' PROVE Held(m)'
    <3>1. m \in 1..(nextConnId_ - 1) /\ Held(m)
      BY <1>2, <1>4, <1>5 DEF ServerInv, Filed
    <3> QED
      BY <3>1, <1>4, <1>7
  <2>2. ASSUME NEW k \in Loops, NEW m \in Targets(functors'[k], "connectEstablished") PROVE Held(m)'
    <3>1. k # w /\ m \in Targets(functors[k], "connectEstablished")
      BY <1>3
    <3>2. m \in 1..(nextConnId_ - 1) /\ Held(m) /\ ioLoop[m] = k
      BY <3>1 DEF ServerInv, Filed, Placed, Ops
    <3> QED
      BY <3>1, <3>2, <1>7
  <2> QED
    BY <2>1, <2>2 DEF Filed
<1> QED
  BY <1>6, <1>8, SettleOk

\* A worker ends with functors that it did not run: its poller goes with it.
LEMMA WorkerEndsOk ==
  ASSUME ServerInv, PoolInv', NEW w \in Workers, WorkerEnds(w),
         \A v \in Workers : pc[v] = "done" => pc'[v] = "done"
  PROVE  ServerInv'
<1>1. /\ functors' = [functors EXCEPT ![w] = <<>>]
      /\ UNCHANGED <<server, acceptVars, connections_, ioLoop, state_, registered, polled>>
  BY DEF WorkerEnds
<1>2. pc'[w] = "done"
  BY DEF WorkerEnds, EndThread, At, ServerInv, PoolInv, TypeOK
<1>3. w \in Loops
  BY PoolAssumption DEF Workers, Loops
<1>4. /\ functors' \in [Loops -> Seq(Functors)]
      /\ \A k \in Loops : k # w => functors'[k] = functors[k]
      /\ \A k \in Loops : \A op : Targets(functors'[k], op) \subseteq Targets(functors[k], op)
  BY <1>1, <1>3, EmptiedOk
<1>5. Settles
  BY <1>1, <1>4, ServerTypes DEF Settles, acceptVars
<1>6. ASSUME NEW m \in 1..(nextConnId_ - 1), Held(m) PROVE Held(m)'
  <2>1. ioLoop[m] \in Loops
    BY ServerTypes
  <2>2. CASE ioLoop[m] = w
    BY <2>2, <1>1, <1>2 DEF Held
  <2>3. CASE ioLoop[m] # w
    <3>1. functors'[ioLoop[m]] = functors[ioLoop[m]]
      BY <2>1, <2>3, <1>4
    <3> QED
      BY <3>1, <1>1, <1>6 DEF Held
  <2> QED
    BY <2>2, <2>3
<1>7. Filed'
  <2>1. \A m \in registered' : Held(m)'
    BY <1>1, <1>6, ServerTypes DEF ServerInv, Filed
  <2>2. ASSUME NEW k \in Loops, NEW m \in Targets(functors'[k], "connectEstablished") PROVE Held(m)'
    <3>1. m \in Targets(functors[k], "connectEstablished")
      BY <1>4
    <3>2. m \in 1..(nextConnId_ - 1) /\ Held(m)
      BY <3>1 DEF ServerInv, Filed, Placed, Ops
    <3> QED
      BY <3>2, <1>6
  <2> QED
    BY <2>1, <2>2 DEF Filed
<1> QED
  BY <1>5, <1>7, SettleOk

\* ~TcpServer lets go of a connection (TcpServer.cc:32-42).
LEMMA CloseOneOk ==
  ASSUME ServerInv, PoolInv', CloseOne
  PROVE  ServerInv'
<1>0. PICK n \in connections_ :
        connections_' = connections_ \ {n} /\ RunInLoop(ioLoop[n], Functor("connectDestroyed", n))
  BY DEF CloseOne
<1>1. n \in 1..(nextConnId_ - 1) /\ n \in Conns /\ ioLoop[n] \in Loops
  BY ServerTypes
<1>2. UNCHANGED <<pc, server, acceptVars, ioLoop, polled>>
  BY DEF CloseOne, vars, workerVars
<1>3. CASE ioLoop[n] # BaseLoop
  <2>1. RemoveConnectionInLoop(n, functors) /\ UNCHANGED <<state_, registered>>
    BY <1>0, <1>3 DEF RunInLoop, Queue, RemoveConnectionInLoop
  <2>2. functors \in [Loops -> Seq(Functors)] /\ state_' \in [Conns -> ConnStates]
    BY <2>1, ServerTypes
  <2> QED
    BY <1>1, <1>2, <2>1, <2>2, RemoveOk
<1>4. CASE ioLoop[n] = BaseLoop
  <2>0. PICK f : f = Functor("connectDestroyed", n)
    OBVIOUS
  <2>1. RunConnFunctors(<<f>>) /\ functors' = functors
    BY <1>0, <1>4, <2>0 DEF RunInLoop
  <2>2. f \in Functors /\ f.op = "connectDestroyed" /\ f.conn = n
    BY <2>0, <1>1 DEF Functor, Functors, Ops
  <2>3. Targets(<<f>>, "connectEstablished") = {} /\ Targets(<<f>>, "connectDestroyed") = {n}
    BY <2>2, TargetsOne
  <2>4. <<f>> \in Seq(Functors)
    BY <2>2
  <2>5. registered' = registered \ {n} /\ state_' \in [Conns -> ConnStates]
    BY <2>1, <2>3, <2>4, RunOk, ServerTypes
  <2>6. Settles
    BY <1>0, <1>2, <2>1, <2>5, ServerTypes DEF Settles, acceptVars
  <2>7. ASSUME NEW m, Held(m), m # n PROVE Held(m)'
    BY <2>7, <1>0, <1>2, <2>1 DEF Held
  <2>8. Filed'
    <3>1. \A m \in registered' : Held(m)'
      BY <2>5, <2>7 DEF ServerInv, Filed
    <3>2. ASSUME NEW k \in Loops, NEW m \in Targets(functors'[k], "connectEstablished") PROVE Held(m)'
      <4>1. Held(m) /\ k # BaseLoop /\ ioLoop[m] = k
        BY <2>1 DEF ServerInv, Filed, Placed
      <4> QED
        BY <4>1, <1>4, <2>7
    <3> QED
      BY <3>1, <3>2 DEF Filed
  <2> QED
    BY <2>6, <2>8, SettleOk
<1> QED
  BY <1>3, <1>4

\* The server and its base loop are gone.
LEMMA GoneOk ==
  ASSUME ServerInv, PoolInv', Gone
  PROVE  ServerInv'
<1>1. /\ server' = "gone" /\ listenning_' = FALSE /\ backlog' = 0
      /\ functors' = [functors EXCEPT ![BaseLoop] = <<>>]
      /\ UNCHANGED <<nextConnId_, connections_, ioLoop, state_, registered, polled>>
  BY DEF Gone
<1>2. BaseLoop \in Loops
  BY PoolAssumption DEF BaseLoop, Loops
<1>3. /\ functors' \in [Loops -> Seq(Functors)]
      /\ \A k \in Loops : \A op : Targets(functors'[k], op) \subseteq Targets(functors[k], op)
  BY <1>1, <1>2, EmptiedOk
<1>4. Settles
  <2>1. 0 \in 0..(MaxConns + 1 - nextConnId_)
    BY ServerAssumption DEF ServerInv, ServerTypeOK
  <2> QED
    BY <2>1, <1>1, <1>3, ServerTypes DEF Settles
<1>5. Filed'
  BY <1>1 DEF Filed, Held
<1> QED
  BY <1>4, <1>5, SettleOk

-----------------------------------------------------------------------------
(***************************************************************************)
(* The theorems                                                            *)
(***************************************************************************)
\* The constructors establish the invariant (TcpServer.cc:15-30).
LEMMA ServerInitOk == ServerInit => ServerInv
<1> SUFFICES ASSUME ServerInit PROVE ServerInv
  OBVIOUS
<1>1. PoolInv
  BY PoolInitOk DEF ServerInit
<1>2. \A l \in Loops : \A op : Targets(functors[l], op) = {}
  BY TargetsEmpty DEF ServerInit
<1>3. ServerTypeOK
  <2>1. functors \in [Loops -> Seq(Functors)]
    BY DEF ServerInit
  <2>2. BaseLoop \in Loops
    BY PoolAssumption DEF BaseLoop, Loops
  <2>3. ioLoop \in [Conns -> Loops] /\ state_ \in [Conns -> ConnStates]
    BY <2>2 DEF ServerInit, ConnStates
  <2>4. nextConnId_ \in 1..(MaxConns + 1) /\ backlog \in 0..(MaxConns + 1 - nextConnId_)
    BY ServerAssumption DEF ServerInit, AcceptorInit
  <2> QED
    BY <1>1, <2>1, <2>3, <2>4 DEF ServerInit, AcceptorInit, ServerTypeOK, PoolInv
<1>4. Placed /\ Filed
  BY <1>2 DEF Placed, Filed, Ops, ServerInit
<1> QED
  BY <1>1, <1>3, <1>4 DEF ServerInv

\* One step of any thread keeps the invariant.
LEMMA ServerStepOk == ServerInv /\ [ServerNext]_allVars => ServerInv'
<1> SUFFICES ASSUME ServerInv, [ServerNext]_allVars PROVE ServerInv'
  OBVIOUS
<1>1. [Next]_vars
  BY PoolStep
<1>2. PoolInv /\ PoolInv'
  BY <1>1, PoolStepOk DEF ServerInv
<1>3. \A w \in Workers : pc[w] = "done" => pc'[w] = "done"
  BY <1>1, <1>2, DoneStays
<1>4. CASE UNCHANGED <<connVars, nextConnId_, polled>> /\ backlog' = backlog /\ listenning_' \in BOOLEAN
           /\ server # "gone" /\ server' \in {"new", "starting", "serving", "stopped", "pool", "gone"}
  BY <1>2, <1>3, <1>4, QuietOk, ServerTypes
<1>5. CASE UNCHANGED serverVars
  BY <1>2, <1>3, <1>5, QuietOk, ServerTypes DEF serverVars, acceptVars
<1>6. CASE \E n \in 0..MaxThreads : Start(n)
  BY <1>4, <1>6, ServerTypes DEF Start, acceptVars
<1>7. CASE BaseStep
  <2>1. CASE PoolStarts \/ PoolEnds
    BY <1>5, <2>1 DEF PoolStarts, PoolEnds
  <2>2. CASE Listen
    <3>1. /\ UNCHANGED <<connVars, nextConnId_, polled>> /\ backlog' = backlog
          /\ listenning_' = TRUE /\ server = "starting" /\ server' = "serving"
      BY <2>2 DEF Listen
    <3> QED
      BY <1>4, <3>1
  <2>3. CASE RunBaseFunctor
    BY <1>2, <2>3, BaseFunctorOk
  <2>4. CASE CloseOne
    BY <1>2, <2>4, CloseOneOk
  <2>5. CASE DestroyPool
    BY <1>4, <2>5, ServerTypes DEF DestroyPool, acceptVars
  <2>6. CASE Gone
    BY <1>2, <2>6, GoneOk
  <2> QED
    BY <1>7, <2>1, <2>2, <2>3, <2>4, <2>5, <2>6 DEF BaseStep
<1>8. CASE WaitReturns \/ AcceptFails
  BY <1>5, <1>8 DEF WaitReturns, AcceptFails, allVars
<1>9. CASE Arrive
  <2>1. backlog' \in 0..(MaxConns + 1 - nextConnId_)
    BY <1>9, ServerAssumption DEF Arrive, ServerInv, ServerTypeOK
  <2>2. UNCHANGED <<connVars, nextConnId_>> /\ polled' = polled /\ server' = server /\ listenning_' = listenning_
    BY <1>9 DEF Arrive
  <2> QED
    BY <2>1, <2>2, <1>2, <1>3, QuietOk, ServerTypes
<1>10. CASE Accept
  BY <1>2, <1>3, <1>10, AcceptOk
<1>11. CASE StopBase
  BY <1>4, <1>11, ServerTypes DEF StopBase, acceptVars
<1>12. CASE \E w \in Workers : WorkerThread(w) \/ Round(w)
  <2> PICK w \in Workers : WorkerThread(w) \/ Round(w)
    BY <1>12
  <2>1. CASE WorkerSteps(w)
    BY <1>5, <2>1 DEF WorkerSteps
  <2>2. CASE WorkerEnds(w)
    BY <1>2, <1>3, <2>2, WorkerEndsOk
  <2>3. CASE Round(w)
    BY <1>2, <1>3, <2>3, RoundOk
  <2> QED
    BY <2>1, <2>2, <2>3 DEF WorkerThread
<1>13. CASE \E n \in Conns : HangUp(n)
  BY <1>2, <1>13, CloseBaseOk, CloseAtOk DEF HangUp
<1>14. CASE UNCHANGED allVars
  BY <1>5, <1>14 DEF allVars
<1> QED
  BY <1>6, <1>7, <1>8, <1>9, <1>10, <1>11, <1>12, <1>13, <1>14 DEF ServerNext

\* ServerInv holds in every reachable state of the server.
THEOREM ServerInvariance == ServerSpec => []ServerInv
<1>1. ServerInit => ServerInv
  BY ServerInitOk
<1>2. ServerInv /\ [ServerNext]_allVars => ServerInv'
  BY ServerStepOk
<1> QED
  BY <1>1, <1>2, PTL DEF ServerSpec

\* No channel stays in the poller of a live loop without a connection that
\* somebody holds (TcpServer.cc:109-126 and 32-42), for any number of threads,
\* clients and descriptors and any order of hang-up, removal and destruction.
THEOREM NeverStray == ServerSpec => []NoStray
<1>1. ServerInv => NoStray
  <2> SUFFICES ASSUME ServerInv, NEW n \in registered
               PROVE \/ Exists(n)
                     \/ ioLoop[n] \in Workers /\ pc[ioLoop[n]] = "done"
                     \/ server = "gone"
    BY DEF NoStray
  <2>1. Held(n)
    BY DEF ServerInv, Filed
  <2>2. ioLoop[n] \in Loops
    BY ServerTypes
  <2>3. n \in Targets(functors[ioLoop[n]], "connectDestroyed") => Exists(n)
    BY <2>2 DEF Targets, Exists
  <2>4. n \in connections_ => Exists(n)
    BY DEF Exists
  <2> QED
    BY <2>1, <2>3, <2>4 DEF Held
<1> QED
  BY <1>1, ServerInvariance, PTL

\* Inside the server too, no thread outlives its EventLoopThread and the loops
\* are handed out evenly.
THEOREM ServerPoolSafe == ServerSpec => [](JoinedBeforeGone /\ Balanced)
<1> QED
  BY UsesPool, WorkersJoined, DealsEvenly, PTL

=============================================================================
