-------------------------- MODULE TimerQueueProofs --------------------------
(***************************************************************************)
(* Proofs about TimerQueue, for any number of timers, addresses, delays    *)
(* and intervals: timers_ and activeTimers_ list the same timers, each     *)
(* timer has one owner and is deleted with it, the timerfd is armed while  *)
(* timers wait, and cancelling is final.  The argument is the invariant    *)
(* TimerInv of TimerQueue.                                                 *)
(***************************************************************************)
EXTENDS TimerQueue, SequenceTheorems, WellFoundedInduction, TLAPS

-----------------------------------------------------------------------------
(***************************************************************************)
(* The queue of functors                                                   *)
(***************************************************************************)

\* What the queued addTimerInLoop functors are about, index by index.
LEMMA AddsMember ==
  ASSUME NEW q, NEW a
  PROVE  a \in Adds(q) <=> \E i \in 1..Len(q) : q[i].op = "add" /\ q[i].id.addr = a
BY DEF Adds

\* queueInLoop of a functor f.
LEMMA AddsAppend ==
  ASSUME NEW F, NEW q \in Seq(F), NEW f \in F, AddsOnce(q),
         f.op = "add" => f.id.addr \notin Adds(q)
  PROVE  /\ Append(q, f) \in Seq(F)
         /\ AddsOnce(Append(q, f))
         /\ \A a : a \in Adds(Append(q, f)) <=> a \in Adds(q) \/ (f.op = "add" /\ f.id.addr = a)
<1> DEFINE r == Append(q, f)
<1>1. /\ r \in Seq(F) /\ Len(r) = Len(q) + 1 /\ Len(q) \in Nat
      /\ \A i \in 1..Len(q) : r[i] = q[i]
      /\ r[Len(q) + 1] = f
  BY AppendProperties, LenProperties
<1> HIDE DEF r
<1>2. ASSUME NEW a PROVE a \in Adds(r) <=> a \in Adds(q) \/ (f.op = "add" /\ f.id.addr = a)
  <2>1. (\E i \in 1..Len(r) : r[i].op = "add" /\ r[i].id.addr = a)
          <=> \/ \E i \in 1..Len(q) : q[i].op = "add" /\ q[i].id.addr = a
              \/ f.op = "add" /\ f.id.addr = a
    BY <1>1
  <2> QED
    BY <2>1, AddsMember
<1>3. AddsOnce(r)
  <2> SUFFICES ASSUME NEW i \in 1..Len(r), NEW j \in 1..Len(r),
                      r[i].op = "add", r[j].op = "add", r[i].id.addr = r[j].id.addr
               PROVE  i = j
    BY DEF AddsOnce
  <2>1. CASE i \in 1..Len(q) /\ j \in 1..Len(q)
    BY <2>1, <1>1 DEF AddsOnce
  <2>2. CASE i = Len(q) + 1 /\ j \in 1..Len(q)
    <3>1. r[i] = f /\ r[j] = q[j]
      BY <2>2, <1>1
    <3>2. f.id.addr \in Adds(q)
      BY <3>1, <2>2, AddsMember
    <3> QED
      BY <3>1, <3>2
  <2>3. CASE j = Len(q) + 1 /\ i \in 1..Len(q)
    <3>1. r[j] = f /\ r[i] = q[i]
      BY <2>3, <1>1
    <3>2. f.id.addr \in Adds(q)
      BY <3>1, <2>3, AddsMember
    <3> QED
      BY <3>1, <3>2
  <2> QED
    BY <2>1, <2>2, <2>3, <1>1
<1> QED
  BY <1>1, <1>2, <1>3 DEF r

\* doPendingFunctors takes the first functor.
LEMMA AddsTail ==
  ASSUME NEW F, NEW q \in Seq(F), q # <<>>, AddsOnce(q)
  PROVE  /\ Head(q) \in F /\ Tail(q) \in Seq(F)
         /\ AddsOnce(Tail(q))
         /\ Head(q).op = "add" => Head(q).id.addr \in Adds(q)
         /\ \A a : a \in Adds(Tail(q))
                     <=> a \in Adds(q) /\ ~(Head(q).op = "add" /\ Head(q).id.addr = a)
<1> DEFINE r == Tail(q)
           h == Head(q)
<1>1. /\ r \in Seq(F) /\ Len(r) = Len(q) - 1 /\ Len(q) \in Nat \ {0}
      /\ \A i \in 1..Len(r) : r[i] = q[i + 1]
      /\ h = q[1] /\ h \in F
  BY HeadTailProperties, LenProperties, EmptySeq
<1> HIDE DEF r, h
<1>2. h.op = "add" => h.id.addr \in Adds(q)
  BY <1>1, AddsMember
<1>3. AddsOnce(r)
  <2> SUFFICES ASSUME NEW i \in 1..Len(r), NEW j \in 1..Len(r),
                      r[i].op = "add", r[j].op = "add", r[i].id.addr = r[j].id.addr
               PROVE  i = j
    BY DEF AddsOnce
  <2>1. /\ i + 1 \in 1..Len(q) /\ r[i] = q[i + 1]
        /\ j + 1 \in 1..Len(q) /\ r[j] = q[j + 1]
    BY <1>1
  <2>2. i + 1 = j + 1
    BY <2>1 DEF AddsOnce
  <2> QED
    BY <2>2
<1>4. ASSUME NEW a
      PROVE a \in Adds(r) <=> a \in Adds(q) /\ ~(h.op = "add" /\ h.id.addr = a)
  <2>1. ASSUME a \in Adds(r) PROVE a \in Adds(q) /\ ~(h.op = "add" /\ h.id.addr = a)
    <3>1. PICK i \in 1..Len(r) : r[i].op = "add" /\ r[i].id.addr = a
      BY <2>1, AddsMember
    <3>2. i + 1 \in 1..Len(q) /\ 1 \in 1..Len(q) /\ i + 1 # 1 /\ q[i + 1] = r[i] /\ q[1] = h
      BY <1>1
    <3>3. ~(h.op = "add" /\ h.id.addr = a)
      BY <3>1, <3>2 DEF AddsOnce
    <3>4. a \in Adds(q)
      BY <3>1, <3>2, AddsMember
    <3> QED
      BY <3>3, <3>4
  <2>2. ASSUME a \in Adds(q), ~(h.op = "add" /\ h.id.addr = a) PROVE a \in Adds(r)
    <3>1. PICK i \in 1..Len(q) : q[i].op = "add" /\ q[i].id.addr = a
      BY <2>2, AddsMember
    <3>2. i # 1
      BY <3>1, <2>2, <1>1
    <3>3. i - 1 \in 1..Len(r) /\ r[i - 1] = q[i]
      BY <3>2, <1>1
    <3> QED
      BY <3>1, <3>3, AddsMember
  <2> QED
    BY <2>1, <2>2
<1> QED
  BY <1>1, <1>2, <1>3, <1>4 DEF r, h

-----------------------------------------------------------------------------
(***************************************************************************)
(* The clock and the timerfd                                               *)
(***************************************************************************)

\* A set of timers that wait has an earliest one.
LEMMA Earliest ==
  ASSUME NEW S, S \subseteq Nat, S # {}
  PROVE  \E w \in S : \A v \in S : w <= v
<1>1. PICK w \in S : \A v \in S : ~(<<v, w>> \in OpToRel(<, Nat))
  BY NatLessThanWellFounded, WFMin
<1>2. \A v \in S : ~(v < w)
  BY <1>1 DEF OpToRel
<1> QED
  BY <1>2

\* Timestamp::now() and addTime stay in range.
LEMMA ClockOk ==
  ASSUME time \in Nat
  PROVE  /\ Now \in Nat
         /\ \A s \in Nat, d \in Nat : AddTime(s, d) \in Nat /\ s * PerSecond \in Nat
<1>1. PerSecond \in Nat \ {0}
  BY TimerAssumption
<1>2. \A n \in Nat : n \div PerSecond \in Nat
  BY <1>1
<1>3. \A n \in Nat : n * PerSecond \in Nat
  BY <1>1
<1> QED
  BY <1>2, <1>3 DEF Now, AddTime

\* resetTimerfd never disarms the timerfd.
LEMMA ResetArms ==
  ASSUME time \in Nat, NEW w \in Nat
  PROVE  ResetTimerfd(w) \in Nat \ {0}
<1>1. Now \in Nat /\ MinWait \in Nat \ {0} /\ MaxTime \in Nat \ {0}
  BY ClockOk, TimerAssumption
<1>2. HowMuchTimeFromNow(w) \in Nat \ {0}
  BY <1>1 DEF HowMuchTimeFromNow
<1> QED
  BY <1>1, <1>2 DEF ResetTimerfd

-----------------------------------------------------------------------------
(***************************************************************************)
(* timers_ and activeTimers_                                               *)
(***************************************************************************)

\* Two sets that file the timers at the addresses W of a heap h.
Filed(h, ts, as, W) ==
  /\ ts = {[when |-> h[a].when, addr |-> a] : a \in W}
  /\ as = {[addr |-> a, seq |-> h[a].seq] : a \in W}

\* What Paired says of such sets.
LEMMA FiledFacts ==
  ASSUME NEW h, NEW ts, NEW as, NEW W, Filed(h, ts, as, W)
  PROVE  /\ {e.addr : e \in ts} = W
         /\ \A e \in ts : e.addr \in W /\ e.when = h[e.addr].when
         /\ \A e, f \in ts : e.addr = f.addr => e = f
         /\ as = {[addr |-> a, seq |-> h[a].seq] : a \in W}
<1>1. ts = {[when |-> h[a].when, addr |-> a] : a \in W}
  BY DEF Filed
<1>2. \A e \in ts : \E a \in W : e = [when |-> h[a].when, addr |-> a]
  BY <1>1
<1>3. \A a \in W : [when |-> h[a].when, addr |-> a] \in ts
  BY <1>1
<1>4. {e.addr : e \in ts} = W
  <2>1. \A a \in W : [when |-> h[a].when, addr |-> a].addr = a
    OBVIOUS
  <2>2. W \subseteq {e.addr : e \in ts}
    BY <1>3, <2>1
  <2>3. {e.addr : e \in ts} \subseteq W
    BY <1>2, <2>1
  <2> QED
    BY <2>2, <2>3
<1>5. \A e \in ts : e.addr \in W /\ e = [when |-> h[e.addr].when, addr |-> e.addr]
  BY <1>2
<1> QED
  BY <1>4, <1>5 DEF Filed

\* In a state where Paired holds, timers_ and activeTimers_ are such sets.
LEMMA PairedFiled ==
  ASSUME TypeOK, Paired
  PROVE  /\ Waiting \subseteq Addrs
         /\ \A a \in Waiting : heap[a] # Free
         /\ Filed(heap, timers_, activeTimers_, Waiting)
<1>1. timers_ \subseteq [when : Nat, addr : Addrs]
  BY DEF TypeOK
<1>2. /\ \A e \in timers_ : heap[e.addr] # Free /\ e.when = heap[e.addr].when
      /\ activeTimers_ = {[addr |-> a, seq |-> heap[a].seq] : a \in Waiting}
  BY DEF Paired, Id
<1>3. \A a : a \in Waiting <=> \E e \in timers_ : e.addr = a
  BY DEF Waiting
<1>4. \A e \in timers_ : e = [when |-> heap[e.addr].when, addr |-> e.addr]
  BY <1>1, <1>2
<1>5. timers_ = {[when |-> heap[a].when, addr |-> a] : a \in Waiting}
  BY <1>3, <1>4
<1> QED
  BY <1>1, <1>2, <1>3, <1>5 DEF Filed

\* A step after which the timers at W wait, and each of the others that exist is
\* in the batch or arriving.
LEMMA Files ==
  ASSUME NEW W, Filed(heap', timers_', activeTimers_', W),
         \A a \in W : heap'[a] # Free,
         \A a \in Addrs : heap'[a] # Free <=> a \in W \/ a \in expired' \/ a \in Arriving',
         W \subseteq Addrs, expired' \subseteq Addrs, Arriving' \subseteq Addrs,
         W \cap expired' = {}, W \cap Arriving' = {}, expired' \cap Arriving' = {}
  PROVE  Paired' /\ Owned' /\ Waiting' = W
<1>1. /\ {e.addr : e \in timers_'} = W
      /\ \A e \in timers_' : e.addr \in W /\ e.when = heap'[e.addr].when
      /\ \A e, f \in timers_' : e.addr = f.addr => e = f
      /\ activeTimers_' = {[addr |-> a, seq |-> heap'[a].seq] : a \in W}
  BY FiledFacts
<1>2. Waiting' = W
  BY <1>1 DEF Waiting
<1>3. Paired'
  BY <1>1, <1>2 DEF Paired, Id
<1>4. Owned'
  BY <1>2 DEF Owned
<1> QED
  BY <1>2, <1>3, <1>4

\* The invariant's view of the timers, address by address.
LEMMA View ==
  ASSUME TimerInv
  PROVE  /\ Filed(heap, timers_, activeTimers_, Waiting)
         /\ Waiting \subseteq Addrs /\ expired \subseteq Addrs /\ Arriving \subseteq Addrs
         /\ Adds(queue) \subseteq Arriving
         /\ \A a \in Addrs : heap[a] # Free <=> a \in Waiting \/ a \in expired \/ a \in Arriving
         /\ \A a \in Waiting : a \notin expired /\ a \notin Arriving
         /\ expired \cap Arriving = {}
<1>1. TypeOK /\ Paired /\ Owned
  BY DEF TimerInv
<1>2. /\ {a \in Addrs : heap[a] # Free} = Waiting \cup expired \cup Arriving
      /\ Waiting \cap expired = {} /\ Waiting \cap Arriving = {} /\ expired \cap Arriving = {}
  BY <1>1 DEF Owned
<1>3. Adds(queue) \subseteq Arriving
  BY DEF Arriving
<1> QED
  BY <1>1, <1>2, <1>3, PairedFiled

\* What is on its way does not change with what the queue and the calls of addTimer
\* have in hand.
LEMMA ArrivingKept ==
  ASSUME QueuedOnce, Adds(queue') = Adds(queue), adding' = adding
  PROVE  Arriving' = Arriving /\ QueuedOnce'
BY DEF Arriving, Unqueued, QueuedOnce

\* insert puts the timer t at address a into both sets, and addTimerInLoop leaves
\* the timerfd armed.
LEMMA InsertOk ==
  ASSUME TypeOK, Paired, NEW a \in Addrs, NEW t \in Timers,
         AddTimerInLoop(a, t), heap'[a] = t, \A b \in Waiting : heap'[b] = heap[b]
  PROVE  /\ Filed(heap', timers_', activeTimers_', Waiting \cup {a})
         /\ timers_' \subseteq [when : Nat, addr : Addrs]
         /\ activeTimers_' = activeTimers_ \cup {[addr |-> a, seq |-> t.seq]}
         /\ timerfd' \in Nat
         /\ Armed => (~callingExpiredTimers_ => timerfd' # 0)
<1>1. /\ timers_' = timers_ \cup {[when |-> t.when, addr |-> a]}
      /\ activeTimers_' = activeTimers_ \cup {[addr |-> a, seq |-> t.seq]}
      /\ timerfd' = IF EarliestChanged(t) THEN ResetTimerfd(t.when) ELSE timerfd
  BY DEF AddTimerInLoop
<1>2. /\ timers_ = {[when |-> heap[b].when, addr |-> b] : b \in Waiting}
      /\ activeTimers_ = {[addr |-> b, seq |-> heap[b].seq] : b \in Waiting}
  BY PairedFiled DEF Filed
<1>3. timers_' = {[when |-> heap'[b].when, addr |-> b] : b \in Waiting \cup {a}}
  BY <1>1, <1>2
<1>4. activeTimers_' = {[addr |-> b, seq |-> heap'[b].seq] : b \in Waiting \cup {a}}
  BY <1>1, <1>2
<1>5. /\ time \in Nat /\ timerfd \in Nat /\ t.when \in Nat
      /\ timers_ \subseteq [when : Nat, addr : Addrs]
  BY DEF TypeOK, Timers
<1>6. ResetTimerfd(t.when) \in Nat \ {0}
  BY <1>5, ResetArms
<1>7. timers_' \subseteq [when : Nat, addr : Addrs]
  BY <1>1, <1>5
<1>8. ~EarliestChanged(t) => timers_ # {}
  BY DEF EarliestChanged
<1> QED
  BY <1>1, <1>3, <1>4, <1>5, <1>6, <1>7, <1>8 DEF Filed, Armed

-----------------------------------------------------------------------------
(***************************************************************************)
(* New timers                                                              *)
(***************************************************************************)

\* Nothing that new returns is Free.
LEMMA FreeIsNoTimer == Free \notin Timers
<1>1. Timers \subseteq [seq : Nat, when : Nat, interval : Nat, made : Nat]
  BY TimerAssumption DEF Timers
<1> QED
  BY <1>1, TimerAssumption

\* Timer::Timer, with the next sequence number.
LEMMA NewTimerOk ==
  ASSUME TypeOK, created < MaxSeq, NEW d \in Delays, NEW i \in Intervals
  PROVE  NewTimer(d, i) \in Timers /\ NewTimer(d, i).seq = created + 1
<1>1. time \in Nat /\ created \in 0..MaxSeq /\ d \in Nat /\ i \in Nat /\ MaxSeq \in Nat
  BY TimerAssumption DEF TypeOK
<1>2. AddTime(Now, d) \in Nat /\ d * PerSecond \in Nat
  BY <1>1, ClockOk
<1>3. time + d * PerSecond \in Nat /\ created + 1 \in 1..MaxSeq
  BY <1>1, <1>2
<1> QED
  BY <1>1, <1>2, <1>3 DEF NewTimer, Timers

\* addTimer takes an address that nothing uses, and a sequence number that no
\* timer before had: what was cancelled never stands for the new timer.
LEMMA AllocateOk ==
  ASSUME TimerInv, NEW a \in Addrs, NEW t \in Timers, t.seq = created + 1, Allocate(a, t)
  PROVE  /\ created' \in 0..MaxSeq /\ 1..created \subseteq 1..created' /\ t.seq \in 1..created'
         /\ Numbered \subseteq Numbered'
         /\ heap' \in [Addrs -> Timers \cup {Free}]
         /\ heap'[a] = t /\ t # Free
         /\ \A b \in Addrs : b # a => heap'[b] = heap[b]
         /\ a \notin Waiting /\ a \notin expired /\ a \notin Arriving
         /\ Known'
         /\ UNCHANGED <<cancelled, cancelingTimers_, expired>> => Marked'
<1>1. /\ heap[a] = Free /\ created < MaxSeq
      /\ created' = created + 1
      /\ heap' = [heap EXCEPT ![a] = t]
  BY DEF Allocate
<1>2. /\ created \in 0..MaxSeq /\ MaxSeq \in Nat
      /\ heap \in [Addrs -> Timers \cup {Free}]
      /\ cancelled \subseteq Numbered
      /\ Known /\ Marked
  BY TimerAssumption DEF TimerInv, TypeOK
<1>3. created' \in 0..MaxSeq /\ t.seq \in 1..created' /\ t.seq \notin 1..created
      /\ 1..created \subseteq 1..created'
  BY <1>1, <1>2
<1>4. /\ heap' \in [Addrs -> Timers \cup {Free}]
      /\ heap'[a] = t /\ t # Free
      /\ \A b \in Addrs : b # a => heap'[b] = heap[b]
  BY <1>1, <1>2, FreeIsNoTimer
<1>5. Numbered \subseteq Numbered'
  BY <1>3 DEF Numbered
<1>6. a \notin Waiting /\ a \notin expired /\ a \notin Arriving
  BY <1>1, View
<1>7. Known'
  <2> SUFFICES ASSUME NEW b \in Addrs, heap'[b] # Free
               PROVE  heap'[b].seq \in 1..created'
    BY DEF Known
  <2>1. CASE b = a
    BY <2>1, <1>3, <1>4
  <2>2. CASE b # a
    BY <2>2, <1>2, <1>3, <1>4 DEF Known
  <2> QED
    BY <2>1, <2>2
<1>8. ASSUME UNCHANGED <<cancelled, cancelingTimers_, expired>> PROVE Marked'
  <2> SUFFICES ASSUME NEW id \in cancelled, heap'[id.addr] # Free,
                      [addr |-> id.addr, seq |-> heap'[id.addr].seq] = id
               PROVE  id.addr \in expired /\ id \in cancelingTimers_
    BY <1>8 DEF Marked, Id
  <2>1. id.addr \in Addrs /\ id.seq \in 1..created /\ id.seq = heap'[id.addr].seq
    BY <1>2 DEF Numbered
  <2>2. id.addr # a
    BY <2>1, <1>3, <1>4
  <2> QED
    BY <2>1, <2>2, <1>4, <1>2 DEF Marked, Id
<1> QED
  BY <1>3, <1>4, <1>5, <1>6, <1>7, <1>8

\* addTimer in the loop's thread.
LEMMA StepAddTimerHere ==
  ASSUME TimerInv, NEW a \in Addrs, NEW t \in Timers, t.seq = created + 1, AddTimerHere(a, t)
  PROVE  TimerInv'
<1>1. /\ Allocate(a, t) /\ AddTimerInLoop(a, t)
      /\ ids' = ids \cup {[addr |-> a, seq |-> t.seq]}
      /\ UNCHANGED <<time, adding, queue, expired, toRun, stamp, ran, cancelled, ghost>>
      /\ UNCHANGED <<cancelingTimers_, callingExpiredTimers_>>
  BY DEF AddTimerHere, AddTimerInLoop, batchVars, history
<1>2. TypeOK /\ Paired /\ Armed /\ CancelSticks /\ AddsOnce(queue) /\ QueuedOnce
      /\ (~callingExpiredTimers_ => expired = {})
  BY DEF TimerInv
<1>3. /\ created' \in 0..MaxSeq /\ 1..created \subseteq 1..created' /\ t.seq \in 1..created'
      /\ Numbered \subseteq Numbered'
      /\ heap' \in [Addrs -> Timers \cup {Free}]
      /\ heap'[a] = t /\ t # Free
      /\ \A b \in Addrs : b # a => heap'[b] = heap[b]
      /\ a \notin Waiting /\ a \notin expired /\ a \notin Arriving
      /\ Known' /\ Marked'
  BY <1>1, AllocateOk
<1>4. \A b \in Waiting : heap'[b] = heap[b]
  BY <1>3, View
<1>5. /\ Filed(heap', timers_', activeTimers_', Waiting \cup {a})
      /\ timers_' \subseteq [when : Nat, addr : Addrs]
      /\ activeTimers_' = activeTimers_ \cup {[addr |-> a, seq |-> t.seq]}
      /\ timerfd' \in Nat
      /\ ~callingExpiredTimers_ => timerfd' # 0
  BY <1>1, <1>2, <1>3, <1>4, InsertOk
<1>6. Arriving' = Arriving /\ QueuedOnce'
  BY <1>1, <1>2, ArrivingKept
<1>7. TypeOK'
  <2>1. /\ time \in Nat /\ stamp \in Nat
        /\ adding \subseteq [addr : Addrs, seq : 1..created, queued : BOOLEAN]
        /\ ids \subseteq TimerIds /\ cancelingTimers_ \subseteq TimerIds
        /\ activeTimers_ \subseteq Numbered /\ cancelled \subseteq Numbered
        /\ callingExpiredTimers_ \in BOOLEAN
        /\ queue \in Seq(Functors)
        /\ expired \subseteq Addrs /\ toRun \subseteq expired
        /\ ran \subseteq 1..created /\ ghost \in BOOLEAN
    BY <1>2 DEF TypeOK
  <2>2. [addr |-> a, seq |-> t.seq] \in Numbered' /\ [addr |-> a, seq |-> t.seq] \in TimerIds
    BY <1>3, TimerAssumption DEF Numbered, TimerIds
  <2>3. activeTimers_' \subseteq Numbered' /\ cancelled \subseteq Numbered' /\ ids' \subseteq TimerIds
    BY <2>1, <2>2, <1>1, <1>3, <1>5
  <2>4. ran \subseteq 1..created' /\ adding \subseteq [addr : Addrs, seq : 1..created', queued : BOOLEAN]
    BY <2>1, <1>3
  <2> QED
    BY <1>1, <1>3, <1>5, <2>1, <2>3, <2>4 DEF TypeOK
<1>8. Paired' /\ Owned'
  <2>1. PICK W : W = Waiting \cup {a}
    OBVIOUS
  <2>2. \A b \in W : heap'[b] # Free
    BY <2>1, <1>3, <1>4, View
  <2>3. \A b \in Addrs : heap'[b] # Free <=> b \in W \/ b \in expired' \/ b \in Arriving'
    BY <2>1, <1>1, <1>3, <1>6, View
  <2>4. /\ W \subseteq Addrs /\ expired' \subseteq Addrs /\ Arriving' \subseteq Addrs
        /\ W \cap expired' = {} /\ W \cap Arriving' = {} /\ expired' \cap Arriving' = {}
    BY <2>1, <1>1, <1>3, <1>6, View
  <2> QED
    BY <2>1, <2>2, <2>3, <2>4, <1>5, Files
<1>9. Armed' /\ CancelSticks' /\ (~callingExpiredTimers_ => expired = {})' /\ AddsOnce(queue)'
  BY <1>1, <1>2, <1>5 DEF Armed, CancelSticks
<1> QED
  BY <1>3, <1>6, <1>7, <1>8, <1>9 DEF TimerInv

\* new Timer, in an addTimer of another thread: the timer is on its way.
LEMMA StepNewElsewhere ==
  ASSUME TimerInv, NEW a \in Addrs, NEW t \in Timers, t.seq = created + 1, NewElsewhere(a, t)
  PROVE  TimerInv'
<1> DEFINE c == [addr |-> a, seq |-> t.seq, queued |-> FALSE]
<1>1. /\ Allocate(a, t) /\ adding' = adding \cup {c}
      /\ UNCHANGED <<time, ids, queue, expired, toRun, stamp, ran, cancelled, ghost, timers_,
                     activeTimers_, cancelingTimers_, callingExpiredTimers_, timerfd>>
  BY DEF NewElsewhere, queueVars, batchVars, history
<1>2. TypeOK /\ Paired /\ Armed /\ CancelSticks /\ AddsOnce(queue) /\ QueuedOnce
      /\ (~callingExpiredTimers_ => expired = {})
  BY DEF TimerInv
<1>3. /\ created' \in 0..MaxSeq /\ 1..created \subseteq 1..created' /\ t.seq \in 1..created'
      /\ Numbered \subseteq Numbered'
      /\ heap' \in [Addrs -> Timers \cup {Free}]
      /\ heap'[a] = t /\ t # Free
      /\ \A b \in Addrs : b # a => heap'[b] = heap[b]
      /\ a \notin Waiting /\ a \notin expired /\ a \notin Arriving
      /\ Known' /\ Marked'
  BY <1>1, AllocateOk
<1>4. \A b \in Waiting : heap'[b] = heap[b]
  BY <1>3, View
<1>5. c.addr = a /\ ~c.queued /\ c \in [addr : Addrs, seq : 1..created', queued : BOOLEAN]
  BY <1>3
<1> HIDE DEF c
<1>6. Unqueued' = Unqueued \cup {c}
  BY <1>1, <1>5 DEF Unqueued
<1>7. \A b : b \in Arriving' <=> b \in Arriving \/ b = a
  BY <1>1, <1>5, <1>6 DEF Arriving
<1>8. QueuedOnce'
  <2>1. a \notin Adds(queue) /\ \A d \in Unqueued : d.addr # a
    BY <1>3 DEF Arriving
  <2> QED
    BY <2>1, <1>1, <1>2, <1>5, <1>6 DEF QueuedOnce
<1>9. TypeOK'
  <2>1. /\ time \in Nat /\ stamp \in Nat /\ timerfd \in Nat
        /\ timers_ \subseteq [when : Nat, addr : Addrs]
        /\ adding \subseteq [addr : Addrs, seq : 1..created, queued : BOOLEAN]
        /\ ids \subseteq TimerIds /\ cancelingTimers_ \subseteq TimerIds
        /\ activeTimers_ \subseteq Numbered /\ cancelled \subseteq Numbered
        /\ callingExpiredTimers_ \in BOOLEAN
        /\ queue \in Seq(Functors)
        /\ expired \subseteq Addrs /\ toRun \subseteq expired
        /\ ran \subseteq 1..created /\ ghost \in BOOLEAN
    BY <1>2 DEF TypeOK
  <2>2. activeTimers_ \subseteq Numbered' /\ cancelled \subseteq Numbered' /\ ran \subseteq 1..created'
    BY <2>1, <1>3
  <2>3. adding' \subseteq [addr : Addrs, seq : 1..created', queued : BOOLEAN]
    BY <2>1, <1>1, <1>3, <1>5
  <2> QED
    BY <1>1, <1>3, <2>1, <2>2, <2>3 DEF TypeOK
<1>10. Paired' /\ Owned'
  <2>1. PICK W : W = Waiting
    OBVIOUS
  <2>2. Filed(heap', timers_', activeTimers_', W)
    BY <2>1, <1>1, <1>4, View DEF Filed
  <2>3. \A b \in W : heap'[b] # Free
    BY <2>1, <1>4, View
  <2>4. \A b \in Addrs : heap'[b] # Free <=> b \in W \/ b \in expired' \/ b \in Arriving'
    BY <2>1, <1>1, <1>3, <1>7, View
  <2>5. /\ W \subseteq Addrs /\ expired' \subseteq Addrs /\ Arriving' \subseteq Addrs
        /\ W \cap expired' = {} /\ W \cap Arriving' = {} /\ expired' \cap Arriving' = {}
    BY <2>1, <1>1, <1>3, <1>7, View
  <2> QED
    BY <2>2, <2>3, <2>4, <2>5, Files
<1>11. Armed' /\ CancelSticks' /\ (~callingExpiredTimers_ => expired = {})' /\ AddsOnce(queue)'
  BY <1>1, <1>2 DEF Armed, CancelSticks
<1> QED
  BY <1>3, <1>8, <1>9, <1>10, <1>11 DEF TimerInv

\* A step that changes nothing but the queue, the calls of addTimer and the
\* TimerIds returned, and neither takes a timer off its way nor puts one on it.
LEMMA CallerStep ==
  ASSUME TimerInv,
         UNCHANGED <<time, heap, created, timers_, activeTimers_, cancelingTimers_,
                     callingExpiredTimers_, timerfd, expired, toRun, stamp, ran, cancelled, ghost>>,
         queue' \in Seq(Functors), ids' \subseteq TimerIds,
         adding' \subseteq [addr : Addrs, seq : 1..created, queued : BOOLEAN],
         AddsOnce(queue'), QueuedOnce', Arriving' = Arriving
  PROVE  TimerInv'
<1>1. TypeOK'
  <2>1. TypeOK
    BY DEF TimerInv
  <2> QED
    BY <2>1 DEF TypeOK, Numbered
<1>2. Paired' /\ Owned' /\ Armed' /\ CancelSticks' /\ Known' /\ Marked'
      /\ (~callingExpiredTimers_ => expired = {})'
  BY DEF TimerInv, Paired, Owned, Armed, CancelSticks, Known, Marked, Id, Waiting
<1> QED
  BY <1>1, <1>2 DEF TimerInv

\* runInLoop, in an addTimer of another thread: the timer goes on on its way.
LEMMA StepPushElsewhere ==
  ASSUME TimerInv, NEW c \in adding, PushElsewhere(c)
  PROVE  TimerInv'
<1> DEFINE fn == [op |-> "add", id |-> [addr |-> c.addr, seq |-> c.seq]]
           d == [c EXCEPT !.queued = TRUE]
<1>1. /\ ~c.queued /\ queue' = Append(queue, fn) /\ adding' = (adding \ {c}) \cup {d}
      /\ UNCHANGED <<time, heap, created, ids, timers_, activeTimers_, cancelingTimers_,
                     callingExpiredTimers_, timerfd, expired, toRun, stamp, ran, cancelled, ghost>>
  BY DEF PushElsewhere, queueVars, batchVars, history
<1>2. /\ queue \in Seq(Functors) /\ AddsOnce(queue) /\ QueuedOnce /\ ids \subseteq TimerIds
      /\ adding \subseteq [addr : Addrs, seq : 1..created, queued : BOOLEAN]
      /\ created \in 0..MaxSeq /\ MaxSeq \in Nat
  BY TimerAssumption DEF TimerInv, TypeOK
<1>3. /\ c \in [addr : Addrs, seq : 1..created, queued : BOOLEAN]
      /\ d \in [addr : Addrs, seq : 1..created, queued : BOOLEAN] /\ d.queued
  BY <1>2
<1>4. fn \in Functors /\ fn.op = "add" /\ fn.id.addr = c.addr
  BY <1>2, <1>3 DEF Functors, TimerIds
<1> HIDE DEF fn, d
<1>5. c \in Unqueued /\ Unqueued' = Unqueued \ {c}
  BY <1>1, <1>3 DEF Unqueued
<1>6. c.addr \notin Adds(queue) /\ \A e \in Unqueued : e.addr = c.addr => e = c
  BY <1>2, <1>5 DEF QueuedOnce
<1>7. /\ queue' \in Seq(Functors) /\ AddsOnce(queue')
      /\ \A b : b \in Adds(queue') <=> b \in Adds(queue) \/ b = c.addr
  BY <1>1, <1>2, <1>4, <1>6, AddsAppend
<1>8. Arriving' = Arriving
  BY <1>5, <1>7 DEF Arriving
<1>9. QueuedOnce'
  BY <1>2, <1>5, <1>6, <1>7 DEF QueuedOnce
<1>10. adding' \subseteq [addr : Addrs, seq : 1..created, queued : BOOLEAN]
  BY <1>1, <1>2, <1>3
<1> QED
  BY <1>1, <1>2, <1>7, <1>8, <1>9, <1>10, CallerStep

\* The TimerId that an addTimer of another thread returns, whatever it has read.
LEMMA StepReturnElsewhere ==
  ASSUME TimerInv, NEW c \in adding, NEW s \in 0..MaxSeq, ReturnElsewhere(c, s)
  PROVE  TimerInv'
<1>1. /\ c.queued /\ adding' = adding \ {c} /\ ids' = ids \cup {[addr |-> c.addr, seq |-> s]}
      /\ queue' = queue
      /\ UNCHANGED <<time, heap, created, timers_, activeTimers_, cancelingTimers_,
                     callingExpiredTimers_, timerfd, expired, toRun, stamp, ran, cancelled, ghost>>
  BY DEF ReturnElsewhere, queueVars, batchVars, history
<1>2. /\ queue \in Seq(Functors) /\ AddsOnce(queue) /\ QueuedOnce /\ ids \subseteq TimerIds
      /\ adding \subseteq [addr : Addrs, seq : 1..created, queued : BOOLEAN]
  BY DEF TimerInv, TypeOK
<1>3. Unqueued' = Unqueued
  BY <1>1 DEF Unqueued
<1>4. Arriving' = Arriving /\ QueuedOnce'
  BY <1>1, <1>2, <1>3 DEF Arriving, QueuedOnce
<1>5. ids' \subseteq TimerIds
  BY <1>1, <1>2 DEF TimerIds
<1> QED
  BY <1>1, <1>2, <1>4, <1>5, CallerStep

-----------------------------------------------------------------------------
(***************************************************************************)
(* Cancelling                                                              *)
(***************************************************************************)

\* What a step that runs cancelInLoop keeps of the invariant; q is what is left
\* of the queue.
LEMMA CancelOk ==
  ASSUME TimerInv, NEW id \in TimerIds, CancelInLoop(id),
         UNCHANGED <<time, created, adding, ids, expired, toRun, stamp, ran, ghost>>,
         queue' \in Seq(Functors), AddsOnce(queue'), Adds(queue') = Adds(queue)
  PROVE  TimerInv'
<1>1. TypeOK /\ Paired /\ Armed /\ CancelSticks /\ AddsOnce(queue) /\ QueuedOnce /\ Known /\ Marked
      /\ (~callingExpiredTimers_ => expired = {})
  BY DEF TimerInv
<1>2. /\ time \in Nat /\ stamp \in Nat /\ timerfd \in Nat
      /\ heap \in [Addrs -> Timers \cup {Free}]
      /\ created \in 0..MaxSeq
      /\ timers_ \subseteq [when : Nat, addr : Addrs]
      /\ adding \subseteq [addr : Addrs, seq : 1..created, queued : BOOLEAN]
      /\ ids \subseteq TimerIds
      /\ activeTimers_ \subseteq Numbered /\ cancelingTimers_ \subseteq TimerIds /\ cancelled \subseteq Numbered
      /\ callingExpiredTimers_ \in BOOLEAN
      /\ expired \subseteq Addrs /\ toRun \subseteq expired
      /\ ran \subseteq 1..created /\ ghost \in BOOLEAN
  BY <1>1 DEF TypeOK
<1>3. /\ UNCHANGED <<callingExpiredTimers_, timerfd>> /\ Numbered' = Numbered
      /\ Arriving' = Arriving /\ QueuedOnce'
  BY <1>1, ArrivingKept DEF CancelInLoop, Numbered
<1>4. id.addr \in Addrs /\ \A x \in Numbered : x.addr \in Addrs
  BY DEF TimerIds, Numbered
<1>5. PICK W : W = Waiting
  OBVIOUS
<1>6. /\ timers_ = {[when |-> heap[b].when, addr |-> b] : b \in W}
      /\ activeTimers_ = {[addr |-> b, seq |-> heap[b].seq] : b \in W}
  BY <1>5, View DEF Filed
<1>7. CASE id \in activeTimers_
  <2>1. /\ cancelled' = cancelled \cup {id}
        /\ timers_' = timers_ \ {[when |-> heap[id.addr].when, addr |-> id.addr]}
        /\ activeTimers_' = activeTimers_ \ {id}
        /\ heap' = [heap EXCEPT ![id.addr] = Free]
        /\ cancelingTimers_' = cancelingTimers_
    BY <1>7 DEF CancelInLoop, Record
  <2>2. id = [addr |-> id.addr, seq |-> heap[id.addr].seq] /\ id.addr \in W
    BY <1>6, <1>7
  <2>3. /\ heap' \in [Addrs -> Timers \cup {Free}]
        /\ heap'[id.addr] = Free
        /\ \A b \in Addrs : b # id.addr => heap'[b] = heap[b]
    BY <2>1, <1>2, <1>4
  <2>4. W \subseteq Addrs
    BY <1>5, View
  <2>5. timers_' = {[when |-> heap'[b].when, addr |-> b] : b \in W \ {id.addr}}
    <3>1. timers_' = {[when |-> heap[b].when, addr |-> b] : b \in W \ {id.addr}}
      BY <2>1, <1>6
    <3> QED
      BY <3>1, <2>3, <2>4
  <2>6. activeTimers_' = {[addr |-> b, seq |-> heap'[b].seq] : b \in W \ {id.addr}}
    <3>1. activeTimers_' = {[addr |-> b, seq |-> heap[b].seq] : b \in W \ {id.addr}}
      BY <2>1, <2>2, <1>6
    <3> QED
      BY <3>1, <2>3, <2>4
  <2>7. Paired' /\ Owned'
    <3>1. PICK V : V = W \ {id.addr}
      OBVIOUS
    <3>2. Filed(heap', timers_', activeTimers_', V)
      BY <3>1, <2>5, <2>6 DEF Filed
    <3>3. \A b \in V : heap'[b] # Free
      BY <3>1, <2>3, <2>4, <1>5, View
    <3>4. \A b \in Addrs : heap'[b] # Free <=> b \in V \/ b \in expired' \/ b \in Arriving'
      BY <3>1, <2>2, <2>3, <1>3, <1>5, View
    <3>5. /\ V \subseteq Addrs /\ expired' \subseteq Addrs /\ Arriving' \subseteq Addrs
          /\ V \cap expired' = {} /\ V \cap Arriving' = {} /\ expired' \cap Arriving' = {}
      BY <3>1, <1>3, <1>5, View
    <3> QED
      BY <3>2, <3>3, <3>4, <3>5, Files
  <2>8. TypeOK'
    <3>1. cancelled' \subseteq Numbered
      BY <2>1, <1>2, <1>7
    <3> QED
      BY <3>1, <2>1, <2>3, <1>2, <1>3 DEF TypeOK
  <2>9. Known'
    BY <2>3, <1>1, <1>4 DEF Known
  <2>10. Marked'
    <3> SUFFICES ASSUME NEW x \in cancelled \cup {id}, heap'[x.addr] # Free,
                        [addr |-> x.addr, seq |-> heap'[x.addr].seq] = x
                 PROVE  x.addr \in expired /\ x \in cancelingTimers_
      BY <2>1 DEF Marked, Id
    <3>1. x.addr \in Addrs /\ x.addr # id.addr
      BY <2>3, <1>2, <1>4
    <3> QED
      BY <3>1, <2>3, <1>1 DEF Marked, Id
  <2>11. Armed' /\ CancelSticks' /\ (~callingExpiredTimers_ => expired = {})'
    BY <2>1, <1>1, <1>3 DEF Armed, CancelSticks
  <2> QED
    BY <1>3, <2>7, <2>8, <2>9, <2>10, <2>11 DEF TimerInv
<1>8. CASE id \notin activeTimers_
  <2>1. /\ cancelled' = IF id.addr \in expired /\ id = Id(id.addr)
                        THEN cancelled \cup {id} ELSE cancelled
        /\ cancelingTimers_' = IF callingExpiredTimers_
                               THEN cancelingTimers_ \cup {id} ELSE cancelingTimers_
        /\ UNCHANGED <<timers_, activeTimers_, heap>>
    BY <1>8 DEF CancelInLoop, Record
  <2>2. TypeOK'
    <3>1. ASSUME id.addr \in expired, id = Id(id.addr)
          PROVE  id \in Numbered
      <4>1. heap[id.addr] # Free /\ id = [addr |-> id.addr, seq |-> heap[id.addr].seq]
        BY <3>1, <1>4, View DEF Id
      <4>2. heap[id.addr].seq \in 1..created
        BY <4>1, <1>1, <1>4 DEF Known
      <4> QED
        BY <4>1, <4>2, <1>4 DEF Numbered
    <3>2. cancelled' \subseteq Numbered /\ cancelingTimers_' \subseteq TimerIds
      BY <2>1, <3>1, <1>2
    <3> QED
      BY <3>2, <2>1, <1>2, <1>3 DEF TypeOK
  <2>3. Paired' /\ Owned'
    <3>1. Filed(heap', timers_', activeTimers_', W)
      BY <2>1, <1>6 DEF Filed
    <3>2. \A b \in W : heap'[b] # Free
      BY <2>1, <1>5, View
    <3>3. \A b \in Addrs : heap'[b] # Free <=> b \in W \/ b \in expired' \/ b \in Arriving'
      BY <2>1, <1>3, <1>5, View
    <3>4. /\ W \subseteq Addrs /\ expired' \subseteq Addrs /\ Arriving' \subseteq Addrs
          /\ W \cap expired' = {} /\ W \cap Arriving' = {} /\ expired' \cap Arriving' = {}
      BY <1>3, <1>5, View
    <3> QED
      BY <3>1, <3>2, <3>3, <3>4, Files
  <2>4. Known'
    BY <2>1, <1>1 DEF Known
  <2>5. Marked'
    <3> SUFFICES ASSUME NEW x \in cancelled', heap[x.addr] # Free,
                        [addr |-> x.addr, seq |-> heap[x.addr].seq] = x
                 PROVE  x.addr \in expired /\ x \in cancelingTimers_'
      BY <2>1 DEF Marked, Id
    <3>1. CASE x \in cancelled
      BY <3>1, <2>1, <1>1 DEF Marked, Id
    <3>2. CASE x \notin cancelled
      <4>1. x = id /\ id.addr \in expired
        BY <3>2, <2>1
      <4>2. callingExpiredTimers_
        BY <4>1, <1>1
      <4> QED
        BY <4>1, <4>2, <2>1
    <3> QED
      BY <3>1, <3>2
  <2>6. Armed' /\ CancelSticks' /\ (~callingExpiredTimers_ => expired = {})'
    BY <2>1, <1>1, <1>3 DEF Armed, CancelSticks
  <2> QED
    BY <1>3, <2>2, <2>3, <2>4, <2>5, <2>6 DEF TimerInv
<1> QED
  BY <1>7, <1>8

\* cancel in the loop's thread, possibly by a timer's own callback.
LEMMA StepCancelHere ==
  ASSUME TimerInv, NEW id \in TimerIds, CancelHere(id)
  PROVE  TimerInv'
<1>1. /\ CancelInLoop(id)
      /\ UNCHANGED <<time, created, adding, ids, expired, toRun, stamp, ran, ghost>> /\ UNCHANGED queue
  BY DEF CancelHere, batchVars
<1>2. queue' \in Seq(Functors) /\ AddsOnce(queue') /\ Adds(queue') = Adds(queue)
  BY <1>1 DEF TimerInv, TypeOK
<1> QED
  BY <1>1, <1>2, CancelOk

\* cancel in another thread.
LEMMA StepCancelElsewhere ==
  ASSUME TimerInv, NEW id \in TimerIds, CancelElsewhere(id)
  PROVE  TimerInv'
<1> DEFINE fn == [op |-> "cancel", id |-> id]
<1>1. /\ queue' = Append(queue, fn)
      /\ UNCHANGED <<time, heap, created, adding, ids, timers_, activeTimers_, cancelingTimers_,
                     callingExpiredTimers_, timerfd, expired, toRun, stamp, ran, cancelled, ghost>>
  BY DEF CancelElsewhere, queueVars, batchVars, history
<1>2. fn \in Functors /\ fn.op = "cancel"
  BY DEF Functors
<1> HIDE DEF fn
<1>3. /\ queue \in Seq(Functors) /\ AddsOnce(queue) /\ QueuedOnce /\ ids \subseteq TimerIds
      /\ adding \subseteq [addr : Addrs, seq : 1..created, queued : BOOLEAN]
  BY DEF TimerInv, TypeOK
<1>4. /\ queue' \in Seq(Functors) /\ AddsOnce(queue')
      /\ \A b : b \in Adds(queue') <=> b \in Adds(queue)
  BY <1>1, <1>2, <1>3, AddsAppend
<1>5. Arriving' = Arriving /\ QueuedOnce'
  BY <1>1, <1>3, <1>4, ArrivingKept
<1> QED
  BY <1>1, <1>3, <1>4, <1>5, CallerStep

-----------------------------------------------------------------------------
(***************************************************************************)
(* The loop                                                                *)
(***************************************************************************)

\* A queued addTimerInLoop: the timer that was arriving waits.
LEMMA StepRunAdd ==
  ASSUME TimerInv, RunFunctor, Head(queue).op = "add"
  PROVE  TimerInv'
<1>1. PICK a : a = Head(queue).id.addr
  OBVIOUS
<1>2. /\ ~callingExpiredTimers_ /\ queue # <<>> /\ queue' = Tail(queue)
      /\ AddTimerInLoop(a, heap[a])
      /\ UNCHANGED <<time, heap, created, adding, ids, expired, toRun, stamp, ran, cancelled, ghost>>
      /\ UNCHANGED <<cancelingTimers_, callingExpiredTimers_>>
  BY <1>1 DEF RunFunctor, AddTimerInLoop, batchVars
<1>3. TypeOK /\ Paired /\ Armed /\ CancelSticks /\ AddsOnce(queue) /\ QueuedOnce /\ Known /\ Marked
      /\ (~callingExpiredTimers_ => expired = {})
  BY DEF TimerInv
<1>4. /\ time \in Nat /\ stamp \in Nat
      /\ heap \in [Addrs -> Timers \cup {Free}]
      /\ created \in 0..MaxSeq
      /\ adding \subseteq [addr : Addrs, seq : 1..created, queued : BOOLEAN]
      /\ ids \subseteq TimerIds
      /\ activeTimers_ \subseteq Numbered /\ cancelingTimers_ \subseteq TimerIds /\ cancelled \subseteq Numbered
      /\ callingExpiredTimers_ \in BOOLEAN
      /\ queue \in Seq(Functors)
      /\ expired \subseteq Addrs /\ toRun \subseteq expired
      /\ ran \subseteq 1..created /\ ghost \in BOOLEAN
  BY <1>3 DEF TypeOK
<1>5. /\ queue' \in Seq(Functors) /\ AddsOnce(queue')
      /\ a \in Adds(queue)
      /\ \A b : b \in Adds(queue') <=> b \in Adds(queue) /\ b # a
  BY <1>1, <1>2, <1>3, <1>4, AddsTail
<1>6. /\ \A b : b \in Arriving' <=> b \in Arriving /\ b # a
      /\ QueuedOnce'
  <2>1. Unqueued' = Unqueued
    BY <1>2 DEF Unqueued
  <2>2. \A c \in Unqueued : c.addr # a
    BY <1>3, <1>5 DEF QueuedOnce
  <2> QED
    BY <2>1, <2>2, <1>3, <1>5 DEF Arriving, QueuedOnce
<1>7. a \in Addrs /\ heap[a] # Free /\ heap[a] \in Timers /\ a \notin Waiting
  BY <1>4, <1>5, View
<1>8. /\ Filed(heap', timers_', activeTimers_', Waiting \cup {a})
      /\ timers_' \subseteq [when : Nat, addr : Addrs]
      /\ activeTimers_' = activeTimers_ \cup {[addr |-> a, seq |-> heap[a].seq]}
      /\ timerfd' \in Nat
      /\ ~callingExpiredTimers_ => timerfd' # 0
  BY <1>2, <1>3, <1>7, InsertOk
<1>9. activeTimers_' \subseteq Numbered
  BY <1>3, <1>4, <1>7, <1>8 DEF Known, Numbered
<1>10. TypeOK'
  <2>1. Numbered' = Numbered
    BY <1>2 DEF Numbered
  <2> QED
    BY <1>2, <1>4, <1>5, <1>8, <1>9, <2>1 DEF TypeOK
<1>11. Paired' /\ Owned'
  <2>1. PICK W : W = Waiting \cup {a}
    OBVIOUS
  <2>2. \A b \in W : heap'[b] # Free
    <3>1. heap' = heap
      BY <1>2
    <3>2. Waiting \subseteq Addrs /\ \A b \in Waiting : heap[b] # Free
      BY View
    <3> QED
      BY <2>1, <3>1, <3>2, <1>7
  <2>3. \A b \in Addrs : heap'[b] # Free <=> b \in W \/ b \in expired' \/ b \in Arriving'
    <3>1. heap' = heap /\ expired' = expired
      BY <1>2
    <3>2. a \in Arriving
      BY <1>5, View
    <3>3. \A b \in Addrs : heap[b] # Free <=> b \in Waiting \/ b \in expired \/ b \in Arriving
      BY View
    <3> QED
      BY <2>1, <3>1, <3>2, <3>3, <1>6
  <2>4. /\ W \subseteq Addrs /\ expired' \subseteq Addrs /\ Arriving' \subseteq Addrs
        /\ W \cap expired' = {} /\ W \cap Arriving' = {} /\ expired' \cap Arriving' = {}
    BY <2>1, <1>2, <1>5, <1>7, <1>6, View
  <2> QED
    BY <2>1, <2>2, <2>3, <2>4, <1>8, Files
<1>12. Armed' /\ CancelSticks' /\ (~callingExpiredTimers_ => expired = {})' /\ Known' /\ Marked'
  <2>1. Armed'
    BY <1>2, <1>8 DEF Armed
  <2>2. CancelSticks' /\ (~callingExpiredTimers_ => expired = {})'
    BY <1>2, <1>3 DEF CancelSticks
  <2>3. Known'
    BY <1>2, <1>3 DEF Known
  <2>4. /\ heap' = heap /\ expired' = expired /\ cancelled' = cancelled
        /\ cancelingTimers_' = cancelingTimers_
    BY <1>2
  <2>5. Marked'
    BY <1>3, <2>4 DEF Marked, Id
  <2> QED
    BY <2>1, <2>2, <2>3, <2>5
<1> QED
  BY <1>5, <1>6, <1>10, <1>11, <1>12 DEF TimerInv

\* A queued addTimerInLoop or cancelInLoop.
LEMMA StepRunFunctor ==
  ASSUME TimerInv, RunFunctor
  PROVE  TimerInv'
<1>1. CASE Head(queue).op = "add"
  BY <1>1, StepRunAdd
<1>2. CASE Head(queue).op = "cancel"
  <2>1. /\ queue # <<>> /\ queue' = Tail(queue)
        /\ CancelInLoop(Head(queue).id)
        /\ UNCHANGED <<time, created, adding, ids, expired, toRun, stamp, ran, ghost>>
    BY <1>2 DEF RunFunctor, batchVars
  <2>2. queue \in Seq(Functors) /\ AddsOnce(queue)
    BY DEF TimerInv, TypeOK
  <2>3. /\ Head(queue) \in Functors /\ queue' \in Seq(Functors) /\ AddsOnce(queue')
        /\ \A b : b \in Adds(queue') <=> b \in Adds(queue)
    BY <1>2, <2>1, <2>2, AddsTail
  <2>4. Head(queue).id \in TimerIds /\ Adds(queue') = Adds(queue)
    BY <2>3 DEF Functors
  <2> QED
    BY <2>1, <2>3, <2>4, CancelOk
<1> QED
  BY <1>1, <1>2 DEF RunFunctor

\* handleRead moves the timers that are due from timers_ to the batch.
LEMMA StepHandleRead ==
  ASSUME TimerInv, HandleRead
  PROVE  TimerInv'
<1>1. PICK due : due = {e \in timers_ : e.when <= Now}
  OBVIOUS
<1>2. /\ ~callingExpiredTimers_
      /\ timerfd' = 0 /\ stamp' = Now
      /\ timers_' = timers_ \ due
      /\ expired' = {e.addr : e \in due}
      /\ toRun' = expired'
      /\ activeTimers_' = {x \in activeTimers_ : x.addr \notin expired'}
      /\ callingExpiredTimers_' = TRUE /\ cancelingTimers_' = {}
      /\ UNCHANGED <<time, heap, created, adding, ids, queue, ran, cancelled, ghost>>
  BY <1>1 DEF HandleRead, history
<1>3. TypeOK /\ Paired /\ Armed /\ CancelSticks /\ AddsOnce(queue) /\ QueuedOnce /\ Known /\ Marked
      /\ (~callingExpiredTimers_ => expired = {})
  BY DEF TimerInv
<1>4. /\ time \in Nat
      /\ heap \in [Addrs -> Timers \cup {Free}]
      /\ created \in 0..MaxSeq
      /\ timers_ \subseteq [when : Nat, addr : Addrs]
      /\ adding \subseteq [addr : Addrs, seq : 1..created, queued : BOOLEAN]
      /\ ids \subseteq TimerIds
      /\ activeTimers_ \subseteq Numbered /\ cancelled \subseteq Numbered
      /\ queue \in Seq(Functors)
      /\ ran \subseteq 1..created /\ ghost \in BOOLEAN
  BY <1>3 DEF TypeOK
<1>5. PICK W : W = Waiting
  OBVIOUS
<1>6. /\ timers_ = {[when |-> heap[b].when, addr |-> b] : b \in W}
      /\ activeTimers_ = {[addr |-> b, seq |-> heap[b].seq] : b \in W}
      /\ W \subseteq Addrs
  BY <1>5, View DEF Filed
<1>7. expired' \subseteq W /\ \A e \in timers_ : e \in due <=> e.addr \in expired'
  <2>1. due \subseteq timers_
    BY <1>1
  <2>2. \A e, f \in timers_ : e.addr = f.addr => e = f
    BY <1>3 DEF Paired
  <2>3. \A e \in timers_ : e.addr \in W
    BY <1>5 DEF Waiting
  <2> QED
    BY <2>1, <2>2, <2>3, <1>2
<1>8. timers_' = {[when |-> heap'[b].when, addr |-> b] : b \in W \ expired'}
  BY <1>2, <1>6, <1>7
<1>9. activeTimers_' = {[addr |-> b, seq |-> heap'[b].seq] : b \in W \ expired'}
  BY <1>2, <1>6
<1>10. Arriving' = Arriving /\ QueuedOnce'
  BY <1>2, <1>3, ArrivingKept
<1>11. Paired' /\ Owned'
  <2>1. PICK V : V = W \ expired'
    OBVIOUS
  <2>2. Filed(heap', timers_', activeTimers_', V)
    BY <2>1, <1>8, <1>9 DEF Filed
  <2>3. \A b \in V : heap'[b] # Free
    BY <2>1, <1>2, <1>5, View
  <2>4. \A b \in Addrs : heap'[b] # Free <=> b \in V \/ b \in expired' \/ b \in Arriving'
    BY <2>1, <1>2, <1>3, <1>5, <1>7, <1>10, View
  <2>5. /\ V \subseteq Addrs /\ expired' \subseteq Addrs /\ Arriving' \subseteq Addrs
        /\ V \cap expired' = {} /\ V \cap Arriving' = {} /\ expired' \cap Arriving' = {}
    BY <2>1, <1>2, <1>5, <1>6, <1>7, <1>10, View
  <2> QED
    BY <2>2, <2>3, <2>4, <2>5, Files
<1>12. TypeOK'
  <2>1. Numbered' = Numbered /\ Now \in Nat
    BY <1>2, <1>4, ClockOk DEF Numbered
  <2>2. expired' \subseteq Addrs
    BY <1>6, <1>7
  <2> QED
    BY <1>2, <1>4, <2>1, <2>2 DEF TypeOK
<1>13. Known'
  BY <1>2, <1>3 DEF Known
<1>14. Marked'
  BY <1>2, <1>3 DEF Marked, Id
<1>15. Armed' /\ CancelSticks' /\ (~callingExpiredTimers_ => expired = {})' /\ AddsOnce(queue)'
  BY <1>2, <1>3 DEF Armed, CancelSticks
<1> QED
  BY <1>11, <1>12, <1>13, <1>14, <1>15, <1>10 DEF TimerInv

\* A timer that is run exists, and is not one that was cancelled before its batch.
LEMMA StepRunTimer ==
  ASSUME TimerInv, NEW a \in Addrs, RunTimer(a)
  PROVE  TimerInv'
<1>1. /\ a \in toRun /\ toRun' = toRun \ {a}
      /\ ran' = ran \cup {heap[a].seq}
      /\ ghost' = (ghost \/ Id(a) \in cancelled \ cancelingTimers_)
      /\ UNCHANGED <<time, heap, created, adding, ids, timers_, activeTimers_, cancelingTimers_,
                     callingExpiredTimers_, timerfd, queue, expired, stamp, cancelled>>
  BY DEF RunTimer, queueVars
<1>2. TypeOK /\ Paired /\ Owned /\ Armed /\ CancelSticks /\ AddsOnce(queue) /\ QueuedOnce /\ Known /\ Marked
      /\ (~callingExpiredTimers_ => expired = {})
  BY DEF TimerInv
<1>3. toRun \subseteq expired /\ expired \subseteq Addrs /\ ran \subseteq 1..created
  BY <1>2 DEF TypeOK
<1>4. a \in expired /\ heap[a] # Free
  BY <1>1, <1>3, View
<1>5. heap[a].seq \in 1..created /\ Id(a).addr = a
  BY <1>2, <1>4 DEF Known, Id
<1>6. ~ghost'
  <2>1. Id(a) \in cancelled => Id(a) \in cancelingTimers_
    BY <1>2, <1>4, <1>5 DEF Marked
  <2> QED
    BY <2>1, <1>1, <1>2 DEF CancelSticks
<1>7. TypeOK'
  <2>1. Numbered' = Numbered /\ ran' \subseteq 1..created /\ ghost' \in BOOLEAN
    BY <1>1, <1>3, <1>5, <1>6 DEF Numbered
  <2>2. toRun' \subseteq expired
    BY <1>1, <1>3
  <2> QED
    BY <1>1, <1>2, <2>1, <2>2 DEF TypeOK
<1>8. Paired' /\ Owned' /\ Armed' /\ Known' /\ Marked'
      /\ (~callingExpiredTimers_ => expired = {})' /\ AddsOnce(queue)' /\ QueuedOnce'
  BY <1>1, <1>2 DEF Paired, Owned, Armed, Known, Marked, Id, Waiting, Arriving, Unqueued, QueuedOnce
<1> QED
  BY <1>6, <1>7, <1>8 DEF TimerInv, CancelSticks

\* reset: every timer of the batch is inserted again or deleted, the cancelled
\* ones are deleted, and the timerfd is armed for the earliest.
LEMMA StepReset ==
  ASSUME TimerInv, Reset
  PROVE  TimerInv'
<1>1. PICK again : again = {a \in expired : heap[a].interval > 0 /\ Id(a) \notin cancelingTimers_}
  OBVIOUS
<1>2. /\ callingExpiredTimers_ /\ toRun = {} /\ callingExpiredTimers_' = FALSE
      /\ heap' = [a \in Addrs |->
                    IF a \in again
                    THEN [heap[a] EXCEPT !.when = AddTime(stamp, heap[a].interval),
                                         !.made = (stamp + heap[a].interval) * PerSecond]
                    ELSE IF a \in expired THEN Free ELSE heap[a]]
      /\ timers_' = timers_ \cup {[when |-> heap'[a].when, addr |-> a] : a \in again}
      /\ activeTimers_' = activeTimers_ \cup {Id(a) : a \in again}
      /\ expired' = {}
      /\ UNCHANGED <<time, created, adding, ids, cancelingTimers_, queue, toRun, stamp, ran, cancelled, ghost>>
  BY <1>1 DEF Reset, Restart, history
<1>3. TypeOK /\ Paired /\ CancelSticks /\ AddsOnce(queue) /\ QueuedOnce /\ Known /\ Marked
  BY DEF TimerInv
<1>4. /\ time \in Nat /\ stamp \in Nat /\ timerfd \in Nat
      /\ heap \in [Addrs -> Timers \cup {Free}]
      /\ created \in 0..MaxSeq
      /\ timers_ \subseteq [when : Nat, addr : Addrs]
      /\ adding \subseteq [addr : Addrs, seq : 1..created, queued : BOOLEAN]
      /\ ids \subseteq TimerIds
      /\ activeTimers_ \subseteq Numbered /\ cancelingTimers_ \subseteq TimerIds /\ cancelled \subseteq Numbered
      /\ queue \in Seq(Functors)
      /\ ran \subseteq 1..created /\ ghost \in BOOLEAN
  BY <1>3 DEF TypeOK
<1>5. PICK W : W = Waiting
  OBVIOUS
<1>6. /\ timers_ = {[when |-> heap[b].when, addr |-> b] : b \in W}
      /\ activeTimers_ = {[addr |-> b, seq |-> heap[b].seq] : b \in W}
      /\ W \subseteq Addrs /\ W \cap expired = {} /\ \A b \in W : heap[b] # Free
      /\ expired \subseteq Addrs /\ \A b \in expired : heap[b] # Free
  BY <1>5, View DEF Filed
<1>7. /\ again \subseteq expired
      /\ \A a \in again : heap[a] \in Timers /\ [addr |-> a, seq |-> heap[a].seq] \notin cancelingTimers_
  BY <1>1, <1>4, <1>6 DEF Id
<1>8. ASSUME NEW a \in again
      PROVE  heap'[a] \in Timers /\ heap'[a].seq = heap[a].seq
  <2>1. a \in Addrs /\ heap[a] \in [seq : 1..MaxSeq, when : Nat, interval : Nat, made : Nat]
    BY <1>6, <1>7 DEF Timers
  <2>2. heap'[a] = [heap[a] EXCEPT !.when = AddTime(stamp, heap[a].interval),
                                   !.made = (stamp + heap[a].interval) * PerSecond]
    BY <2>1, <1>2
  <2>3. stamp + heap[a].interval \in Nat
    BY <2>1, <1>4
  <2>4. AddTime(stamp, heap[a].interval) \in Nat /\ (stamp + heap[a].interval) * PerSecond \in Nat
    BY <2>1, <2>3, <1>4, ClockOk
  <2> HIDE DEF Timers
  <2>5. heap'[a] \in [seq : 1..MaxSeq, when : Nat, interval : Nat, made : Nat]
    BY <2>1, <2>2, <2>4
  <2>6. heap'[a].seq = heap[a].seq
    BY <2>1, <2>2
  <2> QED
    BY <2>5, <2>6 DEF Timers
<1>9. /\ \A a \in Addrs : a \in expired /\ a \notin again => heap'[a] = Free
      /\ \A a \in Addrs : a \notin expired => heap'[a] = heap[a]
      /\ \A a \in again : heap'[a] # Free
      /\ heap' \in [Addrs -> Timers \cup {Free}]
  <2>1. \A a \in Addrs : a \in expired /\ a \notin again => heap'[a] = Free
    BY <1>2
  <2>2. \A a \in Addrs : a \notin expired => heap'[a] = heap[a]
    BY <1>2, <1>7
  <2>3. \A a \in again : heap'[a] # Free
    BY <1>8, FreeIsNoTimer
  <2>4. \A a \in Addrs : heap'[a] \in Timers \cup {Free}
    BY <2>1, <2>2, <1>4, <1>8
  <2>5. heap' = [a \in Addrs |-> heap'[a]]
    BY <1>2
  <2> QED
    BY <2>1, <2>2, <2>3, <2>4, <2>5
<1>10. timers_' = {[when |-> heap'[b].when, addr |-> b] : b \in W \cup again}
  <2>1. \A b \in W : heap'[b] = heap[b]
    BY <1>6, <1>9
  <2> QED
    BY <2>1, <1>2, <1>6
<1>11. activeTimers_' = {[addr |-> b, seq |-> heap'[b].seq] : b \in W \cup again}
  <2>1. \A b \in W : heap'[b] = heap[b]
    BY <1>6, <1>9
  <2>2. activeTimers_' = activeTimers_ \cup {[addr |-> b, seq |-> heap[b].seq] : b \in again}
    BY <1>2 DEF Id
  <2> QED
    BY <2>1, <2>2, <1>6, <1>8
<1>12. Arriving' = Arriving /\ QueuedOnce'
  BY <1>2, <1>3, ArrivingKept
<1>13. Paired' /\ Owned'
  <2>1. PICK V : V = W \cup again
    OBVIOUS
  <2>2. Filed(heap', timers_', activeTimers_', V)
    BY <2>1, <1>10, <1>11 DEF Filed
  <2>3. \A b \in V : heap'[b] # Free
    BY <2>1, <1>6, <1>9
  <2>4. \A b \in Addrs : heap'[b] # Free <=> b \in V \/ b \in expired' \/ b \in Arriving'
    BY <2>1, <1>2, <1>5, <1>7, <1>9, <1>12, View
  <2>5. /\ V \subseteq Addrs /\ expired' \subseteq Addrs /\ Arriving' \subseteq Addrs
        /\ V \cap expired' = {} /\ V \cap Arriving' = {} /\ expired' \cap Arriving' = {}
    BY <2>1, <1>2, <1>5, <1>7, <1>12, View
  <2> QED
    BY <2>2, <2>3, <2>4, <2>5, Files
<1>14. timers_' \subseteq [when : Nat, addr : Addrs]
  <2>1. \A a \in again : a \in Addrs /\ heap'[a].when \in Nat
    BY <1>6, <1>7, <1>8 DEF Timers
  <2>2. timers_' = timers_ \cup {[when |-> heap'[a].when, addr |-> a] : a \in again}
    BY <1>2
  <2> QED
    BY <2>1, <2>2, <1>4
<1>15. timerfd' \in Nat /\ (timers_' # {} => timerfd' # 0)
  <2>1. CASE timers_' = {}
    BY <2>1, <1>4 DEF Reset
  <2>2. CASE timers_' # {}
    <3>1. PICK S : S = {e.when : e \in timers_'}
      OBVIOUS
    <3>2. S \subseteq Nat /\ S # {}
      BY <3>1, <2>2, <1>14
    <3>3. PICK w \in S : \A v \in S : w <= v
      BY <3>2, Earliest
    <3>4. \A e \in timers_' : w <= e.when
      BY <3>1, <3>3
    <3>5. (CHOOSE v \in S : \A e \in timers_' : v <= e.when) \in S
      BY <3>3, <3>4
    <3>6. timerfd' = ResetTimerfd(CHOOSE v \in S : \A e \in timers_' : v <= e.when)
      BY <3>1, <2>2 DEF Reset
    <3> QED
      BY <3>2, <3>5, <3>6, <1>4, ResetArms
  <2> QED
    BY <2>1, <2>2
<1>16. TypeOK'
  <2>1. Numbered' = Numbered
    BY <1>2 DEF Numbered
  <2>2. \A a \in again : Id(a) \in Numbered
    BY <1>3, <1>6, <1>7 DEF Known, Id, Numbered
  <2>3. activeTimers_' \subseteq Numbered
    BY <2>2, <1>2, <1>4
  <2> QED
    BY <1>2, <1>4, <1>9, <1>14, <1>15, <2>1, <2>3 DEF TypeOK
<1>17. Known'
  <2> SUFFICES ASSUME NEW a \in Addrs, heap'[a] # Free
               PROVE  heap'[a].seq \in 1..created
    BY <1>2 DEF Known
  <2>1. heap[a] # Free /\ heap'[a].seq = heap[a].seq
    BY <1>6, <1>7, <1>8, <1>9
  <2> QED
    BY <2>1, <1>3 DEF Known
<1>18. Marked'
  <2> SUFFICES ASSUME NEW id \in cancelled, heap'[id.addr] # Free,
                      [addr |-> id.addr, seq |-> heap'[id.addr].seq] = id
               PROVE  FALSE
    BY <1>2 DEF Marked, Id
  <2>1. id.addr \in Addrs
    BY <1>4 DEF Numbered
  <2>2. heap[id.addr] # Free /\ heap'[id.addr].seq = heap[id.addr].seq
    BY <2>1, <1>6, <1>7, <1>8, <1>9
  <2>3. id.addr \in expired /\ id \in cancelingTimers_
    BY <2>2, <1>3 DEF Marked, Id
  <2>4. id.addr \in again
    BY <2>1, <2>3, <1>9
  <2> QED
    BY <2>2, <2>3, <2>4, <1>7
<1>19. Armed' /\ CancelSticks' /\ (~callingExpiredTimers_ => expired = {})' /\ AddsOnce(queue)'
  BY <1>2, <1>3, <1>15 DEF Armed, CancelSticks
<1> QED
  BY <1>13, <1>16, <1>17, <1>18, <1>19, <1>12 DEF TimerInv

\* Time passes.
LEMMA StepTick ==
  ASSUME TimerInv, Tick
  PROVE  TimerInv'
<1>1. /\ time' = time + 1
      /\ UNCHANGED <<heap, created, adding, ids, queueVars, queue, batchVars, history>>
  BY DEF Tick
<1>2. UNCHANGED <<heap, created, adding, ids, timers_, activeTimers_, cancelingTimers_,
                  callingExpiredTimers_, timerfd, queue, expired, toRun, stamp, ran, cancelled, ghost>>
  BY <1>1 DEF queueVars, batchVars, history
<1>3. TypeOK'
  <2>1. TypeOK /\ Numbered' = Numbered
    BY <1>2 DEF TimerInv, Numbered
  <2>2. time' \in Nat
    BY <2>1, <1>1 DEF TypeOK
  <2> QED
    BY <2>1, <2>2, <1>2 DEF TypeOK
<1>4. Paired' /\ Owned' /\ Armed' /\ CancelSticks' /\ Known' /\ Marked'
      /\ (~callingExpiredTimers_ => expired = {})' /\ AddsOnce(queue)' /\ QueuedOnce'
  BY <1>2 DEF TimerInv, Paired, Owned, Armed, CancelSticks, Known, Marked, Id, Waiting, Arriving,
             Unqueued, QueuedOnce
<1> QED
  BY <1>3, <1>4 DEF TimerInv

-----------------------------------------------------------------------------
(***************************************************************************)
(* The theorems                                                            *)
(***************************************************************************)

\* A new TimerQueue has no timers.
LEMMA InitTimerInv == Init => TimerInv
<1> SUFFICES ASSUME Init PROVE TimerInv
  OBVIOUS
<1>1. PerSecond \in Nat /\ MaxSeq \in Nat
  BY TimerAssumption
<1>2. queue = <<>> /\ Len(queue) = 0 /\ queue \in Seq(Functors)
  BY DEF Init
<1>3. Adds(queue) = {} /\ AddsOnce(queue)
  BY <1>2 DEF Adds, AddsOnce
<1>4. TypeOK
  <2>1. heap \in [Addrs -> Timers \cup {Free}] /\ created \in 0..MaxSeq /\ time \in Nat
    BY <1>1 DEF Init
  <2> QED
    BY <2>1, <1>2 DEF Init, TypeOK
<1>5. Paired /\ Owned /\ Armed /\ CancelSticks /\ QueuedOnce /\ Known /\ Marked
      /\ (~callingExpiredTimers_ => expired = {})
  BY <1>3 DEF Init, Paired, Owned, Armed, CancelSticks, Known, Marked, Waiting, Arriving, Unqueued, QueuedOnce
<1> QED
  BY <1>3, <1>4, <1>5 DEF TimerInv

\* Every step keeps the invariant.
LEMMA NextTimerInv == TimerInv /\ [Next]_vars => TimerInv'
<1> SUFFICES ASSUME TimerInv, [Next]_vars PROVE TimerInv'
  OBVIOUS
<1>1. CASE LoopStep
  BY <1>1, StepRunFunctor, StepHandleRead, StepRunTimer, StepReset DEF LoopStep
<1>2. ASSUME NEW a \in Addrs, NEW d \in Delays, NEW i \in Intervals,
             AddTimerHere(a, NewTimer(d, i)) \/ NewElsewhere(a, NewTimer(d, i))
      PROVE  TimerInv'
  <2>1. PICK t : t = NewTimer(d, i)
    OBVIOUS
  <2>2. created < MaxSeq
    BY <1>2 DEF AddTimerHere, NewElsewhere, Allocate
  <2>3. t \in Timers /\ t.seq = created + 1
    BY <2>1, <2>2, NewTimerOk DEF TimerInv
  <2> QED
    BY <1>2, <2>1, <2>3, StepAddTimerHere, StepNewElsewhere
<1>3. ASSUME NEW id \in ids, CancelHere(id) \/ CancelElsewhere(id) PROVE TimerInv'
  <2>1. id \in TimerIds
    BY DEF TimerInv, TypeOK
  <2> QED
    BY <2>1, <1>3, StepCancelHere, StepCancelElsewhere
<1>4. ASSUME NEW c \in adding, PushElsewhere(c) \/ \E x \in 0..MaxSeq : ReturnElsewhere(c, x)
      PROVE  TimerInv'
  BY <1>4, StepPushElsewhere, StepReturnElsewhere
<1>5. CASE Tick
  BY <1>5, StepTick
<1>6. CASE UNCHANGED vars
  <2>1. UNCHANGED <<time, heap, created, adding, ids, timers_, activeTimers_, cancelingTimers_,
                    callingExpiredTimers_, timerfd, queue, expired, toRun, stamp, ran, cancelled, ghost>>
    BY <1>6 DEF vars, queueVars, batchVars, history
  <2>2. Numbered' = Numbered /\ TypeOK
    BY <2>1 DEF Numbered, TimerInv
  <2>3. TypeOK'
    BY <2>1, <2>2 DEF TypeOK
  <2>4. Paired' /\ Owned' /\ Armed' /\ CancelSticks' /\ Known' /\ Marked'
        /\ (~callingExpiredTimers_ => expired = {})' /\ AddsOnce(queue)' /\ QueuedOnce'
    BY <2>1 DEF TimerInv, Paired, Owned, Armed, CancelSticks, Known, Marked, Id, Waiting,
                Arriving, Unqueued, QueuedOnce
  <2> QED
    BY <2>3, <2>4 DEF TimerInv
<1> QED
  BY <1>1, <1>2, <1>3, <1>5, <1>6, <1>4 DEF Next

\* The inductive invariant, with TimerQueue's types, holds of every reachable
\* state (TimerQueue.cc:90-219).
THEOREM TimerInvariant == Spec => []TimerInv
BY InitTimerInv, NextTimerInv, PTL DEF Spec

\* timers_ and activeTimers_ list the same timers, each under its own expiration,
\* whatever adds, cancels and batches come between (TimerQueue.cc:122-124,
\* 157-163, 199-219).
THEOREM TimersPaired == Spec => []Paired
<1>1. TimerInv => Paired
  BY DEF TimerInv
<1> QED
  BY <1>1, TimerInvariant, PTL

\* In the loop every Timer has exactly one owner until it is deleted: the loop runs,
\* inserts and deletes none after its deletion, and leaks none, whatever its callers
\* read at TimerQueue.cc:97 and cancel (TimerQueue.cc:94-96, 123, 144, 184).  It
\* does not say that the Timer a caller reads there still exists.
THEOREM TimersOwned == Spec => []Owned
<1>1. TimerInv => Owned
  BY DEF TimerInv
<1> QED
  BY <1>1, TimerInvariant, PTL

\* While timers wait and no batch is being run, the timerfd is armed
\* (TimerQueue.cc:110-113, 188-196).
THEOREM TimerfdArmed == Spec => []Armed
<1>1. TimerInv => Armed
  BY DEF TimerInv
<1> QED
  BY <1>1, TimerInvariant, PTL

\* A timer that cancelInLoop found is run in no later batch, also when it was
\* cancelled by its own callback (TimerQueue.cc:116-130, 175-176).
THEOREM CancelIsFinal == Spec => []CancelSticks
<1>1. TimerInv => CancelSticks
  BY DEF TimerInv
<1> QED
  BY <1>1, TimerInvariant, PTL

=============================================================================
