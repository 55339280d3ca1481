----------------------------- MODULE TimerQueue -----------------------------
(***************************************************************************)
(* TimerQueue with Timer, TimerId and Timestamp, on the loop it was given: *)
(* timers are added and cancelled by any thread, through runInLoop, and    *)
(* run by the loop's thread when the timerfd fires.                        *)
(*                                                                         *)
(* time is real time in microseconds.  Timestamp::now() is time(NULL): it  *)
(* counts seconds, while addTime and howMuchTimeFromNow count              *)
(* microseconds; the model keeps the two units apart.                      *)
(***************************************************************************)
EXTENDS Naturals, Sequences

CONSTANTS
  Addrs,       \* addresses a Timer object may get from new
  Free,        \* nothing is allocated at an address
  PerSecond,   \* kMicroSecondsPerSecond
  MinWait,     \* the shortest wait howMuchTimeFromNow asks for (100)
  Delays,      \* delays timers are added with, in seconds
  Intervals,   \* intervals of timers in seconds; 0: run once
  MaxSeq,      \* bound: timers created, and numbers read from freed memory
  AddBy,       \* bound: timers are added until then
  MaxTime,     \* bound: time stops here, for this moment and all later ones
  MaxQueue     \* bound: functors waiting

ASSUME TimerAssumption ==
  /\ Free \notin [seq : Nat, when : Nat, interval : Nat, made : Nat]
  /\ PerSecond \in Nat \ {0} /\ MinWait \in Nat \ {0}
  /\ Delays \subseteq Nat /\ Intervals \subseteq Nat
  /\ MaxSeq \in Nat /\ AddBy \in Nat /\ MaxTime \in Nat \ {0} /\ MaxQueue \in Nat

VARIABLES
  time,
  heap,                   \* per address: the Timer there, or Free
  created,                \* Timer::s_numCreated_
  adding,                 \* calls of addTimer in other threads that are under way,
                          \* each with its Timer and whether it has queued it
  ids,                    \* TimerIds that addTimer has returned
  timers_,                \* TimerList: set of [when, addr]
  activeTimers_,          \* ActiveTimerSet: set of [addr, seq]
  cancelingTimers_,
  callingExpiredTimers_,
  timerfd,                \* when the timerfd fires; 0: disarmed
  queue,                  \* functors of other threads, oldest first
  expired,                \* handleRead's local: addresses taken out of timers_
  toRun,                  \* those of them that have not run yet
  stamp,                  \* handleRead's local now
  ran,                    \* history: sequence numbers of timers that have run
  cancelled,              \* history: timers cancelInLoop found
  ghost                   \* history: a cancelled timer ran in a later round

queueVars == <<timers_, activeTimers_, cancelingTimers_, callingExpiredTimers_, timerfd>>
batchVars == <<expired, toRun, stamp>>
history   == <<ran, cancelled, ghost>>
vars == <<time, heap, created, adding, ids, queueVars, queue, batchVars, history>>

\* Timestamp::now()
Now == time \div PerSecond

\* addTime
AddTime(stampArg, seconds) == stampArg + seconds * PerSecond

Id(a) == [addr |-> a, seq |-> heap[a].seq]

Init ==
  /\ time = PerSecond      \* the epoch is past: now() is a valid Timestamp
  /\ heap = [a \in Addrs |-> Free]
  /\ created = 0 /\ adding = {} /\ ids = {}
  /\ timers_ = {} /\ activeTimers_ = {} /\ cancelingTimers_ = {}
  /\ callingExpiredTimers_ = FALSE
  /\ timerfd = 0
  /\ queue = <<>>
  /\ expired = {} /\ toRun = {} /\ stamp = 0
  /\ ran = {} /\ cancelled = {} /\ ghost = FALSE

-----------------------------------------------------------------------------
(***************************************************************************)
(* In the loop                                                             *)
(***************************************************************************)

\* howMuchTimeFromNow, which takes both its operands for microseconds.
HowMuchTimeFromNow(when) == IF when < Now + MinWait THEN MinWait ELSE when - Now

\* resetTimerfd: when the timerfd fires next.
ResetTimerfd(when) ==
  LET fires == time + HowMuchTimeFromNow(when)
  IN  IF fires < MaxTime THEN fires ELSE MaxTime

\* insert, as far as what it returns: t comes before every waiting timer.
EarliestChanged(t) == \A e \in timers_ : t.when < e.when

\* addTimerInLoop with insert, for the timer t at address a.
AddTimerInLoop(a, t) ==
  /\ timers_' = timers_ \cup {[when |-> t.when, addr |-> a]}
  /\ activeTimers_' = activeTimers_ \cup {[addr |-> a, seq |-> t.seq]}
  /\ timerfd' = IF EarliestChanged(t) THEN ResetTimerfd(t.when) ELSE timerfd
  /\ UNCHANGED <<cancelingTimers_, callingExpiredTimers_>>

\* The history of cancelInLoop: id is that of an active timer, or of one in the
\* batch being run.
Record(id) ==
  cancelled' = IF id \in activeTimers_ \/ (id.addr \in expired /\ id = Id(id.addr))
               THEN cancelled \cup {id} ELSE cancelled

\* Mutant: the address alone identifies a timer.
MutCancelInLoop(id) ==
  /\ Record(id)
  /\ IF \E x \in activeTimers_ : x.addr = id.addr
     THEN /\ timers_' = {e \in timers_ : e.addr # id.addr}
          /\ activeTimers_' = {x \in activeTimers_ : x.addr # id.addr}
          /\ heap' = [heap EXCEPT ![id.addr] = Free]
          /\ UNCHANGED cancelingTimers_
     ELSE /\ cancelingTimers_' = IF callingExpiredTimers_
                                 THEN cancelingTimers_ \cup {id} ELSE cancelingTimers_
          /\ UNCHANGED <<timers_, activeTimers_, heap>>
  /\ UNCHANGED <<callingExpiredTimers_, timerfd>>

\* Mutant: the timer is deleted and its entry stays in timers_.
MutCancelKeepsEntry(id) ==
  /\ Record(id)
  /\ IF id \in activeTimers_
     THEN activeTimers_' = activeTimers_ \ {id} /\ heap' = [heap EXCEPT ![id.addr] = Free]
     ELSE UNCHANGED <<activeTimers_, heap>>
  /\ UNCHANGED <<timers_, cancelingTimers_, callingExpiredTimers_, timerfd>>

\* Mutant: a timer cannot be cancelled while expired timers are being run.
MutCancelIgnoresBatch(id) ==
  /\ Record(id)
  /\ IF id \in activeTimers_
     THEN /\ timers_' = timers_ \ {[when |-> heap[id.addr].when, addr |-> id.addr]}
          /\ activeTimers_' = activeTimers_ \ {id}
          /\ heap' = [heap EXCEPT ![id.addr] = Free]
     ELSE UNCHANGED <<timers_, activeTimers_, heap>>
  /\ UNCHANGED <<cancelingTimers_, callingExpiredTimers_, timerfd>>

\* cancelInLoop: an active timer is deleted; one that is being run with its
\* batch is marked, so that reset does not bring it back.
CancelInLoop(id) ==
  /\ Record(id)
  /\ IF id \in activeTimers_
     THEN /\ timers_' = timers_ \ {[when |-> heap[id.addr].when, addr |-> id.addr]}
          /\ activeTimers_' = activeTimers_ \ {id}
          /\ heap' = [heap EXCEPT ![id.addr] = Free]
          /\ UNCHANGED cancelingTimers_
     ELSE /\ cancelingTimers_' = IF callingExpiredTimers_
                                 THEN cancelingTimers_ \cup {id} ELSE cancelingTimers_
          /\ UNCHANGED <<timers_, activeTimers_, heap>>
  /\ UNCHANGED <<callingExpiredTimers_, timerfd>>

\* The loop's thread is in user code: a timer's callback, or another one.
InCallback == callingExpiredTimers_ => toRun # expired

\* The functors of other threads run when no batch of timers does.
RunFunctor ==
  /\ ~callingExpiredTimers_
  /\ queue # <<>>
  /\ queue' = Tail(queue)
  /\ \/ /\ Head(queue).op = "add"
        /\ AddTimerInLoop(Head(queue).id.addr, heap[Head(queue).id.addr])
        /\ UNCHANGED <<heap, cancelled>>
     \/ Head(queue).op = "cancel" /\ CancelInLoop(Head(queue).id)
  /\ UNCHANGED <<time, created, adding, ids, batchVars, ran, ghost>>

\* handleRead up to the first callback: readTimerfd, and getExpired.
HandleRead ==
  /\ ~callingExpiredTimers_
  /\ timerfd # 0 /\ timerfd <= time
  /\ timerfd' = 0
  /\ stamp' = Now
  /\ LET due == {e \in timers_ : e.when <= Now} IN
     /\ timers_' = timers_ \ due
     /\ expired' = {e.addr : e \in due}
     /\ toRun' = expired'
     /\ activeTimers_' = {x \in activeTimers_ : x.addr \notin expired'}
  /\ callingExpiredTimers_' = TRUE
  /\ cancelingTimers_' = {}
  /\ UNCHANGED <<time, heap, created, adding, ids, queue, history>>

\* handleRead: the next expired timer is run, the earliest first.
RunTimer(a) ==
  /\ callingExpiredTimers_
  /\ a \in toRun
  /\ \A b \in toRun : heap[a].when <= heap[b].when
  /\ toRun' = toRun \ {a}
  /\ ran' = ran \cup {heap[a].seq}
  /\ ghost' = (ghost \/ Id(a) \in cancelled \ cancelingTimers_)
  /\ UNCHANGED <<time, heap, created, adding, ids, queueVars, queue, expired, stamp, cancelled>>

\* Mutant: a timer that is not restarted is not deleted.
MutRestart(again) ==
  /\ callingExpiredTimers_ /\ toRun = {}
  /\ callingExpiredTimers_' = FALSE
  /\ heap' = [a \in Addrs |->
                IF a \in again
                THEN [heap[a] EXCEPT !.when = AddTime(stamp, heap[a].interval),
                                     !.made = (stamp + heap[a].interval) * PerSecond]
                ELSE heap[a]]
  /\ timers_' = timers_ \cup {[when |-> heap'[a].when, addr |-> a] : a \in again}
  /\ activeTimers_' = activeTimers_ \cup {Id(a) : a \in again}
  /\ expired' = {}
  /\ UNCHANGED <<time, created, adding, ids, cancelingTimers_, queue, toRun, stamp, history>>

\* The loop of reset: Timer::restart and insert for the timers in again, delete
\* for the others.
Restart(again) ==
  /\ callingExpiredTimers_ /\ toRun = {}
  /\ callingExpiredTimers_' = FALSE
  /\ heap' = [a \in Addrs |->
                IF a \in again
                THEN [heap[a] EXCEPT !.when = AddTime(stamp, heap[a].interval),
                                     !.made = (stamp + heap[a].interval) * PerSecond]
                ELSE IF a \in expired THEN Free ELSE heap[a]]
  /\ timers_' = timers_ \cup {[when |-> heap'[a].when, addr |-> a] : a \in again}
  /\ activeTimers_' = activeTimers_ \cup {Id(a) : a \in again}
  /\ expired' = {}
  /\ UNCHANGED <<time, created, adding, ids, cancelingTimers_, queue, toRun, stamp, history>>

\* Mutant: the timerfd is not armed again.
MutReset ==
  /\ Restart({a \in expired : heap[a].interval > 0 /\ Id(a) \notin cancelingTimers_})
  /\ UNCHANGED timerfd

\* handleRead after the last callback: reset.
Reset ==
  /\ Restart({a \in expired : heap[a].interval > 0 /\ Id(a) \notin cancelingTimers_})
  /\ timerfd' = IF timers_' = {} THEN timerfd
                ELSE ResetTimerfd(CHOOSE w \in {e.when : e \in timers_'} :
                                    \A e \in timers_' : w <= e.when)

-----------------------------------------------------------------------------
(***************************************************************************)
(* Callers                                                                 *)
(***************************************************************************)

\* EventLoop::runAfter and addTimer; made is the real time before which the
\* timer must not run.
NewTimer(delay, interval) ==
  [seq |-> created + 1, when |-> AddTime(Now, delay), interval |-> interval,
   made |-> time + delay * PerSecond]

\* Mutant: sequence numbers are not counted up.
MutAllocate(a, t) ==
  /\ heap[a] = Free
  /\ created < MaxSeq /\ time <= AddBy
  /\ heap' = [heap EXCEPT ![a] = t]
  /\ UNCHANGED created

\* new Timer.
Allocate(a, t) ==
  /\ heap[a] = Free
  /\ created < MaxSeq /\ time <= AddBy
  /\ created' = created + 1
  /\ heap' = [heap EXCEPT ![a] = t]

\* addTimer in the loop's thread: the timer is inserted at once.
AddTimerHere(a, t) ==
  /\ InCallback
  /\ Allocate(a, t)
  /\ AddTimerInLoop(a, t)
  /\ ids' = ids \cup {[addr |-> a, seq |-> t.seq]}
  /\ UNCHANGED <<time, adding, queue, batchVars, history>>

\* addTimer in another thread: new Timer; then runInLoop queues addTimerInLoop ...
NewElsewhere(a, t) ==
  /\ Allocate(a, t)
  /\ adding' = adding \cup {[addr |-> a, seq |-> t.seq, queued |-> FALSE]}
  /\ UNCHANGED <<time, ids, queueVars, queue, batchVars, history>>

PushElsewhere(c) ==
  /\ ~c.queued
  /\ queue' = Append(queue, [op |-> "add", id |-> [addr |-> c.addr, seq |-> c.seq]])
  /\ adding' = (adding \ {c}) \cup {[c EXCEPT !.queued = TRUE]}
  /\ UNCHANGED <<time, heap, created, ids, queueVars, batchVars, history>>

\* ... and timer->sequence() is read when the loop may have run the timer and
\* deleted it: its address may hold a later timer, or nothing, and then the number
\* read may be any.
ReturnElsewhere(c, s) ==
  /\ c.queued
  /\ heap[c.addr] # Free => s = heap[c.addr].seq
  /\ ids' = ids \cup {[addr |-> c.addr, seq |-> s]}
  /\ adding' = adding \ {c}
  /\ UNCHANGED <<time, heap, created, queueVars, queue, batchVars, history>>

\* cancel, of any TimerId that addTimer has returned.
CancelHere(id) ==
  /\ InCallback
  /\ CancelInLoop(id)
  /\ UNCHANGED <<time, created, adding, ids, queue, batchVars, ran, ghost>>

CancelElsewhere(id) ==
  /\ Len(queue) < MaxQueue
  /\ queue' = Append(queue, [op |-> "cancel", id |-> id])
  /\ UNCHANGED <<time, heap, created, adding, ids, queueVars, batchVars, history>>

Tick == time < MaxTime /\ time' = time + 1 /\ UNCHANGED <<heap, created, adding, ids, queueVars, queue, batchVars, history>>

-----------------------------------------------------------------------------
LoopStep == RunFunctor \/ HandleRead \/ (\E a \in Addrs : RunTimer(a)) \/ Reset

Next ==
  \/ LoopStep
  \/ \E a \in Addrs, d \in Delays, i \in Intervals :
       AddTimerHere(a, NewTimer(d, i)) \/ NewElsewhere(a, NewTimer(d, i))
  \/ \E c \in adding : PushElsewhere(c) \/ \E s \in 0..MaxSeq : ReturnElsewhere(c, s)
  \/ \E id \in ids : CancelHere(id) \/ CancelElsewhere(id)
  \/ Tick

Spec == Init /\ [][Next]_vars

\* Time passes, callbacks return, every round of the loop comes to both the timerfd
\* and the functors, and a thread does not stop in the middle of addTimer.
Fairness ==
  /\ WF_vars(Tick) /\ WF_vars(HandleRead) /\ SF_vars(RunFunctor)
  /\ WF_vars(\E a \in Addrs : RunTimer(a)) /\ WF_vars(Reset)
  /\ WF_vars(\E c \in adding : PushElsewhere(c))

FairSpec == Spec /\ Fairness

-----------------------------------------------------------------------------
(***************************************************************************)
(* Properties                                                              *)
(***************************************************************************)

Timers == [seq : 1..MaxSeq, when : Nat, interval : Nat, made : Nat]
\* What a caller may take for a TimerId, and the TimerIds of timers.
TimerIds == [addr : Addrs, seq : 0..MaxSeq]
Numbered == [addr : Addrs, seq : 1..created]
Functors == [op : {"add", "cancel"}, id : TimerIds]

\* The state of TimerQueue.h:47-55 keeps its types.
TypeOK ==
  /\ time \in Nat /\ stamp \in Nat /\ timerfd \in Nat
  /\ heap \in [Addrs -> Timers \cup {Free}]
  /\ created \in 0..MaxSeq
  /\ timers_ \subseteq [when : Nat, addr : Addrs]
  /\ adding \subseteq [addr : Addrs, seq : 1..created, queued : BOOLEAN]
  /\ ids \subseteq TimerIds /\ cancelingTimers_ \subseteq TimerIds
  /\ activeTimers_ \subseteq Numbered /\ cancelled \subseteq Numbered
  /\ callingExpiredTimers_ \in BOOLEAN
  /\ queue \in Seq(Functors)
  /\ expired \subseteq Addrs /\ toRun \subseteq expired
  /\ ran \subseteq 1..created /\ ghost \in BOOLEAN

\* Addresses in the hands of an addTimer that has not queued its timer, or of an
\* addTimerInLoop that has not run yet.
Adds(q) == {q[i].id.addr : i \in {j \in 1..Len(q) : q[j].op = "add"}}
Unqueued == {c \in adding : ~c.queued}
Arriving == Adds(queue) \cup {c.addr : c \in Unqueued}

Waiting == {e.addr : e \in timers_}

\* timers_ and activeTimers_ list the same timers, and timers_ files each under
\* its own expiration (TimerQueue.cc:122-124, 157-163, 199-219).
Paired ==
  /\ \A e \in timers_ : heap[e.addr] # Free /\ e.when = heap[e.addr].when
  /\ \A e, f \in timers_ : e.addr = f.addr => e = f
  /\ activeTimers_ = {Id(a) : a \in Waiting}

\* A timer is owned by one of timers_, the batch being run and an addTimer or
\* addTimerInLoop on its way, and is deleted when none owns it: the loop runs,
\* inserts and deletes no deleted timer, and leaks none (TimerQueue.cc:94-96, 123,
\* 144, 184).  The caller of addTimer owns nothing once it has queued the timer:
\* what it reads at TimerQueue.cc:97 may be deleted (ReturnElsewhere).
Owned ==
  /\ {a \in Addrs : heap[a] # Free} = Waiting \cup expired \cup Arriving
  /\ Waiting \cap expired = {} /\ Waiting \cap Arriving = {} /\ expired \cap Arriving = {}

\* While timers wait, the timerfd is armed, or the batch being run will arm it
\* (TimerQueue.cc:110-113, 188-196).
Armed == (timers_ # {} /\ ~callingExpiredTimers_) => timerfd # 0

\* A timer that cancelInLoop found runs no more, except in the batch that was
\* being run at that moment (TimerQueue.cc:116-130, 175-176).
CancelSticks == ~ghost

\* No timer is on its way to timers_ twice.
AddsOnce(q) ==
  \A i, j \in 1..Len(q) :
    (q[i].op = "add" /\ q[j].op = "add" /\ q[i].id.addr = q[j].id.addr) => i = j
QueuedOnce ==
  \A c \in Unqueued :
    /\ c.addr \notin Adds(queue)
    /\ \A d \in Unqueued : c.addr = d.addr => c = d

\* Every timer has a number that was counted up for it.
Known == \A a \in Addrs : heap[a] # Free => heap[a].seq \in 1..created

\* A timer that cancelInLoop found is deleted, or marked in the batch being run
\* so that reset will delete it.
Marked ==
  \A id \in cancelled :
    (heap[id.addr] # Free /\ Id(id.addr) = id) => (id.addr \in expired /\ id \in cancelingTimers_)

\* The state of TimerQueue.h:47-55 keeps its types, and what makes the invariants
\* above and below inductive: between two calls of handleRead no batch is left
\* over, each timer is inserted once and has its own number, and a timer that
\* was cancelled and still exists is marked (TimerQueue.cc:81-95, 116-130, 141-150,
\* 175-185).
TimerInv ==
  /\ TypeOK /\ Paired /\ Owned /\ Armed /\ CancelSticks
  /\ ~callingExpiredTimers_ => expired = {}
  /\ AddsOnce(queue) /\ QueuedOnce /\ Known /\ Marked

\* Every timer is run, unless a TimerId with its address and its number is
\* cancelled first: an old TimerId does nothing to a later timer at the same
\* address (TimerQueue.cc:118-119).  A caller that read the number of a later
\* timer at TimerQueue.cc:97 has that timer's TimerId, and cancels it.
TimersRun ==
  \A s \in 1..MaxSeq :
    (created >= s) ~> (s \in ran \/ \E id \in cancelled : id.seq = s)

\* handleRead leaves no timer behind whose time had come when it read the clock
\* (Timestamp.h:11, 18: a Timestamp holds microseconds since the epoch).
Punctual ==
  callingExpiredTimers_ =>
    \A e \in timers_ : heap[e.addr].made >= stamp * PerSecond

=============================================================================
