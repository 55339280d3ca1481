-------------------------- MODULE TcpClientProofs --------------------------
(***************************************************************************)
(* Proofs about TcpClient and its Connector, for any number of descriptors *)
(* and calls: every descriptor and every registered channel has one owner, *)
(* bare pointers find what they point to, and stop() sticks.  The argument *)
(* is the invariant ClientInv of TcpClient: the Connector is in one stage  *)
(* of connecting at a time, and what is queued, reported or timed fits it. *)
(***************************************************************************)
EXTENDS TcpClient, SequenceTheorems, WellFoundedInduction, TLAPS

-----------------------------------------------------------------------------
(***************************************************************************)
(* Functors in the order in which they run                                 *)
(***************************************************************************)

\* queueInLoop appends to the whole order.
LEMMA PushBack ==
  ASSUME NEW b \in Seq(Functors), NEW q \in Seq(Functors), NEW fn \in Functors
  PROVE  /\ b \o q \in Seq(Functors) /\ Append(q, fn) \in Seq(Functors)
         /\ b \o Append(q, fn) = Append(b \o q, fn)
OBVIOUS

\* The functor that runs next is the first of the whole order.
LEMMA TakeFirst ==
  ASSUME NEW b \in Seq(Functors), NEW q \in Seq(Functors), b # <<>>
  PROVE  /\ b \o q \in Seq(Functors) /\ b \o q # <<>>
         /\ Head(b) = Head(b \o q) /\ Head(b) \in Functors
         /\ Tail(b) \in Seq(Functors) /\ Tail(b) \o q = Tail(b \o q)
OBVIOUS

\* doPendingFunctors swaps the queue for an empty one.
LEMMA SwapKeeps == ASSUME NEW q \in Seq(Functors) PROVE <<>> \o q = q /\ q \o <<>> = q
BY ConcatEmptySeq

\* What is in the queue is in the order.
LEMMA HasQueue ==
  ASSUME NEW b \in Seq(Functors), NEW q \in Seq(Functors), NEW op
  PROVE  Has(b \o q, op) <=> Has(b, op) \/ Has(q, op)
<1>1. /\ b \o q \in Seq(Functors) /\ Len(b \o q) = Len(b) + Len(q)
      /\ Len(b) \in Nat /\ Len(q) \in Nat
      /\ \A i \in 1..Len(b) : (b \o q)[i] = b[i]
      /\ \A i \in 1..Len(q) : Len(b) + i \in 1..(Len(b) + Len(q)) /\ (b \o q)[Len(b) + i] = q[i]
  BY ConcatProperties, LenProperties
<1>2. ASSUME Has(b \o q, op) PROVE Has(b, op) \/ Has(q, op)
  <2>1. PICK i \in 1..Len(b \o q) : (b \o q)[i].op = op
    BY <1>2 DEF Has
  <2>2. CASE i <= Len(b)
    BY <2>1, <2>2, <1>1 DEF Has
  <2>3. CASE ~(i <= Len(b))
    <3>1. i - Len(b) \in 1..Len(q) /\ Len(b) + (i - Len(b)) = i
      BY <2>3, <1>1
    <3> QED
      BY <3>1, <2>1, <1>1 DEF Has
  <2> QED
    BY <2>2, <2>3
<1>3. ASSUME Has(b, op) PROVE Has(b \o q, op)
  BY <1>1, <1>3 DEF Has
<1>4. ASSUME Has(q, op) PROVE Has(b \o q, op)
  BY <1>1, <1>4 DEF Has
<1> QED
  BY <1>2, <1>3, <1>4

\* What a push adds.
LEMMA HasAppend ==
  ASSUME NEW q \in Seq(Functors), NEW fn \in Functors, NEW op
  PROVE  Has(Append(q, fn), op) <=> Has(q, op) \/ fn.op = op
<1> DEFINE r == Append(q, fn)
<1>1. /\ Len(r) = Len(q) + 1 /\ Len(q) \in Nat
      /\ \A i \in 1..Len(q) : r[i] = q[i]
      /\ r[Len(q) + 1] = fn
  BY AppendProperties, LenProperties
<1> HIDE DEF r
<1>2. Has(r, op) <=> Has(q, op) \/ fn.op = op
  BY <1>1 DEF Has
<1> QED
  BY <1>2 DEF r

\* The first of a nonempty order, and the rest.
LEMMA FirstAndRest ==
  ASSUME NEW q \in Seq(Functors), q # <<>>
  PROVE  /\ Head(q) \in Functors /\ Tail(q) \in Seq(Functors)
         /\ Len(q) \in Nat \ {0} /\ Len(Tail(q)) = Len(q) - 1
         /\ Head(q) = q[1]
         /\ \A i \in 1..Len(Tail(q)) : i + 1 \in 1..Len(q) /\ Tail(q)[i] = q[i + 1]
  BY HeadTailProperties, LenProperties, EmptySeq

\* What is left once the first functor runs.
LEMMA HasTail ==
  ASSUME NEW q \in Seq(Functors), q # <<>>, NEW op
  PROVE  /\ Has(Tail(q), op) => Has(q, op)
         /\ Has(q, op) => Has(Tail(q), op) \/ Head(q).op = op
         /\ Has(q, Head(q).op)
<1> DEFINE r == Tail(q)
           h == Head(q)
<1>1. /\ Len(q) \in Nat \ {0} /\ Len(r) = Len(q) - 1
      /\ h = q[1] /\ \A i \in 1..Len(r) : i + 1 \in 1..Len(q) /\ r[i] = q[i + 1]
  BY FirstAndRest
<1> HIDE DEF r, h
<1>2. Has(r, op) => Has(q, op)
  BY <1>1 DEF Has
<1>3. ASSUME Has(q, op) PROVE Has(r, op) \/ h.op = op
  <2>1. PICK i \in 1..Len(q) : q[i].op = op
    BY <1>3 DEF Has
  <2>2. CASE i = 1
    BY <2>1, <2>2, <1>1
  <2>3. CASE i # 1
    <3>1. i - 1 \in 1..Len(r) /\ r[i - 1] = q[i]
      BY <2>3, <1>1
    <3> QED
      BY <3>1, <2>1 DEF Has
  <2> QED
    BY <2>2, <2>3
<1>4. Has(q, h.op)
  BY <1>1 DEF Has
<1> QED
  BY <1>2, <1>3, <1>4 DEF r, h

\* Connections that exist, or are down, in cs are so in ds.
Ages(cs, ds) ==
  \A f \in Fds : /\ cs[f] # "none" => ds[f] # "none"
                 /\ cs[f] = "down" => ds[f] = "down"

\* A functor about a connection, which may be appended while the connection is open.
About(fn) == fn.op \in {"connectDestroyed", "forceCloseInLoop", "shutdownInLoop"}

IsOpen(cs, f) == cs[f] \in {"up", "closing"}
SomeOpen(cs) == \E f \in Fds : IsOpen(cs, f)

\* A functor's descriptor is a number unless the functor belongs to the Connector.
LEMMA AboutFd == ASSUME NEW fn \in Functors PROVE About(fn) <=> fn.fd \in Fds
  BY ClientAssumption DEF About, Functors

\* The order stays right when connections age.
LEMMA InOrderAges ==
  ASSUME NEW q \in Seq(Functors), NEW cs, NEW ds, InOrder(q, cs), Ages(cs, ds)
  PROVE  InOrder(q, ds)
<1>1. \A i \in 1..Len(q) : q[i] \in Functors
  OBVIOUS
<1>2. \A i \in 1..Len(q) : About(q[i]) => q[i].fd \in Fds
  BY <1>1, AboutFd
<1> QED
  BY <1>2 DEF InOrder, Ages, About

\* The order stays right when a functor is queued at the right moment.
LEMMA InOrderAppend ==
  ASSUME NEW q \in Seq(Functors), NEW cs, NEW ds, InOrder(q, cs), Ages(cs, ds), NEW fn \in Functors,
         About(fn) => IsOpen(cs, fn.fd),
         fn.op = "connectDestroyed" => ds[fn.fd] = "down",
         fn.op = "resetChannel" => \A f \in Fds : ~IsOpen(cs, f) /\ cs[f] \in {"none", "up", "closing", "down"},
         fn.op = "startInLoop" => ~Has(q, "startInLoop")
  PROVE  InOrder(Append(q, fn), ds)
<1>1. PICK r : r = Append(q, fn)
  OBVIOUS
<1>2. /\ Len(r) = Len(q) + 1 /\ Len(q) \in Nat
      /\ \A i \in 1..Len(q) : r[i] = q[i]
      /\ r[Len(q) + 1] = fn
  BY <1>1, AppendProperties, LenProperties
<1>3. \A i \in 1..Len(q) : q[i] \in Functors
  OBVIOUS
<1>4. \A i \in 1..Len(q) : About(q[i]) <=> q[i].fd \in Fds
  BY <1>3, AboutFd
<1>5. InOrder(q, ds)
  BY InOrderAges
<1>6. ASSUME NEW i \in 1..Len(r)
      PROVE  /\ r[i].op \in {"forceCloseInLoop", "shutdownInLoop"} => ds[r[i].fd] # "none"
             /\ r[i].op = "connectDestroyed" => ds[r[i].fd] = "down"
  <2>1. CASE i \in 1..Len(q)
    BY <2>1, <1>2, <1>5 DEF InOrder
  <2>2. CASE i = Len(q) + 1
    <3>1. r[i] = fn
      BY <2>2, <1>2
    <3>2. About(fn) => fn.fd \in Fds /\ ds[fn.fd] # "none"
      BY AboutFd DEF Ages, IsOpen
    <3> QED
      BY <3>1, <3>2 DEF About
  <2> QED
    BY <2>1, <2>2, <1>2
<1>7. ASSUME NEW i \in 1..Len(r), NEW j \in 1..Len(r), i < j
      PROVE  /\ r[i].op = "connectDestroyed" => r[j].fd # r[i].fd
             /\ r[i].op = "forceCloseInLoop" /\ r[j].op = "resetChannel" => ds[r[i].fd] = "down"
             /\ r[i].op = "startInLoop" => r[j].op # "startInLoop"
  <2>1. CASE j \in 1..Len(q)
    <3>1. i \in 1..Len(q) /\ r[i] = q[i] /\ r[j] = q[j]
      BY <2>1, <1>2, <1>7
    <3> QED
      BY <3>1, <2>1, <1>5, <1>7 DEF InOrder
  <2>2. CASE j = Len(q) + 1
    <3>1. i \in 1..Len(q) /\ r[i] = q[i] /\ r[j] = fn
      BY <2>2, <1>2, <1>7
    <3>2. q[i].op = "connectDestroyed" => fn.fd # q[i].fd
      <4>1. q[i].op = "connectDestroyed" => q[i].fd \in Fds /\ cs[q[i].fd] = "down"
        BY <3>1, <1>4 DEF InOrder, About
      <4> QED
        BY <4>1, AboutFd DEF IsOpen
    <3>3. q[i].op = "forceCloseInLoop" /\ fn.op = "resetChannel" => ds[q[i].fd] = "down"
      <4>1. q[i].op = "forceCloseInLoop" => q[i].fd \in Fds /\ cs[q[i].fd] # "none"
        BY <3>1, <1>4 DEF InOrder, About
      <4> QED
        BY <4>1 DEF IsOpen, Ages
    <3>4. q[i].op = "startInLoop" => fn.op # "startInLoop"
      BY <3>1 DEF Has
    <3> QED
      BY <3>1, <3>2, <3>3, <3>4
  <2> QED
    BY <2>1, <2>2, <1>2
<1>8. InOrder(r, ds)
  BY <1>6, <1>7 DEF InOrder
<1> QED
  BY <1>1, <1>8

\* The order stays right when the first functor runs, and what is known of it.
LEMMA InOrderTail ==
  ASSUME NEW q \in Seq(Functors), q # <<>>, NEW cs, InOrder(q, cs)
  PROVE  /\ InOrder(Tail(q), cs)
         /\ Head(q).op = "forceCloseInLoop" /\ cs[Head(q).fd] # "down" => ~Has(Tail(q), "resetChannel")
         /\ Head(q).op = "startInLoop" => ~Has(Tail(q), "startInLoop")
         /\ Head(q).op = "connectDestroyed" =>
              /\ cs[Head(q).fd] = "down"
              /\ \A i \in 1..Len(Tail(q)) : Tail(q)[i].fd # Head(q).fd
<1>1. PICK r, h : r = Tail(q) /\ h = Head(q)
  OBVIOUS
<1>2. /\ Len(q) \in Nat \ {0} /\ Len(r) = Len(q) - 1
      /\ h = q[1] /\ \A i \in 1..Len(r) : i + 1 \in 1..Len(q) /\ r[i] = q[i + 1]
  BY <1>1, FirstAndRest
<1>3. InOrder(r, cs)
  <2>1. ASSUME NEW i \in 1..Len(r)
        PROVE  /\ r[i].op \in {"forceCloseInLoop", "shutdownInLoop"} => cs[r[i].fd] # "none"
               /\ r[i].op = "connectDestroyed" => cs[r[i].fd] = "down"
    BY <1>2 DEF InOrder
  <2>2. ASSUME NEW i \in 1..Len(r), NEW j \in 1..Len(r), i < j
        PROVE  /\ r[i].op = "connectDestroyed" => r[j].fd # r[i].fd
               /\ r[i].op = "forceCloseInLoop" /\ r[j].op = "resetChannel" => cs[r[i].fd] = "down"
               /\ r[i].op = "startInLoop" => r[j].op # "startInLoop"
    <3>1. i + 1 \in 1..Len(q) /\ j + 1 \in 1..Len(q) /\ i + 1 < j + 1
          /\ r[i] = q[i + 1] /\ r[j] = q[j + 1]
      BY <1>2, <2>2
    <3> QED
      BY <3>1 DEF InOrder
  <2> QED
    BY <2>1, <2>2 DEF InOrder
<1>4. ASSUME NEW i \in 1..Len(r)
      PROVE  /\ h.op = "connectDestroyed" => r[i].fd # h.fd
             /\ h.op = "forceCloseInLoop" /\ r[i].op = "resetChannel" => cs[h.fd] = "down"
             /\ h.op = "startInLoop" => r[i].op # "startInLoop"
  <2>1. 1 \in 1..Len(q) /\ i + 1 \in 1..Len(q) /\ 1 < i + 1 /\ h = q[1] /\ r[i] = q[i + 1]
    BY <1>2
  <2> QED
    BY <2>1 DEF InOrder
<1>5. h.op = "connectDestroyed" => cs[h.fd] = "down"
  BY <1>2 DEF InOrder
<1> QED
  BY <1>1, <1>3, <1>4, <1>5 DEF Has

\* connectDestroyed is the last functor about its connection: the order stays right
\* when the connection is gone.
LEMMA InOrderGone ==
  ASSUME NEW q \in Seq(Functors), NEW cs, InOrder(q, cs), NEW f \in Fds,
         cs \in [Fds -> {"none", "up", "closing", "down"}],
         \A i \in 1..Len(q) : q[i].fd # f
  PROVE  InOrder(q, [cs EXCEPT ![f] = "none"])
<1>1. PICK ds : ds = [cs EXCEPT ![f] = "none"]
  OBVIOUS
<1>2. \A g \in Fds : g # f => ds[g] = cs[g]
  BY <1>1
<1>3. \A i \in 1..Len(q) : q[i] \in Functors
  OBVIOUS
<1>4. \A i \in 1..Len(q) : About(q[i]) => q[i].fd \in Fds /\ ds[q[i].fd] = cs[q[i].fd]
  BY <1>2, <1>3, AboutFd
<1>5. InOrder(q, ds)
  BY <1>4 DEF InOrder, About
<1> QED
  BY <1>1, <1>5

-----------------------------------------------------------------------------
(***************************************************************************)
(* The Connector's methods                                                 *)
(***************************************************************************)

\* The Connector r is c but for the fields that are not in this list.
SameCall(c, r) == r.connect_ = c.connect_ /\ r.keeper = c.keeper
SameFds(c, r) == r.open = c.open /\ r.watched = c.watched /\ r.channel_ = c.channel_
                 /\ r.state_ = c.state_

\* Connector::retry closes the descriptor, and sets a timer if connect_ is set.
LEMMA RetryOk ==
  ASSUME NEW c \in Connectors, NEW fd, NEW r, r = Retry(c, fd)
  PROVE  /\ r \in Connectors /\ SameCall(c, r)
         /\ r.open = c.open \ {fd} /\ r.watched = c.watched /\ r.channel_ = c.channel_
         /\ r.state_ = "kDisconnected" /\ r.queue = c.queue
         /\ r.timers = IF c.connect_ THEN c.timers + 1 ELSE c.timers
<1>1. /\ kInitRetryDelayMs \in Nat /\ kMaxRetryDelayMs \in Nat /\ kInitRetryDelayMs <= kMaxRetryDelayMs
      /\ c.retryDelayMs_ \in kInitRetryDelayMs..kMaxRetryDelayMs /\ c.timers \in Nat
  BY ClientAssumption DEF Connectors
<1>2. PICK d : d = [c EXCEPT !.open = @ \ {fd}, !.state_ = "kDisconnected"]
  OBVIOUS
<1>3. /\ d \in Connectors /\ SameCall(c, d)
      /\ d.open = c.open \ {fd} /\ d.watched = c.watched /\ d.channel_ = c.channel_
      /\ d.state_ = "kDisconnected" /\ d.queue = c.queue /\ d.timers = c.timers
      /\ d.retryDelayMs_ = c.retryDelayMs_
  BY <1>2 DEF Connectors, SameCall, States
<1>4. CASE ~c.connect_
  BY <1>2, <1>3, <1>4 DEF Retry
<1>5. CASE c.connect_
  <2>1. PICK m : m = Smaller(2 * c.retryDelayMs_, kMaxRetryDelayMs)
    OBVIOUS
  <2>2. m \in kInitRetryDelayMs..kMaxRetryDelayMs
    BY <2>1, <1>1 DEF Smaller
  <2>3. PICK e : e = [d EXCEPT !.timers = @ + 1, !.retryDelayMs_ = m]
    OBVIOUS
  <2>4. d.timers + 1 \in Nat
    BY <1>1, <1>3
  <2>5. /\ e \in Connectors /\ SameCall(d, e)
        /\ e.open = d.open /\ e.watched = d.watched /\ e.channel_ = d.channel_
        /\ e.state_ = d.state_ /\ e.queue = d.queue /\ e.timers = d.timers + 1
    BY <2>2, <2>3, <2>4, <1>3 DEF Connectors, SameCall
  <2>6. r = RunAfter(e)
    BY <2>1, <2>3, <1>2, <1>3, <1>5 DEF Retry
  <2>7. /\ r \in Connectors /\ SameCall(e, r)
        /\ r.open = e.open /\ r.watched = e.watched /\ r.channel_ = e.channel_
        /\ r.state_ = e.state_ /\ r.queue = e.queue /\ r.timers = e.timers
    BY <2>5, <2>6 DEF RunAfter, Connectors, SameCall
  <2> QED
    BY <2>5, <2>7, <1>3, <1>5 DEF SameCall
<1> QED
  BY <1>4, <1>5

\* The functor that clears channel_.
ResetFn == Functor("resetChannel", None)

\* What removeAndResetChannel queues is a functor.
LEMMA ResetFnOk == ResetFn \in Functors /\ ResetFn.op = "resetChannel"
BY DEF ResetFn, Functor, Functors

\* Connector::removeAndResetChannel unregisters the channel and queues its deletion.
LEMMA RemoveOk ==
  ASSUME NEW c \in Connectors, NEW r, r = RemoveAndResetChannel(c)
  PROVE  /\ r \in Connectors /\ SameCall(c, r) /\ r.proc = c.proc
         /\ r.open = c.open /\ r.watched = c.watched \ {c.channel_} /\ r.channel_ = c.channel_
         /\ r.state_ = c.state_ /\ r.queue = Append(c.queue, ResetFn) /\ r.timers = c.timers
<1>1. c.queue \in Seq(Functors) /\ Append(c.queue, ResetFn) \in Seq(Functors)
  BY ResetFnOk DEF Connectors
<1>2. PICK w, q : w = c.watched \ {c.channel_} /\ q = Append(c.queue, ResetFn)
  OBVIOUS
<1>3. r = [[c EXCEPT !.watched = w] EXCEPT !.queue = q]
  BY <1>2 DEF RemoveAndResetChannel, Queue, ResetFn, Connectors
<1>4. w \in SUBSET Fds /\ q \in Seq(Functors)
  BY <1>1, <1>2 DEF Connectors
<1>5. /\ r \in Connectors /\ SameCall(c, r) /\ r.proc = c.proc
      /\ r.open = c.open /\ r.watched = w /\ r.channel_ = c.channel_
      /\ r.state_ = c.state_ /\ r.queue = q /\ r.timers = c.timers
  BY <1>3, <1>4 DEF Connectors, SameCall
<1> QED
  BY <1>2, <1>5

\* Connector::stopInLoop ends an attempt.
LEMMA StopFields ==
  ASSUME NEW c \in Connectors, NEW r, r = StopInLoop(c)
  PROVE  /\ r \in Connectors /\ SameCall(c, r) /\ r.state_ # "kConnecting"
         /\ c.state_ # "kConnecting" => r = c
         /\ c.state_ = "kConnecting" =>
              /\ r.open = c.open \ {c.channel_} /\ r.watched = c.watched \ {c.channel_}
              /\ r.channel_ = c.channel_ /\ r.queue = Append(c.queue, ResetFn)
              /\ r.timers = IF c.connect_ THEN c.timers + 1 ELSE c.timers
<1>1. CASE c.state_ # "kConnecting"
  BY <1>1 DEF StopInLoop, SameCall
<1>2. CASE c.state_ = "kConnecting"
  <2>1. PICK d : d = RemoveAndResetChannel(c)
    OBVIOUS
  <2>2. r = Retry(d, c.channel_)
    BY <2>1, <1>2 DEF StopInLoop
  <2>3. /\ d \in Connectors /\ SameCall(c, d) /\ d.open = c.open
        /\ d.watched = c.watched \ {c.channel_} /\ d.channel_ = c.channel_
        /\ d.queue = Append(c.queue, ResetFn) /\ d.timers = c.timers
    BY <2>1, RemoveOk
  <2>4. /\ r \in Connectors /\ SameCall(d, r)
        /\ r.open = d.open \ {c.channel_} /\ r.watched = d.watched /\ r.channel_ = d.channel_
        /\ r.state_ = "kDisconnected" /\ r.queue = d.queue
        /\ r.timers = IF d.connect_ THEN d.timers + 1 ELSE d.timers
    BY <2>2, <2>3, RetryOk
  <2> QED
    BY <2>3, <2>4, <1>2 DEF SameCall
<1> QED
  BY <1>1, <1>2

\* socket() returns a number that is free.
LEMMA NewFdOk ==
  ASSUME NEW c \in Connectors, ~(Fds \subseteq c.open)
  PROVE  NewFd(c) \in Fds \ c.open
<1>1. PICK S : S = Fds \ c.open
  OBVIOUS
<1>2. S \subseteq Nat /\ S # {}
  BY <1>1, ClientAssumption
<1>3. PICK w \in S : \A v \in S : ~(<<v, w>> \in OpToRel(<, Nat))
  BY <1>2, NatLessThanWellFounded, WFMin
<1>4. \A v \in S : w <= v
  <2>1. \A v \in S : v \in Nat /\ w \in Nat
    BY <1>2
  <2>2. \A v \in S : ~(v < w)
    BY <2>1, <1>3 DEF OpToRel
  <2> QED
    BY <2>1, <2>2
<1> QED
  BY <1>1, <1>3, <1>4 DEF NewFd

\* What Connector::startInLoop may do from a state without an attempt: start one,
\* set a timer, or neither.
Attempted(c, r, fd) ==
  /\ fd \in Fds \ c.open
  /\ r.open = c.open \cup {fd} /\ r.watched = c.watched \cup {fd}
  /\ r.channel_ = fd /\ r.state_ = "kConnecting" /\ r.timers = c.timers
Postponed(c, r) ==
  /\ r.open = c.open /\ r.watched = c.watched /\ r.channel_ = c.channel_
  /\ r.state_ = "kDisconnected" /\ r.timers = c.timers + 1
Idled(c, r) == SameFds(c, r) /\ r.timers = c.timers

\* The outcomes of Connector::startInLoop, with the errors of ::connect.
LEMMA StartFields ==
  ASSUME NEW c \in Connectors, NEW r \in StartInLoop(c)
  PROVE  /\ r \in Connectors /\ SameCall(c, r) /\ r.queue = c.queue
         /\ ~c.connect_ => r = c
         /\ Idled(c, r) \/ Postponed(c, r) \/ \E fd \in Fds : Attempted(c, r, fd)
<1>1. CASE ~c.connect_
  BY <1>1 DEF StartInLoop, SameCall, Idled, SameFds
<1>2. CASE c.connect_
  <2>1. PICK fd : fd = NewFd(c)
    OBVIOUS
  <2>2. PICK s : s = [c EXCEPT !.open = @ \cup {fd}, !.refused = FALSE]
    OBVIOUS
  <2>3. r \in {[c EXCEPT !.proc = "exit"]}
              \cup (IF Fds \subseteq c.open THEN {}
                    ELSE {Connecting(s, fd), Retry(s, fd), [c EXCEPT !.refused = TRUE]})
    BY <2>1, <2>2, <1>2 DEF StartInLoop, Connect
  <2>4. CASE r = [c EXCEPT !.proc = "exit"]
    <3>1. r \in Connectors /\ SameCall(c, r) /\ r.queue = c.queue /\ SameFds(c, r) /\ r.timers = c.timers
      BY <2>4 DEF Connectors, SameCall, SameFds
    <3> QED
      BY <3>1, <1>2 DEF Idled
  <2>5. CASE r # [c EXCEPT !.proc = "exit"]
    <3>1. /\ ~(Fds \subseteq c.open)
          /\ r = Connecting(s, fd) \/ r = Retry(s, fd) \/ r = [c EXCEPT !.refused = TRUE]
      BY <2>3, <2>5
    <3>2. fd \in Fds \ c.open
      BY <2>1, <3>1, NewFdOk
    <3>3. /\ s \in Connectors /\ SameCall(c, s) /\ s.open = c.open \cup {fd}
          /\ s.watched = c.watched /\ s.channel_ = c.channel_ /\ s.state_ = c.state_
          /\ s.queue = c.queue /\ s.timers = c.timers
      BY <2>2, <3>2 DEF Connectors, SameCall
    <3>4. CASE r = Connecting(s, fd)
      <4>1. /\ r \in Connectors /\ SameCall(s, r) /\ r.open = s.open
            /\ r.watched = s.watched \cup {fd} /\ r.channel_ = fd /\ r.state_ = "kConnecting"
            /\ r.queue = s.queue /\ r.timers = s.timers
        BY <3>2, <3>3, <3>4 DEF Connecting, Connectors, SameCall, States
      <4>2. Attempted(c, r, fd)
        BY <3>2, <3>3, <4>1 DEF Attempted
      <4> QED
        BY <3>2, <3>3, <4>1, <4>2, <1>2 DEF SameCall
    <3>5. CASE r = Retry(s, fd)
      <4>1. /\ r \in Connectors /\ SameCall(s, r)
            /\ r.open = s.open \ {fd} /\ r.watched = s.watched /\ r.channel_ = s.channel_
            /\ r.state_ = "kDisconnected" /\ r.queue = s.queue
            /\ r.timers = IF s.connect_ THEN s.timers + 1 ELSE s.timers
        BY <3>3, <3>5, RetryOk
      <4>2. r.open = c.open
        BY <3>2, <3>3, <4>1
      <4>3. Postponed(c, r)
        BY <3>3, <4>1, <4>2, <1>2 DEF Postponed, SameCall
      <4> QED
        BY <3>3, <4>1, <4>3, <1>2 DEF SameCall
    <3>6. CASE r = [c EXCEPT !.refused = TRUE]
      <4>1. r \in Connectors /\ SameCall(c, r) /\ r.queue = c.queue /\ SameFds(c, r) /\ r.timers = c.timers
        BY <3>6 DEF Connectors, SameCall, SameFds
      <4> QED
        BY <4>1, <1>2 DEF Idled
    <3> QED
      BY <3>1, <3>4, <3>5, <3>6
  <2> QED
    BY <2>4, <2>5
<1> QED
  BY <1>1, <1>2

-----------------------------------------------------------------------------
(***************************************************************************)
(* The invariant as a predicate of values, to be used in the middle of a   *)
(* step too: c is a Connector, cl, al, rs, lk, cs, ph, ac and ba stand for *)
(* call, alive, restarting, connection_, conn, phase, active and batch,    *)
(* and q for the order of the functors.                                    *)
(***************************************************************************)
Try(c) == c.state_ = "kConnecting"

OwnerOf(c, cs) ==
  /\ Try(c) => c.channel_ \in c.open /\ c.channel_ \in c.watched /\ cs[c.channel_] = "none"
  /\ \A f \in Fds :
       /\ f \in c.open => cs[f] # "none" \/ (Try(c) /\ f = c.channel_)
       /\ cs[f] # "none" => f \in c.open
       /\ f \in c.watched => cs[f] # "none" \/ (Try(c) /\ f = c.channel_)

StageOf(c, cl, rs, cs, q) ==
  /\ cl \in Starts => ~Has(q, "startInLoop") /\ ~Try(c) /\ c.timers = 0 /\ ~SomeOpen(cs) /\ ~rs
  /\ Has(q, "startInLoop") => ~Try(c) /\ c.timers = 0 /\ ~SomeOpen(cs) /\ ~rs
  /\ Try(c) => c.timers = 0 /\ ~SomeOpen(cs) /\ ~rs
  /\ c.timers > 0 => ~SomeOpen(cs) /\ ~rs
  /\ SomeOpen(cs) => ~rs
  /\ c.timers <= 1
  /\ \A f, g \in Fds : IsOpen(cs, f) /\ IsOpen(cs, g) => f = g

LinkOf(al, lk, cs) ==
  /\ \A f \in Fds : al /\ IsOpen(cs, f) => lk = f
  /\ lk # None => al /\ IsOpen(cs, lk)

ResetOf(c, cl, rs, cs, ph, q) ==
  /\ Try(c) => c.channel_ # None
  /\ c.channel_ # None => Try(c) \/ Has(q, "resetChannel")
  /\ Has(q, "resetChannel") => ~Try(c) /\ cl \notin Starts /\ ~Has(q, "startInLoop") /\ ~rs
  /\ SomeOpen(cs) /\ ph = "functors" => ~Has(c.queue, "resetChannel")

FreshOf(c, cs, ph, ac, ba, q) ==
  /\ ph = "functors" => ac = {}
  /\ ph = "events" => ba = <<>>
  /\ \A e \in ac :
       /\ e.who = "connector" => (Try(c) /\ e.fd = c.channel_) \/ Has(q, "resetChannel")
       /\ e.who = "conn" => IsOpen(cs, e.fd) /\ ~Has(q, "resetChannel")
       /\ e.who = "retry" => c.timers > 0 /\ ~Has(q, "resetChannel")
       /\ e.who = "keeper" => c.keeper /\ ~Has(q, "resetChannel")

OrphanOf(c, cl, al, rs, q) ==
  /\ c.keeper => ~al
  /\ ~al =>
       /\ ~Try(c) /\ ~rs /\ cl = <<>>
       /\ ~Has(q, "startInLoop") /\ ~Has(q, "stopInLoop")
       /\ c.timers > 0 => ~c.connect_
       /\ Has(q, "resetChannel") => c.keeper

Parts(c, cl, al, rs, lk, cs, ph, ac, ba, q) ==
  /\ OwnerOf(c, cs) /\ StageOf(c, cl, rs, cs, q) /\ LinkOf(al, lk, cs) /\ InOrder(q, cs)
  /\ ResetOf(c, cl, rs, cs, ph, q) /\ FreshOf(c, cs, ph, ac, ba, q) /\ OrphanOf(c, cl, al, rs, q)

Typed(c, al, rs, lk, cs, ac, ba) ==
  /\ c \in Connectors /\ al \in BOOLEAN /\ rs \in BOOLEAN
  /\ lk \in Fds \cup {None} /\ cs \in [Fds -> {"none", "up", "closing", "down"}]
  /\ ac \subseteq Events /\ ba \in Seq(Functors)

Core(c, cl, al, rs, lk, cs, ph, ac, ba) ==
  /\ Typed(c, al, rs, lk, cs, ac, ba)
  /\ Parts(c, cl, al, rs, lk, cs, ph, ac, ba, ba \o c.queue)

\* What the types say of the values.
LEMMA CoreTypes ==
  ASSUME NEW c, NEW al, NEW rs, NEW lk, NEW cs, NEW ac, NEW ba, Typed(c, al, rs, lk, cs, ac, ba)
  PROVE  /\ c.queue \in Seq(Functors) /\ ba \in Seq(Functors) /\ ba \o c.queue \in Seq(Functors)
         /\ c.timers \in Nat /\ c.open \subseteq Fds /\ c.watched \subseteq Fds
         /\ c.channel_ \in Fds \cup {None} /\ None \notin Fds
         /\ \A f \in Fds : cs[f] \in {"none", "up", "closing", "down"}
         /\ c.keeper \in BOOLEAN /\ c.connect_ \in BOOLEAN
<1>1. c \in Connectors /\ ba \in Seq(Functors) /\ cs \in [Fds -> {"none", "up", "closing", "down"}]
  BY DEF Typed
<1>2. /\ c.queue \in Seq(Functors) /\ c.timers \in Nat /\ c.open \in SUBSET Fds
      /\ c.watched \in SUBSET Fds /\ c.channel_ \in Fds \cup {None}
      /\ c.keeper \in BOOLEAN /\ c.connect_ \in BOOLEAN
  BY <1>1 DEF Connectors
<1> QED
  BY <1>1, <1>2, ClientAssumption

\* No stage: startInLoop may begin an attempt.
NoStage(c, cl, al, rs, cs, q) ==
  /\ cl \notin Starts /\ ~Has(q, "startInLoop") /\ ~Try(c) /\ c.timers = 0 /\ ~SomeOpen(cs) /\ ~rs
  /\ ~Has(q, "resetChannel")
  /\ c.connect_ => al

\* Connector::startInLoop, out of a state in which the Connector is in no stage.
LEMMA StartOk ==
  ASSUME NEW c, NEW cl, NEW al, NEW rs, NEW lk, NEW cs, NEW ph, NEW ac, NEW ba,
         Core(c, cl, al, rs, lk, cs, ph, ac, ba),
         NoStage(c, cl, al, rs, cs, ba \o c.queue),
         NEW r \in StartInLoop(c)
  PROVE  Core(r, cl, al, rs, lk, cs, ph, ac, ba)
<1>1. PICK q : q = ba \o c.queue
  OBVIOUS
<1>2. Typed(c, al, rs, lk, cs, ac, ba) /\ Parts(c, cl, al, rs, lk, cs, ph, ac, ba, q)
  BY <1>1 DEF Core
<1>3. /\ c \in Connectors /\ c.timers \in Nat /\ c.open \subseteq Fds /\ c.watched \subseteq Fds /\ None \notin Fds
  BY <1>2, CoreTypes DEF Typed
<1>4. /\ r \in Connectors /\ SameCall(c, r) /\ r.queue = c.queue
      /\ ~c.connect_ => r = c
      /\ Idled(c, r) \/ Postponed(c, r) \/ \E fd \in Fds : Attempted(c, r, fd)
  BY <1>3, StartFields
<1>5. Typed(r, al, rs, lk, cs, ac, ba) /\ q = ba \o r.queue
  BY <1>1, <1>2, <1>4 DEF Typed
<1>6. /\ OwnerOf(c, cs) /\ StageOf(c, cl, rs, cs, q) /\ LinkOf(al, lk, cs) /\ InOrder(q, cs)
      /\ ResetOf(c, cl, rs, cs, ph, q) /\ FreshOf(c, cs, ph, ac, ba, q) /\ OrphanOf(c, cl, al, rs, q)
  BY <1>2 DEF Parts
<1>7. /\ cl \notin Starts /\ ~Has(q, "startInLoop") /\ ~Try(c) /\ c.timers = 0 /\ ~SomeOpen(cs) /\ ~rs
      /\ ~Has(q, "resetChannel") /\ (c.connect_ => al)
  BY <1>1 DEF NoStage
<1>8. r.connect_ = c.connect_ /\ r.keeper = c.keeper
  BY <1>4 DEF SameCall
<1>9. CASE ~c.connect_
  BY <1>4, <1>9
<1>10. CASE c.connect_ /\ Idled(c, r)
  <2>1. /\ r.open = c.open /\ r.watched = c.watched /\ r.channel_ = c.channel_ /\ Try(r) = Try(c)
        /\ r.timers = c.timers
    BY <1>10 DEF Idled, SameFds, Try
  <2>2. OwnerOf(r, cs)
    BY <2>1, <1>6 DEF OwnerOf
  <2>3. StageOf(r, cl, rs, cs, q)
    BY <2>1, <1>6 DEF StageOf
  <2>4. ResetOf(r, cl, rs, cs, ph, q)
    BY <2>1, <1>4, <1>6 DEF ResetOf
  <2>5. FreshOf(r, cs, ph, ac, ba, q)
    BY <2>1, <1>6, <1>8 DEF FreshOf
  <2>6. OrphanOf(r, cl, al, rs, q)
    BY <2>1, <1>6, <1>8 DEF OrphanOf
  <2> QED
    BY <2>2, <2>3, <2>4, <2>5, <2>6, <1>5, <1>6 DEF Core, Parts
<1>11. CASE c.connect_ /\ Postponed(c, r)
  <2>1. /\ r.open = c.open /\ r.watched = c.watched /\ r.channel_ = c.channel_ /\ ~Try(r)
        /\ r.timers = 1
    BY <1>7, <1>11 DEF Postponed, Try
  <2>2. OwnerOf(r, cs)
    BY <2>1, <1>6, <1>7 DEF OwnerOf
  <2>3. StageOf(r, cl, rs, cs, q)
    BY <2>1, <1>7 DEF StageOf, SomeOpen
  <2>4. ResetOf(r, cl, rs, cs, ph, q)
    BY <2>1, <1>4, <1>6, <1>7 DEF ResetOf
  <2>5. FreshOf(r, cs, ph, ac, ba, q)
    BY <2>1, <1>6, <1>7, <1>8 DEF FreshOf
  <2>6. OrphanOf(r, cl, al, rs, q)
    BY <2>1, <1>6, <1>7, <1>8, <1>11 DEF OrphanOf
  <2> QED
    BY <2>2, <2>3, <2>4, <2>5, <2>6, <1>5, <1>6 DEF Core, Parts
<1>12. ASSUME NEW fd \in Fds, c.connect_, Attempted(c, r, fd) PROVE Core(r, cl, al, rs, lk, cs, ph, ac, ba)
  <2>1. /\ fd \in Fds \ c.open /\ r.open = c.open \cup {fd} /\ r.watched = c.watched \cup {fd}
        /\ r.channel_ = fd /\ Try(r) /\ r.timers = 0 /\ fd # None
    BY <1>3, <1>7, <1>12 DEF Attempted, Try
  <2>2. OwnerOf(r, cs)
    BY <2>1, <1>6, <1>7 DEF OwnerOf
  <2>3. StageOf(r, cl, rs, cs, q)
    BY <2>1, <1>7 DEF StageOf, SomeOpen
  <2>4. ResetOf(r, cl, rs, cs, ph, q)
    BY <2>1, <1>4, <1>6, <1>7 DEF ResetOf
  <2>5. FreshOf(r, cs, ph, ac, ba, q)
    BY <2>1, <1>6, <1>7, <1>8 DEF FreshOf
  <2>6. OrphanOf(r, cl, al, rs, q)
    BY <2>1, <1>6, <1>7, <1>8, <1>12 DEF OrphanOf
  <2> QED
    BY <2>2, <2>3, <2>4, <2>5, <2>6, <1>5, <1>6 DEF Core, Parts
<1> QED
  BY <1>4, <1>9, <1>10, <1>11, <1>12

\* poll() reports descriptors.
LEMMA EventFd ==
  ASSUME NEW e \in Events
  PROVE  /\ e.who \in {"connector", "conn"} => e.fd \in Fds
         /\ e.who \in {"connector", "conn", "retry", "keeper"}
BY DEF Events

\* Connector::stopInLoop: an attempt ends, and its channel is reset later.
LEMMA StopOk ==
  ASSUME NEW c, NEW cl, NEW al, NEW rs, NEW lk, NEW cs, NEW ph, NEW ac, NEW ba,
         Core(c, cl, al, rs, lk, cs, ph, ac, ba),
         NEW r, r = StopInLoop(c)
  PROVE  Core(r, cl, al, rs, lk, cs, ph, ac, ba)
<1>1. PICK q : q = ba \o c.queue
  OBVIOUS
<1>2. Typed(c, al, rs, lk, cs, ac, ba) /\ Parts(c, cl, al, rs, lk, cs, ph, ac, ba, q)
  BY <1>1 DEF Core
<1>3. /\ c \in Connectors /\ c.timers \in Nat /\ c.open \subseteq Fds /\ c.watched \subseteq Fds
      /\ None \notin Fds /\ c.channel_ \in Fds \cup {None}
      /\ c.queue \in Seq(Functors) /\ ba \in Seq(Functors) /\ q \in Seq(Functors)
      /\ \A f \in Fds : cs[f] \in {"none", "up", "closing", "down"}
      /\ ac \subseteq Events
  BY <1>1, <1>2, CoreTypes DEF Typed
<1>4. /\ OwnerOf(c, cs) /\ StageOf(c, cl, rs, cs, q) /\ LinkOf(al, lk, cs) /\ InOrder(q, cs)
      /\ ResetOf(c, cl, rs, cs, ph, q) /\ FreshOf(c, cs, ph, ac, ba, q) /\ OrphanOf(c, cl, al, rs, q)
  BY <1>2 DEF Parts
<1>5. CASE ~Try(c)
  BY <1>3, <1>5, StopFields DEF Try
<1>6. CASE Try(c)
  <2>1. /\ r \in Connectors /\ SameCall(c, r) /\ ~Try(r)
        /\ r.open = c.open \ {c.channel_} /\ r.watched = c.watched \ {c.channel_}
        /\ r.channel_ = c.channel_ /\ r.queue = Append(c.queue, ResetFn)
        /\ r.timers = IF c.connect_ THEN c.timers + 1 ELSE c.timers
    BY <1>3, <1>6, StopFields DEF Try
  <2>2. PICK p : p = Append(q, ResetFn)
    OBVIOUS
  <2>3. p = ba \o r.queue
    <3>1. ba \o Append(c.queue, ResetFn) = Append(ba \o c.queue, ResetFn)
      BY <1>3, PushBack, ResetFnOk
    <3> QED
      BY <3>1, <2>1, <2>2, <1>1
  <2>4. \A op : Has(p, op) <=> Has(q, op) \/ op = "resetChannel"
    BY <2>2, <1>3, HasAppend, ResetFnOk
  <2>5. /\ c.timers = 0 /\ ~SomeOpen(cs) /\ ~rs /\ cl \notin Starts /\ ~Has(q, "startInLoop")
    BY <1>4, <1>6 DEF StageOf
  <2>6. al /\ ~c.keeper
    BY <1>4, <1>6 DEF OrphanOf
  <2>7. r.keeper = c.keeper /\ r.connect_ = c.connect_ /\ r.timers \in {0, 1}
    BY <2>1, <2>5 DEF SameCall
  <2>8. Typed(r, al, rs, lk, cs, ac, ba)
    BY <2>1, <1>2 DEF Typed
  <2>9. OwnerOf(r, cs)
    BY <2>1, <1>4, <1>6 DEF OwnerOf
  <2>10. StageOf(r, cl, rs, cs, p)
    BY <2>1, <2>4, <2>5, <2>7 DEF StageOf, SomeOpen
  <2>11. InOrder(p, cs)
    <3>1. Ages(cs, cs) /\ ~About(ResetFn) /\ ResetFn.op = "resetChannel"
      BY ResetFnOk DEF Ages, About
    <3>2. \A f \in Fds : ~IsOpen(cs, f)
      BY <2>5 DEF SomeOpen
    <3> QED
      BY <3>1, <3>2, <2>2, <1>3, <1>4, ResetFnOk, InOrderAppend
  <2>12. ResetOf(r, cl, rs, cs, ph, p)
    BY <2>1, <2>4, <2>5 DEF ResetOf
  <2>13. FreshOf(r, cs, ph, ac, ba, p)
    <3>1. \A e \in ac : e.who = "connector"
      BY <1>3, <1>4, <2>5, <2>6, EventFd DEF FreshOf, SomeOpen
    <3> QED
      BY <3>1, <2>4, <1>4 DEF FreshOf
  <2>14. OrphanOf(r, cl, al, rs, p)
    BY <2>6, <2>7 DEF OrphanOf
  <2> QED
    BY <2>3, <2>8, <2>9, <2>10, <2>11, <2>12, <2>13, <2>14, <1>4 DEF Core, Parts
<1> QED
  BY <1>5, <1>6

\* queueInLoop as an operation on the Connector's view of the loop.
LEMMA QueueFields ==
  ASSUME NEW c \in Connectors, NEW fn \in Functors, NEW r, r = Queue(c, fn)
  PROVE  /\ r \in Connectors /\ SameCall(c, r) /\ SameFds(c, r) /\ r.timers = c.timers
         /\ r.queue = Append(c.queue, fn) /\ r.proc = c.proc
<1>1. PICK q : q = Append(c.queue, fn)
  OBVIOUS
<1>2. q \in Seq(Functors) /\ r = [c EXCEPT !.queue = q]
  BY <1>1 DEF Queue, Connectors
<1>3. /\ r \in Connectors /\ SameCall(c, r) /\ SameFds(c, r) /\ r.timers = c.timers
      /\ r.queue = q /\ r.proc = c.proc
  BY <1>2 DEF Connectors, SameCall, SameFds
<1> QED
  BY <1>1, <1>3

\* TcpConnection::handleClose and removeConnection, which may have to restart.
LEMMA CloseOk ==
  ASSUME NEW c, NEW cl, NEW al, NEW lk, NEW cs, NEW ph, NEW ac, NEW ba,
         Core(c, cl, al, FALSE, lk, cs, ph, ac, ba),
         NEW f \in Fds, IsOpen(cs, f), ~Has(ba \o c.queue, "resetChannel"),
         \A e \in ac : e.who = "conn" => e.fd # f,
         NEW r, r = Queue(c, Functor("connectDestroyed", f)),
         NEW ds, ds = [cs EXCEPT ![f] = "down"],
         NEW rs \in BOOLEAN, rs => al
  PROVE  Core(r, cl, al, rs, None, ds, ph, ac, ba)
<1>1. PICK q : q = ba \o c.queue
  OBVIOUS
<1>2. PICK fn : fn = Functor("connectDestroyed", f)
  OBVIOUS
<1>3. Typed(c, al, FALSE, lk, cs, ac, ba) /\ Parts(c, cl, al, FALSE, lk, cs, ph, ac, ba, q)
  BY <1>1 DEF Core
<1>4. /\ c \in Connectors /\ c.timers \in Nat /\ c.open \subseteq Fds /\ c.watched \subseteq Fds
      /\ None \notin Fds /\ c.channel_ \in Fds \cup {None}
      /\ c.queue \in Seq(Functors) /\ ba \in Seq(Functors) /\ q \in Seq(Functors)
      /\ \A g \in Fds : cs[g] \in {"none", "up", "closing", "down"}
      /\ ac \subseteq Events /\ al \in BOOLEAN
      /\ cs \in [Fds -> {"none", "up", "closing", "down"}]
  BY <1>1, <1>3, CoreTypes DEF Typed
<1>5. /\ OwnerOf(c, cs) /\ StageOf(c, cl, FALSE, cs, q) /\ LinkOf(al, lk, cs) /\ InOrder(q, cs)
      /\ ResetOf(c, cl, FALSE, cs, ph, q) /\ FreshOf(c, cs, ph, ac, ba, q)
      /\ OrphanOf(c, cl, al, FALSE, q)
  BY <1>3 DEF Parts
<1>6. fn \in Functors /\ fn.op = "connectDestroyed" /\ fn.fd = f
  BY <1>2 DEF Functor, Functors
<1>7. /\ r \in Connectors /\ SameCall(c, r) /\ SameFds(c, r) /\ r.timers = c.timers
      /\ r.queue = Append(c.queue, fn)
  BY <1>2, <1>4, <1>6, QueueFields
<1>8. PICK p : p = Append(q, fn)
  OBVIOUS
<1>9. p = ba \o r.queue
  <2>1. ba \o Append(c.queue, fn) = Append(ba \o c.queue, fn)
    BY <1>4, <1>6, PushBack
  <2> QED
    BY <2>1, <1>1, <1>7, <1>8
<1>10. \A op : Has(p, op) <=> Has(q, op) \/ op = "connectDestroyed"
  BY <1>4, <1>6, <1>8, HasAppend
<1>11. /\ r.connect_ = c.connect_ /\ r.keeper = c.keeper /\ r.open = c.open /\ r.watched = c.watched
       /\ r.channel_ = c.channel_ /\ Try(r) = Try(c)
  BY <1>7 DEF SameCall, SameFds, Try
<1>12. /\ ds \in [Fds -> {"none", "up", "closing", "down"}]
       /\ ds[f] = "down" /\ \A g \in Fds : g # f => ds[g] = cs[g]
  BY <1>4
<1>13. SomeOpen(cs) /\ cs[f] # "none" /\ ~Has(q, "resetChannel")
  BY <1>1 DEF SomeOpen, IsOpen
<1>14. /\ ~Try(c) /\ c.timers = 0 /\ cl \notin Starts /\ ~Has(q, "startInLoop")
  BY <1>4, <1>5, <1>13 DEF StageOf
<1>15. ~SomeOpen(ds)
  <2>1. \A g \in Fds : IsOpen(cs, g) => g = f
    BY <1>5 DEF StageOf
  <2> QED
    BY <2>1, <1>12 DEF SomeOpen, IsOpen
<1>16. OwnerOf(r, ds)
  BY <1>5, <1>11, <1>12, <1>13, <1>14 DEF OwnerOf
<1>17. StageOf(r, cl, rs, ds, p)
  <2>1. ~Try(r) /\ r.timers = 0 /\ ~Has(p, "startInLoop") /\ \A g \in Fds : ~IsOpen(ds, g)
    BY <1>7, <1>10, <1>11, <1>14, <1>15 DEF SomeOpen
  <2>2. ~(r.timers > 0) /\ r.timers <= 1
    BY <2>1
  <2> QED
    BY <2>1, <2>2, <1>14, <1>15, Zenon DEF StageOf
<1>18. LinkOf(al, None, ds)
  BY <1>15 DEF LinkOf, SomeOpen
<1>19. InOrder(p, ds)
  <2>1. Ages(cs, ds)
    BY <1>12, <1>13 DEF Ages
  <2> QED
    BY <2>1, <1>4, <1>5, <1>6, <1>8, <1>12, InOrderAppend
<1>20. ResetOf(r, cl, rs, ds, ph, p)
  BY <1>5, <1>10, <1>11, <1>13, <1>14, <1>15 DEF ResetOf
<1>21. FreshOf(r, ds, ph, ac, ba, p)
  <2>1. \A e \in ac : e.who # "conn"
    <3> SUFFICES ASSUME NEW e \in ac, e.who = "conn" PROVE FALSE
      OBVIOUS
    <3>1. e.fd \in Fds /\ e.fd # f /\ IsOpen(cs, e.fd)
      BY <1>4, <1>5, EventFd DEF FreshOf
    <3> QED
      BY <3>1, <1>5 DEF StageOf
  <2> QED
    BY <2>1, <1>5, <1>7, <1>10, <1>11 DEF FreshOf
<1>22. OrphanOf(r, cl, al, rs, p)
  BY <1>5, <1>7, <1>10, <1>11 DEF OrphanOf
<1>23. Typed(r, al, rs, None, ds, ac, ba)
  BY <1>4, <1>7, <1>12 DEF Typed
<1> QED
  BY <1>9, <1>16, <1>17, <1>18, <1>19, <1>20, <1>21, <1>22, <1>23 DEF Core, Parts

\* An event is dispatched, and nothing else happens.
LEMMA FewerEvents ==
  ASSUME NEW c, NEW cl, NEW al, NEW rs, NEW lk, NEW cs, NEW ph, NEW ac, NEW ba,
         Core(c, cl, al, rs, lk, cs, ph, ac, ba), NEW bc, bc \subseteq ac
  PROVE  Core(c, cl, al, rs, lk, cs, ph, bc, ba)
<1>1. PICK q : q = ba \o c.queue
  OBVIOUS
<1>2. Typed(c, al, rs, lk, cs, ac, ba) /\ Parts(c, cl, al, rs, lk, cs, ph, ac, ba, q)
  BY <1>1 DEF Core
<1>3. FreshOf(c, cs, ph, ac, ba, q)
  BY <1>2 DEF Parts
<1>4. FreshOf(c, cs, ph, bc, ba, q)
  BY <1>3 DEF FreshOf
<1>5. Typed(c, al, rs, lk, cs, bc, ba)
  BY <1>2 DEF Typed
<1> QED
  BY <1>1, <1>2, <1>4, <1>5 DEF Core, Parts

\* What single assignments of the methods make of the Connector.
Told(c, b) == [c EXCEPT !.connect_ = b]
Expired(c) == [c EXCEPT !.timers = @ - 1]
Unkept(c) == [c EXCEPT !.keeper = FALSE]
Restarted(c) == [c EXCEPT !.state_ = "kDisconnected", !.connect_ = TRUE]
Cleared(c) == [c EXCEPT !.channel_ = None]
Forgotten(c, f) == [c EXCEPT !.watched = @ \ {f}, !.open = @ \ {f}]

\* connect_ is set or cleared.
LEMMA SetConnect ==
  ASSUME NEW c, NEW cl, NEW al, NEW rs, NEW lk, NEW cs, NEW ph, NEW ac, NEW ba,
         Core(c, cl, al, rs, lk, cs, ph, ac, ba), NEW b \in BOOLEAN, b => al,
         NEW r, r = Told(c, b)
  PROVE  /\ Core(r, cl, al, rs, lk, cs, ph, ac, ba)
         /\ r.connect_ = b /\ r.state_ = c.state_ /\ r.timers = c.timers /\ r.queue = c.queue
<1>1. PICK q : q = ba \o c.queue
  OBVIOUS
<1>2. Typed(c, al, rs, lk, cs, ac, ba) /\ Parts(c, cl, al, rs, lk, cs, ph, ac, ba, q)
  BY <1>1 DEF Core
<1>3. c \in Connectors
  BY <1>2 DEF Typed
<1>4. /\ r \in Connectors /\ r.connect_ = b /\ SameFds(c, r) /\ r.timers = c.timers
      /\ r.queue = c.queue /\ r.keeper = c.keeper
  BY <1>3 DEF Told, Connectors, SameFds
<1>5. /\ r.open = c.open /\ r.watched = c.watched /\ r.channel_ = c.channel_ /\ Try(r) = Try(c)
      /\ r.state_ = c.state_
  BY <1>4 DEF SameFds, Try
<1>6. /\ OwnerOf(c, cs) /\ StageOf(c, cl, rs, cs, q)
      /\ ResetOf(c, cl, rs, cs, ph, q) /\ FreshOf(c, cs, ph, ac, ba, q) /\ OrphanOf(c, cl, al, rs, q)
  BY <1>2 DEF Parts
<1>7. OwnerOf(r, cs)
  BY <1>5, <1>6 DEF OwnerOf
<1>8. StageOf(r, cl, rs, cs, q)
  BY <1>4, <1>5, <1>6, Zenon DEF StageOf
<1>9. ResetOf(r, cl, rs, cs, ph, q)
  BY <1>4, <1>5, <1>6 DEF ResetOf
<1>10. FreshOf(r, cs, ph, ac, ba, q)
  BY <1>4, <1>5, <1>6 DEF FreshOf
<1>11. OrphanOf(r, cl, al, rs, q)
  BY <1>4, <1>5, <1>6 DEF OrphanOf
<1>12. Typed(r, al, rs, lk, cs, ac, ba) /\ q = ba \o r.queue
  BY <1>1, <1>2, <1>4 DEF Typed
<1> QED
  BY <1>2, <1>4, <1>5, <1>7, <1>8, <1>9, <1>10, <1>11, <1>12 DEF Core, Parts

\* An open connection is shut down or force closed: it stays open for now.
LEMMA AgeOk ==
  ASSUME NEW c, NEW cl, NEW al, NEW rs, NEW lk, NEW cs, NEW ph, NEW ac, NEW ba,
         Core(c, cl, al, rs, lk, cs, ph, ac, ba), NEW f \in Fds, IsOpen(cs, f),
         NEW ds, ds = [cs EXCEPT ![f] = "closing"]
  PROVE  Core(c, cl, al, rs, lk, ds, ph, ac, ba) /\ IsOpen(ds, f)
<1>1. PICK q : q = ba \o c.queue
  OBVIOUS
<1>2. Typed(c, al, rs, lk, cs, ac, ba) /\ Parts(c, cl, al, rs, lk, cs, ph, ac, ba, q)
  BY <1>1 DEF Core
<1>3. cs \in [Fds -> {"none", "up", "closing", "down"}] /\ q \in Seq(Functors)
      /\ c.channel_ \in Fds \cup {None} /\ None \notin Fds /\ ac \subseteq Events
      /\ lk \in Fds \cup {None} /\ c.open \subseteq Fds
  <2>1. q \in Seq(Functors) /\ c.channel_ \in Fds \cup {None} /\ None \notin Fds /\ c.open \subseteq Fds
    BY <1>1, <1>2, CoreTypes
  <2> QED
    BY <2>1, <1>2 DEF Typed
<1>4. /\ ds \in [Fds -> {"none", "up", "closing", "down"}]
      /\ ds[f] = "closing" /\ \A g \in Fds : g # f => ds[g] = cs[g]
  BY <1>3
<1>5. /\ \A g \in Fds : IsOpen(ds, g) <=> IsOpen(cs, g)
      /\ \A g \in Fds : ds[g] = "none" <=> cs[g] = "none"
      /\ Ages(cs, ds)
  BY <1>4 DEF IsOpen, Ages
<1>6. SomeOpen(ds) <=> SomeOpen(cs)
  BY <1>5 DEF SomeOpen
<1>7. /\ OwnerOf(c, cs) /\ StageOf(c, cl, rs, cs, q) /\ LinkOf(al, lk, cs) /\ InOrder(q, cs)
      /\ ResetOf(c, cl, rs, cs, ph, q) /\ FreshOf(c, cs, ph, ac, ba, q) /\ OrphanOf(c, cl, al, rs, q)
  BY <1>2 DEF Parts
<1>8. OwnerOf(c, ds)
  BY <1>3, <1>5, <1>7 DEF OwnerOf
<1>9. StageOf(c, cl, rs, ds, q)
  BY <1>5, <1>6, <1>7, Zenon DEF StageOf
<1>10. LinkOf(al, lk, ds)
  BY <1>3, <1>5, <1>7 DEF LinkOf
<1>11. InOrder(q, ds)
  BY <1>3, <1>5, <1>7, InOrderAges
<1>12. ResetOf(c, cl, rs, ds, ph, q)
  BY <1>6, <1>7 DEF ResetOf
<1>13. FreshOf(c, ds, ph, ac, ba, q)
  <2>1. \A e \in ac : e.who = "conn" => (IsOpen(ds, e.fd) <=> IsOpen(cs, e.fd))
    BY <1>3, <1>5, EventFd
  <2> QED
    BY <2>1, <1>7 DEF FreshOf
<1>14. Typed(c, al, rs, lk, ds, ac, ba)
  BY <1>2, <1>4 DEF Typed
<1> QED
  BY <1>1, <1>5, <1>7, <1>8, <1>9, <1>10, <1>11, <1>12, <1>13, <1>14 DEF Core, Parts

\* queueInLoop of a functor other than resetChannel and connectDestroyed.
LEMMA PushOk ==
  ASSUME NEW c, NEW cl, NEW al, NEW rs, NEW lk, NEW cs, NEW ph, NEW ac, NEW ba,
         Core(c, cl, al, rs, lk, cs, ph, ac, ba), NEW fn \in Functors,
         fn.op \in {"startInLoop", "stopInLoop", "forceCloseInLoop", "shutdownInLoop"},
         About(fn) => IsOpen(cs, fn.fd), ~About(fn) => al,
         fn.op = "startInLoop" => NoStage(c, cl, al, rs, cs, ba \o c.queue),
         NEW r, r = Queue(c, fn)
  PROVE  Core(r, cl, al, rs, lk, cs, ph, ac, ba)
<1>1. PICK q : q = ba \o c.queue
  OBVIOUS
<1>2. Typed(c, al, rs, lk, cs, ac, ba) /\ Parts(c, cl, al, rs, lk, cs, ph, ac, ba, q)
  BY <1>1 DEF Core
<1>3. /\ c \in Connectors /\ c.queue \in Seq(Functors) /\ ba \in Seq(Functors) /\ q \in Seq(Functors)
  BY <1>1, <1>2, CoreTypes DEF Typed
<1>4. /\ r \in Connectors /\ SameCall(c, r) /\ SameFds(c, r) /\ r.timers = c.timers
      /\ r.queue = Append(c.queue, fn)
  BY <1>3, QueueFields
<1>5. PICK p : p = Append(q, fn)
  OBVIOUS
<1>6. p = ba \o r.queue
  <2>1. ba \o Append(c.queue, fn) = Append(ba \o c.queue, fn)
    BY <1>3, PushBack
  <2> QED
    BY <2>1, <1>1, <1>4, <1>5
<1>7. \A op : Has(p, op) <=> Has(q, op) \/ fn.op = op
  BY <1>3, <1>5, HasAppend
<1>8. Has(r.queue, "resetChannel") <=> Has(c.queue, "resetChannel")
  BY <1>3, <1>4, HasAppend
<1>9. /\ r.connect_ = c.connect_ /\ r.keeper = c.keeper /\ r.open = c.open /\ r.watched = c.watched
      /\ r.channel_ = c.channel_ /\ Try(r) = Try(c)
  BY <1>4 DEF SameCall, SameFds, Try
<1>10. /\ OwnerOf(c, cs) /\ StageOf(c, cl, rs, cs, q) /\ InOrder(q, cs)
       /\ ResetOf(c, cl, rs, cs, ph, q) /\ FreshOf(c, cs, ph, ac, ba, q) /\ OrphanOf(c, cl, al, rs, q)
  BY <1>2 DEF Parts
<1>11. /\ Has(p, "resetChannel") <=> Has(q, "resetChannel")
       /\ Has(p, "startInLoop") => Has(q, "startInLoop") \/
            (/\ cl \notin Starts /\ ~Has(q, "startInLoop") /\ ~Try(c) /\ c.timers = 0
             /\ ~SomeOpen(cs) /\ ~rs /\ ~Has(q, "resetChannel") /\ al)
       /\ Has(q, "startInLoop") => Has(p, "startInLoop")
       /\ ~al => ~Has(q, "startInLoop") /\ (Has(p, "stopInLoop") => Has(q, "stopInLoop"))
                 /\ (Has(p, "startInLoop") => Has(q, "startInLoop"))
  BY <1>1, <1>7, <1>10 DEF NoStage, About, OrphanOf
<1>12. OwnerOf(r, cs)
  BY <1>9, <1>10 DEF OwnerOf
<1>13. StageOf(r, cl, rs, cs, p)
  BY <1>4, <1>9, <1>10, <1>11, Zenon DEF StageOf
<1>14. InOrder(p, cs)
  <2>1. Ages(cs, cs)
    BY DEF Ages
  <2>2. fn.op = "startInLoop" => ~Has(q, "startInLoop")
    BY <1>1 DEF NoStage
  <2> QED
    BY <2>1, <2>2, <1>3, <1>5, <1>10, InOrderAppend
<1>15. ResetOf(r, cl, rs, cs, ph, p)
  BY <1>8, <1>9, <1>10, <1>11, Zenon DEF ResetOf
<1>16. FreshOf(r, cs, ph, ac, ba, p)
  BY <1>4, <1>9, <1>10, <1>11 DEF FreshOf
<1>17. OrphanOf(r, cl, al, rs, p)
  BY <1>4, <1>9, <1>10, <1>11 DEF OrphanOf
<1>18. Typed(r, al, rs, lk, cs, ac, ba)
  BY <1>2, <1>4 DEF Typed
<1> QED
  BY <1>2, <1>6, <1>12, <1>13, <1>14, <1>15, <1>16, <1>17, <1>18 DEF Core, Parts

\* The other thread begins a call, or goes on with it.
LEMMA SetCall ==
  ASSUME NEW c, NEW cl, NEW al, NEW rs, NEW lk, NEW cs, NEW ph, NEW ac, NEW ba,
         Core(c, cl, al, rs, lk, cs, ph, ac, ba), al, NEW dl,
         dl \in Starts => cl \in Starts \/ NoStage(c, cl, al, rs, cs, ba \o c.queue)
  PROVE  /\ Core(c, dl, al, rs, lk, cs, ph, ac, ba)
         /\ cl \in Starts /\ dl \notin Starts => NoStage(c, dl, al, rs, cs, ba \o c.queue)
<1>1. PICK q : q = ba \o c.queue
  OBVIOUS
<1>2. Typed(c, al, rs, lk, cs, ac, ba) /\ Parts(c, cl, al, rs, lk, cs, ph, ac, ba, q)
  BY <1>1 DEF Core
<1>3. /\ StageOf(c, cl, rs, cs, q) /\ ResetOf(c, cl, rs, cs, ph, q) /\ OrphanOf(c, cl, al, rs, q)
  BY <1>2 DEF Parts
<1>4. cl \in Starts \/ dl \in Starts =>
        /\ ~Has(q, "startInLoop") /\ ~Try(c) /\ c.timers = 0 /\ ~SomeOpen(cs) /\ ~rs
        /\ ~Has(q, "resetChannel")
  <2>1. CASE cl \in Starts
    BY <2>1, <1>3, Zenon DEF StageOf, ResetOf
  <2>2. CASE cl \notin Starts
    BY <2>2, <1>1 DEF NoStage
  <2> QED
    BY <2>1, <2>2
<1>5. StageOf(c, dl, rs, cs, q)
  BY <1>3, <1>4, Zenon DEF StageOf
<1>6. ResetOf(c, dl, rs, cs, ph, q)
  BY <1>3, <1>4, Zenon DEF ResetOf
<1>7. OrphanOf(c, dl, al, rs, q)
  BY <1>3 DEF OrphanOf
<1> QED
  BY <1>1, <1>2, <1>4, <1>5, <1>6, <1>7 DEF Core, Parts, NoStage

\* A functor other than resetChannel is taken out of the batch.
LEMMA DropOk ==
  ASSUME NEW c, NEW cl, NEW al, NEW rs, NEW lk, NEW cs, NEW ac, NEW ba,
         Core(c, cl, al, rs, lk, cs, "functors", ac, ba), ba # <<>>,
         Head(ba).op # "resetChannel"
  PROVE  /\ Core(c, cl, al, rs, lk, cs, "functors", ac, Tail(ba))
         /\ Head(ba) \in Functors
         /\ Head(ba).op = "startInLoop" =>
              NoStage(c, cl, al, rs, cs, Tail(ba) \o c.queue)
         /\ Head(ba).op = "forceCloseInLoop" /\ IsOpen(cs, Head(ba).fd) =>
              ~Has(Tail(ba) \o c.queue, "resetChannel")
         /\ Head(ba).op = "connectDestroyed" =>
              /\ cs[Head(ba).fd] = "down"
              /\ \A i \in 1..Len(Tail(ba) \o c.queue) : (Tail(ba) \o c.queue)[i].fd # Head(ba).fd
<1>1. PICK q : q = ba \o c.queue
  OBVIOUS
<1>2. Typed(c, al, rs, lk, cs, ac, ba) /\ Parts(c, cl, al, rs, lk, cs, "functors", ac, ba, q)
  BY <1>1 DEF Core
<1>3. /\ c.queue \in Seq(Functors) /\ ba \in Seq(Functors) /\ q \in Seq(Functors)
  BY <1>1, <1>2, CoreTypes
<1>4. PICK p : p = Tail(ba) \o c.queue
  OBVIOUS
<1>5. /\ q # <<>> /\ Head(q) = Head(ba) /\ Head(ba) \in Functors
      /\ Tail(ba) \in Seq(Functors) /\ p = Tail(q)
  BY <1>1, <1>3, <1>4, TakeFirst
<1>6. \A op : /\ Has(p, op) => Has(q, op)
              /\ Has(q, op) => Has(p, op) \/ Head(q).op = op
              /\ Head(q).op = op => Has(q, op)
  BY <1>3, <1>5, HasTail
<1>7. /\ StageOf(c, cl, rs, cs, q) /\ InOrder(q, cs)
      /\ ResetOf(c, cl, rs, cs, "functors", q) /\ FreshOf(c, cs, "functors", ac, ba, q)
      /\ OrphanOf(c, cl, al, rs, q)
  BY <1>2 DEF Parts
<1>8. Has(p, "resetChannel") <=> Has(q, "resetChannel")
  BY <1>5, <1>6
<1>9. /\ InOrder(p, cs)
      /\ Head(q).op = "forceCloseInLoop" /\ cs[Head(q).fd] # "down" => ~Has(p, "resetChannel")
      /\ Head(q).op = "startInLoop" => ~Has(p, "startInLoop")
      /\ Head(q).op = "connectDestroyed" =>
           cs[Head(q).fd] = "down" /\ \A i \in 1..Len(p) : p[i].fd # Head(q).fd
  BY <1>3, <1>5, <1>7, InOrderTail
<1>10. StageOf(c, cl, rs, cs, p)
  BY <1>6, <1>7, Zenon DEF StageOf
<1>11. ResetOf(c, cl, rs, cs, "functors", p)
  BY <1>6, <1>7, <1>8, Zenon DEF ResetOf
<1>12. FreshOf(c, cs, "functors", ac, Tail(ba), p)
  BY <1>7 DEF FreshOf
<1>13. OrphanOf(c, cl, al, rs, p)
  BY <1>6, <1>7, Zenon DEF OrphanOf
<1>14. Typed(c, al, rs, lk, cs, ac, Tail(ba))
  BY <1>2, <1>5 DEF Typed
<1>15. ASSUME Head(ba).op = "startInLoop" PROVE NoStage(c, cl, al, rs, cs, p)
  <2>1. Has(q, "startInLoop")
    BY <1>5, <1>6, <1>15
  <2>2. ~Try(c) /\ c.timers = 0 /\ ~SomeOpen(cs) /\ ~rs /\ cl \notin Starts
    BY <2>1, <1>7, Zenon DEF StageOf
  <2>3. ~Has(p, "startInLoop") /\ ~Has(p, "resetChannel")
    BY <2>1, <1>5, <1>7, <1>8, <1>9, <1>15 DEF ResetOf
  <2>4. al
    BY <2>1, <1>7 DEF OrphanOf
  <2> QED
    BY <2>2, <2>3, <2>4 DEF NoStage
<1>16. Core(c, cl, al, rs, lk, cs, "functors", ac, Tail(ba))
  BY <1>2, <1>4, <1>9, <1>10, <1>11, <1>12, <1>13, <1>14 DEF Core, Parts
<1> QED
  BY <1>4, <1>5, <1>9, <1>15, <1>16 DEF IsOpen

\* ~TcpClient: what is left is right for a client that is gone.
LEMMA OrphanOk ==
  ASSUME NEW c, NEW lk, NEW cs, NEW ph, NEW ac, NEW ba,
         Core(c, <<>>, TRUE, FALSE, lk, cs, ph, ac, ba), ~Try(c),
         ~Has(ba \o c.queue, "startInLoop"), ~Has(ba \o c.queue, "stopInLoop"),
         c.timers > 0 => ~c.connect_,
         NEW r \in Connectors, r.connect_ = c.connect_, SameFds(c, r), r.timers = c.timers,
         r.queue = c.queue, Has(ba \o c.queue, "resetChannel") => r.keeper
  PROVE  Core(r, <<>>, FALSE, FALSE, None, cs, ph, ac, ba)
<1>1. PICK q : q = ba \o c.queue
  OBVIOUS
<1>2. Typed(c, TRUE, FALSE, lk, cs, ac, ba) /\ Parts(c, <<>>, TRUE, FALSE, lk, cs, ph, ac, ba, q)
  BY <1>1 DEF Core
<1>3. /\ r.open = c.open /\ r.watched = c.watched /\ r.channel_ = c.channel_ /\ Try(r) = Try(c)
  BY DEF SameFds, Try
<1>4. /\ OwnerOf(c, cs) /\ StageOf(c, <<>>, FALSE, cs, q) /\ InOrder(q, cs)
      /\ ResetOf(c, <<>>, FALSE, cs, ph, q) /\ FreshOf(c, cs, ph, ac, ba, q)
      /\ OrphanOf(c, <<>>, TRUE, FALSE, q)
  BY <1>2 DEF Parts
<1>5. OwnerOf(r, cs)
  BY <1>3, <1>4 DEF OwnerOf
<1>6. StageOf(r, <<>>, FALSE, cs, q)
  BY <1>3, <1>4, Zenon DEF StageOf
<1>7. LinkOf(FALSE, None, cs)
  BY DEF LinkOf
<1>8. ResetOf(r, <<>>, FALSE, cs, ph, q)
  BY <1>3, <1>4, Zenon DEF ResetOf
<1>9. FreshOf(r, cs, ph, ac, ba, q)
  <2>1. \A e \in ac : e.who # "keeper"
    BY <1>4 DEF FreshOf, OrphanOf
  <2> QED
    BY <2>1, <1>3, <1>4 DEF FreshOf
<1>10. OrphanOf(r, <<>>, FALSE, FALSE, q)
  BY <1>1, <1>3 DEF OrphanOf
<1>11. Typed(r, FALSE, FALSE, None, cs, ac, ba) /\ q = ba \o r.queue
  BY <1>1, <1>2 DEF Typed
<1> QED
  BY <1>4, <1>5, <1>6, <1>7, <1>8, <1>9, <1>10, <1>11 DEF Core, Parts

\* A retry timer expires: the Connector is in no stage until startInLoop.
LEMMA TimerOk ==
  ASSUME NEW c, NEW cl, NEW al, NEW lk, NEW cs, NEW ph, NEW ac, NEW ba,
         Core(c, cl, al, FALSE, lk, cs, ph, ac, ba), NEW e \in ac, e.who = "retry",
         NEW r, r = Expired(c)
  PROVE  /\ Core(r, cl, al, FALSE, lk, cs, ph, ac \ {e}, ba)
         /\ NoStage(r, cl, al, FALSE, cs, ba \o r.queue)
         /\ r.connect_ = c.connect_ /\ r.state_ = c.state_
<1>1. PICK q : q = ba \o c.queue
  OBVIOUS
<1>2. Typed(c, al, FALSE, lk, cs, ac, ba) /\ Parts(c, cl, al, FALSE, lk, cs, ph, ac, ba, q)
  BY <1>1 DEF Core
<1>3. c \in Connectors /\ c.timers \in Nat /\ ac \subseteq Events
  BY <1>2, CoreTypes DEF Typed
<1>4. /\ OwnerOf(c, cs) /\ StageOf(c, cl, FALSE, cs, q) /\ LinkOf(al, lk, cs) /\ InOrder(q, cs)
      /\ ResetOf(c, cl, FALSE, cs, ph, q) /\ FreshOf(c, cs, ph, ac, ba, q)
      /\ OrphanOf(c, cl, al, FALSE, q)
  BY <1>2 DEF Parts
<1>5. c.timers > 0 /\ ~Has(q, "resetChannel")
  BY <1>4 DEF FreshOf
<1>6. c.timers = 1
  BY <1>3, <1>4, <1>5 DEF StageOf
<1>7. /\ ~Try(c) /\ ~SomeOpen(cs) /\ cl \notin Starts /\ ~Has(q, "startInLoop")
      /\ c.connect_ => al
  BY <1>4, <1>6 DEF StageOf, OrphanOf
<1>8. /\ r \in Connectors /\ SameCall(c, r) /\ SameFds(c, r) /\ r.timers = 0 /\ r.queue = c.queue
  BY <1>3, <1>6 DEF Expired, Connectors, SameCall, SameFds
<1>9. /\ r.connect_ = c.connect_ /\ r.keeper = c.keeper /\ r.open = c.open /\ r.watched = c.watched
      /\ r.channel_ = c.channel_ /\ Try(r) = Try(c) /\ r.state_ = c.state_
  BY <1>8 DEF SameCall, SameFds, Try
<1>10. OwnerOf(r, cs)
  BY <1>4, <1>9 DEF OwnerOf
<1>11. StageOf(r, cl, FALSE, cs, q)
  BY <1>7, <1>8, <1>9 DEF StageOf, SomeOpen
<1>12. ResetOf(r, cl, FALSE, cs, ph, q)
  BY <1>4, <1>8, <1>9 DEF ResetOf
<1>13. FreshOf(r, cs, ph, ac \ {e}, ba, q)
  <2>1. \A d \in ac : d.who = "retry" => d = [who |-> "retry", fd |-> None]
    BY <1>3 DEF Events
  <2>2. \A d \in ac \ {e} : d.who # "retry"
    BY <2>1
  <2> QED
    BY <2>2, <1>4, <1>9 DEF FreshOf
<1>14. OrphanOf(r, cl, al, FALSE, q)
  BY <1>4, <1>8, <1>9 DEF OrphanOf
<1>15. Typed(r, al, FALSE, lk, cs, ac \ {e}, ba) /\ q = ba \o r.queue
  BY <1>1, <1>2, <1>8 DEF Typed
<1>16. NoStage(r, cl, al, FALSE, cs, q)
  BY <1>5, <1>7, <1>8, <1>9 DEF NoStage
<1> QED
  BY <1>4, <1>9, <1>10, <1>11, <1>12, <1>13, <1>14, <1>15, <1>16 DEF Core, Parts

\* The timer of ~TcpClient expires: no functor is left that needs the Connector.
LEMMA KeeperOk ==
  ASSUME NEW c, NEW cl, NEW al, NEW lk, NEW cs, NEW ph, NEW ac, NEW ba,
         Core(c, cl, al, FALSE, lk, cs, ph, ac, ba), NEW e \in ac, e.who = "keeper",
         NEW r, r = Unkept(c)
  PROVE  /\ Core(r, cl, al, FALSE, lk, cs, ph, ac \ {e}, ba)
         /\ r.connect_ = c.connect_ /\ r.state_ = c.state_
<1>1. PICK q : q = ba \o c.queue
  OBVIOUS
<1>2. Typed(c, al, FALSE, lk, cs, ac, ba) /\ Parts(c, cl, al, FALSE, lk, cs, ph, ac, ba, q)
  BY <1>1 DEF Core
<1>3. c \in Connectors /\ ac \subseteq Events
  BY <1>2 DEF Typed
<1>4. /\ OwnerOf(c, cs) /\ StageOf(c, cl, FALSE, cs, q) /\ LinkOf(al, lk, cs) /\ InOrder(q, cs)
      /\ ResetOf(c, cl, FALSE, cs, ph, q) /\ FreshOf(c, cs, ph, ac, ba, q)
      /\ OrphanOf(c, cl, al, FALSE, q)
  BY <1>2 DEF Parts
<1>5. ~Has(q, "resetChannel")
  BY <1>4 DEF FreshOf
<1>6. /\ r \in Connectors /\ r.connect_ = c.connect_ /\ SameFds(c, r) /\ r.timers = c.timers
      /\ r.queue = c.queue /\ ~r.keeper
  BY <1>3 DEF Unkept, Connectors, SameFds
<1>7. /\ r.open = c.open /\ r.watched = c.watched
      /\ r.channel_ = c.channel_ /\ Try(r) = Try(c) /\ r.state_ = c.state_
  BY <1>6 DEF SameFds, Try
<1>8. OwnerOf(r, cs)
  BY <1>4, <1>7 DEF OwnerOf
<1>9. StageOf(r, cl, FALSE, cs, q)
  BY <1>4, <1>6, <1>7, Zenon DEF StageOf
<1>10. ResetOf(r, cl, FALSE, cs, ph, q)
  BY <1>4, <1>6, <1>7 DEF ResetOf
<1>11. FreshOf(r, cs, ph, ac \ {e}, ba, q)
  <2>1. \A d \in ac : d.who = "keeper" => d = [who |-> "keeper", fd |-> None]
    BY <1>3 DEF Events
  <2>2. \A d \in ac \ {e} : d.who # "keeper"
    BY <2>1
  <2> QED
    BY <2>2, <1>4, <1>6, <1>7 DEF FreshOf
<1>12. OrphanOf(r, cl, al, FALSE, q)
  BY <1>4, <1>5, <1>6, <1>7 DEF OrphanOf
<1>13. Typed(r, al, FALSE, lk, cs, ac \ {e}, ba) /\ q = ba \o r.queue
  BY <1>1, <1>2, <1>6 DEF Typed
<1> QED
  BY <1>4, <1>6, <1>7, <1>8, <1>9, <1>10, <1>11, <1>12, <1>13 DEF Core, Parts

\* Connector::restart: the Connector is in no stage until startInLoop.
LEMMA RestartOk ==
  ASSUME NEW c, NEW cl, NEW al, NEW lk, NEW cs, NEW ph, NEW ac, NEW ba,
         Core(c, cl, al, TRUE, lk, cs, ph, ac, ba),
         NEW r, r = Restarted(c)
  PROVE  /\ Core(r, cl, al, FALSE, lk, cs, ph, ac, ba)
         /\ NoStage(r, cl, al, FALSE, cs, ba \o r.queue)
<1>1. PICK q : q = ba \o c.queue
  OBVIOUS
<1>2. Typed(c, al, TRUE, lk, cs, ac, ba) /\ Parts(c, cl, al, TRUE, lk, cs, ph, ac, ba, q)
  BY <1>1 DEF Core
<1>3. c \in Connectors /\ c.timers \in Nat
  BY <1>2, CoreTypes DEF Typed
<1>4. /\ OwnerOf(c, cs) /\ StageOf(c, cl, TRUE, cs, q) /\ LinkOf(al, lk, cs) /\ InOrder(q, cs)
      /\ ResetOf(c, cl, TRUE, cs, ph, q) /\ FreshOf(c, cs, ph, ac, ba, q)
      /\ OrphanOf(c, cl, al, TRUE, q)
  BY <1>2 DEF Parts
<1>5. /\ ~Try(c) /\ c.timers = 0 /\ ~SomeOpen(cs) /\ cl \notin Starts /\ ~Has(q, "startInLoop")
      /\ ~Has(q, "resetChannel") /\ al
  BY <1>3, <1>4 DEF StageOf, ResetOf, OrphanOf
<1>6. /\ r \in Connectors /\ r.open = c.open /\ r.watched = c.watched /\ r.channel_ = c.channel_
      /\ ~Try(r) /\ r.timers = 0 /\ r.queue = c.queue /\ r.keeper = c.keeper
  BY <1>3, <1>5 DEF Restarted, Connectors, States, Try
<1>7. OwnerOf(r, cs)
  BY <1>4, <1>5, <1>6 DEF OwnerOf
<1>8. StageOf(r, cl, FALSE, cs, q)
  BY <1>5, <1>6 DEF StageOf, SomeOpen
<1>9. ResetOf(r, cl, FALSE, cs, ph, q)
  BY <1>4, <1>5, <1>6 DEF ResetOf
<1>10. FreshOf(r, cs, ph, ac, ba, q)
  BY <1>4, <1>5, <1>6 DEF FreshOf
<1>11. OrphanOf(r, cl, al, FALSE, q)
  BY <1>4, <1>5, <1>6 DEF OrphanOf
<1>12. Typed(r, al, FALSE, lk, cs, ac, ba) /\ q = ba \o r.queue
  BY <1>1, <1>2, <1>6 DEF Typed
<1>13. NoStage(r, cl, al, FALSE, cs, q)
  BY <1>5, <1>6 DEF NoStage
<1> QED
  BY <1>4, <1>7, <1>8, <1>9, <1>10, <1>11, <1>12, <1>13 DEF Core, Parts

\* resetChannel runs, while no attempt is under way.
LEMMA ResetOk ==
  ASSUME NEW c, NEW cl, NEW al, NEW rs, NEW lk, NEW cs, NEW ac, NEW ba,
         Core(c, cl, al, rs, lk, cs, "functors", ac, ba), ba # <<>>,
         Head(ba).op = "resetChannel",
         NEW r, r = Cleared(c)
  PROVE  /\ Core(r, cl, al, rs, lk, cs, "functors", ac, Tail(ba))
         /\ r.connect_ = c.connect_ /\ r.state_ = c.state_
<1>1. PICK q : q = ba \o c.queue
  OBVIOUS
<1>2. Typed(c, al, rs, lk, cs, ac, ba) /\ Parts(c, cl, al, rs, lk, cs, "functors", ac, ba, q)
  BY <1>1 DEF Core
<1>3. /\ c \in Connectors /\ c.queue \in Seq(Functors) /\ ba \in Seq(Functors) /\ q \in Seq(Functors)
  BY <1>1, <1>2, CoreTypes DEF Typed
<1>4. PICK p : p = Tail(ba) \o c.queue
  OBVIOUS
<1>5. /\ q # <<>> /\ Head(q) = Head(ba) /\ Tail(ba) \in Seq(Functors) /\ p = Tail(q)
  BY <1>1, <1>3, <1>4, TakeFirst
<1>6. /\ \A op : Has(p, op) => Has(q, op)
      /\ Has(q, "resetChannel")
  BY <1>3, <1>5, HasTail
<1>7. /\ OwnerOf(c, cs) /\ StageOf(c, cl, rs, cs, q) /\ LinkOf(al, lk, cs) /\ InOrder(q, cs)
      /\ ResetOf(c, cl, rs, cs, "functors", q) /\ FreshOf(c, cs, "functors", ac, ba, q)
      /\ OrphanOf(c, cl, al, rs, q)
  BY <1>2 DEF Parts
<1>8. ~Try(c) /\ ac = {}
  BY <1>6, <1>7 DEF ResetOf, FreshOf
<1>9. /\ r \in Connectors /\ SameCall(c, r) /\ r.open = c.open /\ r.watched = c.watched
      /\ r.channel_ = None /\ r.state_ = c.state_ /\ r.timers = c.timers /\ r.queue = c.queue
  BY <1>3 DEF Cleared, Connectors, SameCall
<1>10. r.connect_ = c.connect_ /\ r.keeper = c.keeper /\ Try(r) = Try(c)
  BY <1>9 DEF SameCall, Try
<1>11. OwnerOf(r, cs)
  BY <1>7, <1>8, <1>9, <1>10 DEF OwnerOf
<1>12. StageOf(r, cl, rs, cs, p)
  BY <1>6, <1>7, <1>9, <1>10, Zenon DEF StageOf
<1>13. InOrder(p, cs)
  BY <1>3, <1>5, <1>7, InOrderTail
<1>14. ResetOf(r, cl, rs, cs, "functors", p)
  BY <1>6, <1>7, <1>8, <1>9, <1>10, Zenon DEF ResetOf
<1>15. FreshOf(r, cs, "functors", ac, Tail(ba), p)
  BY <1>8 DEF FreshOf
<1>16. OrphanOf(r, cl, al, rs, p)
  BY <1>6, <1>7, <1>9, <1>10, Zenon DEF OrphanOf
<1>17. Typed(r, al, rs, lk, cs, ac, Tail(ba)) /\ p = Tail(ba) \o r.queue
  BY <1>2, <1>4, <1>5, <1>9 DEF Typed
<1> QED
  BY <1>7, <1>9, <1>10, <1>11, <1>12, <1>13, <1>14, <1>15, <1>16, <1>17 DEF Core, Parts

\* No functor is about f.
Unused(q, f) == \A i \in 1..Len(q) : q[i].fd # f
Absent(cs, f) == [cs EXCEPT ![f] = "none"]
IsDown(cs, f) == cs[f] = "down"

\* connectDestroyed runs: the connection gives up its descriptor.
LEMMA GoneOk ==
  ASSUME NEW c, NEW cl, NEW al, NEW rs, NEW lk, NEW cs, NEW ph, NEW ac, NEW ba,
         Core(c, cl, al, rs, lk, cs, ph, ac, ba), NEW f \in Fds, IsDown(cs, f),
         Unused(ba \o c.queue, f),
         NEW r, r = Forgotten(c, f),
         NEW ds, ds = Absent(cs, f)
  PROVE  /\ Core(r, cl, al, rs, lk, ds, ph, ac, ba)
         /\ r.connect_ = c.connect_ /\ r.state_ = c.state_
<1>1. PICK q : q = ba \o c.queue
  OBVIOUS
<1>2. Typed(c, al, rs, lk, cs, ac, ba) /\ Parts(c, cl, al, rs, lk, cs, ph, ac, ba, q)
  BY <1>1 DEF Core
<1>3. /\ c \in Connectors /\ cs \in [Fds -> {"none", "up", "closing", "down"}] /\ q \in Seq(Functors)
      /\ lk \in Fds \cup {None} /\ ac \subseteq Events
  BY <1>1, <1>2, CoreTypes DEF Typed
<1>4. /\ OwnerOf(c, cs) /\ StageOf(c, cl, rs, cs, q) /\ LinkOf(al, lk, cs) /\ InOrder(q, cs)
      /\ ResetOf(c, cl, rs, cs, ph, q) /\ FreshOf(c, cs, ph, ac, ba, q) /\ OrphanOf(c, cl, al, rs, q)
  BY <1>2 DEF Parts
<1>5. /\ r \in Connectors /\ SameCall(c, r) /\ r.open = c.open \ {f} /\ r.watched = c.watched \ {f}
      /\ r.channel_ = c.channel_ /\ r.state_ = c.state_ /\ r.timers = c.timers /\ r.queue = c.queue
  BY <1>3 DEF Forgotten, Connectors, SameCall
<1>6. r.connect_ = c.connect_ /\ r.keeper = c.keeper /\ Try(r) = Try(c)
  BY <1>5 DEF SameCall, Try
<1>7. /\ ds \in [Fds -> {"none", "up", "closing", "down"}]
      /\ ds[f] = "none" /\ \A g \in Fds : g # f => ds[g] = cs[g]
  BY <1>3 DEF Absent
<1>8. \A g \in Fds : IsOpen(ds, g) <=> IsOpen(cs, g)
  BY <1>7 DEF IsOpen, IsDown
<1>9. SomeOpen(ds) <=> SomeOpen(cs)
  BY <1>8 DEF SomeOpen
<1>10. OwnerOf(r, ds)
  <2>1. Try(c) => c.channel_ \in Fds /\ c.channel_ # f
    BY <1>3, <1>4 DEF OwnerOf, Connectors, IsDown
  <2> QED
    BY <2>1, <1>4, <1>5, <1>6, <1>7 DEF OwnerOf
<1>11. StageOf(r, cl, rs, ds, q)
  BY <1>4, <1>5, <1>6, <1>8, <1>9, Zenon DEF StageOf
<1>12. LinkOf(al, lk, ds)
  BY <1>3, <1>4, <1>8 DEF LinkOf
<1>13. InOrder(q, ds)
  BY <1>1, <1>3, <1>4, InOrderGone DEF Unused, Absent
<1>14. ResetOf(r, cl, rs, ds, ph, q)
  BY <1>4, <1>5, <1>6, <1>9, Zenon DEF ResetOf
<1>15. FreshOf(r, ds, ph, ac, ba, q)
  <2>1. \A e \in ac : e.who = "conn" => (IsOpen(ds, e.fd) <=> IsOpen(cs, e.fd))
    BY <1>3, <1>8, EventFd
  <2> QED
    BY <2>1, <1>4, <1>5, <1>6 DEF FreshOf
<1>16. OrphanOf(r, cl, al, rs, q)
  BY <1>4, <1>5, <1>6, Zenon DEF OrphanOf
<1>17. Typed(r, al, rs, lk, ds, ac, ba) /\ q = ba \o r.queue
  BY <1>1, <1>2, <1>5, <1>7 DEF Typed
<1> QED
  BY <1>5, <1>6, <1>10, <1>11, <1>12, <1>13, <1>14, <1>15, <1>16, <1>17 DEF Core, Parts

-----------------------------------------------------------------------------
(***************************************************************************)
(* The invariant of the state                                              *)
(***************************************************************************)
CoreNow == Core(cr, call, alive, restarting, connection_, conn, phase, active, batch)

\* The types that Core leaves out.
RestTypes ==
  /\ retry_ \in BOOLEAN /\ wants \in BOOLEAN /\ stopped \in BOOLEAN
  /\ phase \in {"events", "functors"}
  /\ call \in Starts \cup OtherCalls /\ calls \in 0..MaxCalls

\* OneOwner, descriptor by descriptor.
LEMMA OwnerPointwise ==
  ASSUME TypeOK, Attempting => cr.channel_ # None, cr.proc = "run"
  PROVE  OneOwner <=> OwnerOf(cr, conn)
<1>1. /\ cr.open \subseteq Fds /\ cr.watched \subseteq Fds /\ cr.channel_ \in Fds \cup {None}
      /\ (Attempting => cr.channel_ \in Fds)
  BY DEF TypeOK, Connectors
<1>2. \A f : f \in Attempts <=> Attempting /\ f = cr.channel_
  BY DEF Attempts, Attempting
<1>3. \A f : f \in Connections <=> f \in Fds /\ conn[f] # "none"
  BY DEF Connections
<1>4. ASSUME OneOwner PROVE OwnerOf(cr, conn)
  <2>1. /\ cr.open = Attempts \cup Connections /\ Attempts \cap Connections = {}
        /\ Attempts \subseteq cr.watched /\ cr.watched \subseteq Attempts \cup Connections
    BY <1>4 DEF OneOwner
  <2>2. \A f \in Fds : /\ f \in cr.open <=> f \in Attempts \/ f \in Connections
                       /\ ~(f \in Attempts /\ f \in Connections)
                       /\ f \in Attempts => f \in cr.watched
                       /\ f \in cr.watched => f \in Attempts \/ f \in Connections
    BY <2>1
  <2> QED
    BY <1>1, <1>2, <1>3, <2>2 DEF OwnerOf, Try, Attempting
<1>5. ASSUME OwnerOf(cr, conn) PROVE OneOwner
  <2>1. \A f \in Fds : /\ f \in cr.open <=> f \in Attempts \/ f \in Connections
                       /\ ~(f \in Attempts /\ f \in Connections)
                       /\ f \in Attempts => f \in cr.watched
                       /\ f \in cr.watched => f \in Attempts \/ f \in Connections
    BY <1>1, <1>2, <1>3, <1>5 DEF OwnerOf, Try, Attempting
  <2>2. Attempts \subseteq Fds /\ Connections \subseteq Fds
    BY <1>1, <1>2, <1>3
  <2>3. /\ cr.open = Attempts \cup Connections /\ Attempts \cap Connections = {}
        /\ Attempts \subseteq cr.watched /\ cr.watched \subseteq Attempts \cup Connections
    BY <2>1, <2>2, <1>1
  <2> QED
    BY <2>3 DEF OneOwner
<1> QED
  BY <1>4, <1>5

\* The other parts are the same formulas.
LEMMA PartsSame ==
  /\ OneStage <=> StageOf(cr, call, restarting, conn, Order)
  /\ Linked <=> LinkOf(alive, connection_, conn)
  /\ ResetFinds <=> ResetOf(cr, call, restarting, conn, phase, Order)
  /\ Fresh <=> FreshOf(cr, conn, phase, active, batch, Order)
  /\ Orphaned <=> OrphanOf(cr, call, alive, restarting, Order)
<1>1. Connected <=> SomeOpen(conn)
  BY DEF Connected, SomeOpen, Open, IsOpen
<1>2. \A op : Waits(op) <=> Has(Order, op)
  BY DEF Waits
<1>3. Attempting <=> Try(cr)
  BY DEF Attempting, Try
<1>4. \A f : Open(f) <=> IsOpen(conn, f)
  BY DEF Open, IsOpen
<1>5. OneStage <=> StageOf(cr, call, restarting, conn, Order)
  BY <1>1, <1>2, <1>3, <1>4, Zenon DEF OneStage, StageOf
<1>6. Linked <=> LinkOf(alive, connection_, conn)
  BY <1>4, Zenon DEF Linked, LinkOf
<1>7. ResetFinds <=> ResetOf(cr, call, restarting, conn, phase, Order)
  BY <1>1, <1>2, <1>3, Zenon DEF ResetFinds, ResetOf
<1>8. Fresh <=> FreshOf(cr, conn, phase, active, batch, Order)
  BY <1>2, <1>3, <1>4, Zenon DEF Fresh, FreshOf
<1>9. Orphaned <=> OrphanOf(cr, call, alive, restarting, Order)
  BY <1>2, <1>3, Zenon DEF Orphaned, OrphanOf
<1> QED
  BY <1>5, <1>6, <1>7, <1>8, <1>9

\* The invariant, taken apart ...
LEMMA Apart == ClientInv => RestTypes /\ Stopped /\ (cr.proc = "run" => CoreNow)
<1> SUFFICES ASSUME ClientInv PROVE RestTypes /\ Stopped /\ (cr.proc = "run" => CoreNow)
  OBVIOUS
<1>1. TypeOK /\ Stopped
  BY DEF ClientInv
<1>2. RestTypes /\ Typed(cr, alive, restarting, connection_, conn, active, batch)
  BY <1>1 DEF TypeOK, RestTypes, Typed
<1>3. ASSUME cr.proc = "run" PROVE CoreNow
  <2>1. OneOwner /\ OneStage /\ Linked /\ InOrder(Order, conn) /\ ResetFinds /\ Fresh /\ Orphaned
    BY <1>3 DEF ClientInv
  <2>2. OwnerOf(cr, conn)
    <3>1. Attempting => cr.channel_ # None
      BY <2>1 DEF ResetFinds
    <3> QED
      BY <3>1, <2>1, <1>1, <1>3, OwnerPointwise
  <2> QED
    BY <2>1, <2>2, <1>2, PartsSame DEF CoreNow, Core, Parts, Order
<1> QED
  BY <1>1, <1>2, <1>3

\* ... and put together, where a process that has ended only needs its types.
LEMMA Together ==
  /\ RestTypes /\ Stopped /\ Typed(cr, alive, restarting, connection_, conn, active, batch)
  /\ cr.proc = "run" => CoreNow
  => ClientInv
<1> SUFFICES ASSUME RestTypes, Stopped, Typed(cr, alive, restarting, connection_, conn, active, batch),
                    cr.proc = "run" => CoreNow
             PROVE  ClientInv
  OBVIOUS
<1>1. TypeOK
  BY DEF TypeOK, RestTypes, Typed
<1>2. ASSUME cr.proc = "run"
      PROVE  OneOwner /\ OneStage /\ Linked /\ InOrder(Order, conn) /\ ResetFinds /\ Fresh /\ Orphaned
  <2>1. /\ OwnerOf(cr, conn) /\ StageOf(cr, call, restarting, conn, Order)
        /\ LinkOf(alive, connection_, conn) /\ InOrder(Order, conn)
        /\ ResetOf(cr, call, restarting, conn, phase, Order)
        /\ FreshOf(cr, conn, phase, active, batch, Order)
        /\ OrphanOf(cr, call, alive, restarting, Order)
    BY <1>2 DEF CoreNow, Core, Parts, Order
  <2>2. OneStage /\ Linked /\ ResetFinds /\ Fresh /\ Orphaned
    BY <2>1, PartsSame
  <2>3. Attempting => cr.channel_ # None
    BY <2>2 DEF ResetFinds
  <2>4. OneOwner
    BY <2>1, <2>3, <1>1, <1>2, OwnerPointwise
  <2> QED
    BY <2>1, <2>2, <2>4
<1> QED
  BY <1>1, <1>2 DEF ClientInv

\* What is left to show of a step.
LEMMA StepTo ==
  ASSUME RestTypes', Stopped', CoreNow'
  PROVE  ClientInv'
<1>1. (/\ RestTypes /\ Stopped /\ Typed(cr, alive, restarting, connection_, conn, active, batch)
       /\ cr.proc = "run" => CoreNow
       => ClientInv)'
  BY Together, PTL
<1>2. Typed(cr, alive, restarting, connection_, conn, active, batch)'
  BY DEF CoreNow, Core
<1> QED
  BY <1>1, <1>2

-----------------------------------------------------------------------------
(***************************************************************************)
(* One lemma per action.                                                   *)
(***************************************************************************)

\* Quiet, in terms of the order.
LEMMA QuietWaits ==
  ASSUME TypeOK, Quiet
  PROVE  ~Waits("startInLoop") /\ ~Waits("stopInLoop") /\ ~Waits("resetChannel")
<1>1. cr.queue \in Seq(Functors) /\ batch \in Seq(Functors)
  BY DEF TypeOK, Connectors
<1>2. \A op \in {"startInLoop", "stopInLoop", "resetChannel"} : ~Has(cr.queue, op) /\ ~Has(batch, op)
  BY DEF Quiet, Pending, Elems, Has
<1>3. \A op : Has(batch \o cr.queue, op) <=> Has(batch, op) \/ Has(cr.queue, op)
  BY <1>1, HasQueue
<1> QED
  BY <1>2, <1>3 DEF Waits, Order

\* A step of a process that runs.
LEMMA Before ==
  ASSUME ClientInv, cr.proc = "run"
  PROVE  RestTypes /\ Stopped /\ CoreNow /\ TypeOK
BY Apart DEF ClientInv

\* poll() reports what is there, and the functors that must come first have run.
LEMMA StepPoll ==
  ASSUME ClientInv, Poll
  PROVE  ClientInv'
<1>1. /\ cr.proc = "run" /\ ~restarting /\ phase = "functors" /\ batch = <<>>
      /\ active' \subseteq Sources /\ phase' = "events"
      /\ UNCHANGED <<cr, alive, retry_, wants, connection_, conn, restarting, batch, call, calls, stopped>>
  BY DEF Poll, LoopFree, connVars, userVars
<1>2. RestTypes /\ Stopped /\ CoreNow /\ TypeOK
  BY <1>1, Before
<1>3. PICK q : q = batch \o cr.queue
  OBVIOUS
<1>4. /\ Typed(cr, alive, restarting, connection_, conn, active, batch)
      /\ Parts(cr, call, alive, restarting, connection_, conn, phase, active, batch, q)
  BY <1>2, <1>3 DEF CoreNow, Core
<1>5. /\ cr.queue \in Seq(Functors) /\ cr.channel_ \in Fds \cup {None} /\ None \notin Fds
  BY <1>4, CoreTypes
<1>6. q = cr.queue
  BY <1>1, <1>3, <1>5, SwapKeeps
<1>7. /\ OwnerOf(cr, conn) /\ StageOf(cr, call, restarting, conn, q) /\ LinkOf(alive, connection_, conn)
      /\ InOrder(q, conn) /\ ResetOf(cr, call, restarting, conn, phase, q)
      /\ OrphanOf(cr, call, alive, restarting, q)
  BY <1>4 DEF Parts
<1>8. Quiet => ~Has(q, "resetChannel")
  BY <1>2, <1>3, QuietWaits DEF Waits, Order
<1>9. ASSUME NEW e \in Sources
      PROVE  /\ e \in Events
             /\ e.who = "connector" => (Try(cr) /\ e.fd = cr.channel_) \/ Has(q, "resetChannel")
             /\ e.who = "conn" => IsOpen(conn, e.fd) /\ ~Has(q, "resetChannel")
             /\ e.who = "retry" => cr.timers > 0 /\ ~Has(q, "resetChannel")
             /\ e.who = "keeper" => cr.keeper /\ ~Has(q, "resetChannel")
  <2>1. CASE e \in Source("connector", {cr.channel_} \cap cr.watched)
    <3>1. e.who = "connector" /\ e.fd = cr.channel_ /\ cr.channel_ \in cr.watched
          /\ e = [who |-> e.who, fd |-> e.fd]
      BY <2>1 DEF Source
    <3>2. cr.channel_ \in Fds
      BY <3>1, <1>4, CoreTypes
    <3>3. Try(cr) \/ Has(q, "resetChannel")
      BY <3>2, <1>5, <1>7 DEF ResetOf
    <3> QED
      BY <3>1, <3>2, <3>3 DEF Events
  <2>2. CASE e \in Source("conn", {f \in Fds : Open(f)})
    <3>1. e.who = "conn" /\ e.fd \in Fds /\ IsOpen(conn, e.fd) /\ e = [who |-> e.who, fd |-> e.fd]
      BY <2>2 DEF Source, Open, IsOpen
    <3>2. ~Has(q, "resetChannel")
      BY <3>1, <1>1, <1>6, <1>7 DEF ResetOf, SomeOpen
    <3> QED
      BY <3>1, <3>2 DEF Events
  <2>3. CASE e \in Source("retry", Once(cr.timers > 0 /\ Quiet))
    <3>1. e.who = "retry" /\ e.fd = None /\ cr.timers > 0 /\ Quiet /\ e = [who |-> e.who, fd |-> e.fd]
      BY <2>3 DEF Source, Once
    <3> QED
      BY <3>1, <1>8 DEF Events
  <2>4. CASE e \in Source("keeper", Once(cr.keeper /\ Quiet))
    <3>1. e.who = "keeper" /\ e.fd = None /\ cr.keeper /\ Quiet /\ e = [who |-> e.who, fd |-> e.fd]
      BY <2>4 DEF Source, Once
    <3> QED
      BY <3>1, <1>8 DEF Events
  <2> QED
    BY <2>1, <2>2, <2>3, <2>4 DEF Sources
<1>10. FreshOf(cr, conn, "events", active', batch, q)
  BY <1>1, <1>9 DEF FreshOf
<1>11. ResetOf(cr, call, restarting, conn, "events", q)
  BY <1>7 DEF ResetOf
<1>12. Typed(cr, alive, restarting, connection_, conn, active', batch)
  BY <1>1, <1>4, <1>9 DEF Typed
<1>13. CoreNow'
  BY <1>1, <1>3, <1>7, <1>10, <1>11, <1>12 DEF CoreNow, Core, Parts
<1>14. RestTypes' /\ Stopped'
  BY <1>1, <1>2 DEF RestTypes, Stopped, Attempting
<1> QED
  BY <1>13, <1>14, StepTo

\* doPendingFunctors swaps: the order stays.
LEMMA StepSwap ==
  ASSUME ClientInv, SwapPending
  PROVE  ClientInv'
<1>1. /\ cr.proc = "run" /\ ~restarting /\ phase = "events" /\ active = {}
      /\ phase' = "functors" /\ batch' = cr.queue /\ cr' = [cr EXCEPT !.queue = <<>>]
      /\ UNCHANGED <<alive, retry_, wants, connection_, conn, restarting, active, call, calls, stopped>>
  BY DEF SwapPending, LoopFree, connVars, userVars
<1>2. RestTypes /\ Stopped /\ CoreNow /\ TypeOK
  BY <1>1, Before
<1>3. PICK q : q = batch \o cr.queue
  OBVIOUS
<1>4. /\ Typed(cr, alive, restarting, connection_, conn, active, batch)
      /\ Parts(cr, call, alive, restarting, connection_, conn, phase, active, batch, q)
  BY <1>2, <1>3 DEF CoreNow, Core
<1>5. cr \in Connectors /\ cr.queue \in Seq(Functors)
  BY <1>4, CoreTypes DEF Typed
<1>6. /\ OwnerOf(cr, conn) /\ StageOf(cr, call, restarting, conn, q) /\ LinkOf(alive, connection_, conn)
      /\ InOrder(q, conn) /\ ResetOf(cr, call, restarting, conn, phase, q)
      /\ FreshOf(cr, conn, phase, active, batch, q) /\ OrphanOf(cr, call, alive, restarting, q)
  BY <1>4 DEF Parts
<1>7. /\ cr' \in Connectors /\ cr'.queue = <<>> /\ SameCall(cr, cr') /\ SameFds(cr, cr')
      /\ cr'.timers = cr.timers
  <2>1. <<>> \in Seq(Functors)
    OBVIOUS
  <2> QED
    BY <2>1, <1>1, <1>5 DEF Connectors, SameCall, SameFds
<1>8. q = batch' \o cr'.queue
  <2>1. batch = <<>>
    BY <1>1, <1>6 DEF FreshOf
  <2> QED
    BY <2>1, <1>1, <1>3, <1>5, <1>7, SwapKeeps
<1>9. /\ cr'.connect_ = cr.connect_ /\ cr'.keeper = cr.keeper /\ cr'.open = cr.open
      /\ cr'.watched = cr.watched /\ cr'.channel_ = cr.channel_ /\ Try(cr') = Try(cr)
      /\ cr'.state_ = cr.state_
  BY <1>7 DEF SameCall, SameFds, Try
<1>10. OwnerOf(cr', conn)
  BY <1>6, <1>9 DEF OwnerOf
<1>11. StageOf(cr', call, restarting, conn, q)
  BY <1>6, <1>7, <1>9, Zenon DEF StageOf
<1>12. ResetOf(cr', call, restarting, conn, "functors", q)
  <2>1. ~Has(cr'.queue, "resetChannel")
    BY <1>7 DEF Has
  <2> QED
    BY <2>1, <1>6, <1>9, Zenon DEF ResetOf
<1>13. FreshOf(cr', conn, "functors", active, batch', q)
  BY <1>1 DEF FreshOf
<1>14. OrphanOf(cr', call, alive, restarting, q)
  BY <1>6, <1>7, <1>9, Zenon DEF OrphanOf
<1>15. Typed(cr', alive, restarting, connection_, conn, active, batch')
  BY <1>1, <1>4, <1>5, <1>7 DEF Typed
<1>16. Core(cr', call, alive, restarting, connection_, conn, "functors", active, batch')
  BY <1>6, <1>8, <1>10, <1>11, <1>12, <1>13, <1>14, <1>15 DEF Core, Parts
<1>17. CoreNow'
  BY <1>1, <1>16 DEF CoreNow
<1>18. RestTypes' /\ Stopped'
  BY <1>1, <1>2, <1>9 DEF RestTypes, Stopped, Attempting
<1> QED
  BY <1>17, <1>18, StepTo

\* Dispatching an event, before its handler does anything.
LEMMA Dispatched ==
  ASSUME ClientInv, NEW e \in active, NEW who, Dispatch(e, who)
  PROVE  /\ cr.proc = "run" /\ restarting = FALSE /\ phase = "events" /\ e.who = who /\ e \in Events
         /\ active' = active \ {e}
         /\ UNCHANGED <<alive, retry_, wants, phase, batch, call, calls, stopped>>
         /\ RestTypes /\ Stopped /\ RestTypes' /\ CoreNow
         /\ Core(cr, call, alive, FALSE, connection_, conn, phase, active', batch)
<1>1. /\ cr.proc = "run" /\ ~restarting /\ phase = "events" /\ e.who = who
      /\ active' = active \ {e}
      /\ UNCHANGED <<alive, retry_, wants, phase, batch, call, calls, stopped>>
  BY DEF Dispatch, LoopFree, userVars
<1>2. RestTypes /\ Stopped /\ CoreNow /\ TypeOK
  BY <1>1, Before
<1>3. restarting = FALSE /\ e \in Events
  BY <1>1, <1>2 DEF TypeOK
<1>4. Core(cr, call, alive, FALSE, connection_, conn, phase, active, batch)
  BY <1>2, <1>3 DEF CoreNow
<1>5. Core(cr, call, alive, FALSE, connection_, conn, phase, active', batch)
  BY <1>1, <1>4, FewerEvents
<1>6. RestTypes'
  BY <1>1, <1>2 DEF RestTypes
<1> QED
  BY <1>1, <1>2, <1>3, <1>5, <1>6

\* An event of the connecting socket is about the attempt under way.
LEMMA ConnectorEvent ==
  ASSUME CoreNow, NEW e \in active, e.who = "connector", cr.state_ = "kConnecting"
  PROVE  /\ e.fd = cr.channel_ /\ cr.channel_ \in Fds
         /\ Stopped => ~stopped
         /\ cr.timers = 0 /\ ~SomeOpen(conn) /\ ~restarting /\ call \notin Starts
         /\ ~Has(batch \o cr.queue, "startInLoop") /\ ~Has(batch \o cr.queue, "resetChannel")
         /\ alive /\ ~cr.keeper
         /\ \A d \in active : d.who = "connector" /\ d = e
<1>1. PICK q : q = batch \o cr.queue
  OBVIOUS
<1>2. /\ Typed(cr, alive, restarting, connection_, conn, active, batch)
      /\ Parts(cr, call, alive, restarting, connection_, conn, phase, active, batch, q)
  BY <1>1 DEF CoreNow, Core
<1>3. /\ StageOf(cr, call, restarting, conn, q) /\ ResetOf(cr, call, restarting, conn, phase, q)
      /\ FreshOf(cr, conn, phase, active, batch, q) /\ OrphanOf(cr, call, alive, restarting, q)
  BY <1>2 DEF Parts
<1>4. Try(cr) /\ cr.channel_ \in Fds \cup {None} /\ active \subseteq Events
  BY <1>2, CoreTypes DEF Try, Typed
<1>5. /\ cr.timers = 0 /\ ~SomeOpen(conn) /\ ~restarting /\ call \notin Starts
      /\ ~Has(q, "startInLoop")
  BY <1>3, <1>4, Zenon DEF StageOf
<1>6. ~Has(q, "resetChannel") /\ cr.channel_ # None
  BY <1>3, <1>4 DEF ResetOf
<1>7. alive /\ ~cr.keeper
  BY <1>3, <1>4 DEF OrphanOf
<1>8. ASSUME NEW d \in active PROVE d.who = "connector" /\ d.fd = cr.channel_
  <2>1. d.who # "conn"
    BY <1>3, <1>4, <1>5, EventFd DEF FreshOf, SomeOpen
  <2>2. d.who # "retry" /\ d.who # "keeper"
    BY <1>3, <1>5, <1>7 DEF FreshOf
  <2> QED
    BY <2>1, <2>2, <1>3, <1>4, <1>6, EventFd DEF FreshOf
<1>9. \A d \in active : d = e
  <2>1. \A d \in active : d = [who |-> "connector", fd |-> cr.channel_]
    BY <1>4, <1>8 DEF Events
  <2> QED
    BY <2>1
<1>10. Stopped => ~stopped
  BY DEF Stopped, Attempting
<1> QED
  BY <1>1, <1>4, <1>5, <1>6, <1>7, <1>8, <1>9, <1>10

\* Connector::handleWrite with an error: what stopInLoop does.
LEMMA StepHandleWriteFails ==
  ASSUME ClientInv, NEW e \in active, HandleWriteFails(e)
  PROVE  ClientInv'
<1>1. /\ Dispatch(e, "connector") /\ cr.state_ = "kConnecting"
      /\ cr' = Retry(RemoveAndResetChannel(cr), e.fd)
      /\ UNCHANGED <<connection_, conn, restarting>>
  BY DEF HandleWriteFails, connVars
<1>2. /\ restarting = FALSE /\ phase = "events" /\ e.who = "connector"
      /\ UNCHANGED <<alive, retry_, wants, phase, batch, call, calls, stopped>>
      /\ Stopped /\ RestTypes' /\ CoreNow
      /\ Core(cr, call, alive, FALSE, connection_, conn, phase, active', batch)
  BY <1>1, Dispatched
<1>3. e.fd = cr.channel_ /\ ~stopped
  BY <1>1, <1>2, ConnectorEvent
<1>4. cr' = StopInLoop(cr)
  BY <1>1, <1>3 DEF StopInLoop
<1>5. Core(cr', call, alive, FALSE, connection_, conn, phase, active', batch)
  BY <1>2, <1>4, StopOk
<1>6. CoreNow'
  BY <1>1, <1>2, <1>5 DEF CoreNow
<1>7. Stopped'
  BY <1>2, <1>3 DEF Stopped
<1> QED
  BY <1>2, <1>6, <1>7, StepTo

\* Connector::handleError ends the process.
LEMMA StepHandleError ==
  ASSUME ClientInv, NEW e \in active, HandleError(e)
  PROVE  ClientInv'
<1>1. /\ Dispatch(e, "connector") /\ cr.state_ = "kConnecting"
      /\ cr' = [RemoveAndResetChannel(cr) EXCEPT !.proc = "exit"]
      /\ UNCHANGED <<connection_, conn, restarting>>
  BY DEF HandleError, connVars
<1>2. /\ restarting = FALSE /\ e.who = "connector"
      /\ UNCHANGED <<alive, retry_, wants, phase, batch, call, calls, stopped>>
      /\ Stopped /\ RestTypes' /\ CoreNow
      /\ Core(cr, call, alive, FALSE, connection_, conn, phase, active', batch)
  BY <1>1, Dispatched
<1>3. ~stopped
  BY <1>1, <1>2, ConnectorEvent
<1>4. Typed(cr, alive, FALSE, connection_, conn, active', batch)
  BY <1>2 DEF Core
<1>5. PICK c : c = RemoveAndResetChannel(cr)
  OBVIOUS
<1>6. c \in Connectors
  BY <1>4, <1>5, RemoveOk DEF Typed
<1>7. cr' \in Connectors /\ cr'.proc = "exit"
  BY <1>1, <1>5, <1>6 DEF Connectors
<1>8. Typed(cr', alive', restarting', connection_', conn', active', batch')
  BY <1>1, <1>2, <1>4, <1>7 DEF Typed
<1>9. Stopped'
  BY <1>2, <1>3 DEF Stopped
<1>10. (/\ RestTypes /\ Stopped /\ Typed(cr, alive, restarting, connection_, conn, active, batch)
        /\ cr.proc = "run" => CoreNow
        => ClientInv)'
  BY Together, PTL
<1> QED
  BY <1>2, <1>7, <1>8, <1>9, <1>10

\* An event that has become stale does nothing.
LEMMA StepStaleEvent ==
  ASSUME ClientInv, NEW e \in active, StaleEvent(e)
  PROVE  ClientInv'
<1>1. Dispatch(e, "connector") /\ UNCHANGED <<cr, connection_, conn, restarting>>
  BY DEF StaleEvent, connVars
<1>2. /\ restarting = FALSE
      /\ UNCHANGED <<alive, retry_, wants, phase, batch, call, calls, stopped>>
      /\ Stopped /\ RestTypes'
      /\ Core(cr, call, alive, FALSE, connection_, conn, phase, active', batch)
  BY <1>1, Dispatched
<1>3. CoreNow'
  BY <1>1, <1>2 DEF CoreNow
<1>4. Stopped'
  BY <1>1, <1>2 DEF Stopped, Attempting
<1> QED
  BY <1>2, <1>3, <1>4, StepTo

\* The attempt becomes a connection, or is closed if nobody wants it any more.
LEMMA StepHandleWrite ==
  ASSUME ClientInv, NEW e \in active, HandleWrite(e)
  PROVE  ClientInv'
<1>1. PICK d : d = RemoveAndResetChannel(cr)
  OBVIOUS
<1>2. PICK c : c = [d EXCEPT !.state_ = "kConnected"]
  OBVIOUS
<1>3. /\ Dispatch(e, "connector") /\ cr.state_ = "kConnecting" /\ restarting' = restarting
      /\ IF cr.connect_
         THEN /\ cr' = [c EXCEPT !.watched = @ \cup {e.fd}]
              /\ connection_' = e.fd /\ conn' = [conn EXCEPT ![e.fd] = "up"]
         ELSE /\ cr' = [c EXCEPT !.open = @ \ {e.fd}]
              /\ connection_' = connection_ /\ conn' = conn
  BY <1>1, <1>2 DEF HandleWrite, NewConnection
<1>4. /\ restarting = FALSE /\ phase = "events" /\ e.who = "connector"
      /\ active' = active \ {e}
      /\ UNCHANGED <<alive, retry_, wants, phase, batch, call, calls, stopped>>
      /\ Stopped /\ RestTypes' /\ CoreNow
      /\ Core(cr, call, alive, FALSE, connection_, conn, phase, active', batch)
  BY <1>3, Dispatched
<1>5. PICK f : f = cr.channel_
  OBVIOUS
<1>6. /\ e.fd = f /\ f \in Fds /\ ~stopped
      /\ cr.timers = 0 /\ ~SomeOpen(conn) /\ call \notin Starts
      /\ ~Has(batch \o cr.queue, "startInLoop") /\ ~Has(batch \o cr.queue, "resetChannel")
      /\ alive /\ ~cr.keeper
      /\ active' = {}
  <2>1. /\ e.fd = f /\ f \in Fds /\ ~stopped
        /\ cr.timers = 0 /\ ~SomeOpen(conn) /\ call \notin Starts
        /\ ~Has(batch \o cr.queue, "startInLoop") /\ ~Has(batch \o cr.queue, "resetChannel")
        /\ alive /\ ~cr.keeper
        /\ \A x \in active : x = e
    BY <1>3, <1>4, <1>5, ConnectorEvent
  <2> QED
    BY <2>1, <1>4
<1>7. PICK q : q = batch \o cr.queue
  OBVIOUS
<1>8. /\ Typed(cr, alive, FALSE, connection_, conn, active', batch)
      /\ Parts(cr, call, alive, FALSE, connection_, conn, phase, active', batch, q)
  BY <1>4, <1>7 DEF Core
<1>9. /\ cr \in Connectors /\ cr.queue \in Seq(Functors) /\ batch \in Seq(Functors) /\ q \in Seq(Functors)
      /\ conn \in [Fds -> {"none", "up", "closing", "down"}] /\ None \notin Fds
      /\ cr.open \subseteq Fds /\ cr.watched \subseteq Fds /\ alive \in BOOLEAN
      /\ connection_ \in Fds \cup {None}
  BY <1>7, <1>8, CoreTypes DEF Typed
<1>10. /\ OwnerOf(cr, conn) /\ LinkOf(alive, connection_, conn) /\ InOrder(q, conn)
       /\ FreshOf(cr, conn, phase, active', batch, q)
  BY <1>8 DEF Parts
<1>11. /\ d \in Connectors /\ SameCall(cr, d)
       /\ d.open = cr.open /\ d.watched = cr.watched \ {f} /\ d.channel_ = f
       /\ d.queue = Append(cr.queue, ResetFn) /\ d.timers = cr.timers
  BY <1>1, <1>5, <1>9, RemoveOk
<1>12. /\ c \in Connectors /\ SameCall(d, c)
       /\ c.open = d.open /\ c.watched = d.watched /\ c.channel_ = d.channel_
       /\ c.state_ = "kConnected" /\ c.queue = d.queue /\ c.timers = d.timers
  BY <1>2, <1>11 DEF Connectors, SameCall, States
<1>13. PICK p : p = Append(q, ResetFn)
  OBVIOUS
<1>14. p = batch \o Append(cr.queue, ResetFn)
  <2>1. batch \o Append(cr.queue, ResetFn) = Append(batch \o cr.queue, ResetFn)
    BY <1>9, PushBack, ResetFnOk
  <2> QED
    BY <2>1, <1>7, <1>13
<1>15. \A op : Has(p, op) <=> Has(q, op) \/ op = "resetChannel"
  BY <1>9, <1>13, HasAppend, ResetFnOk
<1>16. /\ f \in cr.open /\ conn[f] = "none"
       /\ \A g \in Fds : /\ g \in cr.open <=> conn[g] # "none" \/ g = f
                         /\ g \in cr.watched => conn[g] # "none" \/ g = f
  BY <1>3, <1>5, <1>10 DEF OwnerOf, Try
<1>17. ASSUME NEW ds, Ages(conn, ds) PROVE InOrder(p, ds)
  <2>1. ~About(ResetFn) /\ ResetFn.op = "resetChannel"
    BY ResetFnOk DEF About
  <2>2. \A g \in Fds : ~IsOpen(conn, g)
    BY <1>6 DEF SomeOpen
  <2> QED
    BY <1>17, <2>1, <2>2, <1>9, <1>10, <1>13, ResetFnOk, InOrderAppend
<1>18. CASE cr.connect_
  <2>1. /\ cr' \in Connectors /\ SameCall(c, cr')
        /\ cr'.open = c.open /\ cr'.watched = c.watched \cup {f} /\ cr'.channel_ = c.channel_
        /\ cr'.state_ = "kConnected" /\ cr'.queue = c.queue /\ cr'.timers = c.timers
    BY <1>3, <1>6, <1>12, <1>18 DEF Connectors, SameCall
  <2>2. /\ cr'.open = cr.open /\ cr'.watched = (cr.watched \ {f}) \cup {f} /\ cr'.channel_ = f
        /\ ~Try(cr') /\ cr'.queue = Append(cr.queue, ResetFn) /\ cr'.timers = 0 /\ ~cr'.keeper
        /\ cr'.connect_ = cr.connect_
    BY <2>1, <1>6, <1>11, <1>12 DEF SameCall, Try
  <2>3. connection_' = f /\ conn' = [conn EXCEPT ![f] = "up"]
    BY <1>3, <1>6, <1>18
  <2>4. /\ conn' \in [Fds -> {"none", "up", "closing", "down"}] /\ conn'[f] = "up"
        /\ \A g \in Fds : g # f => conn'[g] = conn[g]
    BY <2>3, <1>6, <1>9
  <2>5. \A g \in Fds : IsOpen(conn', g) <=> g = f
    BY <2>4, <1>6 DEF SomeOpen, IsOpen
  <2>6. OwnerOf(cr', conn')
    BY <2>2, <2>4, <1>16 DEF OwnerOf
  <2>7. StageOf(cr', call, FALSE, conn', p)
    <3>1. ~Has(p, "startInLoop") /\ ~(cr'.timers > 0) /\ cr'.timers <= 1
      BY <2>2, <1>6, <1>7, <1>15
    <3> QED
      BY <3>1, <2>2, <2>5, <1>6, Zenon DEF StageOf
  <2>8. LinkOf(alive, connection_', conn')
    BY <2>3, <2>5, <1>6 DEF LinkOf
  <2>9. InOrder(p, conn')
    <3>1. Ages(conn, conn')
      BY <2>4, <1>16 DEF Ages
    <3> QED
      BY <3>1, <1>17
  <2>10. ResetOf(cr', call, FALSE, conn', phase, p)
    BY <2>2, <1>4, <1>6, <1>7, <1>15 DEF ResetOf
  <2>11. FreshOf(cr', conn', phase, active', batch, p)
    BY <1>4, <1>6, <1>10 DEF FreshOf
  <2>12. OrphanOf(cr', call, alive, FALSE, p)
    BY <2>2, <1>6 DEF OrphanOf
  <2>13. Typed(cr', alive, FALSE, connection_', conn', active', batch)
    BY <2>1, <2>3, <2>4, <1>6, <1>8 DEF Typed
  <2>14. Core(cr', call, alive, FALSE, connection_', conn', phase, active', batch)
    BY <2>2, <2>6, <2>7, <2>8, <2>9, <2>10, <2>11, <2>12, <2>13, <1>14 DEF Core, Parts
  <2>15. CoreNow'
    BY <2>14, <1>3, <1>4 DEF CoreNow
  <2>16. Stopped'
    BY <1>4, <1>6 DEF Stopped
  <2> QED
    BY <2>15, <2>16, <1>4, StepTo
<1>19. CASE ~cr.connect_
  <2>1. /\ cr' \in Connectors /\ SameCall(c, cr')
        /\ cr'.open = c.open \ {f} /\ cr'.watched = c.watched /\ cr'.channel_ = c.channel_
        /\ cr'.state_ = "kConnected" /\ cr'.queue = c.queue /\ cr'.timers = c.timers
    BY <1>3, <1>6, <1>12, <1>19 DEF Connectors, SameCall
  <2>2. /\ cr'.open = cr.open \ {f} /\ cr'.watched = cr.watched \ {f} /\ cr'.channel_ = f
        /\ ~Try(cr') /\ cr'.queue = Append(cr.queue, ResetFn) /\ cr'.timers = 0 /\ ~cr'.keeper
    BY <2>1, <1>6, <1>11, <1>12 DEF SameCall, Try
  <2>3. connection_' = connection_ /\ conn' = conn
    BY <1>3, <1>19
  <2>4. OwnerOf(cr', conn)
    BY <2>2, <1>16 DEF OwnerOf
  <2>5. StageOf(cr', call, FALSE, conn, p)
    <3>1. ~Has(p, "startInLoop") /\ ~(cr'.timers > 0) /\ cr'.timers <= 1
      BY <2>2, <1>6, <1>7, <1>15
    <3> QED
      BY <3>1, <2>2, <1>6, Zenon DEF StageOf, SomeOpen
  <2>6. InOrder(p, conn)
    BY <1>17 DEF Ages
  <2>7. ResetOf(cr', call, FALSE, conn, phase, p)
    BY <2>2, <1>4, <1>6, <1>7, <1>15 DEF ResetOf
  <2>8. FreshOf(cr', conn, phase, active', batch, p)
    BY <1>4, <1>6, <1>10 DEF FreshOf
  <2>9. OrphanOf(cr', call, alive, FALSE, p)
    BY <2>2, <1>6 DEF OrphanOf
  <2>10. Typed(cr', alive, FALSE, connection_, conn, active', batch)
    BY <2>1, <1>8 DEF Typed
  <2>11. Core(cr', call, alive, FALSE, connection_, conn, phase, active', batch)
    BY <2>2, <2>4, <2>5, <2>6, <2>7, <2>8, <2>9, <2>10, <1>10, <1>14 DEF Core, Parts
  <2>12. CoreNow'
    BY <2>3, <2>11, <1>3, <1>4 DEF CoreNow
  <2>13. Stopped'
    BY <1>4, <1>6 DEF Stopped
  <2> QED
    BY <2>12, <2>13, <1>4, StepTo
<1> QED
  BY <1>18, <1>19

\* A retry timer expires.
LEMMA StepRetryTimer ==
  ASSUME ClientInv, NEW e \in active, RetryTimer(e)
  PROVE  ClientInv'
<1>1. PICK c : c = Expired(cr)
  OBVIOUS
<1>2. /\ Dispatch(e, "retry") /\ cr' \in StartInLoop(c)
      /\ UNCHANGED <<connection_, conn, restarting>>
  BY <1>1 DEF RetryTimer, Expired, connVars
<1>3. /\ restarting = FALSE /\ e.who = "retry" /\ active' = active \ {e}
      /\ UNCHANGED <<alive, retry_, wants, phase, batch, call, calls, stopped>>
      /\ Stopped /\ RestTypes' /\ CoreNow
  BY <1>2, Dispatched
<1>4. Core(cr, call, alive, FALSE, connection_, conn, phase, active, batch)
  BY <1>3 DEF CoreNow
<1>5. /\ Core(c, call, alive, FALSE, connection_, conn, phase, active', batch)
      /\ NoStage(c, call, alive, FALSE, conn, batch \o c.queue)
      /\ c.connect_ = cr.connect_ /\ c.state_ = cr.state_
  <2>1. /\ Core(c, call, alive, FALSE, connection_, conn, phase, active \ {e}, batch)
        /\ NoStage(c, call, alive, FALSE, conn, batch \o c.queue)
        /\ c.connect_ = cr.connect_ /\ c.state_ = cr.state_
    <3>1. e.who = "retry"
      BY <1>3
    <3> QED
      BY <3>1, <1>1, <1>4, TimerOk
  <2> QED
    BY <2>1, <1>3
<1>6. Core(cr', call, alive, FALSE, connection_, conn, phase, active', batch)
  BY <1>2, <1>5, StartOk
<1>7. CoreNow'
  BY <1>2, <1>3, <1>6 DEF CoreNow
<1>8. Stopped'
  <2>1. ~cr.connect_ => cr' = c
    BY <1>2, <1>5 DEF StartInLoop
  <2> QED
    BY <2>1, <1>2, <1>3, <1>5 DEF Stopped, Attempting
<1> QED
  BY <1>3, <1>7, <1>8, StepTo

\* The timer of ~TcpClient expires.
LEMMA StepKeeperTimer ==
  ASSUME ClientInv, NEW e \in active, KeeperTimer(e)
  PROVE  ClientInv'
<1>1. /\ Dispatch(e, "keeper") /\ cr' = [cr EXCEPT !.keeper = FALSE]
      /\ UNCHANGED <<connection_, conn, restarting>>
  BY DEF KeeperTimer, connVars
<1>2. /\ restarting = FALSE /\ e.who = "keeper" /\ active' = active \ {e}
      /\ UNCHANGED <<alive, retry_, wants, phase, batch, call, calls, stopped>>
      /\ Stopped /\ RestTypes' /\ CoreNow
  BY <1>1, Dispatched
<1>3. Core(cr, call, alive, FALSE, connection_, conn, phase, active, batch)
  BY <1>2 DEF CoreNow
<1>4. /\ Core(cr', call, alive, FALSE, connection_, conn, phase, active', batch)
      /\ cr'.connect_ = cr.connect_ /\ cr'.state_ = cr.state_
  <2>1. PICK r : r = cr'
    OBVIOUS
  <2>2. e.who = "keeper" /\ r = Unkept(cr)
    BY <2>1, <1>1, <1>2 DEF Unkept
  <2>3. /\ Core(r, call, alive, FALSE, connection_, conn, phase, active \ {e}, batch)
        /\ r.connect_ = cr.connect_ /\ r.state_ = cr.state_
    BY <2>2, <1>3, KeeperOk
  <2> QED
    BY <2>1, <2>3, <1>2
<1>5. CoreNow'
  BY <1>1, <1>2, <1>4 DEF CoreNow
<1>6. Stopped'
  BY <1>1, <1>2, <1>4 DEF Stopped, Attempting
<1> QED
  BY <1>2, <1>5, <1>6, StepTo

\* What closing a connection leaves of the Connector.
LEMMA CloseFields ==
  ASSUME NEW c \in Connectors, NEW f \in Fds
  PROVE  LET r == Queue(c, Functor("connectDestroyed", f))
         IN  r.connect_ = c.connect_ /\ r.state_ = c.state_
<1>1. PICK fn, r : fn = Functor("connectDestroyed", f) /\ r = Queue(c, fn)
  OBVIOUS
<1>2. fn \in Functors
  BY <1>1 DEF Functor, Functors
<1>3. r.connect_ = c.connect_ /\ r.state_ = c.state_
  BY <1>1, <1>2, QueueFields DEF SameCall, SameFds
<1> QED
  BY <1>1, <1>3

\* The peer closes the connection.
LEMMA StepConnClosed ==
  ASSUME ClientInv, NEW e \in active, ConnClosed(e)
  PROVE  ClientInv'
<1>1. PICK f : f = e.fd
  OBVIOUS
<1>2. /\ Dispatch(e, "conn") /\ conn' = [conn EXCEPT ![f] = "down"] /\ connection_' = None
      /\ cr' = Queue(cr, Functor("connectDestroyed", f))
      /\ restarting' = (alive /\ retry_ /\ wants)
  BY <1>1 DEF ConnClosed, HandleClose
<1>3. /\ restarting = FALSE /\ e.who = "conn" /\ e \in Events /\ active' = active \ {e}
      /\ UNCHANGED <<alive, retry_, wants, phase, batch, call, calls, stopped>>
      /\ Stopped /\ RestTypes /\ RestTypes' /\ CoreNow
      /\ Core(cr, call, alive, FALSE, connection_, conn, phase, active', batch)
  BY <1>2, Dispatched
<1>4. /\ Typed(cr, alive, restarting, connection_, conn, active, batch)
      /\ FreshOf(cr, conn, phase, active, batch, batch \o cr.queue)
  BY <1>3 DEF CoreNow, Core, Parts
<1>5. f \in Fds /\ IsOpen(conn, f) /\ ~Has(batch \o cr.queue, "resetChannel")
  BY <1>1, <1>3, <1>4, EventFd DEF FreshOf
<1>6. \A d \in active' : d.who = "conn" => d.fd # f
  <2>1. \A d \in active : d = [who |-> d.who, fd |-> d.fd]
    BY <1>4 DEF Typed, Events
  <2> QED
    BY <2>1, <1>1, <1>3
<1>7. restarting' \in BOOLEAN /\ (restarting' => alive)
  BY <1>2
<1>8. Core(cr', call, alive, restarting', None, conn', phase, active', batch)
  BY <1>2, <1>3, <1>5, <1>6, <1>7, CloseOk
<1>9. CoreNow'
  BY <1>2, <1>3, <1>8 DEF CoreNow
<1>10. cr'.connect_ = cr.connect_ /\ cr'.state_ = cr.state_
  BY <1>2, <1>4, <1>5, CloseFields DEF Typed
<1>11. Stopped'
  BY <1>2, <1>3, <1>10 DEF Stopped, Attempting
<1> QED
  BY <1>3, <1>9, <1>11, StepTo

\* removeConnection goes on to restart().
LEMMA StepRestart ==
  ASSUME ClientInv, Restart
  PROVE  ClientInv'
<1>1. PICK c : c = Restarted(cr)
  OBVIOUS
<1>2. /\ cr.proc = "run" /\ restarting /\ restarting' = FALSE /\ cr' \in StartInLoop(c)
      /\ UNCHANGED <<alive, retry_, wants, connection_, conn, phase, active, batch, call, calls, stopped>>
  BY <1>1 DEF Restart, Restarted, userVars
<1>3. RestTypes /\ Stopped /\ CoreNow /\ TypeOK
  BY <1>2, Before
<1>4. restarting = TRUE
  BY <1>2, <1>3 DEF TypeOK
<1>5. Core(cr, call, alive, TRUE, connection_, conn, phase, active, batch)
  BY <1>3, <1>4 DEF CoreNow
<1>6. /\ Core(c, call, alive, FALSE, connection_, conn, phase, active, batch)
      /\ NoStage(c, call, alive, FALSE, conn, batch \o c.queue)
  BY <1>1, <1>5, RestartOk
<1>7. Core(cr', call, alive, FALSE, connection_, conn, phase, active, batch)
  BY <1>2, <1>6, StartOk
<1>8. CoreNow'
  BY <1>2, <1>7 DEF CoreNow
<1>9. RestTypes' /\ Stopped'
  BY <1>2, <1>3 DEF RestTypes, Stopped
<1> QED
  BY <1>8, <1>9, StepTo

\* doPendingFunctors runs the next functor.
LEMMA StepRunFunctor ==
  ASSUME ClientInv, RunFunctor
  PROVE  ClientInv'
<1>1. PICK fn : fn = Head(batch)
  OBVIOUS
<1>2. /\ cr.proc = "run" /\ ~restarting /\ phase = "functors" /\ batch # <<>> /\ batch' = Tail(batch)
      /\ UNCHANGED <<alive, retry_, wants, phase, active, call, calls, stopped>>
      /\ \/ fn.op = "startInLoop" /\ cr' \in StartInLoop(cr) /\ UNCHANGED <<connection_, conn, restarting>>
         \/ fn.op = "stopInLoop" /\ cr' = StopInLoop(cr) /\ UNCHANGED <<connection_, conn, restarting>>
         \/ /\ fn.op = "resetChannel" /\ cr' = [cr EXCEPT !.channel_ = None]
            /\ UNCHANGED <<connection_, conn, restarting>>
         \/ /\ fn.op = "connectDestroyed"
            /\ cr' = [cr EXCEPT !.watched = @ \ {fn.fd}, !.open = @ \ {fn.fd}]
            /\ conn' = [conn EXCEPT ![fn.fd] = "none"]
            /\ UNCHANGED <<connection_, restarting>>
         \/ fn.op = "forceCloseInLoop" /\ Open(fn.fd) /\ HandleClose(fn.fd)
         \/ fn.op \in {"forceCloseInLoop", "shutdownInLoop"} /\ UNCHANGED <<cr, connection_, conn, restarting>>
  BY <1>1 DEF RunFunctor, LoopFree, connVars, userVars
<1>3. RestTypes /\ Stopped /\ CoreNow /\ TypeOK
  BY <1>2, Before
<1>4. restarting = FALSE /\ cr \in Connectors
  BY <1>2, <1>3 DEF TypeOK
<1>5. Core(cr, call, alive, FALSE, connection_, conn, "functors", active, batch)
  BY <1>2, <1>3, <1>4 DEF CoreNow
<1>6. RestTypes'
  BY <1>2, <1>3 DEF RestTypes
<1>7. ASSUME fn.op # "resetChannel"
      PROVE  /\ Core(cr, call, alive, FALSE, connection_, conn, "functors", active, Tail(batch))
             /\ fn \in Functors
             /\ fn.op = "startInLoop" =>
                  NoStage(cr, call, alive, FALSE, conn, Tail(batch) \o cr.queue)
             /\ fn.op = "forceCloseInLoop" /\ IsOpen(conn, fn.fd) =>
                  ~Has(Tail(batch) \o cr.queue, "resetChannel")
             /\ fn.op = "connectDestroyed" =>
                  /\ conn[fn.fd] = "down"
                  /\ \A i \in 1..Len(Tail(batch) \o cr.queue) : (Tail(batch) \o cr.queue)[i].fd # fn.fd
  <2>1. batch # <<>> /\ Head(batch).op # "resetChannel"
    BY <1>1, <1>2, <1>7
  <2>2. /\ Core(cr, call, alive, FALSE, connection_, conn, "functors", active, Tail(batch))
        /\ Head(batch) \in Functors
        /\ Head(batch).op = "startInLoop" =>
             NoStage(cr, call, alive, FALSE, conn, Tail(batch) \o cr.queue)
        /\ Head(batch).op = "forceCloseInLoop" /\ IsOpen(conn, Head(batch).fd) =>
             ~Has(Tail(batch) \o cr.queue, "resetChannel")
        /\ Head(batch).op = "connectDestroyed" =>
             /\ conn[Head(batch).fd] = "down"
             /\ \A i \in 1..Len(Tail(batch) \o cr.queue) :
                  (Tail(batch) \o cr.queue)[i].fd # Head(batch).fd
    BY <2>1, <1>5, DropOk
  <2> QED
    BY <2>2, <1>1
<1>8. CASE fn.op = "startInLoop" /\ cr' \in StartInLoop(cr) /\ UNCHANGED <<connection_, conn, restarting>>
  <2>1. Core(cr', call, alive, FALSE, connection_, conn, "functors", active, Tail(batch))
    BY <1>7, <1>8, StartOk
  <2>2. CoreNow'
    BY <2>1, <1>2, <1>4, <1>8 DEF CoreNow
  <2>3. Stopped'
    <3>1. ~cr.connect_ => cr' = cr
      BY <1>8 DEF StartInLoop
    <3> QED
      BY <3>1, <1>2, <1>3, <1>8 DEF Stopped, Attempting
  <2> QED
    BY <2>2, <2>3, <1>6, StepTo
<1>9. CASE fn.op = "stopInLoop" /\ cr' = StopInLoop(cr) /\ UNCHANGED <<connection_, conn, restarting>>
  <2>1. Core(cr', call, alive, FALSE, connection_, conn, "functors", active, Tail(batch))
    BY <1>7, <1>9, StopOk
  <2>2. CoreNow'
    BY <2>1, <1>2, <1>4, <1>9 DEF CoreNow
  <2>3. cr'.connect_ = cr.connect_ /\ cr'.state_ # "kConnecting"
    BY <1>4, <1>9, StopFields DEF SameCall
  <2>4. Stopped'
    BY <2>3, <1>2, <1>3, <1>9 DEF Stopped, Attempting
  <2> QED
    BY <2>2, <2>4, <1>6, StepTo
<1>10. CASE /\ fn.op = "resetChannel" /\ cr' = [cr EXCEPT !.channel_ = None]
            /\ UNCHANGED <<connection_, conn, restarting>>
  <2>1. /\ Core(cr', call, alive, FALSE, connection_, conn, "functors", active, Tail(batch))
        /\ cr'.connect_ = cr.connect_ /\ cr'.state_ = cr.state_
    <3>1. PICK r : r = cr'
      OBVIOUS
    <3>2. batch # <<>> /\ Head(batch).op = "resetChannel" /\ r = Cleared(cr)
      BY <3>1, <1>1, <1>2, <1>10 DEF Cleared
    <3>3. /\ Core(r, call, alive, FALSE, connection_, conn, "functors", active, Tail(batch))
          /\ r.connect_ = cr.connect_ /\ r.state_ = cr.state_
      BY <3>2, <1>5, ResetOk
    <3> QED
      BY <3>1, <3>3
  <2>2. CoreNow'
    BY <2>1, <1>2, <1>4, <1>10 DEF CoreNow
  <2>3. Stopped'
    BY <2>1, <1>2, <1>3, <1>10 DEF Stopped, Attempting
  <2> QED
    BY <2>2, <2>3, <1>6, StepTo
<1>11. CASE /\ fn.op = "connectDestroyed"
            /\ cr' = [cr EXCEPT !.watched = @ \ {fn.fd}, !.open = @ \ {fn.fd}]
            /\ conn' = [conn EXCEPT ![fn.fd] = "none"]
            /\ UNCHANGED <<connection_, restarting>>
  <2>1. fn.fd \in Fds
    BY <1>7, <1>11, AboutFd DEF About
  <2>2. /\ Core(cr, call, alive, FALSE, connection_, conn, "functors", active, Tail(batch))
        /\ conn[fn.fd] = "down"
        /\ \A i \in 1..Len(Tail(batch) \o cr.queue) : (Tail(batch) \o cr.queue)[i].fd # fn.fd
    BY <1>7, <1>11
  <2>3. /\ Core(cr', call, alive, FALSE, connection_, conn', "functors", active, Tail(batch))
        /\ cr'.connect_ = cr.connect_ /\ cr'.state_ = cr.state_
    <3>1. PICK f, r, cs : f = fn.fd /\ r = cr' /\ cs = conn'
      OBVIOUS
    <3>2. /\ f \in Fds /\ IsDown(conn, f) /\ cs = Absent(conn, f)
          /\ r = Forgotten(cr, f)
          /\ Unused(Tail(batch) \o cr.queue, f)
      BY <3>1, <2>1, <2>2, <1>11 DEF Forgotten, Unused, Absent, IsDown
    <3>3. PICK ba : ba = Tail(batch)
      OBVIOUS
    <3>4. Core(cr, call, alive, FALSE, connection_, conn, "functors", active, ba)
      BY <3>3, <2>2
    <3>5. Unused(ba \o cr.queue, f)
      BY <3>2, <3>3
    <3>6. /\ Core(r, call, alive, FALSE, connection_, cs, "functors", active, ba)
          /\ r.connect_ = cr.connect_ /\ r.state_ = cr.state_
      <4>1. f \in Fds /\ IsDown(conn, f) /\ cs = Absent(conn, f) /\ r = Forgotten(cr, f)
        BY <3>2
      <4>2. PICK ph, rs : ph = "functors" /\ rs = FALSE
        OBVIOUS
      <4>3. Core(cr, call, alive, rs, connection_, conn, ph, active, ba)
        BY <4>2, <3>4
      <4>4. /\ Core(r, call, alive, rs, connection_, cs, ph, active, ba)
            /\ r.connect_ = cr.connect_ /\ r.state_ = cr.state_
        BY <4>1, <4>3, <3>5, GoneOk
      <4> QED
        BY <4>2, <4>4
    <3> QED
      BY <3>1, <3>3, <3>6
  <2>4. CoreNow'
    BY <2>3, <1>2, <1>4, <1>11 DEF CoreNow
  <2>5. Stopped'
    BY <2>3, <1>2, <1>3, <1>11 DEF Stopped, Attempting
  <2> QED
    BY <2>4, <2>5, <1>6, StepTo
<1>12. CASE fn.op = "forceCloseInLoop" /\ Open(fn.fd) /\ HandleClose(fn.fd)
  <2>1. PICK f : f = fn.fd
    OBVIOUS
  <2>2. /\ conn' = [conn EXCEPT ![f] = "down"] /\ connection_' = None
        /\ cr' = Queue(cr, Functor("connectDestroyed", f))
        /\ restarting' = (alive /\ retry_ /\ wants)
    BY <2>1, <1>12 DEF HandleClose
  <2>3. f \in Fds /\ IsOpen(conn, f) /\ ~Has(Tail(batch) \o cr.queue, "resetChannel")
    BY <2>1, <1>7, <1>12, AboutFd DEF About, Open, IsOpen
  <2>4. active = {}
    BY <1>5 DEF Core, Parts, FreshOf
  <2>5. restarting' \in BOOLEAN /\ (restarting' => alive)
    BY <2>2
  <2>6. Core(cr', call, alive, restarting', None, conn', "functors", active, Tail(batch))
    BY <2>2, <2>3, <2>4, <2>5, <1>7, <1>12, CloseOk
  <2>7. CoreNow'
    BY <2>2, <2>6, <1>2 DEF CoreNow
  <2>8. cr'.connect_ = cr.connect_ /\ cr'.state_ = cr.state_
    BY <2>2, <2>3, <1>4, CloseFields
  <2>9. Stopped'
    BY <2>2, <2>8, <1>2, <1>3 DEF Stopped, Attempting
  <2> QED
    BY <2>7, <2>9, <1>6, StepTo
<1>13. CASE fn.op \in {"forceCloseInLoop", "shutdownInLoop"} /\ UNCHANGED <<cr, connection_, conn, restarting>>
  <2>1. Core(cr, call, alive, FALSE, connection_, conn, "functors", active, Tail(batch))
    BY <1>7, <1>13
  <2>2. CoreNow'
    BY <2>1, <1>2, <1>4, <1>13 DEF CoreNow
  <2>3. Stopped'
    BY <1>2, <1>3, <1>13 DEF Stopped, Attempting
  <2> QED
    BY <2>2, <2>3, <1>6, StepTo
<1> QED
  BY <1>2, <1>8, <1>9, <1>10, <1>11, <1>12, <1>13

\* A client that is settled is in no stage.
LEMMA SettledNoStage ==
  ASSUME CoreNow, TypeOK, Settled, alive
  PROVE  NoStage(cr, call, alive, restarting, conn, batch \o cr.queue)
<1>1. /\ Quiet /\ call = <<>> /\ ~restarting
      /\ connection_ = None /\ cr.state_ # "kConnecting" /\ cr.timers = 0
  BY DEF Settled
<1>2. ~Has(batch \o cr.queue, "startInLoop") /\ ~Has(batch \o cr.queue, "resetChannel")
  BY <1>1, QuietWaits DEF Waits, Order
<1>3. ~SomeOpen(conn)
  <2>1. LinkOf(alive, connection_, conn)
    BY DEF CoreNow, Core, Parts
  <2> QED
    BY <2>1, <1>1, ClientAssumption DEF LinkOf, SomeOpen
<1>4. call \notin Starts
  BY <1>1 DEF Starts
<1> QED
  BY <1>1, <1>2, <1>3, <1>4 DEF NoStage, Try

\* What is known when the loop's thread calls the client.
LEMMA HereFacts ==
  ASSUME ClientInv, Here
  PROVE  /\ cr.proc = "run" /\ restarting = FALSE /\ alive = TRUE
         /\ UNCHANGED <<retry_, phase, restarting, active, batch, call, calls>>
         /\ RestTypes /\ Stopped /\ CoreNow /\ TypeOK /\ cr \in Connectors
<1>1. /\ cr.proc = "run" /\ ~restarting /\ alive
      /\ UNCHANGED <<retry_, phase, restarting, active, batch, call, calls>>
  BY DEF Here, LoopFree, loopVars, userVars
<1>2. RestTypes /\ Stopped /\ CoreNow /\ TypeOK
  BY <1>1, Before
<1>3. restarting = FALSE /\ alive = TRUE /\ cr \in Connectors
  BY <1>1, <1>2 DEF TypeOK
<1> QED
  BY <1>1, <1>2, <1>3

\* TcpClient::connect in the loop's thread.
LEMMA StepConnectHere ==
  ASSUME ClientInv, ConnectHere
  PROVE  ClientInv'
<1>1. PICK c : c = Told(cr, TRUE)
  OBVIOUS
<1>2. /\ Here /\ Settled /\ wants' = TRUE /\ stopped' = FALSE /\ cr' \in StartInLoop(c)
      /\ UNCHANGED <<alive, connection_, conn>>
  BY <1>1 DEF ConnectHere, Told
<1>3. /\ restarting = FALSE /\ alive
      /\ UNCHANGED <<retry_, phase, restarting, active, batch, call, calls>>
      /\ RestTypes /\ Stopped /\ CoreNow /\ TypeOK
  BY <1>2, HereFacts
<1>4. NoStage(cr, call, alive, restarting, conn, batch \o cr.queue)
  BY <1>2, <1>3, SettledNoStage
<1>5. Core(cr, call, alive, restarting, connection_, conn, phase, active, batch)
  BY <1>3 DEF CoreNow
<1>6. /\ Core(c, call, alive, restarting, connection_, conn, phase, active, batch)
      /\ c.state_ = cr.state_ /\ c.timers = cr.timers /\ c.queue = cr.queue
  <2>1. PICK b \in BOOLEAN : b = TRUE
    OBVIOUS
  <2>2. c = Told(cr, b) /\ (b => alive)
    BY <2>1, <1>1, <1>3
  <2> QED
    BY <2>2, <1>5, SetConnect
<1>7. NoStage(c, call, alive, restarting, conn, batch \o c.queue)
  BY <1>3, <1>4, <1>6 DEF NoStage, Try
<1>8. Core(cr', call, alive, restarting, connection_, conn, phase, active, batch)
  BY <1>2, <1>6, <1>7, StartOk
<1>9. CoreNow'
  BY <1>2, <1>3, <1>8 DEF CoreNow
<1>10. RestTypes' /\ Stopped'
  BY <1>2, <1>3 DEF RestTypes, Stopped
<1> QED
  BY <1>9, <1>10, StepTo

\* A call that does not end in startInLoop is no connect().
LEMMA LastOfStarts ==
  ASSUME NEW cl, cl = <<>> \/ cl[Len(cl)] # "startInLoop"
  PROVE  cl \notin Starts
<1> SUFFICES ASSUME cl \in Starts PROVE FALSE
  OBVIOUS
<1>1. CASE cl = <<"clientOn", "connectorOn", "startInLoop">>
  BY <1>1
<1>2. CASE cl = <<"connectorOn", "startInLoop">>
  BY <1>2
<1>3. CASE cl = <<"startInLoop">>
  BY <1>3
<1> QED
  BY <1>1, <1>2, <1>3 DEF Starts

\* connect_ is cleared and stopInLoop runs.
LEMMA StoppedCore ==
  ASSUME NEW c, NEW cl, NEW al, NEW rs, NEW lk, NEW cs, NEW ph, NEW ac, NEW ba,
         Core(c, cl, al, rs, lk, cs, ph, ac, ba), NEW r, r = StopInLoop(Told(c, FALSE))
  PROVE  /\ Core(r, cl, al, rs, lk, cs, ph, ac, ba)
         /\ r \in Connectors /\ ~r.connect_ /\ r.state_ # "kConnecting"
         /\ \A op \in {"startInLoop", "stopInLoop"} : Has(ba \o r.queue, op) => Has(ba \o c.queue, op)
<1>1. PICK d : d = Told(c, FALSE)
  OBVIOUS
<1>2. PICK b \in BOOLEAN : b = FALSE
  OBVIOUS
<1>3. /\ Core(d, cl, al, rs, lk, cs, ph, ac, ba) /\ d.connect_ = FALSE
      /\ d.state_ = c.state_ /\ d.queue = c.queue
  <2>1. d = Told(c, b) /\ (b => al)
    BY <1>1, <1>2
  <2>2. /\ Core(d, cl, al, rs, lk, cs, ph, ac, ba) /\ d.connect_ = b
        /\ d.state_ = c.state_ /\ d.queue = c.queue
    BY <2>1, <1>2, SetConnect
  <2> QED
    BY <2>2, <1>2
<1>4. /\ d \in Connectors /\ d.queue \in Seq(Functors) /\ ba \in Seq(Functors)
  BY <1>3, CoreTypes DEF Core, Typed
<1>5. r = StopInLoop(d)
  BY <1>1
<1>6. Core(r, cl, al, rs, lk, cs, ph, ac, ba)
  BY <1>3, <1>5, StopOk
<1>7. /\ r \in Connectors /\ SameCall(d, r) /\ r.state_ # "kConnecting"
      /\ r.queue = d.queue \/ r.queue = Append(d.queue, ResetFn)
  BY <1>4, <1>5, StopFields
<1>8. ASSUME NEW op \in {"startInLoop", "stopInLoop"}, Has(ba \o r.queue, op)
      PROVE  Has(ba \o c.queue, op)
  <2>1. r.queue \in Seq(Functors)
    BY <1>7 DEF Connectors
  <2>2. Has(ba, op) \/ Has(r.queue, op)
    BY <2>1, <1>4, <1>8, HasQueue
  <2>3. Has(r.queue, op) => Has(d.queue, op)
    BY <1>4, <1>7, <1>8, HasAppend, ResetFnOk
  <2> QED
    BY <2>2, <2>3, <1>3, <1>4, HasQueue
<1> QED
  BY <1>3, <1>6, <1>7, <1>8 DEF SameCall

\* TcpClient::stop in the loop's thread.
LEMMA StepStopHere ==
  ASSUME ClientInv, StopHere
  PROVE  ClientInv'
<1>1. /\ Here /\ wants' = FALSE /\ stopped' = (call = <<>> \/ call[Len(call)] # "startInLoop")
      /\ cr' = StopInLoop(Told(cr, FALSE))
      /\ UNCHANGED <<alive, connection_, conn>>
  BY DEF StopHere, Told
<1>2. /\ restarting = FALSE
      /\ UNCHANGED <<retry_, phase, restarting, active, batch, call, calls>>
      /\ RestTypes /\ Stopped /\ CoreNow
  BY <1>1, HereFacts
<1>3. Core(cr, call, alive, restarting, connection_, conn, phase, active, batch)
  BY <1>2 DEF CoreNow
<1>4. /\ Core(cr', call, alive, restarting, connection_, conn, phase, active, batch)
      /\ ~cr'.connect_ /\ cr'.state_ # "kConnecting"
  BY <1>1, <1>3, StoppedCore
<1>5. CoreNow'
  BY <1>1, <1>2, <1>4 DEF CoreNow
<1>6. RestTypes'
  BY <1>1, <1>2 DEF RestTypes
<1>7. Stopped'
  <2>1. stopped' => call \notin Starts
    BY <1>1, LastOfStarts
  <2> QED
    BY <2>1, <1>1, <1>2, <1>4 DEF Stopped, Attempting
<1> QED
  BY <1>5, <1>6, <1>7, StepTo

\* TcpConnection::shutdown leaves the connection open.
LEMMA ShutdownOk ==
  ASSUME CoreNow, Shutdown(connection_)
  PROVE  /\ Core(cr, call, alive, restarting, connection_, conn', phase, active, batch)
         /\ conn' # conn => connection_ \in Fds /\ IsOpen(conn', connection_)
<1>1. Core(cr, call, alive, restarting, connection_, conn, phase, active, batch)
  BY DEF CoreNow
<1>2. CASE connection_ # None /\ conn[connection_] = "up"
  <2>1. PICK f : f = connection_
    OBVIOUS
  <2>2. conn' = [conn EXCEPT ![f] = "closing"]
    BY <2>1, <1>2 DEF Shutdown
  <2>3. f \in Fds /\ IsOpen(conn, f)
    BY <2>1, <1>1, <1>2 DEF Core, Typed, IsOpen
  <2>4. Core(cr, call, alive, restarting, connection_, conn', phase, active, batch) /\ IsOpen(conn', f)
    BY <2>2, <2>3, <1>1, AgeOk
  <2> QED
    BY <2>1, <2>3, <2>4
<1>3. CASE ~(connection_ # None /\ conn[connection_] = "up")
  BY <1>1, <1>3 DEF Shutdown
<1> QED
  BY <1>2, <1>3

\* TcpClient::disconnect in the loop's thread.
LEMMA StepDisconnectHere ==
  ASSUME ClientInv, DisconnectHere
  PROVE  ClientInv'
<1>1. /\ Here /\ wants' = FALSE /\ Shutdown(connection_)
      /\ UNCHANGED <<cr, alive, connection_, stopped>>
  BY DEF DisconnectHere
<1>2. /\ UNCHANGED <<retry_, phase, restarting, active, batch, call, calls>>
      /\ RestTypes /\ Stopped /\ CoreNow
  BY <1>1, HereFacts
<1>3. Core(cr, call, alive, restarting, connection_, conn', phase, active, batch)
  BY <1>1, <1>2, ShutdownOk
<1>4. CoreNow'
  BY <1>1, <1>2, <1>3 DEF CoreNow
<1>5. RestTypes' /\ Stopped'
  BY <1>1, <1>2 DEF RestTypes, Stopped, Attempting
<1> QED
  BY <1>4, <1>5, StepTo

\* TcpConnection::forceClose of an open connection.
LEMMA ForceCloseOk ==
  ASSUME CoreNow, NEW f \in Fds, Open(f), ForceClose(f)
  PROVE  /\ Core(cr', call, alive, restarting, connection_, conn', phase, active, batch)
         /\ cr'.connect_ = cr.connect_ /\ cr'.state_ = cr.state_ /\ cr'.timers = cr.timers
         /\ cr'.keeper = cr.keeper
         /\ \A op \in {"startInLoop", "stopInLoop", "resetChannel"} :
              Has(batch \o cr'.queue, op) => Has(batch \o cr.queue, op)
<1>1. PICK fn : fn = Functor("forceCloseInLoop", f)
  OBVIOUS
<1>2. conn' = [conn EXCEPT ![f] = "closing"] /\ cr' = Queue(cr, fn)
  BY <1>1 DEF ForceClose
<1>3. Core(cr, call, alive, restarting, connection_, conn, phase, active, batch) /\ IsOpen(conn, f)
  BY DEF CoreNow, Open, IsOpen
<1>4. Core(cr, call, alive, restarting, connection_, conn', phase, active, batch) /\ IsOpen(conn', f)
  BY <1>2, <1>3, AgeOk
<1>5. fn \in Functors /\ fn.op = "forceCloseInLoop" /\ About(fn) /\ fn.fd = f
  BY <1>1 DEF Functor, Functors, About
<1>6. Core(cr', call, alive, restarting, connection_, conn', phase, active, batch)
  BY <1>2, <1>4, <1>5, PushOk
<1>7. /\ cr \in Connectors /\ cr.queue \in Seq(Functors) /\ batch \in Seq(Functors)
  BY <1>3, CoreTypes DEF Core, Typed
<1>8. /\ SameCall(cr, cr') /\ SameFds(cr, cr') /\ cr'.timers = cr.timers
      /\ cr'.queue = Append(cr.queue, fn)
  BY <1>2, <1>5, <1>7, QueueFields
<1>9. ASSUME NEW op \in {"startInLoop", "stopInLoop", "resetChannel"}, Has(batch \o cr'.queue, op)
      PROVE  Has(batch \o cr.queue, op)
  <2>1. Append(cr.queue, fn) \in Seq(Functors)
    BY <1>5, <1>7
  <2>2. Has(batch, op) \/ Has(Append(cr.queue, fn), op)
    BY <2>1, <1>7, <1>8, <1>9, HasQueue
  <2>3. Has(Append(cr.queue, fn), op) => Has(cr.queue, op)
    BY <1>5, <1>7, <1>9, HasAppend
  <2> QED
    BY <2>2, <2>3, <1>7, HasQueue
<1> QED
  BY <1>6, <1>8, <1>9 DEF SameCall, SameFds

\* A callback force closes a connection.
LEMMA StepForceCloseHere ==
  ASSUME ClientInv, NEW f \in Fds, ForceCloseHere(f)
  PROVE  ClientInv'
<1>1. /\ cr.proc = "run" /\ Open(f) /\ ForceClose(f)
      /\ UNCHANGED <<alive, retry_, wants, connection_, phase, restarting, active, batch, call, calls, stopped>>
  BY DEF ForceCloseHere, LoopFree, loopVars, userVars
<1>2. RestTypes /\ Stopped /\ CoreNow
  BY <1>1, Before
<1>3. /\ Core(cr', call, alive, restarting, connection_, conn', phase, active, batch)
      /\ cr'.connect_ = cr.connect_ /\ cr'.state_ = cr.state_
  BY <1>1, <1>2, ForceCloseOk
<1>4. CoreNow'
  BY <1>1, <1>3 DEF CoreNow
<1>5. RestTypes' /\ Stopped'
  BY <1>1, <1>2, <1>3 DEF RestTypes, Stopped, Attempting
<1> QED
  BY <1>4, <1>5, StepTo

\* RunAfter, once the Connector is kept for a second.
LEMMA KeptFields ==
  ASSUME NEW c \in Connectors, NEW r, r = RunAfter([c EXCEPT !.keeper = TRUE])
  PROVE  /\ r \in Connectors /\ r.connect_ = c.connect_ /\ SameFds(c, r) /\ r.timers = c.timers
         /\ r.queue = c.queue /\ r.keeper
<1>1. PICK k : k = [c EXCEPT !.keeper = TRUE]
  OBVIOUS
<1>2. /\ k \in Connectors /\ k.connect_ = c.connect_ /\ SameFds(c, k) /\ k.timers = c.timers
      /\ k.queue = c.queue /\ k.keeper
  BY <1>1 DEF Connectors, SameFds
<1>3. r = RunAfter(k)
  BY <1>1
<1>4. /\ r \in Connectors /\ r.connect_ = k.connect_ /\ SameFds(k, r) /\ r.timers = k.timers
      /\ r.queue = k.queue /\ r.keeper = k.keeper
  <2>1. CASE k.timerQueue_
    BY <2>1, <1>2, <1>3 DEF RunAfter, SameFds
  <2>2. CASE ~k.timerQueue_
    <3>1. r = [k EXCEPT !.proc = "fault"]
      BY <2>2, <1>3 DEF RunAfter
    <3> QED
      BY <3>1, <1>2 DEF Connectors, SameFds
  <2> QED
    BY <2>1, <2>2
<1> QED
  BY <1>2, <1>4 DEF SameFds

\* ~TcpClient.
LEMMA StepDestroy ==
  ASSUME ClientInv, Destroy
  PROVE  ClientInv'
<1>1. /\ Here /\ Quiet /\ call = <<>> /\ (DestroyIdle \/ DestroyConnected)
      /\ alive' = FALSE /\ connection_' = None /\ UNCHANGED <<wants, stopped>>
  BY DEF Destroy
<1>2. /\ restarting = FALSE /\ alive = TRUE
      /\ UNCHANGED <<retry_, phase, restarting, active, batch, call, calls>>
      /\ RestTypes /\ Stopped /\ CoreNow /\ TypeOK /\ cr \in Connectors
  BY <1>1, HereFacts
<1>3. /\ ~Has(batch \o cr.queue, "startInLoop") /\ ~Has(batch \o cr.queue, "stopInLoop")
      /\ ~Has(batch \o cr.queue, "resetChannel")
  BY <1>1, <1>2, QuietWaits DEF Waits, Order
<1>4. Core(cr, <<>>, TRUE, FALSE, connection_, conn, phase, active, batch)
  BY <1>1, <1>2 DEF CoreNow
<1>5. RestTypes'
  BY <1>1, <1>2 DEF RestTypes
<1>6. SUFFICES /\ Core(cr', <<>>, FALSE, FALSE, None, conn', phase, active, batch)
               /\ cr'.connect_ => cr.connect_
               /\ cr'.state_ # "kConnecting"
  <2>1. CoreNow'
    BY <1>1, <1>2, <1>6 DEF CoreNow
  <2>2. Stopped'
    BY <1>1, <1>2, <1>6 DEF Stopped, Attempting
  <2> QED
    BY <2>1, <2>2, <1>5, StepTo
<1>7. CASE DestroyIdle
  <2>1. PICK s : s = StopInLoop(Told(cr, FALSE))
    OBVIOUS
  <2>2. cr' = RunAfter([s EXCEPT !.keeper = TRUE]) /\ conn' = conn
    BY <2>1, <1>7 DEF DestroyIdle, Told
  <2>3. /\ Core(s, <<>>, TRUE, FALSE, connection_, conn, phase, active, batch)
        /\ s \in Connectors /\ ~s.connect_ /\ s.state_ # "kConnecting"
        /\ \A op \in {"startInLoop", "stopInLoop"} : Has(batch \o s.queue, op) => Has(batch \o cr.queue, op)
    BY <2>1, <1>4, StoppedCore
  <2>4. /\ cr' \in Connectors /\ cr'.connect_ = s.connect_ /\ SameFds(s, cr') /\ cr'.timers = s.timers
        /\ cr'.queue = s.queue /\ cr'.keeper
    BY <2>2, <2>3, KeptFields
  <2>5. ~Try(s) /\ ~Has(batch \o s.queue, "startInLoop") /\ ~Has(batch \o s.queue, "stopInLoop")
    BY <2>3, <1>3 DEF Try
  <2>6. Core(cr', <<>>, FALSE, FALSE, None, conn, phase, active, batch)
    BY <2>3, <2>4, <2>5, OrphanOk
  <2> QED
    BY <2>2, <2>3, <2>4, <2>6 DEF SameFds
<1>8. CASE DestroyConnected
  <2>1. connection_ # None /\ (ForceClose(connection_) \/ UNCHANGED <<cr, conn>>)
    BY <1>8 DEF DestroyConnected
  <2>2. /\ Typed(cr, TRUE, FALSE, connection_, conn, active, batch) /\ LinkOf(TRUE, connection_, conn)
        /\ StageOf(cr, <<>>, FALSE, conn, batch \o cr.queue)
    BY <1>4 DEF Core, Parts
  <2>3. connection_ \in Fds /\ IsOpen(conn, connection_) /\ Open(connection_)
    BY <2>1, <2>2 DEF Typed, LinkOf, IsOpen, Open
  <2>4. SomeOpen(conn)
    BY <2>3 DEF SomeOpen
  <2>5. ~Try(cr) /\ ~(cr.timers > 0)
    BY <2>2, <2>4, Zenon DEF StageOf
  <2>6. /\ Core(cr', call, alive, restarting, connection_, conn', phase, active, batch)
        /\ cr'.connect_ = cr.connect_ /\ cr'.state_ = cr.state_ /\ cr'.timers = cr.timers
        /\ \A op \in {"startInLoop", "stopInLoop", "resetChannel"} :
             Has(batch \o cr'.queue, op) => Has(batch \o cr.queue, op)
    <3>1. CASE ForceClose(connection_)
      BY <3>1, <2>3, <1>2, ForceCloseOk
    <3>2. CASE UNCHANGED <<cr, conn>>
      BY <3>2, <1>2 DEF CoreNow
    <3> QED
      BY <3>1, <3>2, <2>1
  <2>7. Core(cr', <<>>, TRUE, FALSE, connection_, conn', phase, active, batch)
    BY <2>6, <1>1, <1>2
  <2>8. /\ ~Has(batch \o cr'.queue, "startInLoop") /\ ~Has(batch \o cr'.queue, "stopInLoop")
        /\ ~Has(batch \o cr'.queue, "resetChannel") /\ ~Try(cr') /\ ~(cr'.timers > 0)
        /\ cr' \in Connectors /\ SameFds(cr', cr')
    BY <2>5, <2>6, <2>7, <1>3 DEF Try, Core, Typed, SameFds
  <2>9. Core(cr', <<>>, FALSE, FALSE, None, conn', phase, active, batch)
    BY <2>7, <2>8, OrphanOk
  <2> QED
    BY <2>6, <2>8, <2>9 DEF Try
<1> QED
  BY <1>1, <1>7, <1>8

\* What is left of a call after its next step.
LEMMA CallCases ==
  ASSUME NEW cl \in Starts \cup OtherCalls, cl # <<>>
  PROVE  /\ Tail(cl) \in Starts \cup OtherCalls
         /\ Head(cl) \in {"clientOn", "connectorOn", "startInLoop"} => cl \in Starts
         /\ Tail(cl) \in Starts => cl \in Starts
         /\ Head(cl) = "startInLoop" => Tail(cl) \notin Starts
<1>1. CASE cl = <<"clientOn", "connectorOn", "startInLoop">>
  <2>1. Head(cl) = "clientOn" /\ Tail(cl) = <<"connectorOn", "startInLoop">>
    BY <1>1
  <2> QED
    BY <2>1, <1>1 DEF Starts
<1>2. CASE cl = <<"connectorOn", "startInLoop">>
  <2>1. Head(cl) = "connectorOn" /\ Tail(cl) = <<"startInLoop">>
    BY <1>2
  <2> QED
    BY <2>1, <1>2 DEF Starts
<1>3. CASE cl = <<"startInLoop">>
  <2>1. Tail(cl) = <<>>
    BY <1>3
  <2>2. <<>> \notin Starts /\ <<>> \in OtherCalls
    BY DEF Starts, OtherCalls
  <2> QED
    BY <2>1, <2>2, <1>3 DEF Starts
<1>4. CASE cl = <<"clientOff", "connectorOff", "stopInLoop">>
  <2>1. Head(cl) = "clientOff" /\ Tail(cl) = <<"connectorOff", "stopInLoop">>
    BY <1>4
  <2>2. <<"connectorOff", "stopInLoop">> \notin Starts
    BY DEF Starts
  <2> QED
    BY <2>1, <2>2 DEF OtherCalls
<1>5. CASE cl = <<"connectorOff", "stopInLoop">>
  <2>1. Head(cl) = "connectorOff" /\ Tail(cl) = <<"stopInLoop">>
    BY <1>5
  <2>2. <<"stopInLoop">> \notin Starts
    BY DEF Starts
  <2> QED
    BY <2>1, <2>2 DEF OtherCalls
<1>6. CASE cl \in {<<"stopInLoop">>, <<"shutdown">>}
  <2>1. Head(cl) \in {"stopInLoop", "shutdown"} /\ Tail(cl) = <<>>
    <3>1. CASE cl = <<"stopInLoop">>
      BY <3>1
    <3>2. CASE cl = <<"shutdown">>
      BY <3>2
    <3> QED
      BY <3>1, <3>2, <1>6
  <2>2. <<>> \notin Starts /\ <<>> \in OtherCalls
    BY DEF Starts, OtherCalls
  <2> QED
    BY <2>1, <2>2
<1>7. CASE cl = <<"clientOff", "shutdown">>
  <2>1. Head(cl) = "clientOff" /\ Tail(cl) = <<"shutdown">>
    BY <1>7
  <2>2. <<"shutdown">> \notin Starts
    BY DEF Starts
  <2> QED
    BY <2>1, <2>2 DEF OtherCalls
<1> QED
  BY <1>1, <1>2, <1>3, <1>4, <1>5, <1>6, <1>7 DEF Starts, OtherCalls

\* The other thread calls connect, stop or disconnect.
LEMMA StepBeginCall ==
  ASSUME ClientInv, NEW steps \in Calls, BeginCall(steps)
  PROVE  ClientInv'
<1>1. /\ cr.proc = "run" /\ alive /\ calls < MaxCalls
      /\ steps[1] = "clientOn" => Settled
      /\ call' = steps /\ calls' = calls + 1 /\ stopped' = (stopped /\ steps[1] # "clientOn")
      /\ UNCHANGED <<cr, alive, retry_, wants, connection_, conn, phase, restarting, active, batch>>
  BY DEF BeginCall, loopVars
<1>2. RestTypes /\ Stopped /\ CoreNow /\ TypeOK
  BY <1>1, Before
<1>3. /\ steps \in Starts \cup OtherCalls
      /\ steps \in Starts => steps[1] = "clientOn"
  <2>1. CASE steps = <<"clientOn", "connectorOn", "startInLoop">>
    BY <2>1 DEF Starts
  <2>2. CASE steps = <<"clientOff", "connectorOff", "stopInLoop">>
    BY <2>2 DEF Starts, OtherCalls
  <2>3. CASE steps = <<"clientOff", "shutdown">>
    BY <2>3 DEF Starts, OtherCalls
  <2> QED
    BY <2>1, <2>2, <2>3 DEF Calls
<1>4. steps \in Starts => NoStage(cr, call, alive, restarting, conn, batch \o cr.queue)
  BY <1>1, <1>2, <1>3, SettledNoStage
<1>5. Core(cr, call, alive, restarting, connection_, conn, phase, active, batch)
  BY <1>2 DEF CoreNow
<1>6. Core(cr, steps, alive, restarting, connection_, conn, phase, active, batch)
  BY <1>1, <1>4, <1>5, SetCall
<1>7. CoreNow'
  BY <1>1, <1>6 DEF CoreNow
<1>8. RestTypes'
  <2>1. calls + 1 \in 0..MaxCalls
    BY <1>1, <1>2, ClientAssumption DEF RestTypes
  <2> QED
    BY <2>1, <1>1, <1>2, <1>3 DEF RestTypes
<1>9. Stopped'
  BY <1>1, <1>2, <1>3 DEF Stopped, Attempting
<1> QED
  BY <1>7, <1>8, <1>9, StepTo

\* The other thread goes on with its call.
LEMMA StepCallStep ==
  ASSUME ClientInv, CallStep
  PROVE  ClientInv'
<1>1. PICK step, rest : step = Head(call) /\ rest = Tail(call)
  OBVIOUS
<1>2. /\ cr.proc = "run" /\ call # <<>> /\ call' = rest
      /\ \/ /\ step \in {"clientOn", "clientOff"} /\ wants' = (step = "clientOn")
            /\ UNCHANGED <<cr, conn>>
         \/ /\ step \in {"connectorOn", "connectorOff"}
            /\ cr' = Told(cr, step = "connectorOn")
            /\ UNCHANGED <<wants, conn>>
         \/ /\ step \in {"startInLoop", "stopInLoop"} /\ cr' = Queue(cr, Functor(step, None))
            /\ UNCHANGED <<wants, conn>>
         \/ /\ step = "shutdown" /\ Shutdown(connection_)
            /\ cr' = IF conn' = conn THEN cr ELSE Queue(cr, Functor("shutdownInLoop", connection_))
            /\ UNCHANGED wants
      /\ UNCHANGED <<alive, retry_, connection_, phase, restarting, active, batch, calls, stopped>>
  BY <1>1 DEF CallStep, Told, loopVars
<1>3. RestTypes /\ Stopped /\ CoreNow /\ TypeOK
  BY <1>2, Before
<1>4. /\ rest \in Starts \cup OtherCalls
      /\ step \in {"clientOn", "connectorOn", "startInLoop"} => call \in Starts
      /\ rest \in Starts => call \in Starts
      /\ step = "startInLoop" => rest \notin Starts
  <2>1. call \in Starts \cup OtherCalls /\ call # <<>>
    BY <1>2, <1>3 DEF RestTypes
  <2> QED
    BY <2>1, <1>1, CallCases
<1>5. Core(cr, call, alive, restarting, connection_, conn, phase, active, batch)
  BY <1>3 DEF CoreNow
<1>6. alive
  BY <1>2, <1>5 DEF Core, Parts, OrphanOf
<1>7. /\ Core(cr, rest, alive, restarting, connection_, conn, phase, active, batch)
      /\ call \in Starts /\ rest \notin Starts =>
           NoStage(cr, rest, alive, restarting, conn, batch \o cr.queue)
  BY <1>4, <1>5, <1>6, SetCall
<1>8. cr \in Connectors
  BY <1>3 DEF TypeOK
<1>9. CASE /\ step \in {"clientOn", "clientOff"} /\ wants' = (step = "clientOn")
           /\ UNCHANGED <<cr, conn>>
  <2>1. CoreNow'
    BY <1>2, <1>7, <1>9 DEF CoreNow
  <2>2. RestTypes' /\ Stopped'
    BY <1>2, <1>3, <1>4, <1>9 DEF RestTypes, Stopped, Attempting
  <2> QED
    BY <2>1, <2>2, StepTo
<1>10. CASE /\ step \in {"connectorOn", "connectorOff"}
            /\ cr' = Told(cr, step = "connectorOn")
            /\ UNCHANGED <<wants, conn>>
  <2>1. PICK b \in BOOLEAN : b = (step = "connectorOn")
    OBVIOUS
  <2>2. PICK r : r = cr'
    OBVIOUS
  <2>3. r = Told(cr, b) /\ (b => alive)
    BY <2>1, <2>2, <1>6, <1>10
  <2>4. /\ Core(r, rest, alive, restarting, connection_, conn, phase, active, batch)
        /\ r.connect_ = b /\ r.state_ = cr.state_
    BY <2>3, <1>7, SetConnect
  <2>5. CoreNow'
    BY <2>2, <2>4, <1>2, <1>10 DEF CoreNow
  <2>6. Stopped'
    BY <2>1, <2>2, <2>4, <1>2, <1>3, <1>4, <1>10 DEF Stopped, Attempting
  <2>7. RestTypes'
    BY <1>2, <1>3, <1>4, <1>10 DEF RestTypes
  <2> QED
    BY <2>5, <2>6, <2>7, StepTo
<1>11. CASE /\ step \in {"startInLoop", "stopInLoop"} /\ cr' = Queue(cr, Functor(step, None))
            /\ UNCHANGED <<wants, conn>>
  <2>1. PICK fn : fn = Functor(step, None)
    OBVIOUS
  <2>2. fn \in Functors /\ fn.op = step /\ ~About(fn)
    BY <2>1, <1>11 DEF Functor, Functors, About
  <2>3. /\ fn.op \in {"startInLoop", "stopInLoop", "forceCloseInLoop", "shutdownInLoop"}
        /\ fn.op = "startInLoop" => NoStage(cr, rest, alive, restarting, conn, batch \o cr.queue)
        /\ cr' = Queue(cr, fn)
    BY <2>1, <2>2, <1>4, <1>7, <1>11
  <2>4. Core(cr', rest, alive, restarting, connection_, conn, phase, active, batch)
    BY <2>2, <2>3, <1>6, <1>7, PushOk
  <2>5. cr'.connect_ = cr.connect_ /\ cr'.state_ = cr.state_
    BY <2>2, <2>3, <1>8, QueueFields DEF SameCall, SameFds
  <2>6. CoreNow'
    BY <2>4, <1>2, <1>11 DEF CoreNow
  <2>7. RestTypes' /\ Stopped'
    BY <2>5, <1>2, <1>3, <1>4, <1>11 DEF RestTypes, Stopped, Attempting
  <2> QED
    BY <2>6, <2>7, StepTo
<1>12. CASE /\ step = "shutdown" /\ Shutdown(connection_)
            /\ cr' = IF conn' = conn THEN cr ELSE Queue(cr, Functor("shutdownInLoop", connection_))
            /\ UNCHANGED wants
  <2>1. /\ Core(cr, call, alive, restarting, connection_, conn', phase, active, batch)
        /\ conn' # conn => connection_ \in Fds /\ IsOpen(conn', connection_)
    BY <1>3, <1>12, ShutdownOk
  <2>2. Core(cr, rest, alive, restarting, connection_, conn', phase, active, batch)
    BY <2>1, <1>4, <1>6, SetCall
  <2>3. CASE conn' = conn
    <3>1. CoreNow'
      BY <2>2, <2>3, <1>2, <1>12 DEF CoreNow
    <3>2. RestTypes' /\ Stopped'
      BY <2>3, <1>2, <1>3, <1>4, <1>12 DEF RestTypes, Stopped, Attempting
    <3> QED
      BY <3>1, <3>2, StepTo
  <2>4. CASE conn' # conn
    <3>1. PICK fn : fn = Functor("shutdownInLoop", connection_)
      OBVIOUS
    <3>2. /\ fn \in Functors /\ fn.op = "shutdownInLoop" /\ About(fn) /\ IsOpen(conn', fn.fd)
          /\ cr' = Queue(cr, fn)
      BY <3>1, <2>1, <2>4, <1>12 DEF Functor, Functors, About
    <3>3. Core(cr', rest, alive, restarting, connection_, conn', phase, active, batch)
      BY <3>2, <2>2, PushOk
    <3>4. cr'.connect_ = cr.connect_ /\ cr'.state_ = cr.state_
      BY <3>2, <1>8, QueueFields DEF SameCall, SameFds
    <3>5. CoreNow'
      BY <3>3, <1>2, <1>12 DEF CoreNow
    <3>6. RestTypes' /\ Stopped'
      BY <3>4, <1>2, <1>3, <1>4, <1>12 DEF RestTypes, Stopped, Attempting
    <3> QED
      BY <3>5, <3>6, StepTo
  <2> QED
    BY <2>3, <2>4
<1> QED
  BY <1>2, <1>9, <1>10, <1>11, <1>12

-----------------------------------------------------------------------------
(***************************************************************************)
(* Theorems                                                                *)
(***************************************************************************)

\* The Connector and the client as they are constructed.
LEMMA InitClientInv == Init => ClientInv
<1> SUFFICES ASSUME Init PROVE ClientInv
  OBVIOUS
<1>1. /\ alive = TRUE /\ retry_ \in BOOLEAN /\ wants = TRUE /\ connection_ = None
      /\ conn = [f \in Fds |-> "none"]
      /\ phase = "functors" /\ restarting = FALSE /\ active = {} /\ batch = <<>>
      /\ call = <<>> /\ calls = 0 /\ stopped = FALSE
  BY DEF Init
<1>2. /\ cr \in Connectors /\ cr.connect_ = FALSE /\ cr.state_ = "kDisconnected"
      /\ cr.channel_ = None /\ cr.open = {} /\ cr.watched = {} /\ cr.timers = 0
      /\ cr.keeper = FALSE /\ cr.queue = <<>>
  <2>1. /\ kInitRetryDelayMs \in kInitRetryDelayMs..kMaxRetryDelayMs
        /\ <<>> \in Seq(Functors)
    BY ClientAssumption
  <2>2. cr \in [connect_ : {FALSE}, state_ : {"kDisconnected"}, channel_ : {None},
                retryDelayMs_ : {kInitRetryDelayMs}, timerQueue_ : TimerQueues, proc : {"run"},
                open : {{}}, watched : {{}}, timers : {0}, keeper : {FALSE}, queue : {<<>>},
                refused : {FALSE}]
    BY DEF Init, ConnectorInit
  <2>3. TimerQueues \subseteq BOOLEAN
    BY ClientAssumption
  <2>4. cr \in Connectors
    <3>1. /\ FALSE \in BOOLEAN /\ "kDisconnected" \in States /\ None \in Fds \cup {None}
          /\ "run" \in {"run", "exit", "fault"} /\ {} \in SUBSET Fds /\ 0 \in Nat
      BY DEF States
    <3>2. PICK tq \in BOOLEAN : tq = cr.timerQueue_
      BY <2>2, <2>3
    <3>3. cr = [connect_ |-> FALSE, state_ |-> "kDisconnected", channel_ |-> None,
                retryDelayMs_ |-> kInitRetryDelayMs, timerQueue_ |-> tq, proc |-> "run",
                open |-> {}, watched |-> {}, timers |-> 0, keeper |-> FALSE, queue |-> <<>>,
                refused |-> FALSE]
      BY <2>2, <3>2
    <3> QED
      BY <2>1, <3>1, <3>3 DEF Connectors
  <2> QED
    BY <2>2, <2>4
<1>3. PICK q : q = batch \o cr.queue
  OBVIOUS
<1>4. q = <<>> /\ Len(q) = 0
  BY <1>1, <1>2, <1>3, SwapKeeps
<1>5. \A op : ~Has(q, op)
  BY <1>4 DEF Has
<1>6. \A f \in Fds : conn[f] = "none" /\ ~IsOpen(conn, f)
  BY <1>1 DEF IsOpen
<1>7. ~SomeOpen(conn) /\ ~Try(cr) /\ call \notin Starts
  BY <1>1, <1>2, <1>6 DEF SomeOpen, Try, Starts
<1>8. OwnerOf(cr, conn) /\ LinkOf(alive, connection_, conn) /\ InOrder(q, conn)
  BY <1>1, <1>2, <1>4, <1>6, <1>7 DEF OwnerOf, LinkOf, InOrder
<1>9. StageOf(cr, call, restarting, conn, q)
  BY <1>1, <1>2, <1>5, <1>6, <1>7 DEF StageOf
<1>10. ResetOf(cr, call, restarting, conn, phase, q) /\ FreshOf(cr, conn, phase, active, batch, q)
       /\ OrphanOf(cr, call, alive, restarting, q)
  BY <1>1, <1>2, <1>5, <1>7 DEF ResetOf, FreshOf, OrphanOf
<1>11. Typed(cr, alive, restarting, connection_, conn, active, batch)
  <2>1. /\ conn \in [Fds -> {"none", "up", "closing", "down"}] /\ batch \in Seq(Functors)
        /\ alive \in BOOLEAN /\ restarting \in BOOLEAN /\ active \subseteq Events
        /\ connection_ \in Fds \cup {None}
    <3>1. conn \in [Fds -> {"none", "up", "closing", "down"}]
      BY <1>1
    <3>2. batch \in Seq(Functors) /\ active \subseteq Events
      BY <1>1
    <3> QED
      BY <3>1, <3>2, <1>1
  <2> QED
    BY <2>1, <1>2 DEF Typed
<1>12. CoreNow
  BY <1>3, <1>8, <1>9, <1>10, <1>11 DEF CoreNow, Core, Parts
<1>13. RestTypes /\ Stopped
  <2>1. 0 \in 0..MaxCalls /\ <<>> \in OtherCalls
    BY ClientAssumption DEF OtherCalls
  <2> QED
    BY <2>1, <1>1 DEF RestTypes, Stopped
<1> QED
  BY <1>11, <1>12, <1>13, Together

\* Every step keeps the invariant.
LEMMA NextClientInv == ClientInv /\ [Next]_vars => ClientInv'
<1> SUFFICES ASSUME ClientInv, [Next]_vars PROVE ClientInv'
  OBVIOUS
<1>1. CASE UNCHANGED vars
  <2>1. UNCHANGED <<cr, alive, retry_, wants, connection_, conn, phase, restarting, active, batch,
                    call, calls, stopped>>
    BY <1>1 DEF vars, loopVars, userVars
  <2>2. TypeOK' /\ Stopped'
    BY <2>1 DEF ClientInv, TypeOK, Stopped, Attempting
  <2>3. RestTypes /\ Stopped /\ (cr.proc = "run" => CoreNow)
    BY Apart
  <2>4. CoreNow => CoreNow'
    BY <2>1 DEF CoreNow
  <2>5. RestTypes' /\ Typed(cr, alive, restarting, connection_, conn, active, batch)'
    BY <2>2 DEF RestTypes, TypeOK, Typed
  <2>6. (/\ RestTypes /\ Stopped /\ Typed(cr, alive, restarting, connection_, conn, active, batch)
         /\ cr.proc = "run" => CoreNow
         => ClientInv)'
    BY Together, PTL
  <2> QED
    BY <2>1, <2>2, <2>3, <2>4, <2>5, <2>6
<1>2. CASE LoopStep
  <2>1. ASSUME NEW e \in active, Event(e) PROVE ClientInv'
    BY <2>1, StepHandleWriteFails, StepHandleWrite, StepHandleError, StepStaleEvent,
       StepRetryTimer, StepKeeperTimer, StepConnClosed DEF Event
  <2> QED
    BY <2>1, <1>2, StepSwap, StepRestart, StepRunFunctor DEF LoopStep
<1>3. CASE \E f \in Fds : ForceCloseHere(f)
  BY <1>3, StepForceCloseHere
<1>4. CASE \E steps \in Calls : BeginCall(steps)
  BY <1>4, StepBeginCall
<1> QED
  BY <1>1, <1>2, <1>3, <1>4, StepPoll, StepConnectHere, StepStopHere, StepDisconnectHere,
     StepDestroy, StepCallStep DEF Next

\* The client is in one stage of connecting at a time, and what poll() reported, what
\* is queued and the timers fit that stage (Connector.cc:75-292, TcpClient.cc:60-182).
THEOREM ClientInvariant == Spec => []ClientInv
<1>1. Init => ClientInv
  BY InitClientInv
<1>2. ClientInv /\ [Next]_vars => ClientInv'
  BY NextClientInv
<1> QED
  BY <1>1, <1>2, PTL DEF Spec

\* Every descriptor and every registered channel has exactly one owner
\* (Connector.cc:125-133, 184-215, 273-277).
THEOREM DescriptorsOwned == Spec => []OneOwner
<1>1. ClientInv => OneOwner
  BY DEF ClientInv, OneOwner
<1> QED
  BY <1>1, ClientInvariant, PTL

\* What is pending is in the order.
LEMMA PendingInOrder ==
  ASSUME TypeOK, NEW fn \in Pending
  PROVE  \E i \in 1..Len(Order) : Order[i] = fn
<1>1. cr.queue \in Seq(Functors) /\ batch \in Seq(Functors)
  BY DEF TypeOK, Connectors
<1>2. PICK b, q : b = batch /\ q = cr.queue
  OBVIOUS
<1>3. PICK o : o = b \o q
  OBVIOUS
<1>4. /\ Len(o) = Len(b) + Len(q) /\ Len(b) \in Nat /\ Len(q) \in Nat
      /\ \A i \in 1..Len(b) : o[i] = b[i]
      /\ \A i \in 1..Len(q) : Len(b) + i \in 1..(Len(b) + Len(q)) /\ o[Len(b) + i] = q[i]
  BY <1>1, <1>2, <1>3, ConcatProperties, LenProperties
<1>5. (\E i \in 1..Len(b) : b[i] = fn) \/ (\E i \in 1..Len(q) : q[i] = fn)
  BY <1>2 DEF Pending, Elems
<1>6. \E i \in 1..Len(o) : o[i] = fn
  BY <1>4, <1>5
<1> QED
  BY <1>2, <1>3, <1>6 DEF Order

\* Bare pointers find the Connector, the client and the connection alive
\* (Connector.cc:101, 121, 189, 206, TcpClient.cc:75, 126).
THEOREM PointersKept == Spec => []Kept
<1>1. ASSUME ClientInv PROVE Kept
  <2> SUFFICES ASSUME cr.proc = "run"
               PROVE  /\ (~Quiet \/ Attempts # {}) => (alive \/ cr.timers > 0 \/ cr.keeper)
                      /\ (Attempts # {} /\ cr.connect_) => alive
                      /\ \A fn \in Pending : fn.op = "shutdownInLoop" => conn[fn.fd] # "none"
    BY DEF Kept
  <2>1. TypeOK /\ InOrder(Order, conn) /\ Orphaned
    BY <1>1 DEF ClientInv
  <2>2. Attempts # {} => Attempting
    BY DEF Attempts, Attempting
  <2>3. \A fn \in Pending : Waits(fn.op)
    BY <2>1, PendingInOrder DEF Waits, Has
  <2>4. ~alive => ~Attempting /\ (~Quiet => cr.keeper)
    BY <2>1, <2>3 DEF Orphaned, Quiet
  <2>5. ASSUME NEW fn \in Pending, fn.op = "shutdownInLoop" PROVE conn[fn.fd] # "none"
    <3>1. PICK i \in 1..Len(Order) : Order[i] = fn
      BY <2>1, PendingInOrder
    <3> QED
      BY <3>1, <2>1, <2>5 DEF InOrder
  <2> QED
    BY <2>2, <2>4, <2>5
<1> QED
  BY <1>1, ClientInvariant, PTL

\* After stop() in the loop's thread no attempt is under way until connect() is called
\* again (TcpClient.cc:131-135, Connector.cc:107, TcpClient.cc:174).
THEOREM StopIsFinal == Spec => []StopSticks
<1>1. ClientInv => StopSticks
  BY DEF ClientInv, Stopped, StopSticks, Attempts, Attempting
<1> QED
  BY <1>1, ClientInvariant, PTL

=============================================================================
