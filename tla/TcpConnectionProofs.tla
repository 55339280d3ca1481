------------------------ MODULE TcpConnectionProofs ------------------------
(***************************************************************************)
(* Proofs about TcpConnection, for any threads, uses, sizes and numbers of *)
(* calls: the stream is made of whole messages in order, and with threads  *)
(* that only send, waiting output is watched, the application hears of one *)
(* end, nothing is used after it is freed, and a shutdown cuts off nothing.*)
(***************************************************************************)
EXTENDS TcpConnection, SequenceTheorems, TLAPS

-----------------------------------------------------------------------------
(***************************************************************************)
(* Queues                                                                  *)
(***************************************************************************)

\* What is in a queue after a push.
LEMMA AppendFacts ==
  ASSUME NEW q \in Seq(Functors), NEW f \in Functors
  PROVE  /\ Append(q, f) \in Seq(Functors) /\ Len(Append(q, f)) = Len(q) + 1
         /\ Len(q) \in Nat
         /\ \A i \in 1..Len(q) : Append(q, f)[i] = q[i]
         /\ Append(q, f)[Len(q) + 1] = f
BY AppendProperties

\* What is in a queue after its first functor was taken out.
LEMMA TailFacts ==
  ASSUME NEW q \in Seq(Functors), q # <<>>
  PROVE  /\ Head(q) \in Functors /\ Head(q) = q[1]
         /\ Tail(q) \in Seq(Functors) /\ Len(Tail(q)) = Len(q) - 1
         /\ Len(q) \in Nat \ {0}
         /\ \A i \in 1..Len(Tail(q)) : Tail(q)[i] = q[i + 1]
BY HeadTailProperties

\* A push of fn makes only fn's operation wait.
LEMMA WaitsAppend ==
  ASSUME NEW q \in Seq(Functors), NEW f \in Functors, NEW op
  PROVE  Waits(Append(q, f), op) <=> Waits(q, op) \/ f.op = op
<1> DEFINE r == Append(q, f)
<1>1. /\ Len(r) = Len(q) + 1 /\ Len(q) \in Nat
      /\ \A i \in 1..Len(q) : r[i] = q[i]
      /\ r[Len(q) + 1] = f
  BY AppendFacts
<1> HIDE DEF r
<1>2. Waits(r, op) <=> Waits(q, op) \/ f.op = op
  <2>1. ASSUME Waits(r, op) PROVE Waits(q, op) \/ f.op = op
    BY <1>1, <2>1 DEF Waits
  <2>2. ASSUME Waits(q, op) PROVE Waits(r, op)
    BY <1>1, <2>2 DEF Waits
  <2>3. ASSUME f.op = op PROVE Waits(r, op)
    BY <1>1, <2>3 DEF Waits
  <2> QED
    BY <2>1, <2>2, <2>3
<1> QED
  BY <1>2 DEF r

\* What waits in a queue is its first functor or waits in the rest.
LEMMA WaitsTail ==
  ASSUME NEW q \in Seq(Functors), q # <<>>, NEW op
  PROVE  Waits(q, op) <=> Head(q).op = op \/ Waits(Tail(q), op)
<1> DEFINE r == Tail(q)
<1>1. /\ Len(r) = Len(q) - 1 /\ Len(q) \in Nat \ {0} /\ Head(q) = q[1]
      /\ \A i \in 1..Len(r) : r[i] = q[i + 1]
  BY TailFacts
<1> HIDE DEF r
<1>2. ASSUME Waits(q, op) PROVE Head(q).op = op \/ Waits(r, op)
  <2>1. PICK i \in 1..Len(q) : q[i].op = op
    BY <1>2 DEF Waits
  <2>2. CASE i = 1
    BY <1>1, <2>1, <2>2
  <2>3. CASE i # 1
    <3>1. i - 1 \in 1..Len(r) /\ r[i - 1] = q[i]
      BY <1>1, <2>3
    <3> QED
      BY <2>1, <3>1 DEF Waits
  <2> QED
    BY <2>2, <2>3
<1>3. ASSUME Head(q).op = op PROVE Waits(q, op)
  BY <1>1, <1>3 DEF Waits
<1>4. ASSUME Waits(r, op) PROVE Waits(q, op)
  <2>1. PICK i \in 1..Len(r) : r[i].op = op
    BY <1>4 DEF Waits
  <2>2. i + 1 \in 1..Len(q) /\ q[i + 1].op = op
    BY <1>1, <2>1
  <2> QED
    BY <2>2 DEF Waits
<1> QED
  BY <1>2, <1>3, <1>4 DEF r

\* A push of another operation, or of one that does not wait yet, keeps a queue
\* with at most one op.
LEMMA AtMostOneAppend ==
  ASSUME NEW q \in Seq(Functors), NEW f \in Functors, NEW op, AtMostOne(q, op),
         f.op # op \/ ~Waits(q, op)
  PROVE  AtMostOne(Append(q, f), op)
<1> DEFINE r == Append(q, f)
<1>1. /\ Len(r) = Len(q) + 1 /\ Len(q) \in Nat
      /\ \A i \in 1..Len(q) : r[i] = q[i]
      /\ r[Len(q) + 1] = f
  BY AppendFacts
<1> HIDE DEF r
<1>2. SUFFICES ASSUME NEW i \in 1..Len(r), NEW j \in 1..Len(r), r[i].op = op, r[j].op = op
               PROVE  i = j
  BY DEF AtMostOne, r
<1>3. CASE f.op # op
  <2>1. i \in 1..Len(q) /\ j \in 1..Len(q)
    BY <1>1, <1>2, <1>3
  <2> QED
    BY <1>1, <1>2, <2>1 DEF AtMostOne
<1>4. CASE ~Waits(q, op)
  BY <1>1, <1>2, <1>4 DEF Waits
<1> QED
  BY <1>3, <1>4

\* The rest of a queue with at most one op has at most one, and none if the first
\* functor was it.
LEMMA AtMostOneTail ==
  ASSUME NEW q \in Seq(Functors), q # <<>>, NEW op, AtMostOne(q, op)
  PROVE  AtMostOne(Tail(q), op) /\ (Head(q).op = op => ~Waits(Tail(q), op))
<1> DEFINE r == Tail(q)
<1>1. /\ Len(r) = Len(q) - 1 /\ Len(q) \in Nat \ {0} /\ Head(q) = q[1]
      /\ \A i \in 1..Len(r) : r[i] = q[i + 1]
  BY TailFacts
<1> HIDE DEF r
<1>2. \A i \in 1..Len(r) : i + 1 \in 1..Len(q) /\ i + 1 # 1
  BY <1>1
<1>3. ASSUME NEW i \in 1..Len(r), NEW j \in 1..Len(r), r[i].op = op, r[j].op = op
      PROVE  i = j
  <2>1. i + 1 = j + 1
    BY <1>1, <1>2, <1>3 DEF AtMostOne
  <2> QED
    BY <2>1
<1>4. ASSUME Head(q).op = op, NEW i \in 1..Len(r), r[i].op = op
      PROVE  FALSE
  <2>1. q[i + 1].op = op /\ q[1].op = op /\ 1 \in 1..Len(q)
    BY <1>1, <1>4
  <2> QED
    BY <1>2, <2>1 DEF AtMostOne
<1> QED
  BY <1>3, <1>4 DEF AtMostOne, Waits, r

-----------------------------------------------------------------------------
(***************************************************************************)
(* Streams                                                                 *)
(***************************************************************************)

\* Elements of a concatenation of units.
LEMMA ConcatUnits ==
  ASSUME NEW a \in Seq(Units), NEW b \in Seq(Units)
  PROVE  /\ a \o b \in Seq(Units) /\ Len(a \o b) = Len(a) + Len(b)
         /\ Len(a) \in Nat /\ Len(b) \in Nat
         /\ \A i \in 1..Len(a) : (a \o b)[i] = a[i]
         /\ \A i \in 1..Len(b) : (a \o b)[Len(a) + i] = b[i]
<1>1. /\ Len(a) \in Nat /\ Len(b) \in Nat
      /\ a \o b \in Seq(Units) /\ Len(a \o b) = Len(a) + Len(b)
      /\ \A i \in 1..Len(a) + Len(b) : (a \o b)[i] = IF i <= Len(a) THEN a[i] ELSE b[i - Len(a)]
  BY ConcatProperties
<1> QED
  BY <1>1

\* A position in a concatenation is one in the first part or in the second.
LEMMA ConcatCases ==
  ASSUME NEW a \in Seq(Units), NEW b \in Seq(Units), NEW i \in 1..Len(a \o b)
  PROVE  \/ i \in 1..Len(a) /\ (a \o b)[i] = a[i]
         \/ /\ i > Len(a) /\ i - Len(a) \in 1..Len(b) /\ (a \o b)[i] = b[i - Len(a)]
BY ConcatProperties

\* The units of a message.
LEMMA MessageFacts ==
  ASSUME NEW t \in Callers, NEW k \in 0..MaxCalls
  PROVE  /\ Message(t, k) \in Seq(Units) /\ Len(Message(t, k)) = MsgLen
         /\ \A i \in 1..MsgLen : Message(t, k)[i] = [by |-> t, k |-> k, part |-> i]
<1>1. \A i \in 1..MsgLen : [by |-> t, k |-> k, part |-> i] \in Units
  BY DEF Units
<1>2. MsgLen \in Nat
  BY ConnAssumption
<1> QED
  BY <1>1, <1>2 DEF Message

\* A message is whole.
LEMMA MessageWhole ==
  ASSUME NEW t \in Callers, NEW k \in 0..MaxCalls
  PROVE  Whole(Message(t, k)) /\ InSendOrder(Message(t, k))
<1> DEFINE m == Message(t, k)
<1>1. /\ m \in Seq(Units) /\ Len(m) = MsgLen /\ MsgLen \in Nat
      /\ \A i \in 1..MsgLen : m[i] = [by |-> t, k |-> k, part |-> i]
  BY MessageFacts, ConnAssumption
<1> HIDE DEF m
<1>2. Whole(m)
  BY <1>1 DEF Whole
<1>3. InSendOrder(m)
  BY <1>1 DEF InSendOrder, SentBefore
<1> QED
  BY <1>2, <1>3 DEF m

\* Whole messages after whole messages are whole messages.
LEMMA WholeConcat ==
  ASSUME NEW a \in Seq(Units), NEW b \in Seq(Units), Whole(a), Whole(b)
  PROVE  Whole(a \o b)
<1> DEFINE c == a \o b
<1>1. /\ Len(c) = Len(a) + Len(b) /\ Len(a) \in Nat /\ Len(b) \in Nat
      /\ \A i \in 1..Len(a) : c[i] = a[i]
      /\ \A i \in 1..Len(b) : c[Len(a) + i] = b[i]
  BY ConcatUnits
<1> HIDE DEF c
<1>2. SUFFICES ASSUME NEW i \in 1..Len(c)
               PROVE  /\ c[i].part # 1 => i > 1 /\ c[i - 1] = [c[i] EXCEPT !.part = @ - 1]
                      /\ c[i].part # MsgLen => i < Len(c) /\ c[i + 1] = [c[i] EXCEPT !.part = @ + 1]
  BY DEF Whole, c
<1>3. CASE i <= Len(a)
  <2>1. i \in 1..Len(a) /\ c[i] = a[i]
    BY <1>1, <1>3
  <2>2. /\ a[i].part # 1 => i > 1 /\ a[i - 1] = [a[i] EXCEPT !.part = @ - 1]
        /\ a[i].part # MsgLen => i < Len(a) /\ a[i + 1] = [a[i] EXCEPT !.part = @ + 1]
    BY <2>1 DEF Whole
  <2>3. /\ i > 1 => c[i - 1] = a[i - 1]
        /\ i < Len(a) => c[i + 1] = a[i + 1]
    <3>1. (i > 1 => i - 1 \in 1..Len(a)) /\ (i < Len(a) => i + 1 \in 1..Len(a))
      BY <1>1, <2>1
    <3> QED
      BY <1>1, <3>1
  <2> QED
    BY <1>1, <2>1, <2>2, <2>3
<1>4. CASE i > Len(a)
  <2>0. PICK j \in 1..Len(b) : i = Len(a) + j
    <3>1. i - Len(a) \in 1..Len(b) /\ i = Len(a) + (i - Len(a))
      BY <1>1, <1>4
    <3> QED
      BY <3>1
  <2>1. c[i] = b[j]
    BY <1>1, <2>0
  <2>2. /\ b[j].part # 1 => j > 1 /\ b[j - 1] = [b[j] EXCEPT !.part = @ - 1]
        /\ b[j].part # MsgLen => j < Len(b) /\ b[j + 1] = [b[j] EXCEPT !.part = @ + 1]
    BY <2>1 DEF Whole
  <2>3. /\ j > 1 => c[i - 1] = b[j - 1]
        /\ j < Len(b) => c[i + 1] = b[j + 1]
    <3>1. i - 1 = Len(a) + (j - 1) /\ i + 1 = Len(a) + (j + 1)
      BY <1>1, <2>0
    <3>2. ASSUME j > 1 PROVE c[Len(a) + (j - 1)] = b[j - 1]
      <4>1. j - 1 \in 1..Len(b)
        BY <1>1, <3>2
      <4> QED
        BY <1>1, <4>1
    <3>3. ASSUME j < Len(b) PROVE c[Len(a) + (j + 1)] = b[j + 1]
      <4>1. j + 1 \in 1..Len(b)
        BY <1>1, <3>3
      <4> QED
        BY <1>1, <4>1
    <3> QED
      BY <3>1, <3>2, <3>3
  <2> QED
    BY <1>1, <2>0, <2>1, <2>2, <2>3
<1> QED
  BY <1>1, <1>3, <1>4

\* A message joins the stream after all earlier ones of its thread.
LEMMA StreamGrows ==
  ASSUME NEW s \in Seq(Units), NEW t \in Callers, NEW k \in 0..MaxCalls,
         Whole(s), InSendOrder(s), Precede(s, t, k)
  PROVE  Whole(s \o Message(t, k)) /\ InSendOrder(s \o Message(t, k))
<1> DEFINE m == Message(t, k)
           c == s \o m
<1>1. /\ m \in Seq(Units) /\ Len(m) = MsgLen /\ MsgLen \in Nat
      /\ \A i \in 1..MsgLen : m[i] = [by |-> t, k |-> k, part |-> i]
  BY MessageFacts, ConnAssumption
<1>2. Whole(m) /\ InSendOrder(m)
  BY MessageWhole
<1> HIDE DEF m
<1>3. Whole(c)
  BY <1>1, <1>2, WholeConcat
<1>4. /\ Len(c) = Len(s) + Len(m) /\ Len(s) \in Nat /\ Len(m) \in Nat
      /\ \A i \in 1..Len(s) : c[i] = s[i]
      /\ \A i \in 1..Len(m) : c[Len(s) + i] = m[i]
  BY <1>1, ConcatUnits
<1>5. \A i \in 1..Len(c) : i > Len(s) => i - Len(s) \in 1..MsgLen /\ c[i] = m[i - Len(s)]
  BY <1>1, <1>4
<1> HIDE DEF c
<1>6. ASSUME NEW i \in 1..Len(c), NEW j \in 1..Len(c), i < j, c[i].by = c[j].by
      PROVE  SentBefore(c[i], c[j])
  <2>1. CASE j <= Len(s)
    <3>1. i \in 1..Len(s) /\ j \in 1..Len(s) /\ c[i] = s[i] /\ c[j] = s[j]
      BY <1>4, <1>6, <2>1
    <3> QED
      BY <1>6, <3>1 DEF InSendOrder
  <2>2. CASE i <= Len(s) /\ j > Len(s)
    <3>1. i \in 1..Len(s) /\ c[i] = s[i]
      BY <1>4, <2>2
    <3>2. c[j].by = t /\ c[j].k = k
      BY <1>1, <1>5, <2>2
    <3> QED
      BY <1>6, <3>1, <3>2 DEF Precede, SentBefore
  <2>3. CASE i > Len(s)
    <3>1. j > Len(s)
      BY <1>4, <1>6, <2>3
    <3>2. c[i] = [by |-> t, k |-> k, part |-> i - Len(s)]
      BY <1>1, <1>5, <2>3
    <3>3. c[j] = [by |-> t, k |-> k, part |-> j - Len(s)]
      BY <1>1, <1>5, <3>1
    <3> QED
      BY <1>4, <1>6, <3>2, <3>3 DEF SentBefore
  <2> QED
    BY <1>4, <2>1, <2>2, <2>3
<1> QED
  BY <1>3, <1>6 DEF InSendOrder, c, m

-----------------------------------------------------------------------------
(***************************************************************************)
(* The order of messages                                                   *)
(***************************************************************************)

Counts == [Callers -> 0..MaxCalls]

\* Functors and units name a caller and one of its calls.
LEMMA CallersOf ==
  ASSUME NEW q \in Seq(Functors), NEW s \in Seq(Units)
  PROVE  /\ \A i \in 1..Len(q) : q[i].by \in Callers /\ q[i].k \in 0..MaxCalls
         /\ \A i \in 1..Len(s) : s[i].by \in Callers /\ s[i].k \in 0..MaxCalls
<1>1. \A i \in 1..Len(q) : q[i] \in Functors
  BY ElementOfSeq
<1>2. \A i \in 1..Len(s) : s[i] \in Units
  BY ElementOfSeq
<1> QED
  BY <1>1, <1>2 DEF Functors, Units

\* A functor that sends nothing changes no order.
LEMMA InTurnOther ==
  ASSUME NEW q \in Seq(Functors), NEW s \in Seq(Units), NEW made, NEW at,
         InTurn(q, s, made, at), NEW f \in Functors, f.op # "sendInLoop"
  PROVE  InTurn(Append(q, f), s, made, at)
<1> DEFINE r == Append(q, f)
<1>1. /\ Len(r) = Len(q) + 1 /\ Len(q) \in Nat
      /\ \A i \in 1..Len(q) : r[i] = q[i]
      /\ r[Len(q) + 1] = f
  BY AppendFacts
<1> HIDE DEF r
<1>2. \A i \in 1..Len(r) : r[i].op = "sendInLoop" => i \in 1..Len(q) /\ r[i] = q[i]
  BY <1>1
<1>3. InTurn(r, s, made, at)
  BY <1>2 DEF InTurn
<1> QED
  BY <1>3 DEF r

\* Taking out a functor changes no order.
LEMMA InTurnTail ==
  ASSUME NEW q \in Seq(Functors), q # <<>>, NEW s \in Seq(Units), NEW made, NEW at,
         InTurn(q, s, made, at)
  PROVE  InTurn(Tail(q), s, made, at)
<1> DEFINE r == Tail(q)
<1>1. /\ Len(r) = Len(q) - 1 /\ Len(q) \in Nat \ {0}
      /\ \A i \in 1..Len(r) : r[i] = q[i + 1]
  BY TailFacts
<1> HIDE DEF r
<1>2. \A i \in 1..Len(r) : i + 1 \in 1..Len(q) /\ r[i] = q[i + 1]
  BY <1>1
<1>3. \A i, j \in 1..Len(r) : i < j => i + 1 < j + 1
  BY <1>1
<1>4. InTurn(r, s, made, at)
  BY <1>2, <1>3 DEF InTurn
<1> QED
  BY <1>4 DEF r

\* A message may join the stream when its call is made and all that its thread
\* has queued are of later calls.
LEMMA InTurnJoins ==
  ASSUME NEW q \in Seq(Functors), NEW s \in Seq(Units), NEW made, NEW at,
         InTurn(q, s, made, at),
         NEW by \in Callers, NEW k \in 0..MaxCalls, Made(by, k, made, at),
         \A i \in 1..Len(q) : q[i].op = "sendInLoop" /\ q[i].by = by => k < q[i].k
  PROVE  InTurn(q, s \o Message(by, k), made, at)
<1> DEFINE m == Message(by, k)
           c == s \o m
<1>1. /\ m \in Seq(Units) /\ Len(m) = MsgLen /\ MsgLen \in Nat
      /\ \A i \in 1..MsgLen : m[i] = [by |-> by, k |-> k, part |-> i]
  BY MessageFacts, ConnAssumption
<1> HIDE DEF m
<1>2. /\ Len(c) = Len(s) + Len(m) /\ Len(s) \in Nat
      /\ \A i \in 1..Len(s) : c[i] = s[i]
      /\ \A i \in 1..Len(m) : c[Len(s) + i] = m[i]
  BY <1>1, ConcatUnits
<1> HIDE DEF c
<1>3. ASSUME NEW i \in 1..Len(c)
      PROVE  \/ i \in 1..Len(s) /\ c[i] = s[i]
             \/ c[i].by = by /\ c[i].k = k
  <2>1. CASE i <= Len(s)
    BY <1>2, <2>1
  <2>2. CASE i > Len(s)
    <3>1. PICK j \in 1..MsgLen : i = Len(s) + j
      <4>1. i - Len(s) \in 1..MsgLen /\ i = Len(s) + (i - Len(s))
        BY <1>1, <1>2, <2>2
      <4> QED
        BY <4>1
    <3>2. c[i] = m[j]
      BY <1>1, <1>2, <3>1
    <3>3. m[j] = [by |-> by, k |-> k, part |-> j]
      BY <1>1
    <3> QED
      BY <3>2, <3>3
  <2> QED
    BY <1>2, <2>1, <2>2
<1>4. \A i \in 1..Len(c) : Made(c[i].by, c[i].k, made, at)
  BY <1>3 DEF InTurn
<1>5. ASSUME NEW i \in 1..Len(q), q[i].op = "sendInLoop"
      PROVE  Precede(c, q[i].by, q[i].k)
  <2>1. Precede(s, q[i].by, q[i].k)
    BY <1>5 DEF InTurn
  <2>2. SUFFICES ASSUME NEW j \in 1..Len(c), c[j].by = q[i].by
                 PROVE  c[j].k < q[i].k
    BY DEF Precede
  <2>3. CASE j \in 1..Len(s) /\ c[j] = s[j]
    BY <2>1, <2>2, <2>3 DEF Precede
  <2>4. CASE c[j].by = by /\ c[j].k = k
    BY <1>5, <2>2, <2>4
  <2> QED
    BY <1>3, <2>3, <2>4
<1>6. InTurn(q, c, made, at)
  BY <1>4, <1>5 DEF InTurn
<1> QED
  BY <1>6 DEF c, m

\* The first functor of the queue, a message, joins the stream.
LEMMA InTurnRun ==
  ASSUME NEW q \in Seq(Functors), q # <<>>, NEW s \in Seq(Units), NEW made, NEW at,
         InTurn(q, s, made, at), Head(q).op = "sendInLoop"
  PROVE  InTurn(Tail(q), s \o Message(Head(q).by, Head(q).k), made, at)
<1> DEFINE r == Tail(q)
<1>1. /\ r \in Seq(Functors) /\ Len(r) = Len(q) - 1 /\ Len(q) \in Nat \ {0}
      /\ Head(q) \in Functors /\ Head(q) = q[1]
      /\ \A i \in 1..Len(r) : r[i] = q[i + 1]
  BY TailFacts
<1>2. InTurn(r, s, made, at)
  BY InTurnTail
<1> HIDE DEF r
<1>3. Head(q).by \in Callers /\ Head(q).k \in 0..MaxCalls
  BY <1>1 DEF Functors
<1>4. 1 \in 1..Len(q) /\ Made(Head(q).by, Head(q).k, made, at)
  BY <1>1 DEF InTurn
<1>5. ASSUME NEW i \in 1..Len(r), r[i].op = "sendInLoop" /\ r[i].by = Head(q).by
      PROVE  Head(q).k < r[i].k
  <2>1. i + 1 \in 1..Len(q) /\ 1 < i + 1 /\ r[i] = q[i + 1]
    BY <1>1
  <2> QED
    BY <1>1, <1>4, <1>5, <2>1 DEF InTurn
<1>6. InTurn(r, s \o Message(Head(q).by, Head(q).k), made, at)
  BY <1>1, <1>2, <1>3, <1>4, <1>5, InTurnJoins
<1> QED
  BY <1>6 DEF r

\* A call of the loop's thread counts.
LEMMA InTurnLoop ==
  ASSUME NEW q \in Seq(Functors), NEW s \in Seq(Units), NEW made \in Counts, NEW at,
         InTurn(q, s, made, at)
  PROVE  InTurn(q, s, [made EXCEPT ![Loop] = @ + 1], at)
<1>1. ASSUME NEW by \in Callers, NEW k \in 0..MaxCalls, Made(by, k, made, at)
      PROVE  Made(by, k, [made EXCEPT ![Loop] = @ + 1], at)
  BY <1>1, ConnAssumption DEF Made, Counts, Callers
<1>2. /\ \A i \in 1..Len(q) : q[i].by \in Callers /\ q[i].k \in 0..MaxCalls
      /\ \A i \in 1..Len(s) : s[i].by \in Callers /\ s[i].k \in 0..MaxCalls
  BY CallersOf
<1> QED
  BY <1>1, <1>2 DEF InTurn

\* Another thread begins a call.
LEMMA InTurnCheck ==
  ASSUME NEW q \in Seq(Functors), NEW s \in Seq(Units), NEW made \in Counts, NEW at,
         InTurn(q, s, made, at), DOMAIN at = Threads, at = [x \in Threads |-> at[x]],
         NEW t \in Threads, at[t] = "none", NEW op
  PROVE  InTurn(q, s, [made EXCEPT ![t] = @ + 1], [at EXCEPT ![t] = op])
<1>1. ASSUME NEW by \in Callers, NEW k \in 0..MaxCalls, Made(by, k, made, at)
      PROVE  Made(by, k, [made EXCEPT ![t] = @ + 1], [at EXCEPT ![t] = op])
  BY <1>1, ConnAssumption DEF Made, Counts, Callers
<1>2. /\ \A i \in 1..Len(q) : q[i].by \in Callers /\ q[i].k \in 0..MaxCalls
      /\ \A i \in 1..Len(s) : s[i].by \in Callers /\ s[i].k \in 0..MaxCalls
  BY CallersOf
<1> QED
  BY <1>1, <1>2 DEF InTurn

\* It goes on with a call, or ends it.
LEMMA InTurnGoes ==
  ASSUME NEW q \in Seq(Functors), NEW s \in Seq(Units), NEW made \in Counts, NEW at,
         InTurn(q, s, made, at), DOMAIN at = Threads, at = [x \in Threads |-> at[x]],
         NEW t \in Threads, at[t] # "none", NEW op
  PROVE  InTurn(q, s, made, [at EXCEPT ![t] = op])
<1>1. ASSUME NEW by \in Callers, NEW k \in 0..MaxCalls, Made(by, k, made, at)
      PROVE  Made(by, k, made, [at EXCEPT ![t] = op])
  BY <1>1 DEF Made, Counts, Callers
<1>2. /\ \A i \in 1..Len(q) : q[i].by \in Callers /\ q[i].k \in 0..MaxCalls
      /\ \A i \in 1..Len(s) : s[i].by \in Callers /\ s[i].k \in 0..MaxCalls
  BY CallersOf
<1> QED
  BY <1>1, <1>2 DEF InTurn

\* A thread queues what it was about to send.
LEMMA InTurnPush ==
  ASSUME NEW q \in Seq(Functors), NEW s \in Seq(Units), NEW made \in Counts, NEW at,
         InTurn(q, s, made, at), DOMAIN at = Threads, at = [x \in Threads |-> at[x]],
         NEW t \in Threads, at[t] # "none",
         NEW f \in Functors, f.by = t, f.k = made[t]
  PROVE  InTurn(Append(q, f), s, made, [at EXCEPT ![t] = "none"])
<1> DEFINE r == Append(q, f)
           now == [at EXCEPT ![t] = "none"]
<1>1. /\ Len(r) = Len(q) + 1 /\ Len(q) \in Nat
      /\ \A i \in 1..Len(q) : r[i] = q[i]
      /\ r[Len(q) + 1] = f
  BY AppendFacts
<1>2. InTurn(q, s, made, now)
  BY InTurnGoes
<1>3. Made(f.by, f.k, made, now)
  BY DEF Made, Counts, Callers
<1>4. \A i \in 1..Len(q) : q[i].op = "sendInLoop" /\ q[i].by = t => q[i].k < made[t]
  BY DEF InTurn, Made
<1>5. Precede(s, f.by, f.k)
  BY DEF InTurn, Made, Precede
<1> HIDE DEF r, now
<1>6. \A i \in 1..Len(r) : (i \in 1..Len(q) /\ r[i] = q[i]) \/ (i = Len(q) + 1 /\ r[i] = f)
  <2> TAKE i \in 1..Len(r)
  <2>1. CASE i \in 1..Len(q)
    BY <1>1, <2>1
  <2>2. CASE i \notin 1..Len(q)
    <3>1. i = Len(q) + 1
      BY <1>1, <2>2
    <3> QED
      BY <1>1, <3>1
  <2> QED
    BY <2>1, <2>2
<1>7. \A i \in 1..Len(r) : r[i].op = "sendInLoop" => Made(r[i].by, r[i].k, made, now)
  BY <1>2, <1>3, <1>6 DEF InTurn
<1>8. \A i \in 1..Len(r) : r[i].op = "sendInLoop" => Precede(s, r[i].by, r[i].k)
  BY <1>2, <1>5, <1>6 DEF InTurn
<1>9. ASSUME NEW i \in 1..Len(r), NEW j \in 1..Len(r), i < j,
             r[i].op = "sendInLoop" /\ r[j].op = "sendInLoop" /\ r[i].by = r[j].by
      PROVE  r[i].k < r[j].k
  <2>1. i \in 1..Len(q) /\ r[i] = q[i]
    BY <1>1, <1>6, <1>9
  <2>2. CASE j \in 1..Len(q) /\ r[j] = q[j]
    BY <1>2, <1>9, <2>1, <2>2 DEF InTurn
  <2>3. CASE r[j] = f
    BY <1>4, <1>9, <2>1, <2>3
  <2> QED
    BY <1>6, <2>2, <2>3
<1>10. InTurn(r, s, made, now)
  BY <1>2, <1>7, <1>8, <1>9 DEF InTurn
<1> QED
  BY <1>10 DEF r, now

-----------------------------------------------------------------------------
(***************************************************************************)
(* What a handler does to the output and to the channel                    *)
(***************************************************************************)

\* A sequence of units is cut in two.
LEMMA Cut ==
  ASSUME NEW s \in Seq(Units), NEW n \in 0..Len(s)
  PROVE  /\ SubSeq(s, 1, n) \in Seq(Units) /\ SubSeq(s, n + 1, Len(s)) \in Seq(Units)
         /\ SubSeq(s, 1, n) \o SubSeq(s, n + 1, Len(s)) = s
         /\ n = 0 => SubSeq(s, 1, n) = <<>> /\ SubSeq(s, n + 1, Len(s)) = s
<1>1. Len(s) \in Nat /\ \A i \in 1..Len(s) : s[i] \in Units
  OBVIOUS
<1>2. SubSeq(s, 1, n) \in Seq(Units)
  BY <1>1, SubSeqProperties
<1>3. SubSeq(s, n + 1, Len(s)) \in Seq(Units)
  BY <1>1, SubSeqProperties
<1>4. SubSeq(s, 1, Len(s)) = s
  BY SubSeqFull
<1>5. SubSeq(s, 1, n) \o SubSeq(s, n + 1, Len(s)) = SubSeq(s, 1, Len(s))
  <2>1. 1 \in 1..Len(s) + 1 /\ n \in (1 - 1)..Len(s) /\ Len(s) \in n..Len(s)
    BY <1>1
  <2> QED
    BY <2>1, ConcatAdjacentSubSeq
<1>6. n = 0 => SubSeq(s, 1, n) = <<>>
  BY SubSeqEmpty
<1>7. n = 0 => n + 1 = 1
  OBVIOUS
<1> QED
  BY <1>2, <1>3, <1>4, <1>5, <1>6, <1>7, Zenon

\* Concatenation of units is associative.
LEMMA ConcatAssoc ==
  ASSUME NEW a \in Seq(Units), NEW b \in Seq(Units), NEW c \in Seq(Units)
  PROVE  (a \o b) \o c = a \o (b \o c)
OBVIOUS

\* Less than both.
LEMMA SmallerFacts ==
  ASSUME NEW x \in Nat, NEW y \in Nat
  PROVE  Smaller(x, y) \in 0..x /\ Smaller(x, y) \in 0..y /\ Smaller(x, y) \in Nat
BY DEF Smaller

\* sendInLoop: the message joins the stream as a whole or not at all, and what
\* waits for the socket is watched.
LEMMA SendFacts ==
  ASSUME TypeOK, NEW q \in Seq(Functors), NEW t \in Callers, NEW k \in 0..MaxCalls,
         SendInLoop(Message(t, k), q)
  PROVE  /\ wire' \in Seq(Units) /\ outputBuffer_' \in Seq(Units)
         /\ room' \in 0..MaxRoom /\ lateWrite' \in BOOLEAN /\ fin' = fin
         /\ Stream' = Stream \/ Stream' = Stream \o Message(t, k)
         /\ queue' \in {q, Append(q, WriteComplete), Append(q, HighWater)}
         /\ \/ UNCHANGED chanVars
            \/ state_ # "kDisconnected" /\ events_' = events_ \cup {"write"} /\ index_' = "KAdded"
         /\ state_ # "kDisconnected" /\ index_ = "KAdded" /\ BacklogWatched /\ outputBuffer_' # <<>>
              => "write" \in events_' /\ index_' = "KAdded"
<1>0. /\ wire \in Seq(Units) /\ outputBuffer_ \in Seq(Units)
      /\ room \in 0..MaxRoom /\ fin \in BOOLEAN /\ lateWrite \in BOOLEAN
      /\ MaxRoom \in Nat /\ MsgLen \in Nat /\ peer \in {"open", "finned", "reset"}
  BY ConnAssumption DEF TypeOK
<1>1. CASE state_ = "kDisconnected"
  BY <1>0, <1>1 DEF SendInLoop, chanVars, outVars, Stream
<1>2. CASE state_ # "kDisconnected"
  <2>1. PICK msg : msg = Message(t, k)
    OBVIOUS
  <2>2. msg \in Seq(Units) /\ Len(msg) = MsgLen
    BY <2>1, MessageFacts
  <2>3. PICK direct : direct = (~isWriting /\ outputBuffer_ = <<>>)
    OBVIOUS
  <2>4. PICK fails : fails = (direct /\ (fin \/ peer = "reset"))
    OBVIOUS
  <2>5. PICK n : n = IF direct /\ ~fails THEN Smaller(room, MsgLen) ELSE 0
    OBVIOUS
  <2>6. PICK rest : rest = SubSeq(msg, n + 1, MsgLen)
    OBVIOUS
  <2>7. PICK first : first = SubSeq(msg, 1, n)
    OBVIOUS
  <2>8. n \in 0..MsgLen /\ n \in 0..room
    BY <1>0, <2>5, SmallerFacts
  <2>9. /\ first \in Seq(Units) /\ rest \in Seq(Units) /\ first \o rest = msg
        /\ n = 0 => first = <<>> /\ rest = msg
    BY <2>2, <2>6, <2>7, <2>8, Cut
  <2>10. /\ lateWrite' = (lateWrite \/ (direct /\ fin))
         /\ wire' = wire \o first
         /\ room' = room - n
         /\ outputBuffer_' = IF ~fails /\ rest # <<>> THEN outputBuffer_ \o rest ELSE outputBuffer_
         /\ IF (~fails /\ rest # <<>>) /\ ~isWriting
            THEN UpdateChannel(events_ \cup {"write"}) ELSE UNCHANGED chanVars
         /\ fin' = fin
    BY <1>2, <2>1, <2>3, <2>4, <2>5, <2>6, <2>7 DEF SendInLoop
  <2>11. queue' \in {q, Append(q, WriteComplete), Append(q, HighWater)}
    BY <1>2 DEF SendInLoop
  <2>12. room' \in 0..MaxRoom /\ lateWrite' \in BOOLEAN /\ fin' = fin
    BY <1>0, <2>3, <2>8, <2>10
  <2>13. wire' \in Seq(Units) /\ outputBuffer_' \in Seq(Units)
    BY <1>0, <2>9, <2>10, ConcatUnits
  <2>14. \/ UNCHANGED chanVars
         \/ events_' = events_ \cup {"write"} /\ index_' = "KAdded"
    BY <2>10 DEF UpdateChannel
  <2>15. ASSUME index_ = "KAdded", BacklogWatched, outputBuffer_' # <<>>
         PROVE  "write" \in events_' /\ index_' = "KAdded"
    <3>1. CASE (~fails /\ rest # <<>>) /\ ~isWriting
      BY <2>10, <3>1 DEF UpdateChannel
    <3>2. CASE ~((~fails /\ rest # <<>>) /\ ~isWriting)
      <4>1. isWriting
        BY <1>2, <2>10, <2>15, <3>2 DEF BacklogWatched
      <4>2. UNCHANGED chanVars
        BY <2>10, <3>2
      <4> QED
        BY <2>15, <4>1, <4>2 DEF isWriting, chanVars
    <3> QED
      BY <3>1, <3>2
  <2>16. Stream' = Stream \/ Stream' = Stream \o msg
    <3>1. CASE fails
      <4>1. n = 0
        BY <2>4, <2>5, <3>1
      <4>2. wire' = wire /\ outputBuffer_' = outputBuffer_
        BY <1>0, <2>9, <2>10, <3>1, <4>1, ConcatEmptySeq
      <4> QED
        BY <4>2 DEF Stream
    <3>2. CASE ~fails /\ ~direct
      <4>1. n = 0 /\ first = <<>> /\ rest = msg
        BY <2>5, <2>9, <3>2
      <4>2. msg # <<>>
        BY <2>2, ConnAssumption
      <4>3. wire' = wire /\ outputBuffer_' = outputBuffer_ \o msg
        BY <1>0, <2>10, <3>2, <4>1, <4>2, ConcatEmptySeq
      <4>4. (wire \o outputBuffer_) \o msg = wire \o (outputBuffer_ \o msg)
        BY <1>0, <2>2, ConcatAssoc
      <4> QED
        BY <4>3, <4>4 DEF Stream
    <3>3. CASE ~fails /\ direct
      <4>1. outputBuffer_ = <<>>
        BY <2>3, <3>3
      <4>2. outputBuffer_' = rest
        BY <2>9, <2>10, <3>3, <4>1, ConcatEmptySeq
      <4>3. Stream = wire
        BY <1>0, <4>1, ConcatEmptySeq DEF Stream
      <4>4. (wire \o first) \o rest = wire \o (first \o rest)
        BY <1>0, <2>9, ConcatAssoc
      <4> QED
        BY <2>9, <2>10, <4>2, <4>3, <4>4 DEF Stream
    <3> QED
      BY <3>1, <3>2, <3>3
  <2> QED
    BY <1>2, <2>1, <2>11, <2>12, <2>13, <2>14, <2>15, <2>16
<1> QED
  BY <1>1, <1>2

\* handleWrite: the stream stays the same, and what is left is watched.
LEMMA WriteFacts ==
  ASSUME TypeOK, HandleWrite
  PROVE  /\ wire' \in Seq(Units) /\ outputBuffer_' \in Seq(Units)
         /\ room' \in 0..MaxRoom /\ fin' \in BOOLEAN /\ lateWrite' = lateWrite
         /\ Stream' = Stream
         /\ queue' \in {queue, Append(queue, WriteComplete)}
         /\ \/ UNCHANGED <<outputBuffer_, events_, index_, fin>>
            \/ UNCHANGED <<events_, index_, fin>> /\ isWriting
            \/ /\ isWriting /\ outputBuffer_' = <<>>
               /\ events_' = events_ \ {"write"} /\ index_' \in {"KAdded", "KDelete"}
               /\ events_' # {} => index_' = "KAdded"
<1>0. /\ wire \in Seq(Units) /\ outputBuffer_ \in Seq(Units)
      /\ room \in 0..MaxRoom /\ fin \in BOOLEAN /\ lateWrite \in BOOLEAN
      /\ MaxRoom \in Nat /\ Len(outputBuffer_) \in Nat
  BY ConnAssumption DEF TypeOK
<1>1. PICK n : n = IF fin \/ peer = "reset" THEN 0 ELSE Smaller(room, Len(outputBuffer_))
  OBVIOUS
<1>2. PICK rest : rest = SubSeq(outputBuffer_, n + 1, Len(outputBuffer_))
  OBVIOUS
<1>3. PICK first : first = SubSeq(outputBuffer_, 1, n)
  OBVIOUS
<1>4. n \in 0..Len(outputBuffer_) /\ n \in 0..room
  BY <1>0, <1>1, SmallerFacts
<1>5. first \in Seq(Units) /\ rest \in Seq(Units) /\ first \o rest = outputBuffer_
  BY <1>0, <1>2, <1>3, <1>4, Cut
<1>6. IF ~isWriting \/ n = 0
      THEN UNCHANGED <<chanVars, outVars, queue>>
      ELSE /\ wire' = wire \o first
           /\ room' = room - n
           /\ outputBuffer_' = rest
           /\ IF rest = <<>>
              THEN /\ UpdateChannel(events_ \ {"write"})
                   /\ queue' = Append(queue, WriteComplete)
                   /\ fin' = (fin \/ state_ = "kDisconnecting")
              ELSE UNCHANGED <<chanVars, queue, fin>>
           /\ UNCHANGED lateWrite
  BY <1>1, <1>2, <1>3 DEF HandleWrite
<1>7. CASE ~isWriting \/ n = 0
  BY <1>0, <1>6, <1>7 DEF chanVars, outVars, Stream
<1>8. CASE ~(~isWriting \/ n = 0)
  <2>1. wire' \in Seq(Units) /\ outputBuffer_' \in Seq(Units)
    BY <1>0, <1>5, <1>6, <1>8, ConcatUnits
  <2>2. room' \in 0..MaxRoom /\ fin' \in BOOLEAN /\ lateWrite' = lateWrite
    <3>1. room' = room - n /\ lateWrite' = lateWrite
      BY <1>6, <1>8, Zenon
    <3>2. fin' \in {fin, fin \/ state_ = "kDisconnecting"}
      BY <1>6, <1>8, Zenon
    <3>3. fin' \in BOOLEAN
      BY <1>0, <3>2
    <3> QED
      BY <1>0, <1>4, <3>1, <3>3
  <2>3. (wire \o first) \o rest = wire \o (first \o rest)
    BY <1>0, <1>5, ConcatAssoc
  <2>4. Stream' = Stream
    BY <1>5, <1>6, <1>8, <2>3 DEF Stream
  <2>5. CASE rest = <<>>
    BY <1>6, <1>8, <2>1, <2>2, <2>4, <2>5 DEF UpdateChannel
  <2>6. CASE rest # <<>>
    BY <1>6, <1>8, <2>1, <2>2, <2>4, <2>6 DEF chanVars
  <2> QED
    BY <2>5, <2>6
<1> QED
  BY <1>7, <1>8

-----------------------------------------------------------------------------
(***************************************************************************)
(* Types                                                                   *)
(***************************************************************************)

\* The functors that the program queues.
LEMMA FunctorTypes ==
  /\ Established \in Functors /\ Destroyed \in Functors
  /\ WriteComplete \in Functors /\ HighWater \in Functors
  /\ Functor("forceCloseInLoop", Loop, 0) \in Functors
  /\ Established.op = "connectEstablished" /\ Destroyed.op = "connectDestroyed"
  /\ WriteComplete.op = "writeComplete" /\ HighWater.op = "highWaterMark"
  /\ ~IsRaw(Established) /\ ~IsRaw(Destroyed) /\ ~IsRaw(WriteComplete) /\ ~IsRaw(HighWater)
BY ConnAssumption
   DEF Established, Destroyed, WriteComplete, HighWater, Functor, Functors, FunctorOps, Callers, IsRaw

\* A batch stays part of a queue that grows.
LEMMA Grows ==
  ASSUME NEW q \in Seq(Functors), NEW f \in Functors, NEW b \in 0..Len(q)
  PROVE  Append(q, f) \in Seq(Functors) /\ b \in 0..Len(Append(q, f))
BY AppendFacts

\* The functor that runs is the first of the queue and of the batch.
LEMMA RunningFacts ==
  ASSUME TypeOK, NEW op, Running(op)
  PROVE  /\ queue # <<>> /\ Head(queue) \in Functors /\ Head(queue).op = op
         /\ Tail(queue) \in Seq(Functors) /\ batch' \in 0..Len(Tail(queue))
         /\ phase = "functors" /\ phase' = phase /\ todo' = todo /\ guard' = guard
         /\ batchHolds' = (batchHolds \/ ~IsRaw(Head(queue)))
<1>1. queue \in Seq(Functors) /\ batch \in 0..Len(queue)
  BY DEF TypeOK
<1>2. /\ phase = "functors" /\ phase' = phase /\ todo' = todo /\ guard' = guard
      /\ batch > 0 /\ Head(queue).op = op /\ batch' = batch - 1
      /\ batchHolds' = (batchHolds \/ ~IsRaw(Head(queue)))
  BY DEF Running
<1>3. queue # <<>>
  BY <1>1, <1>2
<1>4. /\ Head(queue) \in Functors /\ Tail(queue) \in Seq(Functors)
      /\ Len(Tail(queue)) = Len(queue) - 1 /\ Len(queue) \in Nat
  BY <1>1, <1>3, TailFacts
<1> QED
  BY <1>1, <1>2, <1>3, <1>4

\* A connection that is closed is queued for its end; the queue and the batch
\* keep their types.
LEMMA CloseTypes ==
  ASSUME TypeOK, NEW q \in Seq(Functors), NEW b \in 0..Len(q), HandleClose(q)
  PROVE  /\ state_' = "kDisconnected" /\ events_' = {} /\ index_' \in {"KAdded", "KDelete"}
         /\ queue' \in Seq(Functors) /\ b \in 0..Len(queue')
         /\ baseQueue' \in Seq({"removeConnectionInLoop"}) /\ inMap' \in BOOLEAN /\ use' = use
         /\ downs' \in 1..2 /\ ups' = ups
         /\ UNCHANGED outVars
<1>1. /\ state_' = "kDisconnected" /\ UpdateChannel({}) /\ downs' = Smaller(downs + 1, 2)
      /\ RemoveConnection(q) /\ UNCHANGED outVars /\ ups' = ups
  BY DEF HandleClose
<1>2. events_' = {} /\ index_' \in {"KAdded", "KDelete"}
  BY <1>1 DEF UpdateChannel
<1>3. downs \in 0..2 /\ baseQueue \in Seq({"removeConnectionInLoop"}) /\ inMap \in BOOLEAN
  BY DEF TypeOK
<1>4. downs' \in 1..2
  BY <1>1, <1>3 DEF Smaller
<1>5. Append(q, Destroyed) \in Seq(Functors) /\ b \in 0..Len(Append(q, Destroyed))
  BY FunctorTypes, Grows
<1>6. Append(baseQueue, "removeConnectionInLoop") \in Seq({"removeConnectionInLoop"})
  BY <1>3, AppendProperties
<1>7. /\ queue' \in Seq(Functors) /\ b \in 0..Len(queue')
      /\ baseQueue' \in Seq({"removeConnectionInLoop"}) /\ inMap' \in BOOLEAN /\ use' = use
  BY <1>1, <1>3, <1>5, <1>6 DEF RemoveConnection
<1> QED
  BY <1>1, <1>2, <1>4, <1>7

\* Every step keeps the types; connectEstablished runs once, because it is queued
\* once.
LEMMA TypeStep ==
  ASSUME TypeOK, Born, Next
  PROVE  TypeOK'
<1> USE DEF chanVars, outVars, userVars, sockVars, cbVars, mapVars
<1>0. /\ queue \in Seq(Functors) /\ batch \in 0..Len(queue)
      /\ calls \in [Callers -> 0..MaxCalls] /\ MaxCalls \in Nat /\ MaxRx \in Nat /\ MaxRoom \in Nat
      /\ Loop \in Callers /\ Threads \subseteq Callers /\ rx \in 0..MaxRx /\ room \in 0..MaxRoom
  BY ConnAssumption DEF TypeOK, Callers
<1>1. CASE Poll
  <2>1. Due \subseteq {"lock", "close", "error", "read", "write", "unlock"}
    BY DEF Due
  <2> QED
    BY <1>1, <2>1 DEF TypeOK, Poll
<1>2. CASE LockTie
  <2>1. Alive \in BOOLEAN
    BY DEF TypeOK, Alive
  <2> QED
    BY <1>2, <2>1 DEF TypeOK, LockTie, Calling
<1>3. CASE UnlockTie
  BY <1>3 DEF TypeOK, UnlockTie, Calling
<1>4. CASE CloseCallback
  <2>1. HandleClose(queue) /\ todo' = todo \ {"close"} /\ UNCHANGED <<phase, batch, batchHolds, guard, userVars, sockVars>>
    BY <1>4 DEF CloseCallback, Calling
  <2>2. /\ state_' = "kDisconnected" /\ events_' = {} /\ index_' \in {"KAdded", "KDelete"}
        /\ queue' \in Seq(Functors) /\ batch \in 0..Len(queue')
        /\ baseQueue' \in Seq({"removeConnectionInLoop"}) /\ inMap' \in BOOLEAN /\ use' = use
        /\ downs' \in 1..2 /\ ups' = ups
        /\ UNCHANGED outVars
    BY <1>0, <2>1, CloseTypes
  <2> QED
    BY <2>1, <2>2 DEF TypeOK
<1>5. CASE HandleError
  BY <1>5 DEF TypeOK, HandleError, Calling
<1>6. CASE HandleRead
  <2>1. todo' = todo \ {"read"} /\ UNCHANGED <<phase, batch, batchHolds, guard, userVars, peer>>
    BY <1>6 DEF HandleRead, Calling
  <2>2. CASE UNCHANGED <<state_, chanVars, outVars, queue, baseQueue, mapVars, cbVars>> /\ rx' \in {0, rx} /\ err' \in {FALSE, err}
    <3>1. rx' \in 0..MaxRx
      BY <1>0, <2>2
    <3>2. err' \in BOOLEAN
      BY <2>2 DEF TypeOK
    <3>3. UNCHANGED <<state_, chanVars, outVars, queue, baseQueue, mapVars, cbVars>>
      BY <2>2
    <3> QED
      BY <2>1, <3>1, <3>2, <3>3 DEF TypeOK
  <2>3. CASE HandleClose(queue) /\ UNCHANGED <<rx, err>>
    <3>1. /\ state_' = "kDisconnected" /\ events_' = {} /\ index_' \in {"KAdded", "KDelete"}
          /\ queue' \in Seq(Functors) /\ batch \in 0..Len(queue')
          /\ baseQueue' \in Seq({"removeConnectionInLoop"}) /\ inMap' \in BOOLEAN /\ use' = use
          /\ downs' \in 1..2 /\ ups' = ups
          /\ UNCHANGED outVars
      BY <1>0, <2>3, CloseTypes
    <3> QED
      BY <2>1, <2>3, <3>1 DEF TypeOK
  <2> QED
    BY <1>6, <2>2, <2>3 DEF HandleRead
<1>7. CASE HandleWrite
  <2>1. /\ todo' = todo \ {"write"} /\ UNCHANGED <<phase, batch, batchHolds, state_, guard, baseQueue, mapVars, userVars, sockVars, cbVars>>
    BY <1>7 DEF HandleWrite, Calling
  <2>2. /\ wire' \in Seq(Units) /\ outputBuffer_' \in Seq(Units)
        /\ room' \in 0..MaxRoom /\ fin' \in BOOLEAN /\ lateWrite' = lateWrite
        /\ queue' \in {queue, Append(queue, WriteComplete)}
    BY <1>7, WriteFacts
  <2>3. queue' \in Seq(Functors) /\ batch \in 0..Len(queue')
    BY <1>0, <2>2, FunctorTypes, Grows
  <2>4. events_' \subseteq {"read", "write"} /\ index_' \in {"KNew", "KAdded", "KDelete"}
    <3>1. events_ \subseteq {"read", "write"} /\ index_ \in {"KNew", "KAdded", "KDelete"}
      BY DEF TypeOK
    <3> QED
      BY <1>7, <3>1, WriteFacts
  <2> QED
    BY <2>1, <2>2, <2>3, <2>4 DEF TypeOK
<1>8. CASE SwapPending
  <2>1. Len(queue) \in 0..Len(queue)
    BY <1>0
  <2> QED
    BY <1>8, <2>1 DEF TypeOK, SwapPending
<1>9. CASE EndBatch
  BY <1>9 DEF TypeOK, EndBatch
<1>10. CASE ConnectEstablished
  <2>1. /\ queue # <<>> /\ Head(queue).op = "connectEstablished" /\ Tail(queue) \in Seq(Functors)
        /\ batch' \in 0..Len(Tail(queue)) /\ UNCHANGED <<phase, todo, guard>>
        /\ batchHolds' = (batchHolds \/ ~IsRaw(Head(queue)))
    BY <1>10, RunningFacts DEF ConnectEstablished
  <2>2. ups = 0
    <3>1. Waits(queue, "connectEstablished")
      BY <1>0, <2>1, WaitsTail
    <3> QED
      BY <3>1 DEF Born
  <2>3. batchHolds' \in BOOLEAN
    BY <2>1 DEF TypeOK
  <2>4. index_' = "KAdded" /\ events_' = events_ \cup {"read"}
    BY <1>10 DEF ConnectEstablished, UpdateChannel
  <2> QED
    BY <1>10, <2>1, <2>2, <2>3, <2>4 DEF TypeOK, ConnectEstablished
<1>11. CASE ConnectDestroyed
  <2>1. /\ Tail(queue) \in Seq(Functors)
        /\ batch' \in 0..Len(Tail(queue)) /\ UNCHANGED <<phase, todo, guard>>
        /\ batchHolds' = (batchHolds \/ ~IsRaw(Head(queue)))
    BY <1>11, RunningFacts DEF ConnectDestroyed
  <2>2. batchHolds' \in BOOLEAN
    BY <2>1 DEF TypeOK
  <2>3. downs' \in 0..2 /\ events_' \subseteq {"read", "write"}
        /\ state_' \in {"kConnecting", "kConnected", "kDisconnecting", "kDisconnected"}
    <3>1. downs \in 0..2 /\ events_ \subseteq {"read", "write"}
          /\ state_ \in {"kConnecting", "kConnected", "kDisconnecting", "kDisconnected"}
      BY DEF TypeOK
    <3>2. Smaller(downs + 1, 2) \in 0..2
      BY <3>1 DEF Smaller
    <3>3. \/ state_' = "kDisconnected" /\ events_' = {} /\ downs' = Smaller(downs + 1, 2)
          \/ state_' = state_ /\ events_' = events_ /\ downs' = downs
      BY <1>11 DEF ConnectDestroyed
    <3> QED
      BY <3>1, <3>2, <3>3
  <2> QED
    BY <1>11, <2>1, <2>2, <2>3 DEF TypeOK, ConnectDestroyed
<1>12. CASE RunSendInLoop
  <2>1. /\ Head(queue) \in Functors /\ Tail(queue) \in Seq(Functors)
        /\ batch' \in 0..Len(Tail(queue)) /\ UNCHANGED <<phase, todo, guard>>
        /\ batchHolds' = (batchHolds \/ ~IsRaw(Head(queue)))
    BY <1>12, RunningFacts DEF RunSendInLoop
  <2>2. batchHolds' \in BOOLEAN
    BY <2>1 DEF TypeOK
  <2>3. Head(queue).by \in Callers /\ Head(queue).k \in 0..MaxCalls
    BY <2>1 DEF Functors
  <2>4. /\ wire' \in Seq(Units) /\ outputBuffer_' \in Seq(Units)
        /\ room' \in 0..MaxRoom /\ lateWrite' \in BOOLEAN /\ fin' = fin
        /\ queue' \in {Tail(queue), Append(Tail(queue), WriteComplete), Append(Tail(queue), HighWater)}
        /\ \/ UNCHANGED chanVars
           \/ events_' = events_ \cup {"write"} /\ index_' = "KAdded"
    BY <1>12, <2>1, <2>3, SendFacts DEF RunSendInLoop
  <2>5. queue' \in Seq(Functors) /\ batch' \in 0..Len(queue')
    BY <2>1, <2>4, FunctorTypes, Grows
  <2>6. UNCHANGED <<state_, baseQueue, mapVars, userVars, sockVars, cbVars>>
    BY <1>12 DEF RunSendInLoop
  <2>7. index_' \in {"KNew", "KAdded", "KDelete"} /\ events_' \subseteq {"read", "write"}
    BY <2>4 DEF TypeOK
  <2> QED
    BY <2>1, <2>2, <2>4, <2>5, <2>6, <2>7 DEF TypeOK
<1>13. CASE RunShutdownInLoop
  <2>1. /\ Tail(queue) \in Seq(Functors)
        /\ batch' \in 0..Len(Tail(queue)) /\ UNCHANGED <<phase, todo, guard>>
        /\ batchHolds' = (batchHolds \/ ~IsRaw(Head(queue)))
    BY <1>13, RunningFacts DEF RunShutdownInLoop
  <2>2. batchHolds' \in BOOLEAN /\ (fin \/ ~isWriting) \in BOOLEAN
    BY <2>1 DEF TypeOK
  <2> QED
    BY <1>13, <2>1, <2>2 DEF TypeOK, RunShutdownInLoop, ShutdownInLoop
<1>14. CASE ForceCloseInLoop
  <2>1. /\ Tail(queue) \in Seq(Functors)
        /\ batch' \in 0..Len(Tail(queue)) /\ UNCHANGED <<phase, todo, guard>>
        /\ batchHolds' = (batchHolds \/ ~IsRaw(Head(queue)))
    BY <1>14, RunningFacts DEF ForceCloseInLoop
  <2>2. batchHolds' \in BOOLEAN
    BY <2>1 DEF TypeOK
  <2>3. CASE HandleClose(Tail(queue))
    <3>1. /\ state_' = "kDisconnected" /\ events_' = {} /\ index_' \in {"KAdded", "KDelete"}
          /\ queue' \in Seq(Functors) /\ batch' \in 0..Len(queue')
          /\ baseQueue' \in Seq({"removeConnectionInLoop"}) /\ inMap' \in BOOLEAN /\ use' = use
          /\ downs' \in 1..2 /\ ups' = ups
          /\ UNCHANGED outVars
      <4>1. PICK b : b = batch'
        OBVIOUS
      <4>2. b \in 0..Len(Tail(queue))
        BY <2>1, <4>1
      <4>3. /\ state_' = "kDisconnected" /\ events_' = {} /\ index_' \in {"KAdded", "KDelete"}
            /\ queue' \in Seq(Functors) /\ b \in 0..Len(queue')
            /\ baseQueue' \in Seq({"removeConnectionInLoop"}) /\ inMap' \in BOOLEAN /\ use' = use
            /\ downs' \in 1..2 /\ ups' = ups
            /\ UNCHANGED outVars
        BY <2>1, <2>3, <4>2, CloseTypes
      <4> QED
        BY <4>1, <4>3
    <3> QED
      BY <1>14, <2>1, <2>2, <3>1 DEF TypeOK, ForceCloseInLoop
  <2>4. CASE ~HandleClose(Tail(queue))
    <3>1. /\ queue' = Tail(queue)
          /\ UNCHANGED <<state_, chanVars, outVars, baseQueue, mapVars, cbVars, userVars, sockVars>>
      BY <1>14, <2>4 DEF ForceCloseInLoop
    <3> QED
      BY <2>1, <2>2, <3>1 DEF TypeOK
  <2> QED
    BY <2>3, <2>4
<1>15. CASE RunUserCallback
  <2>1. PICK op \in {"writeComplete", "highWaterMark"} : Running(op)
    BY <1>15 DEF RunUserCallback
  <2>2. /\ Tail(queue) \in Seq(Functors)
        /\ batch' \in 0..Len(Tail(queue)) /\ UNCHANGED <<phase, todo, guard>>
        /\ batchHolds' = (batchHolds \/ ~IsRaw(Head(queue)))
    BY <2>1, RunningFacts
  <2>3. batchHolds' \in BOOLEAN
    BY <2>2 DEF TypeOK
  <2> QED
    BY <1>15, <2>2, <2>3 DEF TypeOK, RunUserCallback
<1>16. CASE LoopSend
  <2>1. calls[Loop] + 1 \in 0..MaxCalls /\ calls' \in [Callers -> 0..MaxCalls]
    BY <1>0, <1>16 DEF LoopSend, MayLoopCall
  <2>2. /\ wire' \in Seq(Units) /\ outputBuffer_' \in Seq(Units)
        /\ room' \in 0..MaxRoom /\ lateWrite' \in BOOLEAN /\ fin' = fin
        /\ queue' \in {queue, Append(queue, WriteComplete), Append(queue, HighWater)}
        /\ \/ UNCHANGED chanVars
           \/ events_' = events_ \cup {"write"} /\ index_' = "KAdded"
    BY <1>0, <1>16, <2>1, SendFacts DEF LoopSend
  <2>3. queue' \in Seq(Functors) /\ batch \in 0..Len(queue')
    BY <1>0, <2>2, FunctorTypes, Grows
  <2> QED
    BY <1>16, <2>1, <2>2, <2>3 DEF TypeOK, LoopSend, loopVars
<1>17. CASE LoopShutdown
  <2>1. calls' \in [Callers -> 0..MaxCalls]
    BY <1>0, <1>17 DEF LoopShutdown, MayLoopCall
  <2>2. (fin \/ ~isWriting) \in BOOLEAN
    OBVIOUS
  <2> QED
    BY <1>17, <2>1, <2>2 DEF TypeOK, LoopShutdown, ShutdownInLoop, loopVars
<1>18. CASE LoopForceClose
  <2>1. calls' \in [Callers -> 0..MaxCalls]
    BY <1>0, <1>18 DEF LoopForceClose, MayLoopCall
  <2>2. queue' \in Seq(Functors) /\ batch \in 0..Len(queue')
    BY <1>0, <1>18, FunctorTypes, Grows DEF LoopForceClose
  <2> QED
    BY <1>18, <2>1, <2>2 DEF TypeOK, LoopForceClose, loopVars
<1>19. CASE RemoveConnectionInLoop
  <2>1. queue' \in Seq(Functors) /\ batch \in 0..Len(queue')
    BY <1>0, <1>19, FunctorTypes, Grows DEF RemoveConnectionInLoop
  <2>2. baseQueue' \in Seq({"removeConnectionInLoop"})
    BY <1>19, HeadTailProperties DEF TypeOK, RemoveConnectionInLoop
  <2>3. /\ inMap' \in BOOLEAN
        /\ UNCHANGED <<use, state_, chanVars, outVars, phase, todo, guard, batch, batchHolds,
                       userVars, sockVars, cbVars>>
    BY <1>19 DEF RemoveConnectionInLoop, loopVars
  <2> QED
    BY <2>1, <2>2, <2>3 DEF TypeOK
<1>20. ASSUME NEW t \in Threads, NEW op \in Ops, CallCheck(t, op) PROVE TypeOK'
  <2>1. calls' \in [Callers -> 0..MaxCalls]
    BY <1>0, <1>20 DEF CallCheck
  <2>2. call' \in [Threads -> Ops \cup {"none", "shutdownInLoop", "forceCloseInLoop"}]
    BY <1>20 DEF CallCheck, TypeOK
  <2> QED
    BY <1>20, <2>1, <2>2 DEF TypeOK, CallCheck, loopVars
<1>21. ASSUME NEW t \in Threads, CallSet(t) PROVE TypeOK'
  <2>1. call' \in [Threads -> Ops \cup {"none", "shutdownInLoop", "forceCloseInLoop"}]
    BY <1>21 DEF CallSet, TypeOK
  <2> QED
    BY <1>21, <2>1 DEF TypeOK, CallSet, loopVars
<1>22. ASSUME NEW t \in Threads, CallPush(t) PROVE TypeOK'
  <2>1. call' \in [Threads -> Ops \cup {"none", "shutdownInLoop", "forceCloseInLoop"}]
    BY <1>22 DEF CallPush, TypeOK
  <2>2. PICK f : f = Functor(IF call[t] = "send" THEN "sendInLoop" ELSE call[t], t, calls[t])
    OBVIOUS
  <2>3. f \in Functors
    BY <1>0, <1>22, <2>2 DEF CallPush, Functor, Functors, FunctorOps
  <2>4. queue' = Append(queue, f)
    BY <1>22, <2>2 DEF CallPush
  <2>5. queue' \in Seq(Functors) /\ batch \in 0..Len(queue')
    BY <1>0, <2>3, <2>4, Grows
  <2> QED
    BY <1>22, <2>1, <2>5 DEF TypeOK, CallPush, loopVars
<1>23. ASSUME NEW t \in Threads, Drop(t) PROVE TypeOK'
  BY <1>23 DEF TypeOK, Drop, loopVars
<1>24. CASE PeerSend \/ PeerClose \/ PeerReset \/ Drain
  <2>1. rx' \in 0..MaxRx /\ room' \in 0..MaxRoom
    BY <1>0, <1>24 DEF PeerSend, PeerClose, PeerReset, Drain, netUnchanged
  <2>2. peer' \in {"open", "finned", "reset"} /\ err' \in BOOLEAN
    BY <1>24 DEF TypeOK, PeerSend, PeerClose, PeerReset, Drain
  <2>3. UNCHANGED <<state_, chanVars, outputBuffer_, wire, fin, lateWrite, loopVars,
                    queue, baseQueue, mapVars, userVars, cbVars>>
    BY <1>24 DEF PeerSend, PeerClose, PeerReset, Drain, netUnchanged
  <2> QED
    BY <2>1, <2>2, <2>3 DEF TypeOK, loopVars
<1>25. CASE RunDangling
  BY <1>25 DEF TypeOK, RunDangling
<1> QED
  BY <1>1, <1>2, <1>3, <1>4, <1>5, <1>6, <1>7, <1>8, <1>9, <1>10, <1>11, <1>12, <1>13,
     <1>14, <1>15, <1>16, <1>17, <1>18, <1>19, <1>20, <1>21, <1>22, <1>23, <1>24, <1>25
     DEF Next, LoopStep, LoopCall, ForeignStep

-----------------------------------------------------------------------------
(***************************************************************************)
(* handleEvent                                                             *)
(***************************************************************************)

Callback == CloseCallback \/ HandleError \/ HandleRead \/ HandleWrite
RunFunctor ==
  \/ ConnectEstablished \/ ConnectDestroyed \/ RunSendInLoop \/ RunShutdownInLoop
  \/ ForceCloseInLoop \/ RunUserCallback
ForeignCall(t) == (\E op \in Ops : CallCheck(t, op)) \/ ForeignStep(t) \/ Drop(t)
Network == PeerSend \/ PeerClose \/ PeerReset \/ Drain

\* The steps by kind.
LEMMA NextCases ==
  ASSUME Next
  PROVE  \/ Poll \/ LockTie \/ UnlockTie \/ Callback \/ SwapPending \/ EndBatch \/ RunDangling
         \/ RunFunctor \/ LoopCall \/ RemoveConnectionInLoop
         \/ (\E t \in Threads : ForeignCall(t)) \/ Network
BY DEF Next, LoopStep, Callback, RunFunctor, ForeignCall, Network

\* A functor runs when handleEvent is over, and lets it be.
LEMMA FunctorPhase ==
  ASSUME RunFunctor
  PROVE  phase = "functors" /\ UNCHANGED <<phase, todo, guard>>
BY DEF RunFunctor, ConnectEstablished, ConnectDestroyed, RunSendInLoop, RunShutdownInLoop,
       ForceCloseInLoop, RunUserCallback, Running

\* Calls on the connection and the network let handleEvent be.
LEMMA OthersPhase ==
  ASSUME LoopCall \/ RemoveConnectionInLoop \/ (\E t \in Threads : ForeignCall(t)) \/ Network
  PROVE  UNCHANGED <<phase, todo, guard, batch, batchHolds>>
BY DEF LoopCall, LoopSend, LoopShutdown, LoopForceClose, RemoveConnectionInLoop, ForeignCall,
       ForeignStep, CallCheck, CallSet, CallPush, Drop, Network, PeerSend, PeerClose, PeerReset,
       Drain, netUnchanged, loopVars

\* A callback is made with the tie locked, and is then no longer due.
LEMMA CallbackTodo ==
  ASSUME Dispatching, Callback
  PROVE  \E cb \in {"close", "error", "read", "write"} :
           /\ cb \in todo /\ "lock" \notin todo /\ guard /\ phase = "dispatch"
           /\ todo' = todo \ {cb} /\ UNCHANGED <<phase, guard, batch, batchHolds>>
<1>1. \A cb \in {"close", "error", "read", "write"} : "lock" \in Earlier[cb]
  BY DEF Earlier
<1>2. PICK cb \in {"close", "error", "read", "write"} :
        Calling(cb) /\ todo' = todo \ {cb} /\ guard' = guard
  BY DEF Callback, CloseCallback, HandleError, HandleRead, HandleWrite
<1>3. cb \in todo /\ "lock" \notin todo
  BY <1>1, <1>2 DEF Calling
<1> QED
  BY <1>2, <1>3 DEF Calling, Dispatching

\* handleEvent goes from its lock to its unlock, and reads or closes.
LEMMA DispatchingStep ==
  ASSUME TypeOK, Dispatching, Next
  PROVE  Dispatching'
<1>1. CASE Poll
  <2>1. todo = {} /\ ~guard /\ guard' = guard /\ phase' = "dispatch" /\ todo' = Due
    BY <1>1 DEF Dispatching, Poll
  <2>2. \/ Due = {}
        \/ /\ "lock" \in Due /\ "unlock" \in Due
           /\ "close" \in Due => "read" \notin Due
    BY DEF Due
  <2> QED
    BY <2>1, <2>2 DEF Dispatching
<1>2. CASE LockTie
  <2>1. /\ "lock" \in todo /\ phase = "dispatch" /\ phase' = phase
        /\ guard' = Alive /\ todo' = IF Alive THEN todo \ {"lock"} ELSE {}
    BY <1>2 DEF LockTie, Calling
  <2> QED
    BY <2>1 DEF Dispatching
<1>3. CASE UnlockTie
  <2>1. todo \cap {"lock", "close", "error", "read", "write"} = {} /\ todo' = todo \ {"unlock"} /\ ~guard'
    BY <1>3 DEF UnlockTie, Calling, Earlier
  <2>2. todo' = {}
    BY <2>1 DEF TypeOK
  <2> QED
    BY <2>1, <2>2 DEF Dispatching
<1>4. CASE Callback
  <2>1. PICK cb \in {"close", "error", "read", "write"} :
           /\ cb \in todo /\ "lock" \notin todo /\ guard /\ phase = "dispatch"
           /\ todo' = todo \ {cb} /\ UNCHANGED <<phase, guard, batch, batchHolds>>
    BY <1>4, CallbackTodo
  <2> QED
    BY <2>1 DEF Dispatching
<1>5. CASE SwapPending
  BY <1>5 DEF Dispatching, SwapPending
<1>6. CASE EndBatch \/ RunDangling
  BY <1>6 DEF Dispatching, EndBatch, RunDangling
<1>7. CASE RunFunctor
  BY <1>7, FunctorPhase DEF Dispatching
<1>8. CASE LoopCall \/ RemoveConnectionInLoop \/ (\E t \in Threads : ForeignCall(t)) \/ Network
  BY <1>8, OthersPhase DEF Dispatching
<1> QED
  BY <1>1, <1>2, <1>3, <1>4, <1>5, <1>6, <1>7, <1>8, NextCases

-----------------------------------------------------------------------------
(***************************************************************************)
(* The beginning                                                           *)
(***************************************************************************)

\* While the connection is not established nothing happens to it but that.
LEMMA UnbornStep ==
  ASSUME TypeOK, Dispatching, Held, Unborn, ups = 0, Next, ~ConnectEstablished
  PROVE  Unborn' /\ ups' = 0
<1> USE DEF chanVars, outVars, userVars, sockVars, cbVars, mapVars
<1>0. /\ state_ = "kConnecting" /\ index_ = "KNew" /\ events_ = {} /\ outputBuffer_ = <<>>
      /\ downs = 0 /\ todo = {} /\ queue = <<Established>> /\ baseQueue = <<>> /\ inMap
      /\ \A t \in Threads : ~holds[t] /\ call[t] = "none"
  BY DEF Unborn, Held, TypeOK
<1>1. Head(queue).op = "connectEstablished"
  BY <1>0, FunctorTypes
<1>2. CASE Poll
  <2>1. Due = {}
    BY <1>0 DEF Due, Reported
  <2> QED
    BY <1>0, <1>2, <2>1 DEF Unborn, Poll
<1>3. CASE LockTie \/ UnlockTie \/ Callback
  BY <1>0, <1>3 DEF LockTie, UnlockTie, Callback, CloseCallback, HandleError, HandleRead, HandleWrite, Calling
<1>4. CASE SwapPending \/ EndBatch \/ RunDangling
  BY <1>0, <1>4 DEF SwapPending, EndBatch, RunDangling, Unborn
<1>5. CASE RunFunctor
  BY <1>1, <1>5 DEF RunFunctor, ConnectDestroyed, RunSendInLoop, RunShutdownInLoop,
                    ForceCloseInLoop, RunUserCallback, Running
<1>6. CASE LoopCall
  BY <1>6 DEF LoopCall, LoopSend, LoopShutdown, LoopForceClose, MayLoopCall
<1>7. CASE RemoveConnectionInLoop
  BY <1>0, <1>7 DEF RemoveConnectionInLoop
<1>8. CASE \E t \in Threads : ForeignCall(t)
  BY <1>0, <1>8 DEF ForeignCall, ForeignStep, CallCheck, CallSet, CallPush, Drop
<1>9. CASE Network
  BY <1>0, <1>9 DEF Network, PeerSend, PeerClose, PeerReset, Drain, netUnchanged, loopVars, Unborn
<1> QED
  BY <1>2, <1>3, <1>4, <1>5, <1>6, <1>7, <1>8, <1>9, NextCases

-----------------------------------------------------------------------------
(***************************************************************************)
(* The queue                                                               *)
(***************************************************************************)

\* The functors of a queue after a push.
LEMMA ElemsAppend ==
  ASSUME NEW q \in Seq(Functors), NEW f \in Functors
  PROVE  Elems(Append(q, f)) = Elems(q) \cup {f}
<1> DEFINE r == Append(q, f)
<1>1. /\ Len(r) = Len(q) + 1 /\ Len(q) \in Nat
      /\ \A i \in 1..Len(q) : r[i] = q[i]
      /\ r[Len(q) + 1] = f
  BY AppendFacts
<1> HIDE DEF r
<1>2. 1..Len(r) = (1..Len(q)) \cup {Len(q) + 1}
  BY <1>1
<1>3. Elems(r) = Elems(q) \cup {f}
  BY <1>1, <1>2 DEF Elems
<1> QED
  BY <1>3 DEF r

\* The functors of a queue without the first one.
LEMMA ElemsTail ==
  ASSUME NEW q \in Seq(Functors), q # <<>>
  PROVE  Elems(q) = {Head(q)} \cup Elems(Tail(q))
<1> DEFINE r == Tail(q)
<1>1. /\ Len(r) = Len(q) - 1 /\ Len(q) \in Nat \ {0} /\ Head(q) = q[1]
      /\ \A i \in 1..Len(r) : r[i] = q[i + 1]
  BY TailFacts
<1> HIDE DEF r
<1>2. ASSUME NEW x \in Elems(q) PROVE x = Head(q) \/ x \in Elems(r)
  <2>1. PICK i \in 1..Len(q) : x = q[i]
    BY <1>2 DEF Elems
  <2>2. CASE i = 1
    BY <1>1, <2>1, <2>2
  <2>3. CASE i # 1
    <3>1. i - 1 \in 1..Len(r) /\ r[i - 1] = q[i]
      BY <1>1, <2>3
    <3> QED
      BY <2>1, <3>1 DEF Elems
  <2> QED
    BY <2>2, <2>3
<1>3. Head(q) \in Elems(q)
  BY <1>1 DEF Elems
<1>4. ASSUME NEW x \in Elems(r) PROVE x \in Elems(q)
  <2>1. PICK i \in 1..Len(r) : x = r[i]
    BY <1>4 DEF Elems
  <2>2. i + 1 \in 1..Len(q) /\ x = q[i + 1]
    BY <1>1, <2>1
  <2> QED
    BY <2>2 DEF Elems
<1>5. Elems(q) = {Head(q)} \cup Elems(r)
  BY <1>2, <1>3, <1>4
<1> QED
  BY <1>5 DEF r

\* What waits is the operation of one of the functors.
LEMMA WaitsElems ==
  ASSUME NEW q \in Seq(Functors), NEW op
  PROVE  Waits(q, op) <=> \E fn \in Elems(q) : fn.op = op
BY DEF Waits, Elems

\* A functor that a step may queue: connectEstablished only at the beginning, and
\* a bare pointer only for a thread that is making the call.
MayQueue(f) ==
  /\ f \in Functors /\ f.op # "connectEstablished"
  /\ f.op = "sendInLoop" => f.by \in Threads /\ call[f.by] = "send" /\ CallPush(f.by)
  /\ f.op = "shutdownInLoop" => f.by \in Threads /\ call[f.by] = "shutdownInLoop"

\* What closing a connection does to the queue.
LEMMA CloseQueue ==
  ASSUME NEW q, HandleClose(q)
  PROVE  queue' = q \/ queue' = Append(q, Destroyed)
BY DEF HandleClose, RemoveConnection

\* The program's own functors may be queued.
LEMMA QueuedByLoop ==
  \A f \in {Destroyed, WriteComplete, HighWater, Functor("forceCloseInLoop", Loop, 0)} : MayQueue(f)
BY FunctorTypes DEF MayQueue, Destroyed, WriteComplete, HighWater, Functor

\* A step takes at most one functor from the queue, to run it, and queues at most
\* one.
LEMMA QueueStep ==
  ASSUME TypeOK, Next
  PROVE  \E q \in Seq(Functors) :
           /\ \/ ~RunFunctor /\ q = queue
              \/ RunFunctor /\ queue # <<>> /\ q = Tail(queue)
           /\ queue' = q \/ \E f \in Functors : MayQueue(f) /\ queue' = Append(q, f)
<1>0. queue \in Seq(Functors)
  BY DEF TypeOK
<1>1. CASE RunFunctor
  <2>1. queue # <<>> /\ Tail(queue) \in Seq(Functors) /\ Head(queue) \in Functors
    BY <1>1, RunningFacts
       DEF RunFunctor, ConnectEstablished, ConnectDestroyed, RunSendInLoop, RunShutdownInLoop,
           ForceCloseInLoop, RunUserCallback
  <2>2. \/ queue' = Tail(queue)
        \/ \E f \in {Destroyed, WriteComplete, HighWater} : queue' = Append(Tail(queue), f)
    <3>1. CASE ConnectEstablished \/ ConnectDestroyed \/ RunShutdownInLoop \/ RunUserCallback
      BY <3>1 DEF ConnectEstablished, ConnectDestroyed, RunShutdownInLoop, RunUserCallback
    <3>2. CASE RunSendInLoop
      <4>1. Head(queue).by \in Callers /\ Head(queue).k \in 0..MaxCalls
        BY <2>1 DEF Functors
      <4>2. queue' \in {Tail(queue), Append(Tail(queue), WriteComplete), Append(Tail(queue), HighWater)}
        BY <2>1, <3>2, <4>1, SendFacts DEF RunSendInLoop
      <4> QED
        BY <4>2
    <3>3. CASE ForceCloseInLoop
      BY <3>3, CloseQueue DEF ForceCloseInLoop
    <3> QED
      BY <1>1, <3>1, <3>2, <3>3 DEF RunFunctor
  <2> QED
    BY <1>1, <2>1, <2>2, QueuedByLoop, FunctorTypes
<1>2. CASE ~RunFunctor
  <2>1. SUFFICES queue' = queue \/ \E f \in Functors : MayQueue(f) /\ queue' = Append(queue, f)
    BY <1>0, <1>2
  <2>2. SUFFICES ASSUME ~(\E t \in Threads : CallPush(t))
                 PROVE  \/ queue' = queue
                        \/ \E f \in {Destroyed, WriteComplete, HighWater, Functor("forceCloseInLoop", Loop, 0)} :
                             queue' = Append(queue, f)
    <3>1. ASSUME NEW t \in Threads, CallPush(t)
          PROVE  \E f \in Functors : MayQueue(f) /\ queue' = Append(queue, f)
      <4>1. PICK f : f = Functor(IF call[t] = "send" THEN "sendInLoop" ELSE call[t], t, calls[t])
        OBVIOUS
      <4>2. queue' = Append(queue, f) /\ call[t] \in {"send", "shutdownInLoop", "forceCloseInLoop"}
        BY <3>1, <4>1 DEF CallPush
      <4>3. calls[t] \in 0..MaxCalls /\ t \in Callers
        BY DEF TypeOK, Callers
      <4>4. f \in Functors
        BY <4>1, <4>2, <4>3 DEF Functor, Functors, FunctorOps
      <4>5. MayQueue(f)
        BY <3>1, <4>1, <4>2, <4>4 DEF Functor, MayQueue
      <4> QED
        BY <4>2, <4>4, <4>5
    <3> QED
      BY <3>1, QueuedByLoop, FunctorTypes
  <2>3. CASE Poll \/ LockTie \/ UnlockTie \/ HandleError \/ SwapPending \/ EndBatch \/ RunDangling \/ Network
    BY <2>3 DEF Poll, LockTie, UnlockTie, HandleError, SwapPending, EndBatch, RunDangling, Network, PeerSend,
                PeerClose, PeerReset, Drain, netUnchanged
  <2>4. CASE CloseCallback
    BY <2>4, CloseQueue DEF CloseCallback
  <2>5. CASE HandleRead
    BY <2>5, CloseQueue DEF HandleRead
  <2>6. CASE HandleWrite
    BY <2>6, WriteFacts
  <2>7. CASE LoopSend
    <3>1. Loop \in Callers /\ calls[Loop] + 1 \in 0..MaxCalls
      BY <2>7, ConnAssumption DEF TypeOK, LoopSend, MayLoopCall, Callers
    <3>2. queue' \in {queue, Append(queue, WriteComplete), Append(queue, HighWater)}
      BY <1>0, <2>7, <3>1, SendFacts DEF LoopSend
    <3> QED
      BY <3>2
  <2>8. CASE LoopShutdown \/ LoopForceClose \/ RemoveConnectionInLoop
    BY <2>8 DEF LoopShutdown, LoopForceClose, RemoveConnectionInLoop
  <2>9. CASE \E t \in Threads : ForeignCall(t)
    BY <2>2, <2>9 DEF ForeignCall, ForeignStep, CallCheck, CallSet, Drop
  <2> QED
    BY <1>2, <2>3, <2>4, <2>5, <2>6, <2>7, <2>8, <2>9, NextCases DEF Callback, LoopCall
<1> QED
  BY <1>1, <1>2

\* The functors of a queue after a step: none is new but the one it queued.
LEMMA ElemsStep ==
  ASSUME TypeOK, Next
  PROVE  /\ \A fn \in Elems(queue') : fn \in Elems(queue) \/ (MayQueue(fn) /\ fn \in Functors)
         /\ RunFunctor => Head(queue) \in Elems(queue)
<1>1. PICK q \in Seq(Functors) :
        /\ \/ ~RunFunctor /\ q = queue
           \/ RunFunctor /\ queue # <<>> /\ q = Tail(queue)
        /\ queue' = q \/ \E f \in Functors : MayQueue(f) /\ queue' = Append(q, f)
  BY QueueStep
<1>2. queue \in Seq(Functors)
  BY DEF TypeOK
<1>3. Elems(q) \subseteq Elems(queue)
  BY <1>1, <1>2, ElemsTail
<1>4. CASE queue' = q
  BY <1>1, <1>2, <1>3, <1>4, ElemsTail
<1>5. CASE queue' # q
  <2>1. PICK f \in Functors : MayQueue(f) /\ queue' = Append(q, f)
    BY <1>1, <1>5
  <2>2. Elems(queue') = Elems(q) \cup {f}
    BY <2>1, ElemsAppend
  <2> QED
    BY <1>1, <1>2, <1>3, <2>1, <2>2, ElemsTail
<1> QED
  BY <1>4, <1>5

\* An established connection is not established again, and never connecting again.
LEMMA BornStep ==
  ASSUME TypeOK, Dispatching, Held, Born, Next
  PROVE  Born'
<1>1. CASE ups = 0 /\ ConnectEstablished
  <2>1. queue = <<Established>> /\ queue' = Tail(queue) /\ state_' = "kConnected" /\ ups' = 1
    BY <1>1 DEF Born, Unborn, ConnectEstablished
  <2>2. queue' = <<>>
    BY <2>1
  <2> QED
    BY <2>1, <2>2 DEF Born, Waits
<1>2. CASE ups = 0 /\ ~ConnectEstablished
  BY <1>2, UnbornStep DEF Born
<1>3. CASE ups # 0
  <2>1. state_ # "kConnecting" /\ \A fn \in Elems(queue) : fn.op # "connectEstablished"
    BY <1>3, WaitsElems DEF Born, TypeOK
  <2>2. ~ConnectEstablished
    BY <2>1, ElemsStep, RunningFacts DEF ConnectEstablished, RunFunctor
  <2>3. state_' # "kConnecting" /\ ups' = ups
    <3>1. CASE Poll \/ LockTie \/ UnlockTie \/ SwapPending \/ EndBatch \/ RunDangling \/ RemoveConnectionInLoop \/ Network
      BY <2>1, <3>1 DEF Poll, LockTie, UnlockTie, SwapPending, EndBatch, RunDangling, RemoveConnectionInLoop,
                        Network, PeerSend, PeerClose, PeerReset, Drain, netUnchanged, cbVars
    <3>2. CASE Callback
      BY <2>1, <3>2 DEF Callback, CloseCallback, HandleError, HandleRead, HandleWrite, HandleClose, cbVars
    <3>3. CASE RunFunctor
      BY <2>1, <2>2, <3>3 DEF RunFunctor, ConnectDestroyed, RunSendInLoop, RunShutdownInLoop,
                              ForceCloseInLoop, RunUserCallback, HandleClose, cbVars
    <3>4. CASE LoopCall \/ (\E t \in Threads : ForeignCall(t))
      BY <2>1, <3>4 DEF LoopCall, LoopSend, LoopShutdown, LoopForceClose, ForeignCall, ForeignStep,
                        CallCheck, CallSet, CallPush, Drop, cbVars
    <3> QED
      BY <3>1, <3>2, <3>3, <3>4, NextCases
  <2>4. \A fn \in Elems(queue') : fn.op # "connectEstablished"
    BY <2>1, ElemsStep DEF MayQueue
  <2>5. ~Waits(queue', "connectEstablished")
    <3>1. queue' \in Seq(Functors)
      BY TypeStep DEF TypeOK
    <3> QED
      BY <2>4, <3>1, WaitsElems
  <2> QED
    BY <1>3, <2>3, <2>5 DEF Born
<1> QED
  BY <1>1, <1>2, <1>3

\* The pointers and calls of the threads: they all get a pointer, or one of them
\* goes on.
LEMMA UserStep ==
  ASSUME Next
  PROVE  /\ \/ holds' = holds /\ call' = call
            \/ holds' = [t \in Threads |-> TRUE] /\ call' = call
            \/ \E t \in Threads : ForeignCall(t)
         /\ use' = use
<1> USE DEF userVars, mapVars
<1>1. CASE Poll \/ LockTie \/ UnlockTie \/ SwapPending \/ EndBatch \/ RunDangling \/ RemoveConnectionInLoop \/ Network
  BY <1>1 DEF Poll, LockTie, UnlockTie, SwapPending, EndBatch, RunDangling, RemoveConnectionInLoop,
              Network, PeerSend, PeerClose, PeerReset, Drain, netUnchanged
<1>2. CASE Callback
  BY <1>2 DEF Callback, CloseCallback, HandleError, HandleRead, HandleWrite, HandleClose, RemoveConnection
<1>3. CASE RunFunctor
  BY <1>3 DEF RunFunctor, ConnectEstablished, ConnectDestroyed, RunSendInLoop, RunShutdownInLoop,
              ForceCloseInLoop, RunUserCallback, HandleClose, RemoveConnection
<1>4. CASE LoopCall
  BY <1>4 DEF LoopCall, LoopSend, LoopShutdown, LoopForceClose
<1>5. CASE \E t \in Threads : ForeignCall(t)
  BY <1>5 DEF ForeignCall, ForeignStep, CallCheck, CallSet, CallPush, Drop
<1> QED
  BY <1>1, <1>2, <1>3, <1>4, <1>5, NextCases

\* A thread keeps what the loop still needs of it.
LEMMA HeldStep ==
  ASSUME TypeOK, Held, Next
  PROVE  Held'
<1>0. /\ \A t \in Threads : call[t] # "none" => holds[t]
      /\ \A fn \in Elems(queue) : IsRaw(fn) => fn.by \in Threads
      /\ holds \in [Threads -> BOOLEAN]
      /\ call \in [Threads -> Ops \cup {"none", "shutdownInLoop", "forceCloseInLoop"}]
  BY DEF Held, TypeOK
<1>1. \A fn \in Elems(queue') : IsRaw(fn) => fn.by \in Threads
  BY <1>0, ElemsStep DEF MayQueue, IsRaw
<1>2. \A t \in Threads : call'[t] # "none" => holds'[t]
  <2>1. CASE (holds' = holds \/ holds' = [t \in Threads |-> TRUE]) /\ call' = call
    BY <1>0, <2>1
  <2>2. CASE \E t \in Threads : ForeignCall(t)
    <3>1. PICK t \in Threads : ForeignCall(t)
      BY <2>2
    <3>2. CASE Drop(t)
      BY <1>0, <3>2 DEF Drop
    <3>3. CASE \E op \in Ops : CallCheck(t, op)
      BY <1>0, <3>3 DEF CallCheck
    <3>4. CASE ForeignStep(t)
      BY <1>0, <3>4 DEF ForeignStep, CallSet, CallPush
    <3> QED
      BY <3>1, <3>2, <3>3, <3>4 DEF ForeignCall
  <2> QED
    BY <2>1, <2>2, UserStep
<1>3. ASSUME OnlySends'
      PROVE  (\A t \in Threads : call'[t] \in {"none", "send"}) /\ ~Waits(queue', "shutdownInLoop")
  <2>1. OnlySends /\ use.foreign \subseteq {"send"}
    BY <1>3, UserStep DEF OnlySends
  <2>2. /\ \A t \in Threads : call[t] \in {"none", "send"}
        /\ \A fn \in Elems(queue) : fn.op # "shutdownInLoop"
    BY <2>1, WaitsElems DEF Held, TypeOK
  <2>3. \A t \in Threads : call'[t] \in {"none", "send"}
    <3>1. CASE call' = call
      BY <2>2, <3>1
    <3>2. CASE \E t \in Threads : ForeignCall(t)
      <4>1. PICK t \in Threads : ForeignCall(t)
        BY <3>2
      <4>2. call' = call \/ call' = [call EXCEPT ![t] = "send"] \/ call' = [call EXCEPT ![t] = "none"]
        BY <2>1, <2>2, <4>1 DEF ForeignCall, ForeignStep, CallCheck, CallSet, CallPush, Drop
      <4> QED
        BY <1>0, <2>2, <4>2
    <3> QED
      BY <3>1, <3>2, UserStep
  <2>4. \A fn \in Elems(queue') : fn.op # "shutdownInLoop"
    BY <2>2, ElemsStep DEF MayQueue
  <2>5. queue' \in Seq(Functors)
    BY QueueStep, Grows, AppendFacts
  <2> QED
    BY <2>3, <2>4, <2>5, WaitsElems
<1> QED
  BY <1>1, <1>2, <1>3 DEF Held

-----------------------------------------------------------------------------
(***************************************************************************)
(* After the end                                                           *)
(***************************************************************************)

\* Input is reported to a channel that reads, and write readiness to one that
\* writes.
LEMMA ReportedFacts ==
  /\ "IN" \in Reported => "read" \in events_
  /\ Reported # {} => index_ = "KAdded"
  /\ todo' = Due /\ "read" \in todo' => "read" \in events_
BY DEF Reported, Due

\* After the down callback the channel is not read again.
LEMMA QuietStep ==
  ASSUME TypeOK, Dispatching, Born, Quiet, Next
  PROVE  Quiet'
<1> USE DEF chanVars, cbVars
<1>0. (downs > 0 => "read" \notin events_ /\ "read" \notin todo) /\ downs \in 0..2
  BY DEF Quiet, TypeOK
<1>1. SUFFICES ASSUME downs' > 0 PROVE "read" \notin events_' /\ "read" \notin todo'
  BY DEF Quiet
<1>2. CASE Poll
  BY <1>0, <1>1, <1>2, ReportedFacts DEF Poll
<1>3. CASE LockTie \/ UnlockTie
  BY <1>0, <1>1, <1>3 DEF LockTie, UnlockTie
<1>4. CASE Callback
  <2>1. todo' \subseteq todo
    BY <1>4, CallbackTodo
  <2>2. CASE CloseCallback
    BY <2>1, <2>2 DEF CloseCallback, Calling, HandleClose, UpdateChannel, Dispatching
  <2>3. CASE HandleError
    BY <1>0, <1>1, <2>1, <2>3 DEF HandleError
  <2>4. CASE HandleRead
    BY <1>0, <1>1, <2>4 DEF HandleRead, HandleClose, UpdateChannel
  <2>5. CASE HandleWrite
    <3>1. events_' \subseteq events_ /\ downs' = downs
      BY <2>5, WriteFacts DEF HandleWrite
    <3> QED
      BY <1>0, <1>1, <2>1, <3>1
  <2> QED
    BY <1>4, <2>2, <2>3, <2>4, <2>5 DEF Callback
<1>5. CASE SwapPending \/ EndBatch \/ RunDangling
  BY <1>0, <1>1, <1>5 DEF SwapPending, EndBatch, RunDangling
<1>6. CASE RunFunctor
  <2>1. "read" \notin todo'
    BY <1>6, FunctorPhase DEF Dispatching
  <2>2. CASE ConnectEstablished
    <3>1. ups = 0
      BY <2>2, RunningFacts, WaitsTail DEF TypeOK, Born, ConnectEstablished
    <3>2. downs' = 0
      BY <2>2, <3>1 DEF Born, Unborn, ConnectEstablished
    <3> QED
      BY <1>1, <3>2
  <2>3. CASE ConnectDestroyed
    BY <1>0, <1>1, <2>1, <2>3 DEF ConnectDestroyed
  <2>4. CASE RunSendInLoop
    <3>1. Head(queue).by \in Callers /\ Head(queue).k \in 0..MaxCalls /\ Tail(queue) \in Seq(Functors)
      BY <2>4, RunningFacts DEF RunSendInLoop, Functors
    <3>2. events_' \subseteq events_ \cup {"write"} /\ downs' = downs
      BY <2>4, <3>1, SendFacts DEF RunSendInLoop
    <3> QED
      BY <1>0, <1>1, <2>1, <3>2
  <2>5. CASE RunShutdownInLoop \/ RunUserCallback
    BY <1>0, <1>1, <2>1, <2>5 DEF RunShutdownInLoop, RunUserCallback
  <2>6. CASE ForceCloseInLoop
    BY <1>0, <1>1, <2>1, <2>6 DEF ForceCloseInLoop, HandleClose, UpdateChannel
  <2> QED
    BY <1>6, <2>2, <2>3, <2>4, <2>5, <2>6 DEF RunFunctor
<1>7. CASE LoopSend
  <2>1. Loop \in Callers /\ calls[Loop] + 1 \in 0..MaxCalls /\ queue \in Seq(Functors)
    BY <1>7, ConnAssumption DEF TypeOK, LoopSend, MayLoopCall, Callers
  <2>2. events_' \subseteq events_ \cup {"write"} /\ downs' = downs /\ todo' = todo
    BY <1>7, <2>1, SendFacts DEF LoopSend, loopVars
  <2> QED
    BY <1>0, <1>1, <2>2
<1>8. CASE LoopShutdown \/ LoopForceClose \/ RemoveConnectionInLoop \/ Network
  BY <1>0, <1>1, <1>8 DEF LoopShutdown, LoopForceClose, RemoveConnectionInLoop, Network, PeerSend,
                          PeerClose, PeerReset, Drain, netUnchanged, loopVars
<1>9. CASE \E t \in Threads : ForeignCall(t)
  BY <1>0, <1>1, <1>9 DEF ForeignCall, ForeignStep, CallCheck, CallSet, CallPush, Drop, loopVars
<1> QED
  BY <1>2, <1>3, <1>4, <1>5, <1>6, <1>7, <1>8, <1>9, NextCases DEF LoopCall

-----------------------------------------------------------------------------
(***************************************************************************)
(* The stream                                                              *)
(***************************************************************************)

\* Only sendInLoop and handleWrite touch the stream, and only the callers' steps
\* their calls.
LEMMA OutStep ==
  ASSUME Next
  PROVE  /\ HandleWrite \/ RunSendInLoop \/ LoopSend \/ UNCHANGED <<wire, outputBuffer_>>
         /\ LoopCall \/ (\E t \in Threads : ForeignCall(t)) \/ UNCHANGED <<call, calls>>
<1> USE DEF outVars, userVars
<1>1. CASE Poll \/ LockTie \/ UnlockTie \/ SwapPending \/ EndBatch \/ RunDangling \/ RemoveConnectionInLoop \/ Network
  BY <1>1 DEF Poll, LockTie, UnlockTie, SwapPending, EndBatch, RunDangling, RemoveConnectionInLoop,
              Network, PeerSend, PeerClose, PeerReset, Drain, netUnchanged
<1>2. CASE Callback
  BY <1>2 DEF Callback, CloseCallback, HandleError, HandleRead, HandleWrite, HandleClose
<1>3. CASE RunFunctor
  BY <1>3 DEF RunFunctor, ConnectEstablished, ConnectDestroyed, RunSendInLoop, RunShutdownInLoop,
              ForceCloseInLoop, RunUserCallback, HandleClose, ShutdownInLoop
<1>4. CASE LoopCall
  BY <1>4 DEF LoopCall, LoopShutdown, LoopForceClose, ShutdownInLoop
<1>5. CASE \E t \in Threads : ForeignCall(t)
  BY <1>5 DEF ForeignCall, ForeignStep, CallCheck, CallSet, CallPush, Drop
<1> QED
  BY <1>1, <1>2, <1>3, <1>4, <1>5, NextCases

\* Messages stay in turn, and the stream stays whole.
LEMMA StreamStep ==
  ASSUME TypeOK, Held, SendsInTurn, StreamIntact, Next
  PROVE  SendsInTurn' /\ StreamIntact'
<1>0. /\ queue \in Seq(Functors) /\ Stream \in Seq(Units) /\ calls \in Counts
      /\ Loop \in Callers /\ Threads \subseteq Callers
      /\ DOMAIN call = Threads /\ call = [x \in Threads |-> call[x]]
      /\ InTurn(queue, Stream, calls, call) /\ Whole(Stream) /\ InSendOrder(Stream)
  BY ConcatUnits DEF TypeOK, Stream, Counts, Callers, SendsInTurn, StreamIntact
<1>1. PICK q \in Seq(Functors) :
        /\ \/ ~RunFunctor /\ q = queue
           \/ RunFunctor /\ queue # <<>> /\ q = Tail(queue)
        /\ queue' = q \/ \E f \in Functors : MayQueue(f) /\ queue' = Append(q, f)
  BY QueueStep
<1>2. InTurn(q, Stream, calls, call)
  BY <1>0, <1>1, InTurnTail
<1>3. ASSUME NEW s \in Seq(Units), NEW made, NEW at, InTurn(q, s, made, at),
             ~(\E t \in Threads : CallPush(t))
      PROVE  InTurn(queue', s, made, at)
  <2>1. CASE queue' = q
    BY <1>3, <2>1
  <2>2. CASE queue' # q
    <3>1. PICK f \in Functors : MayQueue(f) /\ queue' = Append(q, f)
      BY <1>1, <2>2
    <3>2. f.op # "sendInLoop"
      BY <1>3, <3>1 DEF MayQueue
    <3>3. InTurn(Append(q, f), s, made, at)
      BY <1>3, <3>2, InTurnOther
    <3> QED
      BY <3>1, <3>3
  <2> QED
    BY <2>1, <2>2
<1>4. CASE RunSendInLoop
  <2>1. RunFunctor /\ queue # <<>> /\ q = Tail(queue)
    BY <1>1, <1>4 DEF RunFunctor
  <2>2. Head(queue) \in Functors /\ Head(queue).op = "sendInLoop"
    BY <1>4, RunningFacts DEF RunSendInLoop
  <2>3. PICK by \in Callers, k \in 0..MaxCalls : by = Head(queue).by /\ k = Head(queue).k
    BY <2>2 DEF Functors
  <2>4. SendInLoop(Message(by, k), q) /\ calls' = calls /\ call' = call
    BY <1>4, <2>1, <2>3 DEF RunSendInLoop, userVars
  <2>5. Stream' = Stream \/ Stream' = Stream \o Message(by, k)
    BY <2>4, SendFacts
  <2>6. InTurn(q, Stream \o Message(by, k), calls, call)
    BY <1>0, <2>1, <2>2, <2>3, InTurnRun
  <2>7. Whole(Stream \o Message(by, k)) /\ InSendOrder(Stream \o Message(by, k))
    <3>1. Precede(Stream, by, k)
      <4>1. 1 \in 1..Len(queue) /\ queue[1] = Head(queue)
        BY <1>0, <2>1, TailFacts
      <4> QED
        BY <1>0, <2>2, <2>3, <4>1 DEF InTurn
    <3> QED
      BY <1>0, <3>1, StreamGrows
  <2>8. ~(\E t \in Threads : CallPush(t))
    BY <2>4, <1>0, <1>4 DEF CallPush, RunSendInLoop, Running
  <2>9. Message(by, k) \in Seq(Units)
    BY MessageFacts
  <2>10. Stream \o Message(by, k) \in Seq(Units)
    BY <1>0, <2>9, ConcatUnits
  <2>11. InTurn(queue', Stream, calls, call) /\ InTurn(queue', Stream \o Message(by, k), calls, call)
    BY <1>0, <1>2, <1>3, <2>6, <2>8, <2>10
  <2> QED
    BY <1>0, <2>4, <2>5, <2>7, <2>11 DEF SendsInTurn, StreamIntact
<1>5. CASE LoopCall
  <2>1. PICK k : k = calls[Loop] + 1
    OBVIOUS
  <2>2. /\ k \in 0..MaxCalls /\ calls' = [calls EXCEPT ![Loop] = @ + 1] /\ call' = call
    BY <1>0, <1>5, <2>1, ConnAssumption
       DEF LoopCall, LoopSend, LoopShutdown, LoopForceClose, MayLoopCall, Counts
  <2>3. /\ ~RunFunctor /\ ~(\E t \in Threads : CallPush(t))
    <3>1. calls' # calls
      BY <1>0, <2>2 DEF Counts
    <3>2. ASSUME NEW t \in Threads, CallPush(t) PROVE FALSE
      BY <3>1, <3>2 DEF CallPush
    <3>3. RunFunctor => UNCHANGED calls
      BY DEF RunFunctor, ConnectEstablished, ConnectDestroyed, RunSendInLoop, RunShutdownInLoop,
             ForceCloseInLoop, RunUserCallback, userVars
    <3> QED
      BY <3>1, <3>2, <3>3
  <2>4. q = queue /\ InTurn(q, Stream, calls', call)
    <3>1. InTurn(q, Stream, [calls EXCEPT ![Loop] = @ + 1], call)
      BY <1>0, <1>2, InTurnLoop
    <3> QED
      BY <1>1, <2>2, <2>3, <3>1
  <2>5. CASE LoopSend
    <3>1. SendInLoop(Message(Loop, k), q)
      BY <1>5, <2>1, <2>4, <2>5 DEF LoopSend
    <3>2. Stream' = Stream \/ Stream' = Stream \o Message(Loop, k)
      BY <1>0, <2>2, <3>1, SendFacts
    <3>3. Precede(Stream, Loop, k)
      <4>1. \A i \in 1..Len(Stream) : Stream[i].k \in 0..MaxCalls
        BY <1>0, CallersOf
      <4>2. \A i \in 1..Len(Stream) : Made(Stream[i].by, Stream[i].k, calls, call)
        BY <1>0 DEF InTurn
      <4>3. \A i \in 1..Len(Stream) : Stream[i].by = Loop => Stream[i].k <= calls[Loop]
        BY <4>2 DEF Made
      <4>4. calls[Loop] \in Nat
        BY <1>0, ConnAssumption DEF Counts
      <4> QED
        BY <2>1, <4>1, <4>3, <4>4, ConnAssumption DEF Precede
    <3>4. Whole(Stream \o Message(Loop, k)) /\ InSendOrder(Stream \o Message(Loop, k))
      BY <1>0, <2>2, <3>3, StreamGrows
    <3>5. \A i \in 1..Len(q) : q[i].op = "sendInLoop" => q[i].by # Loop
      <4>1. \A i \in 1..Len(q) : q[i] \in Elems(queue)
        BY <2>4 DEF Elems
      <4> QED
        BY <4>1, ConnAssumption DEF Held, IsRaw
    <3>6. Made(Loop, k, calls', call)
      BY <1>0, <2>1, <2>2, ConnAssumption DEF Made, Counts
    <3>7. PICK made : made = calls'
      OBVIOUS
    <3>8. InTurn(q, Stream \o Message(Loop, k), made, call)
      BY <1>0, <2>2, <2>4, <3>5, <3>6, <3>7, InTurnJoins
    <3>9. Message(Loop, k) \in Seq(Units)
      BY <1>0, <2>2, MessageFacts
    <3>10. Stream \o Message(Loop, k) \in Seq(Units)
      BY <1>0, <3>9, ConcatUnits
    <3>11. InTurn(queue', Stream, made, call) /\ InTurn(queue', Stream \o Message(Loop, k), made, call)
      BY <1>0, <1>3, <2>3, <2>4, <3>7, <3>8, <3>10
    <3> QED
      BY <1>0, <2>2, <3>2, <3>4, <3>7, <3>11 DEF SendsInTurn, StreamIntact
  <2>6. CASE ~LoopSend
    <3>1. Stream' = Stream
      BY <1>5, <2>6 DEF LoopCall, LoopShutdown, LoopForceClose, ShutdownInLoop, outVars, Stream
    <3>2. PICK made : made = calls'
      OBVIOUS
    <3>3. InTurn(queue', Stream, made, call)
      BY <1>0, <1>3, <2>3, <2>4, <3>2
    <3> QED
      BY <1>0, <2>2, <3>1, <3>2, <3>3 DEF SendsInTurn, StreamIntact
  <2> QED
    BY <2>5, <2>6
<1>6. CASE \E t \in Threads : ForeignCall(t)
  <2>1. PICK t \in Threads : ForeignCall(t)
    BY <1>6
  <2>2. Stream' = Stream
    BY <2>1 DEF ForeignCall, ForeignStep, CallCheck, CallSet, CallPush, Drop, outVars, Stream
  <2>3. SUFFICES InTurn(queue', Stream, calls', call')
    BY <1>0, <2>2 DEF SendsInTurn, StreamIntact
  <2>4. CASE \E op \in Ops : CallCheck(t, op)
    <3>1. PICK op \in Ops : CallCheck(t, op)
      BY <2>4
    <3>2. /\ call[t] = "none" /\ call' = [call EXCEPT ![t] = op]
          /\ calls' = [calls EXCEPT ![t] = @ + 1] /\ queue' = queue
      BY <3>1 DEF CallCheck
    <3>3. InTurn(queue, Stream, [calls EXCEPT ![t] = @ + 1], [call EXCEPT ![t] = op])
      BY <1>0, <3>2, InTurnCheck
    <3> QED
      BY <3>2, <3>3
  <2>5. CASE CallSet(t)
    <3>1. PICK op : op = IF call[t] = "shutdown" THEN "shutdownInLoop" ELSE "forceCloseInLoop"
      OBVIOUS
    <3>2. /\ call[t] # "none" /\ call' = [call EXCEPT ![t] = op]
          /\ calls' = calls /\ queue' = queue
      BY <2>5, <3>1 DEF CallSet
    <3>3. InTurn(queue, Stream, calls, [call EXCEPT ![t] = op])
      BY <1>0, <3>2, InTurnGoes
    <3> QED
      BY <3>2, <3>3
  <2>6. CASE CallPush(t)
    <3>1. PICK f : f = Functor(IF call[t] = "send" THEN "sendInLoop" ELSE call[t], t, calls[t])
      OBVIOUS
    <3>2. /\ call[t] \in {"send", "shutdownInLoop", "forceCloseInLoop"}
          /\ queue' = Append(queue, f) /\ calls' = calls /\ call' = [call EXCEPT ![t] = "none"]
      BY <2>6, <3>1 DEF CallPush
    <3>3. f \in Functors /\ f.by = t /\ f.k = calls[t]
      BY <1>0, <3>1, <3>2 DEF Functor, Functors, FunctorOps, Counts
    <3>4. call[t] # "none"
      BY <3>2
    <3>5. InTurn(Append(queue, f), Stream, calls, [call EXCEPT ![t] = "none"])
      BY <1>0, <3>3, <3>4, InTurnPush
    <3> QED
      BY <3>2, <3>5
  <2>7. CASE Drop(t)
    BY <1>0, <2>7 DEF Drop
  <2> QED
    BY <2>1, <2>4, <2>5, <2>6, <2>7 DEF ForeignCall, ForeignStep
<1>7. CASE ~RunSendInLoop /\ ~LoopCall /\ ~(\E t \in Threads : ForeignCall(t))
  <2>1. call' = call /\ calls' = calls /\ ~(\E t \in Threads : CallPush(t))
    BY <1>7, OutStep DEF ForeignCall, ForeignStep
  <2>2. Stream' = Stream
    BY <1>7, OutStep, WriteFacts DEF Stream, LoopCall
  <2>3. InTurn(queue', Stream, calls, call)
    BY <1>0, <1>2, <1>3, <2>1
  <2> QED
    BY <1>0, <2>1, <2>2, <2>3 DEF SendsInTurn, StreamIntact
<1> QED
  BY <1>4, <1>5, <1>6, <1>7

-----------------------------------------------------------------------------
(***************************************************************************)
(* The life of a connection, until it ends and with threads that only send *)
(***************************************************************************)

Up == state_ \in {"kConnected", "kDisconnecting"}

\* What is known of a connection whose life is in order.
LEMMA LifeFacts ==
  ASSUME TypeOK, Born, Life
  PROVE  /\ Up => /\ index_ = "KAdded" /\ "read" \in events_ /\ downs = 0 /\ ups = 1
                  /\ inMap /\ baseQueue = <<>> /\ ~Waits(queue, "connectDestroyed")
         /\ state_ = "kDisconnected" => events_ = {} /\ todo \cap {"lock", "close", "read"} = {}
         /\ ~Up /\ state_ # "kDisconnected" => Unborn /\ ups = 0
         /\ AtMostOne(queue, "connectDestroyed")
BY DEF TypeOK, Born, Unborn, Life, Up

\* A step that leaves the end of the connection alone.
LEMMA LifeKept ==
  ASSUME Life,
         state_' = state_ \/ (Up /\ Up'),
         Up => index_' = "KAdded" /\ "read" \in events_',
         state_ = "kDisconnected" =>
           UNCHANGED <<index_, events_>> /\ todo' \cap {"lock", "close", "read"} \subseteq todo,
         UNCHANGED <<downs, inMap, baseQueue>>,
         Waits(queue', "connectDestroyed") <=> Waits(queue, "connectDestroyed"),
         AtMostOne(queue', "connectDestroyed")
  PROVE  Life'
<1>1. state_' \in {"kConnected", "kDisconnecting"} =>
        /\ index_' = "KAdded" /\ "read" \in events_' /\ downs' = 0
        /\ inMap' /\ baseQueue' = <<>> /\ ~Waits(queue', "connectDestroyed")
  BY DEF Life, Up
<1>2. ASSUME state_' = "kDisconnected"
      PROVE  /\ events_' = {} /\ downs' = 1 /\ todo' \cap {"lock", "close", "read"} = {}
             /\ \/ index_' = "KDelete" /\ Ending'
                \/ index_' = "KNew" /\ ~inMap' /\ baseQueue' = <<>> /\ ~Waits(queue', "connectDestroyed")
  <2>1. state_ = "kDisconnected"
    BY <1>2 DEF Up
  <2>2. /\ events_ = {} /\ downs = 1 /\ todo \cap {"lock", "close", "read"} = {}
        /\ \/ index_ = "KDelete" /\ Ending
           \/ index_ = "KNew" /\ ~inMap /\ baseQueue = <<>> /\ ~Waits(queue, "connectDestroyed")
    BY <2>1 DEF Life
  <2>3. Ending => Ending'
    BY DEF Ending
  <2>4. events_' = {} /\ downs' = 1 /\ index_' = index_ /\ todo' \cap {"lock", "close", "read"} = {}
    BY <2>1, <2>2
  <2> QED
    BY <2>2, <2>3, <2>4
<1> QED
  BY <1>1, <1>2 DEF Life

\* handleClose begins the end.
LEMMA CloseLife ==
  ASSUME TypeOK, Born, Life, Up, NEW q \in Seq(Functors), HandleClose(q),
         ~Waits(q, "connectDestroyed"), AtMostOne(q, "connectDestroyed"),
         todo' \cap {"lock", "close", "read"} = {}
  PROVE  Life' /\ BacklogWatched'
<1>1. /\ index_ = "KAdded" /\ downs = 0 /\ inMap /\ baseQueue = <<>>
  BY LifeFacts
<1>2. /\ state_' = "kDisconnected" /\ UpdateChannel({}) /\ downs' = Smaller(downs + 1, 2)
      /\ RemoveConnection(q)
  BY DEF HandleClose
<1>3. events_' = {} /\ index_' = "KDelete" /\ downs' = 1
  BY <1>1, <1>2 DEF UpdateChannel, Smaller
<1>4. Ending' /\ AtMostOne(queue', "connectDestroyed")
  <2>1. CASE use.sameLoop
    <3>1. inMap' = FALSE /\ queue' = Append(q, Destroyed) /\ baseQueue' = <<>>
      BY <1>1, <1>2, <2>1 DEF RemoveConnection
    <3>2. Waits(Append(q, Destroyed), "connectDestroyed") /\ AtMostOne(Append(q, Destroyed), "connectDestroyed")
      BY FunctorTypes, WaitsAppend, AtMostOneAppend
    <3> QED
      BY <3>1, <3>2 DEF Ending
  <2>2. CASE ~use.sameLoop
    <3>1. inMap' = inMap /\ queue' = q /\ baseQueue' = Append(baseQueue, "removeConnectionInLoop")
      BY <1>2, <2>2 DEF RemoveConnection
    <3>2. baseQueue' = <<"removeConnectionInLoop">>
      BY <1>1, <3>1
    <3> QED
      BY <1>1, <3>1, <3>2 DEF Ending
  <2> QED
    BY <2>1, <2>2
<1> QED
  BY <1>2, <1>3, <1>4 DEF Life, BacklogWatched

\* sendInLoop leaves the life alone and watches what it buffers.
LEMMA SendLife ==
  ASSUME TypeOK, Born, Life, BacklogWatched, NEW q \in Seq(Functors), NEW t \in Callers,
         NEW k \in 0..MaxCalls, SendInLoop(Message(t, k), q),
         Waits(q, "connectDestroyed") <=> Waits(queue, "connectDestroyed"),
         AtMostOne(q, "connectDestroyed"),
         UNCHANGED <<state_, downs, inMap, baseQueue, todo>>,
         ups # 0
  PROVE  Life' /\ BacklogWatched'
<1>1. /\ queue' \in {q, Append(q, WriteComplete), Append(q, HighWater)}
      /\ \/ UNCHANGED chanVars
         \/ state_ # "kDisconnected" /\ events_' = events_ \cup {"write"} /\ index_' = "KAdded"
      /\ state_ # "kDisconnected" /\ index_ = "KAdded" /\ BacklogWatched /\ outputBuffer_' # <<>>
              => "write" \in events_' /\ index_' = "KAdded"
  BY SendFacts
<1>2. /\ Waits(queue', "connectDestroyed") <=> Waits(queue, "connectDestroyed")
      /\ AtMostOne(queue', "connectDestroyed")
  <2>1. CASE queue' = q
    BY <2>1
  <2>2. CASE queue' = Append(q, WriteComplete)
    BY <2>2, FunctorTypes, WaitsAppend, AtMostOneAppend
  <2>3. CASE queue' = Append(q, HighWater)
    BY <2>3, FunctorTypes, WaitsAppend, AtMostOneAppend
  <2> QED
    BY <1>1, <2>1, <2>2, <2>3
<1>3. Up \/ state_ = "kDisconnected"
  BY LifeFacts
<1>4. Up => index_ = "KAdded" /\ "read" \in events_
  BY LifeFacts
<1>5. Up => index_' = "KAdded" /\ "read" \in events_'
  BY <1>1, <1>4 DEF chanVars
<1>6. state_ = "kDisconnected" => UNCHANGED <<index_, events_>>
  BY <1>1 DEF chanVars
<1>7. Life'
  BY <1>2, <1>5, <1>6, LifeKept
<1>8. BacklogWatched'
  BY <1>1, <1>3, <1>4 DEF BacklogWatched, isWriting, Up
<1> QED
  BY <1>7, <1>8

\* The connection keeps its life in order in every step, and its output watched.
LEMMA LifeStep ==
  ASSUME TypeOK, Dispatching, Born, Held, Orderly, Life, BacklogWatched, Next
  PROVE  Life' /\ BacklogWatched'
<1> USE DEF chanVars, cbVars, mapVars
<1>0. /\ queue \in Seq(Functors) /\ ups \in 0..1
      /\ Up => /\ index_ = "KAdded" /\ "read" \in events_ /\ downs = 0 /\ ups = 1
               /\ inMap /\ baseQueue = <<>> /\ ~Waits(queue, "connectDestroyed")
      /\ state_ = "kDisconnected" => events_ = {} /\ todo \cap {"lock", "close", "read"} = {}
      /\ ~Up /\ state_ # "kDisconnected" => Unborn /\ ups = 0
      /\ AtMostOne(queue, "connectDestroyed")
  BY LifeFacts DEF TypeOK
<1>1. ASSUME UNCHANGED <<state_, index_, events_, downs, inMap, baseQueue, outputBuffer_>>,
             state_ = "kDisconnected" => todo' \cap {"lock", "close", "read"} \subseteq todo,
             Waits(queue', "connectDestroyed") <=> Waits(queue, "connectDestroyed"),
             AtMostOne(queue', "connectDestroyed")
      PROVE  Life' /\ BacklogWatched'
  <2>1. Life'
    BY <1>0, <1>1, LifeKept
  <2>2. BacklogWatched'
    BY <1>1 DEF BacklogWatched, isWriting
  <2> QED
    BY <2>1, <2>2
<1>2. CASE Poll
  <2>1. state_ = "kDisconnected" => "lock" \notin Due /\ "close" \notin Due /\ "read" \notin Due
    <3>1. SUFFICES ASSUME state_ = "kDisconnected" PROVE Reported = {}
      BY DEF Due
    <3>2. events_ = {} /\ index_ # "KAdded"
      BY <3>1 DEF Life
    <3> QED
      BY <3>2 DEF Reported
  <2>2. UNCHANGED <<state_, index_, events_, downs, inMap, baseQueue, outputBuffer_, queue>> /\ todo' = Due
    BY <1>2 DEF Poll, outVars
  <2> QED
    BY <1>0, <1>1, <2>1, <2>2
<1>3. CASE LockTie \/ UnlockTie \/ HandleError \/ SwapPending \/ EndBatch \/ RunDangling \/ Network
  <2>1. /\ UNCHANGED <<state_, index_, events_, downs, inMap, baseQueue, outputBuffer_, queue>>
        /\ todo' \subseteq todo
    BY <1>3 DEF LockTie, UnlockTie, HandleError, SwapPending, EndBatch, RunDangling, Network, PeerSend, PeerClose,
                PeerReset, Drain, netUnchanged, outVars, loopVars
  <2> QED
    BY <1>0, <1>1, <2>1
<1>4. ASSUME HandleClose(queue), Callback, "close" \in todo \/ "read" \in todo,
             "close" \notin todo' /\ "read" \notin todo'
      PROVE  Life' /\ BacklogWatched'
  <2>1. Up
    BY <1>0, <1>4 DEF Unborn
  <2>2. todo' \cap {"lock", "close", "read"} = {}
    <3>1. "lock" \notin todo /\ todo' \subseteq todo
      BY <1>4, CallbackTodo
    <3> QED
      BY <1>4, <3>1
  <2> QED
    BY <1>0, <1>4, <2>1, <2>2, CloseLife
<1>5. CASE CloseCallback
  BY <1>4, <1>5 DEF CloseCallback, Callback, Calling, Dispatching
<1>6. CASE HandleRead
  <2>1. "read" \in todo /\ todo' = todo \ {"read"}
    BY <1>6 DEF HandleRead, Calling
  <2>2. CASE HandleClose(queue)
    BY <1>4, <1>6, <2>1, <2>2 DEF Callback, Dispatching
  <2>3. CASE ~HandleClose(queue)
    <3>1. UNCHANGED <<state_, index_, events_, downs, inMap, baseQueue, outputBuffer_, queue>>
      BY <1>6, <2>3 DEF HandleRead, outVars
    <3> QED
      BY <1>0, <1>1, <2>1, <3>1
  <2> QED
    BY <2>2, <2>3
<1>7. CASE HandleWrite
  <2>1. UNCHANGED <<state_, downs, inMap, baseQueue>> /\ todo' \subseteq todo /\ todo # {}
    BY <1>7 DEF HandleWrite, Calling
  <2>2. /\ queue' \in {queue, Append(queue, WriteComplete)}
        /\ \/ UNCHANGED <<outputBuffer_, events_, index_, fin>>
           \/ UNCHANGED <<events_, index_, fin>> /\ isWriting
           \/ /\ isWriting /\ outputBuffer_' = <<>>
              /\ events_' = events_ \ {"write"} /\ index_' \in {"KAdded", "KDelete"}
              /\ events_' # {} => index_' = "KAdded"
    BY <1>7, WriteFacts
  <2>3. /\ Waits(queue', "connectDestroyed") <=> Waits(queue, "connectDestroyed")
        /\ AtMostOne(queue', "connectDestroyed")
    <3>1. CASE queue' = queue
      BY <1>0, <3>1
    <3>2. CASE queue' = Append(queue, WriteComplete)
      BY <1>0, <3>2, FunctorTypes, WaitsAppend, AtMostOneAppend
    <3> QED
      BY <2>2, <3>1, <3>2
  <2>4. Up \/ state_ = "kDisconnected"
    BY <1>0, <2>1 DEF Unborn
  <2>5. Up => index_' = "KAdded" /\ "read" \in events_'
    BY <1>0, <2>2
  <2>6. state_ = "kDisconnected" => UNCHANGED <<index_, events_>>
    BY <1>0, <2>2 DEF isWriting
  <2>7. Life'
    BY <2>1, <2>3, <2>5, <2>6, LifeKept
  <2>8. BacklogWatched'
    BY <1>0, <2>1, <2>2, <2>4 DEF BacklogWatched, isWriting
  <2> QED
    BY <2>7, <2>8
<1>8. CASE ConnectEstablished
  <2>1. ups = 0 /\ Unborn
    BY <1>8, RunningFacts, WaitsTail DEF TypeOK, Born, ConnectEstablished
  <2>2. queue' = <<>>
    BY <1>8, <2>1 DEF ConnectEstablished, Unborn
  <2>3. /\ state_' = "kConnected" /\ index_' = "KAdded" /\ "read" \in events_' /\ downs' = 0
        /\ inMap' /\ baseQueue' = <<>> /\ outputBuffer_' = <<>>
    BY <1>8, <2>1 DEF ConnectEstablished, Unborn, UpdateChannel, outVars
  <2> QED
    BY <2>2, <2>3 DEF Life, BacklogWatched, Waits, AtMostOne
<1>9. CASE ConnectDestroyed
  <2>1. /\ queue # <<>> /\ Head(queue).op = "connectDestroyed" /\ todo = {} /\ todo' = todo
        /\ queue' = Tail(queue) /\ index_' = "KNew" /\ UNCHANGED <<inMap, baseQueue, outputBuffer_>>
    BY <1>9, RunningFacts DEF ConnectDestroyed, Dispatching, outVars
  <2>2. Waits(queue, "connectDestroyed")
    BY <1>0, <2>1, WaitsTail
  <2>3. state_ = "kDisconnected"
    <3>1. ~Up
      BY <1>0, <2>2
    <3>2. ~Unborn
      <4>1. ASSUME queue = <<Established>> PROVE FALSE
        BY <2>1, <4>1, FunctorTypes
      <4> QED
        BY <4>1 DEF Unborn
    <3> QED
      BY <1>0, <3>1, <3>2
  <2>4. events_ = {} /\ downs = 1 /\ ~inMap /\ baseQueue = <<>>
    BY <2>2, <2>3 DEF Life, Ending
  <2>5. UNCHANGED <<state_, events_, downs>>
    BY <1>9, <2>3 DEF ConnectDestroyed
  <2>6. ~Waits(queue', "connectDestroyed") /\ AtMostOne(queue', "connectDestroyed")
    BY <1>0, <2>1, AtMostOneTail
  <2> QED
    BY <2>1, <2>3, <2>4, <2>5, <2>6 DEF Life, BacklogWatched
<1>10. CASE RunSendInLoop
  <2>1. /\ queue # <<>> /\ Head(queue) \in Functors /\ Head(queue).op = "sendInLoop"
        /\ Tail(queue) \in Seq(Functors) /\ todo' = todo
    BY <1>10, RunningFacts DEF RunSendInLoop
  <2>2. Head(queue).by \in Callers /\ Head(queue).k \in 0..MaxCalls
    BY <2>1 DEF Functors
  <2>3. /\ SendInLoop(Message(Head(queue).by, Head(queue).k), Tail(queue))
        /\ UNCHANGED <<state_, downs, inMap, baseQueue>>
    BY <1>10 DEF RunSendInLoop
  <2>4. /\ Waits(Tail(queue), "connectDestroyed") <=> Waits(queue, "connectDestroyed")
        /\ AtMostOne(Tail(queue), "connectDestroyed")
    BY <1>0, <2>1, WaitsTail, AtMostOneTail
  <2>5. ups # 0
    <3>1. ASSUME queue = <<Established>> PROVE FALSE
      BY <2>1, <3>1, FunctorTypes
    <3> QED
      BY <3>1 DEF Born, Unborn
  <2> QED
    BY <2>1, <2>2, <2>3, <2>4, <2>5, SendLife
<1>11. ASSUME NEW op, op # "connectDestroyed", Running(op), queue' = Tail(queue),
              UNCHANGED <<state_, index_, events_, downs, inMap, baseQueue, outputBuffer_>>
       PROVE  Life' /\ BacklogWatched'
  <2>1. queue # <<>> /\ Head(queue).op = op /\ todo' = todo
    BY <1>11, RunningFacts
  <2>2. /\ Waits(queue', "connectDestroyed") <=> Waits(queue, "connectDestroyed")
        /\ AtMostOne(queue', "connectDestroyed")
    BY <1>0, <1>11, <2>1, WaitsTail, AtMostOneTail
  <2> QED
    BY <1>1, <1>11, <2>1, <2>2
<1>12. CASE RunShutdownInLoop
  BY <1>11, <1>12 DEF RunShutdownInLoop, ShutdownInLoop
<1>13. CASE ForceCloseInLoop
  <2>1. CASE state_ \in {"kConnected", "kDisconnecting"}
    <3>1. /\ queue # <<>> /\ Head(queue).op = "forceCloseInLoop" /\ Tail(queue) \in Seq(Functors)
          /\ phase = "functors" /\ todo' = todo
      BY <1>13, RunningFacts DEF ForceCloseInLoop
    <3>2. todo' = {}
      BY <3>1 DEF Dispatching
    <3>3. ~Waits(Tail(queue), "connectDestroyed") /\ AtMostOne(Tail(queue), "connectDestroyed")
      BY <1>0, <2>1, <3>1, WaitsTail, AtMostOneTail DEF Up
    <3>4. HandleClose(Tail(queue))
      BY <1>13, <2>1 DEF ForceCloseInLoop
    <3> QED
      BY <2>1, <3>1, <3>2, <3>3, <3>4, CloseLife DEF Up
  <2>2. CASE state_ \notin {"kConnected", "kDisconnecting"}
    BY <1>11, <1>13, <2>2 DEF ForceCloseInLoop, outVars
  <2> QED
    BY <2>1, <2>2
<1>14. CASE RunUserCallback
  BY <1>11, <1>14 DEF RunUserCallback, outVars
<1>15. CASE LoopSend
  <2>1. Loop \in Callers /\ calls[Loop] + 1 \in 0..MaxCalls
    BY <1>15, ConnAssumption DEF TypeOK, LoopSend, MayLoopCall, Callers
  <2>2. /\ SendInLoop(Message(Loop, calls[Loop] + 1), queue) /\ ups # 0
        /\ UNCHANGED <<state_, downs, inMap, baseQueue, todo>>
    BY <1>15 DEF LoopSend, MayLoopCall, loopVars
  <2> QED
    BY <1>0, <2>1, <2>2, SendLife
<1>16. CASE LoopShutdown
  <2>1. /\ Up /\ state_' = "kDisconnecting"
        /\ UNCHANGED <<index_, events_, downs, inMap, baseQueue, outputBuffer_, queue, todo>>
    BY <1>16 DEF LoopShutdown, ShutdownInLoop, loopVars, Up
  <2>2. Life'
    BY <1>0, <2>1, LifeKept DEF Up
  <2>3. BacklogWatched'
    BY <2>1 DEF BacklogWatched, isWriting, Up
  <2> QED
    BY <2>2, <2>3
<1>17. CASE LoopForceClose
  <2>1. PICK f : f = Functor("forceCloseInLoop", Loop, 0)
    OBVIOUS
  <2>2. /\ Up /\ state_' = "kDisconnecting" /\ queue' = Append(queue, f)
        /\ UNCHANGED <<index_, events_, downs, inMap, baseQueue, outputBuffer_, todo>>
    BY <1>17, <2>1 DEF LoopForceClose, loopVars, outVars, Up
  <2>3. f \in Functors /\ f.op # "connectDestroyed"
    BY <2>1, FunctorTypes DEF Functor
  <2>4. /\ Waits(queue', "connectDestroyed") <=> Waits(queue, "connectDestroyed")
        /\ AtMostOne(queue', "connectDestroyed")
    BY <1>0, <2>2, <2>3, WaitsAppend, AtMostOneAppend
  <2>5. Life'
    BY <1>0, <2>2, <2>4, LifeKept DEF Up
  <2>6. BacklogWatched'
    BY <2>2 DEF BacklogWatched, isWriting, Up
  <2> QED
    BY <2>5, <2>6
<1>18. CASE RemoveConnectionInLoop
  <2>1. /\ baseQueue # <<>> /\ baseQueue' = Tail(baseQueue) /\ inMap' = FALSE
        /\ queue' = Append(queue, Destroyed)
        /\ UNCHANGED <<state_, index_, events_, downs, outputBuffer_, todo>>
    BY <1>18 DEF RemoveConnectionInLoop, outVars, loopVars
  <2>2. state_ = "kDisconnected"
    BY <1>0, <2>1 DEF Unborn
  <2>3. /\ events_ = {} /\ downs = 1 /\ todo \cap {"lock", "close", "read"} = {}
        /\ index_ = "KDelete" /\ baseQueue = <<"removeConnectionInLoop">>
        /\ ~Waits(queue, "connectDestroyed")
    BY <2>1, <2>2 DEF Life, Ending
  <2>4. baseQueue' = <<>>
    BY <2>1, <2>3
  <2>5. Waits(queue', "connectDestroyed") /\ AtMostOne(queue', "connectDestroyed")
    BY <1>0, <2>1, <2>3, FunctorTypes, WaitsAppend, AtMostOneAppend
  <2> QED
    BY <2>1, <2>2, <2>3, <2>4, <2>5 DEF Life, Ending, BacklogWatched
<1>19. CASE \E t \in Threads : ForeignCall(t)
  <2>1. PICK t \in Threads : ForeignCall(t)
    BY <1>19
  <2>2. CASE CallPush(t)
    <3>1. PICK f : f = Functor(IF call[t] = "send" THEN "sendInLoop" ELSE call[t], t, calls[t])
      OBVIOUS
    <3>2. /\ queue' = Append(queue, f) /\ call[t] \in {"send", "shutdownInLoop", "forceCloseInLoop"}
          /\ UNCHANGED <<state_, index_, events_, downs, inMap, baseQueue, outputBuffer_, todo>>
      BY <2>2, <3>1 DEF CallPush, outVars, loopVars
    <3>3. calls[t] \in 0..MaxCalls /\ t \in Callers
      BY DEF TypeOK, Callers
    <3>4. f \in Functors /\ f.op # "connectDestroyed"
      BY <3>1, <3>2, <3>3 DEF Functor, Functors, FunctorOps
    <3>5. /\ Waits(queue', "connectDestroyed") <=> Waits(queue, "connectDestroyed")
          /\ AtMostOne(queue', "connectDestroyed")
      BY <1>0, <3>2, <3>4, WaitsAppend, AtMostOneAppend
    <3> QED
      BY <1>1, <3>2, <3>5
  <2>3. CASE CallSet(t)
    <3>1. /\ call[t] \in {"shutdown", "forceClose"} /\ state_' = "kDisconnecting"
          /\ UNCHANGED <<index_, events_, downs, inMap, baseQueue, outputBuffer_, queue, todo>>
      BY <2>3 DEF CallSet, outVars, loopVars
    <3>2. downs = 0
      BY <3>1 DEF Held, Orderly
    <3>3. holds[t]
      BY <3>1 DEF Held
    <3>4. Up
      BY <1>0, <3>2, <3>3 DEF Life, Unborn
    <3>5. Life'
      BY <1>0, <3>1, <3>4, LifeKept DEF Up
    <3>6. BacklogWatched'
      BY <3>1, <3>4 DEF BacklogWatched, isWriting, Up
    <3> QED
      BY <3>5, <3>6
  <2>4. CASE ~CallPush(t) /\ ~CallSet(t)
    <3>1. UNCHANGED <<state_, index_, events_, downs, inMap, baseQueue, outputBuffer_, queue, todo>>
      BY <2>1, <2>4 DEF ForeignCall, ForeignStep, CallCheck, Drop, outVars, loopVars
    <3> QED
      BY <1>0, <1>1, <3>1
  <2> QED
    BY <2>2, <2>3, <2>4
<1> QED
  BY <1>2, <1>3, <1>5, <1>6, <1>7, <1>8, <1>9, <1>10, <1>12, <1>13, <1>14, <1>15, <1>16, <1>17,
     <1>18, <1>19, NextCases DEF Callback, RunFunctor, LoopCall

-----------------------------------------------------------------------------
(***************************************************************************)
(* Theorems                                                                *)
(***************************************************************************)

\* A connection that TcpServer::newConnection has just made is in order.
LEMMA ConnInvInit == Init => ConnInv
<1> SUFFICES ASSUME Init PROVE ConnInv
  OBVIOUS
<1>0. Loop \in Callers /\ MaxCalls \in Nat /\ MaxRx \in Nat /\ MaxRoom \in Nat
  BY ConnAssumption DEF Callers
<1>1. /\ todo = {} /\ guard = FALSE /\ batch = 0 /\ batchHolds = FALSE /\ baseQueue = <<>> /\ inMap = TRUE
      /\ call = [t \in Threads |-> "none"] /\ calls = [t \in Callers |-> 0]
      /\ peer = "open" /\ rx = 0 /\ err = FALSE /\ room = MaxRoom /\ fin = FALSE /\ lateWrite = FALSE
      /\ wire = <<>> /\ outputBuffer_ = <<>> /\ downs = 0 /\ use \in Uses
  BY DEF Init
<1>2. \/ /\ state_ = "kConnected" /\ index_ = "KAdded" /\ events_ = {"read"}
         /\ ups = 1 /\ holds = [t \in Threads |-> TRUE] /\ phase = "dispatch" /\ queue = <<>>
      \/ /\ state_ = "kConnecting" /\ index_ = "KNew" /\ events_ = {}
         /\ ups = 0 /\ holds = [t \in Threads |-> FALSE] /\ phase = "poll" /\ queue = <<Established>>
  BY DEF Init
<1>3. queue \in Seq(Functors) /\ batch \in 0..Len(queue)
  <2>1. Established \in Functors /\ <<Established>> \in Seq(Functors) /\ <<>> \in Seq(Functors)
    <3>1. Established \in Functors
      BY FunctorTypes
    <3> QED
      BY <3>1
  <2>2. queue \in Seq(Functors)
    BY <1>2, <2>1
  <2>3. Len(queue) \in Nat
    BY <2>2
  <2> QED
    BY <1>1, <2>2, <2>3
<1>4. TypeOK
  <2>1. /\ wire \in Seq(Units) /\ outputBuffer_ \in Seq(Units)
        /\ baseQueue \in Seq({"removeConnectionInLoop"})
    BY <1>1
  <2>2. /\ calls \in [Callers -> 0..MaxCalls] /\ holds \in [Threads -> BOOLEAN]
        /\ call \in [Threads -> Ops \cup {"none", "shutdownInLoop", "forceCloseInLoop"}]
    <3>1. holds = [t \in Threads |-> TRUE] \/ holds = [t \in Threads |-> FALSE]
      BY <1>2
    <3>2. holds \in [Threads -> BOOLEAN]
      BY <3>1, Zenon
    <3>3. calls \in [Callers -> 0..MaxCalls]
      BY <1>0, <1>1
    <3>4. call \in [Threads -> Ops \cup {"none", "shutdownInLoop", "forceCloseInLoop"}]
      BY <1>1
    <3> QED
      BY <3>2, <3>3, <3>4
  <2>3. rx \in 0..MaxRx /\ room \in 0..MaxRoom /\ ups \in 0..1 /\ downs \in 0..2
    BY <1>0, <1>1, <1>2
  <2> QED
    BY <1>1, <1>2, <1>3, <2>1, <2>2, <2>3 DEF TypeOK
<1>5. \A i \in 1..Len(queue) : queue[i] = Established
  BY <1>2
<1>6. \A op : Waits(queue, op) => op = "connectEstablished"
  BY <1>5, FunctorTypes DEF Waits
<1>7. Dispatching /\ Quiet
  BY <1>1 DEF Dispatching, Quiet
<1>8. Born
  <2>1. ups # 0 => queue = <<>>
    BY <1>2
  <2>2. ups # 0 => ~Waits(queue, "connectEstablished")
    BY <2>1 DEF Waits
  <2> QED
    BY <1>1, <1>2, <2>2 DEF Born, Unborn
<1>9. Held
  <2>1. \A fn \in Elems(queue) : ~IsRaw(fn)
    BY <1>5, FunctorTypes DEF Elems
  <2> QED
    BY <1>1, <1>6, <2>1 DEF Held
<1>10. Stream = <<>>
  BY <1>1, ConcatUnits DEF Stream
<1>11. SendsInTurn /\ StreamIntact
  BY <1>5, <1>10, FunctorTypes DEF SendsInTurn, InTurn, StreamIntact, Whole, InSendOrder, Precede
<1>12. Life /\ BacklogWatched
  BY <1>1, <1>2, <1>6 DEF Life, BacklogWatched, AtMostOne
<1> QED
  BY <1>4, <1>7, <1>8, <1>9, <1>11, <1>12 DEF ConnInv

\* A down callback is not taken back.
LEMMA DownsStep ==
  ASSUME TypeOK, Next
  PROVE  downs' = downs \/ downs' # 0
<1> USE DEF cbVars
<1>0. Smaller(downs + 1, 2) # 0
  BY DEF TypeOK, Smaller
<1>1. CASE Poll \/ LockTie \/ UnlockTie \/ SwapPending \/ EndBatch \/ RunDangling \/ RemoveConnectionInLoop \/ Network
  BY <1>1 DEF Poll, LockTie, UnlockTie, SwapPending, EndBatch, RunDangling, RemoveConnectionInLoop,
              Network, PeerSend, PeerClose, PeerReset, Drain, netUnchanged
<1>2. CASE Callback
  BY <1>0, <1>2 DEF Callback, CloseCallback, HandleError, HandleRead, HandleWrite, HandleClose
<1>3. CASE RunFunctor
  BY <1>0, <1>3 DEF RunFunctor, ConnectEstablished, ConnectDestroyed, RunSendInLoop, RunShutdownInLoop,
                    ForceCloseInLoop, RunUserCallback, HandleClose
<1>4. CASE LoopCall \/ (\E t \in Threads : ForeignCall(t))
  BY <1>4 DEF LoopCall, LoopSend, LoopShutdown, LoopForceClose, ForeignCall, ForeignStep,
              CallCheck, CallSet, CallPush, Drop
<1> QED
  BY <1>1, <1>2, <1>3, <1>4, NextCases

\* Every step keeps a connection in order.
LEMMA ConnInvNext == ConnInv /\ [Next]_vars => ConnInv'
<1> SUFFICES ASSUME ConnInv, [Next]_vars PROVE ConnInv'
  OBVIOUS
<1>0. /\ TypeOK /\ Dispatching /\ Born /\ Held /\ Quiet /\ SendsInTurn /\ StreamIntact
      /\ Orderly => Life /\ BacklogWatched
  BY DEF ConnInv
<1>1. CASE Next
  <2>1. TypeOK' /\ Dispatching' /\ Born' /\ Held' /\ Quiet' /\ SendsInTurn' /\ StreamIntact'
    BY <1>0, <1>1, TypeStep, DispatchingStep, BornStep, HeldStep, QuietStep, StreamStep
  <2>2. Orderly' => Orderly
    BY <1>0, <1>1, UserStep, DownsStep DEF Orderly, OnlySends
  <2>3. Orderly => Life' /\ BacklogWatched'
    BY <1>0, <1>1, LifeStep
  <2> QED
    BY <2>1, <2>2, <2>3 DEF ConnInv
<1>2. CASE UNCHANGED vars
  BY <1>0, <1>2
     DEF vars, chanVars, outVars, loopVars, mapVars, userVars, sockVars, cbVars, ConnInv, TypeOK,
         Dispatching, Born, Unborn, Held, Quiet, SendsInTurn, StreamIntact, Stream, Orderly, OnlySends, Life,
         Ending, BacklogWatched, isWriting
<1> QED
  BY <1>1, <1>2

\* The order of a connection is invariant (TcpConnection.cc): callbacks of a
\* channel are made between lock and unlock, a connection is registered and in
\* connections_ and has its waiting output watched while it is up, and with threads
\* that only send it ends once.
THEOREM ConnectionInvariant == Spec => []ConnInv
<1> QED
  BY ConnInvInit, ConnInvNext, PTL DEF Spec

\* The peer gets whole messages, in order, whatever any thread calls
\* (TcpConnection.cc:210-271, 144-178).
THEOREM StreamWhole == Spec => []StreamIntact
<1>1. ConnInv => StreamIntact
  BY DEF ConnInv
<1> QED
  BY <1>1, ConnectionInvariant, PTL

\* The application hears of one end (TcpConnection.cc:117, 188).
THEOREM EndsOnce == Spec => []OneDown
<1>1. ConnInv => OneDown
  <2> SUFFICES ASSUME ConnInv, OnlySends PROVE downs <= 1
    BY DEF OneDown, DownOnce
  <2>1. TypeOK /\ Born /\ Life
    BY DEF ConnInv, Orderly
  <2>2. downs = 0 \/ downs = 1
    BY <2>1, LifeFacts DEF Life, Unborn
  <2> QED
    BY <2>2
<1> QED
  BY <1>1, ConnectionInvariant, PTL

\* A callback that handleEvent still makes and the poller's entry for channel_ have
\* their connection alive (Channel.cc:31; TcpServer.cc:121-125): until the
\* connection ends whatever the other threads call, and with threads that only
\* send for good.  Nothing of the kind is true of the functors of send() and
\* shutdown() (TcpConnection.cc:79, 93).
THEOREM NeverUsedAfterFree == Spec => []NoUseAfterFree
<1>1. ConnInv => NoUseAfterFree
  <2> SUFFICES ASSUME ConnInv, Orderly, todo # {} \/ index_ # "KNew"
               PROVE  Alive
    BY DEF NoUseAfterFree
  <2>0. TypeOK /\ Dispatching /\ Born /\ Life /\ queue \in Seq(Functors)
    BY DEF ConnInv, TypeOK
  <2>2. CASE index_ # "KNew"
    <3>1. CASE inMap \/ baseQueue # <<>>
      BY <3>1 DEF Alive
    <3>2. CASE ~inMap /\ baseQueue = <<>>
      <4>1. Waits(queue, "connectDestroyed")
        BY <2>0, <2>2, <3>2, LifeFacts DEF Life, Ending, Up, Unborn
      <4>2. PICK fn \in Elems(queue) : fn.op = "connectDestroyed"
        BY <2>0, <4>1, WaitsElems
      <4> QED
        BY <4>2 DEF Alive, IsRaw
    <3> QED
      BY <3>1, <3>2
  <2>3. CASE todo # {}
    <3>1. CASE "lock" \in todo
      <4>1. Up
        BY <2>0, <3>1, LifeFacts DEF Unborn
      <4>2. inMap
        BY <2>0, <4>1, LifeFacts
      <4> QED
        BY <4>2 DEF Alive
    <3>2. CASE "lock" \notin todo
      BY <2>0, <2>3, <3>2 DEF Dispatching, Alive
    <3> QED
      BY <3>1, <3>2
  <2> QED
    BY <2>2, <2>3
<1> QED
  BY <1>1, ConnectionInvariant, PTL

\* A shutdown cuts off nothing that waits (TcpConnection.cc:275, 163-166).
THEOREM ShutsDownFlushed == Spec => FinAfterFlush
<1>1. ASSUME ConnInv, [Next]_vars, Orderly, ~fin, fin'
      PROVE  outputBuffer_' = <<>>
  <2>0. /\ TypeOK /\ Born /\ Held /\ Life /\ BacklogWatched
    BY <1>1 DEF ConnInv
  <2>1. Next
    BY <1>1 DEF vars, outVars
  <2>2. CASE HandleWrite
    BY <1>1, <2>0, <2>2, WriteFacts
  <2>3. CASE RunShutdownInLoop
    <3>1. queue \in Seq(Functors) /\ queue # <<>> /\ Head(queue).op = "shutdownInLoop"
      BY <2>0, <2>3, RunningFacts DEF RunShutdownInLoop, TypeOK
    <3>2. ~OnlySends
      BY <2>0, <3>1, WaitsTail DEF Held
    <3>3. state_ # "kDisconnected"
      BY <1>1, <2>0, <3>2 DEF Orderly, Life
    <3>4. ~isWriting /\ outputBuffer_' = outputBuffer_
      BY <1>1, <2>3 DEF RunShutdownInLoop, ShutdownInLoop
    <3> QED
      BY <2>0, <3>3, <3>4 DEF BacklogWatched
  <2>4. CASE LoopShutdown
    <3>1. state_ = "kConnected" /\ ~isWriting /\ outputBuffer_' = outputBuffer_
      BY <1>1, <2>4 DEF LoopShutdown, ShutdownInLoop
    <3> QED
      BY <2>0, <3>1 DEF BacklogWatched
  <2>5. CASE ~HandleWrite /\ ~RunShutdownInLoop /\ ~LoopShutdown
    <3>1. fin' = fin
      <4> USE DEF outVars
      <4>1. CASE Poll \/ LockTie \/ UnlockTie \/ SwapPending \/ EndBatch \/ RunDangling \/ RemoveConnectionInLoop \/ Network
        BY <4>1 DEF Poll, LockTie, UnlockTie, SwapPending, EndBatch, RunDangling, RemoveConnectionInLoop,
                    Network, PeerSend, PeerClose, PeerReset, Drain, netUnchanged
      <4>2. CASE Callback
        BY <2>5, <4>2 DEF Callback, CloseCallback, HandleError, HandleRead, HandleClose
      <4>3. CASE RunFunctor
        BY <2>5, <4>3 DEF RunFunctor, ConnectEstablished, ConnectDestroyed, RunSendInLoop,
                          ForceCloseInLoop, RunUserCallback, HandleClose, SendInLoop
      <4>4. CASE LoopCall
        BY <2>5, <4>4 DEF LoopCall, LoopSend, LoopForceClose, SendInLoop
      <4>5. CASE \E t \in Threads : ForeignCall(t)
        BY <4>5 DEF ForeignCall, ForeignStep, CallCheck, CallSet, CallPush, Drop
      <4> QED
        BY <2>1, <4>1, <4>2, <4>3, <4>4, <4>5, NextCases
    <3> QED
      BY <1>1, <3>1
  <2> QED
    BY <2>2, <2>3, <2>4, <2>5
<1>2. ConnInv /\ [Next]_vars => ((Orderly /\ ~fin /\ fin') => outputBuffer_' = <<>>)
  BY <1>1
<1> QED
  BY <1>2, ConnectionInvariant, PTL DEF Spec, FinAfterFlush

\* No message callback comes after the down callback (TcpConnection.cc:130).
THEOREM QuietAfterEnd == Spec => QuietAfterDown
<1>1. ASSUME ConnInv, [Next]_vars, rx' < rx
      PROVE  downs = 0
  <2>0. TypeOK /\ Quiet /\ rx \in Nat
    BY <1>1, ConnAssumption DEF ConnInv, TypeOK
  <2>1. Next /\ rx' # rx
    BY <1>1, <2>0 DEF vars, sockVars
  <2>2. HandleRead
    <3> USE DEF sockVars
    <3>1. CASE Poll \/ LockTie \/ UnlockTie \/ SwapPending \/ EndBatch \/ RunDangling \/ RemoveConnectionInLoop
      BY <2>1, <3>1 DEF Poll, LockTie, UnlockTie, SwapPending, EndBatch, RunDangling, RemoveConnectionInLoop
    <3>2. CASE Callback
      BY <2>1, <3>2 DEF Callback, CloseCallback, HandleError, HandleWrite
    <3>3. CASE RunFunctor
      BY <2>1, <3>3 DEF RunFunctor, ConnectEstablished, ConnectDestroyed, RunSendInLoop, RunShutdownInLoop,
                        ForceCloseInLoop, RunUserCallback
    <3>4. CASE LoopCall \/ (\E t \in Threads : ForeignCall(t))
      BY <2>1, <3>4 DEF LoopCall, LoopSend, LoopShutdown, LoopForceClose, ForeignCall, ForeignStep,
                        CallCheck, CallSet, CallPush, Drop
    <3>5. CASE Network
      BY <1>1, <2>0, <3>5 DEF Network, PeerSend, PeerClose, PeerReset, Drain
    <3> QED
      BY <2>1, <3>1, <3>2, <3>3, <3>4, <3>5, NextCases
  <2>3. "read" \in todo
    BY <2>2 DEF HandleRead, Calling
  <2> QED
    BY <2>0, <2>3 DEF Quiet, TypeOK
<1>2. ConnInv /\ [Next]_vars => (rx' < rx => downs = 0)
  BY <1>1
<1> QED
  BY <1>2, ConnectionInvariant, PTL DEF Spec, QuietAfterDown

=============================================================================
