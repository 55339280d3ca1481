---------------------------- MODULE BufferProofs ----------------------------
(***************************************************************************)
(* For any kCheapPrepend, initial size and extrabuf size: the indices stay *)
(* ordered and inside the vector, and Buffer implements ByteQueue.         *)
(***************************************************************************)
EXTENDS Buffer, SequenceTheorems, TLAPS

\* A state Buffer may be in, as a value.
Valid(s) ==
  /\ s.buf \in Seq(Bytes) /\ s.r \in Nat /\ s.w \in Nat
  /\ kCheapPrepend <= s.r /\ s.r <= s.w /\ s.w <= Len(s.buf)

States == [buf : Seq(Bytes), r : Nat, w : Nat]

\* std::copy keeps the vector's size and changes the bytes it covers.
LEMMA CopyToFacts ==
  ASSUME NEW buf \in Seq(Bytes), NEW at \in Nat, NEW data \in Seq(Bytes)
  PROVE  /\ CopyTo(buf, at, data) \in Seq(Bytes)
         /\ Len(CopyTo(buf, at, data)) = Len(buf)
         /\ \A i \in 1..Len(buf) :
              CopyTo(buf, at, data)[i] =
                IF at < i /\ i <= at + Len(data) THEN data[i - at] ELSE buf[i]
  <1>1. Len(buf) \in Nat /\ Len(data) \in Nat
    OBVIOUS
  <1>2. \A i \in 1..Len(buf) :
          (IF at < i /\ i <= at + Len(data) THEN data[i - at] ELSE buf[i]) \in Bytes
    <2> SUFFICES ASSUME NEW i \in 1..Len(buf), at < i /\ i <= at + Len(data)
                 PROVE  data[i - at] \in Bytes
      BY <1>1
    <2>1. i - at \in 1..Len(data)
      BY <1>1
    <2> QED
      BY <2>1
  <1> QED
    BY <1>1, <1>2 DEF CopyTo

\* resize keeps the old bytes.
LEMMA ResizeFacts ==
  ASSUME NEW buf \in Seq(Bytes), NEW n \in Nat
  PROVE  /\ Resize(buf, n) \in Seq(Bytes)
         /\ Len(Resize(buf, n)) = n
         /\ \A i \in 1..n : i <= Len(buf) => Resize(buf, n)[i] = buf[i]
  <1>1. \A i \in 1..n : (IF i <= Len(buf) THEN buf[i] ELSE Zero) \in Bytes
    BY BufferAssumption
  <1> QED
    BY <1>1 DEF Resize

\* Length and elements of the readable bytes.
LEMMA ContentFacts ==
  ASSUME NEW s \in States, Valid(s)
  PROVE  /\ Content(s) \in Seq(Bytes)
         /\ Len(Content(s)) = s.w - s.r
         /\ \A i \in 1..(s.w - s.r) : Content(s)[i] = s.buf[s.r + i]
  BY SubSeqProperties DEF Content, Valid, States

\* Two sequences with the same length and elements are equal.
LEMMA SeqExt ==
  ASSUME NEW a \in Seq(Bytes), NEW b \in Seq(Bytes), Len(a) = Len(b),
         \A i \in 1..Len(a) : a[i] = b[i]
  PROVE  a = b
  OBVIOUS

\* The readable bytes are determined by their number and by the bytes from the
\* reader index on.
LEMMA SameContent ==
  ASSUME NEW s \in States, Valid(s), NEW e \in States, Valid(e),
         e.w - e.r = s.w - s.r,
         \A i \in 1..(s.w - s.r) : e.buf[e.r + i] = s.buf[s.r + i]
  PROVE  Content(e) = Content(s)
  <1> DEFINE a == Content(e)
             b == Content(s)
             n == s.w - s.r
  <1>1. a \in Seq(Bytes) /\ Len(a) = n /\ \A i \in 1..n : a[i] = e.buf[e.r + i]
    BY ContentFacts
  <1>2. b \in Seq(Bytes) /\ Len(b) = n /\ \A i \in 1..n : b[i] = s.buf[s.r + i]
    BY ContentFacts
  <1>3. \A i \in 1..n : a[i] = b[i]
    BY <1>1, <1>2
  <1> HIDE DEF a, b, n
  <1>4. a = b
    BY <1>1, <1>2, <1>3, SeqExt
  <1> QED
    BY <1>4 DEF a, b

\* Length and elements of a concatenation.
LEMMA ConcatFacts ==
  ASSUME NEW a \in Seq(Bytes), NEW b \in Seq(Bytes)
  PROVE  /\ a \o b \in Seq(Bytes)
         /\ Len(a \o b) = Len(a) + Len(b)
         /\ \A i \in 1..(Len(a) + Len(b)) :
              (a \o b)[i] = IF i <= Len(a) THEN a[i] ELSE b[i - Len(a)]
  BY ConcatProperties

\* makeSpace: afterwards there is room for len more bytes, and the readable
\* bytes are the same, whether the vector grew or its contents slid down.
LEMMA MakeSpaceFacts ==
  ASSUME NEW s \in States, Valid(s), NEW len \in Nat
  PROVE  LET e == makeSpace(s, len)
         IN  /\ e \in States /\ Valid(e)
             /\ e.w + len <= Len(e.buf)
             /\ Content(e) = Content(s)
  <1> USE BufferAssumption DEF Valid, States, State, readableBytes, writableBytes, prependableBytes
  <1> DEFINE e == makeSpace(s, len)
  <1>0. /\ Content(s) \in Seq(Bytes) /\ Len(Content(s)) = s.w - s.r
        /\ \A i \in 1..(s.w - s.r) : Content(s)[i] = s.buf[s.r + i]
    BY ContentFacts
  <1>1. Len(s.buf) \in Nat
    OBVIOUS
  <1>2. CASE writableBytes(s) + prependableBytes(s) < len + kCheapPrepend
    <2> DEFINE grown == Resize(s.buf, len + s.w)
    <2>1. e = State(grown, s.r, s.w)
      BY <1>2 DEF makeSpace
    <2>2. /\ grown \in Seq(Bytes) /\ Len(grown) = len + s.w
          /\ \A j \in 1..(len + s.w) : j <= Len(s.buf) => grown[j] = s.buf[j]
      <3>1. len + s.w \in Nat
        OBVIOUS
      <3> QED
        BY <3>1, ResizeFacts
    <2> HIDE DEF e, grown
    <2>3. /\ e \in States /\ Valid(e) /\ e.w + len <= Len(e.buf)
          /\ e.buf = grown /\ e.r = s.r /\ e.w = s.w
      BY <2>1, <2>2
    <2>4. \A i \in 1..(s.w - s.r) : e.buf[s.r + i] = s.buf[s.r + i]
      <3> SUFFICES ASSUME NEW i \in 1..(s.w - s.r)
                   PROVE  e.buf[s.r + i] = s.buf[s.r + i]
        OBVIOUS
      <3>1. s.r + i \in 1..(len + s.w) /\ s.r + i <= Len(s.buf)
        BY <1>1
      <3> QED
        BY <2>2, <2>3, <3>1
    <2>5. Content(e) = Content(s)
      BY <2>3, <2>4, SameContent
    <2> QED
      BY <2>3, <2>5 DEF e
  <1>3. CASE ~(writableBytes(s) + prependableBytes(s) < len + kCheapPrepend)
    <2> DEFINE moved == CopyTo(s.buf, kCheapPrepend, Content(s))
    <2>1. e = State(moved, kCheapPrepend, kCheapPrepend + (s.w - s.r))
      BY <1>3 DEF makeSpace
    <2>2. /\ moved \in Seq(Bytes) /\ Len(moved) = Len(s.buf)
          /\ \A j \in 1..Len(s.buf) :
               moved[j] = IF kCheapPrepend < j /\ j <= kCheapPrepend + Len(Content(s))
                          THEN Content(s)[j - kCheapPrepend] ELSE s.buf[j]
      BY <1>0, CopyToFacts
    <2> HIDE DEF e, moved
    <2>3. /\ e \in States /\ Valid(e) /\ e.w + len <= Len(e.buf)
          /\ e.buf = moved /\ e.r = kCheapPrepend /\ e.w - e.r = s.w - s.r
      BY <1>1, <1>3, <2>1, <2>2
    <2>4. \A i \in 1..(s.w - s.r) : e.buf[kCheapPrepend + i] = s.buf[s.r + i]
      <3> SUFFICES ASSUME NEW i \in 1..(s.w - s.r)
                   PROVE  e.buf[kCheapPrepend + i] = s.buf[s.r + i]
        OBVIOUS
      <3>1. /\ kCheapPrepend + i \in 1..Len(s.buf)
            /\ kCheapPrepend < kCheapPrepend + i
            /\ kCheapPrepend + i <= kCheapPrepend + Len(Content(s))
            /\ (kCheapPrepend + i) - kCheapPrepend = i
        BY <1>0, <1>1
      <3>2. e.buf[kCheapPrepend + i] = Content(s)[i]
        BY <2>2, <2>3, <3>1
      <3> QED
        BY <1>0, <3>2
    <2>5. Content(e) = Content(s)
      BY <2>3, <2>4, SameContent
    <2> QED
      BY <2>3, <2>5 DEF e
  <1> QED
    BY <1>2, <1>3

LEMMA EnsureFacts ==
  ASSUME NEW s \in States, Valid(s), NEW len \in Nat
  PROVE  LET e == ensureWriteableBytes(s, len)
         IN  /\ e \in States /\ Valid(e)
             /\ e.w + len <= Len(e.buf)
             /\ Content(e) = Content(s)
  <1>1. CASE writableBytes(s) < len
    BY <1>1, MakeSpaceFacts DEF ensureWriteableBytes
  <1>2. CASE ~(writableBytes(s) < len)
    <2>1. Len(s.buf) \in Nat /\ s.w \in Nat
      BY DEF Valid
    <2> QED
      BY <1>2, <2>1 DEF ensureWriteableBytes, writableBytes
  <1> QED
    BY <1>1, <1>2

\* Copying data to the writer index, where there is room, appends it.
LEMMA CopyAppends ==
  ASSUME NEW s \in States, Valid(s), NEW data \in Seq(Bytes),
         s.w + Len(data) <= Len(s.buf)
  PROVE  LET e == State(CopyTo(s.buf, s.w, data), s.r, s.w + Len(data))
         IN  e \in States /\ Valid(e) /\ Content(e) = Content(s) \o data
  <1> USE DEF Valid, States, State
  <1> DEFINE e == State(CopyTo(s.buf, s.w, data), s.r, s.w + Len(data))
             n == s.w - s.r
  <1>1. Len(s.buf) \in Nat /\ Len(data) \in Nat /\ n \in Nat
    OBVIOUS
  <1>2. e \in States /\ Valid(e)
    BY <1>1, CopyToFacts
  <1>3. /\ Content(e) \in Seq(Bytes) /\ Len(Content(e)) = n + Len(data)
        /\ \A i \in 1..(n + Len(data)) : Content(e)[i] = e.buf[s.r + i]
    <2>1. (s.w + Len(data)) - s.r = n + Len(data)
      BY <1>1
    <2> QED
      BY <1>2, <2>1, ContentFacts
  <1>4. /\ Content(s) \in Seq(Bytes) /\ Len(Content(s)) = n
        /\ \A i \in 1..n : Content(s)[i] = s.buf[s.r + i]
    BY ContentFacts
  <1>5. /\ Content(s) \o data \in Seq(Bytes)
        /\ Len(Content(s) \o data) = n + Len(data)
        /\ \A i \in 1..(n + Len(data)) :
             (Content(s) \o data)[i] = IF i <= n THEN Content(s)[i] ELSE data[i - n]
    <2> DEFINE c == Content(s)
    <2>1. c \in Seq(Bytes) /\ Len(c) = n
      BY <1>4
    <2> HIDE DEF c
    <2>2. /\ c \o data \in Seq(Bytes)
          /\ Len(c \o data) = Len(c) + Len(data)
          /\ \A i \in 1..(Len(c) + Len(data)) :
               (c \o data)[i] = IF i <= Len(c) THEN c[i] ELSE data[i - Len(c)]
      BY <2>1, ConcatFacts, Zenon
    <2> QED
      BY <2>1, <2>2 DEF c
  <1>6. ASSUME NEW i \in 1..(n + Len(data))
        PROVE  Content(e)[i] = (Content(s) \o data)[i]
    <2>1. s.r + i \in 1..Len(s.buf)
      BY <1>1
    <2>2. e.buf[s.r + i] = IF s.w < s.r + i /\ s.r + i <= s.w + Len(data)
                           THEN data[(s.r + i) - s.w] ELSE s.buf[s.r + i]
      BY <2>1, CopyToFacts
    <2>3. CASE i <= n
      <3>1. ~(s.w < s.r + i) /\ i \in 1..n
        BY <1>1, <2>3
      <3> QED
        BY <1>3, <1>4, <1>5, <2>2, <2>3, <3>1
    <2>4. CASE ~(i <= n)
      <3>1. /\ s.w < s.r + i /\ s.r + i <= s.w + Len(data)
            /\ (s.r + i) - s.w = i - n
        BY <1>1, <2>4
      <3> QED
        BY <1>3, <1>5, <2>2, <2>4, <3>1
    <2> QED
      BY <2>3, <2>4
  <1>7. Content(e) = Content(s) \o data
    <2> DEFINE c == Content(e)
               d == Content(s) \o data
    <2>1. c \in Seq(Bytes) /\ d \in Seq(Bytes) /\ Len(c) = Len(d)
      BY <1>3, <1>5
    <2>2. \A i \in 1..Len(c) : c[i] = d[i]
      BY <1>3, <1>6
    <2> HIDE DEF c, d
    <2>3. c = d
      BY <2>1, <2>2, SeqExt, Zenon
    <2> QED
      BY <2>3 DEF c, d
  <1> QED
    BY <1>2, <1>7

\* Buffer::append appends.
LEMMA AppendFacts ==
  ASSUME NEW s \in States, Valid(s), NEW data \in Seq(Bytes)
  PROVE  LET a == append(s, data)
         IN  a \in States /\ Valid(a) /\ Content(a) = Content(s) \o data
  <1> DEFINE e == ensureWriteableBytes(s, Len(data))
  <1>1. /\ e \in States /\ Valid(e)
        /\ e.w + Len(data) <= Len(e.buf)
        /\ Content(e) = Content(s)
    BY EnsureFacts
  <1>2. append(s, data) = State(CopyTo(e.buf, e.w, data), e.r, e.w + Len(data))
    BY DEF append
  <1> HIDE DEF e
  <1> QED
    BY <1>1, <1>2, CopyAppends

\* Buffer::retrieve drops the first k bytes: len of them, or all there are.
LEMMA RetrieveFacts ==
  ASSUME NEW s \in States, Valid(s), NEW len \in Nat
  PROVE  LET a == retrieve(s, len)
             k == IF len < s.w - s.r THEN len ELSE s.w - s.r
         IN  /\ a \in States /\ Valid(a) /\ k \in 0..Len(Content(s))
             /\ Content(a) = SubSeq(Content(s), k + 1, Len(Content(s)))
  <1> USE BufferAssumption DEF Valid, States, State
  <1> DEFINE a == retrieve(s, len)
             n == s.w - s.r
             k == IF len < n THEN len ELSE n
             rest == SubSeq(Content(s), k + 1, Len(Content(s)))
  <1>1. n \in Nat /\ k \in 0..n /\ Len(s.buf) \in Nat
    OBVIOUS
  <1>2. /\ Content(s) \in Seq(Bytes) /\ Len(Content(s)) = n
        /\ \A i \in 1..n : Content(s)[i] = s.buf[s.r + i]
    BY ContentFacts
  <1>3. /\ rest \in Seq(Bytes) /\ Len(rest) = n - k
        /\ \A i \in 1..(n - k) : rest[i] = Content(s)[k + i]
    <2> DEFINE c == Content(s)
    <2>1. c \in Seq(Bytes) /\ Len(c) = n /\ n \in Nat /\ k \in Nat /\ k <= n
      BY <1>1, <1>2
    <2> HIDE DEF c, n, k
    <2> DEFINE m == k + 1
    <2>2. m \in Int /\ n \in Int /\ \A i \in m..n : c[i] \in Bytes
      BY <2>1
    <2>3. /\ (IF m <= n THEN n - m + 1 ELSE 0) = n - k /\ n - m + 1 = n - k
          /\ \A i \in 1..(n - k) : m + i - 1 = k + i
      BY <2>1
    <2> HIDE DEF m
    <2>4. /\ SubSeq(c, m, n) \in Seq(Bytes)
          /\ Len(SubSeq(c, m, n)) = IF m <= n THEN n - m + 1 ELSE 0
          /\ \A i \in 1..(n - m + 1) : SubSeq(c, m, n)[i] = c[m + i - 1]
      BY <2>2, SubSeqProperties
    <2>5. rest = SubSeq(c, m, n)
      BY <2>1 DEF m, c
    <2> HIDE DEF rest
    <2>6. \A i \in 1..(n - k) : rest[i] = c[k + i]
      BY <2>3, <2>4, <2>5
    <2> QED
      BY <2>3, <2>4, <2>5, <2>6 DEF c
  <1>4. a \in States /\ Valid(a) /\ a.w - a.r = n - k
    BY <1>1 DEF retrieve, retrieveAll, readableBytes
  <1>5. /\ Content(a) \in Seq(Bytes) /\ Len(Content(a)) = n - k
        /\ \A i \in 1..(n - k) : Content(a)[i] = a.buf[a.r + i]
    BY <1>4, ContentFacts
  <1>6. ASSUME NEW i \in 1..(n - k) PROVE Content(a)[i] = rest[i]
    <2>1. k = len /\ a.buf = s.buf /\ a.r = s.r + len
      BY <1>1 DEF retrieve, retrieveAll, readableBytes
    <2>2. k + i \in 1..n /\ s.r + (k + i) = a.r + i
      BY <1>1, <2>1
    <2> QED
      BY <1>2, <1>3, <1>5, <2>1, <2>2
  <1>7. Content(a) = rest
    BY <1>3, <1>5, <1>6, SeqExt
  <1> QED
    BY <1>1, <1>2, <1>4, <1>7

-----------------------------------------------------------------------------
LEMMA NowValid ==
  ASSUME BInv PROVE Now \in States /\ Valid(Now)
  BY DEF BInv, TypeOK, IndicesOrdered, Now, State, States, Valid

\* A step to a valid state keeps the invariant.
LEMMA BecomeValid ==
  ASSUME NEW s \in States, Valid(s), Become(s), io' \in Seq(Bytes)
  PROVE  BInv' /\ Now' = s
  BY DEF BInv, TypeOK, IndicesOrdered, Now, State, States, Valid, Become

LEMMA DataType == ASSUME NEW data \in Data PROVE data \in Seq(Bytes)
  <1>1. PICK n \in Nat : data \in [1..n -> Bytes]
    BY BufferAssumption DEF Data
  <1> QED
    BY <1>1

\* The first n readable bytes.
LEMMA PrefixFacts ==
  ASSUME NEW s \in States, Valid(s), NEW n \in Nat, n <= s.w - s.r
  PROVE  /\ SubSeq(s.buf, s.r + 1, s.r + n) \in Seq(Bytes)
         /\ SubSeq(s.buf, s.r + 1, s.r + n) = SubSeq(Content(s), 1, n)
         /\ n \in 0..Len(Content(s))
  <1> DEFINE c == Content(s)
             a == SubSeq(s.buf, s.r + 1, s.r + n)
             b == SubSeq(c, 1, n)
  <1>1. /\ c \in Seq(Bytes) /\ Len(c) = s.w - s.r
        /\ \A i \in 1..(s.w - s.r) : c[i] = s.buf[s.r + i]
    BY ContentFacts
  <1>2. a \in Seq(Bytes) /\ Len(a) = n /\ \A i \in 1..n : a[i] = s.buf[s.r + i]
    BY SubSeqProperties DEF Valid, States
  <1> HIDE DEF c
  <1>3. b \in Seq(Bytes) /\ Len(b) = n /\ \A i \in 1..n : b[i] = c[i]
    BY <1>1, SubSeqProperties DEF Valid, States
  <1> HIDE DEF a, b
  <1>4. \A i \in 1..n : a[i] = b[i]
    <2> SUFFICES ASSUME NEW i \in 1..n PROVE a[i] = b[i]
      OBVIOUS
    <2>1. i \in 1..(s.w - s.r)
      BY DEF Valid, States
    <2> QED
      BY <1>1, <1>2, <1>3, <2>1
  <1>5. a = b
    BY <1>2, <1>3, <1>4, SeqExt
  <1>6. n \in 0..Len(c)
    BY <1>1 DEF Valid
  <1> QED
    BY <1>2, <1>5, <1>6 DEF a, b, c

\* Concatenation is associative.
LEMMA ConcatAssoc ==
  ASSUME NEW a \in Seq(Bytes), NEW b \in Seq(Bytes), NEW c \in Seq(Bytes)
  PROVE  (a \o b) \o c = a \o (b \o c)
  BY ConcatAssociative

\* A sequence cut in two is the concatenation of its parts.
LEMMA SplitFacts ==
  ASSUME NEW data \in Seq(Bytes), NEW k \in 0..Len(data)
  PROVE  /\ SubSeq(data, 1, k) \in Seq(Bytes) /\ Len(SubSeq(data, 1, k)) = k
         /\ SubSeq(data, k + 1, Len(data)) \in Seq(Bytes)
         /\ SubSeq(data, 1, k) \o SubSeq(data, k + 1, Len(data)) = data
  <1> DEFINE a == SubSeq(data, 1, k)
             b == SubSeq(data, k + 1, Len(data))
  <1>0. Len(data) \in Nat /\ k \in Nat /\ k <= Len(data)
    OBVIOUS
  <1>1. a \in Seq(Bytes) /\ Len(a) = k /\ \A i \in 1..k : a[i] = data[i]
    BY <1>0, SubSeqProperties
  <1>2. /\ b \in Seq(Bytes) /\ Len(b) = Len(data) - k
        /\ \A i \in 1..(Len(data) - k) : b[i] = data[k + i]
    BY <1>0, SubSeqProperties
  <1> HIDE DEF a, b
  <1>3. /\ a \o b \in Seq(Bytes) /\ Len(a \o b) = Len(data)
        /\ \A i \in 1..Len(data) : (a \o b)[i] = IF i <= k THEN a[i] ELSE b[i - k]
    BY <1>0, <1>1, <1>2, ConcatFacts
  <1>4. \A i \in 1..Len(data) : (a \o b)[i] = data[i]
    <2> SUFFICES ASSUME NEW i \in 1..Len(data) PROVE (a \o b)[i] = data[i]
      OBVIOUS
    <2>1. CASE i <= k
      BY <1>0, <1>1, <1>3, <2>1
    <2>2. CASE ~(i <= k)
      <3>1. i - k \in 1..(Len(data) - k) /\ k + (i - k) = i
        BY <1>0, <2>2
      <3> QED
        BY <1>2, <1>3, <2>2, <3>1
    <2> QED
      BY <2>1, <2>2
  <1>5. a \o b = data
    BY <1>3, <1>4, SeqExt
  <1> QED
    BY <1>1, <1>2, <1>5 DEF a, b

\* readFd: the part that fits and the part that went through extrabuf together
\* are appended.
LEMMA ReadFdFacts ==
  ASSUME BInv, NEW data \in Seq(Bytes), ReadFd(data)
  PROVE  BInv' /\ Content(Now)' = Content(Now) \o data
  <1>1. Now \in States /\ Valid(Now)
    BY NowValid
  <1> DEFINE wr == writableBytes(Now)
             n == Len(data)
  <1>2. /\ Now.buf = buffer_ /\ Now.r = readerIndex_ /\ Now.w = writerIndex_
        /\ wr = Len(buffer_) - writerIndex_
        /\ Len(buffer_) \in Nat /\ writerIndex_ \in Nat /\ wr \in Nat /\ n \in Nat
    BY DEF Now, State, BInv, TypeOK, IndicesOrdered, writableBytes
  <1>3. io' \in Seq(Bytes)
    BY DEF ReadFd
  <1>4. CASE n <= wr
    <2> DEFINE s == State(CopyTo(buffer_, writerIndex_, data), readerIndex_, writerIndex_ + n)
    <2>1. Become(s)
      BY <1>4 DEF ReadFd
    <2>2. s \in States /\ Valid(s) /\ Content(s) = Content(Now) \o data
      <3>1. Now.w + Len(data) <= Len(Now.buf)
        BY <1>2, <1>4
      <3>2. s = State(CopyTo(Now.buf, Now.w, data), Now.r, Now.w + Len(data))
        BY <1>2
      <3> HIDE DEF s
      <3> QED
        BY <1>1, <3>1, <3>2, CopyAppends
    <2> HIDE DEF s
    <2>3. BInv' /\ Now' = s
      BY <1>3, <2>1, <2>2, BecomeValid
    <2> QED
      BY <2>2, <2>3 DEF Content
  <1>5. CASE ~(n <= wr)
    <2> DEFINE d1 == SubSeq(data, 1, wr)
               d2 == SubSeq(data, wr + 1, n)
               m == State(CopyTo(buffer_, writerIndex_, d1), readerIndex_, writerIndex_ + Len(d1))
               s == append(m, d2)
    <2>1. /\ d1 \in Seq(Bytes) /\ d2 \in Seq(Bytes) /\ Len(d1) = wr
          /\ d1 \o d2 = data
      <3>1. wr \in 0..Len(data)
        BY <1>2, <1>5
      <3> HIDE DEF wr
      <3> QED
        BY <3>1, SplitFacts
    <2>2. writerIndex_ + Len(d1) = Len(buffer_)
      BY <1>2, <2>1
    <2>3. Become(s)
      BY <1>5, <2>2 DEF ReadFd
    <2> HIDE DEF d1, d2
    <2>4. m \in States /\ Valid(m) /\ Content(m) = Content(Now) \o d1
      <3>1. Now.w + Len(d1) <= Len(Now.buf)
        BY <1>2, <2>2
      <3>2. m = State(CopyTo(Now.buf, Now.w, d1), Now.r, Now.w + Len(d1))
        BY <1>2
      <3> HIDE DEF m
      <3> QED
        BY <1>1, <2>1, <3>1, <3>2, CopyAppends
    <2> HIDE DEF m
    <2>5. s \in States /\ Valid(s) /\ Content(s) = Content(m) \o d2
      BY <2>1, <2>4, AppendFacts
    <2> HIDE DEF s
    <2>6. Content(s) = Content(Now) \o data
      <3> DEFINE c == Content(Now)
      <3>1. c \in Seq(Bytes)
        BY <1>1, ContentFacts
      <3> HIDE DEF c
      <3>2. (c \o d1) \o d2 = c \o (d1 \o d2)
        BY <2>1, <3>1, ConcatAssoc
      <3> USE DEF c
      <3> QED
        BY <2>1, <2>4, <2>5, <3>2
    <2>7. BInv' /\ Now' = s
      BY <1>3, <2>3, <2>5, BecomeValid
    <2> QED
      BY <2>6, <2>7 DEF Content
  <1> QED
    BY <1>4, <1>5

LEMMA InitBInv == Init => BInv
  <1> SUFFICES ASSUME Init PROVE BInv
    OBVIOUS
  <1>1. \A i \in 1..(kCheapPrepend + kInitialSize) : Zero \in Bytes
    BY BufferAssumption
  <1>2. kCheapPrepend + kInitialSize \in Nat
    BY BufferAssumption
  <1>3. buffer_ \in Seq(Bytes) /\ Len(buffer_) = kCheapPrepend + kInitialSize
    BY <1>1, <1>2 DEF Init
  <1> QED
    BY <1>3, BufferAssumption DEF Init, BInv, TypeOK, IndicesOrdered

\* Every step keeps the invariant and is a step of ByteQueue.
LEMMA StepFacts == BInv /\ [Next]_vars => BInv' /\ [BQ!Next]_(BQ!bqVars)
  <1> SUFFICES ASSUME BInv, [Next]_vars PROVE BInv' /\ [BQ!Next]_(BQ!bqVars)
    OBVIOUS
  <1> DEFINE c == Content(Now)
  <1>0. Now \in States /\ Valid(Now) /\ c \in Seq(Bytes)
    BY NowValid, ContentFacts
  <1>w. Now.buf = buffer_ /\ Now.r = readerIndex_ /\ Now.w = writerIndex_
    BY DEF Now, State
  <1>1. ASSUME NEW data \in Data, Append_(data)
        PROVE  BInv' /\ BQ!Next
    <2>1. data \in Seq(Bytes)
      BY DataType
    <2> DEFINE s == append(Now, data)
    <2>2. s \in States /\ Valid(s) /\ Content(s) = Content(Now) \o data
      BY <1>0, <2>1, AppendFacts
    <2>3. Become(s) /\ io' = data
      BY <1>1 DEF Append_
    <2> HIDE DEF s
    <2>4. BInv' /\ Now' = s
      BY <2>1, <2>2, <2>3, BecomeValid
    <2>5. Content(Now)' = Content(Now) \o io'
      BY <2>2, <2>3, <2>4 DEF Content
    <2> QED
      BY <2>4, <2>5 DEF BQ!Next, BQ!Put
  <1>2. ASSUME NEW data \in Data, ReadFd(data)
        PROVE  BInv' /\ BQ!Next
    <2>1. BInv' /\ Content(Now)' = Content(Now) \o data
      BY <1>2, DataType, ReadFdFacts
    <2>2. io' = data
      BY <1>2 DEF ReadFd
    <2> QED
      BY <2>1, <2>2 DEF BQ!Next, BQ!Put
  <1>3. ASSUME NEW len \in Nat, WriteFd(len)
        PROVE  BInv' /\ BQ!Next
    <2>1. /\ io' \in Seq(Bytes) /\ io' = SubSeq(c, 1, len)
          /\ len \in 0..Len(c)
      BY <1>0, <1>w, <1>3, PrefixFacts DEF WriteFd, readableBytes
    <2>2. BInv'
      BY <1>3, <2>1 DEF WriteFd, BInv, TypeOK, IndicesOrdered
    <2>3. c' = c
      BY <1>3 DEF WriteFd, Content, Now, State
    <2> QED
      BY <2>1, <2>2, <2>3 DEF BQ!Next, BQ!Peek
  <1>4. ASSUME NEW len \in Nat, Become(retrieve(Now, len)), io' \in Seq(Bytes)
        PROVE  /\ BInv'
               /\ \E k \in 0..Len(c) :
                    /\ c' = SubSeq(c, k + 1, Len(c))
                    /\ k = IF len < Now.w - Now.r THEN len ELSE Now.w - Now.r
    <2> DEFINE s == retrieve(Now, len)
               k == IF len < Now.w - Now.r THEN len ELSE Now.w - Now.r
    <2>1. /\ s \in States /\ Valid(s) /\ k \in 0..Len(c)
          /\ Content(s) = SubSeq(c, k + 1, Len(c))
      BY <1>0, RetrieveFacts
    <2>e. k = IF len < Now.w - Now.r THEN len ELSE Now.w - Now.r
      OBVIOUS
    <2> HIDE DEF s, k
    <2>2. BInv' /\ Now' = s
      BY <1>4, <2>1, BecomeValid DEF s
    <2>3. c' = Content(s)
      BY <2>2 DEF Content
    <2> QED
      BY <2>1, <2>2, <2>3, <2>e
  <1>5. ASSUME NEW len \in Nat, Retrieve(len)
        PROVE  BInv' /\ BQ!Next
    <2>1. io' = <<>> /\ io' \in Seq(Bytes)
      BY <1>5 DEF Retrieve
    <2> QED
      BY <1>4, <1>5, <2>1 DEF Retrieve, BQ!Next, BQ!Discard
  <1>6. ASSUME NEW len \in Nat, RetrieveAsString(len)
        PROVE  BInv' /\ BQ!Next
    <2>1. /\ io' \in Seq(Bytes) /\ io' = SubSeq(c, 1, len)
          /\ len \in 0..Len(c)
      BY <1>0, <1>w, <1>6, PrefixFacts DEF RetrieveAsString, readableBytes
    <2>2. len = IF len < Now.w - Now.r THEN len ELSE Now.w - Now.r
      BY <1>0, <1>6 DEF RetrieveAsString, readableBytes, Valid
    <2>3. BInv' /\ c' = SubSeq(c, len + 1, Len(c))
      BY <1>4, <1>6, <2>1, <2>2 DEF RetrieveAsString
    <2> QED
      BY <2>1, <2>3 DEF BQ!Next, BQ!Take
  <1>7. CASE RetrieveAll
    <2>1. Now.w - Now.r \in Nat
      BY <1>0 DEF Valid
    <2>2. retrieve(Now, Now.w - Now.r) = retrieveAll(Now)
      BY <2>1 DEF retrieve, readableBytes
    <2>3. io' = <<>> /\ io' \in Seq(Bytes)
      BY <1>7 DEF RetrieveAll
    <2> QED
      BY <1>4, <1>7, <2>1, <2>2, <2>3 DEF RetrieveAll, BQ!Next, BQ!Discard
  <1>8. CASE UNCHANGED vars
    BY <1>8 DEF vars, BInv, TypeOK, IndicesOrdered, BQ!bqVars, Content, Now, State
  <1> QED
    BY <1>1, <1>2, <1>3, <1>5, <1>6, <1>7, <1>8, BufferAssumption DEF Next

-----------------------------------------------------------------------------
\* The types and the order of the indices are invariant.
THEOREM BufferInvariance == Spec => []BInv
  BY InitBInv, StepFacts, PTL DEF Spec

\* No operation moves an index past another or past the vector (Buffer.h:42-126,
\* Buffer.cc:11-50).
THEOREM IndicesSafe == Spec => []IndicesOrdered
  <1>1. BInv => IndicesOrdered
    BY DEF BInv
  <1> QED
    BY <1>1, BufferInvariance, PTL

\* Buffer implements ByteQueue: no byte is lost, repeated or reordered by
\* makeSpace (Buffer.h:113-126), readFd (Buffer.cc:11-40) or retrieve
\* (Buffer.h:42-58).
THEOREM BufferRefinement == Spec => ImplementsByteQueue
  <1>1. Init => BQ!Init
    <2> SUFFICES ASSUME Init PROVE BQ!Init
      OBVIOUS
    <2>1. BInv
      BY InitBInv
    <2>2. Now \in States /\ Valid(Now) /\ Now.w - Now.r = 0
      BY <2>1, NowValid, BufferAssumption DEF Init, Now, State
    <2> DEFINE c == Content(Now)
    <2>3. c \in Seq(Bytes) /\ Len(c) = 0
      BY <2>2, ContentFacts
    <2> HIDE DEF c
    <2>4. c = <<>>
      BY <2>3
    <2> QED
      BY <2>4 DEF c, BQ!Init, Init
  <1> QED
    BY <1>1, StepFacts, BufferInvariance, PTL DEF Spec, ImplementsByteQueue, BQ!Spec

=============================================================================
