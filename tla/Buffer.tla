------------------------------- MODULE Buffer -------------------------------
(***************************************************************************)
(* Buffer: one vector of bytes with a reader and a writer index, which     *)
(* grows or slides its contents to the front when it runs out of room.     *)
(* Offset i of the vector is element i + 1 of the sequence buffer_.        *)
(***************************************************************************)
EXTENDS Naturals, Sequences

CONSTANTS
  Bytes,
  Zero,           \* what vector::resize fills with
  kCheapPrepend,
  kInitialSize,
  ExtraSize,      \* sizeof extrabuf in readFd
  MaxLen,         \* bound: bytes appended, or received by one readv
  MaxReadable     \* bound: bytes in the buffer

ASSUME BufferAssumption ==
  /\ Zero \in Bytes
  /\ kCheapPrepend \in Nat /\ kInitialSize \in Nat /\ ExtraSize \in Nat
  /\ MaxLen \in Nat /\ MaxReadable \in Nat

VARIABLES
  buffer_,
  readerIndex_,
  writerIndex_,
  io              \* history: the bytes the last operation was given, or returned

vars == <<buffer_, readerIndex_, writerIndex_, io>>

Init ==
  /\ buffer_ = [i \in 1..(kCheapPrepend + kInitialSize) |-> Zero]
  /\ readerIndex_ = kCheapPrepend
  /\ writerIndex_ = kCheapPrepend
  /\ io = <<>>

-----------------------------------------------------------------------------
(***************************************************************************)
(* A buffer's state as a value, for the operations that call one another.  *)
(***************************************************************************)
State(buf, r, w) == [buf |-> buf, r |-> r, w |-> w]
Now == State(buffer_, readerIndex_, writerIndex_)
Become(s) == buffer_' = s.buf /\ readerIndex_' = s.r /\ writerIndex_' = s.w

readableBytes(s) == s.w - s.r
writableBytes(s) == Len(s.buf) - s.w
prependableBytes(s) == s.r

\* std::copy of data to offset at: bytes past the end of the vector are lost.
CopyTo(buf, at, data) ==
  [i \in 1..Len(buf) |-> IF at < i /\ i <= at + Len(data) THEN data[i - at] ELSE buf[i]]

\* vector::resize to a larger size.
Resize(buf, n) == [i \in 1..n |-> IF i <= Len(buf) THEN buf[i] ELSE Zero]

Content(s) == SubSeq(s.buf, s.r + 1, s.w)

\* Mutant: the prepend area is counted as room.
MutMakeSpace(s, len) ==
  IF writableBytes(s) + prependableBytes(s) < len
  THEN State(Resize(s.buf, len + s.w), s.r, s.w)
  ELSE State(CopyTo(s.buf, kCheapPrepend, Content(s)),
             kCheapPrepend, kCheapPrepend + readableBytes(s))

\* Mutant: the contents stay where they are when the indices move.
MutNoSlide(s, len) ==
  IF writableBytes(s) + prependableBytes(s) < len + kCheapPrepend
  THEN State(Resize(s.buf, len + s.w), s.r, s.w)
  ELSE State(s.buf, kCheapPrepend, kCheapPrepend + readableBytes(s))

\* Buffer::makeSpace
makeSpace(s, len) ==
  IF writableBytes(s) + prependableBytes(s) < len + kCheapPrepend
  THEN State(Resize(s.buf, len + s.w), s.r, s.w)
  ELSE State(CopyTo(s.buf, kCheapPrepend, Content(s)),
             kCheapPrepend, kCheapPrepend + readableBytes(s))

\* Buffer::ensureWriteableBytes
ensureWriteableBytes(s, len) == IF writableBytes(s) < len THEN makeSpace(s, len) ELSE s

\* Buffer::append
append(s, data) ==
  LET e == ensureWriteableBytes(s, Len(data))
  IN  State(CopyTo(e.buf, e.w, data), e.r, e.w + Len(data))

\* Buffer::retrieveAll
retrieveAll(s) == State(s.buf, kCheapPrepend, kCheapPrepend)

\* Buffer::retrieve
retrieve(s, len) ==
  IF len < readableBytes(s) THEN State(s.buf, s.r + len, s.w) ELSE retrieveAll(s)

-----------------------------------------------------------------------------
(***************************************************************************)
(* Operations                                                              *)
(***************************************************************************)

\* The bytes an operation may bring in, within the bounds.
Data ==
  UNION {[1..n -> Bytes] : n \in {m \in 0..MaxLen : readableBytes(Now) + m <= MaxReadable}}

Append_(data) ==
  /\ Become(append(Now, data))
  /\ io' = data

\* Buffer::readFd, when readv has delivered data: into the vector as far as it
\* has room and into extrabuf beyond that; extrabuf is offered to readv only
\* when the room is smaller than it.
ReadFd(data) ==
  LET writable == writableBytes(Now)
      n        == Len(data)
  IN
  /\ n <= writable + (IF writable < ExtraSize THEN ExtraSize ELSE 0)
  /\ IF n <= writable
     THEN Become(State(CopyTo(buffer_, writerIndex_, data), readerIndex_, writerIndex_ + n))
     ELSE Become(append(State(CopyTo(buffer_, writerIndex_, SubSeq(data, 1, writable)),
                              readerIndex_, Len(buffer_)),
                        SubSeq(data, writable + 1, n)))
  /\ io' = data

\* Buffer::writeFd, when write has taken n bytes.
WriteFd(n) ==
  /\ n <= readableBytes(Now)
  /\ io' = SubSeq(buffer_, readerIndex_ + 1, readerIndex_ + n)
  /\ UNCHANGED <<buffer_, readerIndex_, writerIndex_>>

\* Buffer::retrieve and retrieveAll
Retrieve(len) ==
  /\ Become(retrieve(Now, len))
  /\ io' = <<>>

RetrieveAll ==
  /\ Become(retrieveAll(Now))
  /\ io' = <<>>

\* Buffer::reteieveAsString, for at most what is readable; retrieveAllAsString
\* for all of it.
RetrieveAsString(len) ==
  /\ len <= readableBytes(Now)
  /\ io' = SubSeq(buffer_, readerIndex_ + 1, readerIndex_ + len)
  /\ Become(retrieve(Now, len))

Next ==
  \/ \E data \in Data : Append_(data) \/ ReadFd(data)
  \/ \E len \in 0..(MaxReadable + 1) : Retrieve(len) \/ RetrieveAsString(len) \/ WriteFd(len)
  \/ RetrieveAll

Spec == Init /\ [][Next]_vars

-----------------------------------------------------------------------------
(***************************************************************************)
(* Properties                                                              *)
(***************************************************************************)

\* The vector and its indices keep their types.
TypeOK ==
  /\ buffer_ \in Seq(Bytes)
  /\ readerIndex_ \in Nat
  /\ writerIndex_ \in Nat
  /\ io \in Seq(Bytes)

\* The indices stay ordered and inside the vector (Buffer.h:42-126): every copy
\* an operation makes ends at writerIndex_ or before, so none leaves the vector,
\* and readableBytes and writableBytes, which are unsigned, do not wrap around.
IndicesOrdered ==
  /\ kCheapPrepend <= readerIndex_
  /\ readerIndex_ <= writerIndex_
  /\ writerIndex_ <= Len(buffer_)

BQ == INSTANCE ByteQueue WITH content <- Content(Now)

\* Buffer implements ByteQueue: growing and sliding (Buffer.h:113-126), the
\* detour through extrabuf (Buffer.cc:11-40) and the reset of the indices
\* (Buffer.h:42-58) neither lose, repeat nor reorder a byte.
ImplementsByteQueue == BQ!Spec

\* The inductive invariant: the buffer keeps its types and the indices their
\* order, through every operation of Buffer.h:42-126 and Buffer.cc:11-50.
BInv == TypeOK /\ IndicesOrdered

=============================================================================
