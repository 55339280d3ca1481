----------------------------- MODULE ByteQueue -----------------------------
(***************************************************************************)
(* What Buffer promises: a queue of bytes, with no indices, no prepend     *)
(* area and no reallocation.                                               *)
(***************************************************************************)
EXTENDS Naturals, Sequences

VARIABLES
  content,   \* the bytes put in and not yet taken out
  io         \* the bytes the last operation was given, or returned

bqVars == <<content, io>>

Init == content = <<>> /\ io = <<>>

\* The bytes given are added at the end.
Put == content' = content \o io'

\* The first n bytes are returned and stay.
Peek(n) == io' = SubSeq(content, 1, n) /\ UNCHANGED content

\* The first n bytes are taken out ...
Discard(n) == io' = <<>> /\ content' = SubSeq(content, n + 1, Len(content))

\* ... and returned.
Take(n) ==
  /\ io' = SubSeq(content, 1, n)
  /\ content' = SubSeq(content, n + 1, Len(content))

Next ==
  \/ Put
  \/ \E n \in 0..Len(content) : Peek(n) \/ Discard(n) \/ Take(n)

Spec == Init /\ [][Next]_bqVars

=============================================================================
