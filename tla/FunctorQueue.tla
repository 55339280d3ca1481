---------------------------- MODULE FunctorQueue ----------------------------
(***************************************************************************)
(* What EventLoop promises to the code that hands it callbacks, with the   *)
(* threads, the mutex, the eventfd and the poller left out.                *)
(*                                                                         *)
(* A functor is a closure: handing the same lambda over twice makes two    *)
(* functors.  Functors that are queued run once each, in the order in      *)
(* which they were queued; a functor given to runInLoop by the loop's own  *)
(* thread runs at once, ahead of the queue.                                *)
(***************************************************************************)
EXTENDS Naturals, Sequences

CONSTANT Functors   \* the closures clients may hand over

VARIABLES
  posted,           \* functors handed over so far
  queue,            \* functors accepted and not yet run, oldest first
  executed          \* functors run so far, oldest first

fqVars == <<posted, queue, executed>>

Init ==
  /\ posted = {}
  /\ queue = <<>>
  /\ executed = <<>>

\* A client queues a functor.
Post(f) ==
  /\ f \notin posted
  /\ posted' = posted \cup {f}
  /\ queue' = Append(queue, f)
  /\ UNCHANGED executed

\* The loop runs the oldest queued functor.
Take ==
  /\ queue # <<>>
  /\ queue' = Tail(queue)
  /\ executed' = Append(executed, Head(queue))
  /\ UNCHANGED posted

\* The loop's own thread runs a functor without queueing it.
RunNow(f) ==
  /\ f \notin posted
  /\ posted' = posted \cup {f}
  /\ executed' = Append(executed, f)
  /\ UNCHANGED queue

Next ==
  \/ \E f \in Functors : Post(f) \/ RunNow(f)
  \/ Take

Spec == Init /\ [][Next]_fqVars

=============================================================================
