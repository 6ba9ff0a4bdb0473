---------------------------- MODULE FunctorQueue ----------------------------
(***************************************************************************)
(* What NetworkLoop::queueInLoop promises to its callers, and nothing of   *)
(* how: functors posted by any thread are run by the loop's thread, one at *)
(* a time, each once, in the order in which they were posted.  A functor   *)
(* may post others, itself included, while it runs.                        *)
(***************************************************************************)
EXTENDS Sequences

CONSTANTS
  Functors,     \* the callbacks that can be posted
  None          \* no callback

VARIABLES
  queue,        \* posted and not yet started, oldest first
  running       \* the callback being run, or None

vars == <<queue, running>>

Init == queue = <<>> /\ running = None

Post(f) == queue' = Append(queue, f) /\ UNCHANGED running

Start ==
  /\ running = None
  /\ queue # <<>>
  /\ running' = Head(queue)
  /\ queue' = Tail(queue)

Finish ==
  /\ running # None
  /\ running' = None
  /\ UNCHANGED queue

Next == (\E f \in Functors : Post(f)) \/ Start \/ Finish

Spec == Init /\ [][Next]_vars
=============================================================================
