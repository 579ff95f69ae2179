----------------------------- MODULE EventQueue -----------------------------
(***************************************************************************)
(* What the real-time event queue promises: a bounded FIFO between one     *)
(* producer and one consumer.  An event is queued or dropped, never        *)
(* duplicated or reordered; the consumer gets the oldest one.              *)
(* RealtimeEventQueue implements this; AsyncLogger and CaptureWorker use   *)
(* it.                                                                     *)
(***************************************************************************)
EXTENDS Integers, Sequences

CONSTANTS
  Events,    \* the events that are told apart
  Capacity   \* how many events the queue holds

VARIABLES
  queue,     \* the queued events, oldest first
  received   \* the event the last successful pop returned, or NoEvent

NoEvent == "none"

Init == queue = <<>> /\ received = NoEvent

Push(e) ==
  /\ Len(queue) < Capacity
  /\ queue' = Append(queue, e)
  /\ UNCHANGED received

Pop ==
  /\ queue # <<>>
  /\ received' = Head(queue)
  /\ queue' = Tail(queue)

Next == Pop \/ \E e \in Events : Push(e)

Spec == Init /\ [][Next]_<<queue, received>>
==============================================================================
