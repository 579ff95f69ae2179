------------------------------ MODULE FrameFifo ------------------------------
(***************************************************************************)
(* What the PCM bridge promises: a bounded, lossy FIFO of audio frames     *)
(* between one capture worker and one render worker.  A packet is accepted *)
(* whole or refused whole (newest-drop), and refused only when the capture *)
(* side sees too little space for it; an accepted frame is delivered once, *)
(* in order, unless the orchestration thread empties the queue.            *)
(* DynamicSpscRingBuffer implements this specification.                    *)
(***************************************************************************)
EXTENDS Integers, Sequences

CONSTANTS
  Capacities,   \* the capacities the queue may be opened with
  FrameCounts   \* the numbers of frames moved by one call

VARIABLES
  capacity,     \* 0 until the queue is opened
  queue,        \* the accepted frames not yet delivered, oldest first
  out,          \* the frames the last successful read returned
  captured,     \* how many frames the capture side has offered so far
  hidden,       \* frames delivered whose space the capture side has not
                \* noticed to be free again
  refused       \* how many packets were refused

vars == <<capacity, queue, out, captured, hidden, refused>>

Silence == 0

\* The packet of n frames that follows the first `from` captured frames.  A
\* frame is its capture number, so no two captured frames are alike; the
\* frames of a silent packet are all zero.
Packet(from, n, silent) ==
  [i \in 1..n |-> IF silent THEN Silence ELSE from + i]

Init ==
  /\ capacity = 0
  /\ queue = <<>>
  /\ out = <<>>
  /\ captured = 0
  /\ hidden = 0
  /\ refused = 0

Open(c) ==
  /\ capacity = 0
  /\ capacity' = c
  /\ UNCHANGED <<queue, out, captured, hidden, refused>>

Accept(n, silent) ==
  /\ Len(queue) + n <= capacity
  /\ queue' = queue \o Packet(captured, n, silent)
  /\ captured' = captured + n
  /\ UNCHANGED <<capacity, out, hidden, refused>>

\* The capture side looks: it notices all, some or none of the space that
\* deliveries have freed.
Notice ==
  /\ hidden' \in 0..hidden
  /\ UNCHANGED <<capacity, queue, out, captured, refused>>

\* A packet is refused only if it does not fit into the space noticed.
Refuse(n) ==
  /\ hidden' \in 0..hidden
  /\ Len(queue) + hidden' + n > capacity
  /\ captured' = captured + n
  /\ refused' = refused + 1
  /\ UNCHANGED <<capacity, queue, out>>

Deliver(n) ==
  /\ n <= Len(queue)
  /\ out' = SubSeq(queue, 1, n)
  /\ queue' = SubSeq(queue, n + 1, Len(queue))
  /\ hidden' = hidden + n
  /\ UNCHANGED <<capacity, captured, refused>>

Discard ==
  /\ queue' = <<>>
  /\ hidden' = 0
  /\ UNCHANGED <<capacity, out, captured, refused>>

Next ==
  \/ \E c \in Capacities : Open(c)
  \/ \E n \in FrameCounts, silent \in BOOLEAN : Accept(n, silent)
  \/ \E n \in FrameCounts : Refuse(n) \/ Deliver(n)
  \/ Notice \/ Discard

Spec == Init /\ [][Next]_vars

===============================================================================
