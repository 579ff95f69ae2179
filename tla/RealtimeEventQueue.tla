------------------------- MODULE RealtimeEventQueue -------------------------
(***************************************************************************)
(* The fixed-size lock-free queue of Foundation (SpscRingBuffer) between   *)
(* RealtimeEventSink::TryPublish on a real-time thread and the loop that   *)
(* pops and counts on the logger's worker thread.  DspCore has the same    *)
(* queue for its control packets.                                          *)
(*                                                                         *)
(* A call is split at every access to shared memory, and an acquire load   *)
(* of the other side's index may return a stale value (Visible).           *)
(***************************************************************************)
EXTENDS Integers, Sequences

CONSTANTS
  SlotCount,    \* 1024 for events, 4 for DSP control packets
  CounterBits,  \* width of the metrics: 64 in the code
  Events        \* the packets, as far as they are told apart

\* SlotCount is also a power of two in the code (a static_assert); Next needs
\* it only for `& (SlotCount - 1U)` to mean % SlotCount.
ASSUME SlotCountAssumption == SlotCount \in Nat /\ SlotCount >= 2
ASSUME CounterAssumption == CounterBits \in Nat /\ 2 ^ CounterBits \in Nat \ {0}

VARIABLES
  slots,        \* slots_
  write_index,  \* write_index_, stored by the producer only
  read_index,   \* read_index_, stored by the consumer only
  p_pc,         \* where the producer is in TryPublish / TryPush
  p_value,      \* the event it publishes
  p_read,       \* the value of read_index_ it loaded last
  c_pc,         \* where the consumer is in TryPop and its caller
  c_write,      \* the value of write_index_ it loaded last
  c_value,      \* the caller's event variable during the copy
  received,     \* the event the last successful TryPop returned
  published, dropped,  \* RealtimeEventMetrics
  consumed      \* consumed_realtime_events, counted by the popping loop

producerVars == <<p_pc, p_value, p_read>>
consumerVars == <<c_pc, c_write, c_value, received, consumed>>
vars == <<slots, write_index, read_index, producerVars, consumerVars,
          published, dropped>>

NoEvent == "none"
Positions == 0..SlotCount-1

Increment(counter) == (counter + 1) % 2 ^ CounterBits

\* Faulty variant: the mask is forgotten.
NextIndex_Unmasked(index) == index + 1
NextIndex(index) == (index + 1) % SlotCount

\* How far index a is ahead of index b.
Ahead(a, b) == (a - b) % SlotCount

\* What an acquire load may return to a thread that has seen `seen`.
Visible(seen, current) ==
  {(seen + d) % SlotCount : d \in 0..Ahead(current, seen)}

Init ==
  /\ slots = [i \in Positions |-> NoEvent]
  /\ write_index = 0 /\ read_index = 0
  /\ p_pc = "idle" /\ p_value = NoEvent /\ p_read = 0
  /\ c_pc = "idle" /\ c_write = 0 /\ c_value = NoEvent /\ received = NoEvent
  /\ published = 0 /\ dropped = 0 /\ consumed = 0

-----------------------------------------------------------------------------
(* The producer: RealtimeEventSink::TryPublish around TryPush. *)

\* Faulty variant: no sentinel slot is kept free.
Full_NoSentinel(read) == FALSE
Full(read) == NextIndex(write_index) = read

\* Faulty variant: no return after the drop is counted.
TryPublish_FallsThrough(e) ==
  /\ p_pc = "idle"
  /\ \E read \in Visible(p_read, read_index) :
       /\ p_read' = read
       /\ \/ /\ Full(read)
             /\ dropped' = Increment(dropped)
             /\ p_pc' = "count"
             /\ UNCHANGED p_value
          \/ /\ ~Full(read)
             /\ p_pc' = "store" /\ p_value' = e
             /\ UNCHANGED dropped
  /\ UNCHANGED <<slots, write_index, read_index, consumerVars, published>>

TryPublish(e) ==
  /\ p_pc = "idle"
  /\ \E read \in Visible(p_read, read_index) :
       /\ p_read' = read
       /\ \/ /\ Full(read)
             /\ dropped' = Increment(dropped)
             /\ UNCHANGED <<p_pc, p_value>>
          \/ /\ ~Full(read)
             /\ p_pc' = "store" /\ p_value' = e
             /\ UNCHANGED dropped
  /\ UNCHANGED <<slots, write_index, read_index, consumerVars, published>>

StoreSlot ==
  /\ p_pc = "store"
  /\ slots' = [slots EXCEPT ![write_index] = p_value]
  /\ p_pc' = "publish"
  /\ UNCHANGED <<write_index, read_index, p_value, p_read, consumerVars,
                 published, dropped>>

PublishIndex ==
  /\ p_pc = "publish"
  /\ write_index' = NextIndex(write_index)
  /\ p_pc' = "count"
  /\ UNCHANGED <<slots, read_index, p_value, p_read, consumerVars, published,
                 dropped>>

CountPublished ==
  /\ p_pc = "count"
  /\ published' = Increment(published)
  /\ p_pc' = "idle" /\ p_value' = NoEvent
  /\ UNCHANGED <<slots, write_index, read_index, p_read, consumerVars, dropped>>

-----------------------------------------------------------------------------
(* The consumer: TryPop, and the count the logger's loop keeps. *)

\* Faulty variant: the empty queue is not recognised.
TryPop_Unchecked ==
  /\ c_pc = "idle"
  /\ c_write' \in Visible(c_write, write_index)
  /\ c_pc' = "load"
  /\ UNCHANGED <<slots, write_index, read_index, producerVars, c_value,
                 received, consumed, published, dropped>>

\* An empty queue: TryPop returns false, and has seen the write index.
TryPop ==
  /\ c_pc = "idle"
  /\ \E write \in Visible(c_write, write_index) :
       /\ c_write' = write
       /\ c_pc' = IF read_index = write THEN "idle" ELSE "load"
  /\ UNCHANGED <<slots, write_index, read_index, producerVars, c_value,
                 received, consumed, published, dropped>>

LoadSlot ==
  /\ c_pc = "load"
  /\ c_value' = slots[read_index]
  /\ c_pc' = "release"
  /\ UNCHANGED <<slots, write_index, read_index, producerVars, c_write,
                 received, consumed, published, dropped>>

ReleaseSlot ==
  /\ c_pc = "release"
  /\ read_index' = NextIndex(read_index)
  /\ received' = c_value /\ c_value' = NoEvent
  /\ c_pc' = "count"
  /\ UNCHANGED <<slots, write_index, producerVars, c_write, consumed,
                 published, dropped>>

CountConsumed ==
  /\ c_pc = "count"
  /\ consumed' = Increment(consumed)
  /\ c_pc' = "idle"
  /\ UNCHANGED <<slots, write_index, read_index, producerVars, c_write,
                 c_value, received, published, dropped>>

-----------------------------------------------------------------------------
Producer ==
  \/ \E e \in Events : TryPublish(e)
  \/ StoreSlot \/ PublishIndex \/ CountPublished

Consumer == TryPop \/ LoadSlot \/ ReleaseSlot \/ CountConsumed

Next == Producer \/ Consumer

Spec == Init /\ [][Next]_vars

-----------------------------------------------------------------------------
(* Properties. *)

\* Every variable keeps its type; what the consumer has copied out of a slot
\* or handed out is always an event that was stored, never the content of a
\* slot nobody has written.
TypeOK ==
  /\ slots \in [Positions -> Events \cup {NoEvent}]
  /\ write_index \in Positions /\ read_index \in Positions
  /\ p_pc \in {"idle", "store", "publish", "count"}
  /\ p_value \in Events \cup {NoEvent} /\ p_read \in Positions
  /\ c_pc \in {"idle", "load", "release", "count"}
  /\ c_write \in Positions
  /\ c_value \in Events \cup {NoEvent} /\ received \in Events \cup {NoEvent}
  /\ c_pc = "release" => c_value \in Events
  /\ c_pc = "count" => received \in Events
  /\ \A n \in {published, dropped, consumed} : n \in 0..2 ^ CounterBits - 1

Filled == Ahead(write_index, read_index)

\* The slot the producer is writing is never one the consumer is copying,
\* although both are plain memory: the sentinel slot and the stale indices
\* keep the two sides apart.
NoSlotRace ==
  p_pc \in {"store", "publish"} /\ c_pc \in {"load", "release"} =>
    write_index # read_index

\* The counters of the two threads agree with the queue up to one call in
\* flight on each side; so `consumed` may be one ahead of `published`, and
\* never two, whatever the stale loads returned.
CountersAgree ==
  (published + (IF p_pc = "count" THEN 1 ELSE 0)) % 2 ^ CounterBits
    = (consumed + (IF c_pc = "count" THEN 1 ELSE 0) + Filled) % 2 ^ CounterBits

\* The queue is the bounded FIFO EventQueue specifies, of SlotCount - 1
\* events: a push takes effect when write_index_ is stored, a pop when
\* read_index_ is stored.
Queued == [i \in 1..Filled |-> slots[(read_index + i - 1) % SlotCount]]

Fifo == INSTANCE EventQueue WITH Capacity <- SlotCount - 1, queue <- Queued

ImplementsQueue == Fifo!Spec
==============================================================================
