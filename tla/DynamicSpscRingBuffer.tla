----------------------- MODULE DynamicSpscRingBuffer -----------------------
(***************************************************************************)
(* The lock-free PCM bridge of src/DspCore: one producer (the capture      *)
(* worker), one consumer (the render worker), an orchestration thread that *)
(* initialises and resets the ring while neither of them is inside a call. *)
(*                                                                         *)
(* A call is split at every access to shared memory: the acquire load of   *)
(* the other side's index, each memcpy, the release store of the own       *)
(* index, the metrics update.  An acquire load may return a value older    *)
(* than the current one, but never older than one already seen by the      *)
(* same thread (coherence): see Visible.  A frame stands for               *)
(* bytes_per_frame bytes.                                                  *)
(***************************************************************************)
EXTENDS Integers, Sequences

CONSTANTS
  IndexBits,    \* width of the index atomics: 32 in the code
  Capacities,   \* the values of capacity_frames Initialize is called with
  FrameCounts,  \* the values of frame_count the workers call with
  MaxFrames     \* bound: frames offered by the capture side in a behaviour

IndexModulus == 2 ^ IndexBits

\* (capacity_frames & (capacity_frames - 1U)) == 0U for a nonzero uint32.
IsPowerOfTwo(c) == \E k \in 0..IndexBits-1 : c = 2 ^ k

\* Faulty variant: the power-of-two check is missing.
ValidCapacity_AnySize(c) == c >= 2
ValidCapacity(c) == c >= 2 /\ IsPowerOfTwo(c)

\* (The provers know nothing of 2 ^ IndexBits but what is assumed here.)
ASSUME BitsAssumption == IndexBits \in Nat /\ IndexModulus \in Nat \ {0}
ASSUME CapacityAssumption ==
  /\ Capacities \subseteq Nat
  /\ \A c \in Capacities : c >= 2 /\ IsPowerOfTwo(c) =>
       /\ IndexModulus % c = 0
       /\ 2 * c <= IndexModulus
ASSUME FramesAssumption == FrameCounts \subseteq Nat /\ MaxFrames \in Nat

VARIABLES
  capacity_frames, \* 0 until Initialize
  storage,         \* storage_, one element per frame; empty until Initialize
  write_index,     \* write_index_, stored by the producer only
  read_index,      \* read_index_, stored by the consumer only
  p_pc,            \* where the producer is in its call
  p_src,           \* the frames it is writing
  p_read,          \* the value of read_index_ it loaded last
  c_pc,            \* where the consumer is in its call
  c_count,         \* frame_count of its call
  c_write,         \* the value of write_index_ it loaded last
  c_dst,           \* what it has copied into dst so far
  out,             \* dst as the last successful TryReadFrames left it
  captured,        \* how many frames were offered to the ring
  frames_written, frames_read, overflow_count,  \* Metrics
  discarded        \* history: unread frames dropped by Reset

producerVars == <<p_pc, p_src, p_read>>
consumerVars == <<c_pc, c_count, c_write, c_dst, out>>
metrics == <<frames_written, frames_read, overflow_count>>
vars == <<capacity_frames, storage, write_index, read_index, producerVars,
          consumerVars, captured, metrics, discarded>>

-----------------------------------------------------------------------------
(* Unsigned arithmetic on the indices, and positions in the storage. *)

SubIndex(a, b) == (a - b) % IndexModulus

\* Faulty variant: indices wider than the modulus the other side assumes.
AddIndex_Unwrapped(a, n) == a + n
AddIndex(a, n) == (a + n) % IndexModulus

\* index & (capacity_frames_ - 1U)
SlotOf(i) == i % capacity_frames

\* The values an acquire load of an index may return to a thread that has
\* seen `seen`, while the index is `current`.
Visible(seen, current) ==
  {AddIndex(seen, d) : d \in 0..SubIndex(current, seen)}

\* Faulty variant: one frame too many is thought to be free.
FreeFrames_OffByOne(read) ==
  SubIndex(capacity_frames, SubIndex(write_index, read)) + 1
\* capacity_frames_ - filled, with filled = write - read
FreeFrames(read) == SubIndex(capacity_frames, SubIndex(write_index, read))

FramesToEnd(pos, n) ==
  IF capacity_frames - pos < n THEN capacity_frames - pos ELSE n

\* Faulty variant: the operands of the subtraction are swapped.
FilledFramesSnapshot_Swapped(w, r) == SubIndex(r, w)
\* What FilledFramesSnapshot returns from the indices it has loaded.  (Who
\* calls it, and how stale these may be: RingSnapshots and RingMonitor.)
FilledFramesSnapshot(w, r) == SubIndex(w, r)

Silence == 0

\* The packet GetBuffer hands over: n frames numbered in capture order, or
\* the zeroes TryWriteSilentFrames writes.
Packet(n, silent) == [i \in 1..n |-> IF silent THEN Silence ELSE captured + i]

-----------------------------------------------------------------------------
Init ==
  /\ capacity_frames = 0 /\ storage = <<>>
  /\ write_index = 0 /\ read_index = 0
  /\ p_pc = "idle" /\ p_src = <<>> /\ p_read = 0
  /\ c_pc = "idle" /\ c_count = 0 /\ c_write = 0 /\ c_dst = <<>> /\ out = <<>>
  /\ captured = 0
  /\ frames_written = 0 /\ frames_read = 0 /\ overflow_count = 0
  /\ discarded = 0

\* No worker is inside a call: what the header asks of the callers of
\* Initialize and Reset.
WorkersStopped == p_pc = "idle" /\ c_pc = "idle"

\* The indices go back to zero; the threads started afterwards see it.
ZeroIndices ==
  /\ write_index' = 0 /\ read_index' = 0
  /\ p_read' = 0 /\ c_write' = 0

\* A refused capacity (or a failed allocation) returns before any assignment.
Initialize(c) ==
  /\ WorkersStopped
  /\ capacity_frames = 0
  /\ ValidCapacity(c)
  /\ storage' = [s \in 0..c-1 |-> Silence]
  /\ capacity_frames' = c
  /\ ZeroIndices
  /\ UNCHANGED <<p_pc, p_src, c_pc, c_count, c_dst, out, captured, metrics,
                 discarded>>

Reset ==
  /\ WorkersStopped
  /\ ZeroIndices
  /\ discarded' = discarded + SubIndex(write_index, read_index)
  /\ UNCHANGED <<capacity_frames, storage, p_pc, p_src, c_pc, c_count, c_dst,
                 out, captured, metrics>>

-----------------------------------------------------------------------------
(* The producer: TryWriteFrames, and TryWriteSilentFrames (silent). *)

RefuseWrite(n) ==
  /\ overflow_count' = overflow_count + 1
  /\ captured' = captured + n
  /\ UNCHANGED <<p_pc, p_src>>

\* frame_count == 0 returns at once: no step.
TryWriteFrames(n, silent) ==
  /\ p_pc = "idle"
  /\ n # 0 /\ captured + n <= MaxFrames
  /\ \E read \in Visible(p_read, read_index) :
       /\ p_read' = read
       /\ \/ /\ n > FreeFrames(read)
             /\ RefuseWrite(n)
          \/ /\ n <= FreeFrames(read)
             /\ p_pc' = "copy"
             /\ p_src' = Packet(n, silent)
             /\ UNCHANGED <<captured, overflow_count>>
  /\ UNCHANGED <<capacity_frames, storage, write_index, read_index,
                 consumerVars, frames_written, frames_read, discarded>>

\* Faulty variant: the frames beyond the end of the storage are forgotten.
CopyToEnd_NoWrap ==
  LET pos == SlotOf(write_index)
  IN /\ p_pc = "copy"
     /\ storage' = [s \in DOMAIN storage |->
                      IF s \in pos..pos+Len(p_src)-1 THEN p_src[s - pos + 1]
                                                     ELSE storage[s]]
     /\ p_pc' = "publish"
     /\ UNCHANGED <<capacity_frames, write_index, read_index, p_src, p_read,
                    consumerVars, captured, metrics, discarded>>

CopyToEnd ==
  LET pos   == SlotOf(write_index)
      toEnd == FramesToEnd(pos, Len(p_src))
  IN /\ p_pc = "copy"
     /\ storage' = [s \in DOMAIN storage |->
                      IF s \in pos..pos+toEnd-1 THEN p_src[s - pos + 1]
                                                ELSE storage[s]]
     /\ p_pc' = IF toEnd < Len(p_src) THEN "wrap" ELSE "publish"
     /\ UNCHANGED <<capacity_frames, write_index, read_index, p_src, p_read,
                    consumerVars, captured, metrics, discarded>>

CopyWrapped ==
  LET toEnd == FramesToEnd(SlotOf(write_index), Len(p_src))
  IN /\ p_pc = "wrap"
     /\ storage' = [s \in DOMAIN storage |->
                      IF s < Len(p_src) - toEnd THEN p_src[toEnd + s + 1]
                                                ELSE storage[s]]
     /\ p_pc' = "publish"
     /\ UNCHANGED <<capacity_frames, write_index, read_index, p_src, p_read,
                    consumerVars, captured, metrics, discarded>>

PublishWrite ==
  /\ p_pc = "publish"
  /\ write_index' = AddIndex(write_index, Len(p_src))
  /\ captured' = captured + Len(p_src)
  /\ p_pc' = "count"
  /\ UNCHANGED <<capacity_frames, storage, read_index, p_src, p_read,
                 consumerVars, metrics, discarded>>

\* Faulty variant: one per call instead of one per frame.
CountWritten_Calls ==
  /\ p_pc = "count"
  /\ frames_written' = frames_written + 1
  /\ p_pc' = "idle"
  /\ p_src' = <<>>
  /\ UNCHANGED <<capacity_frames, storage, write_index, read_index, p_read,
                 consumerVars, captured, frames_read, overflow_count, discarded>>

CountWritten ==
  /\ p_pc = "count"
  /\ frames_written' = frames_written + Len(p_src)
  /\ p_pc' = "idle"
  /\ p_src' = <<>>
  /\ UNCHANGED <<capacity_frames, storage, write_index, read_index, p_read,
                 consumerVars, captured, frames_read, overflow_count, discarded>>

-----------------------------------------------------------------------------
(* The consumer: TryReadFrames. *)

\* Faulty variant: one frame is always left in the ring.
TryReadFrames_LeavesOne(n) ==
  /\ c_pc = "idle"
  /\ n # 0
  /\ \E write \in Visible(c_write, write_index) :
       /\ c_write' = write
       /\ \/ /\ n >= SubIndex(write, read_index)
             /\ UNCHANGED <<c_pc, c_count>>
          \/ /\ n < SubIndex(write, read_index)
             /\ c_pc' = "copy"
             /\ c_count' = n
  /\ UNCHANGED <<capacity_frames, storage, write_index, read_index,
                 producerVars, c_dst, out, captured, metrics, discarded>>

\* Too few frames: returns false and leaves dst alone.
TryReadFrames(n) ==
  /\ c_pc = "idle"
  /\ n # 0
  /\ \E write \in Visible(c_write, write_index) :
       /\ c_write' = write
       /\ \/ /\ n > SubIndex(write, read_index)
             /\ UNCHANGED <<c_pc, c_count>>
          \/ /\ n <= SubIndex(write, read_index)
             /\ c_pc' = "copy"
             /\ c_count' = n
  /\ UNCHANGED <<capacity_frames, storage, write_index, read_index,
                 producerVars, c_dst, out, captured, metrics, discarded>>

ReadToEnd ==
  LET pos   == SlotOf(read_index)
      toEnd == FramesToEnd(pos, c_count)
  IN /\ c_pc = "copy"
     /\ c_dst' = [i \in 1..toEnd |-> storage[pos + i - 1]]
     /\ c_pc' = IF toEnd < c_count THEN "wrap" ELSE "publish"
     /\ UNCHANGED <<capacity_frames, storage, write_index, read_index,
                    producerVars, c_count, c_write, out, captured, metrics,
                    discarded>>

ReadWrapped ==
  LET toEnd == FramesToEnd(SlotOf(read_index), c_count)
  IN /\ c_pc = "wrap"
     /\ c_dst' = c_dst \o [i \in 1..c_count - toEnd |-> storage[i - 1]]
     /\ c_pc' = "publish"
     /\ UNCHANGED <<capacity_frames, storage, write_index, read_index,
                    producerVars, c_count, c_write, out, captured, metrics,
                    discarded>>

PublishRead ==
  /\ c_pc = "publish"
  /\ read_index' = AddIndex(read_index, c_count)
  /\ out' = c_dst
  /\ c_dst' = <<>>
  /\ c_pc' = "count"
  /\ UNCHANGED <<capacity_frames, storage, write_index, producerVars, c_count,
                 c_write, captured, metrics, discarded>>

CountRead ==
  /\ c_pc = "count"
  /\ frames_read' = frames_read + c_count
  /\ c_pc' = "idle"
  /\ c_count' = 0
  /\ UNCHANGED <<capacity_frames, storage, write_index, read_index,
                 producerVars, c_write, c_dst, out, captured, frames_written,
                 overflow_count, discarded>>

-----------------------------------------------------------------------------
Orchestration == Reset \/ \E c \in Capacities : Initialize(c)

Producer ==
  \/ \E n \in FrameCounts, silent \in BOOLEAN : TryWriteFrames(n, silent)
  \/ CopyToEnd \/ CopyWrapped \/ PublishWrite \/ CountWritten

Consumer ==
  \/ \E n \in FrameCounts : TryReadFrames(n)
  \/ ReadToEnd \/ ReadWrapped \/ PublishRead \/ CountRead

Next == Orchestration \/ Producer \/ Consumer

Spec == Init /\ [][Next]_vars

-----------------------------------------------------------------------------
(* Properties. *)

Indices == 0..IndexModulus-1

\* Every variable keeps its type: in particular the storage keeps the size
\* Initialize gave it, and both indices stay within their width.
TypeOK ==
  /\ capacity_frames = 0 \/ capacity_frames \in {c \in Capacities : c >= 2}
  /\ storage \in [0..capacity_frames-1 -> Nat]
  /\ write_index \in Indices /\ read_index \in Indices
  /\ p_pc \in {"idle", "copy", "wrap", "publish", "count"}
  /\ p_src \in Seq(Nat) /\ p_read \in Indices
  /\ c_pc \in {"idle", "copy", "wrap", "publish", "count"}
  /\ c_count \in Nat /\ c_write \in Indices
  /\ c_dst \in Seq(Nat) /\ out \in Seq(Nat)
  /\ captured \in Nat
  /\ frames_written \in Nat /\ frames_read \in Nat /\ overflow_count \in Nat
  /\ discarded \in Nat

Filled == SubIndex(write_index, read_index)

\* The frames each side has claimed and not yet published.
Claimed == IF p_pc \in {"copy", "wrap", "publish"} THEN Len(p_src) ELSE 0
Taken   == IF c_pc \in {"copy", "wrap", "publish"} THEN c_count ELSE 0

\* The two indices and the two stale copies of them stay in one window no
\* wider than the ring, in the order p_read, read_index, c_write,
\* write_index, across every wrap of the 32-bit indices: the unsigned
\* differences the code computes are the true numbers of frames, whichever
\* stale index a side used.
WindowOrdered ==
  /\ SubIndex(read_index, p_read) + Taken <= SubIndex(c_write, p_read)
  /\ SubIndex(c_write, p_read) <= SubIndex(write_index, p_read)
  /\ SubIndex(write_index, p_read) + Claimed <= capacity_frames

\* Until Initialize has accepted a capacity nothing moves: every write is
\* refused and every read finds nothing.
Initialized ==
  IF capacity_frames = 0
  THEN /\ p_pc = "idle" /\ c_pc = "idle"
       /\ write_index = 0 /\ read_index = 0 /\ p_read = 0 /\ c_write = 0
  ELSE ValidCapacity(capacity_frames)

\* What every step preserves.
IInv == TypeOK /\ Initialized /\ WindowOrdered

\* The slots a side is copying to or from.
ProducerSlots ==
  {SlotOf(AddIndex(write_index, i)) : i \in 0..Claimed-1}
ConsumerSlots ==
  {SlotOf(AddIndex(read_index, i)) : i \in 0..Taken-1}

\* The producer's memcpy never touches a frame the consumer is copying out
\* at that moment: neither side ever takes a lock, so this is what makes
\* the two non-atomic copies free of data races.
NoDataRace == ProducerSlots \cap ConsumerSlots = {}

\* The metrics account for every frame: what was counted as written is what
\* was counted as read, plus what is in the ring, plus what Reset dropped,
\* up to the one call of each side that has published its index and not yet
\* counted.  (So a monitor may see frames_read ahead of frames_written, by
\* no more than one packet.)
MetricsAccount ==
  frames_written + (IF p_pc = "count" THEN Len(p_src) ELSE 0)
    = frames_read + (IF c_pc = "count" THEN c_count ELSE 0)
      + Filled + discarded

\* The frames between the indices, oldest first.
Unread ==
  [i \in 1..Filled |-> storage[SlotOf(AddIndex(read_index, i - 1))]]

\* Frames that were read and whose space the producer has not noticed.
Unnoticed == SubIndex(read_index, p_read)

\* The ring is a bounded lossy FIFO: packets are accepted whole or dropped
\* whole, a packet is dropped only if it does not fit in beside the unread
\* frames and those whose reading the producer has not noticed, unread
\* frames are never overwritten, and a read returns the oldest frames in
\* order.  A write takes effect when write_index_ is stored, a read when
\* read_index_ is stored; overflow_count counts the packets dropped.
Fifo == INSTANCE FrameFifo WITH
          capacity <- capacity_frames, queue <- Unread, hidden <- Unnoticed,
          refused <- overflow_count

ImplementsFifo == Fifo!Spec
===============================================================================
