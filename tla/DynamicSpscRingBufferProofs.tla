-------------------- MODULE DynamicSpscRingBufferProofs --------------------
(***************************************************************************)
(* For every width of the indices, every set of capacities and every       *)
(* length of the calls: the ring keeps its type, the indices and their     *)
(* stale copies stay in one window, the two copies never overlap, the      *)
(* metrics account for every frame, the ring implements a FIFO, and each   *)
(* worker can rely on what FilledFramesSnapshot tells it.                  *)
(***************************************************************************)
EXTENDS RingSnapshots, ModularArithmetic, SequenceTheorems

-----------------------------------------------------------------------------
(* Unsigned arithmetic on indices, as case distinctions without %. *)

\* The difference of two indices, as the code's uint32 subtraction gives it.
LEMMA SubIndexValue ==
  ASSUME NEW a \in Indices, NEW b \in Indices
  PROVE  SubIndex(a, b) = IF a >= b THEN a - b ELSE a - b + IndexModulus
  <1> DEFINE M == IndexModulus
  <1>0. M \in Nat \ {0}
    BY BitsAssumption
  <1> HIDE DEF M
  <1>1. a \in 0..M-1 /\ b \in 0..M-1
    BY DEF Indices, M
  <1>2. (a - b) % M = IF a >= b THEN a - b ELSE a - b + M
    BY <1>0, <1>1
  <1> QED BY <1>2 DEF SubIndex, M

\* The sum of an index and a number of frames.
LEMMA AddIndexValue ==
  ASSUME NEW a \in Indices, NEW n \in Nat, n <= IndexModulus
  PROVE  AddIndex(a, n) = IF a + n < IndexModulus THEN a + n
                                                  ELSE a + n - IndexModulus
  <1> DEFINE M == IndexModulus
  <1>0. M \in Nat \ {0}
    BY BitsAssumption
  <1> HIDE DEF M
  <1>1. a \in 0..M-1 /\ n <= M
    BY DEF Indices, M
  <1>2. (a + n) % M = IF a + n < M THEN a + n ELSE a + n - M
    BY <1>0, <1>1
  <1> QED BY <1>2 DEF AddIndex, M

\* Indices are natural numbers below the modulus, and so are differences.
LEMMA SubIndexType ==
  ASSUME NEW a \in Indices, NEW b \in Indices
  PROVE  SubIndex(a, b) \in Indices /\ SubIndex(a, b) \in Nat
                                    /\ SubIndex(a, b) < IndexModulus
  <1> IndexModulus \in Nat \ {0}
    BY BitsAssumption
  <1> HIDE DEF IndexModulus
  <1> QED BY SubIndexValue DEF Indices

\* Advancing an index by n frames lengthens its distance from b by n, as long
\* as the distance stays below the modulus.
LEMMA Advance ==
  ASSUME NEW a \in Indices, NEW b \in Indices, NEW n \in Nat,
         SubIndex(a, b) + n < IndexModulus
  PROVE  AddIndex(a, n) \in Indices /\ SubIndex(AddIndex(a, n), b) = SubIndex(a, b) + n
  <1> DEFINE M == IndexModulus
             x == AddIndex(a, n)
  <1>1. M \in Nat \ {0}
    BY BitsAssumption
  <1>2. a \in 0..M-1 /\ b \in 0..M-1
    BY DEF Indices
  <1>3. SubIndex(a, b) = IF a >= b THEN a - b ELSE a - b + M
    BY SubIndexValue
  <1>4. n <= M
    BY <1>1, <1>2, <1>3
  <1>5. x = IF a + n < M THEN a + n ELSE a + n - M
    BY <1>4, AddIndexValue
  <1>6. x \in 0..M-1
    BY <1>1, <1>2, <1>4, <1>5
  <1>7. SubIndex(x, b) = IF x >= b THEN x - b ELSE x - b + M
    BY <1>6, SubIndexValue DEF Indices
  <1>8. SubIndex(a, b) + n < M
    OBVIOUS
  <1> HIDE DEF M, x
  <1>9. SubIndex(x, b) = SubIndex(a, b) + n
    BY <1>1, <1>2, <1>3, <1>5, <1>6, <1>7, <1>8
  <1> QED BY <1>6, <1>9 DEF x, M, Indices

\* Moving the base of a distance forwards by d shortens the distance by d.
LEMMA ShiftBase ==
  ASSUME NEW a \in Indices, NEW b \in Indices, NEW d \in Nat, d <= SubIndex(a, b)
  PROVE  AddIndex(b, d) \in Indices /\ SubIndex(a, AddIndex(b, d)) = SubIndex(a, b) - d
  <1> DEFINE M == IndexModulus
             x == AddIndex(b, d)
  <1>1. M \in Nat \ {0}
    BY BitsAssumption
  <1>2. a \in 0..M-1 /\ b \in 0..M-1
    BY DEF Indices
  <1>3. SubIndex(a, b) = IF a >= b THEN a - b ELSE a - b + M
    BY SubIndexValue
  <1>4. d <= M
    BY <1>1, <1>2, <1>3
  <1>5. x = IF b + d < M THEN b + d ELSE b + d - M
    BY <1>4, AddIndexValue
  <1>6. x \in 0..M-1
    BY <1>1, <1>2, <1>4, <1>5
  <1>7. SubIndex(a, x) = IF a >= x THEN a - x ELSE a - x + M
    BY <1>6, SubIndexValue DEF Indices
  <1> HIDE DEF M, x
  <1>8. SubIndex(a, x) = SubIndex(a, b) - d
    BY <1>1, <1>2, <1>3, <1>5, <1>6, <1>7
  <1> QED BY <1>6, <1>8 DEF x, M, Indices

\* Distances from a common base subtract.
LEMMA SubtractDistances ==
  ASSUME NEW a \in Indices, NEW b \in Indices, NEW p \in Indices,
         SubIndex(a, p) <= SubIndex(b, p)
  PROVE  SubIndex(b, a) = SubIndex(b, p) - SubIndex(a, p)
  <1> IndexModulus \in Nat \ {0}
    BY BitsAssumption
  <1> HIDE DEF IndexModulus
  <1> QED BY SubIndexValue DEF Indices

\* The index k frames after z is the one as far again from b.
LEMMA FromBase ==
  ASSUME NEW z \in Indices, NEW b \in Indices, NEW k \in Nat,
         SubIndex(z, b) + k < IndexModulus
  PROVE  AddIndex(z, k) = AddIndex(b, SubIndex(z, b) + k)
  <1> DEFINE M == IndexModulus
             s == SubIndex(z, b)
  <1>1. M \in Nat \ {0}
    BY BitsAssumption
  <1>2. s = IF z >= b THEN z - b ELSE z - b + M
    BY SubIndexValue
  <1>3. s \in Nat /\ s + k \in Nat /\ k <= M /\ s + k <= M
    <2>1. s \in Nat /\ s + k < M
      BY SubIndexType
    <2> HIDE DEF s, M
    <2> QED BY <1>1, <2>1
  <1>4. AddIndex(z, k) = IF z + k < M THEN z + k ELSE z + k - M
    BY <1>3, AddIndexValue
  <1>5. AddIndex(b, s + k)
          = IF b + (s + k) < M THEN b + (s + k) ELSE b + (s + k) - M
    BY <1>3, AddIndexValue
  <1>6. z \in 0..M-1 /\ b \in 0..M-1 /\ s + k < M
    BY DEF Indices
  <1> HIDE DEF s, M
  <1>7. AddIndex(z, k) = AddIndex(b, s + k)
    BY <1>1, <1>2, <1>3, <1>4, <1>5, <1>6
  <1> QED BY <1>7 DEF s

-----------------------------------------------------------------------------
(* The size of the storage, once Initialize has set it. *)

\* The capacity is a number of frames, 0 before Initialize.
LEMMA CapacityIsNat ==
  ASSUME TypeOK
  PROVE  capacity_frames \in Nat
  <1>1. Capacities \subseteq Nat
    BY CapacityAssumption
  <1>2. capacity_frames = 0 \/ capacity_frames \in Capacities
    BY DEF TypeOK
  <1>3. ASSUME capacity_frames \in Capacities PROVE capacity_frames \in Nat
    BY <1>1, <1>3
  <1> QED BY <1>2, <1>3

\* An initialised ring has a capacity that divides the range of the indices
\* and is at most half of it; slots lie within the storage.
LEMMA CapacityFacts ==
  ASSUME TypeOK, Initialized, capacity_frames # 0
  PROVE  /\ capacity_frames \in Nat \ {0} /\ capacity_frames \in Indices
         /\ capacity_frames < IndexModulus
         /\ IndexModulus % capacity_frames = 0
         /\ \A i \in Nat : SlotOf(i) \in 0..capacity_frames-1
  <1> DEFINE M == IndexModulus
             c == capacity_frames
  <1>1. M \in Nat \ {0}
    BY BitsAssumption
  <1>2. c \in Nat \ {0} /\ M % c = 0 /\ 2 * c <= M
    BY CapacityAssumption DEF TypeOK, Initialized, ValidCapacity
  <1> HIDE DEF M, c
  <1>3. c < M /\ c \in 0..M-1
    BY <1>1, <1>2
  <1>4. \A i \in Nat : i % c \in 0..c-1
    BY <1>2
  <1> QED BY <1>2, <1>3, <1>4 DEF M, c, Indices, SlotOf

\* The slot of an index lies within the storage.
LEMMA SlotInStorage ==
  ASSUME IInv, capacity_frames # 0, NEW i \in Indices
  PROVE  SlotOf(i) \in 0..capacity_frames-1
  <1>1. i \in Nat
    BY BitsAssumption DEF Indices
  <1>2. TypeOK /\ Initialized
    BY DEF IInv
  <1> QED BY <1>1, <1>2, CapacityFacts

\* In the invariant the unsigned differences are true ones: what is unread
\* fits into the ring.
LEMMA FilledFits ==
  ASSUME IInv
  PROVE  /\ capacity_frames \in Indices
         /\ Filled = SubIndex(write_index, p_read) - SubIndex(read_index, p_read)
         /\ Filled <= capacity_frames
  <1> USE DEF IInv
  <1>1. /\ write_index \in Indices /\ read_index \in Indices
        /\ c_write \in Indices /\ p_read \in Indices
        /\ p_src \in Seq(Nat) /\ c_count \in Nat
    BY DEF TypeOK
  <1>2. Claimed \in Nat /\ Taken \in Nat
    BY <1>1 DEF Claimed, Taken
  <1>3. /\ SubIndex(write_index, p_read) \in Nat
        /\ SubIndex(read_index, p_read) \in Nat
        /\ SubIndex(c_write, p_read) \in Nat
    BY <1>1, SubIndexType
  <1>4. capacity_frames \in Indices
    BY CapacityFacts, BitsAssumption DEF Indices
  <1>5. capacity_frames \in Nat
    BY <1>4, BitsAssumption DEF Indices
  <1>6. SubIndex(read_index, p_read) <= SubIndex(write_index, p_read)
    BY <1>2, <1>3 DEF WindowOrdered
  <1>7. SubIndex(write_index, p_read) <= capacity_frames
    BY <1>2, <1>3, <1>5 DEF WindowOrdered
  <1>8. Filled = SubIndex(write_index, p_read) - SubIndex(read_index, p_read)
    BY <1>1, <1>6, SubtractDistances DEF Filled
  <1> QED BY <1>3, <1>4, <1>5, <1>7, <1>8

-----------------------------------------------------------------------------
(* The inductive invariant. *)

\* The invariant holds before anything has happened.
LEMMA InitEstablishes == Init => IInv
  <1> SUFFICES ASSUME Init
               PROVE  IInv
    OBVIOUS
  <1>1. 0 \in Indices /\ SubIndex(0, 0) = 0
    <2>1. 0 \in Indices
      BY BitsAssumption DEF Indices
    <2> QED BY <2>1, SubIndexValue
  <1>2. TypeOK
    BY <1>1 DEF Init, TypeOK
  <1>3. Initialized
    BY DEF Init, Initialized
  <1>4. WindowOrdered
    BY <1>1 DEF Init, WindowOrdered, Claimed, Taken
  <1> QED BY <1>2, <1>3, <1>4 DEF IInv

\* Initialize fixes the capacity; Initialize and Reset empty the ring.
LEMMA OrchestrationPreserves ==
  ASSUME IInv, Orchestration
  PROVE  IInv'
  <1> USE DEF IInv, metrics, producerVars, consumerVars
  <1>1. 0 \in Indices /\ SubIndex(0, 0) = 0
    <2>1. 0 \in Indices
      BY BitsAssumption DEF Indices
    <2> QED BY <2>1, SubIndexValue
  <1>2. CASE Reset
    <2>1. TypeOK'
      <3>1. SubIndex(write_index, read_index) \in Nat
        BY SubIndexType DEF TypeOK
      <3> QED BY <1>1, <1>2, <3>1 DEF TypeOK, Reset, ZeroIndices
    <2>2. Initialized'
      BY <1>2 DEF Initialized, Reset, ZeroIndices, ValidCapacity
    <2>3. WindowOrdered'
      <3>1. Claimed' = 0 /\ Taken' = 0
        BY <1>2 DEF Reset, WorkersStopped, Claimed, Taken
      <3>2. capacity_frames' = capacity_frames /\ capacity_frames \in Nat
        <4>1. capacity_frames \in Nat
          BY CapacityIsNat
        <4> QED BY <1>2, <4>1 DEF Reset
      <3> QED BY <1>1, <1>2, <3>1, <3>2 DEF WindowOrdered, Reset, ZeroIndices
    <2> QED BY <2>1, <2>2, <2>3
  <1>3. ASSUME NEW c \in Capacities, Initialize(c)
        PROVE  IInv'
    <2>1. c \in Nat /\ c >= 2 /\ ValidCapacity(c)
      BY <1>3, CapacityAssumption DEF Initialize, ValidCapacity
    <2>2. TypeOK'
      BY <1>1, <1>3, <2>1 DEF TypeOK, Initialize, ZeroIndices, Silence
    <2>3. Initialized'
      BY <1>3, <2>1 DEF Initialized, Initialize, ValidCapacity
    <2>4. WindowOrdered'
      <3>1. Claimed' = 0 /\ Taken' = 0
        BY <1>3 DEF Initialize, WorkersStopped, Claimed, Taken
      <3> QED BY <1>1, <1>3, <2>1, <3>1 DEF WindowOrdered, Initialize, ZeroIndices
    <2> QED BY <2>2, <2>3, <2>4
  <1> QED BY <1>2, <1>3 DEF Orchestration

\* The number of frames copied before the end of the storage.
LEMMA FramesToEndBounds ==
  ASSUME NEW pos \in Nat, NEW n \in Nat,
         capacity_frames \in Nat, pos < capacity_frames
  PROVE  /\ FramesToEnd(pos, n) \in 0..n
         /\ pos + FramesToEnd(pos, n) <= capacity_frames
         /\ n <= capacity_frames => n - FramesToEnd(pos, n) <= capacity_frames
  BY DEF FramesToEnd

\* A producer step keeps the window: a write claims no more than the frames
\* between the ring's end and the read index as the producer last saw it.
LEMMA ProducerKeepsWindow ==
  ASSUME IInv, Producer
  PROVE  WindowOrdered'
  <1> USE DEF IInv, consumerVars, metrics
  <1>0. /\ write_index \in Indices /\ read_index \in Indices
        /\ c_write \in Indices /\ p_read \in Indices
        /\ p_src \in Seq(Nat) /\ Len(p_src) \in Nat /\ c_count \in Nat
    BY DEF TypeOK
  <1>1. /\ SubIndex(write_index, p_read) \in Nat
        /\ SubIndex(read_index, p_read) \in Nat
        /\ SubIndex(c_write, p_read) \in Nat
    BY <1>0, SubIndexType
  <1>2. capacity_frames \in Nat /\ Claimed \in Nat /\ Taken \in Nat
    BY <1>0, CapacityIsNat DEF Claimed, Taken
  <1>3. ASSUME NEW n \in FrameCounts, NEW silent \in BOOLEAN,
               TryWriteFrames(n, silent)
        PROVE  WindowOrdered'
    <2>1. n \in Nat
      BY FramesAssumption
    <2>2. PICK read \in Visible(p_read, read_index) :
            /\ p_read' = read
            /\ \/ /\ n > FreeFrames(read)
                  /\ RefuseWrite(n)
               \/ /\ n <= FreeFrames(read)
                  /\ p_pc' = "copy"
                  /\ p_src' = Packet(n, silent)
      BY <1>3 DEF TryWriteFrames
    <2>3. PICK d \in 0..SubIndex(read_index, p_read) : read = AddIndex(p_read, d)
      BY DEF Visible
    <2>4. d \in Nat /\ d <= SubIndex(read_index, p_read)
      BY <1>1
    <2>5. /\ d <= SubIndex(c_write, p_read)
          /\ d <= SubIndex(write_index, p_read)
      BY <1>1, <1>2, <2>4 DEF WindowOrdered
    <2>6. /\ read \in Indices
          /\ SubIndex(read_index, read) = SubIndex(read_index, p_read) - d
          /\ SubIndex(c_write, read) = SubIndex(c_write, p_read) - d
          /\ SubIndex(write_index, read) = SubIndex(write_index, p_read) - d
      BY <1>0, <2>3, <2>4, <2>5, ShiftBase
    <2>7. /\ write_index' = write_index /\ read_index' = read_index
          /\ c_write' = c_write /\ capacity_frames' = capacity_frames
          /\ Taken' = Taken /\ p_read' = read
      BY <1>3, <2>2 DEF TryWriteFrames, Taken
    <2>8. SubIndex(write_index, read) + Claimed' <= capacity_frames
      <3>1. SubIndex(write_index, read) <= capacity_frames
        BY <1>1, <1>2, <2>4, <2>6 DEF WindowOrdered
      <3>2. CASE RefuseWrite(n)
        <4>1. Claimed' = 0
          BY <1>3, <3>2 DEF Claimed, RefuseWrite, TryWriteFrames
        <4> QED BY <1>1, <2>4, <2>6, <3>1, <4>1
      <3>3. CASE n <= FreeFrames(read) /\ p_src' = Packet(n, silent)
        <4>1. Claimed' \in {0, n}
          BY <2>1, <3>3 DEF Claimed, Packet
        <4>2. FreeFrames(read) = capacity_frames - SubIndex(write_index, read)
          <5>1. capacity_frames \in Indices /\ SubIndex(write_index, read) \in Indices
            BY <1>0, <2>6, FilledFits, SubIndexType
          <5> QED BY <3>1, <5>1, <1>2, SubIndexValue, SubIndexType, <2>6, <1>0
              DEF FreeFrames
        <4> QED BY <1>2, <2>1, <3>1, <3>3, <4>1, <4>2, <1>1, <2>6, <2>4
      <3> QED BY <2>2, <3>2, <3>3
    <2> QED BY <1>1, <1>2, <2>4, <2>6, <2>7, <2>8 DEF WindowOrdered
  <1>4. CASE CopyToEnd
    <2>1. Claimed' = Claimed /\ Taken' = Taken
      BY <1>4 DEF CopyToEnd, Claimed, Taken
    <2> QED BY <1>4, <2>1 DEF CopyToEnd, WindowOrdered
  <1>5. CASE CopyWrapped
    <2>1. Claimed' = Claimed /\ Taken' = Taken
      BY <1>5 DEF CopyWrapped, Claimed, Taken
    <2> QED BY <1>5, <2>1 DEF CopyWrapped, WindowOrdered
  <1>6. CASE PublishWrite
    <2>1. Claimed = Len(p_src) /\ Claimed' = 0 /\ Taken' = Taken
      BY <1>6 DEF PublishWrite, Claimed, Taken
    <2>2. capacity_frames < IndexModulus
      BY <1>2, FilledFits, BitsAssumption DEF Indices
    <2>3. SubIndex(write_index, p_read) + Len(p_src) <= capacity_frames
      BY <2>1 DEF WindowOrdered
    <2>4. SubIndex(write_index', p_read) = SubIndex(write_index, p_read) + Len(p_src)
      <3>1. SubIndex(write_index, p_read) + Len(p_src) < IndexModulus
        BY <1>0, <1>1, <1>2, <2>2, <2>3, BitsAssumption
      <3> QED BY <1>0, <1>6, <3>1, Advance DEF PublishWrite
    <2>5. /\ read_index' = read_index /\ p_read' = p_read /\ c_write' = c_write
          /\ capacity_frames' = capacity_frames
      BY <1>6 DEF PublishWrite
    <2> QED BY <1>0, <1>1, <1>2, <2>1, <2>3, <2>4, <2>5 DEF WindowOrdered
  <1>7. CASE CountWritten
    <2>1. Claimed' = Claimed /\ Taken' = Taken
      BY <1>7 DEF CountWritten, Claimed, Taken
    <2> QED BY <1>7, <2>1 DEF CountWritten, WindowOrdered
  <1> QED BY <1>3, <1>4, <1>5, <1>6, <1>7 DEF Producer

\* A consumer step keeps the window: a read takes no more than the frames
\* between the read index and the write index as the consumer last saw it.
LEMMA ConsumerKeepsWindow ==
  ASSUME IInv, Consumer
  PROVE  WindowOrdered'
  <1> USE DEF IInv, producerVars, metrics
  <1>0. /\ write_index \in Indices /\ read_index \in Indices
        /\ c_write \in Indices /\ p_read \in Indices
        /\ p_src \in Seq(Nat) /\ Len(p_src) \in Nat /\ c_count \in Nat
    BY DEF TypeOK
  <1>1. /\ SubIndex(write_index, p_read) \in Nat
        /\ SubIndex(read_index, p_read) \in Nat
        /\ SubIndex(c_write, p_read) \in Nat
    BY <1>0, SubIndexType
  <1>2. capacity_frames \in Nat /\ Claimed \in Nat /\ Taken \in Nat
    BY <1>0, CapacityIsNat DEF Claimed, Taken
  <1>3. ASSUME NEW n \in FrameCounts, TryReadFrames(n)
        PROVE  WindowOrdered'
    <2>1. n \in Nat
      BY FramesAssumption
    <2>2. PICK write \in Visible(c_write, write_index) :
            /\ c_write' = write
            /\ \/ /\ n > SubIndex(write, read_index)
                  /\ UNCHANGED <<c_pc, c_count>>
               \/ /\ n <= SubIndex(write, read_index)
                  /\ c_pc' = "copy"
                  /\ c_count' = n
      BY <1>3 DEF TryReadFrames
    <2>3. PICK d \in 0..SubIndex(write_index, c_write) : write = AddIndex(c_write, d)
      BY DEF Visible
    <2>4. /\ SubIndex(c_write, p_read) <= SubIndex(write_index, p_read)
          /\ SubIndex(read_index, p_read) <= SubIndex(c_write, p_read)
      BY <1>1, <1>2 DEF WindowOrdered
    <2>5. SubIndex(write_index, c_write)
            = SubIndex(write_index, p_read) - SubIndex(c_write, p_read)
      BY <1>0, <2>4, SubtractDistances
    <2>6. d \in Nat /\ SubIndex(c_write, p_read) + d <= SubIndex(write_index, p_read)
      BY <1>1, <2>4, <2>5
    <2>7. /\ write \in Indices
          /\ SubIndex(write, p_read) = SubIndex(c_write, p_read) + d
      <3>1. SubIndex(c_write, p_read) + d < IndexModulus
        BY <1>0, <1>1, <2>6, SubIndexType, BitsAssumption
      <3> QED BY <1>0, <2>3, <2>6, <3>1, Advance
    <2>8. /\ write_index' = write_index /\ read_index' = read_index
          /\ p_read' = p_read /\ capacity_frames' = capacity_frames
          /\ Claimed' = Claimed /\ c_write' = write
      BY <1>3, <2>2 DEF TryReadFrames, Claimed
    <2>9. SubIndex(read_index, p_read) + Taken' <= SubIndex(write, p_read)
      <3>1. SubIndex(read_index, p_read) <= SubIndex(write, p_read)
        BY <1>1, <2>4, <2>6, <2>7
      <3>2. CASE UNCHANGED <<c_pc, c_count>>
        <4>1. Taken' = 0
          BY <1>3, <3>2 DEF TryReadFrames, Taken
        <4> QED BY <1>1, <3>1, <4>1
      <3>3. CASE n <= SubIndex(write, read_index) /\ c_pc' = "copy" /\ c_count' = n
        <4>1. Taken' = n
          BY <3>3 DEF Taken
        <4>2. SubIndex(write, read_index)
                = SubIndex(write, p_read) - SubIndex(read_index, p_read)
          BY <1>0, <2>7, <3>1, SubtractDistances
        <4>3. SubIndex(write, p_read) \in Nat
          BY <1>1, <2>6, <2>7
        <4> QED BY <1>1, <2>1, <3>3, <4>1, <4>2, <4>3
      <3> QED BY <2>2, <3>2, <3>3
    <2> QED BY <1>1, <1>2, <2>6, <2>7, <2>8, <2>9 DEF WindowOrdered
  <1>4. CASE ReadToEnd
    <2>1. Claimed' = Claimed /\ Taken' = Taken
      BY <1>4 DEF ReadToEnd, Claimed, Taken
    <2> QED BY <1>4, <2>1 DEF ReadToEnd, WindowOrdered
  <1>5. CASE ReadWrapped
    <2>1. Claimed' = Claimed /\ Taken' = Taken
      BY <1>5 DEF ReadWrapped, Claimed, Taken
    <2> QED BY <1>5, <2>1 DEF ReadWrapped, WindowOrdered
  <1>6. CASE PublishRead
    <2>1. Taken = c_count /\ Taken' = 0 /\ Claimed' = Claimed
      BY <1>6 DEF PublishRead, Claimed, Taken
    <2>2. SubIndex(read_index, p_read) + c_count <= SubIndex(c_write, p_read)
      BY <2>1 DEF WindowOrdered
    <2>3. SubIndex(read_index', p_read) = SubIndex(read_index, p_read) + c_count
      <3>1. SubIndex(read_index, p_read) + c_count < IndexModulus
        BY <1>0, <1>1, <2>2, SubIndexType, BitsAssumption
      <3> QED BY <1>0, <1>6, <3>1, Advance DEF PublishRead
    <2>4. /\ write_index' = write_index /\ p_read' = p_read /\ c_write' = c_write
          /\ capacity_frames' = capacity_frames
      BY <1>6 DEF PublishRead
    <2> QED BY <1>0, <1>1, <1>2, <2>1, <2>2, <2>3, <2>4 DEF WindowOrdered
  <1>7. CASE CountRead
    <2>1. Claimed' = Claimed /\ Taken' = Taken
      BY <1>7 DEF CountRead, Claimed, Taken
    <2> QED BY <1>7, <2>1 DEF CountRead, WindowOrdered
  <1> QED BY <1>3, <1>4, <1>5, <1>6, <1>7 DEF Consumer

\* An acquire load returns an index.
LEMMA VisibleType ==
  ASSUME NEW seen \in Indices, NEW current \in Indices, NEW i \in Visible(seen, current)
  PROVE  i \in Indices
  <1>1. PICK d \in 0..SubIndex(current, seen) : i = AddIndex(seen, d)
    BY DEF Visible
  <1>2. d \in Nat /\ d <= SubIndex(current, seen)
    BY <1>1, SubIndexType
  <1> QED BY <1>1, <1>2, ShiftBase

\* A producer step keeps the type: its copies stay within its packet.
LEMMA ProducerKeepsType ==
  ASSUME IInv, Producer
  PROVE  TypeOK'
  <1> USE DEF IInv, consumerVars, metrics
  <1>0. /\ TypeOK /\ p_src \in Seq(Nat) /\ Len(p_src) \in Nat
        /\ storage \in [0..capacity_frames-1 -> Nat] /\ capacity_frames \in Nat
        /\ write_index \in Indices /\ read_index \in Indices /\ p_read \in Indices
    BY CapacityIsNat DEF TypeOK
  <1>1. ASSUME capacity_frames # 0
        PROVE  SlotOf(write_index) \in 0..capacity_frames-1
    BY <1>0, <1>1, SlotInStorage
  <1>2. ASSUME capacity_frames # 0
        PROVE  FramesToEnd(SlotOf(write_index), Len(p_src)) \in 0..Len(p_src)
    <2>1. SlotOf(write_index) \in Nat /\ SlotOf(write_index) < capacity_frames
      BY <1>0, <1>1, <1>2
    <2> QED BY <1>0, <2>1, FramesToEndBounds
  <1>3. ASSUME NEW n \in FrameCounts, NEW silent \in BOOLEAN,
               TryWriteFrames(n, silent)
        PROVE  TypeOK'
    <2>1. n \in Nat
      BY FramesAssumption
    <2>2. p_read' \in Indices
      BY <1>0, <1>3, VisibleType DEF TryWriteFrames
    <2>3. Packet(n, silent) \in Seq(Nat)
      BY <2>1 DEF Packet, Silence, TypeOK
    <2>4. CASE RefuseWrite(n)
      BY <1>0, <1>3, <2>1, <2>2, <2>4 DEF TryWriteFrames, RefuseWrite, TypeOK
    <2>5. CASE /\ p_pc' = "copy" /\ p_src' = Packet(n, silent)
               /\ UNCHANGED <<captured, overflow_count>>
      BY <1>0, <1>3, <2>2, <2>3, <2>5 DEF TryWriteFrames, TypeOK
    <2> QED BY <1>3, <2>4, <2>5 DEF TryWriteFrames
  <1>4. CASE CopyToEnd
    <2>1. storage' \in [0..capacity_frames-1 -> Nat]
      <3> DEFINE pos   == SlotOf(write_index)
                 toEnd == FramesToEnd(pos, Len(p_src))
      <3>1. ASSUME NEW s \in 0..capacity_frames-1, s \in pos..pos+toEnd-1
            PROVE  p_src[s - pos + 1] \in Nat
        <4>1. s - pos + 1 \in 1..Len(p_src)
          BY <1>0, <1>1, <1>2, <3>1
        <4> QED BY <1>0, <4>1
      <3>2. storage' = [s \in 0..capacity_frames-1 |->
                          IF s \in pos..pos+toEnd-1 THEN p_src[s - pos + 1]
                                                    ELSE storage[s]]
        BY <1>0, <1>4 DEF CopyToEnd
      <3> HIDE DEF pos, toEnd
      <3> QED BY <1>0, <3>1, <3>2
    <2> QED BY <1>0, <1>4, <2>1 DEF CopyToEnd, TypeOK
  <1>5. CASE CopyWrapped
    <2>1. storage' \in [0..capacity_frames-1 -> Nat]
      <3> DEFINE toEnd == FramesToEnd(SlotOf(write_index), Len(p_src))
      <3>1. ASSUME NEW s \in 0..capacity_frames-1, s < Len(p_src) - toEnd
            PROVE  p_src[toEnd + s + 1] \in Nat
        <4>1. toEnd + s + 1 \in 1..Len(p_src)
          BY <1>0, <1>2, <3>1
        <4> QED BY <1>0, <4>1
      <3>2. storage' = [s \in 0..capacity_frames-1 |->
                          IF s < Len(p_src) - toEnd THEN p_src[toEnd + s + 1]
                                                    ELSE storage[s]]
        BY <1>0, <1>5 DEF CopyWrapped
      <3> HIDE DEF toEnd
      <3> QED BY <1>0, <3>1, <3>2
    <2> QED BY <1>0, <1>5, <2>1 DEF CopyWrapped, TypeOK
  <1>6. CASE PublishWrite
    <2>1. write_index' \in Indices
      <3>1. IndexModulus \in Nat \ {0} /\ write_index' = AddIndex(write_index, Len(p_src))
        BY <1>6, BitsAssumption DEF PublishWrite
      <3> QED BY <1>0, <3>1 DEF AddIndex, Indices
    <2> QED BY <1>0, <1>6, <2>1 DEF PublishWrite, TypeOK
  <1>7. CASE CountWritten
    BY <1>0, <1>7 DEF CountWritten, TypeOK
  <1> QED BY <1>3, <1>4, <1>5, <1>6, <1>7 DEF Producer

\* A consumer step keeps the type: its copies stay within the storage, which
\* needs the window, for a read longer than the ring would leave it.
LEMMA ConsumerKeepsType ==
  ASSUME IInv, Consumer
  PROVE  TypeOK'
  <1> USE DEF IInv, producerVars, metrics
  <1>0. /\ TypeOK /\ c_count \in Nat /\ c_dst \in Seq(Nat)
        /\ storage \in [0..capacity_frames-1 -> Nat] /\ capacity_frames \in Nat
        /\ write_index \in Indices /\ read_index \in Indices
        /\ c_write \in Indices /\ p_read \in Indices
    BY CapacityIsNat DEF TypeOK
  <1>1. ASSUME NEW n \in FrameCounts, TryReadFrames(n)
        PROVE  TypeOK'
    <2>1. n \in Nat
      BY FramesAssumption
    <2>2. c_write' \in Indices
      BY <1>0, <1>1, VisibleType DEF TryReadFrames
    <2> QED BY <1>0, <1>1, <2>1, <2>2 DEF TryReadFrames, TypeOK
  <1>2. ASSUME c_pc \in {"copy", "wrap"}
        PROVE  /\ SlotOf(read_index) \in 0..capacity_frames-1
               /\ FramesToEnd(SlotOf(read_index), c_count) \in 0..c_count
               /\ SlotOf(read_index) + FramesToEnd(SlotOf(read_index), c_count)
                    <= capacity_frames
               /\ c_count - FramesToEnd(SlotOf(read_index), c_count)
                    <= capacity_frames
    <2>1. capacity_frames # 0
      BY <1>2 DEF Initialized
    <2>2. SlotOf(read_index) \in 0..capacity_frames-1
      BY <1>0, <2>1, SlotInStorage
    <2>3. c_count <= capacity_frames
      <3>1. /\ SubIndex(write_index, p_read) \in Nat
            /\ SubIndex(read_index, p_read) \in Nat
            /\ SubIndex(c_write, p_read) \in Nat
        BY <1>0, SubIndexType
      <3>2. Taken = c_count /\ Claimed \in Nat
        BY <1>2 DEF Taken, Claimed, TypeOK
      <3> QED BY <1>0, <3>1, <3>2 DEF WindowOrdered
    <2>4. SlotOf(read_index) \in Nat /\ SlotOf(read_index) < capacity_frames
      BY <1>0, <2>2
    <2> QED BY <1>0, <2>2, <2>3, <2>4, FramesToEndBounds
  <1>3. CASE ReadToEnd
    <2> DEFINE pos   == SlotOf(read_index)
               toEnd == FramesToEnd(pos, c_count)
    <2>1. c_dst' = [i \in 1..toEnd |-> storage[pos + i - 1]]
      BY <1>3 DEF ReadToEnd
    <2>2. /\ pos \in 0..capacity_frames-1 /\ toEnd \in 0..c_count
          /\ pos + toEnd <= capacity_frames
      BY <1>2, <1>3 DEF ReadToEnd
    <2> HIDE DEF pos, toEnd
    <2>3. ASSUME NEW i \in 1..toEnd
          PROVE  storage[pos + i - 1] \in Nat
      <3>1. pos + i - 1 \in 0..capacity_frames-1
        BY <1>0, <2>2
      <3> QED BY <1>0, <3>1
    <2>4. c_dst' \in Seq(Nat)
      BY <1>0, <2>1, <2>2, <2>3
    <2> QED BY <1>0, <1>3, <2>4 DEF ReadToEnd, TypeOK
  <1>4. CASE ReadWrapped
    <2> DEFINE toEnd == FramesToEnd(SlotOf(read_index), c_count)
               rest  == [i \in 1..c_count - toEnd |-> storage[i - 1]]
    <2>1. c_dst' = c_dst \o rest
      BY <1>4 DEF ReadWrapped
    <2>2. c_count - toEnd \in Nat /\ c_count - toEnd <= capacity_frames
      <3>1. toEnd \in 0..c_count /\ c_count - toEnd <= capacity_frames
        BY <1>2, <1>4 DEF ReadWrapped
      <3> HIDE DEF toEnd
      <3> QED BY <1>0, <3>1
    <2> HIDE DEF toEnd
    <2>3. rest \in Seq(Nat)
      <3>1. ASSUME NEW i \in 1..c_count - toEnd
            PROVE  storage[i - 1] \in Nat
        <4>1. i - 1 \in 0..capacity_frames-1
          BY <1>0, <2>2
        <4> QED BY <1>0, <4>1
      <3> QED BY <2>2, <3>1
    <2> HIDE DEF rest
    <2>4. c_dst' \in Seq(Nat)
      BY <1>0, <2>1, <2>3
    <2> QED BY <1>0, <1>4, <2>4 DEF ReadWrapped, TypeOK
  <1>5. CASE PublishRead
    <2>1. read_index' \in Indices
      <3>1. IndexModulus \in Nat \ {0} /\ read_index' = AddIndex(read_index, c_count)
        BY <1>5, BitsAssumption DEF PublishRead
      <3> QED BY <1>0, <3>1 DEF AddIndex, Indices
    <2> QED BY <1>0, <1>5, <2>1 DEF PublishRead, TypeOK
  <1>6. CASE CountRead
    BY <1>0, <1>6 DEF CountRead, TypeOK
  <1> QED BY <1>1, <1>3, <1>4, <1>5, <1>6 DEF Consumer

\* A load of an index that is 0 and was seen to be 0 returns 0.
LEMMA NothingNew == Visible(0, 0) = {0} /\ SubIndex(0, 0) = 0
  <1>1. 0 \in Indices
    BY BitsAssumption DEF Indices
  <1>2. SubIndex(0, 0) = 0
    BY <1>1, SubIndexValue
  <1>3. AddIndex(0, 0) = 0
    BY <1>1, AddIndexValue, BitsAssumption
  <1> QED BY <1>2, <1>3 DEF Visible

\* Without a capacity no call gets past its first check.
LEMMA WorkersKeepInitialized ==
  ASSUME IInv, Producer \/ Consumer
  PROVE  Initialized'
  <1> USE DEF IInv, producerVars, consumerVars, metrics
  <1>1. capacity_frames' = capacity_frames
    BY DEF Producer, TryWriteFrames, CopyToEnd, CopyWrapped, PublishWrite,
           CountWritten, Consumer, TryReadFrames, ReadToEnd, ReadWrapped,
           PublishRead, CountRead
  <1>2. CASE capacity_frames # 0
    BY <1>1, <1>2 DEF Initialized, ValidCapacity
  <1>3. CASE capacity_frames = 0
    <2>1. /\ p_pc = "idle" /\ c_pc = "idle"
          /\ write_index = 0 /\ read_index = 0 /\ p_read = 0 /\ c_write = 0
      BY <1>3 DEF Initialized
    <2>2. Visible(0, 0) = {0}
      BY NothingNew
    <2>3. SubIndex(0, 0) = 0
      BY NothingNew
    <2>4. ASSUME NEW n \in FrameCounts, NEW silent \in BOOLEAN,
                 TryWriteFrames(n, silent)
          PROVE  Initialized'
      <3>1. n \in Nat /\ n # 0
        BY <2>4, FramesAssumption DEF TryWriteFrames
      <3>2. FreeFrames(0) = 0
        BY <1>3, <2>1, <2>3 DEF FreeFrames
      <3>3. p_read' = 0 /\ RefuseWrite(n)
        BY <2>1, <2>2, <2>4, <3>1, <3>2 DEF TryWriteFrames
      <3> QED BY <1>3, <2>1, <2>4, <3>3 DEF TryWriteFrames, RefuseWrite, Initialized
    <2>5. ASSUME NEW n \in FrameCounts, TryReadFrames(n)
          PROVE  Initialized'
      <3>1. n \in Nat /\ n # 0
        BY <2>5, FramesAssumption DEF TryReadFrames
      <3>2. c_write' = 0 /\ UNCHANGED c_pc
        BY <2>1, <2>2, <2>3, <2>5, <3>1 DEF TryReadFrames
      <3> QED BY <1>3, <2>1, <2>5, <3>2 DEF TryReadFrames, Initialized
    <2>6. CASE CopyToEnd \/ CopyWrapped \/ PublishWrite \/ CountWritten
      BY <2>1, <2>6 DEF CopyToEnd, CopyWrapped, PublishWrite, CountWritten
    <2>7. CASE ReadToEnd \/ ReadWrapped \/ PublishRead \/ CountRead
      BY <2>1, <2>7 DEF ReadToEnd, ReadWrapped, PublishRead, CountRead
    <2> QED BY <2>4, <2>5, <2>6, <2>7 DEF Producer, Consumer
  <1> QED BY <1>2, <1>3

\* A step that changes nothing preserves the invariant.
LEMMA StutteringPreserves ==
  ASSUME IInv, UNCHANGED vars
  PROVE  IInv'
  BY DEF vars, producerVars, consumerVars, metrics, IInv, TypeOK, Initialized,
         ValidCapacity, WindowOrdered, Claimed, Taken

\* Every step of the ring preserves the invariant.
LEMMA NextPreserves ==
  ASSUME IInv, [Next]_vars
  PROVE  IInv'
  <1>1. CASE Orchestration
    BY <1>1, OrchestrationPreserves
  <1>2. CASE Producer
    <2>1. TypeOK' /\ WindowOrdered'
      BY <1>2, ProducerKeepsType, ProducerKeepsWindow
    <2> QED BY <1>2, <2>1, WorkersKeepInitialized DEF IInv
  <1>3. CASE Consumer
    <2>1. TypeOK' /\ WindowOrdered'
      BY <1>3, ConsumerKeepsType, ConsumerKeepsWindow
    <2> QED BY <1>3, <2>1, WorkersKeepInitialized DEF IInv
  <1>4. CASE UNCHANGED vars
    BY <1>4, StutteringPreserves
  <1> QED BY <1>1, <1>2, <1>3, <1>4 DEF Next

\* Every reachable state satisfies the inductive invariant.
THEOREM Invariance == Spec => []IInv
  <1>1. Init => IInv
    BY InitEstablishes
  <1>2. IInv /\ [Next]_vars => IInv'
    BY NextPreserves
  <1> QED BY <1>1, <1>2, PTL DEF Spec

\* Indices stay within their width, the storage keeps its size and every copy
\* stays within it: nothing the two workers do in whatever order leaves the
\* types of the fields of DynamicSpscRingBuffer.
THEOREM TypeCorrect == Spec => []TypeOK
  <1>1. IInv => TypeOK
    BY DEF IInv
  <1> QED BY <1>1, Invariance, PTL

\* p_read, read_index, c_write and write_index stay in that order in a window
\* no wider than the ring, across every wrap of the unsigned indices.
THEOREM WindowAlwaysOrdered == Spec => []WindowOrdered
  <1>1. IInv => WindowOrdered
    BY DEF IInv
  <1> QED BY <1>1, Invariance, PTL

-----------------------------------------------------------------------------
(* What follows from the window. *)

\* The read index the producer may load is d frames further than the one it
\* had: every distance from it is d shorter, and the space it sees is the
\* capacity less what is unread and what is read but not noticed.
LEMMA LoadedRead ==
  ASSUME IInv, NEW read \in Visible(p_read, read_index)
  PROVE  /\ read \in Indices
         /\ \E d \in 0..SubIndex(read_index, p_read) :
              /\ SubIndex(read_index, read) = SubIndex(read_index, p_read) - d
              /\ SubIndex(c_write, read) = SubIndex(c_write, p_read) - d
              /\ SubIndex(write_index, read) = SubIndex(write_index, p_read) - d
         /\ SubIndex(write_index, read) <= capacity_frames
         /\ FreeFrames(read) = capacity_frames - SubIndex(write_index, read)
         /\ SubIndex(write_index, read) = Filled + SubIndex(read_index, read)
  <1> USE DEF IInv
  <1>0. /\ write_index \in Indices /\ read_index \in Indices
        /\ c_write \in Indices /\ p_read \in Indices
        /\ p_src \in Seq(Nat) /\ Len(p_src) \in Nat /\ c_count \in Nat
    BY DEF TypeOK
  <1>1. /\ SubIndex(write_index, p_read) \in Nat
        /\ SubIndex(read_index, p_read) \in Nat
        /\ SubIndex(c_write, p_read) \in Nat
    BY <1>0, SubIndexType
  <1>2. capacity_frames \in Nat /\ Claimed \in Nat /\ Taken \in Nat
    BY <1>0, CapacityIsNat DEF Claimed, Taken
  <1>3. PICK d \in 0..SubIndex(read_index, p_read) : read = AddIndex(p_read, d)
    BY DEF Visible
  <1>4. /\ d \in Nat /\ d <= SubIndex(read_index, p_read)
        /\ d <= SubIndex(c_write, p_read) /\ d <= SubIndex(write_index, p_read)
    BY <1>1, <1>2 DEF WindowOrdered
  <1>5. /\ read \in Indices
        /\ SubIndex(read_index, read) = SubIndex(read_index, p_read) - d
        /\ SubIndex(c_write, read) = SubIndex(c_write, p_read) - d
        /\ SubIndex(write_index, read) = SubIndex(write_index, p_read) - d
    BY <1>0, <1>3, <1>4, ShiftBase
  <1>6. SubIndex(write_index, read) <= capacity_frames
    BY <1>1, <1>2, <1>4, <1>5 DEF WindowOrdered
  <1>7. FreeFrames(read) = capacity_frames - SubIndex(write_index, read)
    <2>1. capacity_frames \in Indices /\ SubIndex(write_index, read) \in Indices
      BY <1>0, <1>5, FilledFits, SubIndexType
    <2> QED BY <1>6, <2>1, SubIndexValue DEF FreeFrames
  <1>8. SubIndex(write_index, read) = Filled + SubIndex(read_index, read)
    <2> HIDE DEF Filled
    <2> QED BY <1>1, <1>4, <1>5, FilledFits
  <1> QED BY <1>5, <1>6, <1>7, <1>8

\* The write index the consumer may load lies between the one it had and the
\* current one.
LEMMA LoadedWrite ==
  ASSUME IInv, NEW write \in Visible(c_write, write_index)
  PROVE  /\ write \in Indices
         /\ SubIndex(c_write, p_read) <= SubIndex(write, p_read)
         /\ SubIndex(write, p_read) <= SubIndex(write_index, p_read)
         /\ SubIndex(write, read_index)
              = SubIndex(write, p_read) - SubIndex(read_index, p_read)
  <1> USE DEF IInv
  <1>0. /\ write_index \in Indices /\ read_index \in Indices
        /\ c_write \in Indices /\ p_read \in Indices /\ c_count \in Nat
    BY DEF TypeOK
  <1>1. /\ SubIndex(write_index, p_read) \in Nat
        /\ SubIndex(read_index, p_read) \in Nat
        /\ SubIndex(c_write, p_read) \in Nat
        /\ SubIndex(write_index, p_read) < IndexModulus
    BY <1>0, SubIndexType
  <1>2. Taken \in Nat
    BY <1>0 DEF Taken
  <1>3. PICK d \in 0..SubIndex(write_index, c_write) : write = AddIndex(c_write, d)
    BY DEF Visible
  <1>4. /\ SubIndex(c_write, p_read) <= SubIndex(write_index, p_read)
        /\ SubIndex(read_index, p_read) <= SubIndex(c_write, p_read)
    BY <1>1, <1>2 DEF WindowOrdered
  <1>5. SubIndex(write_index, c_write)
          = SubIndex(write_index, p_read) - SubIndex(c_write, p_read)
    BY <1>0, <1>4, SubtractDistances
  <1>6. d \in Nat /\ SubIndex(c_write, p_read) + d <= SubIndex(write_index, p_read)
    BY <1>1, <1>4, <1>5
  <1>7. /\ write \in Indices
        /\ SubIndex(write, p_read) = SubIndex(c_write, p_read) + d
    <2>1. SubIndex(c_write, p_read) + d < IndexModulus
      BY <1>1, <1>6, BitsAssumption
    <2> QED BY <1>0, <1>3, <1>6, <2>1, Advance
  <1>8. SubIndex(read_index, p_read) <= SubIndex(write, p_read)
    BY <1>1, <1>4, <1>6, <1>7
  <1>9. SubIndex(write, read_index)
          = SubIndex(write, p_read) - SubIndex(read_index, p_read)
    BY <1>0, <1>7, <1>8, SubtractDistances
  <1> QED BY <1>1, <1>6, <1>7, <1>9

\* Two indices of the window that are at different distances from p_read
\* stand for different slots.
LEMMA WindowSlotsDiffer ==
  ASSUME IInv, capacity_frames # 0,
         NEW x \in Indices, NEW y \in Indices, NEW i \in Nat, NEW j \in Nat,
         SubIndex(y, p_read) + j < SubIndex(x, p_read) + i,
         SubIndex(x, p_read) + i < capacity_frames
  PROVE  SlotOf(AddIndex(x, i)) # SlotOf(AddIndex(y, j))
  <1> DEFINE M == IndexModulus
             c == capacity_frames
             a == SubIndex(x, p_read) + i
             b == SubIndex(y, p_read) + j
  <1>1. M \in Nat \ {0} /\ c \in Nat \ {0} /\ c < M /\ M % c = 0
    BY BitsAssumption, CapacityFacts DEF IInv
  <1>2. p_read \in Indices /\ p_read \in Nat
    BY BitsAssumption DEF IInv, TypeOK, Indices
  <1>3. SubIndex(x, p_read) \in Nat /\ SubIndex(y, p_read) \in Nat
    BY <1>2, SubIndexType
  <1>4. a \in Nat /\ b \in Nat /\ b < a /\ a - b < c
    <2> HIDE DEF c
    <2>1. a < c
      BY DEF c
    <2> QED BY <1>1, <1>3, <2>1
  <1>5. AddIndex(x, i) = AddIndex(p_read, a) /\ AddIndex(y, j) = AddIndex(p_read, b)
    <2>1. SubIndex(x, p_read) + i < M /\ SubIndex(y, p_read) + j < M
      <3> HIDE DEF M, c
      <3>1. a < c
        BY DEF c
      <3> QED BY <1>1, <1>4, <3>1
    <2> QED BY <1>2, <2>1, FromBase
  <1>6. ((p_read + a) % M) % c # ((p_read + b) % M) % c
    <2> HIDE DEF a, b, c, M
    <2>1. p_read \in Int /\ a \in Int /\ b \in Int
      BY <1>2, <1>4
    <2> QED BY <1>1, <1>4, <2>1, WrappedSlotsDiffer
  <1> QED BY <1>5, <1>6 DEF SlotOf, AddIndex

\* The producer's memcpy never touches a frame that the consumer's memcpy is
\* reading: the lock-free ring has no data race on its storage.
THEOREM RaceFree == Spec => []NoDataRace
  <1>1. ASSUME IInv
        PROVE  NoDataRace
    <2> SUFFICES ASSUME NEW i \in 0..Claimed-1, NEW j \in 0..Taken-1,
                        SlotOf(AddIndex(write_index, i)) = SlotOf(AddIndex(read_index, j))
                 PROVE  FALSE
      BY DEF NoDataRace, ProducerSlots, ConsumerSlots
    <2>1. /\ write_index \in Indices /\ read_index \in Indices
          /\ c_write \in Indices /\ p_read \in Indices
          /\ p_src \in Seq(Nat) /\ c_count \in Nat /\ capacity_frames \in Nat
      BY <1>1, CapacityIsNat DEF IInv, TypeOK
    <2>2. Claimed \in Nat /\ Taken \in Nat
      BY <2>1 DEF Claimed, Taken
    <2>3. /\ SubIndex(write_index, p_read) \in Nat
          /\ SubIndex(read_index, p_read) \in Nat
          /\ SubIndex(c_write, p_read) \in Nat
      BY <2>1, SubIndexType
    <2>4. /\ i \in Nat /\ j \in Nat /\ i < Claimed /\ j < Taken
      BY <2>2
    <2>5. /\ SubIndex(read_index, p_read) + j < SubIndex(write_index, p_read) + i
          /\ SubIndex(write_index, p_read) + i < capacity_frames
      BY <1>1, <2>1, <2>2, <2>3, <2>4 DEF IInv, WindowOrdered
    <2>6. capacity_frames # 0
      BY <2>1, <2>3, <2>4, <2>5
    <2> QED BY <1>1, <2>1, <2>4, <2>5, <2>6, WindowSlotsDiffer
  <1>2. IInv => NoDataRace
    BY <1>1
  <1> QED BY <1>2, Invariance, PTL

-----------------------------------------------------------------------------
(* The metrics. *)

\* Publishing a packet fills the ring by its length.
LEMMA PublishWriteFills ==
  ASSUME IInv, PublishWrite
  PROVE  Filled' = Filled + Len(p_src)
  <1>1. /\ write_index \in Indices /\ read_index \in Indices
        /\ c_write \in Indices /\ p_read \in Indices
        /\ Len(p_src) \in Nat /\ c_count \in Nat /\ capacity_frames \in Nat
    BY CapacityIsNat DEF IInv, TypeOK
  <1>2. /\ SubIndex(write_index, p_read) \in Nat
        /\ SubIndex(read_index, p_read) \in Nat
        /\ SubIndex(c_write, p_read) \in Nat /\ Taken \in Nat
        /\ SubIndex(write_index, read_index) \in Nat
    BY <1>1, SubIndexType DEF Taken
  <1>3. Claimed = Len(p_src)
    BY DEF PublishWrite, Claimed
  <1>4. capacity_frames < IndexModulus /\ IndexModulus \in Nat
    BY FilledFits, BitsAssumption DEF Indices
  <1>5. SubIndex(write_index, p_read) + Len(p_src) <= capacity_frames
    BY <1>3 DEF IInv, WindowOrdered
  <1>6. SubIndex(write_index, read_index) <= SubIndex(write_index, p_read)
    BY <1>2, FilledFits DEF Filled
  <1>7. SubIndex(write_index, read_index) + Len(p_src) < IndexModulus
    BY <1>1, <1>2, <1>4, <1>5, <1>6
  <1> QED BY <1>1, <1>7, Advance DEF PublishWrite, Filled

\* Publishing a read empties the ring by its length, which it holds.
LEMMA PublishReadEmpties ==
  ASSUME IInv, PublishRead
  PROVE  /\ c_count <= Filled /\ Filled' = Filled - c_count
         /\ Unnoticed' = Unnoticed + c_count
  <1>1. /\ write_index \in Indices /\ read_index \in Indices
        /\ c_write \in Indices /\ p_read \in Indices /\ c_count \in Nat
    BY DEF IInv, TypeOK
  <1>2. /\ SubIndex(write_index, p_read) \in Nat
        /\ SubIndex(read_index, p_read) \in Nat
        /\ SubIndex(c_write, p_read) \in Nat
    BY <1>1, SubIndexType
  <1>3. SubIndex(read_index, p_read) + c_count <= SubIndex(c_write, p_read)
    BY DEF IInv, WindowOrdered, PublishRead, Taken
  <1>4. SubIndex(c_write, p_read) <= SubIndex(write_index, p_read)
    BY DEF IInv, WindowOrdered
  <1>5. c_count <= Filled
    BY <1>1, <1>2, <1>3, <1>4, FilledFits
  <1>6. Unnoticed' = Unnoticed + c_count
    <2>1. SubIndex(c_write, p_read) < IndexModulus
      BY <1>1, SubIndexType
    <2>2. SubIndex(read_index, p_read) + c_count < IndexModulus
      BY <1>1, <1>2, <1>3, <2>1, BitsAssumption
    <2> QED BY <1>1, <2>2, Advance DEF PublishRead, producerVars, Unnoticed
  <1> QED BY <1>1, <1>5, <1>6, ShiftBase DEF PublishRead, Filled

\* No frame is lost between the counters: written is read, plus what is in
\* the ring, plus what Reset dropped, up to one call in flight on each side.
THEOREM MetricsAlwaysAccount == Spec => []MetricsAccount
  <1>1. Init => MetricsAccount
    <2> SUFFICES ASSUME Init
                 PROVE  MetricsAccount
      OBVIOUS
    <2>1. SubIndex(0, 0) = 0
      BY SubIndexValue, BitsAssumption DEF Indices
    <2> QED BY <2>1 DEF Init, MetricsAccount, Filled
  <1>2. ASSUME IInv, MetricsAccount, [Next]_vars
        PROVE  MetricsAccount'
    <2> USE DEF producerVars, consumerVars, metrics
    <2>1. /\ Len(p_src) \in Nat /\ c_count \in Nat /\ discarded \in Nat
          /\ frames_written \in Nat /\ frames_read \in Nat
      BY <1>2 DEF IInv, TypeOK
    <2>2. Filled \in Nat
      <3>1. write_index \in Indices /\ read_index \in Indices
        BY <1>2 DEF IInv, TypeOK
      <3> QED BY <3>1, SubIndexType DEF Filled
    <2>3. ASSUME 0 \in Indices PROVE SubIndex(0, 0) = 0
      BY <2>3, SubIndexValue
    <2>4. SubIndex(0, 0) = 0
      BY <2>3, BitsAssumption DEF Indices
    <2>5. CASE Reset
      <3>1. /\ p_pc = "idle" /\ c_pc = "idle" /\ p_pc' = "idle" /\ c_pc' = "idle"
            /\ frames_written' = frames_written /\ frames_read' = frames_read
            /\ discarded' = discarded + Filled
        BY <2>5 DEF Reset, WorkersStopped, Filled
      <3>2. Filled' = 0
        BY <2>4, <2>5 DEF Reset, ZeroIndices, Filled
      <3> QED BY <1>2, <2>1, <2>2, <3>1, <3>2 DEF MetricsAccount
    <2>6. ASSUME NEW c \in Capacities, Initialize(c)
          PROVE  MetricsAccount'
      <3>1. /\ p_pc = "idle" /\ c_pc = "idle" /\ p_pc' = "idle" /\ c_pc' = "idle"
            /\ frames_written' = frames_written /\ frames_read' = frames_read
            /\ discarded' = discarded
        BY <2>6 DEF Initialize, WorkersStopped
      <3>2. Filled = 0 /\ Filled' = 0
        BY <1>2, <2>4, <2>6 DEF Initialize, ZeroIndices, Filled, IInv, Initialized
      <3> QED BY <1>2, <2>1, <3>1, <3>2 DEF MetricsAccount
    <2>7. ASSUME NEW n \in FrameCounts, NEW silent \in BOOLEAN,
                 TryWriteFrames(n, silent)
          PROVE  MetricsAccount'
      <3>1. p_pc' # "count" /\ Filled' = Filled
        BY <2>7 DEF TryWriteFrames, RefuseWrite, Filled
      <3> QED BY <1>2, <2>1, <2>7, <3>1 DEF TryWriteFrames, RefuseWrite, MetricsAccount
    <2>8. ASSUME NEW n \in FrameCounts, TryReadFrames(n)
          PROVE  MetricsAccount'
      <3>1. c_pc' # "count" /\ Filled' = Filled
        BY <2>8 DEF TryReadFrames, Filled
      <3> QED BY <1>2, <2>1, <2>8, <3>1 DEF TryReadFrames, MetricsAccount
    <2>9. CASE CopyToEnd \/ CopyWrapped \/ ReadToEnd \/ ReadWrapped \/ UNCHANGED vars
      BY <1>2, <2>1, <2>9 DEF CopyToEnd, CopyWrapped, ReadToEnd, ReadWrapped, vars,
                              MetricsAccount, Filled
    <2>10. CASE PublishWrite
      <3>1. Filled' = Filled + Len(p_src)
        BY <1>2, <2>10, PublishWriteFills
      <3> QED BY <1>2, <2>1, <2>2, <2>10, <3>1 DEF PublishWrite, MetricsAccount
    <2>11. CASE PublishRead
      <3>1. Filled' = Filled - c_count
        BY <1>2, <2>11, PublishReadEmpties
      <3> QED BY <1>2, <2>1, <2>2, <2>11, <3>1 DEF PublishRead, MetricsAccount
    <2>12. CASE CountWritten
      BY <1>2, <2>1, <2>2, <2>12 DEF CountWritten, MetricsAccount, Filled
    <2>13. CASE CountRead
      BY <1>2, <2>1, <2>2, <2>13 DEF CountRead, MetricsAccount, Filled
    <2> QED BY <1>2, <2>5, <2>6, <2>7, <2>8, <2>9, <2>10, <2>11, <2>12, <2>13
            DEF Next, Orchestration, Producer, Consumer
  <1> QED BY <1>1, <1>2, Invariance, PTL DEF Spec

-----------------------------------------------------------------------------
(* The contents of the ring. *)

\* The slots a write fills and a read empties, in their order.
WriteSlot(k) == SlotOf(AddIndex(write_index, k))
ReadSlot(k) == SlotOf(AddIndex(read_index, k))

\* How many frames of its call a side has copied so far.
Stored ==
  IF p_pc = "wrap" THEN FramesToEnd(SlotOf(write_index), Len(p_src))
  ELSE IF p_pc = "publish" THEN Len(p_src) ELSE 0
Fetched ==
  IF c_pc = "wrap" THEN FramesToEnd(SlotOf(read_index), c_count)
  ELSE IF c_pc = "publish" THEN c_count ELSE 0

\* The producer copies the packet of the call it is in, and what it has
\* copied so far is in the storage behind the write index.
PacketStored ==
  /\ p_pc \in {"copy", "wrap", "publish"} =>
       \E n \in FrameCounts, silent \in BOOLEAN : p_src = Packet(n, silent)
  /\ \A k \in 0..Stored-1 : storage[WriteSlot(k)] = p_src[k + 1]

\* The consumer has copied as many of the oldest unread frames, in order, as
\* it has got to.
OldestFetched ==
  /\ c_pc \in {"copy", "wrap", "publish"} => c_count \in FrameCounts
  /\ Len(c_dst) = Fetched
  /\ \A k \in 0..Fetched-1 : c_dst[k + 1] = storage[ReadSlot(k)]

\* What every step preserves, with the contents of the ring.
ContentsInv == IInv /\ PacketStored /\ OldestFetched

-----------------------------------------------------------------------------
(* Slots. *)

\* The slot k frames after an index: straight on, or round the end.
LEMMA SlotAhead ==
  ASSUME IInv, capacity_frames # 0, NEW w \in Indices, NEW k \in 0..capacity_frames
  PROVE  SlotOf(AddIndex(w, k))
           = IF SlotOf(w) + k < capacity_frames THEN SlotOf(w) + k
                                                ELSE SlotOf(w) + k - capacity_frames
  <1> DEFINE M == IndexModulus
             c == capacity_frames
             r == w % c
             q == w \div c
  <1>1. M \in Nat \ {0} /\ c \in Nat \ {0} /\ M % c = 0
    BY BitsAssumption, CapacityFacts DEF IInv
  <1>2. w \in Nat
    BY BitsAssumption DEF Indices
  <1> HIDE DEF M, c
  <1>3. w = c * q + r /\ r \in 0..c-1 /\ q \in Int /\ w \in Int
    BY <1>1, <1>2, DivMod
  <1>4. k \in 0..c
    BY DEF c
  <1>5. ((w + k) % M) % c = (w + k) % c
    <2> DEFINE x == w + k
    <2>1. x \in Int
      BY <1>1, <1>2, <1>4
    <2> HIDE DEF x
    <2>2. (x % M) % c = x % c
      BY <1>1, <2>1, ModOfMod
    <2> QED BY <2>2 DEF x
  <1> HIDE DEF q, r
  <1>6. CASE r + k < c
    <2> DEFINE s == r + k
    <2>1. s \in 0..c-1 /\ w + k = c * q + s
      BY <1>1, <1>3, <1>4, <1>6
    <2> HIDE DEF s
    <2>2. (c * q + s) % c = s
      BY <1>1, <1>3, <2>1, ModUnique
    <2>3. (w + k) % c = r + k
      BY <2>1, <2>2 DEF s
    <2> QED BY <1>5, <1>6, <2>3 DEF SlotOf, AddIndex, M, c, r
  <1>7. CASE ~(r + k < c)
    <2> DEFINE s == r + k - c
               p == q + 1
    <2>1. s \in 0..c-1 /\ p \in Int /\ c * p = c * q + c
      BY <1>1, <1>3, <1>4, <1>7
    <2>2. w + k = c * p + s
      <3>1. s = r + k - c /\ c * q \in Int /\ k \in Int
        BY <1>1, <1>3, <1>4
      <3> HIDE DEF s, p
      <3> DEFINE z == c * q
      <3>2. w = z + r /\ c * p = z + c /\ z \in Int
        BY <1>3, <2>1, <3>1
      <3> HIDE DEF z
      <3> QED BY <1>1, <1>3, <3>1, <3>2
    <2> HIDE DEF s, p
    <2>3. (c * p + s) % c = s
      BY <1>1, <2>1, ModUnique
    <2>4. (w + k) % c = r + k - c
      BY <2>2, <2>3 DEF s
    <2> QED BY <1>5, <1>7, <2>4 DEF SlotOf, AddIndex, M, c, r
  <1> QED BY <1>6, <1>7


-----------------------------------------------------------------------------
(* What is unread. *)

\* What the invariant says of the variables, by name.
LEMMA TypesOf ==
  ASSUME IInv
  PROVE  /\ write_index \in Indices /\ read_index \in Indices
         /\ c_write \in Indices /\ p_read \in Indices
         /\ p_src \in Seq(Nat) /\ Len(p_src) \in Nat /\ c_count \in Nat
         /\ c_dst \in Seq(Nat) /\ Len(c_dst) \in Nat
         /\ capacity_frames \in Nat /\ capacity_frames < IndexModulus
         /\ storage \in [0..capacity_frames-1 -> Nat]
         /\ Filled \in Nat /\ Filled <= capacity_frames
  <1>1. TypeOK
    BY DEF IInv
  <1>2. /\ write_index \in Indices /\ read_index \in Indices
        /\ c_write \in Indices /\ p_read \in Indices
        /\ p_src \in Seq(Nat) /\ Len(p_src) \in Nat /\ c_count \in Nat
        /\ c_dst \in Seq(Nat) /\ Len(c_dst) \in Nat
        /\ storage \in [0..capacity_frames-1 -> Nat]
    BY <1>1 DEF TypeOK
  <1>3. Filled \in Nat
    BY <1>2, SubIndexType DEF Filled
  <1>4. capacity_frames \in Nat /\ capacity_frames < IndexModulus
    BY FilledFits, BitsAssumption DEF Indices
  <1> QED BY <1>2, <1>3, <1>4, FilledFits

\* The contents of a storage, and n frames of one from an index on.
StorageArrays(c) == [0..c-1 -> Nat]
FramesFrom(store, c, r, n) == [i \in 1..n |-> store[AddIndex(r, i - 1) % c]]

\* They are a sequence of n frames.
LEMMA FramesFromSeq ==
  ASSUME NEW c \in Nat, NEW store \in StorageArrays(c), NEW r \in Indices,
         NEW n \in Nat, c = 0 => n = 0
  PROVE  /\ FramesFrom(store, c, r, n) \in Seq(Nat)
         /\ Len(FramesFrom(store, c, r, n)) = n
         /\ \A k \in 0..n-1 :
              FramesFrom(store, c, r, n)[k + 1] = store[AddIndex(r, k) % c]
  <1> DEFINE u == FramesFrom(store, c, r, n)
  <1>1. ASSUME NEW k \in Nat, c # 0
        PROVE  store[AddIndex(r, k) % c] \in Nat
    <2> DEFINE M == IndexModulus
               x == (r + k) % M
    <2>1. M \in Nat \ {0} /\ r \in Nat
      BY BitsAssumption DEF Indices
    <2> HIDE DEF M
    <2>2. x \in Nat
      BY <2>1
    <2> HIDE DEF x
    <2>3. x % c \in 0..c-1
      BY <1>1, <2>2
    <2> QED BY <2>3 DEF StorageArrays, AddIndex, x, M
  <1>2. u = [i \in 1..n |-> store[AddIndex(r, i - 1) % c]]
    BY DEF FramesFrom
  <1>3. ASSUME NEW i \in 1..n
        PROVE  store[AddIndex(r, i - 1) % c] \in Nat
    <2>1. i - 1 \in Nat /\ c # 0
      OBVIOUS
    <2> QED BY <1>1, <2>1
  <1> HIDE DEF u
  <1>4. /\ u \in Seq(Nat) /\ Len(u) = n
        /\ \A i \in 1..n : u[i] = store[AddIndex(r, i - 1) % c]
    <2>1. u \in [1..n -> Nat]
      BY <1>2, <1>3
    <2> QED BY <1>2, <2>1
  <1>5. ASSUME NEW k \in 0..n-1
        PROVE  u[k + 1] = store[AddIndex(r, k) % c]
    <2>1. k + 1 \in 1..n /\ (k + 1) - 1 = k
      OBVIOUS
    <2> QED BY <1>4, <2>1
  <1> QED BY <1>4, <1>5 DEF u

\* Unread holds the frames in the slots ReadSlot(0), ReadSlot(1), and so on.
LEMMA UnreadValue ==
  ASSUME IInv
  PROVE  /\ Unread \in Seq(Nat) /\ Len(Unread) = Filled
         /\ \A k \in 0..Filled-1 : Unread[k + 1] = storage[ReadSlot(k)]
  <1>1. /\ Filled \in Nat /\ Filled <= capacity_frames /\ capacity_frames \in Nat
        /\ storage \in StorageArrays(capacity_frames) /\ read_index \in Indices
    BY TypesOf DEF StorageArrays
  <1>2. Unread = FramesFrom(storage, capacity_frames, read_index, Filled)
    BY DEF Unread, FramesFrom, SlotOf
  <1>3. capacity_frames = 0 => Filled = 0
    BY <1>1
  <1> QED BY <1>1, <1>2, <1>3, FramesFromSeq DEF ReadSlot, SlotOf

\* The slots the producer has claimed hold nothing that is unread.
LEMMA ClaimedIsFree ==
  ASSUME IInv, NEW i \in 0..Filled-1, NEW k \in 0..Claimed-1
  PROVE  ReadSlot(i) # WriteSlot(k)
  <1>1. /\ write_index \in Indices /\ read_index \in Indices /\ p_read \in Indices
        /\ capacity_frames \in Nat /\ Filled \in Nat /\ Claimed \in Nat
    BY TypesOf DEF Claimed
  <1>2. /\ SubIndex(write_index, p_read) \in Nat
        /\ SubIndex(read_index, p_read) \in Nat
    BY <1>1, SubIndexType
  <1>3. /\ Filled = SubIndex(write_index, p_read) - SubIndex(read_index, p_read)
        /\ SubIndex(write_index, p_read) + Claimed <= capacity_frames
    BY FilledFits DEF IInv, WindowOrdered
  <1>4. i \in Nat /\ k \in Nat /\ i < Filled /\ k < Claimed
    BY <1>1
  <1>5. /\ SubIndex(read_index, p_read) + i < SubIndex(write_index, p_read) + k
        /\ SubIndex(write_index, p_read) + k < capacity_frames
        /\ capacity_frames # 0
    BY <1>1, <1>2, <1>3, <1>4
  <1> QED BY <1>1, <1>4, <1>5, WindowSlotsDiffer DEF ReadSlot, WriteSlot

\* Where the producer is in the storage while it copies: pos is the slot of
\* the write index, and toEnd frames fit before the end.
LEMMA CopyBounds ==
  ASSUME IInv, p_pc \in {"copy", "wrap"}, NEW pos, NEW toEnd,
         pos = SlotOf(write_index), toEnd = FramesToEnd(pos, Len(p_src))
  PROVE  /\ Claimed = Len(p_src) /\ Len(p_src) <= capacity_frames
         /\ capacity_frames # 0 /\ pos \in 0..capacity_frames-1
         /\ toEnd \in 0..Len(p_src) /\ pos + toEnd <= capacity_frames
         /\ toEnd < Len(p_src) => pos + toEnd = capacity_frames
         /\ \A k \in 0..Len(p_src)-1 :
              WriteSlot(k) = IF pos + k < capacity_frames
                             THEN pos + k ELSE pos + k - capacity_frames
  <1>1. Claimed = Len(p_src) /\ capacity_frames # 0
    BY DEF IInv, Initialized, Claimed
  <1>2. /\ write_index \in Indices /\ p_read \in Indices
        /\ capacity_frames \in Nat /\ Len(p_src) \in Nat
    BY TypesOf
  <1>3. Len(p_src) <= capacity_frames
    <2>1. SubIndex(write_index, p_read) \in Nat
      BY <1>2, SubIndexType
    <2>2. SubIndex(write_index, p_read) + Len(p_src) <= capacity_frames
      BY <1>1 DEF IInv, WindowOrdered
    <2> QED BY <1>2, <2>1, <2>2
  <1>4. pos \in 0..capacity_frames-1
    BY <1>1, <1>2, SlotInStorage
  <1>5. /\ toEnd \in 0..Len(p_src) /\ pos + toEnd <= capacity_frames
        /\ toEnd < Len(p_src) => pos + toEnd = capacity_frames
    BY <1>2, <1>4 DEF FramesToEnd
  <1>6. ASSUME NEW k \in 0..Len(p_src)-1
        PROVE  WriteSlot(k) = IF pos + k < capacity_frames
                              THEN pos + k ELSE pos + k - capacity_frames
    <2>1. k \in 0..capacity_frames
      BY <1>2, <1>3
    <2> QED BY <1>1, <1>2, <2>1, SlotAhead DEF WriteSlot
  <1> QED BY <1>1, <1>3, <1>4, <1>5, <1>6

\* A memcpy of the producer puts the next frames of the packet behind those
\* it has copied, and leaves every unread frame as it is.
LEMMA CopyFills ==
  ASSUME IInv, PacketStored, CopyToEnd \/ CopyWrapped
  PROVE  /\ \A k \in 0..Stored'-1 : storage'[WriteSlot(k)] = p_src[k + 1]
         /\ \A i \in 0..Filled-1 : storage'[ReadSlot(i)] = storage[ReadSlot(i)]
  <1> DEFINE pos == SlotOf(write_index)
             n == Len(p_src)
             toEnd == FramesToEnd(pos, n)
             c == capacity_frames
  <1>0. /\ c \in Nat /\ n \in Nat /\ read_index \in Indices /\ Filled \in Nat
        /\ Filled <= c /\ storage \in [0..c-1 -> Nat] /\ DOMAIN storage = 0..c-1
    BY TypesOf
  <1>1. /\ Claimed = n /\ n <= c /\ c # 0 /\ pos \in 0..c-1
        /\ toEnd \in 0..n /\ pos + toEnd <= c
        /\ toEnd < n => pos + toEnd = c
        /\ \A k \in 0..n-1 :
             WriteSlot(k) = IF pos + k < c THEN pos + k ELSE pos + k - c
    <2>1. p_pc \in {"copy", "wrap"}
      BY DEF CopyToEnd, CopyWrapped
    <2> QED BY <2>1, CopyBounds
  <1>2. ASSUME NEW i \in 0..Filled-1
        PROVE  /\ ReadSlot(i) \in 0..c-1
               /\ \A k \in 0..n-1 : WriteSlot(k) # ReadSlot(i)
    <2>1. i \in 0..c /\ pos \in Nat
      BY <1>0, <1>1
    <2>2. SlotOf(read_index) \in 0..c-1
      BY <1>0, <1>1, SlotInStorage
    <2>3. ReadSlot(i) = IF SlotOf(read_index) + i < c THEN SlotOf(read_index) + i
                        ELSE SlotOf(read_index) + i - c
      BY <1>0, <1>1, <2>1, SlotAhead DEF ReadSlot
    <2>4. ReadSlot(i) \in 0..c-1
      <3> HIDE DEF c
      <3>1. i < c
        BY <1>0
      <3> QED BY <1>0, <2>1, <2>2, <2>3, <3>1
    <2> QED BY <1>1, <2>4, ClaimedIsFree
  <1>3. CASE CopyToEnd
    <2>1. /\ storage' = [s \in 0..c-1 |->
                           IF s \in pos..pos+toEnd-1 THEN p_src[s - pos + 1]
                                                     ELSE storage[s]]
          /\ p_pc' = IF toEnd < n THEN "wrap" ELSE "publish"
          /\ write_index' = write_index /\ p_src' = p_src
          /\ capacity_frames' = capacity_frames
      BY <1>0, <1>3 DEF CopyToEnd
    <2>2. Stored' = toEnd
      <3>1. FramesToEnd(SlotOf(write_index), Len(p_src))' = toEnd
        BY <2>1 DEF FramesToEnd, SlotOf
      <3> HIDE DEF toEnd
      <3> QED BY <1>0, <1>1, <2>1, <3>1 DEF Stored
    <2> HIDE DEF toEnd, n, c, pos
    <2>3. ASSUME NEW k \in 0..toEnd-1
          PROVE  storage'[WriteSlot(k)] = p_src[k + 1]
      <3>1. k \in 0..n-1 /\ pos + k < c /\ pos + k \in pos..pos+toEnd-1
            /\ pos + k \in 0..c-1 /\ (pos + k) - pos + 1 = k + 1
        BY <1>0, <1>1
      <3>2. WriteSlot(k) = pos + k
        BY <1>1, <3>1
      <3> QED BY <2>1, <3>1, <3>2
    <2>4. ASSUME NEW i \in 0..Filled-1
          PROVE  storage'[ReadSlot(i)] = storage[ReadSlot(i)]
      <3> DEFINE s == ReadSlot(i)
      <3>1. s \in 0..c-1
        BY <1>2
      <3> HIDE DEF s
      <3>2. s \notin pos..pos+toEnd-1
        <4> SUFFICES ASSUME s \in pos..pos+toEnd-1
                     PROVE  FALSE
          OBVIOUS
        <4>1. s - pos \in 0..n-1 /\ pos + (s - pos) = s /\ s < c
          BY <1>0, <1>1, <3>1
        <4>2. WriteSlot(s - pos) = s
          BY <1>1, <4>1
        <4> QED BY <1>2, <4>1, <4>2 DEF s
      <3>3. storage'[s] = storage[s]
        BY <2>1, <3>1, <3>2
      <3> QED BY <3>3 DEF s
    <2> QED BY <2>2, <2>3, <2>4
  <1>4. CASE CopyWrapped
    <2>1. /\ storage' = [s \in 0..c-1 |-> IF s < n - toEnd THEN p_src[toEnd + s + 1]
                                                           ELSE storage[s]]
          /\ p_pc = "wrap" /\ p_pc' = "publish" /\ p_src' = p_src
      BY <1>0, <1>4 DEF CopyWrapped
    <2>2. Stored' = n /\ Stored = toEnd
      BY <2>1 DEF Stored
    <2>3. \A k \in 0..toEnd-1 : storage[WriteSlot(k)] = p_src[k + 1]
      BY <2>2 DEF PacketStored
    <2> HIDE DEF toEnd, n, c, pos
    <2>4. ASSUME NEW k \in 0..n-1
          PROVE  storage'[WriteSlot(k)] = p_src[k + 1]
      <3>1. CASE k < toEnd
        <4>1. /\ k \in 0..toEnd-1 /\ pos + k < c /\ pos + k \in 0..c-1
              /\ ~(pos + k < n - toEnd)
          BY <1>0, <1>1, <3>1
        <4>2. WriteSlot(k) = pos + k
          BY <1>1, <4>1
        <4> QED BY <2>1, <2>3, <4>1, <4>2
      <3>2. CASE ~(k < toEnd)
        <4>1. /\ pos + toEnd = c /\ ~(pos + k < c) /\ pos + k - c = k - toEnd
              /\ k - toEnd \in 0..c-1 /\ k - toEnd < n - toEnd
              /\ toEnd + (k - toEnd) + 1 = k + 1
          BY <1>0, <1>1, <3>2
        <4>2. WriteSlot(k) = k - toEnd
          BY <1>1, <4>1
        <4> QED BY <2>1, <4>1, <4>2
      <3> QED BY <3>1, <3>2
    <2>5. ASSUME NEW i \in 0..Filled-1
          PROVE  storage'[ReadSlot(i)] = storage[ReadSlot(i)]
      <3> DEFINE s == ReadSlot(i)
      <3>1. s \in 0..c-1
        BY <1>2
      <3> HIDE DEF s
      <3>2. ~(s < n - toEnd)
        <4> SUFFICES ASSUME s < n - toEnd
                     PROVE  FALSE
          OBVIOUS
        <4>1. /\ toEnd + s \in 0..n-1 /\ ~(pos + (toEnd + s) < c)
              /\ pos + (toEnd + s) - c = s
          BY <1>0, <1>1, <3>1
        <4>2. WriteSlot(toEnd + s) = s
          BY <1>1, <4>1
        <4> QED BY <1>2, <4>1, <4>2 DEF s
      <3>3. storage'[s] = storage[s]
        BY <2>1, <3>1, <3>2
      <3> QED BY <3>3 DEF s
    <2> QED BY <2>2, <2>4, <2>5 DEF n
  <1> QED BY <1>3, <1>4

-----------------------------------------------------------------------------
(* The contents are preserved. *)

\* The ring is empty to begin with, and nobody is copying.
LEMMA InitContents == Init => ContentsInv
  <1> SUFFICES ASSUME Init
               PROVE  PacketStored /\ OldestFetched
    BY InitEstablishes DEF ContentsInv
  <1>1. Stored = 0 /\ Fetched = 0
    BY DEF Init, Stored, Fetched
  <1> QED BY <1>1 DEF Init, PacketStored, OldestFetched

\* The consumer has fetched no more than it has taken, nor more than there is.
LEMMA FetchedIsUnread ==
  ASSUME IInv
  PROVE  Fetched \in Nat /\ Fetched <= Filled
  <1>1. /\ write_index \in Indices /\ read_index \in Indices
        /\ c_write \in Indices /\ p_read \in Indices /\ c_count \in Nat
        /\ capacity_frames \in Nat
    BY TypesOf
  <1>2. /\ SubIndex(write_index, p_read) \in Nat
        /\ SubIndex(read_index, p_read) \in Nat
        /\ SubIndex(c_write, p_read) \in Nat /\ Taken \in Nat
    BY <1>1, SubIndexType DEF Taken
  <1>3. Taken <= Filled
    <2>1. /\ SubIndex(read_index, p_read) + Taken <= SubIndex(c_write, p_read)
          /\ SubIndex(c_write, p_read) <= SubIndex(write_index, p_read)
      BY DEF IInv, WindowOrdered
    <2> QED BY <1>2, <2>1, FilledFits
  <1>4. Fetched \in 0..Taken
    <2>1. CASE c_pc = "wrap"
      <3>1. Taken = c_count /\ capacity_frames # 0
        BY <2>1 DEF Taken, IInv, Initialized
      <3>2. SlotOf(read_index) \in 0..capacity_frames-1
        BY <1>1, <3>1, SlotInStorage
      <3> QED BY <1>1, <2>1, <3>1, <3>2 DEF Fetched, FramesToEnd
    <2>2. CASE c_pc # "wrap"
      BY <1>1, <2>2 DEF Fetched, Taken
    <2> QED BY <2>1, <2>2
  <1>5. Filled \in Nat
    BY TypesOf
  <1> QED BY <1>2, <1>3, <1>4, <1>5

\* Whatever leaves the storage, the write index and the producer's packet
\* alone leaves the stored part of the packet alone.
LEMMA PacketUntouched ==
  ASSUME PacketStored,
         UNCHANGED <<storage, write_index, capacity_frames, p_pc, p_src, captured>>
  PROVE  PacketStored'
  BY DEF PacketStored, Stored, WriteSlot, SlotOf, AddIndex, FramesToEnd, Packet

\* Whatever leaves the fetched part of the storage, the read index and the
\* consumer's call alone leaves the fetched frames alone.
LEMMA FetchedUntouched ==
  ASSUME OldestFetched,
         UNCHANGED <<read_index, capacity_frames, c_pc, c_count, c_dst>>,
         \A k \in 0..Fetched-1 : storage'[ReadSlot(k)] = storage[ReadSlot(k)]
  PROVE  OldestFetched'
  <1>1. Fetched' = Fetched /\ \A k : ReadSlot(k)' = ReadSlot(k)
    BY DEF Fetched, ReadSlot, SlotOf, AddIndex, FramesToEnd
  <1> QED BY <1>1 DEF OldestFetched

\* The producer stores its packet behind the write index, and nothing else.
LEMMA ProducerKeepsContents ==
  ASSUME ContentsInv, Producer
  PROVE  PacketStored' /\ OldestFetched'
  <1> USE DEF consumerVars, metrics
  <1>0. IInv /\ PacketStored /\ OldestFetched
    BY DEF ContentsInv
  <1>1. ASSUME NEW n \in FrameCounts, NEW silent \in BOOLEAN,
               TryWriteFrames(n, silent)
        PROVE  PacketStored' /\ OldestFetched'
    <2>1. \/ p_pc' = "idle"
          \/ p_pc' = "copy" /\ p_src' = Packet(n, silent) /\ captured' = captured
      BY <1>1 DEF TryWriteFrames, RefuseWrite
    <2>2. Stored' = 0
      BY <2>1 DEF Stored
    <2>3. PacketStored'
      BY <2>1, <2>2 DEF PacketStored, Packet
    <2>4. UNCHANGED <<storage, read_index, capacity_frames, c_pc, c_count, c_dst>>
      BY <1>1 DEF TryWriteFrames
    <2>5. OldestFetched'
      BY <1>0, <2>4, FetchedUntouched
    <2> QED BY <2>3, <2>5
  <1>2. CASE CopyToEnd \/ CopyWrapped
    <2>1. /\ UNCHANGED <<write_index, read_index, capacity_frames, p_src, captured,
                         c_pc, c_count, c_dst>>
          /\ p_pc \in {"copy", "wrap"}
      BY <1>2 DEF CopyToEnd, CopyWrapped
    <2>2. /\ \A k \in 0..Stored'-1 : storage'[WriteSlot(k)] = p_src[k + 1]
          /\ \A i \in 0..Filled-1 : storage'[ReadSlot(i)] = storage[ReadSlot(i)]
      BY <1>0, <1>2, CopyFills
    <2>3. PacketStored'
      <3>1. \A k : WriteSlot(k)' = WriteSlot(k)
        BY <2>1 DEF WriteSlot, SlotOf, AddIndex
      <3>2. PICK n \in FrameCounts, silent \in BOOLEAN : p_src = Packet(n, silent)
        BY <1>0, <2>1 DEF PacketStored
      <3>3. p_src' = Packet(n, silent)'
        BY <2>1, <3>2 DEF Packet
      <3> QED BY <2>1, <2>2, <3>1, <3>3 DEF PacketStored
    <2>4. \A k \in 0..Fetched-1 : storage'[ReadSlot(k)] = storage[ReadSlot(k)]
      <3>1. Fetched \in Nat /\ Fetched <= Filled /\ Filled \in Nat
        BY <1>0, FetchedIsUnread, TypesOf
      <3>2. \A k \in 0..Fetched-1 : k \in 0..Filled-1
        BY <3>1
      <3> QED BY <2>2, <3>2
    <2>5. OldestFetched'
      BY <1>0, <2>1, <2>4, FetchedUntouched
    <2> QED BY <2>3, <2>5
  <1>3. CASE PublishWrite \/ CountWritten
    <2>1. /\ UNCHANGED <<storage, read_index, capacity_frames, c_pc, c_count, c_dst>>
          /\ p_pc' \in {"count", "idle"}
      BY <1>3 DEF PublishWrite, CountWritten
    <2>2. Stored' = 0
      BY <2>1 DEF Stored
    <2>3. PacketStored'
      BY <2>1, <2>2 DEF PacketStored
    <2> QED BY <1>0, <2>1, <2>3, FetchedUntouched
  <1> QED BY <1>1, <1>2, <1>3 DEF Producer

\* The consumer fetches the oldest frames, in order, and nothing else.
LEMMA ConsumerKeepsContents ==
  ASSUME ContentsInv, Consumer
  PROVE  PacketStored' /\ OldestFetched'
  <1> USE DEF producerVars, metrics
  <1> DEFINE pos == SlotOf(read_index)
             n == c_count
             toEnd == FramesToEnd(pos, n)
             c == capacity_frames
  <1>0. /\ IInv /\ PacketStored /\ OldestFetched
        /\ c \in Nat /\ n \in Nat /\ c_dst \in Seq(Nat) /\ Len(c_dst) = Fetched
        /\ read_index \in Indices /\ storage \in [0..c-1 -> Nat]
    BY TypesOf DEF ContentsInv, OldestFetched
  <1>1. PacketStored'
    <2>1. UNCHANGED <<storage, write_index, capacity_frames, p_pc, p_src, captured>>
      BY DEF Consumer, TryReadFrames, ReadToEnd, ReadWrapped, PublishRead, CountRead
    <2> QED BY <1>0, <2>1, PacketUntouched
  <1>2. ASSUME NEW m \in FrameCounts, TryReadFrames(m)
        PROVE  OldestFetched'
    <2>1. /\ c_pc = "idle" /\ c_dst' = c_dst
          /\ \/ c_pc' = "idle"
             \/ c_pc' = "copy" /\ c_count' = m
      BY <1>2 DEF TryReadFrames
    <2>2. Fetched = 0 /\ Fetched' = 0
      BY <2>1 DEF Fetched
    <2> QED BY <1>0, <2>1, <2>2 DEF OldestFetched
  <1>3. ASSUME c_pc \in {"copy", "wrap"}
        PROVE  /\ c # 0 /\ pos \in 0..c-1 /\ n <= c
               /\ toEnd \in 0..n /\ pos + toEnd <= c
               /\ toEnd < n => pos + toEnd = c
               /\ \A k \in 0..n-1 :
                    /\ ReadSlot(k) = IF pos + k < c THEN pos + k ELSE pos + k - c
                    /\ ReadSlot(k) \in 0..c-1
    <2>1. c # 0 /\ Taken = n
      BY <1>0, <1>3 DEF IInv, Initialized, Taken
    <2>2. n <= c
      <3>1. /\ SubIndex(write_index, p_read) \in Nat /\ Claimed \in Nat
            /\ SubIndex(read_index, p_read) \in Nat
            /\ SubIndex(c_write, p_read) \in Nat
        BY <1>0, TypesOf, SubIndexType DEF Claimed
      <3>2. /\ SubIndex(read_index, p_read) + n <= SubIndex(c_write, p_read)
            /\ SubIndex(c_write, p_read) <= SubIndex(write_index, p_read)
            /\ SubIndex(write_index, p_read) + Claimed <= c
        BY <1>0, <2>1 DEF IInv, WindowOrdered
      <3> HIDE DEF c, n
      <3> QED BY <1>0, <3>1, <3>2
    <2>3. pos \in 0..c-1
      BY <1>0, <2>1, SlotInStorage
    <2>4. toEnd \in 0..n /\ pos + toEnd <= c /\ (toEnd < n => pos + toEnd = c)
      BY <1>0, <2>3 DEF FramesToEnd
    <2>5. ASSUME NEW k \in 0..n-1
          PROVE  /\ ReadSlot(k) = IF pos + k < c THEN pos + k ELSE pos + k - c
                 /\ ReadSlot(k) \in 0..c-1
      <3>1. k \in 0..c /\ k < c
        BY <1>0, <2>2
      <3>2. ReadSlot(k) = IF pos + k < c THEN pos + k ELSE pos + k - c
        BY <1>0, <2>1, <3>1, SlotAhead DEF ReadSlot
      <3> HIDE DEF pos, c
      <3>3. ReadSlot(k) \in 0..c-1
        BY <1>0, <2>3, <3>1, <3>2
      <3> QED BY <3>2, <3>3
    <2> QED BY <2>1, <2>2, <2>3, <2>4, <2>5
  <1>4. CASE ReadToEnd
    <2>1. /\ c_dst' = [i \in 1..toEnd |-> storage[pos + i - 1]]
          /\ c_pc = "copy" /\ c_pc' = IF toEnd < n THEN "wrap" ELSE "publish"
          /\ UNCHANGED <<read_index, capacity_frames, c_count, storage>>
      BY <1>4 DEF ReadToEnd
    <2>2. Fetched' = toEnd
      <3>1. FramesToEnd(SlotOf(read_index), c_count)' = toEnd
        BY <2>1 DEF FramesToEnd, SlotOf
      <3> HIDE DEF toEnd
      <3> QED BY <1>0, <1>3, <2>1, <3>1 DEF Fetched
    <2>3. \A k : ReadSlot(k)' = ReadSlot(k)
      BY <2>1 DEF ReadSlot, SlotOf, AddIndex
    <2>4. n \in FrameCounts
      BY <1>0, <2>1 DEF OldestFetched
    <2> HIDE DEF toEnd, n, c, pos
    <2>5. toEnd \in Nat
      BY <1>0, <1>3, <2>1
    <2>6. Len(c_dst') = toEnd
      BY <2>1, <2>5
    <2>7. ASSUME NEW k \in 0..toEnd-1
          PROVE  c_dst'[k + 1] = storage[ReadSlot(k)]
      <3>1. /\ k \in 0..n-1 /\ k + 1 \in 1..toEnd /\ pos + k < c
            /\ pos + (k + 1) - 1 = pos + k
        BY <1>0, <1>3, <2>1, <2>5
      <3>2. ReadSlot(k) = pos + k
        BY <1>3, <2>1, <3>1
      <3> QED BY <2>1, <3>1, <3>2
    <2>8. OldestFetched'
      BY <2>1, <2>2, <2>3, <2>4, <2>6, <2>7 DEF OldestFetched, n
    <2> QED BY <1>1, <2>8
  <1>5. CASE ReadWrapped
    <2> DEFINE rest == [i \in 1..n - toEnd |-> storage[i - 1]]
    <2>1. /\ c_dst' = c_dst \o rest /\ c_pc = "wrap" /\ c_pc' = "publish"
          /\ UNCHANGED <<read_index, capacity_frames, c_count, storage>>
      BY <1>5 DEF ReadWrapped
    <2>2. Fetched' = n /\ Fetched = toEnd
      BY <2>1 DEF Fetched
    <2>3. \A k : ReadSlot(k)' = ReadSlot(k)
      BY <2>1 DEF ReadSlot, SlotOf, AddIndex
    <2>4. n \in FrameCounts /\ \A k \in 0..toEnd-1 : c_dst[k + 1] = storage[ReadSlot(k)]
      BY <1>0, <2>1, <2>2 DEF OldestFetched
    <2> HIDE DEF toEnd, n, c, pos
    <2>5. toEnd \in Nat /\ n - toEnd \in Nat /\ n - toEnd <= c
      BY <1>0, <1>3, <2>1
    <2>6. /\ rest \in Seq(Nat) /\ Len(rest) = n - toEnd
          /\ \A i \in 1..n - toEnd : rest[i] = storage[i - 1]
      <3>1. ASSUME NEW i \in 1..n - toEnd
            PROVE  storage[i - 1] \in Nat
        <4>1. i - 1 \in 0..c-1
          BY <1>0, <2>5
        <4> QED BY <1>0, <4>1
      <3>2. rest \in [1..n - toEnd -> Nat]
        BY <3>1
      <3> QED BY <2>5, <3>2
    <2> HIDE DEF rest
    <2>7. /\ Len(c_dst') = n
          /\ \A i \in 1..n : c_dst'[i] = IF i <= toEnd THEN c_dst[i] ELSE rest[i - toEnd]
      <3> DEFINE d == c_dst
      <3>1. d \in Seq(Nat) /\ Len(d) = toEnd /\ toEnd + (n - toEnd) = n
        BY <1>0, <2>2, <2>5
      <3>2. c_dst' = d \o rest
        BY <2>1
      <3> HIDE DEF d
      <3>3. /\ Len(d \o rest) = Len(d) + Len(rest)
            /\ \A i \in 1..Len(d) + Len(rest) :
                 (d \o rest)[i] = IF i <= Len(d) THEN d[i] ELSE rest[i - Len(d)]
        BY <2>6, <3>1, ConcatProperties
      <3>4. Len(d) + Len(rest) = n
        BY <2>6, <3>1
      <3> QED BY <3>1, <3>2, <3>3, <3>4 DEF d
    <2>8. ASSUME NEW k \in 0..n-1
          PROVE  c_dst'[k + 1] = storage[ReadSlot(k)]
      <3>1. k + 1 \in 1..n /\ k \in Nat
        BY <1>0
      <3>2. CASE k < toEnd
        <4>1. k \in 0..toEnd-1 /\ k + 1 <= toEnd
          BY <2>5, <3>1, <3>2
        <4> QED BY <2>4, <2>7, <3>1, <4>1
      <3>3. CASE ~(k < toEnd)
        <4> DEFINE i == k + 1 - toEnd
        <4>1. pos + toEnd = c /\ pos \in Nat
          BY <1>0, <1>3, <2>1, <2>5, <3>1, <3>3
        <4>2. ~(k + 1 <= toEnd) /\ i \in 1..n - toEnd
          BY <1>0, <2>5, <3>1, <3>3
        <4>3. ~(pos + k < c) /\ pos + k - c = i - 1
          BY <1>0, <2>5, <3>1, <3>3, <4>1
        <4>4. ReadSlot(k) = i - 1
          BY <1>3, <2>1, <4>3
        <4>5. c_dst'[k + 1] = rest[i]
          <5> DEFINE j == k + 1
          <5>1. j \in 1..n /\ ~(j <= toEnd)
            BY <3>1, <4>2, Zenon
          <5>2. i = j - toEnd
            BY <2>5, <3>1
          <5> HIDE DEF j, i
          <5>3. c_dst'[j] = rest[j - toEnd]
            BY <2>7, <5>1
          <5> QED BY <5>2, <5>3 DEF j
        <4> HIDE DEF i
        <4> QED BY <2>6, <4>2, <4>4, <4>5
      <3> QED BY <3>2, <3>3
    <2>9. OldestFetched'
      BY <2>1, <2>2, <2>3, <2>4, <2>7, <2>8 DEF OldestFetched, n
    <2> QED BY <1>1, <2>9
  <1>6. CASE PublishRead
    <2>1. c_dst' = <<>> /\ c_pc' = "count"
      BY <1>6 DEF PublishRead
    <2>2. Fetched' = 0
      BY <2>1 DEF Fetched
    <2> QED BY <1>1, <2>1, <2>2 DEF OldestFetched
  <1>7. CASE CountRead
    <2>1. c_dst' = c_dst /\ c_pc = "count" /\ c_pc' = "idle"
      BY <1>7 DEF CountRead
    <2>2. Fetched' = 0 /\ Fetched = 0
      BY <2>1 DEF Fetched
    <2> QED BY <1>0, <1>1, <2>1, <2>2 DEF OldestFetched
  <1> QED BY <1>1, <1>2, <1>4, <1>5, <1>6, <1>7 DEF Consumer

\* The contents of the ring are what the invariant says, in every state.
THEOREM ContentsInvariance == Spec => []ContentsInv
  <1>1. ASSUME ContentsInv, IInv', [Next]_vars
        PROVE  ContentsInv'
    <2> USE DEF producerVars, consumerVars, metrics
    <2>1. CASE Orchestration
      <3>1. /\ p_pc' = "idle" /\ c_pc' = "idle" /\ c_pc = "idle" /\ c_dst' = c_dst
        BY <2>1 DEF Orchestration, Reset, Initialize, WorkersStopped
      <3>2. Stored' = 0 /\ Fetched' = 0 /\ Fetched = 0
        BY <3>1 DEF Stored, Fetched
      <3> QED BY <1>1, <3>1, <3>2 DEF ContentsInv, PacketStored, OldestFetched
    <2>2. CASE Producer \/ Consumer
      BY <1>1, <2>2, ProducerKeepsContents, ConsumerKeepsContents DEF ContentsInv
    <2>3. CASE UNCHANGED vars
      BY <1>1, <2>3, PacketUntouched, FetchedUntouched DEF ContentsInv, vars
    <2> QED BY <1>1, <2>1, <2>2, <2>3 DEF Next
  <1> QED BY InitContents, <1>1, Invariance, PTL DEF Spec

-----------------------------------------------------------------------------
(* The ring implements the bounded lossy FIFO. *)

\* Storing the write index accepts the packet: the frames behind the write
\* index become the newest unread ones, in order.
LEMMA PublishAccepts ==
  ASSUME ContentsInv, PublishWrite
  PROVE  \E n \in FrameCounts, silent \in BOOLEAN : Fifo!Accept(n, silent)
  <1> DEFINE c == capacity_frames
             f == Filled
             a == Unread \o p_src
  <1>0. /\ IInv /\ PacketStored
        /\ c \in Nat /\ c < IndexModulus /\ f \in Nat /\ IndexModulus \in Nat
        /\ storage \in StorageArrays(c)
        /\ read_index \in Indices /\ write_index \in Indices
        /\ p_src \in Seq(Nat)
        /\ SubIndex(write_index, read_index) = f
    BY TypesOf, BitsAssumption DEF ContentsInv, StorageArrays, Filled
  <1>1. /\ p_pc = "publish" /\ captured' = captured + Len(p_src)
        /\ UNCHANGED <<storage, read_index, capacity_frames, out, overflow_count>>
        /\ Unnoticed' = Unnoticed
    BY DEF PublishWrite, consumerVars, metrics, Unnoticed
  <1>2. PICK n \in FrameCounts, silent \in BOOLEAN : p_src = Packet(n, silent)
    BY <1>0, <1>1 DEF PacketStored
  <1>3. n \in Nat /\ Len(p_src) = n
    BY <1>2, FramesAssumption DEF Packet
  <1>4. \A k \in 0..n-1 : storage[WriteSlot(k)] = p_src[k + 1]
    <2>1. Stored = n
      BY <1>1, <1>3 DEF Stored
    <2> QED BY <1>0, <2>1 DEF PacketStored
  <1>5. Filled' = f + n
    BY <1>0, <1>3, PublishWriteFills
  <1>6. f + n <= c
    <2>1. /\ SubIndex(write_index, p_read) \in Nat
          /\ SubIndex(read_index, p_read) \in Nat
      BY <1>0, TypesOf, SubIndexType
    <2>2. SubIndex(write_index, p_read) + n <= c
      BY <1>0, <1>1, <1>3 DEF IInv, WindowOrdered, Claimed
    <2>3. f = SubIndex(write_index, p_read) - SubIndex(read_index, p_read)
      BY <1>0, FilledFits
    <2> HIDE DEF f, c
    <2> QED BY <1>0, <1>3, <2>1, <2>2, <2>3
  <1>7. /\ Unread \in Seq(Nat) /\ Len(Unread) = f
        /\ \A k \in 0..f-1 : Unread[k + 1] = storage[AddIndex(read_index, k) % c]
    BY <1>0, UnreadValue DEF ReadSlot, SlotOf
  <1>8. Unread' = FramesFrom(storage, c, read_index, f + n)
    BY <1>1, <1>5 DEF Unread, FramesFrom, SlotOf, AddIndex
  <1> HIDE DEF f, c
  <1>9. /\ Unread' \in Seq(Nat) /\ Len(Unread') = f + n
        /\ \A k \in 0..(f+n)-1 : Unread'[k + 1] = storage[AddIndex(read_index, k) % c]
    <2> DEFINE m == f + n
    <2>1. m \in Nat /\ (c = 0 => m = 0)
      BY <1>0, <1>3, <1>6
    <2> HIDE DEF m
    <2>2. /\ FramesFrom(storage, c, read_index, m) \in Seq(Nat)
          /\ Len(FramesFrom(storage, c, read_index, m)) = m
          /\ \A k \in 0..m-1 : FramesFrom(storage, c, read_index, m)[k + 1]
                                  = storage[AddIndex(read_index, k) % c]
      BY <1>0, <2>1, FramesFromSeq
    <2> QED BY <1>8, <2>2 DEF m
  <1>10. /\ a \in Seq(Nat) /\ Len(a) = f + n
         /\ \A i \in 1..f + n : a[i] = IF i <= f THEN Unread[i] ELSE p_src[i - f]
    <2> DEFINE q == Unread
               p == p_src
    <2>1. q \in Seq(Nat) /\ Len(q) = f /\ p \in Seq(Nat) /\ Len(p) = n
      BY <1>0, <1>3, <1>7
    <2> HIDE DEF q, p
    <2>2. /\ q \o p \in Seq(Nat) /\ Len(q \o p) = Len(q) + Len(p)
          /\ \A i \in 1..Len(q) + Len(p) :
               (q \o p)[i] = IF i <= Len(q) THEN q[i] ELSE p[i - Len(q)]
      BY <2>1, ConcatProperties
    <2> QED BY <2>1, <2>2 DEF q, p
  <1> HIDE DEF a
  <1>11. ASSUME NEW i \in 1..f + n
         PROVE  Unread'[i] = a[i]
    <2> DEFINE k == i - 1
    <2>1. k \in 0..(f+n)-1 /\ k + 1 = i /\ k \in Nat
      BY <1>0, <1>3
    <2>2. CASE k < f
      <3>1. k \in 0..f-1 /\ i <= f
        BY <1>0, <2>1, <2>2
      <3> HIDE DEF k
      <3> QED BY <1>7, <1>9, <1>10, <2>1, <3>1
    <2>3. CASE ~(k < f)
      <3> DEFINE j == k - f
      <3>1. /\ j \in Nat /\ j \in 0..n-1 /\ j + 1 = i - f /\ ~(i <= f) /\ k = f + j
            /\ f + j < IndexModulus
        BY <1>0, <1>3, <1>6, <2>1, <2>3
      <3> HIDE DEF j, k
      <3>2. AddIndex(write_index, j) = AddIndex(read_index, k)
        BY <1>0, <3>1, FromBase
      <3>3. storage[AddIndex(read_index, k) % c] = p_src[i - f]
        BY <1>4, <3>1, <3>2 DEF WriteSlot, SlotOf, c
      <3> QED BY <1>9, <1>10, <2>1, <3>1, <3>3
    <2> QED BY <2>2, <2>3
  <1>12. Unread' = a
    BY <1>9, <1>10, <1>11, SeqEqual
  <1>13. Fifo!Packet(captured, n, silent) = p_src
    BY <1>2 DEF Fifo!Packet, Fifo!Silence, Packet, Silence
  <1>14. Fifo!Accept(n, silent)
    BY <1>1, <1>3, <1>6, <1>7, <1>12, <1>13 DEF Fifo!Accept, a, c
  <1> QED BY <1>14

\* Storing the read index delivers the oldest frames, in order.
LEMMA PublishDelivers ==
  ASSUME ContentsInv, PublishRead
  PROVE  \E n \in FrameCounts : Fifo!Deliver(n)
  <1> DEFINE c == capacity_frames
             f == Filled
             n == c_count
             r == read_index
             next == AddIndex(r, n)
             u == Unread
             oldest == SubSeq(u, 1, n)
             left == SubSeq(u, n + 1, f)
  <1>0. /\ IInv /\ OldestFetched
        /\ c \in Nat /\ c < IndexModulus /\ f \in Nat /\ f <= c
        /\ n \in Nat /\ IndexModulus \in Nat
        /\ storage \in StorageArrays(c) /\ r \in Indices
        /\ c_dst \in Seq(Nat)
    BY TypesOf, BitsAssumption DEF ContentsInv, StorageArrays
  <1>1. /\ c_pc = "publish" /\ out' = c_dst /\ read_index' = next
        /\ UNCHANGED <<storage, capacity_frames, captured, overflow_count>>
    BY DEF PublishRead, metrics
  <1>2. /\ n \in FrameCounts /\ Len(c_dst) = n /\ Fetched = n
        /\ \A k \in 0..n-1 : c_dst[k + 1] = storage[AddIndex(r, k) % c]
    BY <1>0, <1>1 DEF OldestFetched, Fetched, ReadSlot, SlotOf
  <1>3. n <= f
    BY <1>0, <1>2, FetchedIsUnread
  <1>4. f' = f - n
    BY <1>0, PublishReadEmpties
  <1>5. /\ u \in Seq(Nat) /\ Len(u) = f
        /\ \A k \in 0..f-1 : u[k + 1] = storage[AddIndex(r, k) % c]
    BY <1>0, UnreadValue DEF ReadSlot, SlotOf
  <1>6. next \in Indices /\ SubIndex(next, r) = n
    <2>1. SubIndex(r, r) = 0
      BY <1>0, SubIndexValue DEF Indices
    <2>2. SubIndex(r, r) + n < IndexModulus
      BY <1>0, <1>3, <2>1
    <2>3. SubIndex(next, r) = SubIndex(r, r) + n /\ next \in Indices
      BY <1>0, <2>2, Advance
    <2> QED BY <1>0, <2>1, <2>3
  <1>7. u' = FramesFrom(storage, c, next, f - n)
    BY <1>1, <1>4 DEF Unread, FramesFrom, SlotOf, AddIndex
  <1> HIDE DEF f, c, n, r, next, u
  <1>8. /\ u' \in Seq(Nat) /\ Len(u') = f - n
        /\ \A k \in 0..(f-n)-1 : u'[k + 1] = storage[AddIndex(next, k) % c]
    <2> DEFINE m == f - n
    <2>1. m \in Nat /\ (c = 0 => m = 0)
      BY <1>0, <1>3
    <2> HIDE DEF m
    <2>2. /\ FramesFrom(storage, c, next, m) \in Seq(Nat)
          /\ Len(FramesFrom(storage, c, next, m)) = m
          /\ \A k \in 0..m-1 :
               FramesFrom(storage, c, next, m)[k + 1] = storage[AddIndex(next, k) % c]
      BY <1>0, <1>6, <2>1, FramesFromSeq
    <2> QED BY <1>7, <2>2 DEF m
  <1>9. /\ oldest \in Seq(Nat) /\ Len(oldest) = n
        /\ \A i \in 1..n : oldest[i] = u[i]
    <2>1. \A i \in 1..n : u[i] \in Nat
      BY <1>0, <1>3, <1>5
    <2>2. /\ oldest \in Seq(Nat)
          /\ Len(oldest) = IF 1 <= n THEN n - 1 + 1 ELSE 0
          /\ \A i \in 1..n - 1 + 1 : oldest[i] = u[1 + i - 1]
      BY <1>0, <2>1, SubSeqProperties
    <2>3. n - 1 + 1 = n /\ \A i \in 1..n : 1 + i - 1 = i
      BY <1>0
    <2> QED BY <1>0, <2>2, <2>3
  <1>10. /\ left \in Seq(Nat) /\ Len(left) = f - n
         /\ \A i \in 1..f - n : left[i] = u[n + i]
    BY <1>0, <1>3, <1>5, SubSeqProperties
  <1> HIDE DEF oldest, left
  <1>11. c_dst = oldest
    <2>1. ASSUME NEW i \in 1..n
          PROVE  c_dst[i] = oldest[i]
      <3> DEFINE k == i - 1
      <3>1. k \in 0..n-1 /\ k \in 0..f-1 /\ k + 1 = i
        BY <1>0, <1>3
      <3> HIDE DEF k
      <3> QED BY <1>2, <1>5, <1>9, <3>1
    <2> QED BY <1>0, <1>2, <1>9, <2>1, SeqEqual
  <1>12. u' = left
    <2>1. ASSUME NEW i \in 1..f - n
          PROVE  u'[i] = left[i]
      <3> DEFINE k == i - 1
                 j == n + k
      <3>1. /\ k \in Nat /\ k \in 0..(f-n)-1 /\ k + 1 = i
            /\ j \in 0..f-1 /\ j + 1 = n + i /\ n + k < IndexModulus
        BY <1>0, <1>3
      <3> HIDE DEF k
      <3>2. AddIndex(next, k) = AddIndex(r, j)
        BY <1>0, <1>6, <3>1, FromBase
      <3> HIDE DEF j
      <3> QED BY <1>5, <1>8, <1>10, <3>1, <3>2
    <2> QED BY <1>8, <1>10, <2>1, SeqEqual
  <1>13. Unnoticed' = Unnoticed + n
    BY <1>0, PublishReadEmpties DEF n
  <1>14. Fifo!Deliver(n)
    BY <1>1, <1>3, <1>5, <1>11, <1>12, <1>13 DEF Fifo!Deliver, oldest, left, u
  <1> QED BY <1>2, <1>14

\* What the FIFO shows of the ring.
FifoView == <<capacity_frames, Unread, out, captured, Unnoticed, overflow_count>>

\* Every step of the ring is a step of the FIFO, or none of its steps.
LEMMA StepRefines ==
  ASSUME ContentsInv, [Next]_vars
  PROVE  [Fifo!Next]_FifoView
  <1> USE DEF producerVars, consumerVars, metrics
  <1>0. IInv
    BY DEF ContentsInv
  <1>1. SubIndex(0, 0) = 0
    <2>1. 0 \in Indices
      BY BitsAssumption DEF Indices
    <2> QED BY <2>1, SubIndexValue
  <1>2. CASE Reset
    <2>1. Unread' = <<>>
      BY <1>1, <1>2 DEF Reset, ZeroIndices, Unread, Filled
    <2>2. Unnoticed' = 0
      BY <1>1, <1>2 DEF Reset, ZeroIndices, Unnoticed
    <2> QED BY <1>2, <2>1, <2>2 DEF Reset, Fifo!Next, Fifo!Discard
  <1>3. ASSUME NEW c \in Capacities, Initialize(c)
        PROVE  Fifo!Open(c)
    <2>1. Unread' = <<>>
      BY <1>1, <1>3 DEF Initialize, ZeroIndices, Unread, Filled
    <2>2. Unread = <<>>
      BY <1>0, <1>1, <1>3 DEF Initialize, IInv, Initialized, Unread, Filled
    <2>3. Unnoticed' = 0 /\ Unnoticed = 0
      BY <1>0, <1>1, <1>3 DEF Initialize, ZeroIndices, IInv, Initialized, Unnoticed
    <2> QED BY <1>3, <2>1, <2>2, <2>3 DEF Initialize, Fifo!Open
  <1>4. ASSUME NEW n \in FrameCounts, NEW silent \in BOOLEAN,
               TryWriteFrames(n, silent)
        PROVE  Fifo!Refuse(n) \/ Fifo!Notice
    <2>1. UNCHANGED <<capacity_frames, Unread, out>>
      BY <1>4 DEF TryWriteFrames, Unread, Filled, SlotOf
    <2>2. PICK read \in Visible(p_read, read_index) :
            /\ p_read' = read /\ read_index' = read_index
            /\ \/ n > FreeFrames(read) /\ RefuseWrite(n)
               \/ UNCHANGED <<captured, overflow_count>>
      BY <1>4 DEF TryWriteFrames
    <2>3. PICK d \in 0..Unnoticed :
            SubIndex(read_index, read) = Unnoticed - d
      BY <1>0, LoadedRead DEF Unnoticed
    <2>4. Unnoticed' = SubIndex(read_index, read)
      BY <2>2 DEF Unnoticed
    <2>5. Unnoticed \in Nat
      BY <1>0, TypesOf, SubIndexType DEF Unnoticed
    <2>6. Unnoticed' \in 0..Unnoticed
      <3> HIDE DEF Unnoticed
      <3> QED BY <2>3, <2>4, <2>5
    <2>7. CASE n > FreeFrames(read) /\ RefuseWrite(n)
      <3>1. /\ FreeFrames(read) = capacity_frames - SubIndex(write_index, read)
            /\ SubIndex(write_index, read) = Filled + SubIndex(read_index, read)
        BY <1>0, LoadedRead
      <3>2. Len(Unread) = Filled /\ Filled \in Nat /\ capacity_frames \in Nat
        BY <1>0, TypesOf, UnreadValue
      <3>3. n \in Nat
        BY FramesAssumption
      <3>4. Len(Unread) + Unnoticed' + n > capacity_frames
        <4> DEFINE h == Unnoticed'
                   s == SubIndex(read_index, read)
        <4>1. h = s /\ h \in Nat
          BY <2>4, <2>5, <2>6
        <4> HIDE DEF h, s, Filled, Unnoticed
        <4>2. n > capacity_frames - (Filled + s)
          BY <2>7, <3>1 DEF s
        <4>3. Len(Unread) + h + n > capacity_frames
          BY <3>2, <3>3, <4>1, <4>2
        <4> QED BY <4>3 DEF h
      <3> QED BY <2>1, <2>6, <2>7, <3>4 DEF RefuseWrite, Fifo!Refuse
    <2>8. CASE UNCHANGED <<captured, overflow_count>>
      BY <2>1, <2>6, <2>8 DEF Fifo!Notice
    <2> QED BY <2>2, <2>7, <2>8
  <1>5. CASE CopyToEnd \/ CopyWrapped
    <2>1. UNCHANGED <<capacity_frames, read_index, write_index, p_read, out,
                      captured, overflow_count>>
      BY <1>5 DEF CopyToEnd, CopyWrapped
    <2>2. \A i \in 0..Filled-1 : storage'[ReadSlot(i)] = storage[ReadSlot(i)]
      BY <1>0, <1>5, CopyFills DEF ContentsInv
    <2>3. Unread' = Unread
      <3>1. Filled \in Nat /\ Filled' = Filled
        BY <1>0, <2>1, TypesOf DEF Filled
      <3>2. ASSUME NEW i \in 1..Filled
            PROVE  storage'[SlotOf(AddIndex(read_index, i - 1))]
                     = storage[SlotOf(AddIndex(read_index, i - 1))]
        <4>1. i - 1 \in 0..Filled-1
          BY <3>1
        <4> QED BY <2>2, <4>1 DEF ReadSlot
      <3> QED BY <2>1, <3>1, <3>2 DEF Unread, SlotOf
    <2> QED BY <2>1, <2>3 DEF FifoView, Unnoticed
  <1>6. CASE PublishWrite
    BY <1>6, PublishAccepts DEF Fifo!Next
  <1>7. CASE PublishRead
    BY <1>7, PublishDelivers DEF Fifo!Next
  <1>8. ASSUME NEW n \in FrameCounts, TryReadFrames(n)
        PROVE  UNCHANGED FifoView
    BY <1>8 DEF TryReadFrames, FifoView, Unread, Filled, SlotOf, Unnoticed
  <1>9. CASE CountWritten \/ ReadToEnd \/ ReadWrapped \/ CountRead \/ UNCHANGED vars
    BY <1>9 DEF CountWritten, ReadToEnd, ReadWrapped, CountRead, vars, FifoView,
                Unread, Filled, SlotOf, Unnoticed
  <1>10. CASE Orchestration
    BY <1>2, <1>3, <1>10 DEF Orchestration, Fifo!Next
  <1>11. CASE Producer
    BY <1>4, <1>5, <1>6, <1>9, <1>11 DEF Producer, Fifo!Next
  <1>12. CASE Consumer
    BY <1>7, <1>8, <1>9, <1>12 DEF Consumer
  <1> QED BY <1>9, <1>10, <1>11, <1>12 DEF Next

\* The PCM bridge is a bounded lossy FIFO of frames: packets are accepted
\* whole or dropped whole, nothing unread is overwritten, and a read returns
\* the oldest frames in order, whatever the interleaving of the two workers,
\* however stale the indices they load and however often these wrap.
THEOREM Refines == Spec => ImplementsFifo
  <1>1. Init => Fifo!Init
    <2> SUFFICES ASSUME Init
                 PROVE  Unread = <<>> /\ Unnoticed = 0
      BY DEF Init, Fifo!Init
    <2>1. SubIndex(0, 0) = 0
      BY SubIndexValue, BitsAssumption DEF Indices
    <2> QED BY <2>1 DEF Init, Unread, Filled, Unnoticed
  <1>2. ContentsInv /\ [Next]_vars
          => [Fifo!Next]_FifoView
    BY StepRefines
  <1> QED BY <1>1, <1>2, ContentsInvariance, PTL
          DEF Spec, ImplementsFifo, Fifo!Spec, Fifo!vars, FifoView

-----------------------------------------------------------------------------
(* What FilledFramesSnapshot tells the workers. *)

\* What every step preserves besides: what the consumer was told of lies
\* before the write index it has seen, what the producer was told to be free
\* is free as seen from the read index it has seen.
SnapshotInv ==
  /\ IInv
  /\ p_free \in Nat /\ c_seen \in Nat
  /\ c_seen # 0 =>
       SubIndex(read_index, p_read) + c_seen <= SubIndex(c_write, p_read)
  /\ p_free # 0 =>
       SubIndex(write_index, p_read) + p_free <= capacity_frames

\* A snapshot changes nothing of the ring but what its caller has seen.
LEMMA SnapshotsPreserve ==
  ASSUME SnapshotInv, ProducerSnapshot \/ ConsumerSnapshot
  PROVE  SnapshotInv'
  <1> USE DEF producerVars, consumerVars, metrics
  <1>0. /\ IInv /\ TypeOK /\ Initialized
        /\ write_index \in Indices /\ read_index \in Indices
        /\ c_write \in Indices /\ p_read \in Indices
        /\ capacity_frames \in Nat /\ c_count \in Nat /\ Len(p_src) \in Nat
        /\ p_free \in Nat /\ c_seen \in Nat
    BY CapacityIsNat DEF SnapshotInv, IInv, TypeOK
  <1>1. /\ SubIndex(write_index, p_read) \in Nat
        /\ SubIndex(read_index, p_read) \in Nat
        /\ SubIndex(c_write, p_read) \in Nat
    BY <1>0, SubIndexType
  <1>2. Claimed \in Nat /\ Taken \in Nat
    BY <1>0 DEF Claimed, Taken
  <1>3. CASE ProducerSnapshot
    <2>1. PICK read \in Visible(p_read, read_index) :
            /\ p_read' = read
            /\ p_free' = SubIndex(capacity_frames,
                                  FilledFramesSnapshot(write_index, read))
      BY <1>3 DEF ProducerSnapshot
    <2>2. PICK d \in 0..SubIndex(read_index, p_read) :
            /\ SubIndex(read_index, read) = SubIndex(read_index, p_read) - d
            /\ SubIndex(c_write, read) = SubIndex(c_write, p_read) - d
            /\ SubIndex(write_index, read) = SubIndex(write_index, p_read) - d
      BY <1>0, LoadedRead
    <2>3. /\ read \in Indices /\ SubIndex(write_index, read) <= capacity_frames
          /\ p_free' = capacity_frames - SubIndex(write_index, read)
          /\ SubIndex(write_index, read) \in Nat
      BY <1>0, <2>1, LoadedRead, SubIndexType DEF FreeFrames, FilledFramesSnapshot
    <2>4. /\ UNCHANGED <<capacity_frames, storage, write_index, read_index, p_pc,
                        p_src, c_pc, c_count, c_write, c_seen>>
          /\ p_pc = "idle" /\ Claimed' = 0 /\ Taken' = Taken
      BY <1>3 DEF ProducerSnapshot, Claimed, Taken
    <2>5. TypeOK'
      BY <1>0, <1>3, <2>1, <2>3 DEF ProducerSnapshot, TypeOK
    <2>6. Initialized'
      <3>1. CASE capacity_frames = 0
        <4>1. read = 0
          <5>1. p_read = 0 /\ read_index = 0
            BY <1>0, <3>1 DEF Initialized
          <5> QED BY <1>0, <5>1, NothingNew
        <4> QED BY <1>0, <2>1, <2>4, <3>1, <4>1 DEF Initialized
      <3>2. CASE capacity_frames # 0
        BY <1>0, <2>4, <3>2 DEF Initialized, ValidCapacity
      <3> QED BY <3>1, <3>2
    <2>7. /\ SubIndex(read_index, read) + Taken <= SubIndex(c_write, read)
          /\ SubIndex(c_write, read) <= SubIndex(write_index, read)
          /\ c_seen # 0 =>
               SubIndex(read_index, read) + c_seen <= SubIndex(c_write, read)
          /\ SubIndex(write_index, read) + p_free' <= capacity_frames
          /\ p_free' \in Nat
      <3>1. /\ SubIndex(read_index, p_read) + Taken <= SubIndex(c_write, p_read)
            /\ SubIndex(c_write, p_read) <= SubIndex(write_index, p_read)
            /\ c_seen # 0 =>
                 SubIndex(read_index, p_read) + c_seen <= SubIndex(c_write, p_read)
        BY DEF SnapshotInv, IInv, WindowOrdered
      <3>2. d \in Nat
        BY <1>1
      <3>3. SubIndex(write_index, read) + p_free' <= capacity_frames /\ p_free' \in Nat
        BY <1>0, <2>3
      <3> QED BY <1>0, <1>1, <1>2, <2>2, <3>1, <3>2, <3>3
    <2>8. WindowOrdered'
      BY <1>0, <2>1, <2>3, <2>4, <2>7 DEF WindowOrdered
    <2> QED BY <1>0, <2>1, <2>4, <2>5, <2>6, <2>7, <2>8
        DEF SnapshotInv, IInv
  <1>4. CASE ConsumerSnapshot
    <2>1. PICK write \in Visible(c_write, write_index) :
            /\ c_write' = write
            /\ c_seen' = SubIndex(write, read_index)
      BY <1>4 DEF ConsumerSnapshot, FilledFramesSnapshot
    <2>2. /\ write \in Indices
          /\ SubIndex(c_write, p_read) <= SubIndex(write, p_read)
          /\ SubIndex(write, p_read) <= SubIndex(write_index, p_read)
          /\ c_seen' = SubIndex(write, p_read) - SubIndex(read_index, p_read)
          /\ c_seen' \in Nat /\ SubIndex(write, p_read) \in Nat
      BY <1>0, <2>1, LoadedWrite, SubIndexType
    <2>3. /\ UNCHANGED <<capacity_frames, storage, write_index, read_index, p_pc,
                        p_src, p_read, c_pc, c_count, p_free>>
          /\ c_pc = "idle" /\ Claimed' = Claimed /\ Taken' = 0
      BY <1>4 DEF ConsumerSnapshot, Claimed, Taken
    <2>4. TypeOK'
      BY <1>0, <1>4, <2>1, <2>2 DEF ConsumerSnapshot, TypeOK
    <2>5. Initialized'
      <3>1. CASE capacity_frames = 0
        <4>1. write = 0
          <5>1. c_write = 0 /\ write_index = 0
            BY <1>0, <3>1 DEF Initialized
          <5> QED BY <1>0, <5>1, NothingNew
        <4> QED BY <1>0, <2>1, <2>3, <3>1, <4>1 DEF Initialized
      <3>2. CASE capacity_frames # 0
        BY <1>0, <2>3, <3>2 DEF Initialized, ValidCapacity
      <3> QED BY <3>1, <3>2
    <2>6. /\ WindowOrdered'
          /\ SubIndex(read_index, p_read) + c_seen' <= SubIndex(write, p_read)
      BY <1>0, <1>1, <1>2, <2>1, <2>2, <2>3 DEF SnapshotInv, IInv, WindowOrdered
    <2> QED BY <1>0, <2>1, <2>2, <2>3, <2>4, <2>5, <2>6 DEF SnapshotInv, IInv
  <1> QED BY <1>3, <1>4

\* A step of the ring itself: reading moves the read index past nothing the
\* consumer is still told of, writing the write index past nothing the
\* producer is still told to be free.
LEMMA RingKeepsSnapshots ==
  ASSUME SnapshotInv, ProducerStep \/ ConsumerStep \/ OrchestrationStep
  PROVE  SnapshotInv'
  <1> USE DEF producerVars, consumerVars, metrics
  <1>0. /\ IInv
        /\ write_index \in Indices /\ read_index \in Indices
        /\ c_write \in Indices /\ p_read \in Indices
        /\ p_free \in Nat /\ c_seen \in Nat
        /\ c_seen # 0 =>
             SubIndex(read_index, p_read) + c_seen <= SubIndex(c_write, p_read)
        /\ p_free # 0 => SubIndex(write_index, p_read) + p_free <= capacity_frames
    BY DEF SnapshotInv, IInv, TypeOK
  <1>1. /\ SubIndex(write_index, p_read) \in Nat
        /\ SubIndex(read_index, p_read) \in Nat
        /\ SubIndex(c_write, p_read) \in Nat
        /\ capacity_frames \in Nat
    BY <1>0, SubIndexType, CapacityIsNat DEF IInv
  <1>2. IInv'
    BY <1>0, NextPreserves DEF ProducerStep, ConsumerStep, OrchestrationStep, Next
  <1>3. CASE OrchestrationStep
    BY <1>2, <1>3 DEF OrchestrationStep, SnapshotInv
  <1>4. CASE ProducerStep
    <2>0. /\ c_seen' = c_seen /\ p_free' = IF p_pc' = "idle" THEN p_free ELSE 0
          /\ read_index' = read_index /\ c_write' = c_write
          /\ capacity_frames' = capacity_frames
      BY <1>4 DEF ProducerStep, Producer, TryWriteFrames, CopyToEnd, CopyWrapped,
                  PublishWrite, CountWritten
    <2>1. ASSUME NEW n \in FrameCounts, NEW silent \in BOOLEAN,
                 TryWriteFrames(n, silent)
          PROVE  SnapshotInv'
      <3>1. PICK read \in Visible(p_read, read_index) : p_read' = read
        BY <2>1 DEF TryWriteFrames
      <3>2. PICK d \in 0..SubIndex(read_index, p_read) :
              /\ SubIndex(read_index, read) = SubIndex(read_index, p_read) - d
              /\ SubIndex(c_write, read) = SubIndex(c_write, p_read) - d
              /\ SubIndex(write_index, read) = SubIndex(write_index, p_read) - d
        BY <1>0, LoadedRead
      <3>3. d \in Nat /\ write_index' = write_index
        BY <1>1, <2>1 DEF TryWriteFrames
      <3>4. /\ c_seen # 0 =>
                 SubIndex(read_index, read) + c_seen <= SubIndex(c_write, read)
            /\ p_free # 0 => SubIndex(write_index, read) + p_free <= capacity_frames
        BY <1>0, <1>1, <3>2, <3>3
      <3> QED BY <1>0, <1>2, <2>0, <3>1, <3>3, <3>4 DEF SnapshotInv
    <2>2. CASE PublishWrite
      <3>1. p_free' = 0 /\ p_read' = p_read
        BY <2>0, <2>2 DEF PublishWrite
      <3> QED BY <1>0, <1>2, <2>0, <3>1 DEF SnapshotInv
    <2>3. CASE CopyToEnd \/ CopyWrapped \/ CountWritten
      <3>1. p_read' = p_read /\ write_index' = write_index
        BY <2>3 DEF CopyToEnd, CopyWrapped, CountWritten
      <3> QED BY <1>0, <1>2, <2>0, <3>1 DEF SnapshotInv
    <2> QED BY <1>4, <2>1, <2>2, <2>3 DEF ProducerStep, Producer
  <1>5. CASE ConsumerStep
    <2>0. /\ p_free' = p_free /\ c_seen' = IF c_pc' = "idle" THEN c_seen ELSE 0
          /\ write_index' = write_index /\ p_read' = p_read
          /\ capacity_frames' = capacity_frames
      BY <1>5 DEF ConsumerStep, Consumer, TryReadFrames, ReadToEnd, ReadWrapped,
                  PublishRead, CountRead
    <2>1. ASSUME NEW n \in FrameCounts, TryReadFrames(n)
          PROVE  SnapshotInv'
      <3>1. PICK write \in Visible(c_write, write_index) :
              c_write' = write /\ read_index' = read_index
        BY <2>1 DEF TryReadFrames
      <3>2. /\ SubIndex(c_write, p_read) <= SubIndex(write, p_read)
            /\ SubIndex(write, p_read) \in Nat
        BY <1>0, LoadedWrite, SubIndexType
      <3>3. c_seen # 0 =>
              SubIndex(read_index, p_read) + c_seen <= SubIndex(write, p_read)
        BY <1>0, <1>1, <3>2
      <3> QED BY <1>0, <1>2, <2>0, <3>1, <3>3 DEF SnapshotInv
    <2>2. CASE PublishRead
      <3>1. c_seen' = 0
        BY <2>0, <2>2 DEF PublishRead
      <3> QED BY <1>0, <1>2, <2>0, <3>1 DEF SnapshotInv
    <2>3. CASE ReadToEnd \/ ReadWrapped \/ CountRead
      <3>1. read_index' = read_index /\ c_write' = c_write
        BY <2>3 DEF ReadToEnd, ReadWrapped, CountRead
      <3> QED BY <1>0, <1>2, <2>0, <3>1 DEF SnapshotInv
    <2> QED BY <1>5, <2>1, <2>2, <2>3 DEF ConsumerStep, Consumer
  <1> QED BY <1>3, <1>4, <1>5

\* Whatever the workers ask in between, the ring keeps its invariant.
THEOREM SnapshotInvariance == SpecSnapshots => []SnapshotInv
  <1>1. InitSnapshots => SnapshotInv
    BY InitEstablishes DEF InitSnapshots, SnapshotInv
  <1>2. SnapshotInv /\ [NextSnapshots]_<<vars, snapshotVars>> => SnapshotInv'
    <2> SUFFICES ASSUME SnapshotInv, [NextSnapshots]_<<vars, snapshotVars>>
                 PROVE  SnapshotInv'
      OBVIOUS
    <2>1. CASE UNCHANGED <<vars, snapshotVars>>
      <3>1. IInv'
        BY <2>1, StutteringPreserves DEF SnapshotInv
      <3> QED BY <2>1, <3>1 DEF vars, producerVars, consumerVars, snapshotVars,
                                SnapshotInv
    <2> QED BY <2>1, SnapshotsPreserve, RingKeepsSnapshots DEF NextSnapshots
  <1> QED BY <1>1, <1>2, PTL DEF SpecSnapshots

\* A worker is never told of frames that are not there, or of space that is
\* not free, however stale the index its relaxed load returned and whatever
\* the other side has done since.
THEOREM SnapshotsAlwaysSafe == SpecSnapshots => []SnapshotsAreSafe
  <1>1. ASSUME SnapshotInv
        PROVE  SnapshotsAreSafe
    <2>1. /\ write_index \in Indices /\ read_index \in Indices
          /\ c_write \in Indices /\ p_read \in Indices
          /\ capacity_frames \in Nat /\ p_free \in Nat /\ c_seen \in Nat
      BY <1>1, CapacityIsNat DEF SnapshotInv, IInv, TypeOK
    <2>2. /\ SubIndex(write_index, p_read) \in Nat
          /\ SubIndex(read_index, p_read) \in Nat
          /\ SubIndex(c_write, p_read) \in Nat
          /\ Filled \in Nat
      BY <2>1, SubIndexType DEF Filled
    <2>3. /\ Filled = SubIndex(write_index, p_read) - SubIndex(read_index, p_read)
          /\ Filled <= capacity_frames
          /\ SubIndex(c_write, p_read) <= SubIndex(write_index, p_read)
      BY <1>1, FilledFits DEF SnapshotInv, IInv, WindowOrdered
    <2> HIDE DEF Filled
    <2>4. c_seen <= Filled
      BY <1>1, <2>1, <2>2, <2>3 DEF SnapshotInv
    <2>5. p_free + Filled <= capacity_frames
      BY <1>1, <2>1, <2>2, <2>3 DEF SnapshotInv
    <2> QED BY <2>4, <2>5 DEF SnapshotsAreSafe
  <1> QED BY <1>1, SnapshotInvariance, PTL

\* A read of what the consumer was told to be there is served, and a write
\* into what the producer was told to be free is no overflow.
THEOREM WorkersCanAlwaysRely == SpecSnapshots => WorkersCanRely
  <1>1. ASSUME SnapshotInv, NEW n \in FrameCounts, TryReadFrames(n), n <= c_seen
        PROVE  c_pc' = "copy"
    <2>1. PICK write \in Visible(c_write, write_index) :
            n > SubIndex(write, read_index) \/ c_pc' = "copy"
      BY <1>1 DEF TryReadFrames
    <2>2. /\ write \in Indices
          /\ SubIndex(c_write, p_read) <= SubIndex(write, p_read)
          /\ SubIndex(write, read_index)
               = SubIndex(write, p_read) - SubIndex(read_index, p_read)
      BY <1>1, LoadedWrite DEF SnapshotInv
    <2>3. /\ n \in Nat /\ n # 0 /\ c_seen \in Nat
          /\ SubIndex(read_index, p_read) \in Nat /\ SubIndex(c_write, p_read) \in Nat
          /\ SubIndex(write, p_read) \in Nat
      BY <1>1, <2>2, FramesAssumption, SubIndexType
      DEF SnapshotInv, IInv, TypeOK, TryReadFrames
    <2>4. SubIndex(read_index, p_read) + c_seen <= SubIndex(c_write, p_read)
      BY <1>1, <2>3 DEF SnapshotInv
    <2>5. n <= SubIndex(write, read_index)
      BY <1>1, <2>2, <2>3, <2>4
    <2>6. ~(n > SubIndex(write, read_index))
      BY <2>2, <2>3, <2>5
    <2> QED BY <2>1, <2>6
  <1>2. ASSUME SnapshotInv, NEW n \in FrameCounts, NEW silent \in BOOLEAN,
               TryWriteFrames(n, silent), n <= p_free
        PROVE  p_pc' = "copy"
    <2>1. PICK read \in Visible(p_read, read_index) :
            n > FreeFrames(read) \/ p_pc' = "copy"
      BY <1>2 DEF TryWriteFrames
    <2>2. PICK d \in 0..SubIndex(read_index, p_read) :
            SubIndex(write_index, read) = SubIndex(write_index, p_read) - d
      BY <1>2, LoadedRead DEF SnapshotInv
    <2>3. FreeFrames(read) = capacity_frames - SubIndex(write_index, read)
      BY <1>2, LoadedRead DEF SnapshotInv
    <2>4. /\ n \in Nat /\ n # 0 /\ p_free \in Nat /\ capacity_frames \in Nat
          /\ SubIndex(read_index, p_read) \in Nat /\ SubIndex(write_index, p_read) \in Nat
      BY <1>2, FramesAssumption, SubIndexType, CapacityIsNat
      DEF SnapshotInv, IInv, TypeOK, TryWriteFrames
    <2>5. SubIndex(write_index, p_read) + p_free <= capacity_frames
      BY <1>2, <2>4 DEF SnapshotInv
    <2>6. ~(n > FreeFrames(read))
      BY <1>2, <2>2, <2>3, <2>4, <2>5
    <2> QED BY <2>1, <2>6
  <1>3. SnapshotInv /\ [NextSnapshots]_<<vars, snapshotVars>>
          => [\A n \in FrameCounts :
                /\ TryReadFrames(n) /\ n <= c_seen => c_pc' = "copy"
                /\ \A silent \in BOOLEAN :
                     TryWriteFrames(n, silent) /\ n <= p_free => p_pc' = "copy"
             ]_<<vars, snapshotVars>>
    BY <1>1, <1>2
  <1> QED BY <1>3, SnapshotInvariance, PTL DEF SpecSnapshots, WorkersCanRely
==============================================================================
