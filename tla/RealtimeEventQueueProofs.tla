---------------------- MODULE RealtimeEventQueueProofs ----------------------
(***************************************************************************)
(* For every number of slots and every width of the counters: the two      *)
(* threads of the real-time event queue never meet in a slot, their        *)
(* counters agree with its contents, and the queue implements EventQueue.  *)
(***************************************************************************)
EXTENDS RealtimeEventQueue, ModularArithmetic, SequenceTheorems

-----------------------------------------------------------------------------
(* Masked indices, as case distinctions without %. *)

\* How far one index is ahead of another.
LEMMA AheadValue ==
  ASSUME NEW a \in Positions, NEW b \in Positions
  PROVE  /\ Ahead(a, b) = IF a >= b THEN a - b ELSE a - b + SlotCount
         /\ Ahead(a, b) \in 0..SlotCount-1
  <1> DEFINE n == SlotCount
  <1>1. n \in Nat \ {0} /\ a \in 0..n-1 /\ b \in 0..n-1
    BY SlotCountAssumption DEF Positions
  <1> HIDE DEF n
  <1>2. (a - b) % n = IF a >= b THEN a - b ELSE a - b + n
    BY <1>1
  <1> QED BY <1>1, <1>2 DEF Ahead, n

\* The slot d places after an index.
LEMMA ForwardValue ==
  ASSUME NEW a \in Positions, NEW d \in 0..SlotCount
  PROVE  (a + d) % SlotCount = IF a + d < SlotCount THEN a + d ELSE a + d - SlotCount
  <1> DEFINE n == SlotCount
  <1>1. n \in Nat \ {0} /\ a \in 0..n-1 /\ d \in 0..n
    BY SlotCountAssumption DEF Positions
  <1> HIDE DEF n
  <1>2. (a + d) % n = IF a + d < n THEN a + d ELSE a + d - n
    BY <1>1
  <1> QED BY <1>2 DEF n

\* The mask sends the index after the last slot to the first one.
LEMMA NextIndexValue ==
  ASSUME NEW a \in Positions
  PROVE  /\ NextIndex(a) = IF a + 1 < SlotCount THEN a + 1 ELSE 0
         /\ NextIndex(a) \in Positions
  <1>1. 1 \in 0..SlotCount
    BY SlotCountAssumption
  <1>2. NextIndex(a) = IF a + 1 < SlotCount THEN a + 1 ELSE a + 1 - SlotCount
    BY <1>1, ForwardValue DEF NextIndex
  <1> QED BY <1>2, SlotCountAssumption DEF Positions

\* An acquire load moves a thread's copy of an index forwards, by no more
\* than the distance to the current value.
LEMMA VisibleValue ==
  ASSUME NEW seen \in Positions, NEW current \in Positions,
         NEW i \in Visible(seen, current)
  PROVE  i \in Positions /\ Ahead(i, seen) <= Ahead(current, seen)
  <1>1. PICK d \in 0..Ahead(current, seen) : i = (seen + d) % SlotCount
    BY DEF Visible
  <1>2. d \in 0..SlotCount /\ d <= Ahead(current, seen) /\ d < SlotCount
    BY <1>1, AheadValue, SlotCountAssumption
  <1>3. i = IF seen + d < SlotCount THEN seen + d ELSE seen + d - SlotCount
    BY <1>1, <1>2, ForwardValue
  <1>4. i \in Positions
    BY <1>2, <1>3, SlotCountAssumption DEF Positions
  <1>5. Ahead(i, seen) = d
    <2>1. Ahead(i, seen) = IF i >= seen THEN i - seen ELSE i - seen + SlotCount
      BY <1>4, AheadValue
    <2>2. seen \in 0..SlotCount-1 /\ d \in Nat /\ SlotCount \in Nat
      BY <1>2, SlotCountAssumption DEF Positions
    <2> QED BY <1>2, <1>3, <2>1, <2>2
  <1> QED BY <1>2, <1>4, <1>5

-----------------------------------------------------------------------------
(* The inductive invariant. *)

Storing == p_pc \in {"store", "publish"}
Taking  == c_pc \in {"load", "release"}

\* Seen from the producer's copy of the read index, the read index, the
\* consumer's copy of the write index and the write index come in this
\* order, with room for the slot each side is working on.
WindowOrdered ==
  /\ Ahead(read_index, p_read) + (IF Taking THEN 1 ELSE 0)
       <= Ahead(c_write, p_read)
  /\ Ahead(c_write, p_read) <= Ahead(write_index, p_read)
  /\ Ahead(write_index, p_read) + (IF Storing THEN 1 ELSE 0) < SlotCount

\* What each side holds is what is in its slot.
InHand ==
  /\ Storing => p_value \in Events
  /\ p_pc = "publish" => slots[write_index] = p_value
  /\ c_pc = "release" => c_value = slots[read_index]

\* Every slot that is not yet released holds an event.
Written ==
  \A i \in Positions :
    Ahead(i, read_index) < Ahead(write_index, read_index) => slots[i] \in Events

\* What every step preserves.
IInv == TypeOK /\ WindowOrdered /\ InHand /\ Written

\* The invariant holds before anything has happened.
LEMMA InitEstablishes == Init => IInv
  <1> SUFFICES ASSUME Init
               PROVE  IInv
    OBVIOUS
  <1>1. 0 \in Positions
    BY SlotCountAssumption DEF Positions
  <1>2. Ahead(0, 0) = 0
    BY <1>1, AheadValue
  <1>3. 0 \in 0..2 ^ CounterBits - 1
    <2> DEFINE M == 2 ^ CounterBits
    <2>1. M \in Nat \ {0}
      BY CounterAssumption
    <2> HIDE DEF M
    <2>2. 0 \in 0..M - 1
      BY <2>1
    <2> QED BY <2>2 DEF M
  <1>4. TypeOK
    BY <1>1, <1>3 DEF Init, TypeOK
  <1>5. WindowOrdered
    BY <1>2, SlotCountAssumption DEF Init, WindowOrdered, Storing, Taking
  <1>6. Written
    <2>1. Ahead(write_index, read_index) = 0
      BY <1>2 DEF Init
    <2>2. \A i \in Positions : Ahead(i, read_index) \in 0..SlotCount-1
      BY <1>1, AheadValue DEF Init
    <2> QED BY <2>1, <2>2, SlotCountAssumption DEF Written
  <1> QED BY <1>4, <1>5, <1>6 DEF Init, InHand, Storing, IInv

\* The types of the indices, and their distances from p_read, as numbers.
LEMMA WindowNumbers ==
  ASSUME TypeOK
  PROVE  /\ write_index \in Positions /\ read_index \in Positions
         /\ p_read \in Positions /\ c_write \in Positions
         /\ \A x \in Positions :
              Ahead(x, p_read) \in 0..SlotCount-1 /\ Ahead(x, p_read) \in Nat
         /\ SlotCount \in Nat /\ SlotCount >= 2
  <1>1. p_read \in Positions
    BY DEF TypeOK
  <1>2. ASSUME NEW x \in Positions
        PROVE  Ahead(x, p_read) \in 0..SlotCount-1 /\ Ahead(x, p_read) \in Nat
    BY <1>1, AheadValue, SlotCountAssumption
  <1> QED BY <1>1, <1>2, SlotCountAssumption DEF TypeOK

\* A counter of CounterBits bits stays one when it is incremented.
LEMMA IncrementType ==
  ASSUME NEW n \in 0..2 ^ CounterBits - 1
  PROVE  Increment(n) \in 0..2 ^ CounterBits - 1
  <1> DEFINE M == 2 ^ CounterBits
  <1>1. M \in Nat \ {0} /\ n \in 0..M-1
    BY CounterAssumption
  <1> HIDE DEF M
  <1>2. (n + 1) % M \in 0..M-1
    BY <1>1
  <1> QED BY <1>2 DEF M, Increment

\* Distances from one index add up, as long as they do not go round.
LEMMA SubtractDistances ==
  ASSUME NEW a \in Positions, NEW b \in Positions, NEW p \in Positions,
         Ahead(a, p) <= Ahead(b, p)
  PROVE  Ahead(b, a) = Ahead(b, p) - Ahead(a, p)
  <1>1. /\ Ahead(a, p) = IF a >= p THEN a - p ELSE a - p + SlotCount
        /\ Ahead(b, p) = IF b >= p THEN b - p ELSE b - p + SlotCount
        /\ Ahead(b, a) = IF b >= a THEN b - a ELSE b - a + SlotCount
    BY AheadValue
  <1> QED BY <1>1, SlotCountAssumption DEF Positions

\* A distance from a base determines the index.
LEMMA EqualDistances ==
  ASSUME NEW a \in Positions, NEW b \in Positions, NEW p \in Positions,
         Ahead(a, p) = Ahead(b, p)
  PROVE  a = b
  <1> DEFINE da == Ahead(a, p)
             db == Ahead(b, p)
  <1>1. /\ da = IF a >= p THEN a - p ELSE a - p + SlotCount
        /\ db = IF b >= p THEN b - p ELSE b - p + SlotCount
        /\ da = db
    BY AheadValue
  <1>2. /\ a \in 0..SlotCount-1 /\ b \in 0..SlotCount-1 /\ p \in 0..SlotCount-1
        /\ SlotCount \in Nat
    BY SlotCountAssumption DEF Positions
  <1> HIDE DEF da, db
  <1> QED BY <1>1, <1>2

\* A step to the next slot lengthens the distance by one, unless it goes round.
LEMMA Advance ==
  ASSUME NEW a \in Positions, NEW p \in Positions, Ahead(a, p) + 1 < SlotCount
  PROVE  NextIndex(a) \in Positions /\ Ahead(NextIndex(a), p) = Ahead(a, p) + 1
  <1>1. NextIndex(a) = (IF a + 1 < SlotCount THEN a + 1 ELSE 0)
        /\ NextIndex(a) \in Positions
    BY NextIndexValue
  <1>2. /\ Ahead(a, p) = IF a >= p THEN a - p ELSE a - p + SlotCount
        /\ Ahead(NextIndex(a), p) = IF NextIndex(a) >= p THEN NextIndex(a) - p
                                    ELSE NextIndex(a) - p + SlotCount
    BY <1>1, AheadValue
  <1> QED BY <1>1, <1>2, SlotCountAssumption DEF Positions

\* The index after one that is a whole round less a slot ahead is the base
\* itself: this is what the test for a full queue recognises.
LEMMA FullRound ==
  ASSUME NEW a \in Positions, NEW p \in Positions
  PROVE  NextIndex(a) = p <=> Ahead(a, p) + 1 = SlotCount
  <1>1. NextIndex(a) = IF a + 1 < SlotCount THEN a + 1 ELSE 0
    BY NextIndexValue
  <1>2. Ahead(a, p) = IF a >= p THEN a - p ELSE a - p + SlotCount
    BY AheadValue
  <1> QED BY <1>1, <1>2, SlotCountAssumption DEF Positions

\* The producer keeps the window: it claims a slot only when the next one is
\* not where it last saw the read index.
LEMMA ProducerKeepsWindow ==
  ASSUME IInv, Producer
  PROVE  WindowOrdered'
  <1> USE DEF consumerVars
  <1>0. TypeOK /\ WindowOrdered
    BY DEF IInv
  <1>1. /\ write_index \in Positions /\ read_index \in Positions
        /\ p_read \in Positions /\ c_write \in Positions
        /\ SlotCount \in Nat /\ SlotCount >= 2
        /\ Ahead(read_index, p_read) \in Nat
        /\ Ahead(c_write, p_read) \in Nat
        /\ Ahead(write_index, p_read) \in Nat
    BY <1>0, WindowNumbers
  <1>2. ASSUME NEW e \in Events, TryPublish(e)
        PROVE  WindowOrdered'
    <2>1. /\ p_read' \in Visible(p_read, read_index)
          /\ Storing' => ~Full(p_read')
          /\ UNCHANGED <<write_index, read_index, c_write, c_pc>>
      BY <1>2 DEF TryPublish, Storing
    <2>2. /\ p_read' \in Positions
          /\ Ahead(p_read', p_read) <= Ahead(read_index, p_read)
      BY <1>1, <2>1, VisibleValue
    <2>3. Ahead(p_read', p_read) \in Nat
      BY <1>0, <2>2, WindowNumbers
    <2>4. /\ Ahead(read_index, p_read') = Ahead(read_index, p_read) - Ahead(p_read', p_read)
          /\ Ahead(c_write, p_read') = Ahead(c_write, p_read) - Ahead(p_read', p_read)
          /\ Ahead(write_index, p_read') = Ahead(write_index, p_read) - Ahead(p_read', p_read)
      BY <1>0, <1>1, <2>2, <2>3, SubtractDistances DEF WindowOrdered
    <2>5. Ahead(write_index, p_read') \in 0..SlotCount-1
      BY <1>1, <2>2, AheadValue
    <2>6. Storing' => Ahead(write_index, p_read') + 1 < SlotCount
      BY <1>1, <2>1, <2>2, <2>5, FullRound DEF Full
    <2>7. Taking' = Taking
      BY <2>1 DEF Taking
    <2> QED BY <1>0, <1>1, <2>1, <2>3, <2>4, <2>5, <2>6, <2>7 DEF WindowOrdered
  <1>3. CASE PublishIndex
    <2>1. write_index' = NextIndex(write_index) /\ Storing /\ ~Storing'
      BY <1>3 DEF PublishIndex, Storing
    <2>2. Ahead(write_index', p_read) = Ahead(write_index, p_read) + 1
      BY <1>0, <1>1, <2>1, Advance DEF WindowOrdered
    <2> QED BY <1>0, <1>1, <1>3, <2>1, <2>2 DEF PublishIndex, WindowOrdered, Taking
  <1>4. CASE StoreSlot
    BY <1>0, <1>4 DEF StoreSlot, WindowOrdered, Storing, Taking
  <1>5. CASE CountPublished
    BY <1>0, <1>5 DEF CountPublished, WindowOrdered, Storing, Taking
  <1> QED BY <1>2, <1>3, <1>4, <1>5 DEF Producer

\* The consumer keeps the window: it takes a slot only when the read index is
\* not where it last saw the write index.
LEMMA ConsumerKeepsWindow ==
  ASSUME IInv, Consumer
  PROVE  WindowOrdered'
  <1> USE DEF producerVars
  <1>0. TypeOK /\ WindowOrdered
    BY DEF IInv
  <1>1. /\ write_index \in Positions /\ read_index \in Positions
        /\ p_read \in Positions /\ c_write \in Positions
        /\ SlotCount \in Nat /\ SlotCount >= 2
        /\ Ahead(read_index, p_read) \in Nat
        /\ Ahead(c_write, p_read) \in Nat
        /\ Ahead(write_index, p_read) \in Nat
    BY <1>0, WindowNumbers
  <1>2. CASE TryPop
    <2>1. /\ c_write' \in Visible(c_write, write_index)
          /\ Taking' => read_index # c_write'
          /\ ~Taking
          /\ UNCHANGED <<write_index, read_index, p_read, p_pc>>
      BY <1>2 DEF TryPop, Taking
    <2>2. /\ c_write' \in Positions
          /\ Ahead(c_write', c_write) <= Ahead(write_index, c_write)
      BY <1>1, <2>1, VisibleValue
    <2>3. Ahead(write_index, c_write) = Ahead(write_index, p_read) - Ahead(c_write, p_read)
      BY <1>0, <1>1, SubtractDistances DEF WindowOrdered
    <2>4. Ahead(c_write', p_read) = Ahead(c_write, p_read) + Ahead(c_write', c_write)
      <3>1. /\ Ahead(c_write', p_read)
                  = IF c_write' >= p_read THEN c_write' - p_read
                    ELSE c_write' - p_read + SlotCount
            /\ Ahead(c_write, p_read)
                  = IF c_write >= p_read THEN c_write - p_read
                    ELSE c_write - p_read + SlotCount
            /\ Ahead(c_write', c_write)
                  = IF c_write' >= c_write THEN c_write' - c_write
                    ELSE c_write' - c_write + SlotCount
            /\ Ahead(write_index, p_read) < SlotCount
        BY <1>1, <2>2, AheadValue, SlotCountAssumption
      <3> QED BY <1>1, <2>2, <2>3, <3>1 DEF Positions
    <2>5. Ahead(c_write', c_write) \in Nat
      BY <1>1, <2>2, AheadValue, SlotCountAssumption
    <2>6. read_index # c_write' => Ahead(read_index, p_read) # Ahead(c_write', p_read)
      BY <1>1, <2>2, EqualDistances
    <2>7. Storing' = Storing
      BY <2>1 DEF Storing
    <2> QED BY <1>0, <1>1, <2>1, <2>2, <2>3, <2>4, <2>5, <2>6, <2>7 DEF WindowOrdered
  <1>3. CASE ReleaseSlot
    <2>1. read_index' = NextIndex(read_index) /\ Taking /\ ~Taking'
      BY <1>3 DEF ReleaseSlot, Taking
    <2>2. Ahead(read_index, p_read) + 1 < SlotCount
      BY <1>0, <1>1, <2>1 DEF WindowOrdered
    <2>3. Ahead(read_index', p_read) = Ahead(read_index, p_read) + 1
      BY <1>1, <2>1, <2>2, Advance
    <2> QED BY <1>0, <1>1, <1>3, <2>1, <2>3 DEF ReleaseSlot, WindowOrdered, Storing
  <1>4. CASE LoadSlot
    BY <1>0, <1>4 DEF LoadSlot, WindowOrdered, Storing, Taking
  <1>5. CASE CountConsumed
    BY <1>0, <1>5 DEF CountConsumed, WindowOrdered, Storing, Taking
  <1> QED BY <1>2, <1>3, <1>4, <1>5 DEF Consumer

\* A slot that one side is working on is none of the other side's.
LEMMA SlotsApart ==
  ASSUME IInv
  PROVE  NoSlotRace
  <1> SUFFICES ASSUME Storing, Taking, write_index = read_index
               PROVE  FALSE
    BY DEF NoSlotRace, Storing, Taking
  <1>1. /\ Ahead(read_index, p_read) \in Nat
        /\ Ahead(c_write, p_read) \in Nat
        /\ Ahead(write_index, p_read) \in Nat
    BY WindowNumbers DEF IInv
  <1> QED BY <1>1 DEF IInv, WindowOrdered

\* What a side holds stays in its slot until it lets go of it.
LEMMA NextKeepsInHand ==
  ASSUME IInv, [Next]_vars
  PROVE  InHand'
  <1> USE DEF producerVars, consumerVars, Storing
  <1>1. TypeOK /\ InHand
    BY DEF IInv
  <1>2. ASSUME NEW e \in Events, TryPublish(e)
        PROVE  InHand'
    BY <1>1, <1>2 DEF TryPublish, InHand
  <1>3. CASE StoreSlot
    <2>1. c_pc = "release" => write_index # read_index
      BY <1>3, SlotsApart DEF StoreSlot, NoSlotRace
    <2>2. /\ slots' = [slots EXCEPT ![write_index] = p_value]
          /\ slots \in [Positions -> Events \cup {NoEvent}]
          /\ write_index \in Positions /\ read_index \in Positions
      BY <1>1, <1>3 DEF StoreSlot, TypeOK
    <2>3. slots'[write_index] = p_value
      BY <2>2
    <2>4. c_pc = "release" => slots'[read_index] = slots[read_index]
      BY <2>1, <2>2
    <2> QED BY <1>1, <1>3, <2>3, <2>4 DEF StoreSlot, InHand
  <1>4. CASE PublishIndex
    BY <1>1, <1>4 DEF PublishIndex, InHand
  <1>5. CASE CountPublished
    BY <1>1, <1>5 DEF CountPublished, InHand
  <1>6. CASE TryPop
    BY <1>1, <1>6 DEF TryPop, InHand
  <1>7. CASE LoadSlot
    BY <1>1, <1>7 DEF LoadSlot, InHand
  <1>8. CASE ReleaseSlot
    BY <1>1, <1>8 DEF ReleaseSlot, InHand
  <1>9. CASE CountConsumed
    BY <1>1, <1>9 DEF CountConsumed, InHand
  <1>10. CASE UNCHANGED vars
    BY <1>1, <1>10 DEF vars, InHand
  <1> QED BY <1>2, <1>3, <1>4, <1>5, <1>6, <1>7, <1>8, <1>9, <1>10
          DEF Next, Producer, Consumer

\* What is in the queue grows by one with the write index ...
LEMMA PublishFills ==
  ASSUME IInv, PublishIndex
  PROVE  Filled' = Filled + 1
  <1>1. /\ write_index \in Positions /\ read_index \in Positions
        /\ p_read \in Positions /\ SlotCount \in Nat
        /\ Ahead(read_index, p_read) \in Nat
        /\ Ahead(c_write, p_read) \in Nat
        /\ Ahead(write_index, p_read) \in Nat
    BY WindowNumbers DEF IInv
  <1>2. /\ Ahead(read_index, p_read) <= Ahead(write_index, p_read)
        /\ Ahead(write_index, p_read) + 1 < SlotCount
    BY <1>1 DEF IInv, WindowOrdered, PublishIndex, Storing
  <1>3. Filled = Ahead(write_index, p_read) - Ahead(read_index, p_read)
    BY <1>1, <1>2, SubtractDistances DEF Filled
  <1>4. Filled + 1 < SlotCount
    BY <1>1, <1>2, <1>3
  <1> QED BY <1>1, <1>4, Advance DEF PublishIndex, Filled

\* ... and shrinks by one with the read index, when there is something in it.
LEMMA ReleaseEmpties ==
  ASSUME IInv, ReleaseSlot
  PROVE  Filled >= 1 /\ Filled' = Filled - 1
  <1>1. /\ write_index \in Positions /\ read_index \in Positions
        /\ p_read \in Positions /\ SlotCount \in Nat
        /\ Ahead(read_index, p_read) \in Nat
        /\ Ahead(c_write, p_read) \in Nat
        /\ Ahead(write_index, p_read) \in Nat
        /\ Ahead(write_index, p_read) < SlotCount
    BY WindowNumbers DEF IInv
  <1>2. Ahead(read_index, p_read) + 1 <= Ahead(write_index, p_read)
    BY <1>1 DEF IInv, WindowOrdered, ReleaseSlot, Taking
  <1>3. Filled = Ahead(write_index, p_read) - Ahead(read_index, p_read)
    BY <1>1, <1>2, SubtractDistances DEF Filled
  <1>4. /\ read_index' \in Positions
        /\ Ahead(read_index', p_read) = Ahead(read_index, p_read) + 1
    BY <1>1, <1>2, Advance DEF ReleaseSlot
  <1>5. Ahead(write_index, read_index')
          = Ahead(write_index, p_read) - Ahead(read_index', p_read)
    BY <1>1, <1>2, <1>4, SubtractDistances
  <1> QED BY <1>1, <1>2, <1>3, <1>4, <1>5 DEF Filled, ReleaseSlot

\* The slot the consumer is working on is one of those not yet released.
LEMMA TakesWritten ==
  ASSUME IInv, Taking
  PROVE  slots[read_index] \in Events
  <1>1. /\ write_index \in Positions /\ read_index \in Positions
        /\ p_read \in Positions
        /\ Ahead(read_index, p_read) \in Nat
        /\ Ahead(c_write, p_read) \in Nat
        /\ Ahead(write_index, p_read) \in Nat
    BY WindowNumbers DEF IInv
  <1>2. Ahead(read_index, p_read) + 1 <= Ahead(write_index, p_read)
    BY <1>1 DEF IInv, WindowOrdered
  <1>3. Ahead(write_index, read_index)
          = Ahead(write_index, p_read) - Ahead(read_index, p_read)
    BY <1>1, <1>2, SubtractDistances
  <1>4. Ahead(read_index, read_index) = 0
    BY <1>1, AheadValue, SlotCountAssumption DEF Positions
  <1> QED BY <1>1, <1>2, <1>3, <1>4 DEF IInv, Written

\* Every thread keeps the types.
LEMMA NextKeepsType ==
  ASSUME IInv, [Next]_vars
  PROVE  TypeOK'
  <1> USE DEF producerVars, consumerVars
  <1>1. TypeOK /\ InHand
    BY DEF IInv
  <1>2. ASSUME NEW e \in Events, TryPublish(e)
        PROVE  TypeOK'
    <2>1. p_read' \in Positions
      BY <1>1, <1>2, VisibleValue DEF TryPublish, TypeOK
    <2>2. dropped' \in 0..2 ^ CounterBits - 1
      BY <1>1, <1>2, IncrementType DEF TryPublish, TypeOK
    <2> QED BY <1>1, <1>2, <2>1, <2>2 DEF TryPublish, TypeOK
  <1>3. CASE StoreSlot
    BY <1>1, <1>3 DEF StoreSlot, TypeOK
  <1>4. CASE PublishIndex
    BY <1>1, <1>4, NextIndexValue DEF PublishIndex, TypeOK
  <1>5. CASE CountPublished
    BY <1>1, <1>5, IncrementType DEF CountPublished, TypeOK
  <1>6. CASE TryPop
    <2>1. c_write' \in Positions
      BY <1>1, <1>6, VisibleValue DEF TryPop, TypeOK
    <2> QED BY <1>1, <1>6, <2>1 DEF TryPop, TypeOK
  <1>7. CASE LoadSlot
    <2>1. slots[read_index] \in Events
      BY <1>7, TakesWritten DEF LoadSlot, Taking
    <2> QED BY <1>1, <1>7, <2>1 DEF LoadSlot, TypeOK
  <1>8. CASE ReleaseSlot
    BY <1>1, <1>8, NextIndexValue DEF ReleaseSlot, TypeOK
  <1>9. CASE CountConsumed
    BY <1>1, <1>9, IncrementType DEF CountConsumed, TypeOK
  <1>10. CASE UNCHANGED vars
    BY <1>1, <1>10 DEF vars, TypeOK
  <1> QED BY <1>2, <1>3, <1>4, <1>5, <1>6, <1>7, <1>8, <1>9, <1>10
          DEF Next, Producer, Consumer

\* A slot is behind the write index only once its event has been stored.
LEMMA NextKeepsWritten ==
  ASSUME IInv, [Next]_vars
  PROVE  Written'
  <1> USE DEF producerVars, consumerVars
  <1>0. /\ write_index \in Positions /\ read_index \in Positions
        /\ slots \in [Positions -> Events \cup {NoEvent}]
        /\ \A i \in Positions :
             Ahead(i, read_index) < Ahead(write_index, read_index)
               => slots[i] \in Events
    BY DEF IInv, TypeOK, Written
  <1>1. ASSUME NEW i \in Positions
        PROVE  Ahead(i, read_index) \in 0..SlotCount-1 /\ Ahead(i, read_index) \in Nat
    BY <1>0, AheadValue, SlotCountAssumption
  <1>2. CASE UNCHANGED <<slots, write_index, read_index>>
    BY <1>0, <1>2 DEF Written, Ahead, Positions
  <1>3. CASE StoreSlot
    <2>1. p_value \in Events
      BY <1>3 DEF IInv, InHand, Storing, StoreSlot
    <2> QED BY <1>0, <1>3, <2>1 DEF StoreSlot, Written, Ahead, Positions
  <1>4. CASE PublishIndex
    <2>1. /\ slots' = slots /\ read_index' = read_index
          /\ slots[write_index] \in Events
      BY <1>4 DEF PublishIndex, IInv, InHand, Storing
    <2>2. Ahead(write_index', read_index) = Ahead(write_index, read_index) + 1
      BY <1>4, <2>1, PublishFills DEF Filled
    <2>3. ASSUME NEW i \in Positions,
                 Ahead(i, read_index) < Ahead(write_index', read_index)
          PROVE  slots[i] \in Events
      <3>1. \/ Ahead(i, read_index) < Ahead(write_index, read_index)
            \/ Ahead(i, read_index) = Ahead(write_index, read_index)
        BY <1>0, <1>1, <2>2, <2>3
      <3>2. CASE Ahead(i, read_index) = Ahead(write_index, read_index)
        <4>1. i = write_index
          BY <1>0, <3>2, EqualDistances
        <4> QED BY <2>1, <4>1
      <3> QED BY <1>0, <3>1, <3>2
    <2> QED BY <2>1, <2>3 DEF Written, Positions
  <1>5. CASE ReleaseSlot
    <2>1. /\ slots' = slots /\ write_index' = write_index
          /\ read_index' = NextIndex(read_index)
      BY <1>5 DEF ReleaseSlot
    <2>2. /\ Ahead(write_index, read_index) >= 1
          /\ Ahead(write_index, read_index') = Ahead(write_index, read_index) - 1
      BY <1>5, <2>1, ReleaseEmpties DEF Filled
    <2>3. ASSUME NEW i \in Positions,
                 Ahead(i, read_index') < Ahead(write_index, read_index')
          PROVE  slots[i] \in Events
      <3>1. /\ Ahead(i, read_index)
                 = IF i >= read_index THEN i - read_index ELSE i - read_index + SlotCount
            /\ Ahead(i, read_index')
                 = IF i >= read_index' THEN i - read_index' ELSE i - read_index' + SlotCount
            /\ read_index' \in Positions
            /\ read_index' = IF read_index + 1 < SlotCount THEN read_index + 1 ELSE 0
        BY <1>0, <2>1, AheadValue, NextIndexValue
      <3>2. /\ Ahead(i, read_index') \in Nat /\ Ahead(i, read_index) \in Nat
            /\ Ahead(write_index, read_index) \in 0..SlotCount-1
        BY <1>0, <1>1, <3>1, AheadValue, SlotCountAssumption
      <3>3. \/ Ahead(i, read_index) = Ahead(i, read_index') + 1
            \/ Ahead(i, read_index') = SlotCount - 1
        BY <1>0, <3>1, SlotCountAssumption DEF Positions
      <3>4. Ahead(i, read_index) < Ahead(write_index, read_index)
        BY <2>2, <2>3, <3>2, <3>3, SlotCountAssumption
      <3> QED BY <1>0, <3>4
    <2> QED BY <2>1, <2>3 DEF Written, Positions
  <1>6. CASE Next /\ ~StoreSlot /\ ~PublishIndex /\ ~ReleaseSlot
    BY <1>2, <1>6 DEF Next, Producer, Consumer, TryPublish, CountPublished, TryPop,
                      LoadSlot, CountConsumed
  <1>7. CASE UNCHANGED vars
    BY <1>2, <1>7 DEF vars
  <1> QED BY <1>3, <1>4, <1>5, <1>6, <1>7

\* Every reachable state satisfies the inductive invariant.
THEOREM Invariance == Spec => []IInv
  <1>1. Init => IInv
    BY InitEstablishes
  <1>2. IInv /\ [Next]_vars => IInv'
    <2> SUFFICES ASSUME IInv, [Next]_vars
                 PROVE  IInv'
      OBVIOUS
    <2>1. CASE Next
      <3>1. WindowOrdered'
        BY <2>1, ProducerKeepsWindow, ConsumerKeepsWindow DEF Next
      <3> QED BY <3>1, NextKeepsType, NextKeepsInHand, NextKeepsWritten
          DEF IInv
    <2>2. CASE UNCHANGED vars
      <3>1. WindowOrdered'
        BY <2>2 DEF IInv, WindowOrdered, Storing, Taking, vars, producerVars, consumerVars
      <3> QED BY <3>1, NextKeepsType, NextKeepsInHand, NextKeepsWritten
          DEF IInv
    <2> QED BY <2>1, <2>2
  <1> QED BY <1>1, <1>2, PTL DEF Spec

\* Both indices stay within the slots, the metrics within their width, and
\* what the consumer copies and hands out is an event that was stored.
THEOREM TypeCorrect == Spec => []TypeOK
  <1>1. IInv => TypeOK
    BY DEF IInv
  <1> QED BY <1>1, Invariance, PTL

\* The real-time thread never stores into the slot that the logger's thread
\* is copying from, for any number of slots and however stale the indices
\* the two have loaded: the queue has no data race.
THEOREM RaceFree == Spec => []NoSlotRace
  <1>1. IInv => NoSlotRace
    BY SlotsApart
  <1> QED BY <1>1, Invariance, PTL

-----------------------------------------------------------------------------
(* The counters. *)

\* What each thread has counted or is about to count.
Produced == published + (IF p_pc = "count" THEN 1 ELSE 0)
Popped   == consumed + (IF c_pc = "count" THEN 1 ELSE 0)

\* The counters and what is in the queue are numbers.
LEMMA CountsAreNumbers ==
  ASSUME IInv
  PROVE  /\ published \in Int /\ consumed \in Int /\ Produced \in Int
         /\ Popped \in Int /\ Filled \in Nat
  <1> DEFINE M == 2 ^ CounterBits
  <1>1. published \in 0..M-1 /\ consumed \in 0..M-1 /\ M \in Nat
    BY CounterAssumption DEF IInv, TypeOK
  <1> HIDE DEF M
  <1>2. published \in Int /\ consumed \in Int
    BY <1>1
  <1>3. Filled \in 0..SlotCount-1
    BY AheadValue DEF IInv, TypeOK, Filled
  <1> QED BY <1>2, <1>3, SlotCountAssumption DEF Produced, Popped

\* Counting an event changes neither side of the account.
LEMMA CountingAbsorbed ==
  ASSUME NEW n \in Int, NEW k \in Int
  PROVE  (Increment(n) + k) % 2 ^ CounterBits = (n + 1 + k) % 2 ^ CounterBits
  <1> DEFINE M == 2 ^ CounterBits
             x == n + 1
  <1>1. M \in Nat \ {0} /\ x \in Int
    BY CounterAssumption
  <1> HIDE DEF M, x
  <1>2. ((x % M) + k) % M = (x + k) % M
    BY <1>1, ModOfSum
  <1> QED BY <1>2 DEF M, x, Increment

\* Every event that was published is counted by the logger's thread, is in
\* the queue, or is in the hands of one call on each side, modulo the width of
\* the counters: nothing is counted twice and nothing disappears between the
\* metrics, whatever stale indices the two threads load.
THEOREM CountersAlwaysAgree == Spec => []CountersAgree
  <1> DEFINE M == 2 ^ CounterBits
             Account == Produced % M = (Popped + Filled) % M
  <1>1. Account <=> CountersAgree
    BY DEF CountersAgree, Produced, Popped
  <1>2. Init => Account
    <2> SUFFICES ASSUME Init
                 PROVE  Account
      OBVIOUS
    <2>1. Filled = 0
      <3>1. 0 \in Positions
        BY SlotCountAssumption DEF Positions
      <3> QED BY <3>1, AheadValue DEF Init, Filled
    <2>2. Produced = 0 /\ Popped = 0
      BY DEF Init, Produced, Popped
    <2> QED BY <2>1, <2>2
  <1>3. ASSUME IInv, Account, [Next]_vars
        PROVE  Account'
    <2> USE DEF producerVars, consumerVars
    <2>0. /\ published \in Int /\ consumed \in Int /\ Produced \in Int
          /\ Popped \in Int /\ Filled \in Nat
      BY <1>3, CountsAreNumbers
    <2>1. ASSUME UNCHANGED <<Produced, Popped, Filled>>
          PROVE  Account'
      BY <1>3, <2>1
    <2>2. ASSUME NEW e \in Events, TryPublish(e)
          PROVE  Account'
      BY <2>1, <2>2 DEF TryPublish, Produced, Popped, Filled
    <2>3. CASE StoreSlot \/ TryPop \/ LoadSlot \/ UNCHANGED vars
      BY <2>1, <2>3 DEF StoreSlot, TryPop, LoadSlot, vars, Produced, Popped, Filled
    <2>4. CASE PublishIndex
      <3>1. Produced' = Produced + 1 /\ Popped' = Popped /\ Filled' = Filled + 1
        BY <1>3, <2>0, <2>4, PublishFills DEF PublishIndex, Produced, Popped
      <3>2. (Produced + 1) % M = ((Popped + Filled) + 1) % M
        <4> DEFINE x == Produced
                   y == Popped + Filled
                   k == 1
        <4>1. /\ M \in Nat \ {0} /\ x \in Int /\ y \in Int /\ k \in Int
              /\ x % M = y % M
          BY <1>3, <2>0, CounterAssumption
        <4> HIDE DEF M, x, y, k, Account
        <4>2. (x + k) % M = (y + k) % M
          BY <4>1, AddToCongruent
        <4> QED BY <4>2 DEF x, y, k
      <3>3. (Popped + Filled) + 1 = Popped + (Filled + 1)
        BY <2>0
      <3> QED BY <3>1, <3>2, <3>3
    <2>5. CASE CountPublished
      <3>1. /\ Produced = published + 1 /\ Produced' = Increment(published) + 0
            /\ Popped' = Popped /\ Filled' = Filled
        BY <2>0, <2>5 DEF CountPublished, Produced, Popped, Filled
      <3>2. (Increment(published) + 0) % M = (published + 1 + 0) % M
        BY <2>0, CountingAbsorbed
      <3>3. published + 1 + 0 = published + 1
        BY <2>0
      <3> QED BY <1>3, <3>1, <3>2, <3>3
    <2>6. CASE ReleaseSlot
      <3>1. Produced' = Produced /\ Popped' = Popped + 1 /\ Filled' = Filled - 1
        BY <1>3, <2>0, <2>6, ReleaseEmpties DEF ReleaseSlot, Produced, Popped
      <3>2. (Popped + 1) + (Filled - 1) = Popped + Filled
        BY <2>0
      <3> QED BY <1>3, <3>1, <3>2
    <2>7. CASE CountConsumed
      <3>1. /\ Popped = consumed + 1 /\ Popped' = Increment(consumed)
            /\ Produced' = Produced /\ Filled' = Filled
        <4>1. Increment(consumed) + 0 = Increment(consumed)
          <5>1. Increment(consumed) \in 0..2 ^ CounterBits - 1
            BY <1>3, IncrementType DEF IInv, TypeOK
          <5> HIDE DEF M
          <5> QED BY <5>1
        <4> QED BY <2>0, <2>7, <4>1 DEF CountConsumed, Produced, Popped, Filled
      <3>2. (Increment(consumed) + Filled) % M = (consumed + 1 + Filled) % M
        BY <2>0, CountingAbsorbed
      <3> QED BY <1>3, <3>1, <3>2
    <2> QED BY <1>3, <2>2, <2>3, <2>4, <2>5, <2>6, <2>7 DEF Next, Producer, Consumer
  <1> HIDE DEF Account
  <1> QED BY <1>1, <1>2, <1>3, Invariance, PTL DEF Spec
-----------------------------------------------------------------------------
(* The queue implements EventQueue. *)

\* The slot d places after an index is d ahead of it, and the only one.
LEMMA PlaceValue ==
  ASSUME NEW r \in Positions, NEW d \in 0..SlotCount-1
  PROVE  /\ (r + d) % SlotCount \in Positions
         /\ Ahead((r + d) % SlotCount, r) = d
  <1> DEFINE x == (r + d) % SlotCount
  <1>1. d \in 0..SlotCount /\ SlotCount \in Nat /\ r \in 0..SlotCount-1
    BY SlotCountAssumption DEF Positions
  <1>2. x = IF r + d < SlotCount THEN r + d ELSE r + d - SlotCount
    BY <1>1, ForwardValue
  <1>3. x \in 0..SlotCount-1
    BY <1>1, <1>2
  <1>4. Ahead(x, r) = IF x >= r THEN x - r ELSE x - r + SlotCount
    BY <1>3, AheadValue DEF Positions
  <1>5. Ahead(x, r) = d
    <2> HIDE DEF x
    <2> QED BY <1>1, <1>2, <1>4
  <1> QED BY <1>3, <1>5 DEF Positions

\* The slot as far ahead of an index as another one is that other one.
LEMMA PlaceOfDistance ==
  ASSUME NEW r \in Positions, NEW w \in Positions
  PROVE  (r + Ahead(w, r)) % SlotCount = w
  <1> DEFINE x == (r + Ahead(w, r)) % SlotCount
  <1>1. Ahead(w, r) \in 0..SlotCount-1
    BY AheadValue
  <1>2. x \in Positions /\ Ahead(x, r) = Ahead(w, r)
    BY <1>1, PlaceValue
  <1> HIDE DEF x
  <1>3. x = w
    BY <1>2, EqualDistances
  <1> QED BY <1>3 DEF x

\* Counting places from the next index is counting one further.
LEMMA PlaceAfterNext ==
  ASSUME NEW r \in Positions, NEW d \in 0..SlotCount-1
  PROVE  (NextIndex(r) + d) % SlotCount = (r + (d + 1)) % SlotCount
  <1> DEFINE x == NextIndex(r)
             y == (x + d) % SlotCount
             z == (r + (d + 1)) % SlotCount
  <1>1. /\ d \in 0..SlotCount /\ d + 1 \in 0..SlotCount /\ SlotCount \in Nat
        /\ r \in 0..SlotCount-1
    BY SlotCountAssumption DEF Positions
  <1>2. x = (IF r + 1 < SlotCount THEN r + 1 ELSE 0) /\ x \in Positions
    BY NextIndexValue
  <1> HIDE DEF x
  <1>3. y = IF x + d < SlotCount THEN x + d ELSE x + d - SlotCount
    BY <1>1, <1>2, ForwardValue
  <1>4. z = IF r + (d + 1) < SlotCount THEN r + (d + 1) ELSE r + (d + 1) - SlotCount
    BY <1>1, ForwardValue
  <1> HIDE DEF y, z
  <1>5. y = z
    BY <1>1, <1>2, <1>3, <1>4
  <1> QED BY <1>5 DEF x, y, z

\* What the slots can be, and what they can hold.
Packets    == Events \cup {NoEvent}
SlotArrays == [Positions -> Packets]

\* What n slots s hold from index r on.
Contents(s, r, n) == [i \in 1..n |-> s[(r + i - 1) % SlotCount]]

\* The slots from an index on, as a sequence.
LEMMA ContentsSeq ==
  ASSUME NEW s \in SlotArrays, NEW r \in Positions, NEW n \in 0..SlotCount-1
  PROVE  /\ Contents(s, r, n) \in Seq(Packets) /\ Len(Contents(s, r, n)) = n
         /\ \A i \in 1..n :
              Contents(s, r, n)[i] = s[(r + (i - 1)) % SlotCount]
  <1> DEFINE q == Contents(s, r, n)
  <1>1. n \in Nat /\ SlotCount \in Nat /\ r \in Int
    BY SlotCountAssumption DEF Positions
  <1>2. ASSUME NEW i \in 1..n
        PROVE  /\ s[(r + (i - 1)) % SlotCount] \in Packets
               /\ r + i - 1 = r + (i - 1)
    <2>1. i - 1 \in 0..SlotCount-1 /\ r + i - 1 = r + (i - 1)
      BY <1>1
    <2> QED BY <2>1, PlaceValue DEF SlotArrays
  <1>3. q = [i \in 1..n |-> s[(r + (i - 1)) % SlotCount]]
    BY <1>2 DEF Contents
  <1> HIDE DEF q
  <1>4. q \in Seq(Packets) /\ Len(q) = n
    <2>1. q \in [1..n -> Packets]
      BY <1>2, <1>3
    <2> QED BY <1>1, <2>1
  <1> QED BY <1>3, <1>4 DEF q

\* What Queued is.
LEMMA QueuedValue ==
  ASSUME IInv
  PROVE  /\ Filled \in 0..SlotCount-1
         /\ Queued \in Seq(Packets) /\ Len(Queued) = Filled
         /\ \A i \in 1..Filled :
              Queued[i] = slots[(read_index + (i - 1)) % SlotCount]
  <1>1. /\ slots \in SlotArrays
        /\ read_index \in Positions /\ write_index \in Positions
    BY DEF IInv, TypeOK, SlotArrays, Packets
  <1>2. Filled \in 0..SlotCount-1
    BY <1>1, AheadValue DEF Filled
  <1>3. Queued = Contents(slots, read_index, Filled)
    BY DEF Queued, Contents
  <1> QED BY <1>1, <1>2, <1>3, ContentsSeq

\* Storing an event into the slot at the write index changes nothing that is
\* queued: the slot is not one of those between the indices.
LEMMA StoreQueuesNothing ==
  ASSUME IInv, StoreSlot
  PROVE  Queued' = Queued
  <1>1. /\ slots \in [Positions -> Events \cup {NoEvent}]
        /\ read_index \in Positions /\ write_index \in Positions
        /\ slots' = [slots EXCEPT ![write_index] = p_value]
        /\ read_index' = read_index /\ Filled' = Filled
        /\ SlotCount \in Nat
    BY SlotCountAssumption DEF IInv, TypeOK, StoreSlot, Filled
  <1>2. ASSUME NEW i \in 1..Filled
        PROVE  slots'[(read_index + i - 1) % SlotCount]
                 = slots[(read_index + i - 1) % SlotCount]
    <2> DEFINE x == (read_index + (i - 1)) % SlotCount
    <2>1. Filled \in 0..SlotCount-1
      BY QueuedValue
    <2>2. i - 1 \in 0..SlotCount-1 /\ i - 1 < Filled /\ i - 1 \in Int
          /\ read_index + i - 1 = read_index + (i - 1)
      BY <1>1, <2>1 DEF Positions
    <2>3. x \in Positions /\ Ahead(x, read_index) = i - 1
      BY <1>1, <2>2, PlaceValue
    <2> HIDE DEF x
    <2>4. x # write_index
      BY <2>1, <2>2, <2>3 DEF Filled
    <2>5. slots'[x] = slots[x]
      BY <1>1, <2>3, <2>4
    <2> QED BY <2>2, <2>5 DEF x
  <1> QED BY <1>1, <1>2 DEF Queued

\* Storing the write index is the push.
LEMMA PublishPushes ==
  ASSUME IInv, IInv', PublishIndex
  PROVE  Fifo!Push(p_value)
  <1> DEFINE n == Filled
             a == Append(Queued, p_value)
  <1>1. /\ slots \in SlotArrays /\ p_value \in Packets /\ p_value \in Events
        /\ read_index \in Positions /\ write_index \in Positions
        /\ slots' = slots /\ read_index' = read_index /\ SlotCount \in Nat
        /\ slots[write_index] = p_value /\ received' = received
    BY SlotCountAssumption
       DEF IInv, TypeOK, InHand, Storing, PublishIndex, consumerVars,
           SlotArrays, Packets
  <1>2. n \in 0..SlotCount-1 /\ Queued \in Seq(Packets) /\ Len(Queued) = n
        /\ \A i \in 1..n : Queued[i] = slots[(read_index + (i - 1)) % SlotCount]
    BY QueuedValue
  <1>3. n' = n + 1 /\ n' \in 0..SlotCount-1
    <2>1. write_index' \in Positions /\ read_index' \in Positions
      BY DEF IInv, TypeOK
    <2> QED BY <2>1, PublishFills, AheadValue DEF Filled
  <1>4. /\ Queued' \in Seq(Packets) /\ Len(Queued') = n + 1
        /\ \A i \in 1..n + 1 : Queued'[i] = slots[(read_index + (i - 1)) % SlotCount]
    <2>1. n + 1 \in 0..SlotCount-1
      BY <1>3
    <2>2. Queued' = Contents(slots, read_index, n + 1)
      BY <1>1, <1>3 DEF Queued, Contents
    <2> HIDE DEF n
    <2> QED BY <1>1, <2>1, <2>2, ContentsSeq
  <1>5. slots[(read_index + n) % SlotCount] = p_value
    BY <1>1, PlaceOfDistance DEF Filled
  <1>6. /\ a \in Seq(Packets) /\ Len(a) = n + 1
        /\ \A i \in 1..n : a[i] = Queued[i]
        /\ a[n + 1] = p_value
    BY <1>1, <1>2, AppendProperties
  <1> HIDE DEF a, n
  <1>7. ASSUME NEW i \in 1..n + 1
        PROVE  Queued'[i] = a[i]
    <2>1. CASE i \in 1..n
      BY <1>2, <1>4, <1>6, <2>1
    <2>2. CASE i = n + 1
      <3>1. i - 1 = n
        BY <1>2, <2>2
      <3> QED BY <1>4, <1>5, <1>6, <2>2, <3>1
    <2> QED BY <1>2, <2>1, <2>2
  <1>8. Queued' = a
    BY <1>4, <1>6, <1>7, SeqEqual
  <1>9. Len(Queued) < SlotCount - 1
    BY <1>1, <1>2, <1>3
  <1> QED BY <1>1, <1>8, <1>9 DEF Fifo!Push, a

\* Storing the read index is the pop, and what is returned is the oldest event.
LEMMA ReleasePops ==
  ASSUME IInv, IInv', ReleaseSlot
  PROVE  Fifo!Pop
  <1> DEFINE n == Filled
             r == read_index
             q == Queued
             a == Tail(q)
  <1>1. /\ slots \in SlotArrays /\ r \in Positions /\ r \in Int
        /\ slots' = slots /\ read_index' = NextIndex(r)
        /\ read_index' \in Positions /\ SlotCount \in Nat
        /\ received' = slots[r]
    BY SlotCountAssumption
       DEF IInv, TypeOK, InHand, ReleaseSlot, producerVars, Positions,
           SlotArrays, Packets
  <1>2. n \in 0..SlotCount-1 /\ q \in Seq(Packets) /\ Len(q) = n
        /\ \A i \in 1..n : q[i] = slots[(r + (i - 1)) % SlotCount]
    BY QueuedValue
  <1>3. n >= 1 /\ n' = n - 1
    BY ReleaseEmpties
  <1>4. /\ q' \in Seq(Packets) /\ Len(q') = n - 1
        /\ \A i \in 1..n - 1 : q'[i] = slots[(NextIndex(r) + (i - 1)) % SlotCount]
    <2>1. n - 1 \in 0..SlotCount-1
      BY <1>1, <1>2, <1>3
    <2>2. q' = Contents(slots, NextIndex(r), n - 1)
      BY <1>1, <1>3 DEF Queued, Contents
    <2>3. NextIndex(r) \in Positions
      BY <1>1
    <2> HIDE DEF n, r
    <2> QED BY <1>1, <2>1, <2>2, <2>3, ContentsSeq
  <1>5. q # <<>>
    BY <1>2, <1>3
  <1>6. Head(q) = slots[r]
    <2>1. r % SlotCount = r
      <3>1. r \in 0..SlotCount-1 /\ SlotCount \in Nat \ {0}
        BY <1>1, SlotCountAssumption DEF Positions
      <3> HIDE DEF r
      <3> QED BY <3>1
    <2>2. q[1] = slots[r]
      <3>1. 1 \in 1..n /\ r + (1 - 1) = r
        BY <1>1, <1>2, <1>3
      <3>2. q[1] = slots[(r + (1 - 1)) % SlotCount]
        BY <1>2, <3>1
      <3> QED BY <2>1, <3>1, <3>2
    <2> HIDE DEF q
    <2> QED BY <1>2, <1>5, <2>2
  <1>7. /\ a \in Seq(Packets) /\ Len(a) = n - 1
        /\ \A i \in 1..n - 1 : a[i] = q[i + 1]
    BY <1>2, <1>5, HeadTailProperties
  <1> HIDE DEF a, n, r, q
  <1>8. ASSUME NEW i \in 1..n - 1
        PROVE  q'[i] = a[i]
    <2>1. i - 1 \in 0..SlotCount-1 /\ i + 1 \in 1..n /\ (i - 1) + 1 = (i + 1) - 1
      BY <1>1, <1>2
    <2>2. (NextIndex(r) + (i - 1)) % SlotCount = (r + ((i - 1) + 1)) % SlotCount
      BY <1>1, <2>1, PlaceAfterNext
    <2>3. a[i] = slots[(r + ((i + 1) - 1)) % SlotCount]
      BY <1>2, <1>7, <2>1
    <2> QED BY <1>4, <2>1, <2>2, <2>3
  <1>9. q' = a
    BY <1>4, <1>7, <1>8, SeqEqual
  <1> QED BY <1>1, <1>5, <1>6, <1>9 DEF Fifo!Pop, a, q, r

\* Every step of the two threads is a push, a pop or no step of the queue.
LEMMA StepRefines ==
  ASSUME IInv, IInv', [Next]_vars
  PROVE  [Fifo!Next]_<<Queued, received>>
  <1> USE DEF producerVars, consumerVars
  <1>1. ASSUME NEW e \in Events, TryPublish(e)
        PROVE  UNCHANGED <<Queued, received>>
    BY <1>1 DEF TryPublish, Queued, Filled
  <1>2. CASE StoreSlot
    BY <1>2, StoreQueuesNothing DEF StoreSlot
  <1>3. CASE PublishIndex
    <2>1. p_value \in Events
      BY <1>3 DEF IInv, InHand, Storing, PublishIndex
    <2> QED BY <1>3, <2>1, PublishPushes DEF Fifo!Next
  <1>4. CASE ReleaseSlot
    BY <1>4, ReleasePops DEF Fifo!Next
  <1>5. CASE CountPublished \/ TryPop \/ LoadSlot \/ CountConsumed \/ UNCHANGED vars
    BY <1>5 DEF CountPublished, TryPop, LoadSlot, CountConsumed, vars, Queued, Filled
  <1> QED BY <1>1, <1>2, <1>3, <1>4, <1>5 DEF Next, Producer, Consumer

\* The lock-free queue is a bounded FIFO of SlotCount - 1 events: none is
\* duplicated, reordered or overwritten, whatever the interleaving of the two
\* threads and however stale the indices they load.
THEOREM Refines == Spec => ImplementsQueue
  <1>1. Init => Fifo!Init
    <2> SUFFICES ASSUME Init
                 PROVE  Queued = <<>> /\ received = NoEvent
      BY DEF Fifo!Init, Fifo!NoEvent, NoEvent
    <2>1. Len(Queued) = 0 /\ Queued \in Seq(Packets)
      <3>1. Filled = 0
        <4>1. 0 \in Positions
          BY SlotCountAssumption DEF Positions
        <4> QED BY <4>1, AheadValue DEF Init, Filled
      <3> QED BY <3>1, InitEstablishes, QueuedValue
    <2> QED BY <2>1 DEF Init
  <1>2. IInv /\ IInv' /\ [Next]_vars => [Fifo!Next]_<<Queued, received>>
    BY StepRefines
  <1> QED BY <1>1, <1>2, Invariance, PTL DEF Spec, ImplementsQueue, Fifo!Spec
=============================================================================
