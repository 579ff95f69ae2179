----------------------------- MODULE RingSnapshots -----------------------------
(***************************************************************************)
(* The two workers call FilledFramesSnapshot between their own calls, as   *)
(* a public const method invites them to: "may I write n frames?", "are n  *)
(* frames there?".  Both loads are relaxed.  A worker always sees its own  *)
(* index; of the other side's it may be given an old value, but none older *)
(* than one it has seen before (coherence).  The two loads make one step:  *)
(* no step of the other side in between can show a worker anything that is *)
(* not in Visible when the call ends.                                      *)
(***************************************************************************)
EXTENDS DynamicSpscRingBuffer

VARIABLES
  p_free,  \* history: the frames the producer was last told to be free,
           \* 0 once it has begun to write or was told nothing
  c_seen   \* history: the frames the consumer was last told to be there,
           \* 0 once it has begun to read or was told nothing

snapshotVars == <<p_free, c_seen>>

InitSnapshots == Init /\ p_free = 0 /\ c_seen = 0

ProducerSnapshot ==
  /\ p_pc = "idle"
  /\ \E read \in Visible(p_read, read_index) :
       /\ p_read' = read
       /\ p_free' = SubIndex(capacity_frames, FilledFramesSnapshot(write_index, read))
  /\ UNCHANGED <<capacity_frames, storage, write_index, read_index, p_pc,
                 p_src, consumerVars, captured, metrics, discarded, c_seen>>

ConsumerSnapshot ==
  /\ c_pc = "idle"
  /\ \E write \in Visible(c_write, write_index) :
       /\ c_write' = write
       /\ c_seen' = FilledFramesSnapshot(write, read_index)
  /\ UNCHANGED <<capacity_frames, storage, write_index, read_index,
                 producerVars, c_pc, c_count, c_dst, out, captured, metrics,
                 discarded, p_free>>

\* What a worker was told lasts until it writes or reads itself; a refused
\* call leaves it as it was.
ProducerStep ==
  Producer /\ p_free' = (IF p_pc' = "idle" THEN p_free ELSE 0) /\ c_seen' = c_seen
ConsumerStep ==
  Consumer /\ c_seen' = (IF c_pc' = "idle" THEN c_seen ELSE 0) /\ p_free' = p_free
OrchestrationStep == Orchestration /\ p_free' = 0 /\ c_seen' = 0

NextSnapshots ==
  \/ ProducerSnapshot \/ ConsumerSnapshot
  \/ ProducerStep \/ ConsumerStep \/ OrchestrationStep

SpecSnapshots == InitSnapshots /\ [][NextSnapshots]_<<vars, snapshotVars>>

-----------------------------------------------------------------------------
\* Stale as it may be, a worker's snapshot errs on its safe side, and keeps
\* doing so while the other side goes on: the consumer is never told of more
\* frames than are in the ring, the producer never of more space than is
\* free, and no stale index makes a difference wrap below zero.
SnapshotsAreSafe ==
  /\ c_seen <= Filled
  /\ p_free + Filled <= capacity_frames

\* So a worker can act on it, however long it waits and whatever stale index
\* the call itself loads: a read of no more frames than the consumer was
\* told of is served, a write into no more space than the producer was told
\* of is not an overflow.
WorkersCanRely ==
  [][\A n \in FrameCounts :
       /\ TryReadFrames(n) /\ n <= c_seen => c_pc' = "copy"
       /\ \A silent \in BOOLEAN :
            TryWriteFrames(n, silent) /\ n <= p_free => p_pc' = "copy"
    ]_<<vars, snapshotVars>>
==============================================================================
