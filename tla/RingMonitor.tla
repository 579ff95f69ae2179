----------------------------- MODULE RingMonitor -----------------------------
(***************************************************************************)
(* A monitoring thread that calls FilledFramesSnapshot while both workers  *)
(* run.  Its two loads are relaxed: each may give an old value of its      *)
(* index, independently of the other, but none older than the monitor has  *)
(* seen (coherence).  So they make one step: whatever the workers do       *)
(* between the loads, what is loaded is in Visible when the call returns.  *)
(* (A monitor further behind than the indices are wide may see yet more.)  *)
(***************************************************************************)
EXTENDS DynamicSpscRingBuffer

VARIABLES
  m_write, m_read,  \* the values of the indices it loaded last
  m_value           \* the value returned last

monitorVars == <<m_write, m_read, m_value>>

InitMonitor == Init /\ m_write = 0 /\ m_read = 0 /\ m_value = 0

Snapshot ==
  /\ m_write' \in Visible(m_write, write_index)
  /\ m_read' \in Visible(m_read, read_index)
  /\ m_value' = FilledFramesSnapshot(m_write', m_read')
  /\ UNCHANGED vars

\* Initialize and Reset: the monitor starts again with the empty ring.
Emptied == Orchestration /\ m_write' = 0 /\ m_read' = 0 /\ m_value' = 0

NextMonitor ==
  Snapshot \/ ((Producer \/ Consumer) /\ UNCHANGED monitorVars) \/ Emptied

SpecMonitor == InitMonitor /\ [][NextMonitor]_<<vars, monitorVars>>

-----------------------------------------------------------------------------
\* "Returns the number of frames currently filled (snapshot; may be stale)":
\* a number of frames that were in the ring at some time, however long ago,
\* is never more than fit into it.
SnapshotWithinCapacity == m_value <= capacity_frames
==============================================================================
