--------------------------- MODULE MCRingSnapshots ---------------------------
(***************************************************************************)
(* A small ring and its two workers.  Every capacity and every length: 1   *)
(* and 3 are refused capacities, 2-bit indices wrap every 4 frames, and a  *)
(* packet of 3 frames is larger than the ring.                             *)
(***************************************************************************)
EXTENDS RingSnapshots

MCCapacities == {1, 2, 3}
MCFrameCounts == {0, 1, 2, 3}
==============================================================================
