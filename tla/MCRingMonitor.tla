---------------------------- MODULE MCRingMonitor ----------------------------
(***************************************************************************)
(* A small ring and its monitor, with the constants of MCRingSnapshots.    *)
(***************************************************************************)
EXTENDS RingMonitor

MCCapacities == {1, 2, 3}
MCFrameCounts == {0, 1, 2, 3}
==============================================================================
