------------------------ MODULE MCRealtimeEventQueue ------------------------
(***************************************************************************)
(* Four slots (the size of DspCore's control queue), three of them usable, *)
(* and two events, enough to see an event overwritten or out of order.     *)
(* The metrics are 2 bits wide and wrap.                                   *)
(***************************************************************************)
EXTENDS RealtimeEventQueue

CONSTANTS underrun, overrun
MCEvents == {underrun, overrun}
==============================================================================
