------------------------ MODULE MCEndpointEnumerator ------------------------
(***************************************************************************)
(* Up to three devices in any order; one has an extensible format, so that *)
(* it may come before, between or after devices without a channel mask.    *)
(***************************************************************************)
EXTENDS EndpointEnumerator

CONSTANTS d1, d2, d3  \* model values
MCDevices == {d1, d2, d3}
MCExtensible == {d1}
=============================================================================
