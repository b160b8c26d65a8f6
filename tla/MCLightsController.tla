------------------------- MODULE MCLightsController -------------------------
(***************************************************************************)
(* Every list of up to three of two lights, so that lists are empty, hold  *)
(* one light or hold one twice; two owners; as many iterations as it takes *)
(* to see the longest pattern twice.                                       *)
(***************************************************************************)
EXTENDS LightsController

CONSTANTS l1, l2

MCLight == {l1, l2}
MCLightList == UNION {[1..k -> MCLight] : k \in 0..3}
=============================================================================
