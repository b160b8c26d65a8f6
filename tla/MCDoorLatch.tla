----------------------------- MODULE MCDoorLatch -----------------------------
(* The two boards and the serial line, with restarts of either. *)
EXTENDS DoorLatch
=============================================================================
