------------------------------ MODULE DoorCycle ------------------------------
(***************************************************************************)
(* What the door promises to the loop of the door controller: a call of    *)
(* Door::open lasts for one full cycle of the lock.  README.md puts it     *)
(* this way: when a command is received, the controller opens the door and *)
(* returns a response when the door is closed.  A restart of a board ends  *)
(* the promise.                                                            *)
(***************************************************************************)

VARIABLE phase

\* Nothing asked for, the door is locked.
CycleInit == phase = "idle"

Request == phase = "idle" /\ phase' = "requested"
Unlock == phase = "requested" /\ phase' = "unlocked"
Relock == phase = "unlocked" /\ phase' = "relocked"
Report == phase = "relocked" /\ phase' = "idle"

Restart == phase # "restarted" /\ phase' = "restarted"

CycleNext == Request \/ Unlock \/ Relock \/ Report \/ Restart

CycleSafety == CycleInit /\ [][CycleNext]_phase

\* A cycle that has begun is completed, unless a board restarts.
CycleSpec == CycleSafety /\ WF_phase(Unlock \/ Relock \/ Report)

=============================================================================
