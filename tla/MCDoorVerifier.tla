--------------------------- MODULE MCDoorVerifier ---------------------------
(* Two employees, a secret of one of them and a secret both have chosen. *)
EXTENDS DoorVerifier

CONSTANTS id1, id2, s1, s2

MCHolders == [s \in Secret |-> IF s = s1 THEN {id1} ELSE EmployeeId]
=============================================================================
