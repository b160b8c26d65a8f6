--------------------------- MODULE MCTicketGranter ---------------------------
(***************************************************************************)
(* A net and a door endpoint, two accounts besides the manager's that may  *)
(* become employees, tickets issued while the registry still grows.        *)
(***************************************************************************)
EXTENDS TicketGranter

CONSTANTS net, door

MCEndPoint == {net, door}
MCendpoint_id == [ep \in MCEndPoint |-> ep]
MCvalidity_length == [ep \in MCEndPoint |-> 1]
=============================================================================
