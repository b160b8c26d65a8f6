---------------------------- MODULE MCTicketStore ----------------------------
(***************************************************************************)
(* Three net endpoints, one with validity 0 and one with a validity beyond *)
(* the range of EX, and one door endpoint; one employee.  Payloads: a text *)
(* sealed for the door and one that nobody can open (a certificate, for a  *)
(* net endpoint, may be either).                                           *)
(***************************************************************************)
EXTENDS TicketStore

CONSTANTS net, lapsed, endless, door, alice, id1

MCEndPoint == {net, lapsed, endless, door}
MCLasting == {net, door}
MCDoor == {door}
MCendpoint_id == [ep \in EndPoint |-> ep]
MCvalidity_length ==
    [ep \in EndPoint |-> CASE ep = net     -> 2
                            [] ep = door    -> 1
                            [] ep = lapsed  -> 0
                            [] ep = endless -> 4]
MCTicketData == [sealed : {door, Unsealed}]
MCOneEmployee == <<<<id1, alice>>>>
=============================================================================
