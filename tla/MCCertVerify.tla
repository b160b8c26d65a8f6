---------------------------- MODULE MCCertVerify ----------------------------
(***************************************************************************)
(* A net and a door endpoint, two employees, two CAs.  A payload is sealed *)
(* for the door, or a CA's certificate.  A certificate's user id is an     *)
(* employee's, one with more characters behind it, or a missing one.       *)
(***************************************************************************)
EXTENDS CertVerify, TLC

CONSTANTS net, door, alice, bob, id1, id2, id1more, ca1, ca2

MCEndPoint == {net, door}
MCDoor == {door}
MCendpoint_id == [ep \in MCEndPoint |-> ep]
MCvalidity_length == [ep \in MCEndPoint |-> 1]
MCfirst64 ==
    [u \in UserId |-> IF u = id1more THEN id1 ELSE IF u \in EmployeeId THEN u ELSE NoUid]
MCTicketData ==
    {[sealed |-> door, ca |-> Undecodable],
     [sealed |-> Unsealed, ca |-> ca1], [sealed |-> Unsealed, ca |-> ca2]}
MCSymmetry == Permutations(CA)
MCStaff == <<<<id1, alice>>, <<id2, bob>>>>
=============================================================================
