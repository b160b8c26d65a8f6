---------------------------- MODULE MCEmulateTag ----------------------------
(***************************************************************************)
(* Two holders (bytes 10 and 11).  Messages with the two fields in either  *)
(* order, with a field whose word is in the id, with another record before *)
(* them, with five records, with one field twice, and one that the file    *)
(* cannot hold.                                                            *)
(***************************************************************************)
EXTENDS EmulateTag

\* The fields are in the order in which TLC keeps them.  Its workers share these
\* constants and sort a record in place where its fields are in another order.
Rec(type, id, payload) == [type |-> type, id |-> id, payload |-> payload, tnf |-> 2]
Uid(p) == Rec(<<KEY, SLASH, UID>>, <<>>, <<p, p>>)
UidInId(p) == Rec(<<KEY>>, <<UID, SLASH>>, <<p, p>>)
Code(p) == Rec(<<KEY, SLASH, OTP>>, <<>>, <<p>>)
Text == Rec(<<9>>, <<>>, <<>>)

MCMessage ==
    {<<Uid(10), Code(10)>>, <<Uid(11), Code(11)>>, <<Code(11), Uid(11)>>,
     <<UidInId(10), Code(10)>>, <<Text, Uid(11), Code(11)>>,
     <<Text, Text, Text, Uid(10), Code(10)>>, <<Uid(10), Uid(11)>>,
     <<Text, Text, Text, Text, Uid(10), Code(10)>>}
=============================================================================
