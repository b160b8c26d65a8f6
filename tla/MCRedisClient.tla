--------------------------- MODULE MCRedisClient ---------------------------
(***************************************************************************)
(* Values of two lengths, of bytes that mean something outside a body (a   *)
(* type, a digit, CR and LF) or to a C string.  The other replies are the  *)
(* null and an error.                                                      *)
(***************************************************************************)
EXTENDS RedisClient

PlainValue == {<<"$", "1">>, <<"c", CR, LF>>}
MCValue == PlainValue \cup {<<"c", NUL, "1">>}
MCError == {<<"E", "R", "R", "1">>}
=============================================================================
