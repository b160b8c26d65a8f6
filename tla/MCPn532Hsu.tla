----------------------------- MODULE MCPn532Hsu -----------------------------
(***************************************************************************)
(* TgInitAsTarget (140), awaited without a limit, and TgGetData (134);     *)
(* responses without a payload, with one that reads like the code of a     *)
(* response to TgGetData (213, 135), with one whose length receive cannot  *)
(* return and which reads like the start of a frame, and with one that     *)
(* does not fit the buffer.                                                *)
(***************************************************************************)
EXTENDS Pn532Hsu

MCPayload == {<<>>, <<213, 135>>, <<0, 0, 255>>, <<0, 1, 2, 3>>}
=============================================================================
