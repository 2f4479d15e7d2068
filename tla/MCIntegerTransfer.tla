------------------------- MODULE MCIntegerTransfer -------------------------
(***************************************************************************)
(* IntegerTransfer with two clients of different byte orders, one of them  *)
(* with the order of the server, and bytes of one bit: i32 is -8 .. 7.     *)
(***************************************************************************)
EXTENDS IntegerTransfer, TLC

CONSTANTS c1, c2

MCValue  == c1 :> -3 @@ c2 :> 5
MCEndian == c1 :> "little" @@ c2 :> "big"
=============================================================================
