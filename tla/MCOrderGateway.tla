--------------------------- MODULE MCOrderGateway ---------------------------
(***************************************************************************)
(* OrderGateway on small instances.                                        *)
(***************************************************************************)
EXTENDS OrderGateway

CONSTANTS u0, u1, aapl, msft

OneSymbol  == [u \in Users |-> aapl]
TwoSymbols == [u \in Users |-> IF u = u0 THEN aapl ELSE msft]
=============================================================================
