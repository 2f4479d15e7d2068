------------------------- MODULE MCGatewayLifetime -------------------------
(***************************************************************************)
(* GatewayLifetime with two users of one symbol.                           *)
(***************************************************************************)
EXTENDS GatewayLifetime

CONSTANTS u0, u1, aapl

OneSymbol   == [u \in Users |-> aapl]
MCStartOrder == <<u0, u1, Ingress, aapl, Responder>>
=============================================================================
