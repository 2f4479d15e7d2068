------------------------- MODULE MCTerminalLogging -------------------------
(***************************************************************************)
(* TerminalLogging with two users and a worker.                            *)
(***************************************************************************)
EXTENDS TerminalLogging, TLC

CONSTANTS ingress, IngressName

MCNameOf == ingress :> IngressName
=============================================================================
