--------------------------- MODULE MCChatSession ---------------------------
(***************************************************************************)
(* ChatSession with the window, which queues and reads, a thread that      *)
(* submits what peers say and reads, and one that consumes.                *)
(***************************************************************************)
EXTENDS ChatSession, TLC

CONSTANTS window, peer, network

MCCalls == window :> {"queue", "snapshot"} @@ peer :> {"submit", "queue"} @@ network :> {"consume"}
=============================================================================
