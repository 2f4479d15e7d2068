---------------------------- MODULE MCChatWindow ----------------------------
(***************************************************************************)
(* ChatWindow with a few texts and a few messages of peers.                *)
(***************************************************************************)
EXTENDS ChatWindow

MCMessages == ({"user"} \X (1 .. MaxTyped)) \cup ({"peer"} \X (1 .. MaxPosts))

ASSUME InputsDiffer == WindowAssumption
=============================================================================
