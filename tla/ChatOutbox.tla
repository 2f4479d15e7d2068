----------------------------- MODULE ChatOutbox -----------------------------
(***************************************************************************)
(* What ChatSession promises to its callers                                *)
(* (src/networking/src/chat/chat_session.hpp): a transcript that only      *)
(* grows, and the user's messages handed over once, in transcript order.   *)
(* A queued message for which there was no memory is shown but never sent. *)
(***************************************************************************)
EXTENDS Sequences

CONSTANT Messages

VARIABLES transcript, unsent, taken
outbox == <<transcript, unsent, taken>>

Init == transcript = << >> /\ unsent = << >> /\ taken = << >>

Show(m) ==
    /\ transcript' = Append(transcript, m)
    /\ UNCHANGED <<unsent, taken>>

Queue(m) ==
    /\ transcript' = Append(transcript, m)
    /\ unsent' = Append(unsent, m)
    /\ UNCHANGED taken

Take ==
    /\ taken' = taken \o unsent
    /\ unsent' = << >>
    /\ UNCHANGED transcript

Next == Take \/ \E m \in Messages : Show(m) \/ Queue(m)

Spec == Init /\ [][Next]_outbox
=============================================================================
