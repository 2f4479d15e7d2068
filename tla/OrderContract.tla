--------------------------- MODULE OrderContract ---------------------------
(***************************************************************************)
(* What the order gateway (src/src/lib/order_gateway.hpp) promises of the  *)
(* orders it acknowledges, whatever its threads and queues do: they leave  *)
(* the pending ones first in, first out, each into one lane, that of its   *)
(* symbol or, under load only, that of the rejects; lanes are settled in   *)
(* order; and nothing is dropped but by std::terminate, under overload     *)
(* only.  The promise is void once the pushes of two users overlap.        *)
(***************************************************************************)
EXTENDS Integers, Sequences, SequencesExt

CONSTANTS Order,        \* records with a user, from, and an id
          Symbols,
          SymbolOf,     \* the symbol of each user's orders
          Responder,    \* names the lane of the rejects
          SymbolSize,   \* orders of one symbol that can wait
          ResponseSize  \* rejects that can wait

VARIABLES pending,  \* acknowledged orders on their way to a lane
          lane,     \* accepted orders of each symbol, and rejected ones
          settled,  \* how many of a lane were processed, or delivered
          dead,     \* std::terminate was called
          void      \* two pushes of different users have overlapped

contractVars == <<pending, lane, settled, dead, void>>

Lanes   == Symbols \cup {Responder}
Size(l) == IF l = Responder THEN ResponseSize ELSE SymbolSize
Known   == ToSet(pending) \cup UNION {ToSet(lane[l]) : l \in Lanes}
Target  == SymbolOf[Head(pending).from]

Init == /\ pending = << >>
        /\ lane = [l \in Lanes |-> << >>]
        /\ settled = [l \in Lanes |-> 0]
        /\ dead = FALSE /\ void = FALSE

\* A user has one order acknowledged after the other.
Acknowledge(o) ==
    /\ \A known \in Known : known.from = o.from => known.id < o.id
    /\ pending' = Append(pending, o)
    /\ UNCHANGED <<lane, settled, dead>>

MoveTo(l) ==
    /\ Len(lane[l]) - settled[l] < Size(l)
    /\ pending' = Tail(pending)
    /\ lane' = [lane EXCEPT ![l] = Append(@, Head(pending))]
    /\ UNCHANGED <<settled, dead>>

\* As many orders as can wait have entered the lane before.
Loaded(l) == Len(lane[l]) >= Size(l)

Accept == pending # << >> /\ MoveTo(Target)
Reject == pending # << >> /\ Loaded(Target) /\ MoveTo(Responder)

Settle(l) ==
    /\ settled[l] < Len(lane[l])
    /\ settled' = [settled EXCEPT ![l] = @ + 1]
    /\ UNCHANGED <<pending, lane, dead>>

Die ==
    /\ pending # << >>
    /\ Loaded(Target) /\ Loaded(Responder)
    /\ pending' = Tail(pending)
    /\ dead' = TRUE
    /\ UNCHANGED <<lane, settled>>

Promised == /\ ~dead /\ UNCHANGED void
            /\ \/ \E o \in Order : Acknowledge(o)
               \/ Accept
               \/ Reject
               \/ \E l \in Lanes : Settle(l)
               \/ Die

Next == void' \/ Promised

Spec == Init /\ [][Next]_contractVars
=============================================================================
