---------------------------- MODULE BoundedFifo ----------------------------
(***************************************************************************)
(* What SPSC_NonBlocking promises to the one thread that pushes and the    *)
(* one thread that pops: a FIFO of at most Capacity messages that never    *)
(* blocks.  Neither side sees the other's progress at once:                *)
(*   - seen is how many of the queued messages the consumer knows of;      *)
(*   - lag is how many pops the producer has not noticed yet.              *)
(* push answers "full" only when every slot is held by a queued message or *)
(* by a pop the producer has not noticed, and pop answers "empty" only     *)
(* when the consumer has taken every message it knows of.                  *)
(***************************************************************************)
EXTENDS Naturals, Sequences

CONSTANTS Msg,        \* the messages a caller may push
          Capacity    \* the number of slots

VARIABLES q,          \* the queued messages, oldest first
          seen,       \* how many of them the consumer knows of
          lag,        \* pops the producer has not noticed
          pushed,     \* what the last push returned
          popped      \* << m >> after a pop that delivered m, << >> otherwise

vars == <<q, seen, lag, pushed, popped>>

Init == /\ q = << >>
        /\ seen = 0
        /\ lag = 0
        /\ pushed = FALSE
        /\ popped = << >>

Push(m) == /\ Len(q) + lag < Capacity
           /\ q' = Append(q, m)
           /\ pushed' = TRUE
           /\ UNCHANGED <<seen, lag, popped>>

PushFull == /\ Len(q) + lag = Capacity
            /\ pushed' = FALSE
            /\ UNCHANGED <<q, seen, lag, popped>>

NoticePops == /\ lag' \in 0 .. lag
              /\ UNCHANGED <<q, seen, pushed, popped>>

Pop == /\ seen > 0
       /\ popped' = <<Head(q)>>
       /\ q' = Tail(q)
       /\ seen' = seen - 1
       /\ lag' = lag + 1
       /\ UNCHANGED pushed

PopEmpty == /\ seen = 0
            /\ popped' = << >>
            /\ UNCHANGED <<q, seen, lag, pushed>>

NoticePushes == /\ seen' \in seen .. Len(q)
                /\ UNCHANGED <<q, lag, pushed, popped>>

Next == \/ \E m \in Msg : Push(m)
        \/ PushFull
        \/ NoticePops
        \/ Pop
        \/ PopEmpty
        \/ NoticePushes

Spec == Init /\ [][Next]_vars
=============================================================================
