----------------------------- MODULE RingIndex -----------------------------
(***************************************************************************)
(* The index arithmetic of a ring buffer (src/src/lib/spsc_queue.hpp): two *)
(* u64 counters that only grow, and wrap, count the pushes and the pops.   *)
(* IndexMask shows that the slot below is what the mask of the code        *)
(* computes.                                                               *)
(***************************************************************************)
EXTENDS Integers

CONSTANTS BufferSize,   \* number of slots
          Modulus       \* 2^64, where the counters wrap

\* BufferSize is a power of 2 (requires clause), so it divides 2^64.
ASSUME SizeAssumption ==
    /\ BufferSize \in Nat \ {0}
    /\ Modulus \in Nat
    /\ BufferSize < Modulus
    /\ Modulus % BufferSize = 0

Index == 0 .. (Modulus - 1)
Slots == 0 .. (BufferSize - 1)

\* h + 1 and h - t in u64 arithmetic, and the slot of a counter value.
Inc(i)     == (i + 1) % Modulus
Dist(h, t) == (h - t) % Modulus
Slot(i)    == i % BufferSize
=============================================================================
