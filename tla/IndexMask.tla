----------------------------- MODULE IndexMask -----------------------------
(***************************************************************************)
(* The index arithmetic of SPSC_NonBlocking (src/src/lib/spsc_queue.hpp):  *)
(* is_power_of_2, which the requires clause applies to BufferSize, and the *)
(* masking that turns a wrapping counter into a slot.  RingIndex uses the  *)
(* remainder instead; this module is where the two are compared.  The      *)
(* state is one counter that runs through all its values.                  *)
(***************************************************************************)
EXTENDS Integers, FiniteSets

CONSTANTS Modulus,   \* 2^64, where a counter wraps
          MaxRing    \* bound: the largest BufferSize looked at

Words == 0 .. Modulus

\* The bitwise and, from the last digit on.
And[x \in Words] == [y \in Words |->
    IF x = 0 THEN 0 ELSE 2 * And[x \div 2][y \div 2] + (x % 2) * (y % 2)]

\* Mutant: every even number is let through.
IsEven(x)     == x > 0 /\ x % 2 = 0
IsPowerOf2(x) == x > 0 /\ And[x][x - 1] = 0

\* Mutant: the mask is BufferSize.
SlotUnmasked(k, ring) == And[k][ring]
MaskedSlot(k, ring)   == And[k][ring - 1]

MaskAssumption == Modulus \in Nat /\ IsPowerOf2(Modulus) /\ MaxRing \in Words

VARIABLE counter

Advance(k, d) == (k + d) % Modulus

MaskInit == counter = 0

MaskNext == counter' = Advance(counter, 1)

MaskSpec == MaskInit /\ [][MaskNext]_counter
-----------------------------------------------------------------------------
(***************************************************************************)
(* For every size the requires clause lets through, masking a counter is   *)
(* taking its remainder.                                                   *)
(***************************************************************************)
MaskIsRemainder ==
    \A ring \in 1 .. MaxRing : IsPowerOf2(ring) => MaskedSlot(counter, ring) = counter % ring

(***************************************************************************)
(* The requires clause is exactly what the ring needs: the messages that   *)
(* can be queued at once, as many as the ring has slots, have different    *)
(* slots, wherever the counters stand and also while they wrap, for the    *)
(* powers of two and for no other size.                                    *)
(***************************************************************************)
Window(ring) == {MaskedSlot(Advance(counter, d), ring) : d \in 0 .. (ring - 1)}

PowersNeeded ==
    \A ring \in 1 .. MaxRing : IsPowerOf2(ring) <=> Cardinality(Window(ring)) = ring
=============================================================================
