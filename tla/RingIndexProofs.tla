-------------------------- MODULE RingIndexProofs --------------------------
(***************************************************************************)
(* The arithmetic of wrapping counters, for every BufferSize and Modulus.  *)
(***************************************************************************)
EXTENDS RingIndex, TLAPS

(***************************************************************************)
(* Euclidean division, stated so that a proof can name the quotient.       *)
(***************************************************************************)
LEMMA Division ==
    ASSUME NEW x \in Int, NEW n \in Nat \ {0}
    PROVE  \E k \in Int : x = n * k + (x % n) /\ x % n \in 0 .. (n - 1)
<1>1. x \div n \in Int /\ x = n * (x \div n) + (x % n) /\ x % n \in 0 .. (n - 1)
  OBVIOUS
<1> QED
  BY <1>1

(***************************************************************************)
(* The remainder is the only one in range.                                 *)
(***************************************************************************)
LEMMA RemainderUnique ==
    ASSUME NEW x \in Int, NEW n \in Nat \ {0}, NEW k \in Int,
           NEW r \in 0 .. (n - 1), x = n * k + r
    PROVE  x % n = r
  OBVIOUS

(***************************************************************************)
(* The part of SizeAssumption that linear arithmetic needs.                *)
(***************************************************************************)
LEMMA Sizes ==
    /\ BufferSize \in Nat \ {0}
    /\ Modulus \in Nat \ {0}
    /\ BufferSize < Modulus
  BY SizeAssumption
-----------------------------------------------------------------------------
(***************************************************************************)
(* The u64 subtraction h - t of two counters, written out.                 *)
(***************************************************************************)
LEMMA DistValue ==
    ASSUME NEW h \in Index, NEW t \in Index
    PROVE  /\ Dist(h, t) \in Index
           /\ Dist(h, t) = IF h >= t THEN h - t ELSE h - t + Modulus
<1>1. CASE h >= t
  <2>1. h - t \in 0 .. (Modulus - 1) /\ h - t = Modulus * 0 + (h - t)
    BY <1>1, SizeAssumption DEF Index
  <2> QED
    BY <1>1, <2>1, RemainderUnique, SizeAssumption DEF Dist, Index
<1>2. CASE ~(h >= t)
  <2>1. h - t + Modulus \in 0 .. (Modulus - 1)
    BY <1>2, SizeAssumption DEF Index
  <2>2. h - t = Modulus * (-1) + (h - t + Modulus)
    BY SizeAssumption DEF Index
  <2> QED
    BY <1>2, <2>1, <2>2, RemainderUnique, SizeAssumption DEF Dist, Index
<1> QED
  BY <1>1, <1>2

(***************************************************************************)
(* The u64 increment of a counter, written out.                            *)
(***************************************************************************)
LEMMA IncValue ==
    ASSUME NEW i \in Index
    PROVE  /\ Inc(i) \in Index
           /\ Inc(i) = IF i + 1 = Modulus THEN 0 ELSE i + 1
<1>1. CASE i + 1 = Modulus
  BY <1>1, RemainderUnique, SizeAssumption DEF Inc, Index
<1>2. CASE i + 1 # Modulus
  BY <1>2, RemainderUnique, SizeAssumption DEF Inc, Index
<1> QED
  BY <1>1, <1>2

(***************************************************************************)
(* Two counters are at distance 0 only if they are equal: empty_ and the   *)
(* distance agree.                                                         *)
(***************************************************************************)
LEMMA DistZero ==
    ASSUME NEW h \in Index, NEW t \in Index
    PROVE  Dist(h, t) = 0 <=> h = t
<1>1. Dist(h, t) = IF h >= t THEN h - t ELSE h - t + Modulus
  BY DistValue
<1> QED
  BY <1>1, Sizes DEF Index

(***************************************************************************)
(* Advancing the counter ahead adds one to the distance, unless it laps    *)
(* the one behind.                                                         *)
(***************************************************************************)
LEMMA DistIncAhead ==
    ASSUME NEW h \in Index, NEW t \in Index, Dist(h, t) < Modulus - 1
    PROVE  Dist(Inc(h), t) = Dist(h, t) + 1
<1>1. Inc(h) \in Index /\ Inc(h) = IF h + 1 = Modulus THEN 0 ELSE h + 1
  BY IncValue
<1>2. Dist(h, t) = IF h >= t THEN h - t ELSE h - t + Modulus
  BY DistValue
<1>3. Dist(Inc(h), t) = IF Inc(h) >= t THEN Inc(h) - t ELSE Inc(h) - t + Modulus
  BY <1>1, DistValue
<1> QED
  BY <1>1, <1>2, <1>3, Sizes DEF Index

(***************************************************************************)
(* Advancing the counter behind takes one from the distance.               *)
(***************************************************************************)
LEMMA DistIncBehind ==
    ASSUME NEW h \in Index, NEW t \in Index, h # t
    PROVE  Dist(h, Inc(t)) = Dist(h, t) - 1
<1>1. Inc(t) \in Index /\ Inc(t) = IF t + 1 = Modulus THEN 0 ELSE t + 1
  BY IncValue
<1>2. Dist(h, t) = IF h >= t THEN h - t ELSE h - t + Modulus
  BY DistValue
<1>3. Dist(h, Inc(t)) = IF h >= Inc(t) THEN h - Inc(t) ELSE h - Inc(t) + Modulus
  BY <1>1, DistValue
<1> QED
  BY <1>1, <1>2, <1>3, Sizes DEF Index

(***************************************************************************)
(* A value between an old view v and the current value t stands between    *)
(* them on the ring as well.                                               *)
(***************************************************************************)
LEMMA NewerView ==
    ASSUME NEW h \in Index, NEW t \in Index, NEW v \in Index, NEW w \in Index,
           Dist(h, v) = Dist(h, t) + Dist(t, v),
           Dist(t, w) <= Dist(t, v)
    PROVE  /\ Dist(h, w) = Dist(h, t) + Dist(t, w)
           /\ Dist(h, w) <= Dist(h, v)
<1>1. /\ Dist(h, t) = IF h >= t THEN h - t ELSE h - t + Modulus
      /\ Dist(h, v) = IF h >= v THEN h - v ELSE h - v + Modulus
      /\ Dist(h, w) = IF h >= w THEN h - w ELSE h - w + Modulus
      /\ Dist(t, v) = IF t >= v THEN t - v ELSE t - v + Modulus
      /\ Dist(t, w) = IF t >= w THEN t - w ELSE t - w + Modulus
  BY DistValue
<1> QED
  BY <1>1, Sizes DEF Index

(***************************************************************************)
(* The same on the consumer's side: the view w of head is between the old  *)
(* view v and head itself.                                                 *)
(***************************************************************************)
LEMMA NewerHeadView ==
    ASSUME NEW h \in Index, NEW t \in Index, NEW v \in Index, NEW w \in Index,
           Dist(h, t) = Dist(h, v) + Dist(v, t),
           Dist(h, w) <= Dist(h, v)
    PROVE  /\ Dist(h, t) = Dist(h, w) + Dist(w, t)
           /\ Dist(v, t) <= Dist(w, t)
<1>1. /\ Dist(h, t) = IF h >= t THEN h - t ELSE h - t + Modulus
      /\ Dist(h, v) = IF h >= v THEN h - v ELSE h - v + Modulus
      /\ Dist(h, w) = IF h >= w THEN h - w ELSE h - w + Modulus
      /\ Dist(v, t) = IF v >= t THEN v - t ELSE v - t + Modulus
      /\ Dist(w, t) = IF w >= t THEN w - t ELSE w - t + Modulus
  BY DistValue
<1> QED
  BY <1>1, Sizes DEF Index
-----------------------------------------------------------------------------
(***************************************************************************)
(* buffer_[index & mask] never leaves the array.                           *)
(***************************************************************************)
LEMMA SlotInRange ==
    ASSUME NEW i \in Int
    PROVE  Slot(i) \in Slots
  BY Division, SizeAssumption DEF Slot, Slots

(***************************************************************************)
(* Indices less than BufferSize apart have different slots.                *)
(***************************************************************************)
LEMMA SlotsApart ==
    ASSUME NEW a \in Int, NEW b \in Int, 0 < b - a, b - a < BufferSize
    PROVE  Slot(a) # Slot(b)
<1> SUFFICES ASSUME a % BufferSize = b % BufferSize PROVE FALSE
  BY DEF Slot
<1>1. PICK x \in Int : a = BufferSize * x + (a % BufferSize)
  BY Division, SizeAssumption
<1>2. PICK y \in Int : b = BufferSize * y + (b % BufferSize)
  BY Division, SizeAssumption
<1>3. a % BufferSize \in 0 .. (BufferSize - 1)
  BY Division, SizeAssumption
<1>4. b - a = BufferSize * (y - x)
  BY <1>1, <1>2, <1>3, SizeAssumption
<1>5. CASE y - x <= 0
  BY <1>4, <1>5, SizeAssumption
<1>6. CASE y - x >= 1
  BY <1>4, <1>6, SizeAssumption
<1> QED
  BY <1>5, <1>6

(***************************************************************************)
(* BufferSize divides Modulus, so wrapping a counter does not move its     *)
(* slot.                                                                   *)
(***************************************************************************)
LEMMA SlotOfWrapped ==
    ASSUME NEW x \in Int
    PROVE  Slot(x - Modulus) = Slot(x)
<1>1. PICK k \in Int : Modulus = BufferSize * k + 0
  <2> DEFINE n == Modulus \div BufferSize
  <2>1. n \in Int /\ Modulus = BufferSize * n + 0
    BY SizeAssumption
  <2> QED
    BY <2>1
<1>2. PICK y \in Int : x = BufferSize * y + (x % BufferSize)
  BY Division, SizeAssumption
<1>3. x % BufferSize \in 0 .. (BufferSize - 1)
  BY Division, SizeAssumption
<1>4. y - k \in Int /\ x - Modulus \in Int
  BY SizeAssumption
<1>5. x - Modulus = BufferSize * (y - k) + (x % BufferSize)
  BY <1>1, <1>2, <1>3, SizeAssumption
<1>6. (x - Modulus) % BufferSize = x % BufferSize
  BY <1>3, <1>4, <1>5, RemainderUnique, Sizes
<1> QED
  BY <1>6 DEF Slot

(***************************************************************************)
(* The slot of the counter ahead, counted from the one behind.             *)
(***************************************************************************)
LEMMA SlotAhead ==
    ASSUME NEW h \in Index, NEW t \in Index
    PROVE  Slot(h) = Slot(t + Dist(h, t))
<1>1. CASE h >= t
  BY <1>1, DistValue, SizeAssumption DEF Index
<1>2. CASE ~(h >= t)
  <2>1. t + Dist(h, t) = h + Modulus /\ h + Modulus \in Int
    BY <1>2, DistValue, SizeAssumption DEF Index
  <2>2. (h + Modulus) - Modulus = h
    BY SizeAssumption DEF Index
  <2> QED
    BY <2>1, <2>2, SlotOfWrapped
<1> QED
  BY <1>1, <1>2

(***************************************************************************)
(* The slot the producer writes is not one that holds a queued message.    *)
(***************************************************************************)
LEMMA FreeSlot ==
    ASSUME NEW h \in Index, NEW t \in Index, Dist(h, t) < BufferSize,
           NEW i \in 1 .. Dist(h, t)
    PROVE  Slot(t + i - 1) # Slot(h)
<1> DEFINE a == t + i - 1
           b == t + Dist(h, t)
<1>0. Dist(h, t) \in Index
  BY DistValue
<1>1. a \in Int /\ b \in Int /\ 0 < b - a /\ b - a < BufferSize
  BY <1>0, Sizes DEF Index
<1>2. Slot(a) # Slot(b)
  BY <1>1, SlotsApart
<1> QED
  BY <1>2, SlotAhead
=============================================================================
