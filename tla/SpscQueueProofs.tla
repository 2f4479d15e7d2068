-------------------------- MODULE SpscQueueProofs --------------------------
(***************************************************************************)
(* SpscQueue for every BufferSize, every Modulus and every set of          *)
(* messages: its invariant is inductive, its slots are race free, its      *)
(* answers keep their promises, and it implements BoundedFifo.             *)
(***************************************************************************)
EXTENDS SpscQueue, RingIndexProofs, SequenceTheorems

(***************************************************************************)
(* The constructed queue satisfies the invariant.                          *)
(***************************************************************************)
LEMMA InitIInv == Init => IInv
<1> SUFFICES ASSUME Init PROVE IInv
  OBVIOUS
<1>1. 0 \in Index /\ Dist(0, 0) = 0
  <2>1. 0 \in Index
    BY Sizes DEF Index
  <2> QED
    BY <2>1, DistZero
<1>2. TypeOK
  <2>1. popped \in {<< >>} \cup {<<m>> : m \in Content}
    BY Zenon DEF Init
  <2>2. buffer \in [Slots -> Content] /\ msg \in Content /\ out \in Content
    BY DEF Init, Content
  <2>3. room \in 0 .. BufferSize /\ items \in 0 .. BufferSize
    BY Sizes DEF Init
  <2> QED
    BY <1>1, <2>1, <2>2, <2>3 DEF Init, TypeOK
<1>3. CounterOrder /\ ClaimsHeld /\ PromisesBacked
  BY <1>1, Sizes DEF Init, CounterOrder, ClaimsHeld, PromisesBacked
<1> QED
  BY <1>2, <1>3 DEF IInv

(***************************************************************************)
(* A load of tail by the producer keeps the order around the ring, and     *)
(* only makes the room the producer sees larger.                           *)
(***************************************************************************)
LEMMA TailLoaded ==
    ASSUME IInv, NEW t \in TailValues
    PROVE  /\ t \in Index
           /\ Dist(head, t) = Dist(head, tail) + Dist(tail, t)
           /\ Dist(head, t) \in 0 .. BufferSize
           /\ room + Dist(head, t) <= BufferSize
<1>1. /\ head \in Index /\ tail \in Index /\ tailView \in Index /\ t \in Index
      /\ room \in 0 .. BufferSize
  BY DEF IInv, TypeOK, TailValues
<1>2. Dist(tail, t) <= Dist(tail, tailView)
  BY DEF TailValues
<1>3. /\ Dist(head, t) = Dist(head, tail) + Dist(tail, t)
      /\ Dist(head, t) <= Dist(head, tailView)
  BY <1>1, <1>2, NewerView DEF IInv, CounterOrder
<1>4. Dist(head, t) \in Index /\ Dist(head, tailView) \in Index
  BY <1>1, DistValue
<1> QED
  BY <1>1, <1>3, <1>4, Sizes DEF IInv, CounterOrder, PromisesBacked, Index

(***************************************************************************)
(* A load of head by the consumer keeps the order around the ring, and     *)
(* only makes the number of messages the consumer sees larger.             *)
(***************************************************************************)
LEMMA HeadLoaded ==
    ASSUME IInv, NEW h \in HeadValues
    PROVE  /\ h \in Index
           /\ Dist(head, tail) = Dist(head, h) + Dist(h, tail)
           /\ Dist(h, tail) \in 0 .. BufferSize
           /\ items <= Dist(h, tail)
<1>1. /\ head \in Index /\ tail \in Index /\ headView \in Index /\ h \in Index
      /\ tailView \in Index /\ items \in 0 .. BufferSize
  BY DEF IInv, TypeOK, HeadValues
<1>2. Dist(head, h) <= Dist(head, headView)
  BY DEF HeadValues
<1>3. /\ Dist(head, tail) = Dist(head, h) + Dist(h, tail)
      /\ Dist(headView, tail) <= Dist(h, tail)
  BY <1>1, <1>2, NewerHeadView DEF IInv, CounterOrder
<1>4. /\ Dist(head, tail) \in Index /\ Dist(head, h) \in Index
      /\ Dist(h, tail) \in Index /\ Dist(tail, tailView) \in Index
      /\ Dist(headView, tail) \in Index
  BY <1>1, DistValue
<1> QED
  BY <1>1, <1>3, <1>4, Sizes DEF IInv, CounterOrder, PromisesBacked, Index
-----------------------------------------------------------------------------
(***************************************************************************)
(* The steps that only load tail: a refused push, full() and size().       *)
(***************************************************************************)
LEMMA ProducerLoadKeepsIInv ==
    IInv /\ (PushFull \/ TestFull \/ ProducerSize) => IInv'
<1> SUFFICES ASSUME IInv, PushFull \/ TestFull \/ ProducerSize
             PROVE  IInv'
  OBVIOUS
<1>1. PICK t \in TailValues :
         /\ tailView' = t
         /\ tailSync' = tailSync \/ tailSync' = t
         /\ \/ room' = room
            \/ ~IsFull(head, t) /\ room' = Larger(room, 1)
            \/ room' = Larger(room, BufferSize - Dist(head, t))
  BY DEF PushFull, TestFull, ProducerSize, LoadTail, Synced, Size
<1>2. /\ ppc = "idle"
      /\ UNCHANGED <<buffer, head, tail, ppc, msg, consumer>>
      /\ pushed' \in {pushed, FALSE}
  BY DEF PushFull, TestFull, ProducerSize, members
<1>3. /\ t \in Index
      /\ Dist(head, t) = Dist(head, tail) + Dist(tail, t)
      /\ Dist(head, t) \in 0 .. BufferSize
      /\ room + Dist(head, t) <= BufferSize
  BY TailLoaded
<1>4. room' \in 0 .. BufferSize /\ room' + Dist(head, t) <= BufferSize
  <2>1. room \in 0 .. BufferSize
    BY DEF IInv, TypeOK
  <2>2. CASE room' = room
    BY <1>3, <2>1, <2>2
  <2>3. CASE ~IsFull(head, t) /\ room' = Larger(room, 1)
    BY <1>3, <2>1, <2>3, Sizes DEF Larger, IsFull
  <2>4. CASE room' = Larger(room, BufferSize - Dist(head, t))
    BY <1>3, <2>1, <2>4, Sizes DEF Larger
  <2> QED
    BY <1>1, <2>2, <2>3, <2>4
<1>5. TypeOK'
  BY <1>1, <1>2, <1>3, <1>4 DEF IInv, TypeOK, consumer
<1>6. CounterOrder'
  BY <1>1, <1>2, <1>3, Sizes DEF IInv, CounterOrder, consumer
<1>7. ClaimsHeld'
  BY <1>2 DEF IInv, ClaimsHeld, consumer
<1>8. PromisesBacked'
  BY <1>1, <1>2, <1>4 DEF IInv, PromisesBacked, consumer
<1> QED
  BY <1>5, <1>6, <1>7, <1>8 DEF IInv

(***************************************************************************)
(* The successful test of push: the fresh acquire load of tail is what     *)
(* lets the producer own the slot.                                         *)
(***************************************************************************)
LEMMA PushClaimKeepsIInv ==
    ASSUME IInv, NEW m \in Msg, PushClaim(m)
    PROVE  IInv'
<1>1. PICK t \in TailValues :
         /\ ~IsFull(head, t)
         /\ tailView' = t
         /\ tailSync' = t
  BY DEF PushClaim, LoadTail, Synced, PushLoadOrder, PopStoreOrder
<1>2. /\ ppc' = "write" /\ msg' = m
      /\ UNCHANGED <<buffer, head, tail, pushed, room, consumer>>
  BY DEF PushClaim, members
<1>3. /\ t \in Index
      /\ Dist(head, t) = Dist(head, tail) + Dist(tail, t)
      /\ Dist(head, t) \in 0 .. BufferSize
      /\ room + Dist(head, t) <= BufferSize
  BY TailLoaded
<1>4. TypeOK'
  BY <1>1, <1>2, <1>3 DEF IInv, TypeOK, consumer, Content
<1>5. CounterOrder'
  BY <1>1, <1>2, <1>3, Sizes DEF IInv, CounterOrder, consumer
<1>6. ClaimsHeld'
  <2>1. Dist(head, t) < BufferSize
    BY <1>1, <1>3, Sizes DEF IsFull
  <2> QED
    BY <1>1, <1>2, <2>1 DEF IInv, ClaimsHeld, consumer
<1>7. PromisesBacked'
  BY <1>1, <1>2, <1>3 DEF IInv, PromisesBacked, consumer
<1> QED
  BY <1>4, <1>5, <1>6, <1>7 DEF IInv

(***************************************************************************)
(* The copy into the claimed slot touches no queued message, not even the  *)
(* one a pop is about to publish.                                          *)
(***************************************************************************)
LEMMA PushWriteKeepsIInv == IInv /\ PushWrite => IInv'
<1> SUFFICES ASSUME IInv, PushWrite PROVE IInv'
  OBVIOUS
<1> USE DEF PushWrite, producer, consumer
<1>1. /\ head \in Index /\ tail \in Index /\ tailView \in Index
      /\ headView \in Index /\ buffer \in [Slots -> Content] /\ msg \in Content
  BY DEF IInv, TypeOK
<1>2. Slot(head) \in Slots /\ Slot(tail) \in Slots
  BY <1>1, SlotInRange DEF Index
<1>3. TypeOK'
  BY <1>1 DEF IInv, TypeOK
<1>4. CounterOrder'
  BY DEF IInv, CounterOrder
<1>5. ClaimsHeld'
  <2>1. buffer'[Slot(head)] = msg
    BY <1>1, <1>2
  <2>2. ASSUME cpc = "store" PROVE buffer'[Slot(tail)] = buffer[Slot(tail)]
    <3>1. headView # tail /\ Dist(head, tailView) < BufferSize
      BY <2>2 DEF IInv, ClaimsHeld
    <3>2. /\ Dist(head, tail) \in Index /\ Dist(tail, tailView) \in Index
          /\ Dist(head, headView) \in Index /\ Dist(headView, tail) \in Index
          /\ Dist(headView, tail) # 0
      BY <1>1, <3>1, DistValue, DistZero
    <3>3. 1 \in 1 .. Dist(head, tail) /\ Dist(head, tail) < BufferSize
      BY <3>1, <3>2, Sizes DEF IInv, CounterOrder, Index
    <3>4. Slot(tail + 1 - 1) # Slot(head)
      BY <1>1, <3>3, FreeSlot
    <3>5. Slot(tail) # Slot(head)
      BY <1>1, <3>4 DEF Index
    <3> QED
      BY <1>1, <1>2, <3>5
  <2> QED
    BY <2>1, <2>2 DEF IInv, ClaimsHeld
<1>6. PromisesBacked'
  BY DEF IInv, PromisesBacked
<1> QED
  BY <1>3, <1>4, <1>5, <1>6 DEF IInv

(***************************************************************************)
(* Publishing head moves it one further from tail and from both views; one *)
(* promised push is used up.                                               *)
(***************************************************************************)
LEMMA PushStoreKeepsIInv == IInv /\ PushStore => IInv'
<1> SUFFICES ASSUME IInv, PushStore PROVE IInv'
  OBVIOUS
<1> USE DEF PushStore, producer, consumer
<1>1. /\ head \in Index /\ tail \in Index /\ tailView \in Index
      /\ headView \in Index /\ room \in 0 .. BufferSize
  BY DEF IInv, TypeOK
<1>2. /\ Dist(head, tail) \in Index /\ Dist(tail, tailView) \in Index
      /\ Dist(head, headView) \in Index /\ Dist(headView, tail) \in Index
      /\ Dist(head, tailView) \in Index
  BY <1>1, DistValue
<1>3. Dist(head, tailView) < BufferSize
  BY DEF IInv, ClaimsHeld
<1>4. /\ Dist(head, tail) <= Dist(head, tailView)
      /\ Dist(head, headView) <= Dist(head, tailView)
  BY <1>2 DEF IInv, CounterOrder, Index
<1>5. /\ Dist(Inc(head), tailView) = Dist(head, tailView) + 1
      /\ Dist(Inc(head), tail) = Dist(head, tail) + 1
      /\ Dist(Inc(head), headView) = Dist(head, headView) + 1
  BY <1>1, <1>2, <1>3, <1>4, DistIncAhead, Sizes DEF Index
<1>6. room' \in 0 .. BufferSize /\ room' + Dist(head, tailView) + 1 <= BufferSize
  BY <1>1, <1>2, <1>3, Sizes DEF IInv, PromisesBacked, OneLess, Index
<1>7. TypeOK'
  BY <1>1, <1>6, IncValue DEF IInv, TypeOK
<1>8. CounterOrder'
  BY <1>2, <1>3, <1>5, Sizes DEF IInv, CounterOrder, Index
<1>9. ClaimsHeld'
  BY DEF IInv, ClaimsHeld
<1>10. PromisesBacked'
  BY <1>2, <1>5, <1>6 DEF IInv, PromisesBacked, Index
<1> QED
  BY <1>7, <1>8, <1>9, <1>10 DEF IInv

(***************************************************************************)
(* The steps that only load head: an unsuccessful pop, empty() and size(). *)
(***************************************************************************)
LEMMA ConsumerLoadKeepsIInv ==
    IInv /\ (PopEmpty \/ TestEmpty \/ ConsumerSize) => IInv'
<1> SUFFICES ASSUME IInv, PopEmpty \/ TestEmpty \/ ConsumerSize
             PROVE  IInv'
  OBVIOUS
<1>1. PICK h \in HeadValues :
         /\ headView' = h
         /\ headSync' = headSync \/ headSync' = h
         /\ \/ items' = items
            \/ ~IsEmpty(h, tail) /\ items' = Larger(items, 1)
            \/ items' = Larger(items, Dist(h, tail))
  BY DEF PopEmpty, TestEmpty, ConsumerSize, LoadHead, Synced, Size
<1>2. /\ cpc = "idle"
      /\ UNCHANGED <<buffer, head, tail, cpc, out, producer>>
      /\ popped' \in {popped, << >>}
  BY DEF PopEmpty, TestEmpty, ConsumerSize, members
<1>3. /\ h \in Index
      /\ Dist(head, tail) = Dist(head, h) + Dist(h, tail)
      /\ Dist(h, tail) \in 0 .. BufferSize
      /\ items <= Dist(h, tail)
  BY HeadLoaded
<1>4. items' \in 0 .. BufferSize /\ items' <= Dist(h, tail)
  <2>1. items \in 0 .. BufferSize /\ tail \in Index
    BY DEF IInv, TypeOK
  <2>2. CASE items' = items
    BY <1>3, <2>1, <2>2
  <2>3. CASE ~IsEmpty(h, tail) /\ items' = Larger(items, 1)
    <3>1. Dist(h, tail) # 0
      BY <1>3, <2>1, <2>3, DistZero DEF IsEmpty
    <3> QED
      BY <1>3, <2>1, <2>3, <3>1, Sizes DEF Larger
  <2>4. CASE items' = Larger(items, Dist(h, tail))
    BY <1>3, <2>1, <2>4, Sizes DEF Larger
  <2> QED
    BY <1>1, <2>2, <2>3, <2>4
<1>5. TypeOK'
  <2>1. popped' \in {<< >>} \cup {<<m>> : m \in Content}
    BY <1>2, Zenon DEF IInv, TypeOK
  <2> QED
    BY <1>1, <1>2, <1>3, <1>4, <2>1 DEF IInv, TypeOK, producer
<1>6. CounterOrder'
  BY <1>1, <1>2, <1>3 DEF IInv, CounterOrder, producer
<1>7. ClaimsHeld'
  BY <1>2 DEF IInv, ClaimsHeld, producer
<1>8. PromisesBacked'
  BY <1>1, <1>2, <1>4 DEF IInv, PromisesBacked, producer
<1> QED
  BY <1>5, <1>6, <1>7, <1>8 DEF IInv

(***************************************************************************)
(* The successful test of pop: the acquire load of head orders the read    *)
(* that follows.                                                           *)
(***************************************************************************)
LEMMA PopClaimKeepsIInv == IInv /\ PopClaim => IInv'
<1> SUFFICES ASSUME IInv, PopClaim PROVE IInv'
  OBVIOUS
<1>1. PICK h \in HeadValues :
         /\ ~IsEmpty(h, tail)
         /\ headView' = h
         /\ headSync' = h
  BY DEF PopClaim, LoadHead, Synced, PopLoadOrder, PushStoreOrder
<1>2. /\ cpc' = "read"
      /\ UNCHANGED <<buffer, head, tail, out, popped, items, producer>>
  BY DEF PopClaim, members
<1>3. /\ h \in Index
      /\ Dist(head, tail) = Dist(head, h) + Dist(h, tail)
      /\ items <= Dist(h, tail)
  BY HeadLoaded
<1>4. TypeOK'
  BY <1>1, <1>2, <1>3 DEF IInv, TypeOK, producer
<1>5. CounterOrder'
  BY <1>1, <1>2, <1>3 DEF IInv, CounterOrder, producer
<1>6. ClaimsHeld'
  BY <1>1, <1>2 DEF IInv, ClaimsHeld, producer, IsEmpty
<1>7. PromisesBacked'
  BY <1>1, <1>2, <1>3 DEF IInv, PromisesBacked, producer
<1> QED
  BY <1>4, <1>5, <1>6, <1>7 DEF IInv

(***************************************************************************)
(* The copy out of the slot at tail.                                       *)
(***************************************************************************)
LEMMA PopReadKeepsIInv == IInv /\ PopRead => IInv'
<1> SUFFICES ASSUME IInv, PopRead PROVE IInv'
  OBVIOUS
<1> USE DEF PopRead, members, producer
<1>1. buffer[Slot(tail)] \in Content
  <2>1. tail \in Int
    BY DEF IInv, TypeOK, Index
  <2> QED
    BY <2>1, SlotInRange DEF IInv, TypeOK
<1>2. TypeOK'
  BY <1>1 DEF IInv, TypeOK
<1>3. CounterOrder' /\ ClaimsHeld' /\ PromisesBacked'
  BY DEF IInv, CounterOrder, ClaimsHeld, PromisesBacked
<1> QED
  BY <1>2, <1>3 DEF IInv

(***************************************************************************)
(* Publishing tail moves it one towards head and one ahead of what the     *)
(* producer has seen; one promised pop is used up.                         *)
(***************************************************************************)
LEMMA PopStoreKeepsIInv == IInv /\ PopStore => IInv'
<1> SUFFICES ASSUME IInv, PopStore PROVE IInv'
  OBVIOUS
<1> USE DEF PopStore, producer
<1>1. /\ head \in Index /\ tail \in Index /\ tailView \in Index
      /\ headView \in Index /\ items \in 0 .. BufferSize /\ out \in Content
  BY DEF IInv, TypeOK
<1>2. /\ Dist(head, tail) \in Index /\ Dist(tail, tailView) \in Index
      /\ Dist(head, headView) \in Index /\ Dist(headView, tail) \in Index
      /\ Dist(head, tailView) \in Index
  BY <1>1, DistValue
<1>3. headView # tail /\ Dist(headView, tail) # 0
  BY <1>1, DistZero DEF IInv, ClaimsHeld
<1>4. head # tail
  <2>1. Dist(head, tail) # 0
    BY <1>2, <1>3 DEF IInv, CounterOrder, Index
  <2> QED
    BY <1>1, <2>1, DistZero
<1>5. Dist(tail, tailView) < Modulus - 1
  BY <1>2, <1>3, Sizes DEF IInv, CounterOrder, Index
<1>6. /\ Dist(Inc(tail), tailView) = Dist(tail, tailView) + 1
      /\ Dist(head, Inc(tail)) = Dist(head, tail) - 1
      /\ Dist(headView, Inc(tail)) = Dist(headView, tail) - 1
  BY <1>1, <1>3, <1>4, <1>5, DistIncAhead, DistIncBehind
<1>7. TypeOK'
  <2>1. popped' \in {<< >>} \cup {<<m>> : m \in Content}
    BY <1>1, Zenon
  <2>2. items' \in 0 .. BufferSize
    BY <1>1, Sizes DEF OneLess
  <2> QED
    BY <1>1, <2>1, <2>2, IncValue DEF IInv, TypeOK
<1>8. CounterOrder'
  BY <1>2, <1>6, Sizes DEF IInv, CounterOrder, Index
<1>9. ClaimsHeld'
  BY DEF IInv, ClaimsHeld
<1>10. PromisesBacked'
  BY <1>1, <1>2, <1>3, <1>6, Sizes DEF IInv, PromisesBacked, OneLess, Index
<1> QED
  BY <1>7, <1>8, <1>9, <1>10 DEF IInv

(***************************************************************************)
(* Every step of either thread keeps the invariant.                        *)
(***************************************************************************)
LEMMA NextKeepsIInv == IInv /\ [Next]_vars => IInv'
<1> SUFFICES ASSUME IInv, [Next]_vars PROVE IInv'
  OBVIOUS
<1>1. CASE Produce
  BY <1>1, ProducerLoadKeepsIInv, PushClaimKeepsIInv, PushWriteKeepsIInv,
     PushStoreKeepsIInv DEF Produce
<1>2. CASE Consume
  BY <1>2, ConsumerLoadKeepsIInv, PopClaimKeepsIInv, PopReadKeepsIInv,
     PopStoreKeepsIInv DEF Consume
<1>3. CASE UNCHANGED vars
  BY <1>3 DEF vars, members, producer, consumer, IInv, TypeOK, CounterOrder,
     ClaimsHeld, PromisesBacked
<1> QED
  BY <1>1, <1>2, <1>3 DEF Next

(***************************************************************************)
(* IInv holds in every reachable state.                                    *)
(***************************************************************************)
THEOREM Invariance == Spec => []IInv
<1> QED
  BY InitIInv, NextKeepsIInv, PTL DEF Spec
-----------------------------------------------------------------------------
(***************************************************************************)
(* No slot of the ring is ever accessed in a data race: the memory orders  *)
(* of push and pop are enough.                                             *)
(***************************************************************************)
THEOREM RaceFreedom == Spec => []SlotRaceFree
<1>1. IInv => SlotRaceFree
  <2> SUFFICES ASSUME IInv PROVE SlotRaceFree
    OBVIOUS
  <2>1. ASSUME ppc = "write" PROVE Dist(head, tailSync) < BufferSize
    BY <2>1 DEF IInv, ClaimsHeld
  <2>2. ASSUME cpc = "read" PROVE Dist(headSync, tail) \in 1 .. BufferSize
    <3>1. /\ head \in Index /\ tail \in Index /\ tailView \in Index
          /\ headView \in Index
      BY DEF IInv, TypeOK
    <3>2. headSync = headView /\ headView # tail
      BY <2>2 DEF IInv, ClaimsHeld
    <3>3. /\ Dist(head, tail) \in Index /\ Dist(tail, tailView) \in Index
          /\ Dist(head, headView) \in Index /\ Dist(headView, tail) \in Index
          /\ Dist(headView, tail) # 0
      BY <3>1, <3>2, DistValue, DistZero
    <3> QED
      BY <3>2, <3>3, Sizes DEF IInv, CounterOrder, Index
  <2> QED
    BY <2>1, <2>2 DEF SlotRaceFree
<1> QED
  BY <1>1, Invariance, PTL

(***************************************************************************)
(* The producer is never refused a push that full() or size() promised.    *)
(***************************************************************************)
THEOREM PushPromise == Spec => PushPromiseKept
<1>1. IInv /\ [Next]_vars => [PushFull => room = 0]_vars
  <2> SUFFICES ASSUME IInv, PushFull PROVE room = 0
    OBVIOUS
  <2>1. PICK t \in TailValues : IsFull(head, t)
    BY DEF PushFull
  <2>2. room + Dist(head, t) <= BufferSize /\ room \in 0 .. BufferSize
    BY TailLoaded DEF IInv, TypeOK
  <2> QED
    BY <2>1, <2>2, Sizes DEF IsFull
<1> QED
  BY <1>1, Invariance, PTL DEF PushPromiseKept, Spec

(***************************************************************************)
(* The consumer never finds the queue empty after empty() or size()        *)
(* promised a message.                                                     *)
(***************************************************************************)
THEOREM PopPromise == Spec => PopPromiseKept
<1>1. IInv /\ [Next]_vars => [PopEmpty => items = 0]_vars
  <2> SUFFICES ASSUME IInv, PopEmpty PROVE items = 0
    OBVIOUS
  <2>1. PICK h \in HeadValues : IsEmpty(h, tail)
    BY DEF PopEmpty
  <2>2. /\ h \in Index /\ tail \in Index
        /\ items <= Dist(h, tail) /\ items \in 0 .. BufferSize
    BY HeadLoaded DEF IInv, TypeOK
  <2>3. Dist(h, tail) = 0
    BY <2>1, <2>2, DistZero DEF IsEmpty
  <2> QED
    BY <2>2, <2>3
<1> QED
  BY <1>1, Invariance, PTL DEF PopPromiseKept, Spec
-----------------------------------------------------------------------------
(***************************************************************************)
(* What lies between tail and head is a sequence of messages, oldest       *)
(* first.                                                                  *)
(***************************************************************************)
LEMMA ContentsIsSeq ==
    ASSUME IInv
    PROVE  /\ Contents \in Seq(Content)
           /\ Len(Contents) = Dist(head, tail)
           /\ \A i \in 1 .. Dist(head, tail) : Contents[i] = buffer[Slot(tail + i - 1)]
<1>1. Dist(head, tail) \in Nat
  BY DistValue, Sizes DEF IInv, TypeOK, Index
<1>2. \A i \in 1 .. Dist(head, tail) : buffer[Slot(tail + i - 1)] \in Content
  <2> SUFFICES ASSUME NEW i \in 1 .. Dist(head, tail)
               PROVE  buffer[Slot(tail + i - 1)] \in Content
    OBVIOUS
  <2>1. tail + i - 1 \in Int
    BY <1>1 DEF IInv, TypeOK, Index
  <2> QED
    BY <2>1, SlotInRange DEF IInv, TypeOK
<1> QED
  BY <1>1, <1>2 DEF Contents

(***************************************************************************)
(* Sequences of the same length with the same elements are equal.          *)
(***************************************************************************)
LEMMA SameSeq ==
    ASSUME NEW s \in Seq(Content), NEW r \in Seq(Content), Len(s) = Len(r),
           \A i \in 1 .. Len(s) : s[i] = r[i]
    PROVE  s = r
  OBVIOUS

(***************************************************************************)
(* The constructed ring buffer is the empty queue.                         *)
(***************************************************************************)
LEMMA InitRefines == Init => Fifo!Init
<1> SUFFICES ASSUME Init PROVE Fifo!Init
  OBVIOUS
<1>1. Dist(0, 0) = 0
  BY DistZero, Sizes DEF Index
<1>2. Contents = << >>
  BY <1>1 DEF Init, Contents
<1> QED
  BY <1>1, <1>2 DEF Init, Fifo!Init

(***************************************************************************)
(* A load of tail that leads nowhere else is NoticePops.                   *)
(***************************************************************************)
LEMMA TailLoadRefines ==
    ASSUME IInv, NEW t \in TailValues, tailView' = t,
           UNCHANGED <<buffer, head, tail, headView, pushed, popped>>
    PROVE  Fifo!NoticePops
<1>1. Contents' = Contents
  BY DEF Contents
<1>2. Dist(tail, t) \in 0 .. Dist(tail, tailView)
  <2>1. Dist(tail, t) \in Index
    BY DistValue DEF IInv, TypeOK, TailValues
  <2>2. Dist(tail, tailView) \in Index
    BY DistValue DEF IInv, TypeOK
  <2> QED
    BY <2>1, <2>2 DEF TailValues, Index
<1> QED
  BY <1>1, <1>2 DEF Fifo!NoticePops

(***************************************************************************)
(* A load of head that leads nowhere else is NoticePushes.                 *)
(***************************************************************************)
LEMMA HeadLoadRefines ==
    ASSUME IInv, NEW h \in HeadValues, headView' = h,
           UNCHANGED <<buffer, head, tail, tailView, pushed, popped>>
    PROVE  Fifo!NoticePushes
<1>1. Contents' = Contents
  BY DEF Contents
<1>2. Dist(h, tail) \in Dist(headView, tail) .. Len(Contents)
  <2>1. /\ h \in Index /\ head \in Index /\ tail \in Index /\ headView \in Index
        /\ Dist(head, h) <= Dist(head, headView)
    BY DEF IInv, TypeOK, HeadValues
  <2>2. /\ Dist(head, tail) = Dist(head, h) + Dist(h, tail)
        /\ Dist(headView, tail) <= Dist(h, tail)
    BY <2>1, NewerHeadView DEF IInv, CounterOrder
  <2>3. /\ Dist(head, tail) \in Index /\ Dist(head, h) \in Index
        /\ Dist(h, tail) \in Index /\ Dist(headView, tail) \in Index
    BY <2>1, DistValue
  <2> QED
    BY <2>2, <2>3, ContentsIsSeq DEF Index
<1> QED
  BY <1>1, <1>2 DEF Fifo!NoticePushes

(***************************************************************************)
(* A refused push: every slot is held by a queued message or by a pop the  *)
(* producer has not noticed.                                               *)
(***************************************************************************)
LEMMA PushFullRefines == IInv /\ PushFull => Fifo!PushFull
<1> SUFFICES ASSUME IInv, PushFull PROVE Fifo!PushFull
  OBVIOUS
<1>1. PICK t \in TailValues : IsFull(head, t) /\ tailView' = t
  BY DEF PushFull, LoadTail
<1>2. /\ UNCHANGED <<buffer, head, tail, headView, popped>>
      /\ pushed' = FALSE
  BY DEF PushFull, members, consumer
<1>3. /\ head \in Index /\ tail \in Index /\ tailView \in Index /\ t \in Index
  BY DEF IInv, TypeOK, TailValues
<1>4. /\ Dist(head, t) = Dist(head, tail) + Dist(tail, t)
      /\ Dist(head, t) <= Dist(head, tailView)
  BY <1>3, NewerView DEF IInv, CounterOrder, TailValues
<1>5. /\ Dist(head, tail) \in Index /\ Dist(tail, t) \in Index
      /\ Dist(tail, tailView) \in Index
  BY <1>3, DistValue
<1>6. /\ Dist(tail, t) = Dist(tail, tailView)
      /\ Dist(head, tail) + Dist(tail, tailView) = BufferSize
  BY <1>1, <1>4, <1>5, Sizes DEF IInv, CounterOrder, IsFull, Index
<1>7. Contents' = Contents
  BY <1>2 DEF Contents
<1> QED
  BY <1>1, <1>2, <1>6, <1>7, ContentsIsSeq DEF Fifo!PushFull

(***************************************************************************)
(* The copy into the claimed slot is not visible in the queue.             *)
(***************************************************************************)
LEMMA PushWriteRefines == IInv /\ PushWrite => UNCHANGED Fifo!vars
<1> SUFFICES ASSUME IInv, PushWrite PROVE UNCHANGED Fifo!vars
  OBVIOUS
<1>1. /\ head \in Index /\ tail \in Index /\ tailView \in Index
      /\ buffer \in [Slots -> Content]
  BY DEF IInv, TypeOK
<1>2. Dist(head, tail) < BufferSize
  <2>1. Dist(head, tail) \in Index /\ Dist(tail, tailView) \in Index
    BY <1>1, DistValue
  <2> QED
    BY <2>1, Sizes DEF PushWrite, IInv, CounterOrder, ClaimsHeld, Index
<1>3. \A i \in 1 .. Dist(head, tail) :
         buffer'[Slot(tail + i - 1)] = buffer[Slot(tail + i - 1)]
  <2> SUFFICES ASSUME NEW i \in 1 .. Dist(head, tail)
               PROVE  buffer'[Slot(tail + i - 1)] = buffer[Slot(tail + i - 1)]
    OBVIOUS
  <2>1. Slot(tail + i - 1) # Slot(head)
    BY <1>1, <1>2, FreeSlot
  <2>2. tail + i - 1 \in Int
    BY <1>1, DistValue DEF Index
  <2>3. Slot(tail + i - 1) \in Slots
    BY <2>2, SlotInRange
  <2> QED
    BY <1>1, <2>1, <2>3 DEF PushWrite
<1>4. Contents' = Contents
  BY <1>3 DEF Contents, PushWrite
<1> QED
  BY <1>4 DEF PushWrite, consumer, Fifo!vars

(***************************************************************************)
(* Publishing head appends the message.                                    *)
(***************************************************************************)
LEMMA PushStoreRefines == IInv /\ IInv' /\ PushStore => Fifo!Push(msg)
<1> SUFFICES ASSUME IInv, IInv', PushStore PROVE Fifo!Push(msg)
  OBVIOUS
<1>1. /\ head \in Index /\ tail \in Index /\ tailView \in Index /\ msg \in Content
      /\ head' = Inc(head)
      /\ UNCHANGED <<buffer, tail, tailView, headView, popped>> /\ pushed' = TRUE
  BY DEF IInv, TypeOK, PushStore, consumer
<1>2. Dist(head, tail) \in Index /\ Dist(tail, tailView) \in Index
  BY <1>1, DistValue
<1>3. Dist(head, tail) + Dist(tail, tailView) < BufferSize
  BY DEF IInv, CounterOrder, ClaimsHeld, PushStore
<1>4. Dist(head', tail') = Dist(head, tail) + 1
  BY <1>1, <1>2, <1>3, DistIncAhead, Sizes DEF Index
<1>5. Contents' = Append(Contents, msg)
  <2>1. /\ Contents' \in Seq(Content)
        /\ Len(Contents') = Dist(head, tail) + 1
        /\ \A i \in 1 .. Dist(head, tail) + 1 :
              Contents'[i] = buffer[Slot(tail + i - 1)]
    <3>1. Dist(head', tail') \in Nat
      BY <1>2, <1>4 DEF Index
    <3>2. \A i \in 1 .. Dist(head', tail') : buffer[Slot(tail + i - 1)] \in Content
      <4> SUFFICES ASSUME NEW i \in 1 .. Dist(head', tail')
                   PROVE  buffer[Slot(tail + i - 1)] \in Content
        OBVIOUS
      <4>1. tail + i - 1 \in Int
        BY <1>1, <3>1 DEF Index
      <4> QED
        BY <4>1, SlotInRange DEF IInv, TypeOK
    <3> QED
      BY <1>1, <1>4, <3>1, <3>2 DEF Contents
  <2>2. /\ Append(Contents, msg) \in Seq(Content)
        /\ Len(Append(Contents, msg)) = Dist(head, tail) + 1
        /\ \A i \in 1 .. Dist(head, tail) : Append(Contents, msg)[i] = Contents[i]
        /\ Append(Contents, msg)[Dist(head, tail) + 1] = msg
    BY <1>1, ContentsIsSeq
  <2>3. buffer[Slot(tail + (Dist(head, tail) + 1) - 1)] = msg
    <3>1. tail + (Dist(head, tail) + 1) - 1 = tail + Dist(head, tail)
      BY <1>1, <1>2 DEF Index
    <3>2. buffer[Slot(head)] = msg
      BY DEF IInv, ClaimsHeld, PushStore
    <3> QED
      BY <1>1, <3>1, <3>2, SlotAhead
  <2>4. \A i \in 1 .. Len(Contents') : Contents'[i] = Append(Contents, msg)[i]
    BY <1>2, <2>1, <2>2, <2>3, ContentsIsSeq DEF Index
  <2> QED
    BY <2>1, <2>2, <2>4, SameSeq
<1> QED
  BY <1>1, <1>3, <1>5, ContentsIsSeq DEF Fifo!Push

(***************************************************************************)
(* An unsuccessful pop: every message the consumer knows of is taken.      *)
(***************************************************************************)
LEMMA PopEmptyRefines == IInv /\ PopEmpty => Fifo!PopEmpty
<1> SUFFICES ASSUME IInv, PopEmpty PROVE Fifo!PopEmpty
  OBVIOUS
<1>1. PICK h \in HeadValues : IsEmpty(h, tail) /\ headView' = h
  BY DEF PopEmpty, LoadHead
<1>2. /\ UNCHANGED <<buffer, head, tail, tailView, pushed>>
      /\ popped' = << >>
  BY DEF PopEmpty, members, producer
<1>3. /\ head \in Index /\ tail \in Index /\ headView \in Index /\ h \in Index
      /\ Dist(head, h) <= Dist(head, headView)
  BY DEF IInv, TypeOK, HeadValues
<1>4. Dist(headView, tail) <= Dist(h, tail)
  BY <1>3, NewerHeadView DEF IInv, CounterOrder
<1>5. Dist(h, tail) = 0
  BY <1>1, <1>3, DistZero DEF IsEmpty
<1>6. Dist(headView, tail) = 0
  BY <1>3, <1>4, <1>5, DistValue DEF Index
<1>7. Contents' = Contents
  BY <1>2 DEF Contents
<1> QED
  BY <1>1, <1>2, <1>5, <1>6, <1>7 DEF Fifo!PopEmpty

(***************************************************************************)
(* Publishing tail takes the oldest message, the one copied out before.    *)
(***************************************************************************)
LEMMA PopStoreRefines == IInv /\ IInv' /\ PopStore => Fifo!Pop
<1> SUFFICES ASSUME IInv, IInv', PopStore PROVE Fifo!Pop
  OBVIOUS
<1>1. /\ head \in Index /\ tail \in Index /\ tailView \in Index
      /\ headView \in Index
      /\ tail' = Inc(tail) /\ popped' = <<out>>
      /\ UNCHANGED <<buffer, head, tailView, headView, pushed>>
  BY DEF IInv, TypeOK, PopStore, producer
<1>2. /\ Dist(head, tail) \in Index /\ Dist(tail, tailView) \in Index
      /\ Dist(head, headView) \in Index /\ Dist(headView, tail) \in Index
  BY <1>1, DistValue
<1>3. headView # tail /\ Dist(headView, tail) # 0 /\ out = buffer[Slot(tail)]
  BY <1>1, DistZero DEF IInv, ClaimsHeld, PopStore
<1>4. Dist(head, tail) > 0 /\ head # tail
  <2>1. Dist(head, tail) = Dist(head, headView) + Dist(headView, tail)
    BY DEF IInv, CounterOrder
  <2>2. Dist(head, tail) > 0
    BY <1>2, <1>3, <2>1, Sizes DEF Index
  <2> QED
    BY <1>1, <2>2, DistZero
<1>5. Dist(tail, tailView) < Modulus - 1
  BY <1>2, <1>4, Sizes DEF IInv, CounterOrder, Index
<1>6. /\ Dist(tail', tailView') = Dist(tail, tailView) + 1
      /\ Dist(head', tail') = Dist(head, tail) - 1
      /\ Dist(headView', tail') = Dist(headView, tail) - 1
  BY <1>1, <1>3, <1>4, <1>5, DistIncAhead, DistIncBehind
<1>7. \A i \in Nat : Slot(Inc(tail) + i - 1) = Slot(tail + (i + 1) - 1)
  <2> SUFFICES ASSUME NEW i \in Nat
               PROVE  Slot(Inc(tail) + i - 1) = Slot(tail + (i + 1) - 1)
    OBVIOUS
  <2>1. CASE tail + 1 = Modulus
    <3>1. tail + i \in Int /\ Inc(tail) + i - 1 = (tail + i) - Modulus
      BY <1>1, <2>1, IncValue, Sizes DEF Index
    <3>2. tail + (i + 1) - 1 = tail + i
      BY <1>1 DEF Index
    <3> QED
      BY <3>1, <3>2, SlotOfWrapped
  <2>2. CASE tail + 1 # Modulus
    <3>1. Inc(tail) + i - 1 = tail + (i + 1) - 1
      BY <1>1, <2>2, IncValue DEF Index
    <3> QED
      BY <3>1
  <2> QED
    BY <2>1, <2>2
<1>8. Head(Contents) = out
  <2>1. Contents[1] = buffer[Slot(tail + 1 - 1)]
    BY <1>2, <1>4, ContentsIsSeq DEF Index
  <2>2. tail + 1 - 1 = tail
    BY <1>1 DEF Index
  <2> QED
    BY <1>2, <1>3, <1>4, <2>1, <2>2, ContentsIsSeq DEF Index
<1>9. Contents' = Tail(Contents)
  <2>1. /\ Contents' \in Seq(Content)
        /\ Len(Contents') = Dist(head, tail) - 1
        /\ \A i \in 1 .. (Dist(head, tail) - 1) :
              Contents'[i] = buffer[Slot(Inc(tail) + i - 1)]
    <3>1. Dist(head', tail') \in Nat
      BY <1>2, <1>4, <1>6 DEF Index
    <3>2. \A i \in 1 .. Dist(head', tail') : buffer[Slot(Inc(tail) + i - 1)] \in Content
      <4> SUFFICES ASSUME NEW i \in 1 .. Dist(head', tail')
                   PROVE  buffer[Slot(Inc(tail) + i - 1)] \in Content
        OBVIOUS
      <4>1. Inc(tail) + i - 1 \in Int
        BY <1>1, <3>1, IncValue DEF Index
      <4> QED
        BY <4>1, SlotInRange DEF IInv, TypeOK
    <3>3. Contents' = [i \in 1 .. Dist(head', tail') |-> buffer[Slot(Inc(tail) + i - 1)]]
      BY <1>1 DEF Contents
    <3> QED
      BY <1>6, <3>1, <3>2, <3>3
  <2>2. /\ Contents \in Seq(Content) /\ Contents # << >>
        /\ Len(Contents) = Dist(head, tail)
    BY <1>2, <1>4, ContentsIsSeq DEF Index
  <2>3. /\ Tail(Contents) \in Seq(Content)
        /\ Len(Tail(Contents)) = Dist(head, tail) - 1
        /\ \A i \in 1 .. (Dist(head, tail) - 1) : Tail(Contents)[i] = Contents[i + 1]
    BY <2>2, HeadTailProperties
  <2>4. \A i \in 1 .. Len(Contents') : Contents'[i] = Tail(Contents)[i]
    <3> SUFFICES ASSUME NEW i \in 1 .. (Dist(head, tail) - 1)
                 PROVE  Contents'[i] = Tail(Contents)[i]
      BY <2>1
    <3>1. i \in Nat /\ i + 1 \in 1 .. Dist(head, tail)
      BY <1>2 DEF Index
    <3>2. Contents[i + 1] = buffer[Slot(tail + (i + 1) - 1)]
      BY <3>1, ContentsIsSeq
    <3> QED
      BY <1>7, <2>1, <2>3, <3>1, <3>2
  <2> QED
    BY <2>1, <2>3, <2>4, SameSeq
<1>10. Dist(headView, tail) > 0
  BY <1>2, <1>3 DEF Index
<1> QED
  BY <1>1, <1>6, <1>8, <1>9, <1>10 DEF Fifo!Pop
-----------------------------------------------------------------------------
(***************************************************************************)
(* Every step of the ring buffer is a step of BoundedFifo or changes       *)
(* nothing that BoundedFifo has.                                           *)
(***************************************************************************)
LEMMA StepRefines ==
    IInv /\ IInv' /\ [Next]_vars => [Fifo!Next]_(Fifo!vars)
<1> SUFFICES ASSUME IInv, IInv', [Next]_vars PROVE [Fifo!Next]_(Fifo!vars)
  OBVIOUS
<1>1. CASE PushFull
  BY <1>1, PushFullRefines DEF Fifo!Next
<1>2. ASSUME NEW m \in Msg, PushClaim(m) PROVE Fifo!NoticePops
  BY <1>2, TailLoadRefines DEF PushClaim, LoadTail, members, consumer
<1>3. CASE PushWrite
  BY <1>3, PushWriteRefines
<1>4. CASE PushStore
  <2>1. msg \in Content
    BY DEF IInv, TypeOK
  <2> QED
    BY <1>4, <2>1, PushStoreRefines DEF Fifo!Next
<1>5. ASSUME TestFull \/ ProducerSize PROVE Fifo!NoticePops
  BY <1>5, TailLoadRefines DEF TestFull, ProducerSize, LoadTail, members, consumer
<1>6. CASE PopEmpty
  BY <1>6, PopEmptyRefines DEF Fifo!Next
<1>7. ASSUME PopClaim \/ TestEmpty \/ ConsumerSize PROVE Fifo!NoticePushes
  BY <1>7, HeadLoadRefines
     DEF PopClaim, TestEmpty, ConsumerSize, LoadHead, members, producer
<1>8. CASE PopStore
  BY <1>8, PopStoreRefines DEF Fifo!Next
<1>9. ASSUME PopRead \/ UNCHANGED vars PROVE UNCHANGED Fifo!vars
  <2>1. UNCHANGED <<buffer, head, tail, tailView, headView, pushed, popped>>
    BY <1>9 DEF PopRead, vars, members, producer, consumer
  <2>2. Contents' = Contents
    BY <2>1 DEF Contents
  <2> QED
    BY <2>1, <2>2 DEF Fifo!vars
<1> QED
  BY <1>1, <1>2, <1>3, <1>4, <1>5, <1>6, <1>7, <1>8, <1>9
     DEF Next, Produce, Consume, Fifo!Next

(***************************************************************************)
(* The ring buffer implements the bounded FIFO.                            *)
(***************************************************************************)
THEOREM Refinement == Spec => ImplementsFifo
<1> QED
  BY InitRefines, StepRefines, Invariance, PTL DEF Spec, ImplementsFifo, Fifo!Spec
=============================================================================
