----------------------------- MODULE SpscQueue -----------------------------
(***************************************************************************)
(* SPSC_NonBlocking<T, BufferSize> (src/src/lib/spsc_queue.hpp): a ring    *)
(* buffer shared by one producer thread and one consumer thread.           *)
(*                                                                         *)
(* head and tail are 64-bit counters that wrap (RingIndex).  Each is       *)
(* written by one side and read by the other.  A load of the other         *)
(* side's counter may return any value from the last one this thread saw   *)
(* up to the current one (C++ read coherence): tailView is the producer's  *)
(* latest view of tail and headView the consumer's of head.  An acquire    *)
(* load that reads a release store also orders the slot accesses made      *)
(* before that store: tailSync is the tail value up to which the           *)
(* consumer's slot reads happen before the producer's next step, headSync  *)
(* the head value up to which the producer's slot writes happen before the *)
(* consumer's.                                                             *)
(***************************************************************************)
EXTENDS RingIndex, Sequences

CONSTANTS Msg,          \* the messages callers push
          NoMsg         \* T{}, the initial content of every slot

VARIABLES buffer, head, tail,           \* the members of the class
          ppc, msg, tailView, tailSync, \* the producer: inside push, or idle
          cpc, out, headView, headSync, \* the consumer: inside pop, or idle
          pushed, popped,               \* what the last push and pop returned
          room,   \* history: pushes that an earlier full() or size() promised
          items   \* history: pops that an earlier empty() or size() promised

members  == <<buffer, head, tail>>
producer == <<ppc, msg, tailView, tailSync, pushed, room>>
consumer == <<cpc, out, headView, headSync, popped, items>>
vars     == <<members, producer, consumer>>

Content == Msg \cup {NoMsg}

\* empty_, full_ and the value of size().  Before each definition that is
\* mutated stands its mutant: a comparison that forgets the wrap, a test that
\* is one too late, a size that is masked.
IsEmptyOrdered(h, t) == h <= t
IsEmpty(h, t)        == h = t

IsFullLate(h, t) == Dist(h, t) > BufferSize
IsFull(h, t)     == Dist(h, t) = BufferSize

SizeMasked(h, t) == Dist(h, t) % BufferSize
Size(h, t)       == Dist(h, t)

\* The memory order of each access to a counter of the other side.
\* (Mutant: the store of tail is relaxed.)
PushLoadOrder  == "acquire"
PushStoreOrder == "release"
PopLoadOrder   == "acquire"
PopStoreRelaxed == "relaxed"
PopStoreOrder  == "release"
TestLoadOrder  == "relaxed"
SizeLoadOrder  == "acquire"

Synced(load, store, old, value) ==
    IF load = "acquire" /\ store = "release" THEN value ELSE old

\* What a load may return: nothing older than what this thread already saw.
TailValues == {t \in Index : Dist(tail, t) <= Dist(tail, tailView)}
HeadValues == {h \in Index : Dist(head, h) <= Dist(head, headView)}

LoadTail(order, t) ==
    /\ tailView' = t
    /\ tailSync' = Synced(order, PopStoreOrder, tailSync, t)

LoadHead(order, h) ==
    /\ headView' = h
    /\ headSync' = Synced(order, PushStoreOrder, headSync, h)

Larger(a, b)  == IF a >= b THEN a ELSE b
OneLess(n)    == IF n > 0 THEN n - 1 ELSE 0
-----------------------------------------------------------------------------
Init == /\ buffer = [s \in Slots |-> NoMsg]
        /\ head = 0 /\ tail = 0
        /\ ppc = "idle" /\ msg = NoMsg /\ tailView = 0 /\ tailSync = 0
        /\ cpc = "idle" /\ out = NoMsg /\ headView = 0 /\ headSync = 0
        /\ pushed = FALSE /\ popped = << >>
        /\ room = 0 /\ items = 0

(***************************************************************************)
(* push: load both counters and test, copy into the slot, publish head.    *)
(* The producer is the only writer of head, so its own load is exact.      *)
(***************************************************************************)
PushFull ==
    /\ ppc = "idle"
    /\ \E t \in TailValues : IsFull(head, t) /\ LoadTail(PushLoadOrder, t)
    /\ pushed' = FALSE
    /\ UNCHANGED <<members, ppc, msg, room, consumer>>

PushClaim(m) ==
    /\ ppc = "idle"
    /\ \E t \in TailValues : ~IsFull(head, t) /\ LoadTail(PushLoadOrder, t)
    /\ msg' = m
    /\ ppc' = "write"
    /\ UNCHANGED <<members, pushed, room, consumer>>

\* Mutant: the slot after the claimed one is written.
PushWriteNext ==
    /\ ppc = "write"
    /\ buffer' = [buffer EXCEPT ![Slot(Inc(head))] = msg]
    /\ ppc' = "store"
    /\ UNCHANGED <<head, tail, msg, tailView, tailSync, pushed, room, consumer>>

PushWrite ==
    /\ ppc = "write"
    /\ buffer' = [buffer EXCEPT ![Slot(head)] = msg]
    /\ ppc' = "store"
    /\ UNCHANGED <<head, tail, msg, tailView, tailSync, pushed, room, consumer>>

PushStore ==
    /\ ppc = "store"
    /\ head' = Inc(head)
    /\ pushed' = TRUE
    /\ room' = OneLess(room)
    /\ ppc' = "idle"
    /\ UNCHANGED <<buffer, tail, msg, tailView, tailSync, consumer>>

(***************************************************************************)
(* pop: load both counters and test, copy out of the slot, publish tail.   *)
(***************************************************************************)
PopEmpty ==
    /\ cpc = "idle"
    /\ \E h \in HeadValues : IsEmpty(h, tail) /\ LoadHead(PopLoadOrder, h)
    /\ popped' = << >>
    /\ UNCHANGED <<members, cpc, out, items, producer>>

PopClaim ==
    /\ cpc = "idle"
    /\ \E h \in HeadValues : ~IsEmpty(h, tail) /\ LoadHead(PopLoadOrder, h)
    /\ cpc' = "read"
    /\ UNCHANGED <<members, out, popped, items, producer>>

PopRead ==
    /\ cpc = "read"
    /\ out' = buffer[Slot(tail)]
    /\ cpc' = "store"
    /\ UNCHANGED <<members, headView, headSync, popped, items, producer>>

PopStore ==
    /\ cpc = "store"
    /\ tail' = Inc(tail)
    /\ popped' = <<out>>
    /\ items' = OneLess(items)
    /\ cpc' = "idle"
    /\ UNCHANGED <<buffer, head, out, headView, headSync, producer>>

(***************************************************************************)
(* full() and size() called by the producer, empty() and size() by the     *)
(* consumer.  room and items keep what the answer promises the caller.     *)
(***************************************************************************)
TestFull ==
    /\ ppc = "idle"
    /\ \E t \in TailValues :
          /\ LoadTail(TestLoadOrder, t)
          /\ room' = IF IsFull(head, t) THEN room ELSE Larger(room, 1)
    /\ UNCHANGED <<members, ppc, msg, pushed, consumer>>

ProducerSize ==
    /\ ppc = "idle"
    /\ \E t \in TailValues :
          /\ LoadTail(SizeLoadOrder, t)
          /\ room' = Larger(room, BufferSize - Size(head, t))
    /\ UNCHANGED <<members, ppc, msg, pushed, consumer>>

TestEmpty ==
    /\ cpc = "idle"
    /\ \E h \in HeadValues :
          /\ LoadHead(TestLoadOrder, h)
          /\ items' = IF IsEmpty(h, tail) THEN items ELSE Larger(items, 1)
    /\ UNCHANGED <<members, cpc, out, popped, producer>>

ConsumerSize ==
    /\ cpc = "idle"
    /\ \E h \in HeadValues :
          /\ LoadHead(SizeLoadOrder, h)
          /\ items' = Larger(items, Size(h, tail))
    /\ UNCHANGED <<members, cpc, out, popped, producer>>

Produce == \/ PushFull
           \/ \E m \in Msg : PushClaim(m)
           \/ PushWrite
           \/ PushStore
           \/ TestFull
           \/ ProducerSize

Consume == \/ PopEmpty
           \/ PopClaim
           \/ PopRead
           \/ PopStore
           \/ TestEmpty
           \/ ConsumerSize

Next == Produce \/ Consume

Spec == Init /\ [][Next]_vars

\* The consumer keeps calling pop, and a store becomes visible in finite time.
Fairness == WF_vars(PopClaim) /\ WF_vars(PopRead) /\ WF_vars(PopStore)

FairSpec == Spec /\ Fairness
-----------------------------------------------------------------------------
TypeOK ==
    /\ buffer \in [Slots -> Content]
    /\ head \in Index /\ tail \in Index
    /\ ppc \in {"idle", "write", "store"} /\ msg \in Content
    /\ cpc \in {"idle", "read", "store"} /\ out \in Content
    /\ tailView \in Index /\ tailSync \in Index
    /\ headView \in Index /\ headSync \in Index
    /\ pushed \in BOOLEAN
    /\ popped \in {<< >>} \cup {<<m>> : m \in Content}
    /\ room \in 0 .. BufferSize /\ items \in 0 .. BufferSize

(***************************************************************************)
(* The inductive invariant.  Around the ring the counters and views stand  *)
(* in the order tailView, tail, headView, head, within BufferSize steps    *)
(* (CounterOrder); a call that passed its test owns its slot until it      *)
(* publishes (ClaimsHeld); and what room and items promise is there        *)
(* (PromisesBacked).                                                       *)
(***************************************************************************)
CounterOrder ==
    /\ Dist(head, tailView) = Dist(head, tail) + Dist(tail, tailView)
    /\ Dist(head, tailView) <= BufferSize
    /\ Dist(head, tail) = Dist(head, headView) + Dist(headView, tail)

ClaimsHeld ==
    /\ ppc # "idle" => tailSync = tailView /\ Dist(head, tailView) < BufferSize
    /\ ppc = "store" => buffer[Slot(head)] = msg
    /\ cpc # "idle" => headSync = headView /\ headView # tail
    /\ cpc = "store" => out = buffer[Slot(tail)]

PromisesBacked ==
    /\ room + Dist(head, tailView) <= BufferSize
    /\ items <= Dist(headView, tail)

IInv == TypeOK /\ CounterOrder /\ ClaimsHeld /\ PromisesBacked

(***************************************************************************)
(* No data race on a slot (the plain accesses at lines 42 and 54): when    *)
(* the producer is about to overwrite the slot of index head, the          *)
(* consumer's read of its previous occupant, index head - BufferSize,      *)
(* happened before; when the consumer is about to read index tail, the     *)
(* producer's write of it happened before.  It fails if any one of the     *)
(* four memory orders of push and pop is relaxed.                          *)
(***************************************************************************)
SlotRaceFree ==
    /\ ppc = "write" => Dist(head, tailSync) < BufferSize
    /\ cpc = "read"  => Dist(headSync, tail) \in 1 .. BufferSize

(***************************************************************************)
(* An answer keeps its promise although it came from a stale relaxed load: *)
(* after full() said no, or size() said n, the producer's next push, or    *)
(* its next BufferSize - n pushes, are not refused, whatever the consumer  *)
(* did meanwhile.                                                          *)
(***************************************************************************)
PushPromiseKept == [][PushFull => room = 0]_vars

(***************************************************************************)
(* After empty() said no, or size() said n, the consumer's next pop, or    *)
(* its next n pops, find a message.                                        *)
(***************************************************************************)
PopPromiseKept == [][PopEmpty => items = 0]_vars

(***************************************************************************)
(* The ring buffer implements BoundedFifo: nothing is lost, duplicated or  *)
(* reordered, and "full" and "empty" are only answered when BoundedFifo    *)
(* may.  The queue is what lies between tail and head.                     *)
(***************************************************************************)
Contents == [i \in 1 .. Dist(head, tail) |-> buffer[Slot(tail + i - 1)]]

Fifo == INSTANCE BoundedFifo WITH q        <- Contents,
                                  seen     <- Dist(headView, tail),
                                  lag      <- Dist(tail, tailView),
                                  Msg      <- Content,
                                  Capacity <- BufferSize

ImplementsFifo == Fifo!Spec

(***************************************************************************)
(* A published message is popped, even if the producer never calls again:  *)
(* tail moves past every index below head.                                 *)
(***************************************************************************)
EveryMessagePopped == \A i \in Index : (tail = i /\ head # i) ~> tail # i
=============================================================================
