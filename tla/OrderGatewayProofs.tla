------------------------- MODULE OrderGatewayProofs -------------------------
(***************************************************************************)
(* OrderGateway for every set of users and symbols and all queue sizes.    *)
(* The first part shows that the invariant IInv of the ring and the queues *)
(* is inductive.  The second follows the orders, with FlowInv: as long as  *)
(* no two pushes overlap, none is lost, duplicated or overtaken by a later *)
(* one of its user, the process terminates only under overload, and every  *)
(* step is one OrderContract allows or leaves the orders where they are.   *)
(* The third is GatewayLifetime: a gateway with its constructor and        *)
(* destructor is a gateway, since starting and joining threads adds        *)
(* nothing to what the threads can do, so that all of this holds while it  *)
(* is built and destroyed; and the destructor returns only after somebody  *)
(* stored quit_signal.                                                     *)
(***************************************************************************)
EXTENDS GatewayLifetime, RingIndexProofs, SequenceTheorems, FiniteSetTheorems

(***************************************************************************)
(* The types of the parts of the state that a step leaves alone.           *)
(***************************************************************************)
LEMMA TypeFrame ==
    /\ IngressTypeOK /\ UNCHANGED ingress => IngressTypeOK'
    /\ UserTypeOK /\ UNCHANGED user => UserTypeOK'
    /\ RouterTypeOK /\ UNCHANGED router => RouterTypeOK'
    /\ SymbolTypeOK /\ UNCHANGED symbol => SymbolTypeOK'
    /\ ResponseTypeOK /\ UNCHANGED response => ResponseTypeOK'
    /\ LifeTypeOK /\ UNCHANGED life => LifeTypeOK'
<1>1. IngressTypeOK /\ UNCHANGED ingress => IngressTypeOK'
  BY DEF IngressTypeOK, ingress
<1>2. UserTypeOK /\ UNCHANGED user => UserTypeOK'
  BY DEF UserTypeOK, user
<1>3. RouterTypeOK /\ UNCHANGED router => RouterTypeOK'
  BY DEF RouterTypeOK, router
<1>4. SymbolTypeOK /\ UNCHANGED symbol => SymbolTypeOK'
  BY DEF SymbolTypeOK, symbol
<1>5. ResponseTypeOK /\ UNCHANGED response => ResponseTypeOK'
  BY DEF ResponseTypeOK, response
<1>6. LifeTypeOK /\ UNCHANGED life => LifeTypeOK'
  BY DEF LifeTypeOK, life
<1> QED
  BY <1>1, <1>2, <1>3, <1>4, <1>5, <1>6

(***************************************************************************)
(* The rest of the invariant speaks of the ring, the users and the place   *)
(* of the ingress thread only.                                             *)
(***************************************************************************)
LEMMA RestFrame ==
    ASSUME IdTaken, AlonePushing, RingBounded,
           UNCHANGED <<ingress, user>>, ipc' \in {ipc, "loop", "route"}
    PROVE  IdTaken' /\ AlonePushing' /\ RingBounded'
<1> USE DEF ingress, user, Pushing
<1>1. IdTaken'
  BY DEF IdTaken
<1>2. AlonePushing'
  BY DEF AlonePushing
<1>3. RingBounded'
  BY DEF RingBounded
<1> QED
  BY <1>1, <1>2, <1>3

(***************************************************************************)
(* Message{} is a message; a message keeps its type when a part of it is   *)
(* overwritten.                                                            *)
(***************************************************************************)
LEMMA MessageParts ==
    /\ NoMessage \in Message
    /\ \A m \in Message, u \in Users, s \in Symbols \cup {Invalid} :
          [m EXCEPT !.conn = u, !.symbol = s] \in Message
    /\ \A m \in Message, o \in Order \cup {NoOrder} : [m EXCEPT !.order = o] \in Message
  BY GatewayAssumption DEF Message, NoMessage

(***************************************************************************)
(* The gateway starts with empty queues and idle threads.                  *)
(***************************************************************************)
LEMMA InitIInv == Init => IInv
<1> SUFFICES ASSUME Init PROVE IInv
  OBVIOUS
<1> USE GatewayAssumption DEF Init
<1>1. 0 \in Index /\ Dist(0, 0) = 0
  <2>1. 0 \in Index
    BY Sizes DEF Index
  <2> QED
    BY <2>1, DistZero
<1>2. IngressTypeOK
  BY <1>1, MessageParts DEF IngressTypeOK
<1>3. UserTypeOK
  <2>1. nextId \in [Users -> 0 .. MaxOrders]
    OBVIOUS
  <2>2. uhead \in [Users -> Index] /\ acked \subseteq Order /\ raced \in BOOLEAN
    BY <1>1
  <2>3. upc \in [Users -> {"loop", "test", "header", "order", "store"}]
    OBVIOUS
  <2> QED
    BY <2>1, <2>2, <2>3 DEF UserTypeOK
<1>4. RouterTypeOK
  BY MessageParts DEF RouterTypeOK
<1>5. SymbolTypeOK
  BY DEF SymbolTypeOK
<1>6. ResponseTypeOK
  BY DEF ResponseTypeOK
<1>7. LifeTypeOK
  BY DEF LifeTypeOK
<1>8. IdTaken /\ AlonePushing /\ RingBounded
  BY <1>1, Sizes DEF IdTaken, AlonePushing, RingBounded, Pushing
<1> QED
  BY <1>2, <1>3, <1>4, <1>5, <1>6, <1>7, <1>8 DEF IInv, TypeOK
-----------------------------------------------------------------------------
(***************************************************************************)
(* A push begins: an id is taken and head loaded.  If that makes two       *)
(* pushes overlap, raced says so.                                          *)
(***************************************************************************)
LEMMA UserBeginKeepsIInv ==
    ASSUME IInv, NEW u \in Users, UserBegin(u)
    PROVE  IInv'
<1>1. /\ nextId[u] \in 0 .. MaxOrders /\ nextId[u] + 1 \in 0 .. MaxOrders
      /\ nextId' = [nextId EXCEPT ![u] = @ + 1]
      /\ nextId \in [Users -> 0 .. MaxOrders]
  BY GatewayAssumption DEF IInv, TypeOK, UserTypeOK, UserBegin
<1>2. UserTypeOK'
  <2>1. uhead' \in [Users -> Index]
    BY DEF UserBegin, IInv, TypeOK, UserTypeOK, IngressTypeOK
  <2>2. upc' \in [Users -> {"loop", "test", "header", "order", "store"}]
    BY DEF UserBegin, IInv, TypeOK, UserTypeOK
  <2>3. nextId' \in [Users -> 0 .. MaxOrders]
    BY <1>1
  <2>4. raced' \in BOOLEAN /\ acked' \subseteq Order
    BY DEF UserBegin, IInv, TypeOK, UserTypeOK
  <2> QED
    BY <2>1, <2>2, <2>3, <2>4 DEF UserTypeOK
<1>3. TypeOK'
  BY <1>2, TypeFrame DEF IInv, TypeOK, UserBegin
<1>4. IdTaken'
  <2> SUFFICES ASSUME NEW v \in Users, Pushing(v)' PROVE nextId'[v] > 0
    BY DEF IdTaken
  <2>1. CASE v = u
    BY <1>1, <2>1
  <2>2. CASE v # u
    <3>1. Pushing(v) /\ nextId'[v] = nextId[v]
      BY <1>1, <2>2 DEF Pushing, UserBegin, IInv, TypeOK, UserTypeOK
    <3> QED
      BY <3>1 DEF IInv, IdTaken
  <2> QED
    BY <2>1, <2>2
<1>5. AlonePushing'
  BY DEF UserBegin, ingress, IInv, AlonePushing, Pushing, TypeOK, UserTypeOK
<1>6. RingBounded'
  BY DEF UserBegin, ingress, router, IInv, RingBounded, TypeOK, UserTypeOK
<1> QED
  BY <1>3, <1>4, <1>5, <1>6 DEF IInv

(***************************************************************************)
(* The test of push.  Alone, it compares the true head with a tail that    *)
(* can only move away from full.                                           *)
(***************************************************************************)
LEMMA UserTestKeepsIInv ==
    ASSUME IInv, NEW u \in Users, UserTest(u)
    PROVE  IInv'
<1>1. /\ upc \in [Users -> {"loop", "test", "header", "order", "store"}]
      /\ upc[u] = "test"
      /\ UNCHANGED <<ring, head, tail, uhead, nextId, acked, raced, ipc>>
  BY DEF UserTest, IInv, TypeOK, UserTypeOK, ingress, router
<1>2. \/ upc' = [upc EXCEPT ![u] = "loop"]
      \/ upc' = [upc EXCEPT ![u] = "header"] /\ Dist(uhead[u], tail) # BufferSize
  BY DEF UserTest
<1>3. TypeOK'
  <2>1. UserTypeOK'
    BY <1>1, <1>2 DEF IInv, TypeOK, UserTypeOK
  <2> QED
    BY <2>1, TypeFrame DEF IInv, TypeOK, UserTest
<1>4. IdTaken'
  BY <1>1, <1>2 DEF IInv, IdTaken, Pushing
<1>5. AlonePushing'
  BY <1>1, <1>2 DEF IInv, AlonePushing, Pushing
<1>6. RingBounded'
  <2> SUFFICES ASSUME ~raced PROVE RingBounded'
    BY <1>1 DEF RingBounded
  <2>1. Dist(head, tail) \in Index /\ Dist(head, tail) <= BufferSize
    BY DistValue DEF IInv, TypeOK, IngressTypeOK, RingBounded
  <2>2. CASE upc' = [upc EXCEPT ![u] = "loop"]
    BY <1>1, <2>2 DEF IInv, RingBounded
  <2>3. CASE upc' = [upc EXCEPT ![u] = "header"] /\ Dist(uhead[u], tail) # BufferSize
    <3>1. uhead[u] = head
      BY <1>1 DEF IInv, AlonePushing, Pushing
    <3>2. Dist(head, tail) < BufferSize
      BY <2>1, <2>3, <3>1, Sizes DEF Index
    <3> QED
      BY <1>1, <2>1, <3>2 DEF IInv, RingBounded
  <2> QED
    BY <1>2, <2>2, <2>3
<1> QED
  BY <1>3, <1>4, <1>5, <1>6 DEF IInv

(***************************************************************************)
(* The two parts of the copy into the slot.                                *)
(***************************************************************************)
LEMMA UserWriteKeepsIInv ==
    ASSUME IInv, NEW u \in Users, UserWriteHeader(u) \/ UserWriteOrder(u)
    PROVE  IInv'
<1>1. /\ upc \in [Users -> {"loop", "test", "header", "order", "store"}]
      /\ upc[u] \in {"header", "order"}
      /\ upc' = [upc EXCEPT ![u] = "order"] \/ upc' = [upc EXCEPT ![u] = "store"]
      /\ UNCHANGED <<head, tail, uhead, nextId, acked, raced, ipc>>
  BY DEF UserWriteHeader, UserWriteOrder, IInv, TypeOK, UserTypeOK, router
<1>2. /\ Slot(uhead[u]) \in Slots
      /\ ring \in [Slots -> Message] /\ ring[Slot(uhead[u])] \in Message
  <2>1. uhead[u] \in Int
    BY DEF IInv, TypeOK, UserTypeOK, Index
  <2> QED
    BY <2>1, SlotInRange DEF IInv, TypeOK, IngressTypeOK
<1>3. ring' \in [Slots -> Message]
  <2>1. CASE UserWriteHeader(u)
    <3>1. SymbolOf[u] \in Symbols \cup {Invalid}
      BY GatewayAssumption
    <3>2. ring' = [ring EXCEPT ![Slot(uhead[u])] =
                      [ring[Slot(uhead[u])] EXCEPT !.conn = u, !.symbol = SymbolOf[u]]]
      BY <1>2, <2>1 DEF UserWriteHeader, Message
    <3> QED
      BY <1>2, <3>1, <3>2, MessageParts
  <2>2. CASE UserWriteOrder(u)
    <3>1. CurrentOrder(u) \in Order
      <4>1. nextId[u] \in 0 .. MaxOrders /\ nextId[u] > 0
        BY <1>1 DEF IInv, TypeOK, UserTypeOK, IdTaken, Pushing
      <4>2. nextId[u] - 1 \in OrderId
        BY <4>1, GatewayAssumption DEF OrderId
      <4> QED
        BY <4>2 DEF CurrentOrder, Order
    <3>2. ring' = [ring EXCEPT ![Slot(uhead[u])] =
                      [ring[Slot(uhead[u])] EXCEPT !.order = CurrentOrder(u)]]
      BY <2>2 DEF UserWriteOrder
    <3> QED
      BY <1>2, <3>1, <3>2, MessageParts
  <2> QED
    BY <2>1, <2>2
<1>4. TypeOK'
  <2>1. IngressTypeOK' /\ UserTypeOK'
    BY <1>1, <1>3 DEF IInv, TypeOK, IngressTypeOK, UserTypeOK
  <2> QED
    BY <2>1, TypeFrame DEF IInv, TypeOK, UserWriteHeader, UserWriteOrder
<1>5. IdTaken'
  BY <1>1 DEF IInv, IdTaken, Pushing
<1>6. AlonePushing'
  BY <1>1 DEF IInv, AlonePushing, Pushing
<1>7. RingBounded'
  BY <1>1 DEF IInv, RingBounded
<1> QED
  BY <1>4, <1>5, <1>6, <1>7 DEF IInv

(***************************************************************************)
(* The store of head.  Alone, it adds one message to a ring with room.     *)
(***************************************************************************)
LEMMA UserStoreKeepsIInv ==
    ASSUME IInv, NEW u \in Users, UserStore(u)
    PROVE  IInv'
<1>1. /\ upc \in [Users -> {"loop", "test", "header", "order", "store"}]
      /\ upc[u] = "store"
      /\ upc' = [upc EXCEPT ![u] = "loop"]
      /\ head' = Inc(uhead[u])
      /\ UNCHANGED <<ring, tail, uhead, nextId, raced, ipc>>
  BY DEF UserStore, IInv, TypeOK, UserTypeOK, router
<1>2. head \in Index /\ tail \in Index /\ uhead[u] \in Index
  BY DEF IInv, TypeOK, IngressTypeOK, UserTypeOK
<1>3. TypeOK'
  <2>1. CurrentOrder(u) \in Order
    <3>1. nextId[u] \in 0 .. MaxOrders /\ nextId[u] > 0
      BY <1>1 DEF IInv, TypeOK, UserTypeOK, IdTaken, Pushing
    <3>2. nextId[u] - 1 \in OrderId
      BY <3>1, GatewayAssumption DEF OrderId
    <3> QED
      BY <3>2 DEF CurrentOrder, Order
  <2>2. UserTypeOK'
    BY <1>1, <2>1 DEF UserStore, IInv, TypeOK, UserTypeOK
  <2>3. IngressTypeOK'
    BY <1>1, <1>2, IncValue DEF IInv, TypeOK, IngressTypeOK
  <2> QED
    BY <2>2, <2>3, TypeFrame DEF IInv, TypeOK, UserStore
<1>4. IdTaken'
  BY <1>1 DEF IInv, IdTaken, Pushing
<1>5. AlonePushing'
  BY <1>1 DEF IInv, AlonePushing, Pushing
<1>6. RingBounded'
  <2> SUFFICES ASSUME ~raced PROVE RingBounded'
    BY <1>1 DEF RingBounded
  <2>1. /\ uhead[u] = head
        /\ \A v \in Users : upc[v] # "loop" => v = u
    BY <1>1 DEF IInv, AlonePushing, Pushing
  <2>2. Dist(head, tail) \in Index /\ Dist(head, tail) < BufferSize
    BY <1>1, <1>2, DistValue DEF IInv, RingBounded
  <2>3. Dist(head', tail) = Dist(head, tail) + 1
    BY <1>1, <1>2, <2>1, <2>2, DistIncAhead, Sizes DEF Index
  <2>4. Dist(head', tail) <= BufferSize
    BY <2>2, <2>3, Sizes DEF Index
  <2>5. head' # tail
    <3>1. head' \in Index /\ Dist(head', tail) # 0
      BY <1>1, <1>2, <2>2, <2>3, IncValue DEF Index
    <3> QED
      BY <1>2, <3>1, DistZero
  <2>6. \A v \in Users : upc'[v] = "loop"
    BY <1>1, <2>1
  <2> QED
    BY <1>1, <2>4, <2>5, <2>6 DEF RingBounded
<1> QED
  BY <1>3, <1>4, <1>5, <1>6 DEF IInv
-----------------------------------------------------------------------------
(***************************************************************************)
(* The ingress thread finds a message, and copies it in two parts.  Only   *)
(* it moves tail, so the message stays there until it is done.             *)
(***************************************************************************)
LEMMA IngressPollKeepsIInv ==
    ASSUME IInv, IngressPoll
    PROVE  IInv'
<1>1. /\ head # tail
      /\ ipc' = "header"
      /\ UNCHANGED <<head, tail, uhead, upc, nextId, raced, tmp>>
  BY DEF IngressPoll, ingress, user
<1>2. RouterTypeOK'
  BY <1>1 DEF IInv, TypeOK, RouterTypeOK
<1>3. TypeOK'
  BY <1>2, TypeFrame DEF IInv, TypeOK, IngressPoll
<1>4. IdTaken' /\ AlonePushing'
  BY <1>1 DEF IInv, IdTaken, AlonePushing, Pushing
<1>5. RingBounded'
  BY <1>1 DEF IInv, RingBounded
<1> QED
  BY <1>3, <1>4, <1>5 DEF IInv

LEMMA IngressReadKeepsIInv ==
    ASSUME IInv, IngressReadHeader \/ IngressReadOrder
    PROVE  IInv'
<1>1. /\ ipc \in {"header", "order"}
      /\ ipc' \in {"order", "store"}
      /\ UNCHANGED <<head, tail, uhead, upc, nextId, raced>>
  BY DEF IngressReadHeader, IngressReadOrder, ingress, user
<1>2. tmp \in Message /\ ring[Slot(tail)] \in Message
  <2>1. tail \in Int
    BY DEF IInv, TypeOK, IngressTypeOK, Index
  <2> QED
    BY <2>1, SlotInRange DEF IInv, TypeOK, IngressTypeOK, RouterTypeOK
<1>3. tmp' \in Message
  <2>1. /\ ring[Slot(tail)].conn \in Users
        /\ ring[Slot(tail)].symbol \in Symbols \cup {Invalid}
        /\ ring[Slot(tail)].order \in Order \cup {NoOrder}
    BY <1>2 DEF Message
  <2>2. CASE IngressReadHeader
    <3>1. tmp' = [tmp EXCEPT !.conn = ring[Slot(tail)].conn,
                             !.symbol = ring[Slot(tail)].symbol]
      BY <2>2 DEF IngressReadHeader
    <3> QED
      BY <1>2, <2>1, <3>1, MessageParts
  <2>3. CASE IngressReadOrder
    <3>1. tmp' = [tmp EXCEPT !.order = ring[Slot(tail)].order]
      BY <2>3 DEF IngressReadOrder
    <3> QED
      BY <1>2, <2>1, <3>1, MessageParts
  <2> QED
    BY <2>2, <2>3
<1>4. RouterTypeOK'
  BY <1>1, <1>3 DEF RouterTypeOK
<1>5. TypeOK'
  BY <1>4, TypeFrame DEF IInv, TypeOK, IngressReadHeader, IngressReadOrder
<1>6. IdTaken' /\ AlonePushing'
  BY <1>1 DEF IInv, IdTaken, AlonePushing, Pushing
<1>7. RingBounded'
  BY <1>1 DEF IInv, RingBounded
<1> QED
  BY <1>5, <1>6, <1>7 DEF IInv

(***************************************************************************)
(* The store of tail takes one message from a ring that has one.           *)
(***************************************************************************)
LEMMA IngressStoreKeepsIInv ==
    ASSUME IInv, IngressStore
    PROVE  IInv'
<1>1. /\ ipc = "store"
      /\ ipc' = "route"
      /\ tail' = Inc(tail)
      /\ UNCHANGED <<ring, head, uhead, upc, nextId, raced, tmp>>
  BY DEF IngressStore, user
<1>2. head \in Index /\ tail \in Index /\ tail' \in Index
  BY <1>1, IncValue DEF IInv, TypeOK, IngressTypeOK
<1>3. TypeOK'
  <2>1. IngressTypeOK' /\ RouterTypeOK'
    BY <1>1, <1>2 DEF IInv, TypeOK, IngressTypeOK, RouterTypeOK
  <2> QED
    BY <2>1, TypeFrame DEF IInv, TypeOK, IngressStore
<1>4. IdTaken' /\ AlonePushing'
  BY <1>1 DEF IInv, IdTaken, AlonePushing, Pushing
<1>5. RingBounded'
  <2> SUFFICES ASSUME ~raced PROVE RingBounded'
    BY <1>1 DEF RingBounded
  <2>1. head # tail
    BY <1>1 DEF IInv, RingBounded
  <2>2. Dist(head', tail') = Dist(head, tail) - 1
    BY <1>1, <1>2, <2>1, DistIncBehind
  <2>3. /\ Dist(head, tail) \in Index
        /\ Dist(head, tail) <= BufferSize
        /\ \A u \in Users : upc[u] \in {"header", "order", "store"} =>
                               Dist(head, tail) < BufferSize
    BY <1>2, DistValue DEF IInv, RingBounded
  <2>4. Dist(head', tail') < BufferSize
    BY <2>2, <2>3, Sizes DEF Index
  <2>5. Dist(head', tail') <= BufferSize
    BY <2>2, <2>4, <2>3, Sizes DEF Index
  <2> QED
    BY <1>1, <2>4, <2>5 DEF RingBounded
<1> QED
  BY <1>3, <1>4, <1>5 DEF IInv
-----------------------------------------------------------------------------
(***************************************************************************)
(* A reject enters the response queue only if the queue has room; even     *)
(* Order{} has an id.                                                      *)
(***************************************************************************)
LEMMA RejectKeepsIInv ==
    ASSUME IInv, RejectInvalid \/ RejectFull
    PROVE  IInv'
<1>1. /\ ipc' = "loop" /\ tmp' = NoMessage
      /\ UNCHANGED <<ingress, user, symbol, told, quit, exited>>
      /\ SendReject(tmp)
  BY DEF RejectInvalid, RejectFull, Reject
<1>2. RouterTypeOK'
  BY <1>1, MessageParts DEF RouterTypeOK
<1>3. [conn |-> tmp.conn, id |-> tmp.order.id] \in Response
  <2>1. tmp.conn \in Users /\ tmp.order \in Order \cup {NoOrder}
    BY DEF IInv, TypeOK, RouterTypeOK, Message
  <2>2. NoOrder.id \in OrderId
    BY GatewayAssumption DEF NoOrder, OrderId
  <2>3. tmp.order.id \in OrderId
    BY <2>1, <2>2 DEF Order
  <2> QED
    BY <2>1, <2>3 DEF Response
<1>4. ResponseTypeOK' /\ LifeTypeOK'
  <2>1. PICK lag \in 0 .. respLag :
           /\ respLag' = lag
           /\ IF Len(respQ) + lag < ResponseSize
              THEN /\ respQ' = Append(respQ, [conn |-> tmp.conn, id |-> tmp.order.id])
                   /\ UNCHANGED terminated
              ELSE /\ terminated' = TRUE
                   /\ UNCHANGED respQ
    BY <1>1 DEF SendReject
  <2>2. /\ respQ \in Seq(Response) /\ Len(respQ) \in Nat
        /\ respLag \in Nat /\ lag \in Nat /\ lag <= respLag
        /\ Len(respQ) + respLag <= ResponseSize /\ told \in Seq(Response)
        /\ ResponseSize \in Nat
    BY GatewayAssumption DEF IInv, TypeOK, ResponseTypeOK
  <2>3. LifeTypeOK'
    BY <1>1, <2>1 DEF IInv, TypeOK, LifeTypeOK
  <2>4. CASE Len(respQ) + lag < ResponseSize
    <3>0. respQ' = Append(respQ, [conn |-> tmp.conn, id |-> tmp.order.id])
      BY <2>1, <2>4
    <3>1. respQ' \in Seq(Response) /\ Len(respQ') = Len(respQ) + 1
      BY <1>3, <2>2, <3>0
    <3>2. Len(respQ') + respLag' <= ResponseSize
      BY <2>1, <2>2, <2>4, <3>1
    <3> QED
      BY <1>1, <2>1, <2>2, <2>3, <3>1, <3>2 DEF ResponseTypeOK
  <2>5. CASE ~(Len(respQ) + lag < ResponseSize)
    <3>1. respQ' = respQ
      BY <2>1, <2>5
    <3>2. Len(respQ') + respLag' <= ResponseSize
      BY <2>1, <2>2, <3>1
    <3> QED
      BY <1>1, <2>1, <2>2, <2>3, <3>1, <3>2 DEF ResponseTypeOK
  <2> QED
    BY <2>4, <2>5
<1>5. TypeOK'
  BY <1>1, <1>2, <1>4, TypeFrame DEF IInv, TypeOK
<1> QED
  BY <1>1, <1>5, RestFrame DEF IInv

(***************************************************************************)
(* An order enters the queue of its symbol only if the queue has room.     *)
(***************************************************************************)
LEMMA RouteKeepsIInv ==
    ASSUME IInv, Route
    PROVE  IInv'
<1>1. /\ ipc' = "loop" /\ tmp' = NoMessage
      /\ tmp.symbol \in Symbols
      /\ symQ' = [symQ EXCEPT ![tmp.symbol] = Append(@, tmp.order)]
      /\ UNCHANGED <<ingress, user, processed, response, life>>
  BY DEF Route
<1>2. RouterTypeOK'
  BY <1>1, MessageParts DEF RouterTypeOK
<1>3. PICK lag \in 0 .. symLag[tmp.symbol] :
         /\ Len(symQ[tmp.symbol]) + lag < SymbolSize
         /\ symLag' = [symLag EXCEPT ![tmp.symbol] = lag]
  BY DEF Route
<1>4. /\ symQ \in [Symbols -> Seq(Order \cup {NoOrder})]
      /\ symLag \in [Symbols -> Nat]
      /\ \A s \in Symbols : Len(symQ[s]) + symLag[s] <= SymbolSize
      /\ processed \in [Symbols -> Seq(Order \cup {NoOrder})]
  BY DEF IInv, TypeOK, SymbolTypeOK
<1>5. tmp.order \in Order \cup {NoOrder}
  BY DEF IInv, TypeOK, RouterTypeOK, Message
<1>6. lag \in Nat
  BY <1>1, <1>4
<1>7. /\ Append(symQ[tmp.symbol], tmp.order) \in Seq(Order \cup {NoOrder})
      /\ Len(Append(symQ[tmp.symbol], tmp.order)) = Len(symQ[tmp.symbol]) + 1
      /\ Len(symQ[tmp.symbol]) \in Nat
  BY <1>1, <1>4, <1>5
<1>8. \A s \in Symbols : Len(symQ'[s]) + symLag'[s] <= SymbolSize
  <2> SUFFICES ASSUME NEW s \in Symbols
               PROVE  Len(symQ'[s]) + symLag'[s] <= SymbolSize
    OBVIOUS
  <2>1. CASE s = tmp.symbol
    <3>1. symQ'[s] = Append(symQ[tmp.symbol], tmp.order) /\ symLag'[s] = lag
      BY <1>1, <1>3, <1>4, <2>1
    <3> QED
      BY <1>3, <1>6, <1>7, <3>1, GatewayAssumption
  <2>2. CASE s # tmp.symbol
    BY <1>1, <1>3, <1>4, <2>2
  <2> QED
    BY <2>1, <2>2
<1>9. SymbolTypeOK'
  BY <1>1, <1>3, <1>4, <1>6, <1>7, <1>8 DEF SymbolTypeOK
<1>10. TypeOK'
  BY <1>1, <1>2, <1>9, TypeFrame DEF IInv, TypeOK
<1> QED
  BY <1>1, <1>10, RestFrame DEF IInv

(***************************************************************************)
(* A pop frees a slot that the producer may not have noticed yet.          *)
(***************************************************************************)
LEMMA SymbolWorkKeepsIInv ==
    ASSUME IInv, NEW s \in Symbols, SymbolWork(s)
    PROVE  IInv'
<1>1. /\ symQ[s] # << >>
      /\ processed' = [processed EXCEPT ![s] = Append(@, Head(symQ[s]))]
      /\ symQ' = [symQ EXCEPT ![s] = Tail(@)]
      /\ symLag' = [symLag EXCEPT ![s] = @ + 1]
      /\ UNCHANGED <<ingress, user, router, response, life>>
  BY DEF SymbolWork
<1>2. /\ symQ \in [Symbols -> Seq(Order \cup {NoOrder})]
      /\ symLag \in [Symbols -> Nat]
      /\ \A r \in Symbols : Len(symQ[r]) + symLag[r] <= SymbolSize
      /\ processed \in [Symbols -> Seq(Order \cup {NoOrder})]
  BY DEF IInv, TypeOK, SymbolTypeOK
<1>3. /\ Head(symQ[s]) \in Order \cup {NoOrder}
      /\ Tail(symQ[s]) \in Seq(Order \cup {NoOrder})
      /\ Len(Tail(symQ[s])) = Len(symQ[s]) - 1
      /\ Len(symQ[s]) \in Nat
  <2>1. symQ[s] \in Seq(Order \cup {NoOrder})
    BY <1>2
  <2> QED
    BY <1>1, <2>1, HeadTailProperties, LenProperties
<1>4. \A r \in Symbols : Len(symQ'[r]) + symLag'[r] <= SymbolSize
  <2> SUFFICES ASSUME NEW r \in Symbols
               PROVE  Len(symQ'[r]) + symLag'[r] <= SymbolSize
    OBVIOUS
  <2>1. CASE r = s
    <3>1. symQ'[r] = Tail(symQ[s]) /\ symLag'[r] = symLag[s] + 1
      BY <1>1, <1>2, <2>1
    <3>2. symLag[s] \in Nat /\ Len(symQ[s]) + symLag[s] <= SymbolSize
      BY <1>2
    <3> QED
      BY <1>3, <3>1, <3>2, GatewayAssumption
  <2>2. CASE r # s
    BY <1>1, <1>2, <2>2
  <2> QED
    BY <2>1, <2>2
<1>5. processed' \in [Symbols -> Seq(Order \cup {NoOrder})]
  <2>1. Append(processed[s], Head(symQ[s])) \in Seq(Order \cup {NoOrder})
    BY <1>2, <1>3
  <2> QED
    BY <1>1, <1>2, <2>1
<1>6. SymbolTypeOK'
  <2>1. symQ' \in [Symbols -> Seq(Order \cup {NoOrder})]
    BY <1>1, <1>2, <1>3
  <2>2. symLag' \in [Symbols -> Nat]
    BY <1>1, <1>2
  <2> QED
    BY <1>4, <1>5, <2>1, <2>2 DEF SymbolTypeOK
<1>7. TypeOK'
  BY <1>1, <1>6, TypeFrame DEF IInv, TypeOK
<1> QED
  BY <1>1, <1>7, RestFrame DEF IInv, router

LEMMA ResponseWorkKeepsIInv ==
    ASSUME IInv, ResponseWork
    PROVE  IInv'
<1>1. /\ respQ # << >>
      /\ told' = Append(told, Head(respQ))
      /\ respQ' = Tail(respQ)
      /\ respLag' = respLag + 1
      /\ UNCHANGED <<ingress, user, router, symbol, life>>
  BY DEF ResponseWork
<1>2. /\ respQ \in Seq(Response)
      /\ respLag \in Nat
      /\ Len(respQ) + respLag <= ResponseSize
      /\ told \in Seq(Response)
  BY DEF IInv, TypeOK, ResponseTypeOK
<1>3. /\ Head(respQ) \in Response
      /\ Tail(respQ) \in Seq(Response)
      /\ Len(Tail(respQ)) = Len(respQ) - 1
      /\ Len(respQ) \in Nat
  BY <1>1, <1>2, HeadTailProperties, LenProperties
<1>4. Len(respQ') + respLag' <= ResponseSize
  BY <1>1, <1>2, <1>3, GatewayAssumption
<1>5. ResponseTypeOK'
  BY <1>1, <1>2, <1>3, <1>4 DEF ResponseTypeOK
<1>6. TypeOK'
  BY <1>1, <1>5, TypeFrame DEF IInv, TypeOK
<1> QED
  BY <1>1, <1>6, RestFrame DEF IInv, router
-----------------------------------------------------------------------------
(***************************************************************************)
(* Shutting down leaves the queues as they are.                            *)
(***************************************************************************)
LEMMA ShutdownKeepsIInv ==
    ASSUME IInv, RaiseQuit \/ \E t \in Threads : Exit(t)
    PROVE  IInv'
<1>1. UNCHANGED <<ingress, user, router, symbol, response>>
  BY DEF RaiseQuit, Exit
<1>2. LifeTypeOK'
  BY DEF RaiseQuit, Exit, IInv, TypeOK, LifeTypeOK
<1>3. TypeOK'
  BY <1>1, <1>2, TypeFrame DEF IInv, TypeOK
<1> QED
  BY <1>1, <1>3, RestFrame DEF IInv, router

LEMMA StutterKeepsIInv ==
    ASSUME IInv, UNCHANGED vars
    PROVE  IInv'
<1>1. UNCHANGED <<ingress, user, router, symbol, response, life>>
  BY DEF vars
<1>2. TypeOK'
  BY <1>1, TypeFrame DEF IInv, TypeOK
<1> QED
  BY <1>1, <1>2, RestFrame DEF IInv, router

LEMMA NextKeepsIInv == IInv /\ [Next]_vars => IInv'
<1> SUFFICES ASSUME IInv, [Next]_vars PROVE IInv'
  OBVIOUS
<1>1. ASSUME NEW u \in Users, UserBegin(u) PROVE IInv'
  BY <1>1, UserBeginKeepsIInv
<1>2. ASSUME NEW u \in Users, Push(u) PROVE IInv'
  BY <1>2, UserTestKeepsIInv, UserWriteKeepsIInv, UserStoreKeepsIInv DEF Push
<1>3. CASE Router
  BY <1>3, IngressPollKeepsIInv, IngressReadKeepsIInv, IngressStoreKeepsIInv,
     RejectKeepsIInv, RouteKeepsIInv DEF Router
<1>4. ASSUME NEW s \in Symbols, SymbolWork(s) PROVE IInv'
  BY <1>4, SymbolWorkKeepsIInv
<1>5. CASE ResponseWork
  BY <1>5, ResponseWorkKeepsIInv
<1>6. CASE RaiseQuit \/ \E t \in Threads : Exit(t)
  BY <1>6, ShutdownKeepsIInv
<1>7. CASE UNCHANGED vars
  BY <1>7, StutterKeepsIInv
<1> QED
  BY <1>1, <1>2, <1>3, <1>4, <1>5, <1>6, <1>7 DEF Next

(***************************************************************************)
(* In every reachable state of a gateway with any number of users and      *)
(* symbols and any queue sizes: the symbol and response queues stay within *)
(* their capacity, even after pushes have overlapped; and until then a     *)
(* push under way is the only one, the ingress ring is never overfilled,   *)
(* and the slot it writes and the message being popped are really there.   *)
(***************************************************************************)
THEOREM GatewayInvariance == Spec => []IInv
<1>1. Init => IInv
  BY InitIInv
<1>2. IInv /\ [Next]_vars => IInv'
  BY NextKeepsIInv
<1> QED
  BY <1>1, <1>2, PTL DEF Spec
-----------------------------------------------------------------------------
(***************************************************************************)
(* The inductive invariant behind Conservation, InOrder,                   *)
(* TerminationNeedsOverload and ImplementsContract.  The ring holds whole  *)
(* messages between tail and head, the message being written or read is as *)
(* far as the program counters say (SlotsHold); no id is acknowledged      *)
(* before it is taken (AckedTaken); a consumer popped what its producer    *)
(* has not noticed (LagsPopped); and the acknowledged orders flow from     *)
(* Pending into one lane each, without overtaking (Flow).                  *)
(***************************************************************************)
WellFormed(m) == m.order \in Order /\ m.conn = m.order.from /\ m.symbol = SymbolOf[m.conn]

SlotsHold ==
    /\ \A i \in 1 .. Dist(head, tail) : WellFormed(ring[Slot(tail + i - 1)])
    /\ \A u \in Users : upc[u] \in {"order", "store"} =>
          ring[Slot(head)].conn = u /\ ring[Slot(head)].symbol = SymbolOf[u]
    /\ \A u \in Users : upc[u] = "store" => ring[Slot(head)].order = CurrentOrder(u)
    /\ ipc \in {"order", "store"} =>
          tmp.conn = ring[Slot(tail)].conn /\ tmp.symbol = ring[Slot(tail)].symbol
    /\ ipc = "store" => tmp.order = ring[Slot(tail)].order
    /\ ipc = "route" => WellFormed(tmp)

AckedTaken ==
    /\ IsFiniteSet(acked)
    /\ \A o \in acked :
          o.id < IF Pushing(o.from) THEN nextId[o.from] - 1 ELSE nextId[o.from]

LagsPopped ==
    /\ \A s \in Symbols : symLag[s] <= Len(processed[s])
    /\ respLag <= Len(told)

Orders(q)    == {q[i] : i \in DOMAIN q}
Before(q, r) == \A i \in DOMAIN q, j \in DOMAIN r : q[i].from = r[j].from => q[i].id < r[j].id

Flow(pending, lane, known, all) ==
    /\ pending \in Seq(Order) /\ lane \in [Lanes -> Seq(Order)]
    /\ \A u \in Users : Sorted(u, pending)
    /\ \A l \in Lanes : \A u \in Users : Sorted(u, lane[l])
    /\ \A l \in Lanes : Before(lane[l], pending)
    /\ \A l, k \in Lanes : l # k => Orders(lane[l]) \cap Orders(lane[k]) = {}
    /\ \A s \in Symbols : \A o \in Orders(lane[s]) : SymbolOf[o.from] = s
    /\ Orders(pending) \cup UNION {Orders(lane[l]) : l \in Lanes} \subseteq known
    /\ all => known \subseteq Orders(pending) \cup UNION {Orders(lane[l]) : l \in Lanes}

FlowInv ==
    /\ AckedTaken /\ LagsPopped /\ TerminationNeedsOverload
    /\ ~raced => SlotsHold /\ Flow(Pending, Lane, acked, ~terminated)

-----------------------------------------------------------------------------
(***************************************************************************)
(* What Append, Tail and concatenation do to the elements of a sequence.   *)
(***************************************************************************)
LEMMA AppendElements ==
    ASSUME NEW T, NEW q \in Seq(T), NEW e \in T
    PROVE  /\ Append(q, e) \in Seq(T)
           /\ Len(Append(q, e)) = Len(q) + 1
           /\ DOMAIN Append(q, e) = 1 .. (Len(q) + 1)
           /\ \A i \in 1 .. Len(q) : Append(q, e)[i] = q[i]
           /\ Append(q, e)[Len(q) + 1] = e
  OBVIOUS

LEMMA TailElements ==
    ASSUME NEW T, NEW q \in Seq(T), q # << >>
    PROVE  /\ Len(q) \in Nat \ {0}
           /\ Head(q) \in T /\ Head(q) = q[1]
           /\ Tail(q) \in Seq(T)
           /\ Len(Tail(q)) = Len(q) - 1
           /\ DOMAIN Tail(q) = 1 .. (Len(q) - 1)
           /\ \A i \in 1 .. (Len(q) - 1) : Tail(q)[i] = q[i + 1]
  BY HeadTailProperties, LenProperties

LEMMA ConcatAppend ==
    ASSUME NEW T, NEW q \in Seq(T), NEW r \in Seq(T), NEW e \in T
    PROVE  q \o Append(r, e) = Append(q \o r, e)
  BY ConcatAssociative, AppendIsConcat, ConcatProperties

LEMMA ConcatTail ==
    ASSUME NEW T, NEW q \in Seq(T), NEW r \in Seq(T), r # << >>
    PROVE  Append(q, Head(r)) \o Tail(r) = q \o r
<1>1. /\ Head(r) \in T /\ Tail(r) \in Seq(T) /\ r = <<Head(r)>> \o Tail(r)
  BY HeadTailProperties, HeadTailAppend, AppendIsConcat
<1>2. Append(q, Head(r)) = q \o <<Head(r)>>
  BY <1>1, AppendIsConcat
<1> QED
  BY <1>1, <1>2, ConcatAssociative

(***************************************************************************)
(* The orders of a sequence, when one joins at the end and when one leaves *)
(* at the front.                                                           *)
(***************************************************************************)
LEMMA OrdersAppend ==
    ASSUME NEW q \in Seq(Order), NEW e \in Order
    PROVE  Orders(Append(q, e)) = Orders(q) \cup {e}
<1>1. DOMAIN q = 1 .. Len(q) /\ Len(q) \in Nat
  OBVIOUS
<1>2. \A i \in DOMAIN Append(q, e) : i \in 1 .. Len(q) \/ i = Len(q) + 1
  BY <1>1, AppendElements
<1>3. ASSUME NEW o \in Orders(Append(q, e)) PROVE o \in Orders(q) \cup {e}
  BY <1>1, <1>2, <1>3, AppendElements DEF Orders
<1>4. ASSUME NEW o \in Orders(q) \cup {e} PROVE o \in Orders(Append(q, e))
  <2>1. CASE o = e
    BY <1>1, <2>1, AppendElements DEF Orders
  <2>2. CASE o \in Orders(q)
    <3>1. PICK i \in 1 .. Len(q) : o = q[i]
      BY <1>1, <2>2 DEF Orders
    <3>2. i \in DOMAIN Append(q, e) /\ Append(q, e)[i] = o
      BY <1>1, <3>1, AppendElements
    <3> QED
      BY <3>2 DEF Orders
  <2> QED
    BY <1>4, <2>1, <2>2
<1> QED
  BY <1>3, <1>4

LEMMA OrdersTail ==
    ASSUME NEW q \in Seq(Order), q # << >>
    PROVE  Orders(q) = {Head(q)} \cup Orders(Tail(q))
<1>1. DOMAIN q = 1 .. Len(q) /\ Len(q) \in Nat \ {0}
  BY TailElements
<1>2. ASSUME NEW o \in Orders(q) PROVE o \in {Head(q)} \cup Orders(Tail(q))
  <2>1. PICK i \in 1 .. Len(q) : o = q[i]
    BY <1>1, <1>2 DEF Orders
  <2>2. CASE i = 1
    BY <2>1, <2>2, TailElements
  <2>3. CASE i # 1
    <3>1. i - 1 \in DOMAIN Tail(q) /\ Tail(q)[i - 1] = o
      BY <1>1, <2>1, <2>3, TailElements
    <3> QED
      BY <3>1 DEF Orders
  <2> QED
    BY <2>2, <2>3
<1>3. ASSUME NEW o \in Orders(Tail(q)) PROVE o \in Orders(q)
  <2>1. PICK i \in 1 .. (Len(q) - 1) : o = Tail(q)[i]
    BY <1>3, TailElements DEF Orders
  <2>2. i + 1 \in DOMAIN q /\ q[i + 1] = o
    BY <1>1, <2>1, TailElements
  <2> QED
    BY <2>2 DEF Orders
<1>4. Head(q) \in Orders(q)
  BY <1>1, TailElements DEF Orders
<1> QED
  BY <1>2, <1>3, <1>4

(***************************************************************************)
(* Order of submission: of a sequence that one order joins, of one that    *)
(* loses its first, and of two sequences put together.                     *)
(***************************************************************************)
LEMMA SortedAppend ==
    ASSUME NEW u, NEW q \in Seq(Order), NEW e \in Order, Sorted(u, q),
           \A i \in DOMAIN q : q[i].from = e.from => q[i].id < e.id
    PROVE  Sorted(u, Append(q, e))
<1>1. DOMAIN q = 1 .. Len(q) /\ Len(q) \in Nat
  OBVIOUS
<1> SUFFICES ASSUME NEW i \in 1 .. (Len(q) + 1), NEW j \in 1 .. (Len(q) + 1), i < j,
                    Append(q, e)[i].from = u, Append(q, e)[j].from = u
             PROVE  Append(q, e)[i].id < Append(q, e)[j].id
  BY AppendElements DEF Sorted
<1>2. i \in 1 .. Len(q) /\ Append(q, e)[i] = q[i]
  BY <1>1, AppendElements
<1>3. CASE j \in 1 .. Len(q)
  BY <1>1, <1>2, <1>3, AppendElements DEF Sorted
<1>4. CASE j = Len(q) + 1
  BY <1>1, <1>2, <1>4, AppendElements
<1> QED
  BY <1>1, <1>3, <1>4

LEMMA SortedTail ==
    ASSUME NEW u, NEW q \in Seq(Order), q # << >>, Sorted(u, q)
    PROVE  /\ Sorted(u, Tail(q))
           /\ Head(q).from = u => \A i \in DOMAIN Tail(q) :
                 Tail(q)[i].from = u => Head(q).id < Tail(q)[i].id
<1>1. DOMAIN q = 1 .. Len(q) /\ Len(q) \in Nat \ {0}
  BY TailElements
<1>2. ASSUME NEW i \in 1 .. (Len(q) - 1), NEW j \in 1 .. (Len(q) - 1), i < j,
             Tail(q)[i].from = u, Tail(q)[j].from = u
      PROVE  Tail(q)[i].id < Tail(q)[j].id
  <2>1. /\ i + 1 \in DOMAIN q /\ j + 1 \in DOMAIN q /\ i + 1 < j + 1
        /\ Tail(q)[i] = q[i + 1] /\ Tail(q)[j] = q[j + 1]
    BY <1>1, <1>2, TailElements
  <2> QED
    BY <1>2, <2>1 DEF Sorted
<1>3. ASSUME Head(q).from = u, NEW i \in 1 .. (Len(q) - 1), Tail(q)[i].from = u
      PROVE  Head(q).id < Tail(q)[i].id
  <2>1. /\ 1 \in DOMAIN q /\ i + 1 \in DOMAIN q /\ 1 < i + 1
        /\ Head(q) = q[1] /\ Tail(q)[i] = q[i + 1]
    BY <1>1, TailElements
  <2> QED
    BY <1>3, <2>1 DEF Sorted
<1> QED
  BY <1>2, <1>3, TailElements DEF Sorted

LEMMA SortedConcat ==
    ASSUME NEW u, NEW q \in Seq(Order), NEW r \in Seq(Order),
           Sorted(u, q), Sorted(u, r), Before(q, r)
    PROVE  Sorted(u, q \o r)
<1>1. /\ Len(q) \in Nat /\ DOMAIN q = 1 .. Len(q)
      /\ Len(r) \in Nat /\ DOMAIN r = 1 .. Len(r)
      /\ DOMAIN (q \o r) = 1 .. (Len(q) + Len(r))
      /\ \A i \in 1 .. (Len(q) + Len(r)) :
            (q \o r)[i] = IF i <= Len(q) THEN q[i] ELSE r[i - Len(q)]
  BY ConcatProperties
<1> SUFFICES ASSUME NEW i \in 1 .. (Len(q) + Len(r)), NEW j \in 1 .. (Len(q) + Len(r)),
                    i < j, (q \o r)[i].from = u, (q \o r)[j].from = u
             PROVE  (q \o r)[i].id < (q \o r)[j].id
  BY <1>1 DEF Sorted
<1>2. CASE j <= Len(q)
  <2>1. /\ i \in DOMAIN q /\ j \in DOMAIN q
        /\ (q \o r)[i] = q[i] /\ (q \o r)[j] = q[j]
    BY <1>1, <1>2
  <2> QED
    BY <2>1 DEF Sorted
<1>3. CASE i <= Len(q) /\ ~(j <= Len(q))
  <2>1. /\ i \in DOMAIN q /\ j - Len(q) \in DOMAIN r
        /\ (q \o r)[i] = q[i] /\ (q \o r)[j] = r[j - Len(q)]
    BY <1>1, <1>3
  <2> QED
    BY <2>1 DEF Before
<1>4. CASE ~(i <= Len(q))
  <2>1. /\ i - Len(q) \in DOMAIN r /\ j - Len(q) \in DOMAIN r /\ i - Len(q) < j - Len(q)
        /\ (q \o r)[i] = r[i - Len(q)] /\ (q \o r)[j] = r[j - Len(q)]
    BY <1>1, <1>4
  <2> QED
    BY <2>1 DEF Sorted
<1> QED
  BY <1>1, <1>2, <1>3, <1>4

LEMMA BeforeOrders ==
    ASSUME NEW q, NEW r
    PROVE  Before(q, r) <=> \A a \in Orders(q), b \in Orders(r) : a.from = b.from => a.id < b.id
  BY DEF Before, Orders

(***************************************************************************)
(* The flow starts with nothing anywhere.                                  *)
(***************************************************************************)
LEMMA FlowEmpty ==
    Flow(<< >>, [l \in Lanes |-> << >>], {}, TRUE)
<1>1. << >> \in Seq(Order) /\ DOMAIN (<< >>) = {} /\ Orders(<< >>) = {}
  BY DEF Orders
<1> QED
  BY <1>1, GatewayAssumption DEF Flow, Sorted, Before, Lanes

(***************************************************************************)
(* An order that is younger than all known ones of its user is pushed.     *)
(***************************************************************************)
LEMMA FlowPush ==
    ASSUME NEW pending, NEW lane, NEW known, NEW all, NEW o \in Order,
           Flow(pending, lane, known, all),
           \A a \in known : a.from = o.from => a.id < o.id
    PROVE  Flow(Append(pending, o), lane, known \cup {o}, all)
<1>1. pending \in Seq(Order) /\ lane \in [Lanes -> Seq(Order)]
  BY DEF Flow
<1>2. Orders(Append(pending, o)) = Orders(pending) \cup {o}
  BY <1>1, OrdersAppend
<1>3. ASSUME NEW u \in Users PROVE Sorted(u, Append(pending, o))
  <2>1. \A i \in DOMAIN pending : pending[i] \in known
    BY DEF Flow, Orders
  <2> QED
    BY <1>1, <2>1, SortedAppend DEF Flow
<1>4. ASSUME NEW l \in Lanes PROVE Before(lane[l], Append(pending, o))
  <2>1. Orders(lane[l]) \subseteq known
    BY DEF Flow
  <2>2. Before(lane[l], pending)
    BY DEF Flow
  <2> QED
    BY <1>2, <2>1, <2>2, BeforeOrders
<1>5. Append(pending, o) \in Seq(Order)
  BY <1>1
<1> QED
  BY <1>1, <1>2, <1>3, <1>4, <1>5 DEF Flow

(***************************************************************************)
(* The oldest pending order enters a lane.                                 *)
(***************************************************************************)
LEMMA FlowMove ==
    ASSUME NEW pending, NEW lane, NEW known, NEW all, NEW l \in Lanes,
           Flow(pending, lane, known, all), pending # << >>,
           l \in Symbols => l = SymbolOf[Head(pending).from]
    PROVE  Flow(Tail(pending), [lane EXCEPT ![l] = Append(@, Head(pending))], known, all)
<1> DEFINE o == Head(pending)
           rest == Tail(pending)
           new == [lane EXCEPT ![l] = Append(@, o)]
<1>1. /\ pending \in Seq(Order) /\ lane \in [Lanes -> Seq(Order)]
      /\ o \in Order /\ rest \in Seq(Order)
  BY TailElements DEF Flow
<1>2. Orders(pending) = {o} \cup Orders(rest)
  BY <1>1, OrdersTail
<1>3. new \in [Lanes -> Seq(Order)] /\ new[l] = Append(lane[l], o)
  BY <1>1
<1>4. /\ Orders(new[l]) = Orders(lane[l]) \cup {o}
      /\ \A k \in Lanes \ {l} : new[k] = lane[k]
  BY <1>1, <1>3, OrdersAppend
<1>5. \A k \in Lanes : \A a \in Orders(lane[k]) : a.from = o.from => a.id < o.id
  BY <1>2, BeforeOrders DEF Flow
<1>6. \A k \in Lanes : o \notin Orders(lane[k])
  <2>1. o.id \in Nat
    BY <1>1, GatewayAssumption DEF Order, OrderId
  <2> QED
    BY <1>5, <2>1
<1>7. \A u \in Users : Sorted(u, rest)
  BY <1>1, SortedTail DEF Flow
<1>8. \A b \in Orders(rest) : o.from = b.from => o.id < b.id
  <2>1. o.from \in Users
    BY <1>1 DEF Order
  <2>2. Sorted(o.from, pending)
    BY <2>1 DEF Flow
  <2> HIDE DEF o
  <2>3. \A i \in DOMAIN rest : rest[i].from = o.from => o.id < rest[i].id
    BY <1>1, <2>2, SortedTail DEF o
  <2> QED
    BY <2>3 DEF Orders
<1> HIDE DEF o, rest, new
<1>9. ASSUME NEW k \in Lanes
      PROVE  \A u \in Users : Sorted(u, new[k])
  <2>1. CASE k = l
    <3>1. \A i \in DOMAIN lane[l] : lane[l][i].from = o.from => lane[l][i].id < o.id
      BY <1>5 DEF Orders
    <3>2. lane[l] \in Seq(Order) /\ \A u \in Users : Sorted(u, lane[l])
      BY <1>1 DEF Flow
    <3> QED
      BY <1>1, <1>3, <2>1, <3>1, <3>2, SortedAppend
  <2>2. CASE k # l
    BY <1>4, <2>2 DEF Flow
  <2> QED
    BY <2>1, <2>2
<1>10. ASSUME NEW k \in Lanes PROVE Before(new[k], rest)
  <2>1. \A a \in Orders(lane[k]), b \in Orders(rest) : a.from = b.from => a.id < b.id
    BY <1>2, BeforeOrders DEF Flow
  <2>2. \A a \in Orders(new[k]) : a \in Orders(lane[k]) \/ a = o
    BY <1>4
  <2> QED
    BY <1>8, <2>1, <2>2, BeforeOrders
<1>11. ASSUME NEW k \in Lanes, NEW j \in Lanes, k # j
       PROVE  Orders(new[k]) \cap Orders(new[j]) = {}
  <2>1. Orders(lane[k]) \cap Orders(lane[j]) = {}
    BY <1>11 DEF Flow
  <2>2. Orders(new[k]) = IF k = l THEN Orders(lane[k]) \cup {o} ELSE Orders(lane[k])
    BY <1>4
  <2>3. Orders(new[j]) = IF j = l THEN Orders(lane[j]) \cup {o} ELSE Orders(lane[j])
    BY <1>4
  <2> QED
    BY <1>6, <1>11, <2>1, <2>2, <2>3
<1>12. \A s \in Symbols : \A a \in Orders(new[s]) : SymbolOf[a.from] = s
  <2> SUFFICES ASSUME NEW s \in Symbols, NEW a \in Orders(new[s]) PROVE SymbolOf[a.from] = s
    OBVIOUS
  <2>1. s \in Lanes
    BY DEF Lanes
  <2>2. CASE a \in Orders(lane[s])
    BY <2>2 DEF Flow
  <2>3. CASE a \notin Orders(lane[s])
    BY <1>4, <2>1, <2>3 DEF o
  <2> QED
    BY <2>2, <2>3
<1>13. UNION {Orders(new[k]) : k \in Lanes} = {o} \cup UNION {Orders(lane[k]) : k \in Lanes}
  <2>1. \A k \in Lanes : Orders(new[k]) = IF k = l THEN Orders(lane[k]) \cup {o}
                                                  ELSE Orders(lane[k])
    BY <1>4
  <2> QED
    BY <2>1
<1>14. Orders(rest) \cup UNION {Orders(new[k]) : k \in Lanes}
          = Orders(pending) \cup UNION {Orders(lane[k]) : k \in Lanes}
  BY <1>2, <1>13
<1>15. Flow(rest, new, known, all)
  BY <1>1, <1>3, <1>7, <1>9, <1>10, <1>11, <1>12, <1>14 DEF Flow
<1> QED
  BY <1>15 DEF o, rest, new

(***************************************************************************)
(* The oldest pending order is dropped by std::terminate.                  *)
(***************************************************************************)
LEMMA FlowDrop ==
    ASSUME NEW pending, NEW lane, NEW known, NEW all,
           Flow(pending, lane, known, all), pending # << >>
    PROVE  Flow(Tail(pending), lane, known, FALSE)
<1>1. pending \in Seq(Order) /\ Tail(pending) \in Seq(Order)
  BY TailElements DEF Flow
<1>2. Orders(pending) = {Head(pending)} \cup Orders(Tail(pending))
  BY <1>1, OrdersTail
<1>3. \A u \in Users : Sorted(u, Tail(pending))
  BY <1>1, SortedTail DEF Flow
<1>4. \A l \in Lanes : Before(lane[l], Tail(pending))
  <2> SUFFICES ASSUME NEW l \in Lanes PROVE Before(lane[l], Tail(pending))
    OBVIOUS
  <2>1. Before(lane[l], pending)
    BY DEF Flow
  <2> QED
    BY <1>2, <2>1, BeforeOrders
<1> QED
  BY <1>1, <1>2, <1>3, <1>4 DEF Flow

(***************************************************************************)
(* Sorted for every user, a sequence of orders holds each only once.       *)
(***************************************************************************)
LEMMA SortedOnce ==
    ASSUME NEW q \in Seq(Order), \A u \in Users : Sorted(u, q)
    PROVE  /\ \A i, j \in DOMAIN q : q[i] = q[j] => i = j
           /\ IsFiniteSet(Orders(q)) /\ Cardinality(Orders(q)) = Len(q)
<1>1. DOMAIN q = 1 .. Len(q) /\ Len(q) \in Nat
  OBVIOUS
<1>2. ASSUME NEW i \in DOMAIN q, NEW j \in DOMAIN q, q[i] = q[j], i < j PROVE FALSE
  <2>1. q[i] \in Order
    BY <1>1
  <2>2. q[i].from \in Users /\ q[i].id \in Nat
    BY <2>1, GatewayAssumption DEF Order, OrderId
  <2> QED
    BY <1>2, <2>2 DEF Sorted
<1>3. \A i, j \in DOMAIN q : q[i] = q[j] => i = j
  BY <1>1, <1>2
<1>4. q \in Bijection(1 .. Len(q), Orders(q))
  <2>1. q \in [1 .. Len(q) -> Orders(q)]
    BY <1>1 DEF Orders
  <2>2. \A i, j \in 1 .. Len(q) : q[i] = q[j] => i = j
    BY <1>1, <1>3
  <2>3. \A o \in Orders(q) : \E i \in 1 .. Len(q) : q[i] = o
    BY <1>1 DEF Orders
  <2> QED
    BY <1>1, <2>1, <2>2, <2>3 DEF Bijection, Injection, Surjection, IsInjective
<1>5. ExistsBijection(1 .. Len(q), Orders(q))
  BY <1>4 DEF ExistsBijection
<1>6. Cardinality(Orders(q)) = Len(q)
  BY <1>1, <1>5, FS_CountingElements
<1>7. IsFiniteSet(Orders(q))
  BY <1>1, <1>5, FS_NatBijection
<1> QED
  BY <1>3, <1>6, <1>7

(***************************************************************************)
(* The orders of a pending sequence and of two lanes are all different, so *)
(* they are no more than the known ones.                                   *)
(***************************************************************************)
LEMMA FlowCount ==
    ASSUME NEW pending, NEW lane, NEW known, NEW all, IsFiniteSet(known),
           Flow(pending, lane, known, all), pending # << >>, NEW s \in Symbols
    PROVE  Cardinality(known) > Len(lane[s]) + Len(lane[Responder])
<1> DEFINE a == Orders(lane[s])
           r == Orders(lane[Responder])
           o == Head(pending)
<1>1. /\ s \in Lanes /\ Responder \in Lanes /\ s # Responder
      /\ pending \in Seq(Order)
      /\ lane[s] \in Seq(Order) /\ lane[Responder] \in Seq(Order)
      /\ \A u \in Users : Sorted(u, lane[s]) /\ Sorted(u, lane[Responder])
  BY GatewayAssumption DEF Flow, Lanes
<1>2. /\ IsFiniteSet(a) /\ Cardinality(a) = Len(lane[s])
      /\ IsFiniteSet(r) /\ Cardinality(r) = Len(lane[Responder])
  BY <1>1, SortedOnce
<1>3. a \cap r = {}
  BY <1>1 DEF Flow
<1>4. Cardinality(a \cup r) = Len(lane[s]) + Len(lane[Responder]) /\ IsFiniteSet(a \cup r)
  <2>1. Cardinality(a \cap r) = 0
    BY <1>3, FS_EmptySet
  <2>2. Len(lane[s]) \in Nat /\ Len(lane[Responder]) \in Nat
    BY <1>1
  <2>3. /\ IsFiniteSet(a \cup r)
        /\ Cardinality(a \cup r) = Cardinality(a) + Cardinality(r) - Cardinality(a \cap r)
    BY <1>2, FS_Union
  <2> QED
    BY <1>2, <2>1, <2>2, <2>3
<1>5. o \in Orders(pending) /\ o \in Order
  BY <1>1, OrdersTail, TailElements
<1>6. o \notin a \cup r
  <2>1. o.id \in Nat
    BY <1>5, GatewayAssumption DEF Order, OrderId
  <2>2. \A l \in Lanes : \A b \in Orders(lane[l]) : b.from = o.from => b.id < o.id
    BY <1>5, BeforeOrders DEF Flow
  <2> QED
    BY <1>1, <2>1, <2>2
<1>7. IsFiniteSet(a \cup r \cup {o}) /\ Cardinality(a \cup r \cup {o}) = Cardinality(a \cup r) + 1
  BY <1>4, <1>6, FS_AddElement
<1>8. a \cup r \cup {o} \subseteq known
  BY <1>1, <1>5 DEF Flow
<1>9. /\ Cardinality(a \cup r \cup {o}) <= Cardinality(known)
      /\ Cardinality(known) \in Nat /\ Cardinality(a \cup r \cup {o}) \in Nat
  BY <1>7, <1>8, FS_Subset, FS_CardinalityType
<1>10. Len(lane[s]) \in Nat /\ Len(lane[Responder]) \in Nat
  BY <1>1
<1>11. Cardinality(a \cup r \cup {o}) = Len(lane[s]) + Len(lane[Responder]) + 1
  BY <1>4, <1>7
<1> DEFINE n == Cardinality(a \cup r \cup {o})
           x == Len(lane[s])
           y == Len(lane[Responder])
<1>12. /\ n <= Cardinality(known) /\ n = x + y + 1
       /\ Cardinality(known) \in Nat /\ x \in Nat /\ y \in Nat
  BY <1>9, <1>10, <1>11
<1> HIDE DEF n, x, y
<1>13. Cardinality(known) > x + y
  BY <1>12
<1> QED
  BY <1>13 DEF x, y

(***************************************************************************)
(* What the flow means for the properties: no overtaking, and every known  *)
(* order in exactly one place.                                             *)
(***************************************************************************)
LEMMA LaneParts ==
    /\ \A s \in Symbols : s \in Lanes /\ Lane[s] = Accepted(s)
    /\ Responder \in Lanes /\ Lane[Responder] = Rejected
  BY GatewayAssumption DEF Lane, Lanes

LEMMA FlowKeepsOrder ==
    ASSUME Flow(Pending, Lane, acked, ~terminated)
    PROVE  InOrder
<1>1. /\ Pending \in Seq(Order) /\ Lane \in [Lanes -> Seq(Order)]
      /\ \A u \in Users : Sorted(u, Pending)
      /\ \A l \in Lanes : \A u \in Users : Sorted(u, Lane[l])
      /\ \A l \in Lanes : Before(Lane[l], Pending)
      /\ \A s \in Symbols : \A o \in Orders(Lane[s]) : SymbolOf[o.from] = s
  BY DEF Flow
<1>2. \A l \in Lanes : \A u \in Users : Sorted(u, Lane[l] \o Pending)
  BY <1>1, SortedConcat
<1>3. ASSUME NEW u \in Users, NEW s \in Symbols, s # SymbolOf[u]
      PROVE  \A i \in DOMAIN Accepted(s) : Accepted(s)[i].from # u
  <2>1. \A o \in Orders(Accepted(s)) : SymbolOf[o.from] = s
    BY <1>1, LaneParts
  <2> QED
    BY <1>3, <2>1 DEF Orders
<1> QED
  BY <1>2, <1>3, LaneParts DEF InOrder

LEMMA FlowConserves ==
    ASSUME Flow(Pending, Lane, acked, TRUE)
    PROVE  \A o \in Order : Cardinality(Places(o)) = IF o \in acked THEN 1 ELSE 0
<1> SUFFICES ASSUME NEW o \in Order
             PROVE  Cardinality(Places(o)) = IF o \in acked THEN 1 ELSE 0
  OBVIOUS
<1> DEFINE taken == UNION {Spots(s, Accepted(s), o) : s \in Symbols}
<1>1. Places(o) = Spots("pending", Pending, o) \cup Spots("rejected", Rejected, o) \cup taken
  <2>1. \A x : x \in Places(o) <=> \/ x \in Spots("pending", Pending, o)
                                   \/ \E s \in Symbols : x \in Spots(s, Accepted(s), o)
                                   \/ x \in Spots("rejected", Rejected, o)
    BY DEF Places
  <2>2. \A x : x \in taken <=> \E s \in Symbols : x \in Spots(s, Accepted(s), o)
    OBVIOUS
  <2> HIDE DEF taken
  <2> QED
    BY <2>1, <2>2
<1>2. ASSUME NEW q, NEW p PROVE o \notin Orders(q) <=> Spots(p, q, o) = {}
  BY DEF Orders, Spots
<1>3. ASSUME NEW q \in Seq(Order), \A u \in Users : Sorted(u, q), o \in Orders(q), NEW p
      PROVE  \E x : Spots(p, q, o) = {x}
  <2>1. PICK i \in DOMAIN q : q[i] = o
    BY <1>3 DEF Orders
  <2>2. \A j \in DOMAIN q : q[j] = o => j = i
    BY <1>3, <2>1, SortedOnce
  <2>3. Spots(p, q, o) = {<<p, i>>}
    BY <2>1, <2>2 DEF Spots
  <2> QED
    BY <2>3
<1>4. /\ Pending \in Seq(Order) /\ \A u \in Users : Sorted(u, Pending)
      /\ Rejected \in Seq(Order) /\ \A u \in Users : Sorted(u, Rejected)
      /\ \A s \in Symbols : Accepted(s) \in Seq(Order) /\ \A u \in Users : Sorted(u, Accepted(s))
  BY LaneParts DEF Flow
<1>5. o \in Orders(Pending) => \A l \in Lanes : o \notin Orders(Lane[l])
  <2>1. o.id \in Nat
    BY GatewayAssumption DEF Order, OrderId
  <2>2. \A l \in Lanes : \A a \in Orders(Lane[l]), b \in Orders(Pending) :
           a.from = b.from => a.id < b.id
    BY BeforeOrders DEF Flow
  <2> QED
    BY <2>1, <2>2
<1>6. \A l, k \in Lanes : o \in Orders(Lane[l]) /\ o \in Orders(Lane[k]) => l = k
  BY DEF Flow
<1>7. o \in acked <=> o \in Orders(Pending) \/ \E l \in Lanes : o \in Orders(Lane[l])
  <2>1. acked = Orders(Pending) \cup UNION {Orders(Lane[l]) : l \in Lanes}
    BY DEF Flow
  <2> QED
    BY <2>1
<1>8. \A x : Cardinality({x}) = 1
  BY FS_Singleton
<1>9. (\A s \in Symbols : Spots(s, Accepted(s), o) = {}) => taken = {}
  OBVIOUS
<1> HIDE DEF taken
<1>10. CASE o \notin acked
  <2>1. /\ o \notin Orders(Pending) /\ o \notin Orders(Rejected)
        /\ \A s \in Symbols : o \notin Orders(Accepted(s))
    BY <1>7, <1>10, LaneParts
  <2>2. Places(o) = {}
    BY <1>1, <1>2, <1>9, <2>1
  <2> QED
    BY <1>10, <2>2, FS_EmptySet
<1>11. CASE o \in Orders(Pending)
  <2>1. /\ o \notin Orders(Rejected)
        /\ \A s \in Symbols : o \notin Orders(Accepted(s))
    BY <1>5, <1>11, LaneParts
  <2>2. Places(o) = Spots("pending", Pending, o)
    BY <1>1, <1>2, <1>9, <2>1
  <2>3. \E x : Spots("pending", Pending, o) = {x}
    BY <1>3, <1>4, <1>11
  <2> QED
    BY <1>7, <1>11, <1>8, <2>2, <2>3
<1>12. CASE o \in Orders(Rejected)
  <2>1. /\ o \notin Orders(Pending)
        /\ \A s \in Symbols : o \notin Orders(Accepted(s))
    BY <1>5, <1>6, <1>12, LaneParts, GatewayAssumption
  <2>2. Places(o) = Spots("rejected", Rejected, o)
    <3>1. Spots("pending", Pending, o) = {} /\ \A s \in Symbols : Spots(s, Accepted(s), o) = {}
      BY <1>2, <2>1
    <3> QED
      BY <1>1, <1>9, <3>1
  <2>3. o \in acked
    BY <1>7, <1>12, LaneParts
  <2>4. \E x : Spots("rejected", Rejected, o) = {x}
    BY <1>3, <1>4, <1>12
  <2> QED
    BY <1>8, <2>2, <2>3, <2>4
<1>13. ASSUME NEW s \in Symbols, o \in Orders(Accepted(s))
       PROVE  Cardinality(Places(o)) = IF o \in acked THEN 1 ELSE 0
  <2>1. /\ o \notin Orders(Pending) /\ o \notin Orders(Rejected)
        /\ \A t \in Symbols \ {s} : o \notin Orders(Accepted(t))
    BY <1>5, <1>6, <1>13, LaneParts, GatewayAssumption
  <2>2. taken = Spots(s, Accepted(s), o)
    <3>1. \A t \in Symbols : t = s \/ Spots(t, Accepted(t), o) = {}
      BY <1>2, <2>1
    <3> QED
      BY <3>1 DEF taken
  <2>3. Places(o) = Spots(s, Accepted(s), o)
    BY <1>1, <1>2, <2>1, <2>2
  <2>4. o \in acked
    BY <1>7, <1>13, LaneParts
  <2>5. \E x : Spots(s, Accepted(s), o) = {x}
    BY <1>3, <1>4, <1>13
  <2> QED
    BY <1>8, <2>3, <2>4, <2>5
<1>14. o \in acked => \/ o \in Orders(Pending) \/ o \in Orders(Rejected)
                      \/ \E s \in Symbols : o \in Orders(Accepted(s))
  <2>1. \A l \in Lanes : l = Responder \/ l \in Symbols
    BY DEF Lanes
  <2> QED
    BY <1>7, <2>1, LaneParts
<1> QED
  BY <1>10, <1>11, <1>12, <1>13, <1>14

-----------------------------------------------------------------------------
(***************************************************************************)
(* The pending orders, as long as the ring holds whole messages.           *)
(***************************************************************************)
LEMMA PendingParts ==
    ASSUME IInv, SlotsHold
    PROVE  /\ Dist(head, tail) \in Nat
           /\ InRing \in Seq(Order) /\ Len(InRing) = Dist(head, tail)
           /\ \A i \in 1 .. Dist(head, tail) : InRing[i] = ring[Slot(tail + i - 1)].order
           /\ InHand \in Seq(Order)
           /\ Pending \in Seq(Order)
<1>1. Dist(head, tail) \in Nat
  BY DistValue DEF IInv, TypeOK, IngressTypeOK, Index
<1>2. \A i \in 1 .. Dist(head, tail) : ring[Slot(tail + i - 1)].order \in Order
  BY DEF SlotsHold, WellFormed
<1>3. /\ InRing \in Seq(Order) /\ Len(InRing) = Dist(head, tail)
      /\ \A i \in 1 .. Dist(head, tail) : InRing[i] = ring[Slot(tail + i - 1)].order
  BY <1>1, <1>2 DEF InRing
<1>4. InHand \in Seq(Order)
  BY DEF InHand, SlotsHold, WellFormed
<1> QED
  BY <1>1, <1>3, <1>4, ConcatProperties DEF Pending

(***************************************************************************)
(* What a step that leaves parts of the state alone preserves.             *)
(***************************************************************************)
LEMMA PendingFrame ==
    ASSUME UNCHANGED ingress, ipc = "route" <=> ipc' = "route", ipc = "route" => tmp' = tmp
    PROVE  Pending' = Pending
<1>1. InRing' = InRing
  BY DEF InRing, ingress
<1>2. InHand' = InHand
  BY DEF InHand
<1> QED
  BY <1>1, <1>2 DEF Pending

LEMMA LaneFrame ==
    ASSUME UNCHANGED <<symQ, processed, respQ, told>>
    PROVE  Lane' = Lane
<1>1. Rejected' = Rejected /\ \A s \in Symbols : Accepted(s)' = Accepted(s)
  BY DEF Rejected, Accepted
<1> QED
  BY <1>1 DEF Lane, Lanes

LEMMA FlowFrame ==
    /\ AckedTaken /\ UNCHANGED user => AckedTaken'
    /\ LagsPopped /\ UNCHANGED <<symbol, response>> => LagsPopped'
    /\ ~terminated /\ UNCHANGED terminated => TerminationNeedsOverload'
    /\ SlotsHold /\ UNCHANGED <<ingress, user, router>> => SlotsHold'
<1>1. AckedTaken /\ UNCHANGED user => AckedTaken'
  BY DEF AckedTaken, user, Pushing
<1>2. LagsPopped /\ UNCHANGED <<symbol, response>> => LagsPopped'
  BY DEF LagsPopped, symbol, response
<1>3. ~terminated /\ UNCHANGED terminated => TerminationNeedsOverload'
  BY DEF TerminationNeedsOverload
<1>4. SlotsHold /\ UNCHANGED <<ingress, user, router>> => SlotsHold'
  BY DEF SlotsHold, ingress, user, router, CurrentOrder
<1> QED
  BY <1>1, <1>2, <1>3, <1>4

(***************************************************************************)
(* How long the lanes are.                                                 *)
(***************************************************************************)
LEMMA LaneLengths ==
    ASSUME IInv, Lane \in [Lanes -> Seq(Order)]
    PROVE  /\ \A s \in Symbols : Len(Lane[s]) = Len(processed[s]) + Len(symQ[s])
           /\ Len(Lane[Responder]) = Len(told) + Len(respQ)
           /\ \A s \in Symbols : /\ Len(processed[s]) \in Nat /\ Len(symQ[s]) \in Nat
                                 /\ symLag[s] \in Nat
           /\ Len(told) \in Nat /\ Len(respQ) \in Nat /\ respLag \in Nat
<1> DEFINE T == Order \cup {NoOrder}
<1>1. /\ respQ \in Seq(Response) /\ told \in Seq(Response) /\ respLag \in Nat
      /\ symQ \in [Symbols -> Seq(T)]
      /\ processed \in [Symbols -> Seq(T)]
      /\ symLag \in [Symbols -> Nat]
  BY DEF IInv, TypeOK, ResponseTypeOK, SymbolTypeOK
<1> HIDE DEF T
<1>2. ASSUME NEW s \in Symbols PROVE Len(Lane[s]) = Len(processed[s]) + Len(symQ[s])
  <2>1. \A q, r \in Seq(T) : Len(q \o r) = Len(q) + Len(r)
    BY ConcatProperties
  <2>2. Lane[s] = processed[s] \o symQ[s]
    BY LaneParts DEF Accepted
  <2> QED
    BY <1>1, <2>1, <2>2
<1>3. Len(Lane[Responder]) = Len(told) + Len(respQ)
  <2>1. Len(told \o respQ) = Len(told) + Len(respQ) /\ told \o respQ \in Seq(Response)
    BY <1>1, ConcatProperties
  <2>2. DOMAIN Rejected = 1 .. Len(told \o respQ) /\ Len(told \o respQ) \in Nat
    BY <2>1 DEF Rejected
  <2>3. Rejected \in Seq(Order)
    BY LaneParts
  <2>4. Len(Rejected) = Len(told \o respQ)
    BY <2>2, <2>3
  <2> QED
    BY <2>1, <2>4, LaneParts
<1> QED
  BY <1>1, <1>2, <1>3

(***************************************************************************)
(* The steps of OrderContract, as steps of the gateway.                    *)
(***************************************************************************)
ContractStep == [Contract!Next]_(Contract!contractVars)

LEMMA ContractVoid == ASSUME raced' PROVE ContractStep
BY DEF ContractStep, Contract!Next

LEMMA ContractIdle ==
    ASSUME Pending' = Pending, Lane' = Lane, UNCHANGED <<processed, told, terminated>>,
           raced' \/ UNCHANGED raced
    PROVE  ContractStep
<1>1. Delivered' = Delivered
  BY DEF Delivered
<1>2. CASE UNCHANGED raced
  BY <1>1, <1>2 DEF ContractStep, Contract!contractVars
<1> QED
  BY <1>2, ContractVoid

LEMMA ContractAcknowledge ==
    ASSUME Flow(Pending, Lane, acked, TRUE), ~terminated, NEW o \in Order,
           \A a \in acked : a.from = o.from => a.id < o.id,
           Pending' = Append(Pending, o), Lane' = Lane,
           UNCHANGED <<processed, told, terminated, raced>>
    PROVE  ContractStep
<1>1. Delivered' = Delivered
  BY DEF Delivered
<1>2. Contract!Known \subseteq acked
  BY DEF Flow, Orders, Contract!Known, Contract!ToSet, Contract!Lanes, Lanes
<1>3. Contract!Acknowledge(o)
  BY <1>1, <1>2 DEF Contract!Acknowledge
<1> QED
  BY <1>3 DEF ContractStep, Contract!Next, Contract!Promised

LEMMA ContractMove ==
    ASSUME IInv, FlowInv, ~raced, ~terminated, Pending # << >>,
           NEW s \in Symbols, s = SymbolOf[Head(Pending).from],
           NEW l \in {s, Responder},
           l = s => Len(symQ[s]) < SymbolSize,
           l = Responder => /\ Len(symQ[s]) + symLag[s] = SymbolSize
                            /\ Len(respQ) < ResponseSize,
           Pending' = Tail(Pending), Lane' = [Lane EXCEPT ![l] = Append(@, Head(Pending))],
           UNCHANGED <<processed, told, terminated, raced>>
    PROVE  ContractStep
<1>1. Delivered' = Delivered
  BY DEF Delivered
<1>2. Flow(Pending, Lane, acked, TRUE) /\ LagsPopped
  BY DEF FlowInv
<1>3. Lane \in [Lanes -> Seq(Order)]
  BY <1>2 DEF Flow
<1>4. l \in Lanes /\ s # Responder /\ s \in Lanes
  BY GatewayAssumption DEF Lanes
<1>5. Contract!Target = s
  BY DEF Contract!Target
<1> DEFINE a == Len(processed[s])
           b == Len(symQ[s])
           c == Len(told)
           d == Len(respQ)
<1>6. /\ Len(Lane[s]) = a + b /\ Len(Lane[Responder]) = c + d
      /\ a \in Nat /\ b \in Nat /\ c \in Nat /\ d \in Nat /\ symLag[s] \in Nat
  BY <1>3, LaneLengths
<1>7. Delivered[s] = a /\ Delivered[Responder] = c
  BY <1>4 DEF Delivered, Lanes
<1>8. Contract!Size(s) = SymbolSize /\ Contract!Size(Responder) = ResponseSize
  BY <1>4 DEF Contract!Size
<1>9. CASE l = s
  <2>1. Len(Lane[l]) - Delivered[l] < Contract!Size(l)
    <3>1. b < SymbolSize
      BY <1>9
    <3> HIDE DEF a, b
    <3>2. (a + b) - a < SymbolSize
      BY <1>6, <3>1, GatewayAssumption
    <3> QED
      BY <1>9, <1>6, <1>7, <1>8, <3>2
  <2>2. Contract!Accept
    BY <1>1, <1>5, <1>9, <2>1 DEF Contract!Accept, Contract!MoveTo
  <2> QED
    BY <2>2 DEF ContractStep, Contract!Next, Contract!Promised
<1>10. CASE l = Responder
  <2>1. Len(Lane[l]) - Delivered[l] < Contract!Size(l)
    <3>1. d < ResponseSize
      BY <1>10
    <3> HIDE DEF c, d
    <3>2. (c + d) - c < ResponseSize
      BY <1>6, <3>1, GatewayAssumption
    <3> QED
      BY <1>10, <1>6, <1>7, <1>8, <3>2
  <2>2. Contract!Loaded(s)
    <3>1. symLag[s] <= a /\ b + symLag[s] = SymbolSize
      BY <1>2, <1>10 DEF LagsPopped
    <3> HIDE DEF a, b
    <3>2. a + b >= SymbolSize
      BY <1>6, <3>1, GatewayAssumption
    <3> QED
      BY <1>6, <1>8, <3>2 DEF Contract!Loaded
  <2>3. Contract!Reject
    BY <1>1, <1>5, <1>10, <2>1, <2>2 DEF Contract!Reject, Contract!MoveTo
  <2> QED
    BY <2>3 DEF ContractStep, Contract!Next, Contract!Promised
<1> QED
  BY <1>9, <1>10

LEMMA ContractDie ==
    ASSUME IInv, FlowInv, ~raced, ~terminated, Pending # << >>,
           NEW s \in Symbols, s = SymbolOf[Head(Pending).from],
           Len(symQ[s]) + symLag[s] = SymbolSize, Len(respQ) + respLag >= ResponseSize,
           Pending' = Tail(Pending), Lane' = Lane, terminated' = TRUE,
           UNCHANGED <<processed, told, raced>>
    PROVE  ContractStep
<1>1. Delivered' = Delivered
  BY DEF Delivered
<1>2. Flow(Pending, Lane, acked, TRUE) /\ LagsPopped
  BY DEF FlowInv
<1>3. Lane \in [Lanes -> Seq(Order)] /\ s # Responder
  BY <1>2, GatewayAssumption DEF Flow
<1>4. symLag[s] <= Len(processed[s]) /\ respLag <= Len(told)
  BY <1>2 DEF LagsPopped
<1>5. Len(Lane[s]) >= SymbolSize /\ Len(Lane[Responder]) >= ResponseSize
  <2> DEFINE a == Len(processed[s])
             b == Len(symQ[s])
             c == Len(told)
             d == Len(respQ)
             g == symLag[s]
  <2>1. /\ Len(Lane[s]) = a + b /\ Len(Lane[Responder]) = c + d
        /\ a \in Nat /\ b \in Nat /\ c \in Nat /\ d \in Nat /\ g \in Nat /\ respLag \in Nat
    BY <1>3, LaneLengths
  <2>2. g <= a /\ respLag <= c /\ b + g = SymbolSize /\ d + respLag >= ResponseSize
    BY <1>4
  <2> HIDE DEF a, b, c, d, g
  <2>3. SymbolSize \in Nat /\ ResponseSize \in Nat
    BY GatewayAssumption
  <2>4. a + b >= SymbolSize /\ c + d >= ResponseSize
    BY <2>1, <2>2, <2>3
  <2> QED
    BY <2>1, <2>4
<1>6. Contract!Loaded(s) /\ Contract!Loaded(Responder) /\ Contract!Target = s
  BY <1>3, <1>5 DEF Contract!Loaded, Contract!Size, Contract!Target
<1>7. Contract!Die
  BY <1>1, <1>6 DEF Contract!Die
<1> QED
  BY <1>7 DEF ContractStep, Contract!Next, Contract!Promised

LEMMA ContractSettle ==
    ASSUME ~terminated, NEW l \in Lanes, Delivered[l] < Len(Lane[l]),
           Delivered' = [Delivered EXCEPT ![l] = @ + 1],
           Pending' = Pending, Lane' = Lane, UNCHANGED <<terminated, raced>>
    PROVE  ContractStep
<1>1. Contract!Settle(l) /\ l \in Contract!Lanes
  BY DEF Contract!Settle, Contract!Lanes, Lanes
<1> QED
  BY <1>1 DEF ContractStep, Contract!Next, Contract!Promised

(***************************************************************************)
(* The gateway starts without orders.                                      *)
(***************************************************************************)
LEMMA InitEmpty ==
    ASSUME Init
    PROVE  Dist(head, tail) = 0 /\ Pending = << >> /\ Lane = [l \in Lanes |-> << >>]
<1> USE DEF Init
<1>1. Dist(head, tail) = 0
  <2>1. 0 \in Index
    BY Sizes DEF Index
  <2> QED
    BY <2>1, DistZero
<1>2. Pending = << >>
  <2>1. InRing = << >> /\ InHand = << >>
    BY <1>1 DEF InRing, InHand
  <2> QED
    BY <2>1 DEF Pending
<1>3. Lane = [l \in Lanes |-> << >>]
  <2>1. Rejected = << >> /\ \A s \in Symbols : Accepted(s) = << >>
    BY DEF Rejected, Accepted
  <2> QED
    BY <2>1 DEF Lane, Lanes
<1> QED
  BY <1>1, <1>2, <1>3

LEMMA InitFlow == Init => FlowInv
<1> SUFFICES ASSUME Init PROVE FlowInv
  OBVIOUS
<1>1. AckedTaken /\ LagsPopped /\ TerminationNeedsOverload
  BY FS_EmptySet DEF Init, AckedTaken, LagsPopped, TerminationNeedsOverload
<1>2. SlotsHold
  <2>1. Dist(head, tail) = 0
    BY InitEmpty
  <2>2. ipc = "loop" /\ \A u \in Users : upc[u] = "loop"
    BY DEF Init
  <2>3. \A i \in 1 .. Dist(head, tail) : WellFormed(ring[Slot(tail + i - 1)])
    BY <2>1
  <2> QED
    BY <2>2, <2>3 DEF SlotsHold
<1>3. acked = {} /\ ~terminated
  BY DEF Init
<1> QED
  BY <1>1, <1>2, <1>3, InitEmpty, FlowEmpty DEF FlowInv

(***************************************************************************)
(* A push begins and tests: the id is taken, nothing is written.           *)
(***************************************************************************)
LEMMA UserBeginKeepsFlow ==
    ASSUME IInv, FlowInv, NEW u \in Users, UserBegin(u)
    PROVE  FlowInv' /\ ContractStep
<1>1. /\ upc[u] = "loop" /\ upc' = [upc EXCEPT ![u] = "test"]
      /\ nextId' = [nextId EXCEPT ![u] = @ + 1]
      /\ upc \in [Users -> {"loop", "test", "header", "order", "store"}]
      /\ nextId \in [Users -> 0 .. MaxOrders]
      /\ ~terminated
      /\ raced => raced'
      /\ UNCHANGED <<ingress, acked, router, symbol, response, life>>
  BY DEF UserBegin, Alive, IInv, TypeOK, UserTypeOK
<1>2. AckedTaken'
  <2> SUFFICES ASSUME NEW o \in acked
               PROVE  o.id < IF Pushing(o.from)' THEN nextId'[o.from] - 1 ELSE nextId'[o.from]
    BY <1>1 DEF FlowInv, AckedTaken
  <2>1. o.from \in Users /\ o.id \in Nat /\ nextId[o.from] \in Nat
    BY <1>1, GatewayAssumption DEF IInv, TypeOK, UserTypeOK, Order, OrderId
  <2>2. o.id < IF Pushing(o.from) THEN nextId[o.from] - 1 ELSE nextId[o.from]
    BY DEF FlowInv, AckedTaken
  <2>3. CASE o.from = u
    BY <1>1, <2>1, <2>2, <2>3 DEF Pushing
  <2>4. CASE o.from # u
    BY <1>1, <2>1, <2>2, <2>4 DEF Pushing
  <2> QED
    BY <2>3, <2>4
<1>3. SlotsHold => SlotsHold'
  <2>1. \A v \in Users : upc'[v] \in {"order", "store"} =>
           upc'[v] = upc[v] /\ CurrentOrder(v)' = CurrentOrder(v)
    BY <1>1 DEF CurrentOrder
  <2>2. UNCHANGED <<ring, head, tail, ipc, tmp>>
    BY <1>1 DEF ingress, router
  <2> QED
    BY <2>1, <2>2 DEF SlotsHold, WellFormed
<1>4. Pending' = Pending /\ Lane' = Lane
  BY <1>1, PendingFrame, LaneFrame DEF router, symbol, response
<1>5. raced' \/ UNCHANGED raced
  BY DEF UserBegin, IInv, TypeOK, UserTypeOK
<1>6. ContractStep
  BY <1>1, <1>4, <1>5, ContractIdle DEF symbol, response, life
<1> QED
  BY <1>1, <1>2, <1>3, <1>4, <1>6, FlowFrame DEF FlowInv, life

LEMMA UserTestKeepsFlow ==
    ASSUME IInv, FlowInv, NEW u \in Users, UserTest(u)
    PROVE  FlowInv' /\ ContractStep
<1>1. /\ upc[u] = "test" /\ \E pc \in {"loop", "header"} : upc' = [upc EXCEPT ![u] = pc]
      /\ upc \in [Users -> {"loop", "test", "header", "order", "store"}]
      /\ nextId \in [Users -> 0 .. MaxOrders]
      /\ ~terminated
      /\ UNCHANGED <<ingress, nextId, acked, raced, router, symbol, response, life>>
  BY DEF UserTest, Alive, IInv, TypeOK, UserTypeOK
<1>2. AckedTaken'
  <2> SUFFICES ASSUME NEW o \in acked
               PROVE  o.id < IF Pushing(o.from)' THEN nextId[o.from] - 1 ELSE nextId[o.from]
    BY <1>1 DEF FlowInv, AckedTaken
  <2>1. o.from \in Users /\ o.id \in Nat /\ nextId[o.from] \in Nat
    BY <1>1, GatewayAssumption DEF IInv, TypeOK, UserTypeOK, Order, OrderId
  <2>2. o.id < IF Pushing(o.from) THEN nextId[o.from] - 1 ELSE nextId[o.from]
    BY DEF FlowInv, AckedTaken
  <2>3. Pushing(o.from)' => Pushing(o.from)
    BY <1>1, <2>1 DEF Pushing
  <2> QED
    BY <2>1, <2>2, <2>3
<1>3. SlotsHold => SlotsHold'
  <2>1. \A v \in Users : upc'[v] \in {"order", "store"} => upc'[v] = upc[v]
    BY <1>1
  <2>2. UNCHANGED <<ring, head, tail, ipc, tmp, nextId>>
    BY <1>1 DEF ingress, router
  <2> QED
    BY <2>1, <2>2 DEF SlotsHold, WellFormed, CurrentOrder
<1>4. Pending' = Pending /\ Lane' = Lane
  BY <1>1, PendingFrame, LaneFrame DEF router, symbol, response
<1>5. ContractStep
  BY <1>1, <1>4, ContractIdle DEF symbol, response, life
<1> QED
  BY <1>1, <1>2, <1>3, <1>4, <1>5, FlowFrame DEF FlowInv, life

(***************************************************************************)
(* The copy into the slot.  Alone, it writes into a slot that holds no     *)
(* message, so neither the queued messages nor the one being popped        *)
(* change.                                                                 *)
(***************************************************************************)
LEMMA OtherSlots ==
    ASSUME IInv, ~raced, NEW u \in Users, upc[u] \in {"header", "order", "store"}
    PROVE  /\ uhead[u] = head /\ \A v \in Users : upc[v] # "loop" => v = u
           /\ Slot(head) \in Slots /\ ring[Slot(head)] \in Message
           /\ Dist(head, tail) \in Nat /\ Dist(head, tail) < BufferSize
           /\ \A i \in 1 .. Dist(head, tail) :
                 Slot(tail + i - 1) \in Slots /\ Slot(tail + i - 1) # Slot(head)
           /\ ipc \in {"header", "order", "store"} =>
                 Slot(tail) \in Slots /\ Slot(tail) # Slot(head)
<1>1. head \in Index /\ tail \in Index /\ Index \subseteq Int
  BY DEF IInv, TypeOK, IngressTypeOK, Index
<1>2. uhead[u] = head /\ \A v \in Users : upc[v] # "loop" => v = u
  BY DEF IInv, AlonePushing, Pushing
<1>3. Dist(head, tail) \in Nat /\ Dist(head, tail) < BufferSize
  <2>1. Dist(head, tail) \in Nat
    BY <1>1, DistValue DEF Index
  <2> QED
    BY <2>1 DEF IInv, RingBounded
<1>4. Slot(head) \in Slots /\ ring[Slot(head)] \in Message
  BY <1>1, SlotInRange DEF IInv, TypeOK, IngressTypeOK
<1>5. \A i \in 1 .. Dist(head, tail) :
         Slot(tail + i - 1) \in Slots /\ Slot(tail + i - 1) # Slot(head)
  <2> SUFFICES ASSUME NEW i \in 1 .. Dist(head, tail)
               PROVE  Slot(tail + i - 1) \in Slots /\ Slot(tail + i - 1) # Slot(head)
    OBVIOUS
  <2>1. tail + i - 1 \in Int
    BY <1>1, <1>3
  <2> QED
    BY <1>1, <1>3, <2>1, SlotInRange, FreeSlot
<1>6. ipc \in {"header", "order", "store"} =>
         Slot(tail) \in Slots /\ Slot(tail) # Slot(head)
  <2> SUFFICES ASSUME ipc \in {"header", "order", "store"}
               PROVE  Slot(tail) \in Slots /\ Slot(tail) # Slot(head)
    OBVIOUS
  <2>1. Dist(head, tail) # 0
    BY <1>1, DistZero DEF IInv, RingBounded
  <2>2. 1 \in 1 .. Dist(head, tail) /\ tail + 1 - 1 = tail
    BY <1>1, <1>3, <2>1
  <2> QED
    BY <1>5, <2>2
<1> QED
  BY <1>2, <1>3, <1>4, <1>5, <1>6

LEMMA UserWriteKeepsFlow ==
    ASSUME IInv, FlowInv, NEW u \in Users, UserWriteHeader(u) \/ UserWriteOrder(u)
    PROVE  FlowInv' /\ ContractStep
<1>1. /\ upc[u] \in {"header", "order"}
      /\ \E pc \in {"order", "store"} : upc' = [upc EXCEPT ![u] = pc]
      /\ upc \in [Users -> {"loop", "test", "header", "order", "store"}]
      /\ ~terminated
      /\ UNCHANGED <<head, tail, uhead, nextId, acked, raced, router, symbol, response, life>>
  BY DEF UserWriteHeader, UserWriteOrder, Alive, IInv, TypeOK, UserTypeOK
<1>2. AckedTaken'
  <2>1. \A o \in acked : o.from \in Users
    BY DEF IInv, TypeOK, UserTypeOK, Order
  <2>2. \A v \in Users : Pushing(v)' = Pushing(v)
    BY <1>1 DEF Pushing
  <2> QED
    BY <1>1, <2>1, <2>2 DEF FlowInv, AckedTaken
<1>3. ASSUME ~raced PROVE SlotsHold' /\ Pending' = Pending
  <2> DEFINE h == Slot(head)
  <2>1. /\ uhead[u] = head /\ \A v \in Users : upc[v] # "loop" => v = u
        /\ h \in Slots /\ ring[h] \in Message /\ ring \in [Slots -> Message]
        /\ Dist(head, tail) \in Nat
        /\ \A i \in 1 .. Dist(head, tail) : Slot(tail + i - 1) \in Slots \ {h}
        /\ ipc \in {"header", "order", "store"} => Slot(tail) \in Slots \ {h}
    BY <1>1, <1>3, OtherSlots DEF IInv, TypeOK, IngressTypeOK
  <2>2. \A s \in Slots \ {h} : ring'[s] = ring[s]
    BY <2>1 DEF UserWriteHeader, UserWriteOrder
  <2>3. upc' \in [Users -> {"loop", "test", "header", "order", "store"}]
        /\ \A v \in Users : upc'[v] \in {"order", "store"} => v = u
    BY <1>1, <2>1
  <2>4. /\ ring'[h].conn = u /\ ring'[h].symbol = SymbolOf[u]
        /\ upc'[u] = "store" => ring'[h].order = CurrentOrder(u)
    <3>1. CASE UserWriteHeader(u)
      <4>1. ring' = [ring EXCEPT ![h] = [@ EXCEPT !.conn = u, !.symbol = SymbolOf[u]]]
        BY <2>1, <3>1 DEF UserWriteHeader, Message
      <4>2. upc'[u] = "order"
        BY <1>1, <3>1 DEF UserWriteHeader
      <4> QED
        BY <2>1, <4>1, <4>2 DEF Message
    <3>2. CASE UserWriteOrder(u)
      <4>1. ring' = [ring EXCEPT ![h] = [@ EXCEPT !.order = CurrentOrder(u)]]
        BY <2>1, <3>2 DEF UserWriteOrder
      <4>2. upc[u] = "order" /\ ring[h].conn = u /\ ring[h].symbol = SymbolOf[u]
        BY <1>3, <3>2 DEF FlowInv, SlotsHold, UserWriteOrder
      <4> QED
        BY <2>1, <4>1, <4>2 DEF Message
    <3> QED
      BY <3>1, <3>2
  <2>5. UNCHANGED <<head, tail, ipc, tmp, nextId>> /\ SlotsHold
    BY <1>1, <1>3 DEF router, FlowInv
  <2>6. SlotsHold'
    <3>1. \A i \in 1 .. Dist(head, tail) : WellFormed(ring'[Slot(tail + i - 1)])
      BY <2>1, <2>2, <2>5 DEF SlotsHold
    <3>2. ipc \in {"header", "order", "store"} => ring'[Slot(tail)] = ring[Slot(tail)]
      BY <2>1, <2>2
    <3> QED
      BY <2>3, <2>4, <2>5, <3>1, <3>2 DEF SlotsHold, WellFormed, CurrentOrder
  <2>7. Pending' = Pending
    <3>1. InRing' = InRing
      BY <2>1, <2>2, <2>5 DEF InRing
    <3>2. InHand' = InHand
      BY <2>5 DEF InHand
    <3> QED
      BY <3>1, <3>2 DEF Pending
  <2> QED
    BY <2>6, <2>7
<1>4. Lane' = Lane
  BY <1>1, LaneFrame DEF symbol, response
<1>5. ContractStep
  <2>1. UNCHANGED <<processed, told, terminated, raced>>
    BY <1>1 DEF symbol, response, life
  <2> QED
    BY <1>3, <1>4, <2>1, ContractIdle, ContractVoid
<1> QED
  BY <1>1, <1>2, <1>3, <1>4, <1>5, FlowFrame DEF FlowInv, life

(***************************************************************************)
(* The store of head adds the order to the pending ones, as their last.    *)
(***************************************************************************)
LEMMA UserStoreKeepsFlow ==
    ASSUME IInv, FlowInv, NEW u \in Users, UserStore(u)
    PROVE  FlowInv' /\ ContractStep
<1> DEFINE o == CurrentOrder(u)
<1>1. /\ upc[u] = "store" /\ upc' = [upc EXCEPT ![u] = "loop"]
      /\ upc \in [Users -> {"loop", "test", "header", "order", "store"}]
      /\ nextId \in [Users -> 0 .. MaxOrders]
      /\ ~terminated
      /\ head' = Inc(uhead[u]) /\ acked' = acked \cup {o}
      /\ UNCHANGED <<ring, tail, uhead, nextId, raced, router, symbol, response, life>>
  BY DEF UserStore, Alive, IInv, TypeOK, UserTypeOK
<1>2. o \in Order /\ o.from = u /\ o.id = nextId[u] - 1 /\ nextId[u] \in Nat
  <2>1. nextId[u] \in 0 .. MaxOrders /\ nextId[u] > 0
    BY <1>1 DEF IInv, IdTaken, Pushing
  <2>2. nextId[u] - 1 \in OrderId
    BY <2>1, GatewayAssumption DEF OrderId
  <2> QED
    BY <2>1, <2>2 DEF CurrentOrder, Order
<1>3. \A a \in acked : a \in Order /\ a.from \in Users /\ a.id \in Nat
  BY GatewayAssumption DEF IInv, TypeOK, UserTypeOK, Order, OrderId
<1>4. \A a \in acked : a.from = u => a.id < o.id
  <2> SUFFICES ASSUME NEW a \in acked, a.from = u PROVE a.id < o.id
    OBVIOUS
  <2>1. a.id < IF Pushing(a.from) THEN nextId[a.from] - 1 ELSE nextId[a.from]
    BY DEF FlowInv, AckedTaken
  <2> QED
    BY <1>1, <1>2, <2>1 DEF Pushing
<1>5. AckedTaken'
  <2>1. IsFiniteSet(acked')
    BY <1>1, FS_AddElement DEF FlowInv, AckedTaken
  <2> SUFFICES ASSUME NEW a \in acked'
               PROVE  a.id < IF Pushing(a.from)' THEN nextId'[a.from] - 1 ELSE nextId'[a.from]
    BY <2>1 DEF AckedTaken
  <2>2. CASE a = o
    BY <1>1, <1>2, <2>2 DEF Pushing
  <2>3. CASE a \in acked /\ a.from = u
    BY <1>1, <1>2, <1>3, <1>4, <2>3 DEF Pushing
  <2>4. CASE a \in acked /\ a.from # u
    BY <1>1, <1>3, <2>4 DEF FlowInv, AckedTaken, Pushing
  <2> QED
    BY <1>1, <2>2, <2>3, <2>4
<1>6. ASSUME ~raced PROVE SlotsHold' /\ Pending' = Append(Pending, o)
  <2> DEFINE n == Dist(head, tail)
  <2>1. /\ uhead[u] = head /\ \A v \in Users : upc[v] # "loop" => v = u
        /\ n \in Nat /\ n < BufferSize
    BY <1>1, <1>6, OtherSlots
  <2>2. head \in Index /\ tail \in Index
    BY DEF IInv, TypeOK, IngressTypeOK
  <2>3. Dist(head', tail') = n + 1
    BY <1>1, <2>1, <2>2, DistIncAhead, Sizes
  <2>4. Slot(tail + n) = Slot(head) /\ tail + (n + 1) - 1 = tail + n
    BY <2>1, <2>2, SlotAhead DEF Index
  <2>5. SlotsHold
    BY <1>6 DEF FlowInv
  <2>6. /\ ring[Slot(head)].order = o /\ ring[Slot(head)].conn = u
        /\ ring[Slot(head)].symbol = SymbolOf[u]
    BY <1>1, <2>5 DEF SlotsHold
  <2>7. WellFormed(ring[Slot(head)])
    BY <1>2, <2>6 DEF WellFormed
  <2>8. SlotsHold'
    <3>1. \A i \in 1 .. (n + 1) : WellFormed(ring[Slot(tail + i - 1)])
      <4> SUFFICES ASSUME NEW i \in 1 .. (n + 1) PROVE WellFormed(ring[Slot(tail + i - 1)])
        OBVIOUS
      <4>1. CASE i = n + 1
        BY <2>4, <2>7, <4>1
      <4>2. CASE i \in 1 .. n
        BY <2>5, <4>2 DEF SlotsHold
      <4> QED
        BY <2>1, <4>1, <4>2
    <3>2. \A v \in Users : upc'[v] = "loop"
      BY <1>1, <2>1
    <3>3. UNCHANGED <<ring, tail, ipc, tmp>>
      BY <1>1 DEF router
    <3> HIDE DEF n
    <3> QED
      BY <2>3, <2>5, <3>1, <3>2, <3>3 DEF SlotsHold, WellFormed
  <2>9. InRing' = Append(InRing, o)
    <3>1. InRing \in Seq(Order) /\ Len(InRing) = n
      BY <2>5, PendingParts
    <3>2. InRing' = [i \in 1 .. (n + 1) |-> ring[Slot(tail + i - 1)].order]
      BY <1>1, <2>3 DEF InRing
    <3>3. \A i \in 1 .. n : InRing[i] = ring[Slot(tail + i - 1)].order
      BY DEF InRing
    <3> HIDE DEF n, o
    <3>4. ring[Slot(tail + (n + 1) - 1)].order = o
      BY <2>4, <2>6
    <3>5. \A i \in 1 .. (n + 1) :
             ring[Slot(tail + i - 1)].order = IF i <= n THEN InRing[i] ELSE o
      <4> SUFFICES ASSUME NEW i \in 1 .. (n + 1)
                   PROVE  ring[Slot(tail + i - 1)].order = IF i <= n THEN InRing[i] ELSE o
        OBVIOUS
      <4>1. CASE i <= n
        BY <2>1, <3>3, <4>1
      <4>2. CASE i = n + 1
        BY <2>1, <3>4, <4>2
      <4> QED
        BY <2>1, <4>1, <4>2
    <3>6. \A i \in 1 .. n : InRing[i] \in Order
      BY <3>1
    <3>7. InRing' \in Seq(Order) /\ Len(InRing') = n + 1
      <4>1. \A i \in 1 .. (n + 1) : ring[Slot(tail + i - 1)].order \in Order
        <5>1. \A i \in 1 .. (n + 1) : i \in 1 .. n \/ ~(i <= n)
          BY <2>1
        <5> QED
          BY <1>2, <3>5, <3>6, <5>1
      <4>2. n + 1 \in Nat
        BY <2>1
      <4> QED
        BY <3>2, <4>1, <4>2
    <3>8. /\ Append(InRing, o) \in Seq(Order) /\ Len(Append(InRing, o)) = n + 1
          /\ \A i \in 1 .. n : Append(InRing, o)[i] = InRing[i]
          /\ Append(InRing, o)[n + 1] = o
      BY <1>2, <3>1, AppendElements
    <3>9. \A i \in 1 .. (n + 1) : InRing'[i] = Append(InRing, o)[i]
      BY <2>1, <3>2, <3>5, <3>8
    <3> QED
      BY <3>7, <3>8, <3>9, SeqEqual
  <2>10. InHand' = InHand
    BY <1>1 DEF InHand, router
  <2>11. InHand \in Seq(Order) /\ InRing \in Seq(Order)
    BY <2>5, PendingParts
  <2> QED
    BY <1>2, <2>8, <2>9, <2>10, <2>11, ConcatAppend DEF Pending
<1>7. Lane' = Lane
  BY <1>1, LaneFrame DEF symbol, response
<1>8. ASSUME ~raced PROVE Flow(Pending', Lane', acked', ~terminated')
  <2>1. Flow(Pending, Lane, acked, TRUE) /\ ~terminated'
    BY <1>1, <1>8 DEF FlowInv, life
  <2>2. Flow(Append(Pending, o), Lane, acked \cup {o}, TRUE)
    BY <1>2, <1>4, <2>1, FlowPush
  <2> QED
    BY <1>1, <1>6, <1>7, <1>8, <2>1, <2>2
<1>9. ContractStep
  <2>1. UNCHANGED <<processed, told, terminated, raced>>
    BY <1>1 DEF symbol, response, life
  <2>2. ~raced => Flow(Pending, Lane, acked, TRUE)
    BY <1>1 DEF FlowInv
  <2> HIDE DEF o
  <2>3. CASE ~raced
    <3>1. Pending' = Append(Pending, o)
      BY <1>6, <2>3
    <3> QED
      BY <1>1, <1>2, <1>4, <1>7, <2>1, <2>2, <2>3, <3>1, ContractAcknowledge
  <2> QED
    BY <2>1, <2>3, ContractVoid
<1> QED
  BY <1>1, <1>5, <1>6, <1>8, <1>9, FlowFrame DEF FlowInv, life

-----------------------------------------------------------------------------
(***************************************************************************)
(* The ingress thread copies the first message of the ring, in two parts.  *)
(***************************************************************************)
LEMMA IngressReadKeepsFlow ==
    ASSUME IInv, FlowInv, IngressPoll \/ IngressReadHeader \/ IngressReadOrder
    PROVE  FlowInv' /\ ContractStep
<1>1. /\ ipc # "route" /\ ipc' # "route" /\ ~terminated
      /\ UNCHANGED <<ingress, user, symbol, response, life>>
  BY DEF IngressPoll, IngressReadHeader, IngressReadOrder, Alive
<1>2. ASSUME SlotsHold PROVE SlotsHold'
  <2>1. /\ UNCHANGED <<ring, head, tail, upc, nextId>>
        /\ tmp \in Message /\ ring[Slot(tail)] \in Message
    <3>1. tail \in Int
      BY DEF IInv, TypeOK, IngressTypeOK, Index
    <3> QED
      BY <1>1, <3>1, SlotInRange
      DEF IInv, TypeOK, IngressTypeOK, RouterTypeOK, ingress, user
  <2>2. /\ ipc' \in {"order", "store"} =>
              tmp'.conn = ring[Slot(tail)].conn /\ tmp'.symbol = ring[Slot(tail)].symbol
        /\ ipc' = "store" => tmp'.order = ring[Slot(tail)].order
    <3>1. CASE IngressPoll
      BY <3>1 DEF IngressPoll
    <3>2. CASE IngressReadHeader
      BY <2>1, <3>2 DEF IngressReadHeader, Message
    <3>3. CASE IngressReadOrder
      <4>1. tmp.conn = ring[Slot(tail)].conn /\ tmp.symbol = ring[Slot(tail)].symbol
        BY <1>2, <3>3 DEF IngressReadOrder, SlotsHold
      <4>2. tmp' = [tmp EXCEPT !.order = ring[Slot(tail)].order]
        BY <3>3 DEF IngressReadOrder
      <4> QED
        BY <2>1, <4>1, <4>2 DEF Message
    <3> QED
      BY <3>1, <3>2, <3>3
  <2> QED
    BY <1>1, <1>2, <2>1, <2>2 DEF SlotsHold, WellFormed, CurrentOrder
<1>3. Pending' = Pending /\ Lane' = Lane
  BY <1>1, PendingFrame, LaneFrame DEF symbol, response
<1>4. ContractStep
  BY <1>1, <1>3, ContractIdle DEF user, symbol, response, life
<1> QED
  BY <1>1, <1>2, <1>3, <1>4, FlowFrame DEF FlowInv, life, user

(***************************************************************************)
(* The store of tail moves the order from the ring to the hands of the     *)
(* ingress thread: the pending orders are the same ones.                   *)
(***************************************************************************)
LEMMA IngressStoreKeepsFlow ==
    ASSUME IInv, FlowInv, IngressStore
    PROVE  FlowInv' /\ ContractStep
<1> DEFINE n == Dist(head, tail)
<1>1. /\ ipc = "store" /\ ipc' = "route" /\ ~terminated
      /\ tail' = Inc(tail)
      /\ UNCHANGED <<ring, head, user, tmp, symbol, response, life>>
  BY DEF IngressStore, Alive
<1>2. head \in Index /\ tail \in Index /\ Index \subseteq Int
  BY DEF IInv, TypeOK, IngressTypeOK, Index
<1>3. ASSUME ~raced PROVE SlotsHold' /\ Pending' = Pending
  <2>1. SlotsHold
    BY <1>3 DEF FlowInv
  <2>2. head # tail /\ n \in Nat \ {0}
    <3>1. head # tail
      BY <1>1, <1>3 DEF IInv, RingBounded
    <3> QED
      BY <1>2, <2>1, <3>1, DistZero, PendingParts
  <2>3. Dist(head', tail') = n - 1
    BY <1>1, <1>2, <2>2, DistIncBehind
  <2>4. \A i \in Nat : Slot(tail' + i - 1) = Slot(tail + (i + 1) - 1)
    <3> SUFFICES ASSUME NEW i \in Nat PROVE Slot(tail' + i - 1) = Slot(tail + i)
      BY <1>2
    <3>1. tail' = IF tail + 1 = Modulus THEN 0 ELSE tail + 1
      BY <1>1, <1>2, IncValue
    <3>2. CASE tail + 1 = Modulus
      <4>1. tail' + i - 1 = (tail + i) - Modulus
        BY <1>2, <3>1, <3>2, Sizes
      <4> QED
        BY <1>2, <4>1, SlotOfWrapped
    <3>3. CASE tail + 1 # Modulus
      BY <1>2, <3>1, <3>3
    <3> QED
      BY <3>2, <3>3
  <2>5. /\ 1 \in 1 .. n /\ Slot(tail + 1 - 1) = Slot(tail)
        /\ tmp.conn = ring[Slot(tail)].conn /\ tmp.symbol = ring[Slot(tail)].symbol
        /\ tmp.order = ring[Slot(tail)].order
    BY <1>1, <1>2, <2>1, <2>2 DEF SlotsHold
  <2>6. WellFormed(tmp)
    BY <2>1, <2>5 DEF SlotsHold, WellFormed
  <2>7. SlotsHold'
    <3>1. \A i \in 1 .. (n - 1) : WellFormed(ring[Slot(tail' + i - 1)])
      <4> SUFFICES ASSUME NEW i \in 1 .. (n - 1) PROVE WellFormed(ring[Slot(tail' + i - 1)])
        OBVIOUS
      <4>1. i + 1 \in 1 .. n /\ i \in Nat
        BY <2>2
      <4> QED
        BY <2>1, <2>4, <4>1 DEF SlotsHold
    <3>2. UNCHANGED <<ring, head, tmp, upc, nextId>>
      BY <1>1 DEF user
    <3> HIDE DEF n
    <3> QED
      BY <1>1, <2>1, <2>3, <2>6, <3>1, <3>2 DEF SlotsHold, WellFormed, CurrentOrder
  <2>8. InRing \in Seq(Order) /\ Len(InRing) = n /\ InRing # << >>
    BY <2>1, <2>2, PendingParts
  <2>9. /\ InRing[1] = tmp.order
        /\ \A i \in 1 .. (n - 1) : InRing[i + 1] = ring[Slot(tail' + i - 1)].order
    <3>1. \A i \in 1 .. n : InRing[i] = ring[Slot(tail + i - 1)].order
      BY DEF InRing
    <3>2. \A i \in 1 .. (n - 1) : i + 1 \in 1 .. n /\ i \in Nat
      BY <2>2
    <3> HIDE DEF n
    <3> QED
      BY <2>4, <2>5, <3>1, <3>2
  <2>10. InRing' = Tail(InRing)
    <3>1. InRing' = [i \in 1 .. (n - 1) |-> ring[Slot(tail' + i - 1)].order]
      BY <1>1, <2>3 DEF InRing
    <3> HIDE DEF n
    <3>2. /\ Tail(InRing) \in Seq(Order) /\ Len(Tail(InRing)) = n - 1
          /\ \A i \in 1 .. (n - 1) : Tail(InRing)[i] = InRing[i + 1]
      BY <2>8, TailElements
    <3>3. \A i \in 1 .. (n - 1) : ring[Slot(tail' + i - 1)].order = Tail(InRing)[i]
      BY <2>9, <3>2
    <3>4. InRing' \in Seq(Order) /\ Len(InRing') = n - 1
      <4>1. \A i \in 1 .. (n - 1) : Tail(InRing)[i] \in Order
        BY <3>2
      <4>2. n - 1 \in Nat
        BY <2>2
      <4> QED
        <5>1. \A i \in 1 .. (n - 1) : ring[Slot(tail' + i - 1)].order \in Order
          BY <3>3, <4>1
        <5> QED
          BY <3>1, <4>2, <5>1
    <3>5. \A i \in 1 .. (n - 1) : InRing'[i] = Tail(InRing)[i]
      BY <3>1, <3>3
    <3> QED
      BY <3>2, <3>4, <3>5, SeqEqual
  <2>11. InHand = << >> /\ InHand' = <<Head(InRing)>>
    <3>1. Head(InRing) = tmp.order
      BY <2>8, <2>9, TailElements
    <3> QED
      BY <1>1, <3>1 DEF InHand
  <2>12. <<Head(InRing)>> \o Tail(InRing) = InRing /\ << >> \o InRing = InRing
    BY <2>8, HeadTailAppend, HeadTailProperties, ConcatEmptySeq, AppendIsConcat
  <2> QED
    BY <2>7, <2>10, <2>11, <2>12 DEF Pending
<1>4. Lane' = Lane
  BY <1>1, LaneFrame DEF symbol, response
<1>5. ContractStep
  <2>1. UNCHANGED <<processed, told, terminated, raced>>
    BY <1>1 DEF user, symbol, response, life
  <2> QED
    BY <1>3, <1>4, <2>1, ContractIdle, ContractVoid
<1> QED
  BY <1>1, <1>3, <1>4, <1>5, FlowFrame DEF FlowInv, life, user

(***************************************************************************)
(* The ingress thread is done with the order in its hands.                 *)
(***************************************************************************)
LEMMA HandEmptied ==
    ASSUME IInv, SlotsHold, ipc = "route", ipc' = "loop", UNCHANGED <<ingress, user>>
    PROVE  /\ SlotsHold'
           /\ WellFormed(tmp) /\ tmp.order \in Order /\ tmp.conn \in Users
           /\ Pending # << >> /\ Head(Pending) = tmp.order /\ Pending' = Tail(Pending)
<1>1. SlotsHold'
  BY DEF SlotsHold, WellFormed, CurrentOrder, ingress, user
<1>2. WellFormed(tmp) /\ tmp.order \in Order /\ tmp.conn \in Users
  BY DEF SlotsHold, WellFormed, Order
<1>3. InRing' = InRing /\ InHand' = << >> /\ InHand = <<tmp.order>>
  BY DEF InRing, InHand, ingress
<1>4. InRing \in Seq(Order)
  BY PendingParts
<1>5. /\ <<tmp.order>> \o InRing \in Seq(Order)
      /\ <<tmp.order>> \o InRing # << >>
      /\ Head(<<tmp.order>> \o InRing) = tmp.order
      /\ Tail(<<tmp.order>> \o InRing) = InRing
      /\ << >> \o InRing = InRing
  BY <1>2, <1>4
<1> QED
  BY <1>1, <1>2, <1>3, <1>5 DEF Pending

(***************************************************************************)
(* An order enters the queue of its symbol.                                *)
(***************************************************************************)
LEMMA RouteKeepsFlow ==
    ASSUME IInv, FlowInv, Route
    PROVE  FlowInv' /\ ContractStep
<1> PICK s \in Symbols : s = tmp.symbol
  BY DEF Route
<1>1. /\ ipc = "route" /\ ipc' = "loop" /\ ~terminated
      /\ s = tmp.symbol
      /\ symQ' = [symQ EXCEPT ![s] = Append(@, tmp.order)]
      /\ \E lag \in 0 .. symLag[s] : /\ Len(symQ[s]) + lag < SymbolSize
                                     /\ symLag' = [symLag EXCEPT ![s] = lag]
      /\ UNCHANGED <<ingress, user, processed, response, life>>
  BY DEF Route, Alive
<1>2. /\ symQ \in [Symbols -> Seq(Order \cup {NoOrder})]
      /\ processed \in [Symbols -> Seq(Order \cup {NoOrder})]
      /\ symLag \in [Symbols -> Nat]
  BY DEF IInv, TypeOK, SymbolTypeOK
<1>3. LagsPopped'
  <2> SUFFICES ASSUME NEW t \in Symbols PROVE symLag'[t] <= Len(processed[t])
    BY <1>1 DEF FlowInv, LagsPopped, response
  <2>1. symLag[t] <= Len(processed[t]) /\ Len(processed[t]) \in Nat
    BY <1>2 DEF FlowInv, LagsPopped
  <2>2. symLag'[t] <= symLag[t] /\ symLag'[t] \in Nat
    BY <1>1, <1>2
  <2> QED
    BY <1>2, <2>1, <2>2
<1>4. Lane' = [Lane EXCEPT ![s] = Append(@, tmp.order)]
  <2>1. tmp.order \in Order \cup {NoOrder}
    BY DEF IInv, TypeOK, RouterTypeOK, Message
  <2>2. Accepted(s)' = Append(Accepted(s), tmp.order)
    <3> DEFINE T == Order \cup {NoOrder}
    <3>1. symQ[s] \in Seq(T) /\ processed[s] \in Seq(T) /\ tmp.order \in T
      BY <1>1, <1>2, <2>1
    <3>2. symQ'[s] = Append(symQ[s], tmp.order) /\ processed'[s] = processed[s]
      BY <1>1, <1>2
    <3> HIDE DEF T
    <3>3. \A q, r \in Seq(T), e \in T : q \o Append(r, e) = Append(q \o r, e)
      BY ConcatAppend
    <3>4. processed[s] \o Append(symQ[s], tmp.order) = Append(processed[s] \o symQ[s], tmp.order)
      BY <3>1, <3>3
    <3> QED
      BY <3>2, <3>4 DEF Accepted
  <2>3. \A t \in Symbols \ {s} : Accepted(t)' = Accepted(t)
    BY <1>1, <1>2 DEF Accepted
  <2>4. Rejected' = Rejected
    BY <1>1 DEF Rejected, response
  <2>5. s # Responder
    BY <1>1, GatewayAssumption
  <2> QED
    BY <1>1, <2>2, <2>3, <2>4, <2>5 DEF Lane, Lanes
<1>5. ASSUME ~raced PROVE SlotsHold' /\ Flow(Pending', Lane', acked, TRUE) /\ ContractStep
  <2>1. SlotsHold /\ Flow(Pending, Lane, acked, TRUE)
    BY <1>1, <1>5 DEF FlowInv
  <2>2. /\ SlotsHold' /\ WellFormed(tmp)
        /\ Pending # << >> /\ Head(Pending) = tmp.order /\ Pending' = Tail(Pending)
    BY <1>1, <2>1, HandEmptied
  <2>3. s = SymbolOf[Head(Pending).from] /\ s \in Lanes
    BY <1>1, <2>2 DEF WellFormed, Lanes
  <2>4. Flow(Tail(Pending), [Lane EXCEPT ![s] = Append(@, Head(Pending))], acked, TRUE)
    BY <2>1, <2>2, <2>3, FlowMove
  <2>5. Len(symQ[s]) < SymbolSize
    BY <1>1, <1>2, GatewayAssumption
  <2>6. UNCHANGED <<processed, told, terminated, raced>> /\ s # Responder
    BY <1>1, GatewayAssumption DEF user, response, life
  <2>7. ContractStep
    BY <1>1, <1>4, <1>5, <2>2, <2>3, <2>5, <2>6, ContractMove
  <2> QED
    BY <1>4, <2>2, <2>4, <2>7
<1>6. raced => ContractStep
  BY <1>1, ContractVoid DEF user
<1> QED
  BY <1>1, <1>3, <1>5, <1>6, FlowFrame DEF FlowInv, life, user

(***************************************************************************)
(* An order is rejected, and joins the lane of the rejected.  But if the   *)
(* response queue has no room, std::terminate drops it: then the symbol    *)
(* queue and the response queue have taken as many orders as they hold,    *)
(* and this is one more.                                                   *)
(***************************************************************************)
LEMMA RejectedAppended ==
    ASSUME IInv, WellFormed(tmp), UNCHANGED told,
           respQ' = Append(respQ, [conn |-> tmp.conn, id |-> tmp.order.id])
    PROVE  Rejected' = Append(Rejected, tmp.order)
<1> DEFINE r == [conn |-> tmp.conn, id |-> tmp.order.id]
           q == told \o respQ
<1>1. /\ told \in Seq(Response) /\ respQ \in Seq(Response) /\ r \in Response
      /\ tmp.order \in Order /\ tmp.order = [from |-> r.conn, id |-> r.id]
  BY DEF IInv, TypeOK, ResponseTypeOK, WellFormed, Order, Response
<1>2. told' \o respQ' = Append(q, r) /\ q \in Seq(Response)
  <2> HIDE DEF r
  <2>1. respQ' = Append(respQ, r)
    BY DEF r
  <2> QED
    BY <1>1, <2>1, ConcatAppend, ConcatProperties
<1> DEFINE Told(a) == [from |-> a.conn, id |-> a.id]
<1>3. Rejected = [i \in DOMAIN q |-> Told(q[i])]
  BY DEF Rejected
<1>4. Rejected' = [i \in DOMAIN Append(q, r) |-> Told(Append(q, r)[i])]
  BY <1>2 DEF Rejected
<1>5. \A a \in Response : Told(a) \in Order
  BY DEF Response, Order
<1> HIDE DEF q, r
<1>6. /\ DOMAIN q = 1 .. Len(q) /\ Len(q) \in Nat
      /\ \A i \in 1 .. Len(q) : q[i] \in Response
  BY <1>2
<1>7. /\ DOMAIN Append(q, r) = 1 .. (Len(q) + 1)
      /\ \A i \in 1 .. Len(q) : Append(q, r)[i] = q[i]
      /\ Append(q, r)[Len(q) + 1] = r
  BY <1>1, <1>2, AppendElements
<1>8. \A i \in 1 .. (Len(q) + 1) : i \in 1 .. Len(q) \/ i = Len(q) + 1
  BY <1>6
<1>9. Told(r) = tmp.order
  BY <1>1
<1> HIDE DEF Told
<1>10. Rejected \in Seq(Order) /\ Len(Rejected) = Len(q)
  BY <1>3, <1>5, <1>6
<1>11. Rejected' \in Seq(Order) /\ Len(Rejected') = Len(q) + 1
  <2>1. \A i \in 1 .. (Len(q) + 1) : Told(Append(q, r)[i]) \in Order
    BY <1>1, <1>5, <1>6, <1>7, <1>8
  <2> QED
    BY <1>4, <1>6, <1>7, <2>1
<1>12. /\ Append(Rejected, tmp.order) \in Seq(Order)
       /\ Len(Append(Rejected, tmp.order)) = Len(q) + 1
       /\ \A i \in 1 .. Len(q) : Append(Rejected, tmp.order)[i] = Rejected[i]
       /\ Append(Rejected, tmp.order)[Len(q) + 1] = tmp.order
  BY <1>1, <1>10, AppendElements
<1>13. \A i \in 1 .. (Len(q) + 1) : Rejected'[i] = Append(Rejected, tmp.order)[i]
  <2>1. \A i \in 1 .. Len(q) : Rejected'[i] = Rejected[i]
    <3>1. \A i \in 1 .. Len(q) : i \in 1 .. (Len(q) + 1)
      BY <1>6
    <3> QED
      BY <1>3, <1>4, <1>6, <1>7, <3>1
  <2>2. Rejected'[Len(q) + 1] = tmp.order
    <3>1. Len(q) + 1 \in 1 .. (Len(q) + 1)
      BY <1>6
    <3> QED
      BY <1>4, <1>7, <1>9, <3>1
  <2> QED
    BY <1>8, <1>12, <2>1, <2>2
<1> QED
  BY <1>11, <1>12, <1>13, SeqEqual

LEMMA RejectKeepsFlow ==
    ASSUME IInv, FlowInv, RejectInvalid \/ RejectFull
    PROVE  FlowInv' /\ ContractStep
<1>1. /\ ipc = "route" /\ ipc' = "loop" /\ ~terminated
      /\ \/ tmp.symbol \notin Symbols
         \/ Len(symQ[tmp.symbol]) + symLag[tmp.symbol] = SymbolSize
      /\ UNCHANGED <<ingress, user, symbol, told>>
  BY DEF RejectInvalid, RejectFull, Reject, Alive
<1>2. PICK lag \in 0 .. respLag :
         /\ respLag' = lag
         /\ IF Len(respQ) + lag < ResponseSize
            THEN /\ respQ' = Append(respQ, [conn |-> tmp.conn, id |-> tmp.order.id])
                 /\ UNCHANGED terminated
            ELSE /\ terminated' = TRUE
                 /\ UNCHANGED respQ
  BY DEF RejectInvalid, RejectFull, Reject, SendReject
<1>3. /\ respQ \in Seq(Response) /\ told \in Seq(Response) /\ respLag \in Nat
      /\ symQ \in [Symbols -> Seq(Order \cup {NoOrder})]
      /\ processed \in [Symbols -> Seq(Order \cup {NoOrder})]
      /\ symLag \in [Symbols -> Nat]
  BY DEF IInv, TypeOK, ResponseTypeOK, SymbolTypeOK
<1>4. AckedTaken'
  BY <1>1, FlowFrame DEF FlowInv
<1>5. LagsPopped'
  <2>1. respLag' <= respLag /\ respLag <= Len(told) /\ Len(told) \in Nat /\ respLag' \in Nat
    BY <1>2, <1>3 DEF FlowInv, LagsPopped
  <2>2. respLag' <= Len(told')
    BY <1>1, <1>3, <2>1
  <2> QED
    BY <1>1, <2>2 DEF FlowInv, LagsPopped, symbol
<1>6. ASSUME ~raced
      PROVE  /\ SlotsHold' /\ WellFormed(tmp)
             /\ Pending # << >> /\ Head(Pending) = tmp.order /\ Pending' = Tail(Pending)
             /\ Flow(Pending, Lane, acked, TRUE)
  BY <1>1, <1>6, HandEmptied DEF FlowInv
<1>7. UNCHANGED <<processed, told, raced>> /\ (raced => ContractStep)
  BY <1>1, ContractVoid DEF user, symbol
<1>8. lag \in Nat /\ lag <= respLag /\ Len(respQ) \in Nat /\ ResponseSize \in Nat
  BY <1>3, GatewayAssumption
<1>9. ASSUME ~raced
       PROVE  /\ tmp.symbol \in Symbols /\ tmp.symbol = SymbolOf[Head(Pending).from]
              /\ Len(symQ[tmp.symbol]) + symLag[tmp.symbol] = SymbolSize
  <2>1. WellFormed(tmp) /\ Head(Pending) = tmp.order
    BY <1>6, <1>9
  <2>2. tmp.symbol = SymbolOf[tmp.order.from] /\ tmp.order.from \in Users
    BY <2>1 DEF WellFormed, Order
  <2>3. tmp.symbol \in Symbols
    BY <2>2, GatewayAssumption
  <2> QED
    BY <1>1, <2>1, <2>2, <2>3
<1>10. CASE Len(respQ) + lag < ResponseSize
  <2>1. /\ respQ' = Append(respQ, [conn |-> tmp.conn, id |-> tmp.order.id])
        /\ ~terminated'
    BY <1>1, <1>2, <1>10
  <2>2. TerminationNeedsOverload'
    BY <2>1 DEF TerminationNeedsOverload
  <2>3. ASSUME ~raced PROVE Flow(Pending', Lane', acked, TRUE) /\ ContractStep
    <3>1. Lane' = [Lane EXCEPT ![Responder] = Append(@, Head(Pending))]
      <4>1. Rejected' = Append(Rejected, tmp.order)
        BY <1>1, <1>6, <2>1, <2>3, RejectedAppended
      <4>2. \A s \in Symbols : Accepted(s)' = Accepted(s)
        BY <1>1 DEF Accepted, symbol
      <4> QED
        BY <1>6, <2>3, <4>1, <4>2, LaneParts DEF Lane, Lanes
    <3>2. Responder \in Lanes /\ Responder \notin Symbols
      BY LaneParts, GatewayAssumption
    <3>3. Flow(Tail(Pending), [Lane EXCEPT ![Responder] = Append(@, Head(Pending))], acked, TRUE)
      BY <1>6, <2>3, <3>2, FlowMove
    <3>4. Len(respQ) < ResponseSize
      BY <1>10, <1>8
    <3>5. ContractStep
      <4> PICK s \in Symbols : /\ s = SymbolOf[Head(Pending).from]
                              /\ Len(symQ[s]) + symLag[s] = SymbolSize
        BY <1>9, <2>3
      <4>1. Pending # << >> /\ Pending' = Tail(Pending)
        BY <1>6, <2>3
      <4>2. Responder \in {s, Responder} /\ Responder # s /\ UNCHANGED terminated
        BY <1>1, <2>1, <3>2, <1>2, <1>10
      <4> QED
        BY <1>1, <1>7, <2>3, <3>1, <3>4, <4>1, <4>2, ContractMove
    <3> QED
      BY <1>6, <2>3, <3>1, <3>3, <3>5
  <2>4. FlowInv'
    BY <1>1, <1>4, <1>5, <1>6, <2>1, <2>2, <2>3 DEF FlowInv, user
  <2> QED
    BY <1>7, <2>3, <2>4
<1>11. CASE ~(Len(respQ) + lag < ResponseSize)
  <2>1. respQ' = respQ /\ terminated' = TRUE
    BY <1>2, <1>11
  <2>2. Lane' = Lane
    BY <1>1, <2>1, LaneFrame DEF symbol
  <2>3. ASSUME ~raced PROVE Flow(Pending', Lane', acked, FALSE)
    BY <1>6, <2>2, <2>3, FlowDrop
  <2>4. ASSUME ~raced PROVE ContractStep
    <3>1. Len(respQ) + respLag >= ResponseSize
      BY <1>3, <1>11, <1>8
    <3> QED
      <4> PICK s \in Symbols : /\ s = SymbolOf[Head(Pending).from]
                              /\ Len(symQ[s]) + symLag[s] = SymbolSize
        BY <1>9, <2>4
      <4>1. Pending # << >> /\ Pending' = Tail(Pending)
        BY <1>6, <2>4
      <4> QED
        BY <1>1, <1>7, <2>1, <2>2, <2>4, <3>1, <4>1, ContractDie
  <2>5. ASSUME ~raced PROVE Cardinality(acked) > SymbolSize + ResponseSize
    <3> PICK s \in Symbols : s = tmp.symbol
      BY <1>6, <2>5, GatewayAssumption DEF WellFormed, Order
    <3>1. Len(symQ[s]) + symLag[s] = SymbolSize
      BY <1>1
    <3> DEFINE T == Order \cup {NoOrder}
    <3>2. /\ symQ[s] \in Seq(T) /\ processed[s] \in Seq(T) /\ symLag[s] \in Nat
          /\ symLag[s] <= Len(processed[s]) /\ respLag <= Len(told)
      BY <1>3 DEF FlowInv, LagsPopped
    <3> HIDE DEF T
    <3>3. Len(Lane[s]) = Len(processed[s]) + Len(symQ[s])
      <4>1. \A q, r \in Seq(T) : Len(q \o r) = Len(q) + Len(r)
        BY ConcatProperties
      <4>2. Lane[s] = processed[s] \o symQ[s]
        BY LaneParts DEF Accepted
      <4> QED
        BY <3>2, <4>1, <4>2
    <3>4. Len(Lane[Responder]) = Len(told) + Len(respQ)
      <4>1. Len(told \o respQ) = Len(told) + Len(respQ) /\ told \o respQ \in Seq(Response)
        BY <1>3, ConcatProperties
      <4>2. DOMAIN Rejected = 1 .. Len(told \o respQ) /\ Len(told \o respQ) \in Nat
        BY <4>1 DEF Rejected
      <4>3. Rejected \in Seq(Order)
        BY <1>6, <2>5, LaneParts DEF Flow
      <4>4. Len(Rejected) = Len(told \o respQ)
        BY <4>2, <4>3
      <4> QED
        BY <4>1, <4>4, LaneParts
    <3>5. IsFiniteSet(acked) /\ Cardinality(acked) \in Nat
      BY FS_CardinalityType DEF FlowInv, AckedTaken
    <3>6. Cardinality(acked) > Len(Lane[s]) + Len(Lane[Responder])
      BY <1>6, <2>5, <3>5, FlowCount
    <3>7. /\ Len(processed[s]) \in Nat /\ Len(symQ[s]) \in Nat /\ symLag[s] \in Nat
          /\ Len(told) \in Nat /\ Len(respQ) \in Nat /\ respLag \in Nat
          /\ lag \in Nat /\ lag <= respLag
          /\ SymbolSize \in Nat /\ ResponseSize \in Nat
      BY <1>3, <3>2, GatewayAssumption
    <3> DEFINE x == Len(Lane[s])
               y == Len(Lane[Responder])
               k == Cardinality(acked)
    <3>8. x \in Nat /\ x >= SymbolSize
      <4> DEFINE p == Len(processed[s])
                 q == Len(symQ[s])
                 g == symLag[s]
      <4>1. /\ q + g = SymbolSize /\ g <= p /\ x = p + q
            /\ p \in Nat /\ q \in Nat /\ g \in Nat /\ SymbolSize \in Nat
        BY <3>1, <3>2, <3>3, <3>7
      <4> HIDE DEF p, q, g, x
      <4> QED
        BY <4>1
    <3>9. y \in Nat /\ y >= ResponseSize
      BY <1>11, <3>2, <3>4, <3>7
    <3>10. k \in Nat /\ k > x + y
      BY <3>5, <3>6
    <3> HIDE DEF x, y, k
    <3>11. k > SymbolSize + ResponseSize
      BY <3>7, <3>8, <3>9, <3>10
    <3> QED
      BY <3>11 DEF k
  <2>6. TerminationNeedsOverload'
    BY <1>1, <2>5 DEF TerminationNeedsOverload, user
  <2>7. FlowInv'
    BY <1>1, <1>4, <1>5, <1>6, <2>1, <2>3, <2>6 DEF FlowInv, user
  <2> QED
    BY <1>7, <2>4, <2>7
<1> QED
  BY <1>10, <1>11
-----------------------------------------------------------------------------
(***************************************************************************)
(* A consumer takes the first order of its queue: it stays in its lane.    *)
(***************************************************************************)
LEMMA SymbolWorkKeepsFlow ==
    ASSUME IInv, FlowInv, NEW s \in Symbols, SymbolWork(s)
    PROVE  FlowInv' /\ ContractStep
<1> DEFINE T == Order \cup {NoOrder}
<1>1. /\ ~terminated /\ symQ[s] # << >>
      /\ processed' = [processed EXCEPT ![s] = Append(@, Head(symQ[s]))]
      /\ symQ' = [symQ EXCEPT ![s] = Tail(@)]
      /\ symLag' = [symLag EXCEPT ![s] = @ + 1]
      /\ UNCHANGED <<ingress, user, router, response, life>>
  BY DEF SymbolWork, Alive
<1>2. /\ symQ \in [Symbols -> Seq(T)] /\ processed \in [Symbols -> Seq(T)]
      /\ symLag \in [Symbols -> Nat]
  BY DEF IInv, TypeOK, SymbolTypeOK
<1> HIDE DEF T
<1>3. /\ symQ[s] \in Seq(T) /\ processed[s] \in Seq(T)
      /\ Head(symQ[s]) \in T
      /\ Append(processed[s], Head(symQ[s])) \o Tail(symQ[s]) = processed[s] \o symQ[s]
      /\ Len(Append(processed[s], Head(symQ[s]))) = Len(processed[s]) + 1
  BY SMTT(30), <1>1, <1>2, TailElements, ConcatTail, AppendElements
<1>4. LagsPopped'
  <2> SUFFICES ASSUME NEW t \in Symbols PROVE symLag'[t] <= Len(processed'[t])
    BY <1>1 DEF FlowInv, LagsPopped, response
  <2>1. symLag[t] <= Len(processed[t]) /\ symLag[t] \in Nat /\ Len(processed[t]) \in Nat
    BY <1>2 DEF FlowInv, LagsPopped
  <2>2. CASE t = s
    BY <1>1, <1>2, <1>3, <2>1, <2>2
  <2>3. CASE t # s
    BY <1>1, <1>2, <2>1, <2>3
  <2> QED
    BY <2>2, <2>3
<1>5. Lane' = Lane
  <2>1. \A t \in Symbols : Accepted(t)' = Accepted(t)
    <3> SUFFICES ASSUME NEW t \in Symbols PROVE Accepted(t)' = Accepted(t)
      OBVIOUS
    <3>1. CASE t = s
      BY <1>1, <1>2, <1>3, <3>1 DEF Accepted
    <3>2. CASE t # s
      BY <1>1, <1>2, <3>2 DEF Accepted
    <3> QED
      BY <3>1, <3>2
  <2>2. Rejected' = Rejected
    BY <1>1 DEF Rejected, response
  <2> QED
    BY <2>1, <2>2 DEF Lane, Lanes
<1>6. Pending' = Pending
  BY <1>1, PendingFrame DEF router
<1>7. ContractStep
  <2>1. Delivered' = [Delivered EXCEPT ![s] = @ + 1] /\ Delivered[s] = Len(processed[s])
    BY <1>1, <1>2, <1>3, GatewayAssumption DEF Delivered, Lanes, response
  <2>2. Len(processed[s]) < Len(Accepted(s))
    <3>1. /\ Len(processed[s] \o symQ[s]) = Len(processed[s]) + Len(symQ[s])
          /\ Len(processed[s]) \in Nat /\ Len(symQ[s]) \in Nat /\ Len(symQ[s]) # 0
      BY <1>1, <1>3, ConcatProperties, EmptySeq
    <3>2. \A x, y \in Nat : y # 0 => x < x + y
      OBVIOUS
    <3>3. Len(processed[s]) < Len(processed[s]) + Len(symQ[s])
      BY <3>1, <3>2
    <3> QED
      BY <3>1, <3>3 DEF Accepted
  <2> QED
    BY <1>1, <1>5, <1>6, <2>1, <2>2, ContractSettle, LaneParts DEF user, life
<1> QED
  BY <1>1, <1>4, <1>5, <1>6, <1>7, FlowFrame DEF FlowInv, life, user

LEMMA ResponseWorkKeepsFlow ==
    ASSUME IInv, FlowInv, ResponseWork
    PROVE  FlowInv' /\ ContractStep
<1>1. /\ ~terminated /\ respQ # << >>
      /\ told' = Append(told, Head(respQ)) /\ respQ' = Tail(respQ)
      /\ respLag' = respLag + 1
      /\ UNCHANGED <<ingress, user, router, symbol, life>>
  BY DEF ResponseWork, Alive
<1>2. respQ \in Seq(Response) /\ told \in Seq(Response) /\ respLag \in Nat
  BY DEF IInv, TypeOK, ResponseTypeOK
<1>3. /\ Head(respQ) \in Response /\ told' \o respQ' = told \o respQ
      /\ Len(told') = Len(told) + 1 /\ Len(told) \in Nat
  <2>1. Head(respQ) \in Response
    BY <1>1, <1>2, TailElements
  <2>2. told' \o respQ' = told \o respQ
    BY <1>1, <1>2, ConcatTail
  <2>3. Len(told') = Len(told) + 1 /\ Len(told) \in Nat
    BY <1>1, <1>2, <2>1, AppendElements
  <2> QED
    BY <2>1, <2>2, <2>3
<1>4. LagsPopped'
  <2>1. respLag' <= Len(told')
    BY <1>1, <1>2, <1>3 DEF FlowInv, LagsPopped
  <2> QED
    BY <1>1, <2>1 DEF FlowInv, LagsPopped, symbol
<1>5. Lane' = Lane
  <2>1. Rejected' = Rejected
    BY <1>3 DEF Rejected
  <2>2. \A t \in Symbols : Accepted(t)' = Accepted(t)
    BY <1>1 DEF Accepted, symbol
  <2> QED
    BY <2>1, <2>2 DEF Lane, Lanes
<1>6. Pending' = Pending
  BY <1>1, PendingFrame DEF router
<1>7. ContractStep
  <2>1. Delivered' = [Delivered EXCEPT ![Responder] = @ + 1] /\ Delivered[Responder] = Len(told)
    BY <1>1, <1>3, GatewayAssumption DEF Delivered, Lanes, symbol
  <2>2. raced \/ Len(told) < Len(Rejected)
    BY <1>1, <1>2 DEF Rejected
  <2> QED
    BY <1>1, <1>5, <1>6, <2>1, <2>2, ContractSettle, ContractVoid, LaneParts DEF user, life
<1> QED
  BY <1>1, <1>4, <1>5, <1>6, <1>7, FlowFrame DEF FlowInv, life, user

(***************************************************************************)
(* Shutting down moves no order.                                           *)
(***************************************************************************)
LEMMA IdleKeepsFlow ==
    ASSUME FlowInv, UNCHANGED <<ingress, user, router, symbol, response, terminated>>
    PROVE  FlowInv' /\ ContractStep
<1>1. Pending' = Pending /\ Lane' = Lane
  BY PendingFrame, LaneFrame DEF router, symbol, response
<1>2. TerminationNeedsOverload'
  BY DEF FlowInv, TerminationNeedsOverload, user
<1>3. ContractStep
  BY <1>1, ContractIdle DEF user, symbol, response
<1> QED
  BY <1>1, <1>2, <1>3, FlowFrame DEF FlowInv, user

LEMMA NextKeepsFlow == IInv /\ FlowInv /\ [Next]_vars => FlowInv' /\ ContractStep
<1> SUFFICES ASSUME IInv, FlowInv, [Next]_vars PROVE FlowInv' /\ ContractStep
  OBVIOUS
<1>1. ASSUME NEW u \in Users, UserBegin(u) PROVE FlowInv' /\ ContractStep
  BY <1>1, UserBeginKeepsFlow
<1>2. ASSUME NEW u \in Users, Push(u) PROVE FlowInv' /\ ContractStep
  BY <1>2, UserTestKeepsFlow, UserWriteKeepsFlow, UserStoreKeepsFlow DEF Push
<1>3. CASE Router
  BY <1>3, IngressReadKeepsFlow, IngressStoreKeepsFlow, RejectKeepsFlow, RouteKeepsFlow
  DEF Router
<1>4. ASSUME NEW s \in Symbols, SymbolWork(s) PROVE FlowInv' /\ ContractStep
  BY <1>4, SymbolWorkKeepsFlow
<1>5. CASE ResponseWork
  BY <1>5, ResponseWorkKeepsFlow
<1>6. CASE RaiseQuit \/ \E t \in Threads : Exit(t)
  BY <1>6, IdleKeepsFlow DEF RaiseQuit, Exit
<1>7. CASE UNCHANGED vars
  BY <1>7, IdleKeepsFlow DEF vars, life
<1> QED
  BY <1>1, <1>2, <1>3, <1>4, <1>5, <1>6, <1>7 DEF Next

LEMMA FlowInvariance == Spec => [](IInv /\ FlowInv)
<1>1. Init => IInv /\ FlowInv
  BY InitIInv, InitFlow
<1>2. IInv /\ FlowInv /\ [Next]_vars => IInv' /\ FlowInv'
  BY NextKeepsIInv, NextKeepsFlow
<1> QED
  BY <1>1, <1>2, PTL DEF Spec

(***************************************************************************)
(* No order is lost, duplicated or both accepted and rejected, whatever    *)
(* the number of users and symbols and the sizes of the queues, as long as *)
(* the pushes of submit_order do not overlap and the process lives.        *)
(***************************************************************************)
THEOREM OrdersConserved == Spec => []Conservation
<1>1. FlowInv => Conservation
  BY FlowConserves DEF FlowInv, Conservation
<1> QED
  BY <1>1, FlowInvariance, PTL

(***************************************************************************)
(* The orders of a user are accepted in the order of submission, and       *)
(* rejected in that order, as long as the pushes do not overlap.           *)
(***************************************************************************)
THEOREM OrdersStayInOrder == Spec => []InOrder
<1>1. FlowInv => InOrder
  BY FlowKeepsOrder DEF FlowInv, InOrder
<1> QED
  BY <1>1, FlowInvariance, PTL

(***************************************************************************)
(* The std::terminate of send_reject takes more acknowledged orders than   *)
(* one symbol queue and the response queue hold together.                  *)
(***************************************************************************)
THEOREM OverloadBeforeTermination == Spec => []TerminationNeedsOverload
<1>1. FlowInv => TerminationNeedsOverload
  BY DEF FlowInv
<1> QED
  BY <1>1, FlowInvariance, PTL

(***************************************************************************)
(* Whatever the users, symbols and queue sizes, the gateway keeps its      *)
(* promise about acknowledged orders: it starts as OrderContract does, and *)
(* every step of a user, the ingress thread or a worker is a step of it,   *)
(* or concerns no order.                                                   *)
(***************************************************************************)
THEOREM GatewayImplementsContract == Spec => ImplementsContract
<1>1. Init => Contract!Init
  <2> SUFFICES ASSUME Init PROVE Contract!Init
    OBVIOUS
  <2>1. Pending = << >> /\ Lane = [l \in Lanes |-> << >>]
    BY InitEmpty
  <2>2. Delivered = [l \in Lanes |-> 0]
    BY DEF Init, Delivered, Lanes
  <2>3. ~terminated /\ ~raced /\ terminated \in BOOLEAN /\ raced \in BOOLEAN
    BY DEF Init
  <2> QED
    BY <2>1, <2>2, <2>3 DEF Init, Contract!Init, Contract!Lanes, Lanes
<1>2. IInv /\ FlowInv /\ [Next]_vars => [Contract!Next]_(Contract!contractVars)
  BY NextKeepsFlow DEF ContractStep
<1> QED
  BY <1>1, <1>2, FlowInvariance, PTL DEF Spec, ImplementsContract, Contract!Spec

-----------------------------------------------------------------------------
(***************************************************************************)
(* A step of the object's owner is a stutter of the gateway, and a step of *)
(* a started thread is one of its steps.                                   *)
(***************************************************************************)
LEMMA LifetimeStep == [LifetimeNext]_allVars => [Next]_vars
<1> SUFFICES ASSUME [LifetimeNext]_allVars PROVE [Next]_vars
  OBVIOUS
<1>1. CASE Owner
  BY <1>1 DEF Owner, StartThread, StartOneOf, StartThrows, Destroy, Join, JoinOneOf, DestroyContext
<1>2. ASSUME NEW t \in Threads, Work(t) PROVE Next
  BY <1>2 DEF Work, Next
<1>3. ASSUME NEW t \in Threads, Leave(t) PROVE Next
  BY <1>3 DEF Leave, Next
<1>4. ASSUME NEW u \in Users, Submit(u) PROVE Next
  BY <1>4 DEF Submit, Next
<1>5. CASE Quit
  BY <1>5 DEF Quit, Next
<1>6. CASE UNCHANGED allVars
  BY <1>6 DEF allVars
<1> QED BY <1>1, <1>2, <1>3, <1>4, <1>5, <1>6 DEF LifetimeNext

(***************************************************************************)
(* The gateway with a lifetime implements the gateway without one.         *)
(***************************************************************************)
THEOREM LifetimeImplementsGateway == LifetimeSpec => Spec
<1>1. LifetimeInit => Init
  BY DEF LifetimeInit
<1> QED BY <1>1, LifetimeStep, PTL DEF LifetimeSpec, Spec

(***************************************************************************)
(* The queues and the ingress ring keep to their invariant also while      *)
(* threads are missing: before the last is started and while they leave.   *)
(***************************************************************************)
THEOREM LifetimeInvariance == LifetimeSpec => []IInv
BY LifetimeImplementsGateway, GatewayInvariance, PTL

(***************************************************************************)
(* And an acknowledged order is neither lost nor duplicated nor overtaken  *)
(* while threads are missing, be it that they are not started yet, left    *)
(* their loop, or never start because the constructor threw.               *)
(***************************************************************************)
THEOREM LifetimeConserves == LifetimeSpec => [](Conservation /\ InOrder)
BY LifetimeImplementsGateway, OrdersConserved, OrdersStayInOrder, PTL

(***************************************************************************)
(* So what is promised of acknowledged orders is promised from the first   *)
(* thread that starts to the last that is joined.                          *)
(***************************************************************************)
THEOREM LifetimeImplementsContract == LifetimeSpec => ImplementsContract
BY LifetimeImplementsGateway, GatewayImplementsContract, PTL

(***************************************************************************)
(* Who left the loop and who was joined.                                   *)
(***************************************************************************)
Joining == /\ joined \subseteq exited
           /\ exited # {} => quit
           /\ phase = "gone" => joined = Started

(***************************************************************************)
(* Working threads store no quit_signal and leave no loop.                 *)
(***************************************************************************)
LEMMA WorkKeepsQuit ==
    ASSUME NEW t \in Threads, Work(t) \/ Submit(t)
    PROVE  UNCHANGED <<quit, exited, lifetime>>
<1>1. ASSUME NEW u \in Users, Push(u) \/ UserBegin(u) PROVE UNCHANGED <<quit, exited>>
  BY <1>1 DEF Push, UserTest, UserWriteHeader, UserWriteOrder, UserStore, UserBegin, life
<1>2. ASSUME Router PROVE UNCHANGED <<quit, exited>>
  BY <1>2 DEF Router, IngressPoll, IngressReadHeader, IngressReadOrder, IngressStore,
     RejectInvalid, RejectFull, Reject, Route, life
<1>3. ASSUME NEW s \in Symbols, SymbolWork(s) PROVE UNCHANGED <<quit, exited>>
  BY <1>3 DEF SymbolWork, life
<1>4. ASSUME ResponseWork PROVE UNCHANGED <<quit, exited>>
  BY <1>4 DEF ResponseWork, life
<1>5. CASE Work(t)
  BY <1>5, <1>1, <1>2, <1>3, <1>4 DEF Work
<1>6. CASE Submit(t)
  BY <1>6 DEF Submit, UserBegin, life
<1> QED BY <1>5, <1>6

LEMMA JoiningInductive == Joining /\ [LifetimeNext]_allVars => Joining'
<1> SUFFICES ASSUME Joining, [LifetimeNext]_allVars PROVE Joining'
  OBVIOUS
<1> USE DEF Joining, Started
<1>1. CASE StartThread \/ StartThrows \/ Destroy \/ DestroyContext
  BY <1>1 DEF StartThread, StartOneOf, Starting, StartThrows, Destroy, DestroyContext, vars, life
<1>2. ASSUME NEW t \in Threads, Join(t) PROVE Joining'
  BY <1>2 DEF Join, JoinOneOf, vars, life
<1>3. ASSUME NEW t \in Threads, Work(t) \/ Submit(t) PROVE Joining'
  BY <1>3, WorkKeepsQuit DEF lifetime
<1>4. ASSUME NEW t \in Threads, Leave(t) PROVE Joining'
  BY <1>4 DEF Leave, Exit, lifetime
<1>5. CASE Quit
  BY <1>5 DEF Quit, RaiseQuit, lifetime
<1>6. CASE UNCHANGED allVars
  BY <1>6 DEF allVars, vars, life, lifetime
<1> QED BY <1>1, <1>2, <1>3, <1>4, <1>5, <1>6 DEF LifetimeNext, Owner, Threads

(***************************************************************************)
(* When the object is gone no thread is left that could use the context,   *)
(* and if one was ever started somebody stored quit_signal.                *)
(***************************************************************************)
THEOREM DestroyedAfterQuit == LifetimeSpec => []ReturnsAfterQuit
<1>1. LifetimeInit => Joining
  BY DEF LifetimeInit, Init, Joining
<1>2. Joining => ReturnsAfterQuit
  BY DEF Joining, ReturnsAfterQuit
<1> QED BY <1>1, <1>2, JoiningInductive, PTL DEF LifetimeSpec
=============================================================================
