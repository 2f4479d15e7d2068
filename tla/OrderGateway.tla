---------------------------- MODULE OrderGateway ----------------------------
(***************************************************************************)
(* The order gateway (src/src/lib/order_gateway.hpp): user threads push    *)
(* orders into one ingress ring, an ingress thread routes each order to    *)
(* the queue of its symbol or rejects it, a thread per symbol processes    *)
(* orders and a response thread delivers the rejects.                      *)
(*                                                                         *)
(* The ingress ring is an SPSC_NonBlocking that every user thread pushes   *)
(* into, so its push and pop are modelled access by access; a message is   *)
(* copied in two parts, header and order, and BufferSize is                *)
(* k_queue_size_ingress.  The other queues really have one producer and    *)
(* one consumer and appear as the BoundedFifo that SpscQueue implements:   *)
(* symLag and respLag are the pops their producer has not noticed.         *)
(* Accesses to the ring are interleaved one at a time, which is one of the *)
(* outcomes the racing threads can have.                                   *)
(***************************************************************************)
EXTENDS RingIndex, Sequences, FiniteSets

CONSTANTS Users,         \* connection ids
          DefaultUser,   \* connection id 0, what OrderMessage{} holds
          Symbols,       \* AAPL, MSFT, BTCUSD
          Invalid,       \* SymbolId::Invalid, what OrderMessage{} holds
          SymbolOf,      \* the symbol of each user's task
          Ingress, Responder,  \* the ingress and the response thread
          SymbolSize,    \* k_queue_size_per_symbol
          ResponseSize,  \* k_queue_size_error_event
          MaxOrders,     \* bound: orders submitted by one user
          MayQuit        \* does anyone ever store quit_signal?

Threads == Users \cup Symbols \cup {Ingress, Responder}

ASSUME GatewayAssumption ==
    /\ DefaultUser \in Users
    /\ Invalid \notin Symbols
    /\ SymbolOf \in [Users -> Symbols]
    /\ Users \cap Symbols = {}
    /\ Ingress # Responder /\ {Ingress, Responder} \cap (Users \cup Symbols) = {}
    /\ SymbolSize \in Nat \ {0} /\ ResponseSize \in Nat \ {0}
    /\ MaxOrders \in Nat \ {0}
    /\ MayQuit \in BOOLEAN

VARIABLES
    ring, head, tail,   \* the ingress queue
    upc, uhead, nextId, \* each user: place in submit_order, loaded head, order_id_
    ipc, tmp,           \* the ingress thread: place in its loop, popped message
    symQ, symLag,       \* the symbol queues
    respQ, respLag,     \* the response queue
    quit,               \* quit_signal
    exited,             \* the threads that left their loop
    terminated,         \* std::terminate was called
    acked,       \* history: orders whose push returned true
    processed,   \* history: orders each symbol thread processed
    told,        \* history: rejects delivered to connections
    raced        \* history: two pushes of different users have overlapped

ingress  == <<ring, head, tail>>
user     == <<upc, uhead, nextId, acked, raced>>
router   == <<ipc, tmp>>
symbol   == <<symQ, symLag, processed>>
response == <<respQ, respLag, told>>
life     == <<quit, exited, terminated>>
vars     == <<ingress, user, router, symbol, response, life>>

OrderId  == 0 .. (MaxOrders - 1)
Order    == [from : Users, id : OrderId]
NoOrder  == [from |-> Invalid, id |-> 0]    \* Order{}
Message  == [conn : Users, symbol : Symbols \cup {Invalid}, order : Order \cup {NoOrder}]
NoMessage == [conn |-> DefaultUser, symbol |-> Invalid, order |-> NoOrder]
Response == [conn : Users, id : OrderId]

Pushing(u) == upc[u] # "loop"

Alive(t) == ~terminated /\ t \notin exited
-----------------------------------------------------------------------------
Init ==
    /\ ring = [s \in Slots |-> NoMessage] /\ head = 0 /\ tail = 0
    /\ upc = [u \in Users |-> "loop"]
    /\ uhead = [u \in Users |-> 0]
    /\ nextId = [u \in Users |-> 0]
    /\ ipc = "loop" /\ tmp = NoMessage
    /\ symQ = [s \in Symbols |-> << >>] /\ symLag = [s \in Symbols |-> 0]
    /\ respQ = << >> /\ respLag = 0
    /\ quit = FALSE /\ exited = {} /\ terminated = FALSE
    /\ acked = {} /\ processed = [s \in Symbols |-> << >>] /\ told = << >>
    /\ raced = FALSE
-----------------------------------------------------------------------------
(***************************************************************************)
(* A user thread: quit check, then submit_order, whose push loads head,    *)
(* loads tail and tests, copies the message and stores head.  The order    *)
(* id is used up even if the push is refused.                              *)
(***************************************************************************)
CurrentOrder(u) == [from |-> u, id |-> nextId[u] - 1]

UserBegin(u) ==
    /\ Alive(u) /\ upc[u] = "loop"
    /\ nextId[u] < MaxOrders
    /\ nextId' = [nextId EXCEPT ![u] = @ + 1]
    /\ uhead' = [uhead EXCEPT ![u] = head]
    /\ upc' = [upc EXCEPT ![u] = "test"]
    /\ raced' = (raced \/ \E v \in Users \ {u} : Pushing(v))
    /\ UNCHANGED <<ingress, acked, router, symbol, response, life>>

\* Mutant: the test for a full ring is one too late.
UserTestLate(u) ==
    /\ Alive(u) /\ upc[u] = "test"
    /\ upc' = [upc EXCEPT ![u] = IF Dist(uhead[u], tail) > BufferSize
                                 THEN "loop" ELSE "header"]
    /\ UNCHANGED <<ingress, uhead, nextId, acked, raced, router, symbol, response, life>>

UserTest(u) ==
    /\ Alive(u) /\ upc[u] = "test"
    /\ upc' = [upc EXCEPT ![u] = IF Dist(uhead[u], tail) = BufferSize
                                 THEN "loop" ELSE "header"]
    /\ UNCHANGED <<ingress, uhead, nextId, acked, raced, router, symbol, response, life>>

UserWriteHeader(u) ==
    /\ Alive(u) /\ upc[u] = "header"
    /\ ring' = [ring EXCEPT ![Slot(uhead[u])].conn = u,
                            ![Slot(uhead[u])].symbol = SymbolOf[u]]
    /\ upc' = [upc EXCEPT ![u] = "order"]
    /\ UNCHANGED <<head, tail, uhead, nextId, acked, raced, router, symbol, response, life>>

UserWriteOrder(u) ==
    /\ Alive(u) /\ upc[u] = "order"
    /\ ring' = [ring EXCEPT ![Slot(uhead[u])].order = CurrentOrder(u)]
    /\ upc' = [upc EXCEPT ![u] = "store"]
    /\ UNCHANGED <<head, tail, uhead, nextId, acked, raced, router, symbol, response, life>>

UserStore(u) ==
    /\ Alive(u) /\ upc[u] = "store"
    /\ head' = Inc(uhead[u])
    /\ acked' = acked \cup {CurrentOrder(u)}
    /\ upc' = [upc EXCEPT ![u] = "loop"]
    /\ UNCHANGED <<ring, tail, uhead, nextId, raced, router, symbol, response, life>>

Push(u) == \/ UserTest(u)
           \/ UserWriteHeader(u)
           \/ UserWriteOrder(u)
           \/ UserStore(u)

(***************************************************************************)
(* The ingress thread: pop a message, then route it or reject it.  A pop   *)
(* that finds nothing changes nothing.                                     *)
(***************************************************************************)
\* Mutant: the test for an empty ring is off by one.
IngressPollLate ==
    /\ Alive(Ingress) /\ ipc = "loop"
    /\ Dist(head, tail) > 1
    /\ ipc' = "header"
    /\ UNCHANGED <<ingress, user, tmp, symbol, response, life>>

IngressPoll ==
    /\ Alive(Ingress) /\ ipc = "loop"
    /\ head # tail
    /\ ipc' = "header"
    /\ UNCHANGED <<ingress, user, tmp, symbol, response, life>>

IngressReadHeader ==
    /\ Alive(Ingress) /\ ipc = "header"
    /\ tmp' = [tmp EXCEPT !.conn = ring[Slot(tail)].conn,
                          !.symbol = ring[Slot(tail)].symbol]
    /\ ipc' = "order"
    /\ UNCHANGED <<ingress, user, symbol, response, life>>

IngressReadOrder ==
    /\ Alive(Ingress) /\ ipc = "order"
    /\ tmp' = [tmp EXCEPT !.order = ring[Slot(tail)].order]
    /\ ipc' = "store"
    /\ UNCHANGED <<ingress, user, symbol, response, life>>

\* Mutant: the store of tail is forgotten.
IngressStoreForgotten ==
    /\ Alive(Ingress) /\ ipc = "store"
    /\ ipc' = "route"
    /\ UNCHANGED <<ingress, user, tmp, symbol, response, life>>

IngressStore ==
    /\ Alive(Ingress) /\ ipc = "store"
    /\ tail' = Inc(tail)
    /\ ipc' = "route"
    /\ UNCHANGED <<ring, head, user, tmp, symbol, response, life>>

\* send_reject: the process terminates if the response queue is full.
\* Mutant: the response queue is taken for full one message early.
SendRejectEarly(m) ==
    \E lag \in 0 .. respLag :
        /\ respLag' = lag
        /\ IF Len(respQ) + lag + 1 < ResponseSize
           THEN /\ respQ' = Append(respQ, [conn |-> m.conn, id |-> m.order.id])
                /\ UNCHANGED terminated
           ELSE /\ terminated' = TRUE
                /\ UNCHANGED respQ

SendReject(m) ==
    \E lag \in 0 .. respLag :
        /\ respLag' = lag
        /\ IF Len(respQ) + lag < ResponseSize
           THEN /\ respQ' = Append(respQ, [conn |-> m.conn, id |-> m.order.id])
                /\ UNCHANGED terminated
           ELSE /\ terminated' = TRUE
                /\ UNCHANGED respQ

Reject ==
    /\ SendReject(tmp)
    /\ ipc' = "loop" /\ tmp' = NoMessage
    /\ UNCHANGED <<ingress, user, symbol, told, quit, exited>>

RejectInvalid ==
    /\ Alive(Ingress) /\ ipc = "route"
    /\ tmp.symbol \notin Symbols
    /\ Reject

RejectFull ==
    /\ Alive(Ingress) /\ ipc = "route"
    /\ tmp.symbol \in Symbols
    /\ Len(symQ[tmp.symbol]) + symLag[tmp.symbol] = SymbolSize
    /\ Reject

\* Mutant: a symbol queue takes one order more than it has slots.
RouteOverfull ==
    /\ Alive(Ingress) /\ ipc = "route"
    /\ tmp.symbol \in Symbols
    /\ \E lag \in 0 .. symLag[tmp.symbol] :
          /\ Len(symQ[tmp.symbol]) + lag <= SymbolSize
          /\ symLag' = [symLag EXCEPT ![tmp.symbol] = lag]
    /\ symQ' = [symQ EXCEPT ![tmp.symbol] = Append(@, tmp.order)]
    /\ ipc' = "loop" /\ tmp' = NoMessage
    /\ UNCHANGED <<ingress, user, processed, response, life>>

Route ==
    /\ Alive(Ingress) /\ ipc = "route"
    /\ tmp.symbol \in Symbols
    /\ \E lag \in 0 .. symLag[tmp.symbol] :
          /\ Len(symQ[tmp.symbol]) + lag < SymbolSize
          /\ symLag' = [symLag EXCEPT ![tmp.symbol] = lag]
    /\ symQ' = [symQ EXCEPT ![tmp.symbol] = Append(@, tmp.order)]
    /\ ipc' = "loop" /\ tmp' = NoMessage
    /\ UNCHANGED <<ingress, user, processed, response, life>>

Router == \/ IngressPoll
          \/ IngressReadHeader
          \/ IngressReadOrder
          \/ IngressStore
          \/ RejectInvalid
          \/ RejectFull
          \/ Route

(***************************************************************************)
(* A symbol thread pops and logs an order; the response thread pops and    *)
(* logs a reject.                                                          *)
(***************************************************************************)
SymbolWork(s) ==
    /\ Alive(s)
    /\ symQ[s] # << >>
    /\ processed' = [processed EXCEPT ![s] = Append(@, Head(symQ[s]))]
    /\ symQ' = [symQ EXCEPT ![s] = Tail(@)]
    /\ symLag' = [symLag EXCEPT ![s] = @ + 1]
    /\ UNCHANGED <<ingress, user, router, response, life>>

ResponseWork ==
    /\ Alive(Responder)
    /\ respQ # << >>
    /\ told' = Append(told, Head(respQ))
    /\ respQ' = Tail(respQ)
    /\ respLag' = respLag + 1
    /\ UNCHANGED <<ingress, user, router, symbol, life>>

(***************************************************************************)
(* quit_signal is stored by the owner of the context; a relaxed load may   *)
(* return the old value for a while, so a thread leaves its loop at any of *)
(* its later checks.                                                       *)
(***************************************************************************)
RaiseQuit ==
    /\ MayQuit /\ ~quit /\ ~terminated
    /\ quit' = TRUE
    /\ UNCHANGED <<ingress, user, router, symbol, response, exited, terminated>>

\* Mutant: the ingress loop does not check quit_signal.
AtQuitCheckNotIngress(t) == /\ t \in Users => upc[t] = "loop"
                            /\ t # Ingress

AtQuitCheck(t) == /\ t \in Users => upc[t] = "loop"
                  /\ t = Ingress => ipc = "loop"

Exit(t) ==
    /\ Alive(t) /\ quit /\ AtQuitCheck(t)
    /\ exited' = exited \cup {t}
    /\ UNCHANGED <<ingress, user, router, symbol, response, quit, terminated>>

Next == \/ \E u \in Users : UserBegin(u) \/ Push(u)
        \/ Router
        \/ \E s \in Symbols : SymbolWork(s)
        \/ ResponseWork
        \/ RaiseQuit
        \/ \E t \in Threads : Exit(t)

Spec == Init /\ [][Next]_vars

(***************************************************************************)
(* Every thread keeps running until the process terminates.  No user has   *)
(* to submit another order, and nobody has to see quit_signal.             *)
(***************************************************************************)
Fairness ==
    /\ \A u \in Users : WF_vars(Push(u))
    /\ WF_vars(Router)
    /\ \A s \in Symbols : WF_vars(SymbolWork(s))
    /\ WF_vars(ResponseWork)

FairSpec == Spec /\ Fairness
-----------------------------------------------------------------------------
IngressTypeOK ==
    /\ ring \in [Slots -> Message]
    /\ head \in Index /\ tail \in Index

UserTypeOK ==
    /\ upc \in [Users -> {"loop", "test", "header", "order", "store"}]
    /\ uhead \in [Users -> Index]
    /\ nextId \in [Users -> 0 .. MaxOrders]
    /\ acked \subseteq Order
    /\ raced \in BOOLEAN

RouterTypeOK ==
    /\ ipc \in {"loop", "header", "order", "store", "route"}
    /\ tmp \in Message

SymbolTypeOK ==
    /\ symQ \in [Symbols -> Seq(Order \cup {NoOrder})]
    /\ symLag \in [Symbols -> Nat]
    /\ \A s \in Symbols : Len(symQ[s]) + symLag[s] <= SymbolSize
    /\ processed \in [Symbols -> Seq(Order \cup {NoOrder})]

ResponseTypeOK ==
    /\ respQ \in Seq(Response)
    /\ respLag \in Nat
    /\ Len(respQ) + respLag <= ResponseSize
    /\ told \in Seq(Response)

LifeTypeOK ==
    /\ quit \in BOOLEAN
    /\ exited \subseteq Threads
    /\ terminated \in BOOLEAN

TypeOK == /\ IngressTypeOK /\ UserTypeOK /\ RouterTypeOK
          /\ SymbolTypeOK /\ ResponseTypeOK /\ LifeTypeOK

(***************************************************************************)
(* The inductive invariant.  A push under way has taken its order id; and  *)
(* as long as no two pushes have overlapped, it is the only one and knows  *)
(* the true head (AlonePushing), the ring is never overfilled, a push that *)
(* passed its test has a free slot and a pop that passed its test has a    *)
(* message (RingBounded).                                                  *)
(***************************************************************************)
IdTaken == \A u \in Users : Pushing(u) => nextId[u] > 0

AlonePushing == ~raced => \A u \in Users : Pushing(u) =>
    uhead[u] = head /\ \A v \in Users : Pushing(v) => v = u

RingBounded == ~raced =>
    /\ Dist(head, tail) <= BufferSize
    /\ \A u \in Users : upc[u] \in {"header", "order", "store"} =>
                           Dist(head, tail) < BufferSize
    /\ ipc \in {"header", "order", "store"} => head # tail

IInv == TypeOK /\ IdTaken /\ AlonePushing /\ RingBounded

(***************************************************************************)
(* Where the orders are: in the ring between tail and head, in the hands   *)
(* of the ingress thread, accepted (in a symbol queue or processed) or     *)
(* rejected (in the response queue or delivered).                          *)
(***************************************************************************)
InRing      == [i \in 1 .. Dist(head, tail) |-> ring[Slot(tail + i - 1)].order]
InHand      == IF ipc = "route" THEN <<tmp.order>> ELSE << >>
Pending     == InHand \o InRing
Accepted(s) == processed[s] \o symQ[s]
Rejected    == LET responses == told \o respQ
               IN  [i \in DOMAIN responses |->
                       [from |-> responses[i].conn, id |-> responses[i].id]]

Spots(place, q, o) == {<<place, i>> : i \in {j \in DOMAIN q : q[j] = o}}

Places(o) == Spots("pending", Pending, o) \cup Spots("rejected", Rejected, o)
       \cup UNION {Spots(s, Accepted(s), o) : s \in Symbols}

(***************************************************************************)
(* As long as no two pushes have overlapped, and the process lives, no     *)
(* acknowledged order is lost, duplicated, or both accepted and rejected,  *)
(* and nothing else turns up: an order whose push returned true is in      *)
(* exactly one place, any other order nowhere.                             *)
(***************************************************************************)
Conservation ==
    ~raced /\ ~terminated =>
        \A o \in Order : Cardinality(Places(o)) = IF o \in acked THEN 1 ELSE 0

(***************************************************************************)
(* As long as no two pushes have overlapped, the orders of one user go to  *)
(* its symbol in the order it submitted them and are rejected in that      *)
(* order, whatever is still on its way.                                    *)
(***************************************************************************)
Sorted(u, q) == \A i, j \in DOMAIN q :
    i < j /\ q[i].from = u /\ q[j].from = u => q[i].id < q[j].id

InOrder ==
    ~raced =>
        /\ \A u \in Users, s \in Symbols :
              IF s = SymbolOf[u] THEN Sorted(u, Accepted(s) \o Pending)
                                 ELSE \A i \in DOMAIN Accepted(s) : Accepted(s)[i].from # u
        /\ \A u \in Users : Sorted(u, Rejected \o Pending)

(***************************************************************************)
(* send_reject kills the process only under overload: it takes more        *)
(* acknowledged orders than a symbol queue and the response queue hold     *)
(* together, unless two pushes overlapped.                                 *)
(***************************************************************************)
TerminationNeedsOverload ==
    terminated /\ ~raced => Cardinality(acked) > SymbolSize + ResponseSize

(***************************************************************************)
(* What the three properties above say of states, as steps: the gateway    *)
(* keeps the promise of OrderContract about the orders it acknowledges.    *)
(***************************************************************************)
Lanes     == Symbols \cup {Responder}
Lane      == [l \in Lanes |-> IF l = Responder THEN Rejected ELSE Accepted(l)]
Delivered == [l \in Lanes |-> IF l = Responder THEN Len(told) ELSE Len(processed[l])]

Contract == INSTANCE OrderContract
                WITH pending <- Pending, lane <- Lane, settled <- Delivered,
                     dead <- terminated, void <- raced

ImplementsContract == Contract!Spec

(***************************************************************************)
(* The acknowledgement that submit_order logs: an order whose push         *)
(* returned true, so that the log does not say "[queue full]", is queued   *)
(* and gets somewhere.                                                     *)
(***************************************************************************)
AcknowledgedIsQueued ==
    ~terminated => \A o \in acked : Places(o) # {}

(***************************************************************************)
(* An acknowledged order is processed or its reject is delivered, unless   *)
(* pushes overlapped, the process terminated or somebody told it to quit.  *)
(***************************************************************************)
Settled(o) ==
    \/ \E s \in Symbols : \E i \in DOMAIN processed[s] : processed[s][i] = o
    \/ \E i \in DOMAIN told : told[i] = [conn |-> o.from, id |-> o.id]

EveryOrderSettled ==
    \A o \in Order : o \in acked ~> Settled(o) \/ raced \/ quit \/ terminated
=============================================================================
