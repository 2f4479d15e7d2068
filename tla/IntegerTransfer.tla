-------------------------- MODULE IntegerTransfer --------------------------
(***************************************************************************)
(* The programs chat/client.cpp and chat/server.cpp of                     *)
(* src/networking/src: each client sends one integer, the server accepts   *)
(* one client and receives its integer.  The kernel takes and delivers any *)
(* number of bytes at a time, connections are reset, and a client may die  *)
(* between two sends.                                                      *)
(***************************************************************************)
EXTENDS Integers, Sequences, ByteOrder

CONSTANTS Clients,
          Value,       \* the integer each client sends
          Endian,      \* each client's byte order; HostEndian is the server's
          k_backlog,
          Nobody

Width == 4
Limit == Unit[Width + 1]   \* 2^32

ASSUME TransferAssumption ==
    /\ \A c \in Clients : /\ Value[c] \in Int /\ -Limit <= 2 * Value[c] /\ 2 * Value[c] < Limit
                         /\ Endian[c] \in {"big", "little"}
    /\ HostEndian \in {"big", "little"}
    /\ k_backlog \in Nat /\ Nobody \notin Clients

VARIABLES
    client, sent,           \* each client: its place, bytes sent
    server, conn, received, \* the server: its place, its client, bytes received
    result,                 \* what receive_i32 returned
    backlog,                \* connections not accepted yet
    wire,                   \* each connection: bytes on their way
    broken                  \* connections that were reset

clients == <<client, sent>>
program == <<server, conn, received, result>>
network == <<backlog, wire, broken>>
vars    == <<clients, program, network>>

Init ==
    /\ client = [c \in Clients |-> "connect"] /\ sent = [c \in Clients |-> 0]
    /\ server = "listen" /\ conn = Nobody /\ received = << >> /\ result = << >>
    /\ backlog = << >> /\ wire = [c \in Clients |-> << >>] /\ broken = {}
-----------------------------------------------------------------------------
\* The casts between i32 and u32 are modulo 2^32.
ToSigned(u) == IF 2 * u >= Limit THEN u - Limit ELSE u

\* The four bytes each client sends, and what the server makes of four bytes.
HostOrder  == [c \in Clients |-> InMemory(Value[c] % Limit, Width, Endian[c])]   \* Mutant
Wire       == [c \in Clients |->
                  InMemory(NetworkOrder(Value[c] % Limit, Width, Endian[c]), Width, Endian[c])]
Decoded(b) == ToSigned(NetworkOrder(FromMemory(b, HostEndian), Width, HostEndian))
-----------------------------------------------------------------------------
ClientStep(c, from, to) == client[c] = from /\ client' = [client EXCEPT ![c] = to]
ServerStep(from, to)    == server = from /\ server' = to

\* connect(): the kernel queues the connection while there is room.
Connect(c) ==
    /\ ClientStep(c, "connect", "send")
    /\ server \in {"accept", "receive"} /\ Len(backlog) <= k_backlog
    /\ backlog' = Append(backlog, c)
    /\ UNCHANGED <<sent, program, wire, broken>>

\* Resolving, socket() or connect() fails: no server listens, or any reason.
ConnectFails(c) == ClientStep(c, "connect", "failed") /\ UNCHANGED <<sent, program, network>>

\* One send() of send_exactly, of however many bytes the kernel takes.
SendBytes(c, from) ==
    /\ client[c] = "send" /\ sent[c] < Width
    /\ \E n \in 1 .. (Width - sent[c]) :
          /\ sent' = [sent EXCEPT ![c] = @ + n]
          /\ wire' = IF c \in broken THEN wire
                     ELSE [wire EXCEPT ![c] = @ \o SubSeq(Wire[c], from + 1, from + n)]
    /\ UNCHANGED <<client, program, backlog, broken>>

SendAgain(c) == SendBytes(c, 0)   \* Mutant: the pointer does not advance
Send(c)      == SendBytes(c, sent[c])

\* send() fails, with an exception or SIGPIPE, or the client dies here.
Die(c) == ClientStep(c, "send", "failed") /\ UNCHANGED <<sent, program, network>>

Finish(c) == ClientStep(c, "send", "done") /\ sent[c] = Width /\ UNCHANGED <<sent, program, network>>

Reset(c) ==
    /\ client[c] # "connect" /\ c \notin broken
    /\ broken' = broken \cup {c}
    /\ wire' = [wire EXCEPT ![c] = << >>]
    /\ UNCHANGED <<clients, program, backlog>>
-----------------------------------------------------------------------------
Listen == ServerStep("listen", "accept") /\ UNCHANGED <<clients, conn, received, result, network>>

\* Resolving, a set-up call or accept() fails.
ServerFails ==
    /\ ServerStep("listen", "threw") \/ ServerStep("accept", "threw")
    /\ UNCHANGED <<clients, conn, received, result, network>>

Accept ==
    /\ ServerStep("accept", "receive")
    /\ backlog # << >>
    /\ conn' = Head(backlog) /\ backlog' = Tail(backlog)
    /\ UNCHANGED <<clients, received, result, wire, broken>>

\* One recv() of recv_exactly that returns bytes.
Receive ==
    /\ server = "receive" /\ Len(received) < Width
    /\ \E n \in 1 .. Len(wire[conn]) :
          /\ Len(received) + n <= Width
          /\ received' = received \o SubSeq(wire[conn], 1, n)
          /\ wire' = [wire EXCEPT ![conn] = SubSeq(@, n + 1, Len(@))]
    /\ UNCHANGED <<clients, server, conn, result, backlog, broken>>

\* recv() returns 0: the client is gone and all its bytes are received.
EndOfStreamIf(returns, outcome) ==
    /\ server = "receive" /\ Len(received) < Width /\ returns
    /\ client[conn] \in {"failed", "done"} /\ wire[conn] = << >> /\ conn \notin broken
    /\ server' = (IF outcome = "nothing" THEN "done" ELSE "threw")
    /\ result' = <<outcome>>
    /\ UNCHANGED <<clients, conn, received, network>>

Outcome             == IF received = << >> THEN "nothing" ELSE "mid-message"
EndOfStreamNothing  == EndOfStreamIf(TRUE, "nothing")              \* Mutant
EndOfStreamGoesOn   == EndOfStreamIf(received = << >>, "nothing")  \* Mutant
EndOfStream         == EndOfStreamIf(TRUE, Outcome)

ThrowReset ==
    /\ conn \in broken /\ Len(received) < Width
    /\ ServerStep("receive", "threw")
    /\ UNCHANGED <<clients, conn, received, result, network>>

Return ==
    /\ Len(received) = Width
    /\ ServerStep("receive", "done") /\ result' = <<"integer", Decoded(received)>>
    /\ UNCHANGED <<clients, conn, received, network>>

Client(c) == Connect(c) \/ ConnectFails(c) \/ Send(c) \/ Die(c) \/ Finish(c)
Server    == Listen \/ ServerFails \/ Accept \/ Receive \/ EndOfStream \/ ThrowReset \/ Return

Next == Server \/ \E c \in Clients : Client(c) \/ Reset(c)

Spec == Init /\ [][Next]_vars

(***************************************************************************)
(* The programs run on and the kernel delivers what it took.               *)
(***************************************************************************)
FairSpec == Spec /\ WF_vars(Server) /\ \A c \in Clients : WF_vars(Client(c))
-----------------------------------------------------------------------------
(***************************************************************************)
(* However the bytes were split and whatever the byte orders, an integer   *)
(* the server receives is the one its client sent.                         *)
(***************************************************************************)
RightInteger == result # << >> /\ result[1] = "integer" => result[2] = Value[conn]

(***************************************************************************)
(* The server tells a client that left before it sent anything from one    *)
(* that left in the middle of its integer.                                 *)
(***************************************************************************)
EndExplained ==
    /\ result = <<"nothing">> => sent[conn] = 0
    /\ result = <<"mid-message">> => sent[conn] \in 1 .. (Width - 1)

(***************************************************************************)
(* The bytes of a connection that the server has received and those on     *)
(* their way are the first bytes of its client's integer: all the client   *)
(* has sent, unless the connection was reset.                              *)
(***************************************************************************)
Arrived(c) == IF c = conn THEN received ELSE << >>

Stream(c) ==
    /\ Len(Arrived(c)) + Len(wire[c]) <= sent[c]
    /\ IF c \in broken THEN wire[c] = << >> ELSE sent[c] = Len(Arrived(c)) + Len(wire[c])
    /\ \A k \in 1 .. Len(Arrived(c)) : Arrived(c)[k] = Wire[c][k]
    /\ \A k \in 1 .. Len(wire[c]) : wire[c][k] = Wire[c][Len(Arrived(c)) + k]

Streams == \A c \in Clients : Stream(c)

\* There is a client from accept on and a result at the end only.
Serving ==
    /\ server \in {"listen", "accept"} => conn = Nobody
    /\ server = "receive" => conn \in Clients
    /\ server \in {"listen", "accept", "receive"} => result = << >>
    /\ conn = Nobody => received = << >>

Explained ==
    \/ result = << >>
    \/ result = <<"integer", Value[conn]>>
    \/ client[conn] \in {"failed", "done"} /\ conn \in Clients
       /\ result = (IF sent[conn] = 0 THEN <<"nothing">> ELSE <<"mid-message">>)
       /\ sent[conn] < Width

(***************************************************************************)
(* A server that accepted a client ends, however the client does.          *)
(***************************************************************************)
ServerEnds == server = "receive" ~> server \in {"done", "threw"}

(***************************************************************************)
(* A client that has sent its integer is received, if it is the accepted   *)
(* one and its connection is not reset.                                    *)
(***************************************************************************)
SentIsReceived == \A c \in Clients :
    conn = c /\ client[c] = "done" ~> result = <<"integer", Value[c]>> \/ c \in broken

TypeOK ==
    /\ client \in [Clients -> {"connect", "send", "failed", "done"}]
    /\ sent \in [Clients -> 0 .. Width]
    /\ server \in {"listen", "accept", "receive", "done", "threw"}
    /\ conn \in Clients \cup {Nobody}
    /\ received \in Seq(Byte) /\ wire \in [Clients -> Seq(Byte)]
    /\ backlog \in Seq(Clients) /\ broken \subseteq Clients

IInv == TypeOK /\ Serving /\ Streams /\ Explained
=============================================================================
