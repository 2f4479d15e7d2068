--------------------------- MODULE NetworkProofs ---------------------------
(***************************************************************************)
(* The network programs, for any clients, integers, byte orders, addresses *)
(* and descriptors: bytes in memory and on the wire are turned back into   *)
(* the integer they came from, and the server receives them in order       *)
(* however they were split (IntegerTransfer); an address reaches the       *)
(* kernel as it was found (AddressResolution); every open descriptor has   *)
(* one owner (SocketOwner).                                                *)
(***************************************************************************)
EXTENDS IntegerTransfer, AddressResolution, SocketOwner, SequenceTheorems, TLAPS

LEMMA DivMod ==
    ASSUME NEW b \in Nat \ {0}, NEW q \in Nat, NEW r \in 0 .. (b - 1)
    PROVE  (q * b + r) \div b = q /\ (q * b + r) % b = r
<1> DEFINE n == q * b + r
<1>1. n \in Nat
  OBVIOUS
<1>2. n \div b \in Int /\ n % b \in 0 .. (b - 1) /\ n = b * (n \div b) + (n % b)
  BY <1>1, SMTT(30)
<1> QED
  BY <1>2

(***************************************************************************)
(* A number below b * c has a digit above a number below c.                *)
(***************************************************************************)
LEMMA DigitAbove ==
    ASSUME NEW b \in Nat \ {0}, NEW c \in Nat \ {0},
           NEW high \in 0 .. (b - 1), NEW low \in 0 .. (c - 1)
    PROVE  high * c + low \in 0 .. (b * c - 1)
<1>1. /\ high * c \in Nat /\ b * c \in Nat
      /\ high * c + c <= b * c
  OBVIOUS
<1> QED
  BY <1>1

(***************************************************************************)
(* The units of a word, and the digits and the number of four bytes.       *)
(***************************************************************************)
LEMMA Units ==
    /\ ByteBase \in Nat \ {0}
    /\ Unit[1] = 1 /\ Unit[2] = ByteBase
    /\ Unit[3] = ByteBase * ByteBase
    /\ Unit[4] = ByteBase * ByteBase * ByteBase
    /\ Unit[5] = ByteBase * ByteBase * ByteBase * ByteBase
    /\ \A k \in 1 .. 5 : Unit[k] \in Nat \ {0}
  BY ByteOrderAssumption DEF Unit

Word(b1, b2, b3, b4) == ((b1 * ByteBase + b2) * ByteBase + b3) * ByteBase + b4

LEMMA WordDigits ==
    ASSUME NEW b1 \in Byte, NEW b2 \in Byte, NEW b3 \in Byte, NEW b4 \in Byte
    PROVE  /\ Word(b1, b2, b3, b4) \in 0 .. (Limit - 1)
           /\ Digits(Word(b1, b2, b3, b4), 4) = <<b1, b2, b3, b4>>
<1> DEFINE b == ByteBase
           u == Word(b1, b2, b3, b4)
<1>1. b \in Nat \ {0} /\ b * b \in Nat \ {0} /\ b * b * b \in Nat \ {0}
  BY Units
<1>2. b1 \in Nat /\ b2 \in Nat /\ b3 \in Nat /\ b4 \in Nat
  BY <1>1 DEF Byte
<1>3. b3 * b + b4 \in 0 .. (b * b - 1)
  BY <1>1, DigitAbove DEF Byte
<1>4. b2 * (b * b) + (b3 * b + b4) \in 0 .. (b * (b * b) - 1)
  BY <1>1, <1>3, DigitAbove DEF Byte
<1>5. b1 * (b * (b * b)) + (b2 * (b * b) + (b3 * b + b4)) \in 0 .. (b * (b * (b * b)) - 1)
  BY <1>1, <1>4, DigitAbove DEF Byte
<1>6. /\ u = b1 * (b * (b * b)) + (b2 * (b * b) + (b3 * b + b4))
      /\ u = (b1 * b + b2) * (b * b) + (b3 * b + b4)
      /\ u = ((b1 * b + b2) * b + b3) * b + b4
  BY <1>1, <1>2 DEF Word
<1>7. u \div 1 = u /\ u % b = b4
  <2>1. (b1 * b + b2) * b + b3 \in Nat /\ u \in Nat
    BY <1>1, <1>2, <1>6
  <2> HIDE DEF u
  <2>2. u \div 1 = u
    BY <2>1
  <2>3. u % b = b4
    BY <1>1, <1>6, <2>1, DivMod DEF Byte
  <2> QED
    BY <2>2, <2>3
<1>8. (u \div b) % b = b3
  <2>1. b1 * b + b2 \in Nat /\ (b1 * b + b2) * b + b3 \in Nat
    BY <1>1, <1>2
  <2>2. u \div b = (b1 * b + b2) * b + b3
    BY <1>1, <1>6, <2>1, DivMod DEF Byte
  <2>3. ((b1 * b + b2) * b + b3) % b = b3
    BY <1>1, <2>1, DivMod DEF Byte
  <2> QED
    BY <2>2, <2>3
<1>9. (u \div (b * b)) % b = b2
  <2>1. b1 * b + b2 \in Nat
    BY <1>1, <1>2
  <2>2. u \div (b * b) = b1 * b + b2
    BY <1>1, <1>3, <1>6, <2>1, DivMod
  <2> QED
    BY <1>1, <1>2, <2>2, DivMod DEF Byte
<1>10. (u \div (b * b * b)) % b = b1
  <2>1. b * b * b = b * (b * b)
    BY <1>1
  <2>2. u \div (b * (b * b)) = b1
    BY <1>1, <1>2, <1>4, <1>6, <2>1, DivMod
  <2>3. b1 % b = b1
    BY <1>1 DEF Byte
  <2> QED
    BY <2>1, <2>2, <2>3
<1>11. u \in 0 .. (Limit - 1)
  <2>1. b * (b * (b * b)) = Limit
    BY <1>1, Units DEF Limit, Width
  <2> QED
    BY <1>5, <1>6, <2>1
<1> HIDE DEF u
<1>12. Digits(u, 4) = <<b1, b2, b3, b4>>
  <2>1. Digits(u, 4) = [k \in 1 .. 4 |-> (u \div Unit[4 - k + 1]) % b]
    BY DEF Digits
  <2>2. /\ Digits(u, 4)[1] = b1 /\ Digits(u, 4)[2] = b2
        /\ Digits(u, 4)[3] = b3 /\ Digits(u, 4)[4] = b4
    BY <1>7, <1>8, <1>9, <1>10, <2>1, Units
  <2> QED
    BY <2>1, <2>2
<1> QED
  BY <1>11, <1>12 DEF u

LEMMA Divided ==
    ASSUME NEW b \in Nat \ {0}, NEW c \in Nat \ {0}, NEW n \in 0 .. (c * b - 1)
    PROVE  n \div b \in 0 .. (c - 1) /\ n % b \in 0 .. (b - 1) /\ n = (n \div b) * b + (n % b)
<1> DEFINE q == n \div b
<1>1. n \in Nat /\ c * b \in Nat /\ n < c * b
  OBVIOUS
<1>2. q \in Int /\ n % b \in 0 .. (b - 1) /\ n = b * q + (n % b)
  BY <1>1, SMTT(30)
<1> HIDE DEF q
<1>3. q * b = b * q /\ b * q <= n /\ n < b * q + b
  BY <1>1, <1>2
<1>4. q >= 0
  <2> SUFFICES ASSUME q + 1 <= 0 PROVE FALSE
    BY <1>2
  <2>1. b * (q + 1) <= 0 /\ b * (q + 1) = b * q + b
    BY <1>2
  <2> QED
    BY <1>1, <1>2, <1>3, <2>1
<1>5. q < c
  <2> SUFFICES ASSUME c <= q PROVE FALSE
    BY <1>2
  <2>1. c * b <= q * b
    BY <1>2
  <2> QED
    BY <1>1, <1>2, <1>3, <2>1
<1> QED
  BY <1>2, <1>3, <1>4, <1>5 DEF q

LEMMA IsWord ==
    ASSUME NEW u \in 0 .. (Limit - 1)
    PROVE  \E b1, b2, b3, b4 \in Byte : u = Word(b1, b2, b3, b4)
<1> DEFINE b == ByteBase
<1>1. b \in Nat \ {0} /\ b * b \in Nat \ {0} /\ b * b * b \in Nat \ {0}
      /\ Limit = (b * b * b) * b
  BY Units DEF Limit, Width
<1>2. PICK u3 \in 0 .. (b * b * b - 1), b4 \in Byte : u = u3 * b + b4
  <2> DEFINE q == u \div b
             r == u % b
  <2>1. q \in 0 .. (b * b * b - 1) /\ r \in 0 .. (b - 1) /\ u = q * b + r
    BY <1>1, Divided
  <2> HIDE DEF q, r
  <2> QED
    BY <2>1 DEF Byte
<1>3. PICK u2 \in 0 .. (b * b - 1), b3 \in Byte : u3 = u2 * b + b3
  <2> DEFINE q == u3 \div b
             r == u3 % b
  <2>1. q \in 0 .. (b * b - 1) /\ r \in 0 .. (b - 1) /\ u3 = q * b + r
    BY <1>1, Divided
  <2> HIDE DEF q, r
  <2> QED
    BY <2>1 DEF Byte
<1>4. PICK b1 \in Byte, b2 \in Byte : u2 = b1 * b + b2
  <2>1. /\ u2 \div b \in 0 .. (b - 1) /\ u2 % b \in 0 .. (b - 1)
        /\ u2 = (u2 \div b) * b + (u2 % b)
    BY <1>1, Divided
  <2> QED
    BY <2>1 DEF Byte
<1> QED
  BY <1>2, <1>3, <1>4 DEF Word

(***************************************************************************)
(* Four bytes are the digits of their number, and a number is that of its  *)
(* digits.                                                                 *)
(***************************************************************************)
FourBytes == {s \in Seq(Byte) : Len(s) = 4}

LEMMA FourBytesTuple ==
    ASSUME NEW s \in FourBytes
    PROVE  /\ s = <<s[1], s[2], s[3], s[4]>>
           /\ s[1] \in Byte /\ s[2] \in Byte /\ s[3] \in Byte /\ s[4] \in Byte
<1>1. s \in Seq(Byte) /\ Len(s) = 4
  BY DEF FourBytes
<1>2. s \in [1 .. 4 -> Byte]
  <2>1. s \in [1 .. Len(s) -> Byte]
    BY <1>1, LenProperties
  <2> QED
    BY <1>1, <2>1
<1> HIDE DEF Byte
<1>3. s[1] \in Byte /\ s[2] \in Byte /\ s[3] \in Byte /\ s[4] \in Byte
  BY <1>2
<1>4. s = <<s[1], s[2], s[3], s[4]>>
  BY <1>2
<1> QED
  BY <1>3, <1>4

LEMMA TupleFourBytes ==
    ASSUME NEW b1 \in Byte, NEW b2 \in Byte, NEW b3 \in Byte, NEW b4 \in Byte
    PROVE  /\ <<b1, b2, b3, b4>> \in FourBytes
           /\ Number(<<b1, b2, b3, b4>>) = Word(b1, b2, b3, b4)
<1> DEFINE s == <<b1, b2, b3, b4>>
<1>1. s \in Seq(Byte) /\ Len(s) = 4 /\ s[1] = b1 /\ s[2] = b2 /\ s[3] = b3 /\ s[4] = b4
  OBVIOUS
<1>2. Number(s) = s[4] * Unit[1] + s[3] * Unit[2] + s[2] * Unit[3] + s[1] * Unit[4]
  BY <1>1 DEF Number
<1>3. b1 \in Nat /\ b2 \in Nat /\ b3 \in Nat /\ b4 \in Nat /\ ByteBase \in Nat
  BY Units DEF Byte
<1>4. Number(s) = Word(b1, b2, b3, b4)
  BY <1>1, <1>2, <1>3, Units DEF Word
<1> QED
  BY <1>1, <1>4 DEF FourBytes

LEMMA NumberOfBytes ==
    ASSUME NEW s \in FourBytes
    PROVE  Number(s) \in 0 .. (Limit - 1) /\ Digits(Number(s), 4) = s
<1>1. PICK b1 \in Byte, b2 \in Byte, b3 \in Byte, b4 \in Byte : s = <<b1, b2, b3, b4>>
  BY FourBytesTuple
<1> QED
  BY SMTT(30), <1>1, TupleFourBytes, WordDigits

LEMMA BytesOfNumber ==
    ASSUME NEW u \in 0 .. (Limit - 1)
    PROVE  Digits(u, 4) \in FourBytes /\ Number(Digits(u, 4)) = u
<1>1. PICK b1 \in Byte, b2 \in Byte, b3 \in Byte, b4 \in Byte : u = Word(b1, b2, b3, b4)
  BY IsWord
<1> QED
  BY SMTT(30), <1>1, TupleFourBytes, WordDigits

LEMMA ReverseBytes ==
    ASSUME NEW s \in FourBytes
    PROVE  Reverse(s) \in FourBytes /\ Reverse(Reverse(s)) = s
<1>1. PICK b1 \in Byte, b2 \in Byte, b3 \in Byte, b4 \in Byte : s = <<b1, b2, b3, b4>>
  BY FourBytesTuple
<1>2. \A a, b, c, d \in Byte : Reverse(<<a, b, c, d>>) = <<d, c, b, a>>
  BY DEF Reverse
<1> QED
  BY <1>1, <1>2, TupleFourBytes

(***************************************************************************)
(* What is written with htonl in the byte order of one machine is read     *)
(* with ntohl in that of the other.                                        *)
(***************************************************************************)
LEMMA RoundTrip ==
    ASSUME NEW c \in Clients
    PROVE  Wire[c] \in FourBytes /\ Decoded(Wire[c]) = Value[c]
<1> DEFINE u == Value[c] % Limit
<1>1. /\ Limit \in Nat \ {0}
      /\ Value[c] \in Int /\ -Limit <= 2 * Value[c] /\ 2 * Value[c] < Limit
      /\ Endian[c] \in {"big", "little"} /\ HostEndian \in {"big", "little"}
  BY Units, TransferAssumption DEF Limit, Width
<1>2. u \in 0 .. (Limit - 1) /\ ToSigned(u) = Value[c]
  <2>1. CASE Value[c] >= 0
    <3>1. u = Value[c]
      BY <1>1, <2>1
    <3> QED
      BY <1>1, <2>1, <3>1 DEF ToSigned
  <2>2. CASE Value[c] < 0
    <3>1. u = Value[c] + Limit
      BY <1>1, <2>2
    <3> QED
      BY <1>1, <2>2, <3>1 DEF ToSigned
  <2> QED
    BY <1>1, <2>1, <2>2
<1> HIDE DEF u
<1>3. Wire[c] = Digits(u, 4)
  <2>1. Wire[c] = InMemory(NetworkOrder(u, 4, Endian[c]), 4, Endian[c])
    BY DEF Wire, Width, u
  <2>2. CASE Endian[c] = "big"
    BY <2>1, <2>2 DEF InMemory, NetworkOrder
  <2>3. CASE Endian[c] = "little"
    <3>1. Wire[c] = Reverse(Digits(Number(Reverse(Digits(u, 4))), 4))
      BY <2>1, <2>3 DEF InMemory, NetworkOrder
    <3>2. Reverse(Digits(u, 4)) \in FourBytes
      BY <1>2, BytesOfNumber, ReverseBytes
    <3> QED
      BY <1>2, <3>1, <3>2, BytesOfNumber, NumberOfBytes, ReverseBytes
  <2> QED
    BY <1>1, <2>2, <2>3
<1>4. \A s \in FourBytes : NetworkOrder(FromMemory(s, HostEndian), 4, HostEndian) = Number(s)
  <2> SUFFICES ASSUME NEW s \in FourBytes
               PROVE  NetworkOrder(FromMemory(s, HostEndian), 4, HostEndian) = Number(s)
    OBVIOUS
  <2>1. CASE HostEndian = "big"
    BY <2>1 DEF FromMemory, NetworkOrder
  <2>2. CASE HostEndian = "little"
    <3>1. NetworkOrder(FromMemory(s, HostEndian), 4, HostEndian)
             = Number(Reverse(Digits(Number(Reverse(s)), 4)))
      BY <2>2 DEF FromMemory, NetworkOrder
    <3> QED
      BY <3>1, NumberOfBytes, ReverseBytes
  <2> QED
    BY <1>1, <2>1, <2>2
<1>5. Digits(u, 4) \in FourBytes /\ Number(Digits(u, 4)) = u
  BY <1>2, BytesOfNumber
<1> QED
  BY <1>2, <1>3, <1>4, <1>5 DEF Decoded, Width

-----------------------------------------------------------------------------
(***************************************************************************)
(* The connections that a step leaves alone, and steps that touch none.    *)
(***************************************************************************)
LEMMA StreamStays ==
    ASSUME NEW c \in Clients, Stream(c), Arrived(c)' = Arrived(c),
           wire'[c] = wire[c], sent'[c] = sent[c], c \in broken' <=> c \in broken
    PROVE  Stream(c)'
  BY DEF Stream

LEMMA StreamsStay ==
    ASSUME Streams, UNCHANGED <<sent, conn, received, wire, broken>>
    PROVE  Streams'
<1>1. \A c \in Clients : Arrived(c)' = Arrived(c)
  BY DEF Arrived
<1> QED
  BY <1>1, StreamStays DEF Streams

LEMMA ConnectionTyped ==
    ASSUME IInv, NEW c \in Clients
    PROVE  /\ Stream(c) /\ sent[c] \in 0 .. 4
           /\ wire[c] \in Seq(Byte) /\ Len(wire[c]) \in Nat
           /\ Arrived(c) \in Seq(Byte) /\ Len(Arrived(c)) \in Nat
           /\ Wire[c] \in Seq(Byte) /\ Len(Wire[c]) = 4
           /\ \A k \in 1 .. 4 : Wire[c][k] \in Byte
<1>1. sent[c] \in 0 .. 4 /\ wire[c] \in Seq(Byte) /\ received \in Seq(Byte) /\ Stream(c)
  BY DEF IInv, TypeOK, Streams, Width
<1>2. Arrived(c) \in Seq(Byte)
  <2>1. << >> \in Seq(Byte)
    OBVIOUS
  <2> QED
    BY <1>1, <2>1 DEF Arrived
<1>3. Wire[c] \in Seq(Byte) /\ Len(Wire[c]) = 4
  BY RoundTrip DEF FourBytes
<1>4. \A k \in 1 .. 4 : Wire[c][k] \in Byte
  BY <1>3
<1> QED
  BY <1>1, <1>2, <1>3, <1>4, LenProperties

LEMMA InitIInv == Init => IInv
<1> SUFFICES ASSUME Init PROVE IInv
  OBVIOUS
<1> USE DEF Init
<1>1. TypeOK
  BY DEF TypeOK, Width
<1>2. Serving /\ Explained
  BY DEF Serving, Explained
<1>3. Streams
  <2> SUFFICES ASSUME NEW c \in Clients PROVE Stream(c)
    BY DEF Streams
  <2>1. Arrived(c) = << >> /\ wire[c] = << >> /\ sent[c] = 0 /\ c \notin broken
    BY DEF Arrived
  <2> QED
    BY <2>1 DEF Stream
<1> QED
  BY <1>1, <1>2, <1>3 DEF IInv

(***************************************************************************)
(* The steps of a client that send nothing.                                *)
(***************************************************************************)
LEMMA ClientStepKeepsIInv ==
    ASSUME IInv, NEW c \in Clients, Connect(c) \/ ConnectFails(c) \/ Die(c) \/ Finish(c)
    PROVE  IInv'
<1>1. /\ client[c] \in {"connect", "send"}
      /\ \E to \in {"send", "failed", "done"} : client' = [client EXCEPT ![c] = to]
      /\ UNCHANGED <<sent, server, conn, received, result, wire, broken>>
      /\ backlog' \in {backlog, Append(backlog, c)}
  BY DEF Connect, ConnectFails, Die, Finish, ClientStep, program, network
<1>2. /\ client' \in [Clients -> {"connect", "send", "failed", "done"}]
      /\ \A d \in Clients : client[d] \in {"failed", "done"} => client'[d] = client[d]
  BY <1>1 DEF IInv, TypeOK
<1>3. backlog' \in Seq(Clients)
  <2>1. backlog \in Seq(Clients)
    BY DEF IInv, TypeOK
  <2> QED
    BY <1>1, <2>1, AppendProperties
<1>4. TypeOK'
  BY <1>1, <1>2, <1>3 DEF IInv, TypeOK
<1>5. Serving' /\ Explained'
  BY <1>1, <1>2 DEF IInv, Serving, Explained
<1> QED
  BY <1>1, <1>4, <1>5, StreamsStay DEF IInv

(***************************************************************************)
(* The steps of the server between its calls of accept and recv.           *)
(***************************************************************************)
LEMMA ServerStepKeepsIInv ==
    ASSUME IInv, Listen \/ ServerFails \/ ThrowReset
    PROVE  IInv'
<1>1. /\ \/ server = "listen" /\ server' \in {"accept", "threw"}
         \/ server \in {"accept", "receive"} /\ server' = "threw"
      /\ UNCHANGED <<client, sent, conn, received, result, backlog, wire, broken>>
  BY DEF Listen, ServerFails, ThrowReset, ServerStep, clients, network
<1>2. TypeOK'
  BY <1>1 DEF IInv, TypeOK
<1>3. Serving' /\ Explained'
  BY <1>1 DEF IInv, Serving, Explained
<1> QED
  BY <1>1, <1>2, <1>3, StreamsStay DEF IInv

LEMMA AcceptKeepsIInv ==
    ASSUME IInv, Accept
    PROVE  IInv'
<1>1. /\ server = "accept" /\ server' = "receive"
      /\ backlog # << >> /\ conn' = Head(backlog) /\ backlog' = Tail(backlog)
      /\ UNCHANGED <<client, sent, received, result, wire, broken>>
  BY DEF Accept, ServerStep, clients
<1>2. conn' \in Clients /\ backlog' \in Seq(Clients)
  BY <1>1, HeadTailProperties DEF IInv, TypeOK
<1>3. conn = Nobody /\ received = << >> /\ result = << >>
  BY <1>1 DEF IInv, Serving
<1>4. TypeOK'
  BY <1>1, <1>2 DEF IInv, TypeOK
<1>5. Serving' /\ Explained'
  BY <1>1, <1>2, <1>3, TransferAssumption DEF Serving, Explained
<1>6. Streams'
  <2>1. \A c \in Clients : Arrived(c)' = Arrived(c)
    BY <1>1, <1>3 DEF Arrived
  <2> QED
    BY <1>1, <2>1, StreamStays DEF IInv, Streams
<1> QED
  BY <1>4, <1>5, <1>6 DEF IInv

(***************************************************************************)
(* A reset drops what is on its way.                                       *)
(***************************************************************************)
LEMMA ResetKeepsIInv ==
    ASSUME IInv, NEW c \in Clients, Reset(c)
    PROVE  IInv'
<1>1. /\ broken' = broken \cup {c} /\ wire' = [wire EXCEPT ![c] = << >>]
      /\ UNCHANGED <<client, sent, server, conn, received, result, backlog>>
  BY DEF Reset, clients, program
<1>2. wire' \in [Clients -> Seq(Byte)] /\ wire'[c] = << >>
      /\ \A d \in Clients \ {c} : wire'[d] = wire[d]
  <2>1. wire \in [Clients -> Seq(Byte)] /\ << >> \in Seq(Byte)
    BY DEF IInv, TypeOK
  <2> QED
    BY <1>1, <2>1
<1>3. TypeOK'
  BY <1>1, <1>2 DEF IInv, TypeOK
<1>4. Serving' /\ Explained'
  BY <1>1 DEF IInv, Serving, Explained
<1>5. \A d \in Clients : Arrived(d)' = Arrived(d)
  BY <1>1 DEF Arrived
<1>6. Stream(c)'
  <2>1. /\ Stream(c) /\ Len(wire[c]) \in Nat /\ Len(Arrived(c)) \in Nat /\ sent[c] \in Nat
    BY ConnectionTyped
  <2>2. Len(Arrived(c)) <= sent[c] /\ Len(<< >>) = 0
    BY <2>1 DEF Stream
  <2> QED
    BY <1>1, <1>2, <1>5, <2>1, <2>2 DEF Stream
<1>7. \A d \in Clients \ {c} : Stream(d)'
  BY <1>1, <1>2, <1>5, StreamStays DEF IInv, Streams
<1> QED
  BY <1>3, <1>4, <1>6, <1>7 DEF IInv, Streams

(***************************************************************************)
(* One send: what the kernel takes continues the bytes on their way.       *)
(***************************************************************************)
LEMMA SendKeepsIInv ==
    ASSUME IInv, NEW c \in Clients, Send(c)
    PROVE  IInv'
<1>1. PICK n \in 1 .. (Width - sent[c]) :
         /\ sent' = [sent EXCEPT ![c] = @ + n]
         /\ wire' = IF c \in broken THEN wire
                    ELSE [wire EXCEPT ![c] = @ \o SubSeq(Wire[c], sent[c] + 1, sent[c] + n)]
  BY DEF Send, SendBytes
<1>2. /\ client[c] = "send"
      /\ UNCHANGED <<client, server, conn, received, result, backlog, broken>>
  BY DEF Send, SendBytes, program
<1>3. /\ Stream(c) /\ sent[c] \in 0 .. 4
      /\ wire[c] \in Seq(Byte) /\ Len(wire[c]) \in Nat /\ Len(Arrived(c)) \in Nat
      /\ \A k \in 1 .. 4 : Wire[c][k] \in Byte
  BY ConnectionTyped
<1>4. n \in 1 .. 4 /\ sent[c] + n \in 0 .. 4
  BY <1>3 DEF Width
<1> DEFINE more == SubSeq(Wire[c], sent[c] + 1, sent[c] + n)
<1>5. /\ more \in Seq(Byte) /\ Len(more) = n
      /\ \A k \in 1 .. n : more[k] = Wire[c][sent[c] + k]
  <2> DEFINE first == sent[c] + 1
             last  == sent[c] + n
  <2>1. /\ first \in Int /\ last \in Int /\ first <= last /\ last - first + 1 = n
        /\ \A k \in first .. last : Wire[c][k] \in Byte
        /\ \A k \in 1 .. n : first + k - 1 = sent[c] + k
    BY SMTT(30), <1>3, <1>4
  <2>2. more = SubSeq(Wire[c], first, last)
    OBVIOUS
  <2> HIDE DEF first, last, more
  <2>3. /\ more \in Seq(Byte) /\ Len(more) = last - first + 1
        /\ \A k \in 1 .. (last - first + 1) : more[k] = Wire[c][first + k - 1]
    BY <2>1, <2>2, SubSeqProperties
  <2> QED
    BY <2>1, <2>3
<1>6. /\ sent' \in [Clients -> 0 .. Width] /\ sent'[c] = sent[c] + n
      /\ \A d \in Clients \ {c} : sent'[d] = sent[d]
  BY <1>1, <1>4 DEF IInv, TypeOK, Width
<1> HIDE DEF more
<1>7. /\ wire' \in [Clients -> Seq(Byte)]
      /\ wire'[c] = (IF c \in broken THEN wire[c] ELSE wire[c] \o more)
      /\ \A d \in Clients \ {c} : wire'[d] = wire[d]
  <2>1. wire[c] \o more \in Seq(Byte)
    BY <1>3, <1>5, ConcatProperties
  <2>2. wire \in [Clients -> Seq(Byte)]
    BY DEF IInv, TypeOK
  <2>3. wire' = IF c \in broken THEN wire ELSE [wire EXCEPT ![c] = wire[c] \o more]
    BY <1>1 DEF more
  <2> QED
    BY <2>1, <2>2, <2>3
<1>8. TypeOK'
  BY <1>2, <1>6, <1>7 DEF IInv, TypeOK
<1>9. Serving' /\ Explained'
  <2>1. client[conn] \in {"failed", "done"} /\ conn \in Clients => sent'[conn] = sent[conn]
    BY <1>2, <1>6
  <2> QED
    BY <1>2, <2>1 DEF IInv, Serving, Explained
<1>10. \A d \in Clients : Arrived(d)' = Arrived(d)
  BY <1>2 DEF Arrived
<1>11. Stream(c)'
  <2> DEFINE m == Len(wire[c])
             a == Len(Arrived(c))
  <2>1. CASE c \in broken
    <3>1. /\ Len(Arrived(c)') + Len(wire'[c]) <= sent'[c]
      BY <1>3, <1>4, <1>6, <1>7, <1>10, <2>1 DEF Stream
    <3> QED
      BY <1>2, <1>7, <1>10, <2>1, <1>3, <3>1 DEF Stream
  <2>2. CASE c \notin broken
    <3>1. sent[c] = a + m /\ a \in Nat /\ m \in Nat
      BY <1>3, <2>2 DEF Stream
    <3>2. wire'[c] = wire[c] \o more
      BY <1>7, <2>2
    <3>3. /\ Len(wire'[c]) = m + n
          /\ \A k \in 1 .. (m + n) :
                wire'[c][k] = IF k <= m THEN wire[c][k] ELSE more[k - m]
      <4>1. /\ Len(wire[c] \o more) = m + Len(more)
            /\ \A k \in 1 .. (m + Len(more)) :
                  (wire[c] \o more)[k] = IF k <= m THEN wire[c][k] ELSE more[k - m]
        BY <1>3, <1>5, ConcatProperties
      <4> QED
        BY <1>5, <3>2, <4>1
    <3>4. \A k \in 1 .. m : wire[c][k] = Wire[c][a + k]
      BY <1>3 DEF Stream
    <3> HIDE DEF m, a
    <3>5. ASSUME NEW k \in 1 .. (m + n) PROVE wire'[c][k] = Wire[c][a + k]
      <4>1. CASE k <= m
        BY <1>4, <3>1, <3>3, <3>4, <4>1
      <4>2. CASE k > m
        <5>1. k - m \in 1 .. n /\ sent[c] + (k - m) = a + k
          BY <1>4, <3>1, <4>2
        <5>2. more[k - m] = Wire[c][a + k]
          BY <1>5, <5>1
        <5> QED
          BY <1>4, <3>1, <3>3, <4>2, <5>2
      <4> QED
        BY <1>4, <3>1, <4>1, <4>2
    <3>6. sent'[c] = a + Len(wire'[c])
      BY <1>4, <1>6, <3>1, <3>3
    <3>7. /\ a + Len(wire'[c]) <= sent'[c]
      BY <1>4, <3>1, <3>3, <3>6
    <3> QED
      BY <1>2, <1>3, <1>10, <2>2, <3>3, <3>5, <3>6, <3>7 DEF Stream, a
  <2> QED
    BY <2>1, <2>2
<1>12. \A d \in Clients \ {c} : Stream(d)'
  BY <1>2, <1>6, <1>7, <1>10, StreamStays DEF IInv, Streams
<1> QED
  BY <1>8, <1>9, <1>11, <1>12 DEF IInv, Streams

(***************************************************************************)
(* One recv: bytes move from the connection to those received.             *)
(***************************************************************************)
LEMMA ReceiveKeepsIInv ==
    ASSUME IInv, Receive
    PROVE  IInv'
<1>1. PICK n \in 1 .. Len(wire[conn]) :
         /\ Len(received) + n <= Width
         /\ received' = received \o SubSeq(wire[conn], 1, n)
         /\ wire' = [wire EXCEPT ![conn] = SubSeq(@, n + 1, Len(@))]
  BY DEF Receive
<1>2. /\ server = "receive"
      /\ UNCHANGED <<client, sent, server, conn, result, backlog, broken>>
  BY DEF Receive, clients
<1>3. conn \in Clients
  BY <1>2 DEF IInv, Serving
<1> DEFINE c == conn
           line == wire[c]
           l == Len(line)
           more == SubSeq(line, 1, n)
           rest == SubSeq(line, n + 1, l)
<1>4. /\ Stream(c) /\ sent[c] \in 0 .. 4
      /\ line \in Seq(Byte) /\ l \in Nat
      /\ received \in Seq(Byte) /\ Len(received) \in Nat /\ Arrived(c) = received
  BY <1>3, ConnectionTyped DEF Arrived
<1>5. n \in 1 .. l /\ c \notin broken
  <2>1. n \in 1 .. l
    BY <1>1
  <2>2. line # << >>
    BY <1>4, <2>1
  <2> QED
    BY <1>4, <2>1, <2>2 DEF Stream
<1>6. /\ more \in Seq(Byte) /\ Len(more) = n
      /\ \A k \in 1 .. n : more[k] = line[k]
  <2>1. /\ n \in Int /\ 1 <= n /\ n - 1 + 1 = n /\ \A k \in 1 .. n : line[k] \in Byte
        /\ \A k \in 1 .. n : 1 + k - 1 = k
    BY <1>4, <1>5
  <2> HIDE DEF line, l
  <2>2. /\ more \in Seq(Byte) /\ Len(more) = n - 1 + 1
        /\ \A k \in 1 .. (n - 1 + 1) : more[k] = line[1 + k - 1]
    BY <2>1, SubSeqProperties
  <2> HIDE DEF more
  <2> QED
    BY <2>1, <2>2
<1>7. /\ rest \in Seq(Byte) /\ Len(rest) = l - n
      /\ \A k \in 1 .. (l - n) : rest[k] = line[n + k]
  <2> DEFINE from == n + 1
  <2>1. /\ from \in Int /\ l \in Int
        /\ \A k \in from .. l : line[k] \in Byte
        /\ l - from + 1 = l - n /\ (IF from <= l THEN l - from + 1 ELSE 0) = l - n
        /\ \A k \in 1 .. (l - n) : from + k - 1 = n + k
    BY <1>4, <1>5
  <2>2. rest = SubSeq(line, from, l)
    OBVIOUS
  <2> HIDE DEF line, l, rest, from
  <2>3. /\ rest \in Seq(Byte) /\ Len(rest) = (IF from <= l THEN l - from + 1 ELSE 0)
        /\ \A k \in 1 .. (l - from + 1) : rest[k] = line[from + k - 1]
    BY <2>1, <2>2, SubSeqProperties
  <2> QED
    BY <2>1, <2>3
<1>8. /\ received' = received \o more
      /\ wire' \in [Clients -> Seq(Byte)] /\ wire'[c] = rest
      /\ \A d \in Clients \ {c} : wire'[d] = wire[d]
  <2>1. wire \in [Clients -> Seq(Byte)]
    BY DEF IInv, TypeOK
  <2>2. wire' = [wire EXCEPT ![c] = rest]
    BY <1>1
  <2> QED
    BY <1>1, <1>3, <1>7, <2>1, <2>2
<1> HIDE DEF more, rest, line
<1>9. /\ received' \in Seq(Byte) /\ Len(received') = Len(received) + n
      /\ \A k \in 1 .. (Len(received) + n) :
            received'[k] = IF k <= Len(received) THEN received[k] ELSE more[k - Len(received)]
  <2>1. /\ received \o more \in Seq(Byte)
        /\ Len(received \o more) = Len(received) + Len(more)
        /\ \A k \in 1 .. (Len(received) + Len(more)) :
              (received \o more)[k] = IF k <= Len(received) THEN received[k] ELSE more[k - Len(received)]
    BY <1>4, <1>6, ConcatProperties
  <2> QED
    BY <1>6, <1>8, <2>1
<1>10. TypeOK'
  BY <1>2, <1>8, <1>9 DEF IInv, TypeOK
<1>11. Serving' /\ Explained'
  BY <1>2, <1>3, TransferAssumption DEF IInv, Serving, Explained
<1>12. /\ Arrived(c)' = received'
       /\ \A d \in Clients \ {c} : Arrived(d)' = Arrived(d)
  BY <1>2 DEF Arrived
<1>13. Stream(c)'
  <2> DEFINE a == Len(received)
  <2>1. /\ sent[c] = a + l /\ a \in Nat
        /\ \A k \in 1 .. a : received[k] = Wire[c][k]
        /\ \A k \in 1 .. l : line[k] = Wire[c][a + k]
    BY <1>4, <1>5 DEF Stream, line
  <2> HIDE DEF a, l
  <2>2. ASSUME NEW k \in 1 .. (a + n) PROVE received'[k] = Wire[c][k]
    <3>1. CASE k <= a
      BY <1>9, <2>1, <3>1 DEF a
    <3>2. CASE k > a
      <4>1. k - a \in 1 .. n /\ k - a \in 1 .. l /\ a + (k - a) = k
        BY <1>4, <1>5, <2>1, <3>2
      <4>2. more[k - a] = Wire[c][k]
        BY <1>6, <2>1, <4>1
      <4>3. received'[k] = more[k - a]
        BY <1>9, <2>1, <3>2 DEF a
      <4> QED
        BY <4>2, <4>3
    <3> QED
      BY <1>5, <2>1, <3>1, <3>2
  <2>3. ASSUME NEW k \in 1 .. (l - n) PROVE rest[k] = Wire[c][(a + n) + k]
    <3>1. n + k \in 1 .. l /\ a + (n + k) = (a + n) + k
      BY <1>4, <1>5, <2>1
    <3> QED
      BY <1>7, <2>1, <3>1
  <2>4. (a + n) + (l - n) = sent[c] /\ sent[c] <= sent[c] /\ Len(received') = a + n
    BY <1>4, <1>5, <1>9, <2>1 DEF a
  <2> QED
    BY <1>2, <1>5, <1>7, <1>8, <1>12, <2>2, <2>3, <2>4 DEF Stream
<1>14. \A d \in Clients \ {c} : Stream(d)'
  BY <1>2, <1>8, <1>12, StreamStays DEF IInv, Streams
<1> QED
  BY <1>2, <1>10, <1>11, <1>13, <1>14 DEF IInv, Streams

(***************************************************************************)
(* recv returns 0: the client has ended, and what it sent was received.    *)
(***************************************************************************)
LEMMA EndOfStreamKeepsIInv ==
    ASSUME IInv, EndOfStream
    PROVE  IInv'
<1>1. /\ server = "receive" /\ Len(received) < Width
      /\ client[conn] \in {"failed", "done"} /\ wire[conn] = << >> /\ conn \notin broken
      /\ server' \in {"done", "threw"}
      /\ result' = <<IF received = << >> THEN "nothing" ELSE "mid-message">>
      /\ UNCHANGED <<client, sent, conn, received, backlog, wire, broken>>
  BY DEF EndOfStream, EndOfStreamIf, Outcome, clients, network
<1>2. conn \in Clients
  BY <1>1 DEF IInv, Serving
<1>3. /\ Stream(conn) /\ received \in Seq(Byte) /\ Arrived(conn) = received
  BY <1>2, ConnectionTyped DEF Arrived
<1>4. sent[conn] = Len(received) /\ Len(received) \in Nat
  BY <1>1, <1>3 DEF Stream
<1>5. received = << >> <=> sent[conn] = 0
  BY <1>3, <1>4
<1>6. TypeOK'
  BY <1>1 DEF IInv, TypeOK
<1>7. Serving' /\ Explained'
  BY <1>1, <1>2, <1>4, <1>5, TransferAssumption DEF Serving, Explained
<1> QED
  BY <1>1, <1>6, <1>7, StreamsStay DEF IInv

(***************************************************************************)
(* All four bytes are there: they are those of the integer.                *)
(***************************************************************************)
LEMMA ReturnKeepsIInv ==
    ASSUME IInv, Return
    PROVE  IInv'
<1>1. /\ server = "receive" /\ server' = "done" /\ Len(received) = 4
      /\ result' = <<"integer", Decoded(received)>>
      /\ UNCHANGED <<client, sent, conn, received, backlog, wire, broken>>
  BY DEF Return, ServerStep, clients, network, Width
<1>2. conn \in Clients
  BY <1>1 DEF IInv, Serving
<1>3. /\ Stream(conn) /\ received \in Seq(Byte) /\ Arrived(conn) = received
      /\ Wire[conn] \in Seq(Byte) /\ Len(Wire[conn]) = 4
  BY <1>2, ConnectionTyped DEF Arrived
<1>4. received = Wire[conn]
  <2>1. \A k \in 1 .. 4 : received[k] = Wire[conn][k]
    BY <1>1, <1>3 DEF Stream
  <2> QED
    BY <1>1, <1>3, <2>1, SeqEqual
<1>5. result' = <<"integer", Value[conn]>>
  BY <1>1, <1>2, <1>4, RoundTrip
<1>6. TypeOK'
  BY <1>1 DEF IInv, TypeOK
<1>7. Serving' /\ Explained'
  BY <1>1, <1>2, <1>5, TransferAssumption DEF Serving, Explained
<1> QED
  BY <1>1, <1>6, <1>7, StreamsStay DEF IInv
-----------------------------------------------------------------------------
LEMMA NextKeepsIInv ==
    ASSUME IInv, [Next]_vars
    PROVE  IInv'
<1>1. CASE UNCHANGED vars
  <2>1. UNCHANGED <<client, sent, server, conn, received, result, backlog, wire, broken>>
    BY <1>1 DEF vars, clients, program, network
  <2>2. TypeOK'
    BY <2>1 DEF IInv, TypeOK
  <2>3. Serving' /\ Explained'
    BY <2>1 DEF IInv, Serving, Explained
  <2> QED
    BY <2>1, <2>2, <2>3, StreamsStay DEF IInv
<1>2. CASE Server
  BY <1>2, ServerStepKeepsIInv, AcceptKeepsIInv, ReceiveKeepsIInv, EndOfStreamKeepsIInv,
     ReturnKeepsIInv DEF Server
<1>3. ASSUME NEW c \in Clients, Client(c) PROVE IInv'
  BY <1>3, ClientStepKeepsIInv, SendKeepsIInv DEF Client
<1>4. ASSUME NEW c \in Clients, Reset(c) PROVE IInv'
  BY <1>4, ResetKeepsIInv
<1> QED
  BY <1>1, <1>2, <1>3, <1>4 DEF Next

(***************************************************************************)
(* The inductive invariant of the two programs.                            *)
(***************************************************************************)
THEOREM TransferInvariance == Spec => []IInv
<1>1. Init => IInv
  BY InitIInv
<1>2. IInv /\ [Next]_vars => IInv'
  BY NextKeepsIInv
<1> QED
  BY <1>1, <1>2, PTL DEF Spec

(***************************************************************************)
(* An integer that receive_i32 returns is the one its client passed to     *)
(* send_i32, for any partial sends and receives, resets and byte orders.   *)
(***************************************************************************)
THEOREM IntegerIsRight == Spec => []RightInteger
<1>1. IInv => RightInteger
  BY DEF IInv, Explained, RightInteger
<1> QED
  BY <1>1, TransferInvariance, PTL

(***************************************************************************)
(* recv_exactly tells a client that sent nothing from one that left in the *)
(* middle of its integer.                                                  *)
(***************************************************************************)
THEOREM EndIsExplained == Spec => []EndExplained
<1>1. IInv => EndExplained
  <2> SUFFICES ASSUME IInv PROVE EndExplained
    OBVIOUS
  <2>1. CASE result = << >> \/ result = <<"integer", Value[conn]>>
    <3>1. result # <<"nothing">> /\ result # <<"mid-message">>
      <4>1. \A v : <<"integer", v>>[1] # <<"nothing">>[1] /\ <<"integer", v>>[1] # <<"mid-message">>[1]
        OBVIOUS
      <4>2. << >> # <<"nothing">> /\ << >> # <<"mid-message">>
        OBVIOUS
      <4> QED
        BY <2>1, <4>1, <4>2
    <3> QED
      BY <3>1 DEF EndExplained
  <2>2. CASE /\ conn \in Clients /\ sent[conn] < Width
             /\ result = (IF sent[conn] = 0 THEN <<"nothing">> ELSE <<"mid-message">>)
    <3>1. sent[conn] \in 0 .. 4
      BY <2>2, ConnectionTyped
    <3> QED
      BY <2>2, <3>1 DEF EndExplained, Width
  <2> QED
    BY <2>1, <2>2 DEF IInv, Explained
<1> QED
  BY <1>1, TransferInvariance, PTL

-----------------------------------------------------------------------------
(***************************************************************************)
(* The same bytes in addresses (AddressResolution): the two bytes of a     *)
(* port, on a host of either byte order.                                   *)
(***************************************************************************)
LEMMA TwoBytes ==
    ASSUME NEW h \in Byte, NEW l \in Byte
    PROVE  /\ Digits(Number(<<h, l>>), 2) = <<h, l>>
           /\ Reverse(<<h, l>>) = <<l, h>>
<1> DEFINE b == ByteBase
           s == <<h, l>>
<1>1. b \in Nat \ {0} /\ h \in 0 .. (b - 1) /\ l \in 0 .. (b - 1) /\ h \in Nat /\ l \in Nat
  BY Units DEF Byte
<1>2. Unit[1] = 1 /\ Unit[2] = b
  BY DEF Unit
<1>3. Number(s) = h * b + l
  <2>1. Len(s) = 2 /\ s[1] = h /\ s[2] = l
    OBVIOUS
  <2>2. Number(s) = s[2] * Unit[1] + s[1] * Unit[2]
    BY <1>1, <1>2, <2>1 DEF Number
  <2> QED BY <1>1, <1>2, <2>1, <2>2
<1>4. (h * b + l) \div b = h /\ (h * b + l) % b = l
  BY <1>1, DivMod
<1>5. (h * b + l) \div 1 = h * b + l /\ h % b = h
  <2>1. h * b + l \in Nat
    BY <1>1
  <2>2. h % b = h
    BY <1>1
  <2> QED BY <2>1, <2>2
<1>6. Digits(h * b + l, 2) = [k \in 1 .. 2 |-> ((h * b + l) \div Unit[2 - k + 1]) % b]
  BY DEF Digits
<1>7. Digits(h * b + l, 2) = s
  BY <1>2, <1>4, <1>5, <1>6
<1>8. Reverse(s) = <<l, h>>
  BY DEF Reverse
<1> QED BY <1>3, <1>7, <1>8

LEMMA PortBytes ==
    ASSUME NEW p \in Nat
    PROVE  \E h, l \in Byte : Digits(p, 2) = <<h, l>>
<1>1. ByteBase \in Nat \ {0} /\ \A k \in 1 .. 2 : Unit[k] \in Nat \ {0}
  BY Units DEF Unit
<1>2. \A n \in Int : n % ByteBase \in Byte
  BY <1>1 DEF Byte
<1> DEFINE h == (p \div Unit[2]) % ByteBase
           l == (p \div Unit[1]) % ByteBase
<1>3. h \in Byte /\ l \in Byte
  BY <1>1, <1>2
<1>4. Digits(p, 2) = <<h, l>>
  BY DEF Digits
<1> QED BY <1>3, <1>4

(***************************************************************************)
(* What to_socket_address made of a sockaddr, to_raw_addr turns back into  *)
(* it, without the scope: the port goes through host order, the address    *)
(* stays as it is.                                                         *)
(***************************************************************************)
LEMMA AddressRoundTrip ==
    ASSUME AddressAssumption, NEW raw \in Entries
    PROVE  /\ to_raw_addr(to_socket_address(raw)) = Unscoped(raw)
           /\ raw.family # "AF_INET6" => Unscoped(raw) = raw
<1>1. PICK family \in Families, host \in Hosts, p \in Ports, scope \in Scopes :
         raw = Raw(family, host, p, scope)
  BY DEF Entries
<1>2. PICK h \in Byte, l \in Byte : Digits(p, 2) = <<h, l>>
  BY PortBytes DEF AddressAssumption
<1> DEFINE kept == IF family = "AF_INET6" THEN scope ELSE 0
<1>3. raw = [family |-> family, addr |-> host, len |-> family, port |-> <<h, l>>, scope |-> kept]
  BY <1>1, <1>2 DEF Raw
<1> DEFINE port == HostPort(raw)
           back == InMemory(NetworkOrder(port, 2, HostEndian), 2, HostEndian)
<1>4. raw.port = <<h, l>>
  BY <1>3
<1>5. back = <<h, l>>
  <2>1. CASE HostEndian = "big"
    <3>1. port = Number(<<h, l>>)
      BY <1>4, <2>1 DEF HostPort, FromMemory, NetworkOrder
    <3>2. back = Digits(port, 2)
      BY <2>1 DEF InMemory, NetworkOrder
    <3> QED BY <3>1, <3>2, TwoBytes
  <2>2. CASE HostEndian # "big"
    <3>1. port = Number(Reverse(Digits(Number(Reverse(<<h, l>>)), 2)))
      BY <1>4, <2>2 DEF HostPort, FromMemory, NetworkOrder
    <3>2. port = Number(<<h, l>>)
      BY <3>1, TwoBytes
    <3>3. back = Reverse(Digits(Number(Reverse(Digits(port, 2))), 2))
      BY <2>2 DEF InMemory, NetworkOrder
    <3> QED BY <3>2, <3>3, TwoBytes
  <2> QED BY <2>1, <2>2
<1>6. to_raw_addr(to_socket_address(raw)) =
          [family |-> family, addr |-> host, len |-> family, port |-> back, scope |-> 0]
  BY <1>3 DEF to_raw_addr, to_socket_address
<1>7. Unscoped(raw) =
          [family |-> family, addr |-> host, len |-> family, port |-> <<h, l>>, scope |-> 0]
  BY <1>3 DEF Unscoped
<1>8. raw.family # "AF_INET6" => kept = 0
  BY <1>3
<1> QED BY <1>3, <1>5, <1>6, <1>7, <1>8

(***************************************************************************)
(* Each step of get_address_infos keeps its invariant.                     *)
(***************************************************************************)
LEMMA AddressInitially ==
    ASSUME AddressAssumption
    PROVE  AddressInit => AddressIInv
<1> SUFFICES ASSUME AddressInit PROVE AddressIInv
  OBVIOUS
<1>1. PICK n \in 1 .. MaxFound : found \in [1 .. n -> Entries]
  BY DEF AddressInit
<1>2. n \in Nat
  BY DEF AddressAssumption
<1>3. found \in Seq(Entries) /\ Len(found) \in Nat
  BY <1>1, <1>2
<1>4. out = << >> /\ pc = "resolve" /\ held = FALSE
  BY DEF AddressInit
<1>5. Len(out) = 0 /\ out = [i \in 1 .. Len(out) |-> to_socket_address(found[i])]
  BY <1>4
<1>6. Len(out) \in 0 .. Len(found)
  BY <1>3, <1>5
<1>7. held = (pc = "convert") /\ pc # "returned"
  BY <1>4
<1> QED BY <1>3, <1>4, <1>5, <1>6, <1>7 DEF AddressIInv

LEMMA AddressStep ==
    ASSUME AddressIInv, [AddressNext]_addressVars
    PROVE  AddressIInv'
<1>1. CASE Convert
  <2> DEFINE n == Len(out)
             a == to_socket_address(found[n + 1])
  <2>1. /\ out' = Append(out, a) /\ UNCHANGED <<found, held>> /\ pc = "convert" /\ pc' = "convert"
        /\ n < Len(found)
    BY <1>1 DEF Convert, Step
  <2>2. n \in Nat /\ Len(found) \in Nat /\ out = [i \in 1 .. n |-> to_socket_address(found[i])]
    BY DEF AddressIInv
  <2>3. Len(out') = n + 1 /\ out' = [i \in 1 .. (n + 1) |-> to_socket_address(found[i])]
    <3>1. \A f : f = [i \in 1 .. n |-> to_socket_address(found[i])] =>
             Append(f, a) = [i \in 1 .. (n + 1) |-> to_socket_address(found[i])]
      BY <2>2
    <3>2. \A f : f = [i \in 1 .. (n + 1) |-> to_socket_address(found[i])] => Len(f) = n + 1
      BY <2>2
    <3> QED BY <2>1, <2>2, <3>1, <3>2
  <2>4. out' = [i \in 1 .. Len(out') |-> to_socket_address(found'[i])]
    BY <2>1, <2>3
  <2> QED BY <2>1, <2>2, <2>3, <2>4 DEF AddressIInv, to_socket_address, HostPort
<1>2. CASE ResolveFails \/ Resolve \/ Throws \/ AddressReturn \/ UNCHANGED addressVars
  <2>1. /\ UNCHANGED <<found, out>> /\ pc' \in {"resolve", "failed", "convert", "returned", "threw"}
        /\ held' = (pc' = "convert")
        /\ pc' = "returned" => Len(out) = Len(found)
    BY <1>2 DEF ResolveFails, Resolve, Throws, AddressReturn, Step, addressVars, AddressIInv
  <2> QED BY <2>1 DEF AddressIInv, to_socket_address, HostPort
<1> QED BY <1>1, <1>2 DEF AddressNext

(***************************************************************************)
(* For any addresses, ports and scopes, byte order and length of the list: *)
(* connect and bind are given the IPv4 addresses that were found, and the  *)
(* IPv6 addresses without their scopes; a list that is returned is         *)
(* complete and in order; and getaddrinfo's is freed on every way out.     *)
(***************************************************************************)
THEOREM AddressesAreKept ==
    ASSUME AddressAssumption
    PROVE  AddressSpec => []AddressKept
<1>1. AddressIInv /\ [AddressNext]_addressVars => AddressIInv'
  BY AddressStep
<1>2. AddressIInv => AddressKept
  <2> SUFFICES ASSUME AddressIInv PROVE AddressKept
    OBVIOUS
  <2>1. /\ found \in Seq(Entries) /\ Len(out) \in Nat /\ Len(out) <= Len(found) /\ Len(found) \in Nat
        /\ out = [i \in 1 .. Len(out) |-> to_socket_address(found[i])]
    BY DEF AddressIInv
  <2>2. DOMAIN out = 1 .. Len(out) /\ \A i \in 1 .. Len(out) : out[i] = to_socket_address(found[i])
    BY <2>1
  <2>3. ASSUME NEW i \in DOMAIN out
        PROVE  to_raw_addr(out[i]) = IF found[i].family = "AF_INET6" THEN Unscoped(found[i]) ELSE found[i]
    <3>1. found[i] \in Entries /\ out[i] = to_socket_address(found[i])
      BY <2>1, <2>2
    <3> QED BY <3>1, AddressRoundTrip
  <2> QED BY <2>3 DEF AddressIInv, AddressKept
<1> QED BY <1>1, <1>2, AddressInitially, PTL DEF AddressSpec

-----------------------------------------------------------------------------
(***************************************************************************)
(* The sockets (SocketOwner).  A descriptor that somebody holds is open.   *)
(***************************************************************************)
LEMMA HeldIsOpen ==
    ASSUME SocketIInv, NEW o \in Objects, Holder(o)
    PROVE  socket[o].fd \in Descriptors /\ kernel[socket[o].fd] # "closed"
BY DEF SocketIInv, SocketTypeOK, FitForUse, UnderConstruction, Holder, Built, Alive, Sockets, Ready

(***************************************************************************)
(* What opening a descriptor for a new object does to the invariant, for   *)
(* socket() and for accept().                                              *)
(***************************************************************************)
LEMMA OpenedKeeps ==
    ASSUME SocketIInv, NEW o \in Objects, NEW class, NEW todo, NEW state,
           Opened(o, class, todo, state),
           \/ class \in {"client", "server"} /\ todo = SetUpCalls[class] /\ state = "new"
           \/ class = "connected" /\ todo = 0 /\ state = "connected"
    PROVE  SocketIInv'
<1>1. PICK fd \in Descriptors :
          /\ kernel[fd] = "closed"
          /\ socket' = [socket EXCEPT ![o] = [class |-> class, fd |-> fd, todo |-> todo]]
          /\ kernel' = [kernel EXCEPT ![fd] = state]
  BY DEF Opened
<1> DEFINE new == [class |-> class, fd |-> fd, todo |-> todo]
<1>2. new \in Sockets /\ new # Absent /\ fd # k_invalid_fd
  BY SocketAssumption DEF Sockets, SetUpCalls
<1>3. SocketTypeOK'
  BY <1>1, <1>2 DEF SocketIInv, SocketTypeOK
<1>4. socket'[o] = new /\ \A p \in Objects \ {o} : socket'[p] = socket[p]
  BY <1>1 DEF SocketIInv, SocketTypeOK
<1>5. \A p \in Objects : Holder(p) => socket[p].fd \in Descriptors /\ kernel[socket[p].fd] # "closed"
  BY HeldIsOpen
<1>6. ~Alive(o)
  BY DEF Opened
<1>7. OneOwner'
  BY <1>1, <1>2, <1>4, <1>5 DEF SocketIInv, OneOwner, Holder, Alive
<1>8. NothingLeaks'
  BY <1>1, <1>2, <1>4, <1>6 DEF SocketIInv, SocketTypeOK, NothingLeaks, Holder, Alive
<1>9. FitForUse'
  BY <1>1, <1>2, <1>4, <1>5 DEF SocketIInv, SocketTypeOK, FitForUse, Holder, Built, Alive, Ready, SetUpCalls
<1>10. UnderConstruction'
  BY <1>1, <1>2, <1>4, <1>5 DEF SocketIInv, SocketTypeOK, UnderConstruction, Holder, Built, Alive, SetUpCalls
<1> QED BY <1>3, <1>7, <1>8, <1>9, <1>10 DEF SocketIInv

(***************************************************************************)
(* What is left when an object closes its descriptor and is gone.          *)
(***************************************************************************)
LEMMA ReleaseKeeps ==
    ASSUME SocketIInv, NEW o \in Objects, Alive(o),
           socket' = [socket EXCEPT ![o] = Absent], kernel' = Closing(o)
    PROVE  SocketIInv'
<1>1. socket'[o] = Absent /\ \A p \in Objects \ {o} : socket'[p] = socket[p]
  BY DEF SocketIInv, SocketTypeOK
<1>2. \A fd \in Descriptors :
         kernel'[fd] = IF Holder(o) /\ socket[o].fd = fd THEN "closed" ELSE kernel[fd]
  BY DEF Closing
<1>3. SocketTypeOK'
  BY DEF SocketIInv, SocketTypeOK, Closing
<1>4. \A p \in Objects \ {o} : Holder(p) => kernel'[socket[p].fd] = kernel[socket[p].fd]
  BY <1>2, HeldIsOpen DEF SocketIInv, OneOwner
<1>5. OneOwner'
  BY <1>1 DEF SocketIInv, OneOwner, Holder, Alive
<1>6. NothingLeaks'
  BY <1>1, <1>2 DEF SocketIInv, NothingLeaks, Holder, Alive
<1>7. FitForUse'
  BY <1>1, <1>4 DEF SocketIInv, FitForUse, Holder, Built, Alive
<1>8. UnderConstruction'
  BY <1>1, <1>4 DEF SocketIInv, UnderConstruction, Holder, Built, Alive
<1> QED BY <1>3, <1>5, <1>6, <1>7, <1>8 DEF SocketIInv

LEMMA SetUpKeeps ==
    ASSUME SocketIInv, NEW o \in Objects, SetUp(o)
    PROVE  SocketIInv'
<1> USE DEF SetUp
<1>1. Alive(o) /\ ~Built(o) /\ Holder(o) /\ socket[o] \in Sockets
  BY DEF SocketIInv, SocketTypeOK, UnderConstruction, Alive
<1>2. socket[o].todo \in 1 .. 3 /\ socket[o].class \in {"client", "server"} /\ kernel[socket[o].fd] = "new"
  BY <1>1 DEF SocketIInv, UnderConstruction, Sockets, Built, SetUpCalls
<1>3. /\ socket'[o].fd = socket[o].fd /\ socket'[o].class = socket[o].class
      /\ socket'[o].todo = socket[o].todo - 1
      /\ socket'[o] \in Sockets /\ socket'[o] # Absent
      /\ \A p \in Objects \ {o} : socket'[p] = socket[p]
  BY <1>1, <1>2, SocketAssumption DEF SocketIInv, SocketTypeOK, Sockets
<1>4. socket[o].fd \in Descriptors /\ \A p \in Objects \ {o} : Holder(p) => socket[p].fd # socket[o].fd
  BY <1>1, HeldIsOpen DEF SocketIInv, OneOwner
<1>5. \A fd \in Descriptors \ {socket[o].fd} : kernel'[fd] = kernel[fd]
  BY DEF SocketIInv, SocketTypeOK
<1>6. kernel'[socket[o].fd] = IF socket[o].todo = 1 THEN Ready[socket[o].class] ELSE "new"
  BY <1>2, <1>4 DEF SocketIInv, SocketTypeOK
<1>7. SocketTypeOK'
  <2>1. Ready[socket[o].class] \in {"listening", "connected"}
    BY <1>2 DEF Ready
  <2>2. kernel' \in [Descriptors -> {"closed", "new", "listening", "connected"}]
    BY <2>1 DEF SocketIInv, SocketTypeOK
  <2>3. socket' \in [Objects -> Sockets \cup {Absent}]
    BY <1>3 DEF SocketIInv, SocketTypeOK
  <2> QED BY <2>2, <2>3 DEF SocketTypeOK
<1>8. OneOwner'
  BY <1>1, <1>3 DEF SocketIInv, OneOwner, Holder, Alive
<1>9. NothingLeaks'
  BY <1>1, <1>3, <1>4, <1>5 DEF SocketIInv, NothingLeaks, Holder, Alive
<1>10. FitForUse'
  BY <1>1, <1>2, <1>3, <1>4, <1>5, <1>6, HeldIsOpen DEF SocketIInv, FitForUse, Holder, Built, Alive
<1>11. UnderConstruction'
  BY <1>1, <1>2, <1>3, <1>4, <1>5, <1>6, HeldIsOpen DEF SocketIInv, UnderConstruction, Holder, Built, Alive, SetUpCalls
<1> QED BY <1>7, <1>8, <1>9, <1>10, <1>11 DEF SocketIInv

(***************************************************************************)
(* A move closes what the target has and hands over what the source has.   *)
(***************************************************************************)
LEMMA StealKeeps ==
    ASSUME SocketIInv, NEW o \in Objects, NEW p \in Objects, Steal(o, p)
    PROVE  SocketIInv'
<1> USE DEF Steal, StealLeaving
<1>1. o # p /\ Built(p) /\ Alive(p) /\ socket[p] \in Sockets
  BY DEF SocketIInv, SocketTypeOK, Built, Alive
<1>2. /\ socket'[o] = socket[p] /\ socket'[p] = [socket[p] EXCEPT !.fd = k_invalid_fd]
      /\ \A q \in Objects \ {o, p} : socket'[q] = socket[q]
  BY <1>1 DEF SocketIInv, SocketTypeOK
<1>3. socket'[p] \in Sockets /\ socket'[p] # Absent /\ socket'[p].fd = k_invalid_fd /\ socket'[p].todo = 0
  BY <1>1, <1>2, SocketAssumption DEF Sockets, Built
<1>4. \A fd \in Descriptors :
         kernel'[fd] = IF Holder(o) /\ socket[o].fd = fd THEN "closed" ELSE kernel[fd]
  BY DEF Closing
<1>5. \A q \in Objects \ {o} : Holder(q) => kernel'[socket[q].fd] = kernel[socket[q].fd]
  BY <1>4, HeldIsOpen DEF SocketIInv, OneOwner
<1>6. SocketTypeOK'
  BY <1>1, <1>2, <1>3 DEF SocketIInv, SocketTypeOK, Closing
<1>7. ~Holder(p)' /\ (Holder(o)' <=> Holder(p)) /\ \A q \in Objects \ {o, p} : Holder(q)' <=> Holder(q)
  BY <1>1, <1>2, <1>3 DEF Holder, Alive
<1>8. OneOwner'
  BY <1>1, <1>2, <1>7 DEF SocketIInv, OneOwner
<1>9. NothingLeaks'
  <2> SUFFICES ASSUME NEW fd \in Descriptors, kernel'[fd] # "closed"
               PROVE  \E q \in Objects : Holder(q)' /\ socket'[q].fd = fd
    BY DEF NothingLeaks
  <2>1. PICK q \in Objects : Holder(q) /\ socket[q].fd = fd /\ q # o
    BY <1>4 DEF SocketIInv, NothingLeaks
  <2> QED BY <2>1, <1>2, <1>7
<1>10. FitForUse'
  <2> SUFFICES ASSUME NEW q \in Objects, Built(q)', Holder(q)'
               PROVE  kernel'[socket'[q].fd] = Ready[socket'[q].class]
    BY DEF FitForUse
  <2>1. CASE q = o
    BY <2>1, <1>1, <1>2, <1>5, <1>7 DEF SocketIInv, FitForUse
  <2>2. CASE q # o
    <3>1. q # p /\ socket'[q] = socket[q] /\ Holder(q) /\ Built(q)
      BY <2>2, <1>2, <1>7 DEF Built, Alive
    <3> QED BY <2>2, <3>1, <1>5 DEF SocketIInv, FitForUse
  <2> QED BY <2>1, <2>2
<1>11. UnderConstruction'
  BY ZenonT(40), <1>1, <1>2, <1>3, <1>5, <1>7 DEF SocketIInv, UnderConstruction, Built, Alive
<1> QED BY <1>6, <1>8, <1>9, <1>10, <1>11 DEF SocketIInv

(***************************************************************************)
(* The ownership of descriptors is an invariant of SocketOwner.            *)
(***************************************************************************)
THEOREM SocketInvariance == SocketSpec => []SocketIInv
<1>1. SocketInit => SocketIInv
  BY SocketAssumption DEF SocketInit, SocketIInv, SocketTypeOK, OneOwner, NothingLeaks, FitForUse, UnderConstruction,
     Holder, Built, Alive
<1>2. SocketIInv /\ [SocketNext]_socketVars => SocketIInv'
  <2> SUFFICES ASSUME SocketIInv, [SocketNext]_socketVars PROVE SocketIInv'
    OBVIOUS
  <2>1. CASE UNCHANGED socketVars
    BY <2>1 DEF socketVars, SocketIInv, SocketTypeOK, OneOwner, NothingLeaks, FitForUse, UnderConstruction,
       Holder, Built, Alive
  <2>2. ASSUME NEW o \in Objects, NEW class \in DOMAIN SetUpCalls, Socket(o, class) PROVE SocketIInv'
    <3>1. class \in {"client", "server"}
      BY DEF SetUpCalls
    <3> QED BY <2>2, <3>1, OpenedKeeps DEF Socket
  <2>3. ASSUME NEW o \in Objects, SetUp(o) PROVE SocketIInv'
    BY <2>3, SetUpKeeps
  <2>4. ASSUME NEW o \in Objects, SetUpFails(o) PROVE SocketIInv'
    BY <2>4, ReleaseKeeps DEF SetUpFails
  <2>5. ASSUME NEW o \in Objects, Destroy(o) PROVE SocketIInv'
    BY <2>5, ReleaseKeeps DEF Destroy, Built
  <2>6. ASSUME NEW o \in Objects, NEW p \in Objects, AcceptConnection(p, o) PROVE SocketIInv'
    BY <2>6, OpenedKeeps DEF AcceptConnection
  <2>7. ASSUME NEW o \in Objects, NEW p \in Objects, Steal(o, p) PROVE SocketIInv'
    BY <2>7, StealKeeps
  <2> QED BY <2>1, <2>2, <2>3, <2>4, <2>5, <2>6, <2>7 DEF SocketNext
<1> QED BY <1>1, <1>2, PTL DEF SocketSpec

(***************************************************************************)
(* A descriptor has at most one owner.                                     *)
(***************************************************************************)
THEOREM OwnedOnce == SocketSpec => []OneOwner
<1>1. SocketIInv => OneOwner
  BY DEF SocketIInv
<1> QED BY <1>1, SocketInvariance, PTL

(***************************************************************************)
(* Every open descriptor has an owner.                                     *)
(***************************************************************************)
THEOREM NoLeak == SocketSpec => []NothingLeaks
<1>1. SocketIInv => NothingLeaks
  BY DEF SocketIInv
<1> QED BY <1>1, SocketInvariance, PTL

(***************************************************************************)
(* A descriptor is what the class of its socket says.                      *)
(***************************************************************************)
THEOREM FitForUseAlways == SocketSpec => []FitForUse
<1>1. SocketIInv => FitForUse
  BY DEF SocketIInv
<1> QED BY <1>1, SocketInvariance, PTL
=============================================================================
