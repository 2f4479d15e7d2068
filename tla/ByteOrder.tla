----------------------------- MODULE ByteOrder -----------------------------
(***************************************************************************)
(* Integers in memory: width bytes in the order of the host.  htonl, htons *)
(* and their inverses reverse the bytes of a value on a little endian host *)
(* and leave it alone on a big endian one.                                 *)
(***************************************************************************)
EXTENDS Integers, Sequences, SequencesExt

CONSTANTS ByteBase,    \* 256
          HostEndian   \* the byte order of this host, "big" or "little"

ASSUME ByteOrderAssumption == ByteBase \in Nat \ {0}

Byte == 0 .. (ByteBase - 1)

\* Unit[k + 1] is ByteBase^k; no word has more than four bytes.
Unit == <<1, ByteBase, ByteBase * ByteBase, ByteBase * ByteBase * ByteBase,
          ByteBase * ByteBase * ByteBase * ByteBase>>

Digits(u, width) == [k \in 1 .. width |-> (u \div Unit[width - k + 1]) % ByteBase]

Number(bytes) ==
    LET n == Len(bytes)
        Worth(k) == IF k < n THEN bytes[n - k] * Unit[k + 1] ELSE 0
    IN  Worth(0) + Worth(1) + Worth(2) + Worth(3)

InMemory(u, width, e)     == IF e = "big" THEN Digits(u, width) ELSE Reverse(Digits(u, width))
FromMemory(bytes, e)      == Number(IF e = "big" THEN bytes ELSE Reverse(bytes))
NetworkOrder(u, width, e) == IF e = "big" THEN u ELSE Number(Reverse(Digits(u, width)))
=============================================================================
