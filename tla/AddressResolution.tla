------------------------- MODULE AddressResolution -------------------------
(***************************************************************************)
(* get_address_infos of src/networking/src/chat/net.hpp: the list that     *)
(* getaddrinfo allocated is converted entry by entry, each conversion may  *)
(* throw, and a ScopeGuard frees the list.  An address goes to the kernel  *)
(* through to_raw_addr.                                                    *)
(***************************************************************************)
EXTENDS Integers, Sequences, SequencesExt, ByteOrder

CONSTANTS Hosts,    \* the address parts there are
          Ports,
          Scopes,   \* values of sin6_scope_id and sin6_flowinfo, 0 if both are 0
          MaxFound  \* bound: entries of a list

AddressAssumption == Ports \subseteq Nat /\ MaxFound \in Nat

VARIABLES found,   \* the list of getaddrinfo
          out, pc,
          held     \* the list is allocated
addressVars == <<found, out, pc, held>>

\* A sockaddr, its length standing for that of its family; "null" is an entry
\* without one.  Only a sockaddr_in6 has a scope.
Families == {"AF_INET", "AF_INET6", "other", "null"}

Raw(family, host, port, scope) ==
    [family |-> family, addr |-> host, len |-> family, port |-> Digits(port, 2),
     scope |-> IF family = "AF_INET6" THEN scope ELSE 0]

Entries == {Raw(f, h, p, s) : f \in Families, h \in Hosts, p \in Ports, s \in Scopes}

AddressInit ==
    /\ found \in UNION {[1 .. n -> Entries] : n \in 1 .. MaxFound}
    /\ out = << >> /\ pc = "resolve" /\ held = FALSE
-----------------------------------------------------------------------------
Supported(raw) == raw.family \in {"AF_INET", "AF_INET6"}

KeptPort(raw)  == FromMemory(raw.port, HostEndian)   \* Mutant
HostPort(raw)  == NetworkOrder(FromMemory(raw.port, HostEndian), 2, HostEndian)

\* An IP6Address has no scope; RawAddress raw{} leaves zeroes there.
to_socket_address(raw) == [kind |-> raw.family, ip |-> raw.addr, port |-> HostPort(raw)]

to_raw_addr(a) ==
    [family |-> a.kind, addr |-> a.ip, len |-> a.kind,
     port |-> InMemory(NetworkOrder(a.port, 2, HostEndian), 2, HostEndian), scope |-> 0]

Step(from, to) == pc = from /\ pc' = to

ResolveFails == Step("resolve", "failed") /\ UNCHANGED <<found, out, held>>
Resolve      == Step("resolve", "convert") /\ held' = TRUE /\ UNCHANGED <<found, out>>

Convert ==
    /\ Step("convert", "convert")
    /\ Len(out) < Len(found) /\ Supported(found[Len(out) + 1])
    /\ out' = Append(out, to_socket_address(found[Len(out) + 1]))
    /\ UNCHANGED <<found, held>>

\* The entry is not supported or there is no memory.
Throws ==
    /\ Step("convert", "threw")
    /\ Len(out) < Len(found)
    /\ held' = FALSE /\ UNCHANGED <<found, out>>

AddressReturn ==
    /\ Step("convert", "returned")
    /\ Len(out) = Len(found)
    /\ held' = FALSE /\ UNCHANGED <<found, out>>

AddressNext == ResolveFails \/ Resolve \/ Convert \/ Throws \/ AddressReturn

AddressSpec == AddressInit /\ [][AddressNext]_addressVars
-----------------------------------------------------------------------------
(***************************************************************************)
(* An IPv4 address given to connect and bind is, byte by byte, the one     *)
(* that getaddrinfo found, and an IPv6 address is it but for the scope id  *)
(* and the flow info, which become zero; who is returned a list of         *)
(* addresses gets all that were found, in their order; and the list of     *)
(* getaddrinfo is freed on every way out.                                  *)
(***************************************************************************)
Unscoped(raw) == [raw EXCEPT !.scope = 0]

AddressKept ==
    /\ \A i \in DOMAIN out :
          LET given == to_raw_addr(out[i]) IN
          given = IF found[i].family = "AF_INET6" THEN Unscoped(found[i]) ELSE found[i]
    /\ pc = "returned" => Len(out) = Len(found)
    /\ pc \in {"returned", "threw"} => ~held

(***************************************************************************)
(* Why: what was converted is what was found so far, all of it at a        *)
(* return, and the list is held exactly while entries are converted.       *)
(***************************************************************************)
AddressIInv ==
    /\ found \in Seq(Entries) /\ Len(out) \in 0 .. Len(found)
    /\ out = [i \in 1 .. Len(out) |-> to_socket_address(found[i])]
    /\ pc \in {"resolve", "failed", "convert", "returned", "threw"}
    /\ pc = "returned" => Len(out) = Len(found)
    /\ held = (pc = "convert")

(***************************************************************************)
(* "assert(address_infos.size() == 1)": what get_ipv4_tcp_connect_info and *)
(* the wrappers for bind (tcp and udp) expect of the different IPv4        *)
(* addresses found.                                                        *)
(***************************************************************************)
Answer4 == \A i, j \in DOMAIN found :
    /\ found[i].family = "AF_INET" /\ found[i].port = found[j].port
    /\ i # j => found[i].addr # found[j].addr

SingleAddress == pc = "returned" /\ Answer4 => Len(out) <= 1
=============================================================================
