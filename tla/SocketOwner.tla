---------------------------- MODULE SocketOwner ----------------------------
(***************************************************************************)
(* Who closes which descriptor: construction, move, accept and destruction *)
(* of ClientSocket, ConnectedSocket and ServerSocket                       *)
(* (src/networking/src/chat/client.hpp and server.hpp).  The steps of      *)
(* different objects interleave as those of threads do, and the kernel     *)
(* hands out closed descriptors again.                                     *)
(***************************************************************************)
EXTENDS Integers, FiniteSets

CONSTANTS Objects, Descriptors, Absent

k_invalid_fd == -1

Sockets == [class : {"client", "server", "connected"}, fd : Descriptors \cup {k_invalid_fd}, todo : 0 .. 3]

ASSUME SocketAssumption == k_invalid_fd \notin Descriptors /\ Absent \notin Sockets

VARIABLES socket,  \* each object: its class, fd_, and its set-up calls to make
          kernel   \* what each descriptor is
socketVars == <<socket, kernel>>

\* socket() is followed by connect(), or by setsockopt(), bind() and listen().
SetUpCalls == [client |-> 1, server |-> 3]
Ready      == [client |-> "connected", server |-> "listening", connected |-> "connected"]

SocketInit == socket = [o \in Objects |-> Absent] /\ kernel = [fd \in Descriptors |-> "closed"]

Alive(o)  == socket[o] # Absent
Built(o)  == Alive(o) /\ socket[o].todo = 0
Holder(o) == Alive(o) /\ socket[o].fd # k_invalid_fd

Opened(o, class, todo, state) ==
    /\ ~Alive(o)
    /\ \E fd \in Descriptors :
          /\ kernel[fd] = "closed"
          /\ socket' = [socket EXCEPT ![o] = [class |-> class, fd |-> fd, todo |-> todo]]
          /\ kernel' = [kernel EXCEPT ![fd] = state]

\* close(fd_) unless it is k_invalid_fd
Closing(o) == [fd \in Descriptors |-> IF Holder(o) /\ socket[o].fd = fd THEN "closed" ELSE kernel[fd]]
-----------------------------------------------------------------------------
Socket(o, class) == Opened(o, class, SetUpCalls[class], "new")

SetUp(o) ==
    /\ Alive(o) /\ ~Built(o)
    /\ socket' = [socket EXCEPT ![o].todo = @ - 1]
    /\ kernel' = IF socket[o].todo = 1
                 THEN [kernel EXCEPT ![socket[o].fd] = Ready[socket[o].class]] ELSE kernel

\* A failed set-up call closes the descriptor; the constructor throws.
SetUpFails(o) ==
    /\ Alive(o) /\ ~Built(o)
    /\ socket' = [socket EXCEPT ![o] = Absent]
    /\ kernel' = Closing(o)

AcceptConnection(s, o) ==
    /\ Built(s) /\ socket[s].class = "server" /\ Holder(s)
    /\ Opened(o, "connected", 0, "connected")

\* steal_from, which leaves fd to the source; the target may be a new object.
StealLeaving(o, p, fd) ==
    /\ o # p /\ Built(p)
    /\ Alive(o) => Built(o) /\ socket[o].class = socket[p].class
    /\ socket' = [socket EXCEPT ![o] = socket[p], ![p].fd = fd]

StealOpen(o, p)  == StealLeaving(o, p, k_invalid_fd) /\ UNCHANGED kernel               \* Mutant
StealShare(o, p) == StealLeaving(o, p, socket[p].fd) /\ kernel' = Closing(o)           \* Mutant
Steal(o, p)      == StealLeaving(o, p, k_invalid_fd) /\ kernel' = Closing(o)

Destroy(o) ==
    /\ Built(o)
    /\ socket' = [socket EXCEPT ![o] = Absent]
    /\ kernel' = Closing(o)

SocketNext == \E o \in Objects :
    \/ \E class \in DOMAIN SetUpCalls : Socket(o, class)
    \/ SetUp(o) \/ SetUpFails(o) \/ Destroy(o)
    \/ \E p \in Objects : AcceptConnection(p, o) \/ Steal(o, p)

SocketSpec == SocketInit /\ [][SocketNext]_socketVars
-----------------------------------------------------------------------------
(***************************************************************************)
(* Through any sequence of moves, a descriptor has at most one owner, so   *)
(* it is closed once and never closed for another object that got the same *)
(* number in the meantime.                                                 *)
(***************************************************************************)
OneOwner == \A o, p \in Objects : Holder(o) /\ Holder(p) /\ socket[o].fd = socket[p].fd => o = p

(***************************************************************************)
(* No descriptor is leaked by a constructor that throws, or by a move onto *)
(* a socket that has one: every open descriptor has an owner.              *)
(***************************************************************************)
NothingLeaks == \A fd \in Descriptors :
    kernel[fd] # "closed" => \E o \in Objects : Holder(o) /\ socket[o].fd = fd

(***************************************************************************)
(* A socket that holds a descriptor after its construction holds one of    *)
(* its kind: a ServerSocket listens, the others are connected.             *)
(***************************************************************************)
FitForUse == \A o \in Objects : Built(o) /\ Holder(o) => kernel[socket[o].fd] = Ready[socket[o].class]

(***************************************************************************)
(* The inductive invariant: the three above, and a socket under            *)
(* construction has an open descriptor that is nothing yet.                *)
(***************************************************************************)
SocketTypeOK ==
    /\ socket \in [Objects -> Sockets \cup {Absent}]
    /\ kernel \in [Descriptors -> {"closed", "new", "listening", "connected"}]

UnderConstruction == \A o \in Objects :
    Alive(o) /\ ~Built(o) =>
        Holder(o) /\ kernel[socket[o].fd] = "new" /\ socket[o].class \in DOMAIN SetUpCalls

SocketIInv == SocketTypeOK /\ OneOwner /\ NothingLeaks /\ FitForUse /\ UnderConstruction
=============================================================================
