-------------------------- MODULE TerminalLogging --------------------------
(***************************************************************************)
(* The loggers of the gateway's threads (src/src/lib/logger.hpp): every    *)
(* thread asks LoggerManager for the logger of its name and logs through   *)
(* it.  The map of loggers and the terminal have a mutex each, the message *)
(* buffer of a logger has none.  A user thread is named by the id it takes *)
(* from User::next_id_ (src/src/lib/order_gateway.hpp).                    *)
(***************************************************************************)
EXTENDS Integers, Sequences, FiniteSets

CONSTANTS Users,        \* threads that construct a User
          Workers,      \* the other threads
          NameOf,       \* the logger name of each worker
          IdModulus,    \* 2^32, where next_id_ wraps
          BufferSize,   \* k_buffer_size
          Nobody,
          MaxMessages   \* bound: messages logged by one thread

Threads == Users \cup Workers
Names   == {NameOf[w] : w \in Workers} \cup 0 .. (IdModulus - 1)

ASSUME LoggingAssumption ==
    /\ Users \cap Workers = {} /\ Nobody \notin Threads
    /\ \A w \in Workers : NameOf[w] \notin 0 .. (IdModulus - 1)
    /\ \A v, w \in Workers : NameOf[v] = NameOf[w] => v = w
    /\ IsFiniteSet(Users) /\ Cardinality(Users) <= IdModulus
    /\ IdModulus \in Nat \ {0}
    /\ BufferSize \in Nat \ {0}

VARIABLES
    pc, name,     \* each thread: its place, the name of its logger
    nextId,       \* User::next_id_
    mapMutex,     \* holder of LoggerManager::mutex_
    buffer,       \* loggers_: the msg_buffer_ of each logger there is
    outMutex,     \* holder of TerminalLogger::output_mutex_
    out,          \* std::cout: the parts of lines written, and by whom
    printed,      \* each thread: messages of the buffer its loop has printed
    count,        \* each thread: messages logged
    terminated    \* a logger could not be inserted

manager  == <<mapMutex, terminated>>
terminal == <<outMutex, out, printed>>
vars     == <<pc, name, nextId, buffer, count, manager, terminal>>

Init ==
    /\ pc = [t \in Threads |-> IF t \in Users THEN "new" ELSE "get"]
    /\ name = [t \in Threads |-> IF t \in Users THEN Nobody ELSE NameOf[t]]
    /\ nextId = 0
    /\ mapMutex = Nobody /\ outMutex = Nobody
    /\ buffer = << >> /\ out = << >>
    /\ printed = [t \in Threads |-> 0] /\ count = [t \in Threads |-> 0]
    /\ terminated = FALSE

Step(t, from, to) == ~terminated /\ pc[t] = from /\ pc' = [pc EXCEPT ![t] = to]
-----------------------------------------------------------------------------
TakeIdOf(u, id) ==
    /\ Step(u, "new", "get")
    /\ name' = [name EXCEPT ![u] = id]
    /\ nextId' = (nextId + 1) % IdModulus
    /\ UNCHANGED <<buffer, count, manager, terminal>>

\* Mutant: next_id_ is read and incremented in two steps.
TakeIdTorn(u) == \E id \in {nextId, (nextId - 1) % IdModulus} : TakeIdOf(u, id)
TakeId(u)     == TakeIdOf(u, nextId)

\* get_logger: find, emplace and unlock.
Find(t) ==
    /\ mapMutex = Nobody
    /\ Step(t, "get", IF name[t] \in DOMAIN buffer THEN "got" ELSE "emplace")
    /\ mapMutex' = t
    /\ UNCHANGED <<name, nextId, buffer, count, terminated, terminal>>

Emplace(t) ==
    /\ Step(t, "emplace", "got")
    /\ terminated' = (name[t] \in DOMAIN buffer)
    /\ buffer' = [n \in DOMAIN buffer \cup {name[t]} |->
                     IF n \in DOMAIN buffer THEN buffer[n] ELSE << >>]
    /\ UNCHANGED <<name, nextId, count, mapMutex, terminal>>

Got(t) ==
    /\ Step(t, "got", "idle")
    /\ mapMutex' = Nobody
    /\ UNCHANGED <<name, nextId, buffer, count, terminated, terminal>>

\* log: push_back, then flush_buffer from a certain size on.
LogFrom(t, size) ==
    /\ pc[t] = "idle" /\ count[t] < MaxMessages
    /\ count' = [count EXCEPT ![t] = @ + 1]
    /\ buffer' = [buffer EXCEPT ![name[t]] = Append(@, <<t, count'[t]>>)]
    /\ Step(t, "idle", IF Len(buffer'[name[t]]) >= size THEN "flush" ELSE "idle")
    /\ UNCHANGED <<name, nextId, manager, terminal>>

LogLate(t) == LogFrom(t, BufferSize + 1)   \* Mutant
Log(t)     == LogFrom(t, BufferSize)

\* flush_one_: under the lock the line is written in two parts, its text 0
\* standing for the name.  WriteName alone does not lock.
WriteName(t) ==
    /\ Step(t, "flush", "text")
    /\ printed[t] < Len(buffer[name[t]])
    /\ outMutex' = t
    /\ out' = Append(out, <<t, 0>>)
    /\ UNCHANGED <<name, nextId, buffer, count, manager, printed>>

PrintName(t) == outMutex = Nobody /\ WriteName(t)

PrintText(t) ==
    /\ Step(t, "text", "flush")
    /\ out' = Append(out, buffer[name[t]][printed[t] + 1])
    /\ printed' = [printed EXCEPT ![t] = @ + 1]
    /\ outMutex' = Nobody
    /\ UNCHANGED <<name, nextId, buffer, count, manager>>

Clear(t) ==
    /\ Step(t, "flush", "idle")
    /\ printed[t] = Len(buffer[name[t]])
    /\ buffer' = [buffer EXCEPT ![name[t]] = << >>]
    /\ printed' = [printed EXCEPT ![t] = 0]
    /\ UNCHANGED <<name, nextId, count, manager, outMutex, out>>

GetLogger(t) == Find(t) \/ Emplace(t) \/ Got(t)
Flush(t)     == PrintName(t) \/ PrintText(t) \/ Clear(t)

Next == \/ \E u \in Users : TakeId(u)
        \/ \E t \in Threads : GetLogger(t) \/ Log(t) \/ Flush(t)

Spec == Init /\ [][Next]_vars
-----------------------------------------------------------------------------
(***************************************************************************)
(* Every thread that has a name has its own, for the ids of the users do   *)
(* not repeat before they wrap.                                            *)
(***************************************************************************)
Taken == {u \in Users : pc[u] # "new"}

NamesApart ==
    /\ nextId = Cardinality(Taken) % IdModulus
    /\ \A u \in Taken : name[u] \in 0 .. (Cardinality(Taken) - 1)
    /\ \A u, v \in Taken : name[u] = name[v] => u = v
    /\ \A w \in Workers : pc[w] # "new" /\ name[w] = NameOf[w]

(***************************************************************************)
(* There is a logger for each thread that has got that far, and its buffer *)
(* holds the last messages of that thread, of which it may have printed    *)
(* some.                                                                   *)
(***************************************************************************)
InLog(t) == pc[t] \in {"idle", "flush", "text"}

OwnLogger ==
    /\ DOMAIN buffer = {name[t] : t \in {u \in Threads : pc[u] = "got" \/ InLog(u)}}
    /\ \A t \in Threads : pc[t] = "got" => buffer[name[t]] = << >>
    /\ \A t \in Threads : ~InLog(t) => count[t] = 0 /\ printed[t] = 0
    /\ ~terminated

LastOf(t) ==
    LET held == buffer[name[t]] IN
    /\ Len(held) <= count[t]
    /\ \A i \in DOMAIN held : held[i] = <<t, count[t] - Len(held) + i>>
    /\ printed[t] <= Len(held)
    /\ pc[t] = "text" => printed[t] < Len(held)
    /\ pc[t] = "idle" => printed[t] = 0 /\ Len(held) < BufferSize

Buffered == \A t \in Threads : InLog(t) => LastOf(t)

(***************************************************************************)
(* The buffer of a logger has no lock, and needs none: no two threads are  *)
(* ever inside log of the same logger.                                     *)
(***************************************************************************)
BufferOwned ==
    \A t, u \in Threads :
        pc[t] \in {"idle", "flush", "text"} /\ pc[u] \in {"flush", "text"} /\ name[t] = name[u]
            => t = u

(***************************************************************************)
(* Lines are not torn: every name is followed by a text of that thread.    *)
(***************************************************************************)
LinesWhole ==
    \A i \in 1 .. (Len(out) - 1) :
        out[i][2] = 0 <=> out[i + 1][2] # 0 /\ out[i + 1][1] = out[i][1]

\* Who holds the terminal has written the name of a line, and only that.
TerminalHeld ==
    /\ \A t \in Threads : pc[t] = "text" <=> outMutex = t
    /\ out # << >> => IF outMutex = Nobody THEN out[Len(out)][2] # 0
                                           ELSE out[Len(out)] = <<outMutex, 0>>
    /\ outMutex # Nobody => out # << >>

(***************************************************************************)
(* The texts of a thread are on the terminal in the order it logged them,  *)
(* once each, up to the last one its loop has printed.                     *)
(***************************************************************************)
TextsOf(t) == {i \in DOMAIN out : out[i][1] = t /\ out[i][2] # 0}

PrintedUpTo(t, n) ==
    /\ {out[i][2] : i \in TextsOf(t)} = 1 .. n
    /\ \A i, j \in TextsOf(t) : i < j => out[i][2] < out[j][2]

Done(t) == IF InLog(t) THEN count[t] - Len(buffer[name[t]]) + printed[t] ELSE 0

TextsInOrder == \A t \in Threads : PrintedUpTo(t, Done(t))

(***************************************************************************)
(* "Should insta-flush": when a thread is back from log, all its messages  *)
(* are on the terminal, once each and in the order it logged them.         *)
(***************************************************************************)
InstaFlush == \A t \in Threads : pc[t] = "idle" => PrintedUpTo(t, count[t])

TypeOK ==
    /\ pc \in [Threads -> {"new", "get", "emplace", "got", "idle", "flush", "text"}]
    /\ name \in [Threads -> Names \cup {Nobody}]
    /\ nextId \in Nat
    /\ mapMutex \in Threads \cup {Nobody} /\ outMutex \in Threads \cup {Nobody}
    /\ buffer \in [DOMAIN buffer -> Seq(Threads \X Nat)]
    /\ out \in Seq(Threads \X Nat)
    /\ printed \in [Threads -> Nat] /\ count \in [Threads -> Nat]
    /\ terminated \in BOOLEAN

IInv == /\ TypeOK /\ NamesApart /\ OwnLogger /\ Buffered
        /\ TerminalHeld /\ LinesWhole /\ TextsInOrder
=============================================================================
