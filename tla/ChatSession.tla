---------------------------- MODULE ChatSession ----------------------------
(***************************************************************************)
(* ChatSession (src/networking/src/chat/chat_session.cpp): the transcript  *)
(* and the user's pending messages, and the threads that submit, queue,    *)
(* read and consume them under one mutex.  Every push_back and every copy  *)
(* may run out of memory, which unlocks the mutex on its way out.          *)
(***************************************************************************)
EXTENDS Integers, Sequences, SequencesExt

CONSTANTS Callers,
          Calls,      \* the operations each caller uses
          MaxCalls,   \* bound: calls of a caller, those to consume apart
          Nobody

ASSUME SessionAssumption ==
    /\ Calls \in [Callers -> SUBSET {"submit", "queue", "snapshot", "consume"}]
    /\ MaxCalls \in Nat /\ Nobody \notin Callers

VARIABLES
    transcript, pending,   \* transcript_, pending_user_messages_
    mutex,                 \* holder of mutex_
    pc, count,             \* each caller: its place, calls made
    snapshot,              \* each caller: what transcript_snapshot returned
    taken,                 \* what consume_pending_user_messages returned so far
    half                   \* messages in the transcript whose second push threw

local == <<pc, count>>
vars  == <<transcript, pending, mutex, local, snapshot, taken, half>>

Messages   == {"submit", "queue"} \X Callers \X (1 .. MaxCalls)
Message(c) == <<IF pc[c] = "submit" THEN "submit" ELSE "queue", c, count[c]>>

Init ==
    /\ transcript = << >> /\ pending = << >> /\ taken = << >> /\ half = {}
    /\ mutex = Nobody
    /\ pc = [c \in Callers |-> "idle"]
    /\ count = [c \in Callers |-> 0]
    /\ snapshot = [c \in Callers |-> << >>]

Step(c, from, to) == pc[c] = from /\ pc' = [pc EXCEPT ![c] = to]
-----------------------------------------------------------------------------
\* Blank messages return before this: a call that locks has one to push.
Entered(c, op) ==
    /\ Step(c, "idle", op)
    /\ op # "consume" => count[c] < MaxCalls
    /\ count' = IF op = "consume" THEN count ELSE [count EXCEPT ![c] = @ + 1]
    /\ mutex' = c
    /\ UNCHANGED <<transcript, pending, snapshot, taken, half>>

\* Mutant: transcript_snapshot does not lock.
EnterReading(c) == \E op \in Calls[c] :
    (mutex = Nobody /\ Entered(c, op)) \/ (op = "snapshot" /\ Entered(c, op))

Enter(c) == \E op \in Calls[c] : mutex = Nobody /\ Entered(c, op)

PushTranscript(c) ==
    /\ Step(c, "submit", "leave") \/ Step(c, "queue", "pend")
    /\ transcript' = Append(transcript, Message(c))
    /\ UNCHANGED <<pending, mutex, count, snapshot, taken, half>>

PushPendingAt(c, at) ==
    /\ Step(c, "pend", "leave")
    /\ pending' = InsertAt(pending, at, Message(c))
    /\ UNCHANGED <<transcript, mutex, count, snapshot, taken, half>>

PushPendingFirst(c) == PushPendingAt(c, 1)   \* Mutant
PushPending(c)      == PushPendingAt(c, Len(pending) + 1)

Copy(c) ==
    /\ Step(c, "snapshot", "leave")
    /\ snapshot' = [snapshot EXCEPT ![c] = transcript]
    /\ UNCHANGED <<transcript, pending, mutex, count, taken, half>>

MoveOut(c, messages) ==
    /\ Step(c, "consume", "clear")
    /\ taken' = taken \o messages
    /\ pending' = << >>
    /\ UNCHANGED <<transcript, mutex, count, snapshot, half>>

MoveCleared(c) == MoveOut(c, << >>)   \* Mutant: cleared first, then moved
Move(c)        == MoveOut(c, pending)

Clear(c) ==
    /\ Step(c, "clear", "leave")
    /\ pending' = << >>
    /\ UNCHANGED <<transcript, mutex, count, snapshot, taken, half>>

OutOfMemory(c) ==
    /\ \E at \in {"submit", "queue", "pend", "snapshot"} : Step(c, at, "leave")
    /\ half' = IF pc[c] = "pend" THEN half \cup {Message(c)} ELSE half
    /\ UNCHANGED <<transcript, pending, mutex, count, snapshot, taken>>

Leave(c) ==
    /\ Step(c, "leave", "idle")
    /\ mutex' = Nobody
    /\ UNCHANGED <<transcript, pending, count, snapshot, taken, half>>

Inside(c) == PushTranscript(c) \/ PushPending(c) \/ Copy(c) \/ Move(c) \/ Clear(c)

Next == \E c \in Callers : Enter(c) \/ Inside(c) \/ OutOfMemory(c) \/ Leave(c)

Spec == Init /\ [][Next]_vars

(***************************************************************************)
(* A caller inside goes on, and whoever consumes keeps calling.  The other *)
(* callers make a bounded number of calls, so that weak fairness lets the  *)
(* consumers have the mutex: no fairness of the mutex itself is assumed.   *)
(***************************************************************************)
FairSpec == Spec /\ \A c \in Callers :
    /\ WF_vars(Inside(c) \/ Leave(c))
    /\ "consume" \in Calls[c] => WF_vars(Enter(c))
-----------------------------------------------------------------------------
Undecided == \E c \in Callers : pc[c] = "pend"
Queued(m) == m[1] = "queue" /\ m \notin half

TypeOK ==
    /\ {transcript, pending, taken} \subseteq Seq(Messages) /\ half \subseteq Messages
    /\ snapshot \in [Callers -> Seq(Messages)]
    /\ mutex \in Callers \cup {Nobody} /\ \A c \in Callers : pc[c] # "idle" <=> mutex = c
    /\ pc \in [Callers -> {"idle", "submit", "queue", "pend", "snapshot", "consume", "clear", "leave"}]
    /\ count \in [Callers -> 0 .. MaxCalls]

(***************************************************************************)
(* The user's messages in the transcript, in their order, are exactly the  *)
(* ones taken and then the ones pending, except those that ran out of      *)
(* memory between the two lists.  (Every message is in the transcript      *)
(* once, so that its place tells the order.)                               *)
(***************************************************************************)
Sent == taken \o pending

ShownBefore(m, n) ==
    \E i, j \in DOMAIN transcript : i < j /\ transcript[i] = m /\ transcript[j] = n

SentAsShown ==
    ~Undecided =>
        /\ ToSet(Sent) = {m \in ToSet(transcript) : Queued(m)}
        /\ \A k, l \in DOMAIN Sent : k < l => ShownBefore(Sent[k], Sent[l])

(***************************************************************************)
(* Whoever sees a user's message in a snapshot sees a message that is      *)
(* pending or taken, never one whose queueing is not decided yet.          *)
(***************************************************************************)
SeenIsQueued ==
    \A c \in Callers : \A m \in ToSet(snapshot[c]) :
        Queued(m) => m \in ToSet(taken) \cup ToSet(pending)

(***************************************************************************)
(* The inductive invariant: while a message is pushed into the second list *)
(* it is the last of the first, whose other messages are all decided.      *)
(***************************************************************************)
Places == \A c \in Callers :
    /\ pc[c] \in {"submit", "queue", "pend"} => count[c] > 0
    /\ pc[c] = "pend" => transcript # << >> /\ Last(transcript) = Message(c)
    /\ pc[c] = "clear" => pending = << >>

Kept == \A i \in DOMAIN transcript : Queued(transcript[i]) =>
    \/ transcript[i] \in ToSet(taken) \cup ToSet(pending)
    \/ Undecided /\ i = Len(transcript)

IInv == TypeOK /\ Places /\ Kept /\ SeenIsQueued

(***************************************************************************)
(* And what keeps the order: a message is pushed into the transcript once, *)
(* and what became of a message is decided before the next one is shown.   *)
(***************************************************************************)
ShownOnce ==
    /\ \A i, j \in DOMAIN transcript : transcript[i] = transcript[j] => i = j
    /\ \A i \in DOMAIN transcript : LET m == transcript[i] IN
          m[3] <= count[m[2]] /\ (pc[m[2]] \in {"submit", "queue"} => m[3] < count[m[2]])

InDecided(m) == \E i \in DOMAIN transcript :
    transcript[i] = m /\ (Undecided => i < Len(transcript))

SentInOrder ==
    /\ \A k \in DOMAIN Sent : Queued(Sent[k]) /\ InDecided(Sent[k])
    /\ \A m \in half : InDecided(m)
    /\ \A k, l \in DOMAIN Sent : k < l => ShownBefore(Sent[k], Sent[l])

OrderInv == ShownOnce /\ SentInOrder

(***************************************************************************)
(* The session implements its promise.  A user's message counts as shown   *)
(* when its place in the pending list is decided too.                      *)
(***************************************************************************)
Outbox == INSTANCE ChatOutbox WITH
    transcript <- IF Undecided THEN Front(transcript) ELSE transcript,
    unsent     <- pending

ImplementsOutbox == Outbox!Spec

(***************************************************************************)
(* A pending message is eventually taken, if somebody keeps consuming.     *)
(***************************************************************************)
EveryMessageTaken == \A m \in Messages : m \in ToSet(pending) ~> m \in ToSet(taken)
=============================================================================
