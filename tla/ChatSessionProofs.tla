------------------------- MODULE ChatSessionProofs -------------------------
(***************************************************************************)
(* ChatSession for any number of callers and calls: its invariant is       *)
(* inductive and it implements ChatOutbox.                                 *)
(***************************************************************************)
EXTENDS ChatSession, SequenceTheorems, TLAPS

(***************************************************************************)
(* The elements of a sequence after an Append and a concatenation.         *)
(***************************************************************************)
LEMMA ElementsAppend ==
    ASSUME NEW S, NEW s \in Seq(S), NEW e \in S
    PROVE  /\ Append(s, e) \in Seq(S) /\ Append(s, e) # << >>
           /\ ToSet(Append(s, e)) = ToSet(s) \cup {e}
           /\ Last(Append(s, e)) = e /\ Front(Append(s, e)) = s
           /\ InsertAt(s, Len(s) + 1, e) = Append(s, e)
<1> DEFINE t == Append(s, e)
<1>1. t \in Seq(S) /\ Len(t) = Len(s) + 1 /\ t[Len(s) + 1] = e /\ t # << >>
  OBVIOUS
<1>2. DOMAIN t = DOMAIN s \cup {Len(s) + 1} /\ \A i \in DOMAIN s : t[i] = s[i]
  OBVIOUS
<1>3. ToSet(t) = ToSet(s) \cup {e}
  BY <1>1, <1>2 DEF ToSet
<1>4. Last(t) = e
  BY <1>1 DEF Last
<1>5. Front(t) = s
  BY DEF Front
<1>6. InsertAt(s, Len(s) + 1, e) = t
  <2>1. SubSeq(s, 1, Len(s)) = s /\ SubSeq(s, Len(s) + 1, Len(s)) = << >>
    OBVIOUS
  <2>2. s \o <<e>> = t
    BY AppendIsConcat
  <2>3. t \o << >> = t
    BY <1>1
  <2>4. InsertAt(s, Len(s) + 1, e) = SubSeq(s, 1, Len(s)) \o <<e>> \o SubSeq(s, Len(s) + 1, Len(s))
    BY DEF InsertAt
  <2> QED BY <2>1, <2>2, <2>3, <2>4
<1> QED BY <1>1, <1>3, <1>4, <1>5, <1>6

LEMMA ElementsConcat ==
    ASSUME NEW S, NEW s \in Seq(S), NEW t \in Seq(S)
    PROVE  s \o t \in Seq(S) /\ ToSet(s \o t) = ToSet(s) \cup ToSet(t)
<1>1. s \o t \in Seq(S) /\ DOMAIN (s \o t) = 1 .. (Len(s) + Len(t))
  OBVIOUS
<1>2. ToSet(s \o t) \subseteq ToSet(s) \cup ToSet(t)
  BY <1>1 DEF ToSet
<1>3. ToSet(s) \subseteq ToSet(s \o t)
  BY <1>1 DEF ToSet
<1>4. ASSUME NEW i \in DOMAIN t PROVE t[i] \in ToSet(s \o t)
  <2>1. Len(s) + i \in DOMAIN (s \o t) /\ (s \o t)[Len(s) + i] = t[i]
    BY <1>1
  <2> QED BY <2>1 DEF ToSet
<1> QED BY <1>1, <1>2, <1>3, <1>4 DEF ToSet

LEMMA FrontLast ==
    ASSUME NEW S, NEW s \in Seq(S), s # << >>
    PROVE  Append(Front(s), Last(s)) = s
BY DEF Front, Last

(***************************************************************************)
(* The mutex: nobody else is inside with a caller that is, so that only    *)
(* that caller can be between the two lists.                               *)
(***************************************************************************)
LEMMA Alone ==
    ASSUME IInv, NEW c \in Callers, pc[c] # "idle"
    PROVE  /\ mutex = c /\ \A d \in Callers \ {c} : pc[d] = "idle"
           /\ Undecided <=> pc[c] = "pend"
<1>1. mutex = c /\ \A d \in Callers \ {c} : pc[d] = "idle"
  BY DEF IInv, TypeOK
<1> QED BY <1>1 DEF Undecided

LEMMA MessageInMessages ==
    ASSUME IInv, NEW c \in Callers, pc[c] \in {"submit", "queue", "pend"}
    PROVE  Message(c) \in Messages
BY DEF IInv, TypeOK, Places, Message, Messages

LEMMA EnterKeepsIInv ==
    ASSUME IInv, NEW c \in Callers, Enter(c)
    PROVE  IInv'
<1>1. PICK op \in Calls[c] : mutex = Nobody /\ Entered(c, op)
  BY DEF Enter
<1>2. op \in {"submit", "queue", "snapshot", "consume"}
  BY SessionAssumption
<1> USE <1>1 DEF Entered, Step
<1>3. count' \in [Callers -> 0 .. MaxCalls] /\ (op # "consume" => count'[c] > 0)
      /\ \A d \in Callers \ {c} : count'[d] = count[d]
  BY SessionAssumption DEF IInv, TypeOK
<1>4. pc'[c] = op /\ \A d \in Callers \ {c} : pc'[d] = pc[d]
  BY DEF IInv, TypeOK
<1>5. \A d \in Callers : pc[d] = "idle"
  BY SessionAssumption DEF IInv, TypeOK
<1>6. ~Undecided /\ ~Undecided'
  BY <1>2, <1>4, <1>5 DEF Undecided
<1>7. TypeOK'
  BY <1>2, <1>3, <1>4, <1>5 DEF IInv, TypeOK
<1>8. Places'
  BY <1>2, <1>3, <1>4, <1>5 DEF Places
<1>9. Kept' /\ SeenIsQueued'
  BY <1>6 DEF IInv, Kept, SeenIsQueued, Queued
<1> QED BY <1>7, <1>8, <1>9 DEF IInv

LEMMA PushTranscriptKeepsIInv ==
    ASSUME IInv, NEW c \in Callers, PushTranscript(c)
    PROVE  IInv'
<1> USE DEF PushTranscript, Step
<1> DEFINE m == Message(c)
<1>1. pc[c] \in {"submit", "queue"} /\ transcript' = Append(transcript, m)
  OBVIOUS
<1>2. m \in Messages /\ transcript \in Seq(Messages)
  BY <1>1, MessageInMessages DEF IInv, TypeOK
<1>3. mutex = c /\ ~Undecided /\ \A d \in Callers \ {c} : pc[d] = "idle"
  BY <1>1, Alone
<1>4. pc'[c] = (IF pc[c] = "submit" THEN "leave" ELSE "pend") /\ \A d \in Callers \ {c} : pc'[d] = "idle"
  BY <1>3 DEF IInv, TypeOK
<1>5. Undecided' <=> pc[c] = "queue"
  BY <1>1, <1>4 DEF Undecided
<1>6. transcript' \in Seq(Messages) /\ transcript' # << >> /\ Last(transcript') = m
  BY <1>1, <1>2, ElementsAppend
<1>7. TypeOK'
  BY <1>1, <1>3, <1>4, <1>6 DEF IInv, TypeOK
<1>8. pc[c] = "queue" => Message(c)' = m
  BY <1>4 DEF Message
<1>9. Places'
  BY <1>1, <1>4, <1>6, <1>8 DEF IInv, Places
<1>10. Kept'
  <2> SUFFICES ASSUME NEW i \in DOMAIN transcript', Queued(transcript'[i])
               PROVE  \/ transcript'[i] \in ToSet(taken) \cup ToSet(pending)
                      \/ Undecided' /\ i = Len(transcript')
    BY DEF Kept, Queued
  <2>1. CASE i \in DOMAIN transcript
    <3>1. transcript'[i] = transcript[i]
      BY <2>1, <1>1, <1>2
    <3>2. transcript[i] \in ToSet(taken) \cup ToSet(pending)
      BY <2>1, <3>1, <1>3 DEF IInv, Kept
    <3> QED BY <3>1, <3>2
  <2>2. CASE i \notin DOMAIN transcript
    <3>1. i = Len(transcript') /\ transcript'[i] = m
      BY <2>2, <1>1, <1>2
    <3>2. m[1] = "queue"
      BY <3>1 DEF Queued
    <3>3. pc[c] = "queue"
      BY <3>2, <1>1 DEF Message
    <3> QED BY <3>1, <3>3, <1>5
  <2> QED BY <2>1, <2>2
<1>11. SeenIsQueued'
  BY DEF IInv, SeenIsQueued, Queued
<1> QED BY <1>7, <1>9, <1>10, <1>11 DEF IInv

LEMMA PushPendingKeepsIInv ==
    ASSUME IInv, NEW c \in Callers, PushPending(c)
    PROVE  IInv'
<1> DEFINE m == Message(c)
<1>1. pc[c] = "pend" /\ m \in Messages /\ pending \in Seq(Messages)
  BY MessageInMessages DEF PushPending, PushPendingAt, Step, IInv, TypeOK
<1>2. pending' \in Seq(Messages) /\ ToSet(pending') = ToSet(pending) \cup {m}
  <2>1. pending' = InsertAt(pending, Len(pending) + 1, m)
    BY DEF PushPending, PushPendingAt
  <2> HIDE DEF m
  <2>2. pending' = Append(pending, m)
    BY <2>1, <1>1, ElementsAppend
  <2> QED BY <2>2, <1>1, ElementsAppend
<1> USE DEF PushPending, PushPendingAt, Step
<1>3. mutex = c /\ \A d \in Callers \ {c} : pc[d] = "idle"
  BY <1>1, Alone
<1>4. pc'[c] = "leave" /\ \A d \in Callers \ {c} : pc'[d] = "idle"
  BY <1>3 DEF IInv, TypeOK
<1>5. TypeOK'
  BY <1>2, <1>3, <1>4 DEF IInv, TypeOK
<1>6. Places'
  BY <1>4 DEF Places
<1>7. Kept'
  BY <1>1, <1>2 DEF IInv, Kept, Places, Queued, Last
<1>8. SeenIsQueued'
  BY <1>2 DEF IInv, SeenIsQueued, Queued
<1> QED BY <1>5, <1>6, <1>7, <1>8 DEF IInv

LEMMA CopyKeepsIInv ==
    ASSUME IInv, NEW c \in Callers, Copy(c)
    PROVE  IInv'
<1> USE DEF Copy, Step
<1>1. pc[c] = "snapshot" /\ mutex = c /\ ~Undecided /\ \A d \in Callers \ {c} : pc[d] = "idle"
  BY Alone
<1>2. pc'[c] = "leave" /\ \A d \in Callers \ {c} : pc'[d] = "idle"
  BY <1>1 DEF IInv, TypeOK
<1>3. snapshot'[c] = transcript /\ \A d \in Callers \ {c} : snapshot'[d] = snapshot[d]
  BY DEF IInv, TypeOK
<1>4. TypeOK'
  BY <1>1, <1>2 DEF IInv, TypeOK
<1>5. Places'
  BY <1>2 DEF Places
<1>6. Kept'
  BY <1>1 DEF IInv, Kept, Queued
<1>7. SeenIsQueued'
  BY <1>1, <1>3 DEF IInv, Kept, SeenIsQueued, Queued, ToSet
<1> QED BY <1>4, <1>5, <1>6, <1>7 DEF IInv

LEMMA MoveKeepsIInv ==
    ASSUME IInv, NEW c \in Callers, Move(c)
    PROVE  IInv'
<1> USE DEF Move, MoveOut, Step
<1>1. pc[c] = "consume" /\ mutex = c /\ ~Undecided /\ \A d \in Callers \ {c} : pc[d] = "idle"
  BY Alone
<1>2. pc'[c] = "clear" /\ \A d \in Callers \ {c} : pc'[d] = "idle"
  BY <1>1 DEF IInv, TypeOK
<1>3. taken' \in Seq(Messages) /\ ToSet(taken') = ToSet(taken) \cup ToSet(pending)
  BY ElementsConcat DEF IInv, TypeOK
<1>4. TypeOK'
  BY <1>1, <1>2, <1>3 DEF IInv, TypeOK
<1>5. Places'
  BY <1>2 DEF Places
<1>6. Kept' /\ SeenIsQueued'
  BY <1>1, <1>3 DEF IInv, Kept, SeenIsQueued, Queued
<1> QED BY <1>4, <1>5, <1>6 DEF IInv

LEMMA ClearKeepsIInv ==
    ASSUME IInv, NEW c \in Callers, Clear(c)
    PROVE  IInv'
<1> USE DEF Clear, Step
<1>1. pc[c] = "clear" /\ mutex = c /\ ~Undecided /\ \A d \in Callers \ {c} : pc[d] = "idle"
  BY Alone
<1>2. pc'[c] = "leave" /\ \A d \in Callers \ {c} : pc'[d] = "idle"
  BY <1>1 DEF IInv, TypeOK
<1>3. UNCHANGED pending
  BY <1>1 DEF IInv, Places
<1>4. TypeOK'
  BY <1>1, <1>2, <1>3 DEF IInv, TypeOK
<1>5. Places'
  BY <1>2 DEF Places
<1>6. Kept' /\ SeenIsQueued'
  BY <1>1, <1>3 DEF IInv, Kept, SeenIsQueued, Queued
<1> QED BY <1>4, <1>5, <1>6 DEF IInv

LEMMA OutOfMemoryKeepsIInv ==
    ASSUME IInv, NEW c \in Callers, OutOfMemory(c)
    PROVE  IInv'
<1> USE DEF OutOfMemory, Step
<1>1. pc[c] \in {"submit", "queue", "pend", "snapshot"}
  OBVIOUS
<1>2. mutex = c /\ (Undecided <=> pc[c] = "pend") /\ \A d \in Callers \ {c} : pc[d] = "idle"
  BY <1>1, Alone
<1>3. pc'[c] = "leave" /\ \A d \in Callers \ {c} : pc'[d] = "idle"
  BY <1>2 DEF IInv, TypeOK
<1>4. pc[c] = "pend" => Message(c) \in Messages /\ Last(transcript) = Message(c)
  BY MessageInMessages DEF IInv, Places
<1>5. TypeOK'
  BY <1>1, <1>2, <1>3, <1>4 DEF IInv, TypeOK
<1>6. Places'
  BY <1>3 DEF Places
<1>7. Kept'
  BY <1>2, <1>4 DEF IInv, Kept, Queued, Last
<1>8. SeenIsQueued'
  BY DEF IInv, SeenIsQueued, Queued
<1> QED BY <1>5, <1>6, <1>7, <1>8 DEF IInv

LEMMA LeaveKeepsIInv ==
    ASSUME IInv, NEW c \in Callers, Leave(c)
    PROVE  IInv'
<1> USE DEF Leave, Step
<1>1. pc[c] = "leave" /\ ~Undecided /\ \A d \in Callers \ {c} : pc[d] = "idle"
  BY Alone
<1>2. \A d \in Callers : pc'[d] = "idle"
  BY <1>1 DEF IInv, TypeOK
<1>3. TypeOK'
  BY <1>2, SessionAssumption DEF IInv, TypeOK
<1>4. Places'
  BY <1>2 DEF Places
<1>5. Kept' /\ SeenIsQueued'
  BY <1>1 DEF IInv, Kept, SeenIsQueued, Queued
<1> QED BY <1>3, <1>4, <1>5 DEF IInv

(***************************************************************************)
(* The invariant of the session holds in every reachable state.            *)
(***************************************************************************)
THEOREM SessionInvariance == Spec => []IInv
<1>1. Init => IInv
  BY SessionAssumption DEF Init, IInv, TypeOK, Places, Kept, SeenIsQueued, ToSet
<1>2. IInv /\ [Next]_vars => IInv'
  <2> SUFFICES ASSUME IInv, [Next]_vars PROVE IInv'
    OBVIOUS
  <2>1. CASE UNCHANGED vars
    BY <2>1 DEF vars, local, IInv, TypeOK, Places, Kept, SeenIsQueued, Undecided, Queued, Message
  <2>2. ASSUME NEW c \in Callers, Enter(c) \/ Inside(c) \/ OutOfMemory(c) \/ Leave(c) PROVE IInv'
    BY <2>2, EnterKeepsIInv, PushTranscriptKeepsIInv, PushPendingKeepsIInv, CopyKeepsIInv,
       MoveKeepsIInv, ClearKeepsIInv, OutOfMemoryKeepsIInv, LeaveKeepsIInv DEF Inside
  <2> QED BY <2>1, <2>2 DEF Next
<1> QED BY <1>1, <1>2, PTL DEF Spec

(***************************************************************************)
(* A user's message in a snapshot is pending or taken.                     *)
(***************************************************************************)
THEOREM SeenMessages == Spec => []SeenIsQueued
<1>1. IInv => SeenIsQueued
  BY DEF IInv
<1> QED BY <1>1, SessionInvariance, PTL
-----------------------------------------------------------------------------
(***************************************************************************)
(* The order of the messages: what a step that leaves the lists alone does *)
(* to it, and then the steps that do not.                                  *)
(***************************************************************************)
LEMMA SentTyped ==
    ASSUME IInv
    PROVE  /\ transcript \in Seq(Messages) /\ taken \in Seq(Messages) /\ pending \in Seq(Messages)
           /\ Sent \in Seq(Messages) /\ ToSet(Sent) = ToSet(taken) \cup ToSet(pending)
<1>1. transcript \in Seq(Messages) /\ taken \in Seq(Messages) /\ pending \in Seq(Messages)
  BY DEF IInv, TypeOK
<1> QED
  BY <1>1, ElementsConcat DEF Sent

LEMMA OrderFrame ==
    ASSUME OrderInv, UNCHANGED <<transcript, half>>, Sent' = Sent, Undecided' <=> Undecided,
           \A c \in Callers : \/ count'[c] = count[c]
                                 /\ (pc'[c] \in {"submit", "queue"} => pc[c] \in {"submit", "queue"})
                              \/ count'[c] = count[c] + 1,
           IInv
    PROVE  OrderInv'
<1>1. ASSUME NEW i \in DOMAIN transcript, NEW m, m = transcript[i]
      PROVE  m[3] <= count'[m[2]] /\ (pc'[m[2]] \in {"submit", "queue"} => m[3] < count'[m[2]])
  <2>1. m \in Messages
    BY <1>1, SentTyped
  <2>2. m[2] \in Callers /\ m[3] \in Nat /\ count[m[2]] \in Nat
    BY <2>1, SessionAssumption DEF Messages, IInv, TypeOK
  <2>3. m[3] <= count[m[2]] /\ (pc[m[2]] \in {"submit", "queue"} => m[3] < count[m[2]])
    BY <1>1 DEF OrderInv, ShownOnce
  <2> QED
    BY <2>2, <2>3
<1>2. ShownOnce'
  BY <1>1 DEF OrderInv, ShownOnce
<1>3. SentInOrder'
  BY DEF OrderInv, SentInOrder, InDecided, ShownBefore, Queued
<1> QED
  BY <1>2, <1>3 DEF OrderInv

LEMMA EnterKeepsOrder ==
    ASSUME IInv, OrderInv, NEW c \in Callers, Enter(c)
    PROVE  OrderInv'
<1>1. PICK op \in Calls[c] : mutex = Nobody /\ Entered(c, op)
  BY DEF Enter
<1>2. op \in {"submit", "queue", "snapshot", "consume"}
  BY SessionAssumption
<1>3. /\ UNCHANGED <<transcript, pending, taken, half>>
      /\ pc' = [pc EXCEPT ![c] = op]
      /\ count' = IF op = "consume" THEN count ELSE [count EXCEPT ![c] = @ + 1]
  BY <1>1 DEF Entered, Step
<1>4. pc'[c] = op /\ \A d \in Callers \ {c} : pc'[d] = pc[d] /\ count'[d] = count[d]
  BY <1>3 DEF IInv, TypeOK
<1>5. IF op = "consume" THEN count'[c] = count[c] ELSE count'[c] = count[c] + 1
  BY <1>3 DEF IInv, TypeOK
<1>6. \A d \in Callers : pc[d] = "idle"
  BY <1>1, SessionAssumption DEF IInv, TypeOK
<1>7. ~Undecided /\ ~Undecided'
  BY <1>2, <1>4, <1>6 DEF Undecided
<1>8. Sent' = Sent
  BY <1>3 DEF Sent
<1>9. \A d \in Callers : \/ count'[d] = count[d]
                            /\ (pc'[d] \in {"submit", "queue"} => pc[d] \in {"submit", "queue"})
                         \/ count'[d] = count[d] + 1
  BY <1>4, <1>5
<1> QED
  BY <1>3, <1>7, <1>8, <1>9, OrderFrame

(***************************************************************************)
(* Reading, taking and leaving do not touch the order of what was sent.    *)
(***************************************************************************)
LEMMA QuietKeepsOrder ==
    ASSUME IInv, OrderInv, NEW c \in Callers, Copy(c) \/ Move(c) \/ Clear(c) \/ Leave(c)
    PROVE  OrderInv'
<1>1. /\ pc[c] \in {"snapshot", "consume", "clear", "leave"}
      /\ \E to \in {"leave", "clear", "idle"} : pc' = [pc EXCEPT ![c] = to]
      /\ UNCHANGED <<transcript, half, count>>
  BY DEF Copy, Move, MoveOut, Clear, Leave, Step
<1>2. \A d \in Callers : /\ pc'[d] = "pend" <=> pc[d] = "pend"
                         /\ pc'[d] \in {"submit", "queue"} => pc[d] \in {"submit", "queue"}
  BY <1>1 DEF IInv, TypeOK
<1>3. Undecided' <=> Undecided
  BY <1>2 DEF Undecided
<1>4. Sent' = Sent
  <2>1. CASE UNCHANGED <<taken, pending>>
    BY <2>1 DEF Sent
  <2>2. CASE Move(c)
    <3>1. taken' = taken \o pending /\ pending' = << >>
      BY <2>2 DEF Move, MoveOut
    <3>2. Sent \in Seq(Messages) /\ Sent' = Sent \o << >>
      BY <3>1, SentTyped DEF Sent
    <3> QED
      BY <3>2
  <2>3. CASE Clear(c)
    BY <2>3 DEF Clear, Step, IInv, Places, Sent
  <2> QED
    BY <2>1, <2>2, <2>3 DEF Copy, Leave
<1> QED
  BY <1>1, <1>2, <1>3, <1>4, OrderFrame

(***************************************************************************)
(* A message is new to the transcript, and last in it.                     *)
(***************************************************************************)
LEMMA PushTranscriptKeepsOrder ==
    ASSUME IInv, OrderInv, NEW c \in Callers, PushTranscript(c)
    PROVE  OrderInv'
<1> DEFINE m == Message(c)
           n == Len(transcript)
<1>1. /\ pc[c] \in {"submit", "queue"} /\ transcript' = Append(transcript, m)
      /\ \E to \in {"leave", "pend"} : pc' = [pc EXCEPT ![c] = to]
      /\ UNCHANGED <<pending, taken, half, count>>
  BY DEF PushTranscript, Step
<1>2. /\ m \in Messages /\ transcript \in Seq(Messages) /\ n \in Nat
      /\ m[2] = c /\ m[3] = count[c] /\ count[c] \in Nat
  BY <1>1, MessageInMessages, SentTyped, SessionAssumption DEF Message, IInv, TypeOK
<1>3. /\ ~Undecided
      /\ \A d \in Callers : pc'[d] \notin {"submit", "queue"}
  BY <1>1, Alone DEF IInv, TypeOK
<1> HIDE DEF m
<1>4. /\ Len(transcript') = n + 1 /\ DOMAIN transcript' = 1 .. (n + 1)
      /\ DOMAIN transcript = 1 .. n
      /\ \A i \in 1 .. n : transcript'[i] = transcript[i]
      /\ transcript'[n + 1] = m
  BY <1>1, <1>2
<1>5. \A i \in 1 .. (n + 1) : i \in 1 .. n \/ i = n + 1
  BY <1>2
<1>6. \A i \in 1 .. n : i \in 1 .. (n + 1) /\ i < n + 1
  BY <1>2
<1>7. \A i \in 1 .. n : transcript[i] # m
  BY <1>1, <1>2, <1>4 DEF OrderInv, ShownOnce
<1> HIDE DEF n
<1>8. ShownOnce'
  <2>1. \A i, j \in DOMAIN transcript' : transcript'[i] = transcript'[j] => i = j
    <3>1. \A i, j \in 1 .. n : transcript[i] = transcript[j] => i = j
      BY <1>4 DEF OrderInv, ShownOnce
    <3> QED
      BY <1>4, <1>5, <1>7, <3>1
  <2>2. ASSUME NEW i \in 1 .. (n + 1) PROVE transcript'[i][3] <= count[transcript'[i][2]]
    <3>1. CASE i \in 1 .. n
      BY <1>4, <3>1 DEF OrderInv, ShownOnce
    <3>2. CASE i = n + 1
      BY <1>2, <1>4, <3>2
    <3> QED
      BY <1>5, <3>1, <3>2
  <2>3. \A i \in 1 .. (n + 1) : transcript'[i][2] \in Callers
    BY <1>2, <1>4, <1>5 DEF Messages
  <2> QED
    BY <1>1, <1>3, <1>4, <2>1, <2>2, <2>3 DEF ShownOnce
<1>9. Sent' = Sent
  BY <1>1 DEF Sent
<1>10. \A x : InDecided(x) => InDecided(x)'
  BY <1>4, <1>6 DEF InDecided
<1>11. \A x, y : ShownBefore(x, y) => ShownBefore(x, y)'
  BY <1>4, <1>6 DEF ShownBefore
<1>12. SentInOrder'
  BY <1>1, <1>9, <1>10, <1>11 DEF OrderInv, SentInOrder, Queued
<1> QED
  BY <1>8, <1>12 DEF OrderInv

LEMMA PendingLast ==
    ASSUME IInv, OrderInv, NEW c \in Callers, pc[c] = "pend"
    PROVE  /\ Message(c) \in Messages /\ Len(transcript) \in DOMAIN transcript
           /\ transcript[Len(transcript)] = Message(c) /\ Undecided
           /\ Message(c)[1] = "queue"
           /\ \A m : InDecided(m) => m # Message(c) /\ ShownBefore(m, Message(c))
<1>1. /\ Message(c) \in Messages /\ transcript \in Seq(Messages) /\ transcript # << >>
      /\ transcript[Len(transcript)] = Message(c) /\ Undecided
  BY MessageInMessages, SentTyped, Alone DEF IInv, Places, Last
<1>2. Len(transcript) \in DOMAIN transcript
  BY <1>1
<1>3. ASSUME NEW m, InDecided(m) PROVE m # Message(c) /\ ShownBefore(m, Message(c))
  <2>1. PICK i \in DOMAIN transcript : transcript[i] = m /\ i < Len(transcript)
    BY <1>1, <1>3 DEF InDecided
  <2>2. i # Len(transcript)
    BY <1>1, <2>1
  <2> QED
    BY <1>1, <1>2, <2>1, <2>2 DEF OrderInv, ShownOnce, ShownBefore
<1> QED
  BY <1>1, <1>2, <1>3 DEF Message

(***************************************************************************)
(* The last message of the transcript is pushed behind all that are sent.  *)
(***************************************************************************)
LEMMA PushPendingKeepsOrder ==
    ASSUME IInv, OrderInv, NEW c \in Callers, PushPending(c)
    PROVE  OrderInv'
<1> DEFINE n == Len(Sent)
<1>0. PICK m : m = Message(c)
  OBVIOUS
<1>1. /\ pc[c] = "pend" /\ pc' = [pc EXCEPT ![c] = "leave"]
      /\ pending' = InsertAt(pending, Len(pending) + 1, m)
      /\ UNCHANGED <<transcript, taken, half, count>>
  BY <1>0 DEF PushPending, PushPendingAt, Step
<1>2. /\ m \in Messages /\ Len(transcript) \in DOMAIN transcript
      /\ transcript[Len(transcript)] = m /\ Undecided /\ m[1] = "queue"
      /\ \A x : InDecided(x) => x # m /\ ShownBefore(x, m)
  BY <1>0, <1>1, PendingLast
<1>3. /\ ~Undecided'
      /\ \A d \in Callers : pc'[d] \notin {"submit", "queue"}
  BY <1>1, Alone DEF IInv, TypeOK, Undecided
<1>4. Sent' = Append(Sent, m) /\ Sent \in Seq(Messages)
  <2>1. taken \in Seq(Messages) /\ pending \in Seq(Messages) /\ Sent \in Seq(Messages)
    BY SentTyped
  <2>2. pending' = Append(pending, m)
    BY <1>1, <1>2, <2>1, ElementsAppend
  <2>3. taken \o Append(pending, m) = Append(taken \o pending, m)
    BY <1>2, <2>1
  <2> QED
    BY <1>1, <2>1, <2>2, <2>3 DEF Sent
<1>5. /\ n \in Nat /\ DOMAIN Sent = 1 .. n /\ DOMAIN Sent' = 1 .. (n + 1)
      /\ \A k \in 1 .. n : Sent'[k] = Sent[k]
      /\ Sent'[n + 1] = m
  BY <1>2, <1>4
<1>6. /\ \A k \in 1 .. (n + 1) : k \in 1 .. n \/ k = n + 1
      /\ \A k \in 1 .. n : ~(n + 1 < k)
      /\ ~(n + 1 < n + 1)
  BY <1>5
<1> HIDE DEF n
<1>7. /\ \A x : InDecided(x) => InDecided(x)'
      /\ \A x, y : ShownBefore(x, y) => ShownBefore(x, y)'
      /\ \A x : Queued(x) => Queued(x)'
  BY <1>1, <1>3 DEF InDecided, ShownBefore, Queued
<1>8. m \notin half
  BY <1>2 DEF OrderInv, SentInOrder
<1>9. InDecided(m)' /\ Queued(m)'
  BY <1>1, <1>2, <1>3, <1>8 DEF InDecided, Queued
<1>10. \A k \in 1 .. n : Queued(Sent[k]) /\ InDecided(Sent[k])
  BY <1>5 DEF OrderInv, SentInOrder
<1>11. ASSUME NEW k \in DOMAIN Sent' PROVE (Queued(Sent[k]) /\ InDecided(Sent[k]))'
  <2>1. CASE k \in 1 .. n
    BY <1>5, <1>7, <1>10, <2>1 DEF InDecided, Queued
  <2>2. CASE k = n + 1
    BY <1>5, <1>9, <2>2 DEF InDecided, Queued
  <2> QED
    BY <1>5, <1>6, <2>1, <2>2
<1>12. ASSUME NEW k \in DOMAIN Sent', NEW l \in DOMAIN Sent', k < l
       PROVE  ShownBefore(Sent[k], Sent[l])'
  <2>1. k \in 1 .. n
    BY <1>5, <1>6, <1>12
  <2>2. CASE l \in 1 .. n
    <3>1. ShownBefore(Sent[k], Sent[l])
      BY <1>5, <1>12, <2>1, <2>2 DEF OrderInv, SentInOrder
    <3> QED
      BY <1>1, <1>5, <2>1, <2>2, <3>1 DEF ShownBefore
  <2>3. CASE l = n + 1
    <3>1. ShownBefore(Sent[k], m)
      BY <1>2, <1>10, <2>1
    <3> QED
      BY <1>1, <1>5, <2>1, <2>3, <3>1 DEF ShownBefore
  <2> QED
    BY <1>5, <1>6, <2>2, <2>3
<1>13. \A x \in half' : InDecided(x)'
  BY <1>1, <1>7 DEF OrderInv, SentInOrder
<1>14. SentInOrder'
  BY <1>11, <1>12, <1>13 DEF SentInOrder
<1>15. ShownOnce'
  BY <1>1, <1>3, SentTyped DEF OrderInv, ShownOnce, Messages
<1> QED
  BY <1>14, <1>15 DEF OrderInv

(***************************************************************************)
(* A message for which there is no memory is decided: it is not sent.      *)
(***************************************************************************)
LEMMA OutOfMemoryKeepsOrder ==
    ASSUME IInv, OrderInv, NEW c \in Callers, OutOfMemory(c)
    PROVE  OrderInv'
<1>1. /\ pc[c] \in {"submit", "queue", "pend", "snapshot"} /\ pc' = [pc EXCEPT ![c] = "leave"]
      /\ half' = IF pc[c] = "pend" THEN half \cup {Message(c)} ELSE half
      /\ UNCHANGED <<transcript, pending, taken, count>>
  BY DEF OutOfMemory, Step
<1>2. /\ ~Undecided'
      /\ \A d \in Callers : pc'[d] \notin {"submit", "queue"}
  BY <1>1, Alone DEF IInv, TypeOK, Undecided
<1>3. Sent' = Sent
  BY <1>1 DEF Sent
<1>4. ShownOnce'
  BY <1>1, <1>2, SentTyped DEF OrderInv, ShownOnce, Messages
<1>5. \A x : InDecided(x) => InDecided(x)'
  BY <1>1, <1>2 DEF InDecided
<1>6. ASSUME NEW k \in DOMAIN Sent PROVE Queued(Sent[k])' /\ InDecided(Sent[k])'
  <2>1. Queued(Sent[k]) /\ InDecided(Sent[k])
    BY DEF OrderInv, SentInOrder
  <2>2. pc[c] = "pend" => Sent[k] # Message(c)
    BY <2>1, PendingLast
  <2>3. Queued(Sent[k])'
    BY <1>1, <1>3, <2>1, <2>2 DEF Queued
  <2>4. InDecided(Sent[k])'
    BY <1>1, <1>2, <1>3, <2>1 DEF InDecided
  <2> QED
    BY <2>3, <2>4
<1>7. \A x \in half' : InDecided(x)'
  <2>1. \A x \in half : InDecided(x)'
    BY <1>5 DEF OrderInv, SentInOrder
  <2>2. PICK m : m = Message(c)
    OBVIOUS
  <2>3. pc[c] = "pend" => InDecided(m)'
    BY <1>1, <1>2, <2>2, PendingLast DEF InDecided
  <2> QED
    BY <1>1, <2>1, <2>2, <2>3
<1>8. \A k, l \in DOMAIN Sent : k < l => ShownBefore(Sent[k], Sent[l])'
  BY <1>1, <1>3 DEF OrderInv, SentInOrder, ShownBefore
<1>9. SentInOrder'
  BY <1>3, <1>6, <1>7, <1>8 DEF SentInOrder
<1> QED
  BY <1>4, <1>9 DEF OrderInv

LEMMA OrderInvariance == Spec => [](IInv /\ OrderInv)
<1>1. Init => OrderInv
  BY DEF Init, OrderInv, ShownOnce, SentInOrder, Sent
<1>2. IInv /\ OrderInv /\ [Next]_vars => OrderInv'
  <2> SUFFICES ASSUME IInv, OrderInv, [Next]_vars PROVE OrderInv'
    OBVIOUS
  <2>1. CASE UNCHANGED vars
    BY <2>1, OrderFrame DEF vars, local, Sent, Undecided
  <2>2. ASSUME NEW c \in Callers, Enter(c) \/ Inside(c) \/ OutOfMemory(c) \/ Leave(c)
        PROVE  OrderInv'
    BY <2>2, EnterKeepsOrder, PushTranscriptKeepsOrder, PushPendingKeepsOrder, QuietKeepsOrder,
       OutOfMemoryKeepsOrder DEF Inside
  <2> QED
    BY <2>1, <2>2 DEF Next
<1> QED
  BY <1>1, <1>2, SessionInvariance, PTL DEF Spec

(***************************************************************************)
(* What the user queued is sent as it is shown: each message once, in the  *)
(* order of the transcript, and none but those without memory left out.    *)
(***************************************************************************)
THEOREM SentMessages == Spec => []SentAsShown
<1>1. IInv /\ OrderInv => SentAsShown
  <2> SUFFICES ASSUME IInv, OrderInv, ~Undecided
               PROVE  /\ ToSet(Sent) = {m \in ToSet(transcript) : Queued(m)}
                      /\ \A k, l \in DOMAIN Sent : k < l => ShownBefore(Sent[k], Sent[l])
    BY DEF SentAsShown
  <2>1. ASSUME NEW m \in ToSet(Sent) PROVE m \in ToSet(transcript) /\ Queued(m)
    BY <2>1 DEF ToSet, OrderInv, SentInOrder, InDecided
  <2>2. ASSUME NEW m \in ToSet(transcript), Queued(m) PROVE m \in ToSet(Sent)
    <3>1. PICK i \in DOMAIN transcript : transcript[i] = m
      BY DEF ToSet
    <3> QED
      BY <2>2, <3>1, SentTyped DEF IInv, Kept
  <2> QED
    BY <2>1, <2>2 DEF OrderInv, SentInOrder
<1> QED
  BY <1>1, OrderInvariance, PTL
-----------------------------------------------------------------------------
(***************************************************************************)
(* The transcript the abstract outbox sees, and one lemma per kind of step *)
(* of a caller: what the step is for the outbox.                           *)
(***************************************************************************)
Decided == IF Undecided THEN Front(transcript) ELSE transcript

LEMMA PushTranscriptShows ==
    ASSUME IInv, NEW c \in Callers, PushTranscript(c)
    PROVE  Outbox!Next \/ UNCHANGED Outbox!outbox
<1> DEFINE m == Message(c)
<1>1. /\ pc[c] = "submit" \/ pc[c] = "queue"
      /\ pc'[c] = (IF pc[c] = "submit" THEN "leave" ELSE "pend")
      /\ transcript' = Append(transcript, m) /\ UNCHANGED <<pending, taken>>
  BY DEF PushTranscript, Step, IInv, TypeOK
<1>2. m \in Messages /\ transcript \in Seq(Messages)
  BY <1>1, MessageInMessages DEF IInv, TypeOK
<1>3. ~Undecided /\ \A d \in Callers \ {c} : pc'[d] = "idle"
  BY <1>1, Alone DEF PushTranscript, Step, IInv, TypeOK
<1> HIDE DEF m
<1>4. CASE pc[c] = "submit"
  <2>1. ~Undecided'
    BY <1>4, <1>1, <1>3 DEF Undecided
  <2> QED BY <2>1, <1>1, <1>2, <1>3 DEF Outbox!Next, Outbox!Show
<1>5. CASE pc[c] = "queue"
  <2>1. Undecided'
    BY <1>5, <1>1 DEF Undecided
  <2>2. Front(transcript') = transcript
    BY <1>1, <1>2, ElementsAppend
  <2> QED BY <2>1, <2>2, <1>1, <1>3 DEF Outbox!outbox
<1> QED BY <1>1, <1>4, <1>5

LEMMA LastDecided ==
    ASSUME IInv, NEW c \in Callers, pc[c] = "pend", UNCHANGED transcript, ~Undecided'
    PROVE  /\ Message(c) \in Messages
           /\ Decided' = Append(Decided, Message(c))
<1>1. Message(c) \in Messages /\ transcript \in Seq(Messages) /\ transcript # << >>
      /\ Last(transcript) = Message(c)
  BY MessageInMessages DEF IInv, TypeOK, Places
<1>2. Undecided
  BY DEF Undecided
<1>3. Append(Front(transcript), Last(transcript)) = transcript
  BY <1>1, FrontLast
<1> QED BY <1>1, <1>2, <1>3 DEF Decided

LEMMA PushPendingQueues ==
    ASSUME IInv, NEW c \in Callers, PushPending(c)
    PROVE  Outbox!Queue(Message(c)) /\ Message(c) \in Messages
<1>1. pc[c] = "pend" /\ pc'[c] = "leave" /\ UNCHANGED <<transcript, taken>>
      /\ pending' = InsertAt(pending, Len(pending) + 1, Message(c)) /\ pending \in Seq(Messages)
  BY DEF PushPending, PushPendingAt, Step, IInv, TypeOK
<1>2. ~Undecided'
  BY <1>1, Alone DEF PushPending, PushPendingAt, Step, IInv, TypeOK, Undecided
<1>3. Message(c) \in Messages /\ Decided' = Append(Decided, Message(c))
  BY <1>1, <1>2, LastDecided
<1>4. pending' = Append(pending, Message(c))
  BY <1>1, <1>3, ElementsAppend
<1> QED BY <1>1, <1>3, <1>4 DEF Outbox!Queue, Decided

LEMMA OutOfMemoryShows ==
    ASSUME IInv, NEW c \in Callers, OutOfMemory(c)
    PROVE  Outbox!Next \/ UNCHANGED Outbox!outbox
<1>1. pc[c] \in {"submit", "queue", "pend", "snapshot"} /\ pc'[c] = "leave"
      /\ UNCHANGED <<transcript, pending, taken>>
  BY DEF OutOfMemory, Step, IInv, TypeOK
<1>2. ~Undecided'
  BY <1>1, Alone DEF OutOfMemory, Step, IInv, TypeOK, Undecided
<1>3. CASE pc[c] = "pend"
  <2>1. Message(c) \in Messages /\ Decided' = Append(Decided, Message(c))
    BY <1>1, <1>2, <1>3, LastDecided
  <2> QED BY <2>1, <1>1 DEF Outbox!Next, Outbox!Show, Decided
<1>4. CASE pc[c] # "pend"
  <2>1. ~Undecided
    BY <1>1, <1>4, Alone
  <2> QED BY <2>1, <1>1, <1>2 DEF Outbox!outbox
<1> QED BY <1>3, <1>4

(***************************************************************************)
(* The other steps push nothing: they leave every caller's place on the    *)
(* same side of the second push.                                           *)
(***************************************************************************)
LEMMA OthersShowNothing ==
    ASSUME IInv, NEW c \in Callers, Enter(c) \/ Copy(c) \/ Move(c) \/ Clear(c) \/ Leave(c)
    PROVE  Outbox!Take \/ UNCHANGED Outbox!outbox
<1>1. pc[c] # "pend" /\ pc'[c] # "pend" /\ (\A d \in Callers \ {c} : pc'[d] = pc[d])
      /\ UNCHANGED transcript
  <2>1. CASE Enter(c)
    <3>1. PICK op \in Calls[c] : Entered(c, op)
      BY <2>1 DEF Enter
    <3> QED BY <3>1, SessionAssumption DEF Entered, Step, IInv, TypeOK
  <2>2. CASE Copy(c) \/ Move(c) \/ Clear(c) \/ Leave(c)
    BY <2>2 DEF Copy, Move, MoveOut, Clear, Leave, Step, IInv, TypeOK
  <2> QED BY <2>1, <2>2
<1>2. Undecided' <=> Undecided
  BY <1>1 DEF Undecided
<1>3. CASE Move(c)
  <2>1. pending' = << >> /\ taken' = taken \o pending
    BY <1>3 DEF Move, MoveOut
  <2> QED BY <1>1, <1>2, <2>1 DEF Outbox!Take
<1>4. CASE ~Move(c)
  <2>1. UNCHANGED <<pending, taken>>
    BY <1>4 DEF Enter, Entered, Copy, Clear, Leave, Step, IInv, Places
  <2> QED BY <1>1, <1>2, <2>1 DEF Outbox!outbox
<1> QED BY <1>3, <1>4

(***************************************************************************)
(* The session implements the outbox: every message shown, queued and      *)
(* taken is shown, queued and taken in one step, in transcript order.      *)
(***************************************************************************)
THEOREM SessionImplementsOutbox == Spec => ImplementsOutbox
<1>1. Init => Outbox!Init
  BY DEF Init, Outbox!Init, Undecided
<1>2. IInv /\ [Next]_vars => [Outbox!Next]_(Outbox!outbox)
  <2> SUFFICES ASSUME IInv, [Next]_vars PROVE Outbox!Next \/ UNCHANGED Outbox!outbox
    BY DEF Outbox!outbox
  <2>1. CASE UNCHANGED vars
    BY <2>1 DEF vars, local, Undecided, Outbox!outbox
  <2>2. ASSUME NEW c \in Callers, Enter(c) \/ Inside(c) \/ OutOfMemory(c) \/ Leave(c)
        PROVE  Outbox!Next \/ UNCHANGED Outbox!outbox
    <3>1. CASE PushTranscript(c)
      BY <3>1, PushTranscriptShows
    <3>2. CASE PushPending(c)
      BY <3>2, PushPendingQueues DEF Outbox!Next
    <3>3. CASE OutOfMemory(c)
      BY <3>3, OutOfMemoryShows
    <3>4. CASE Enter(c) \/ Copy(c) \/ Move(c) \/ Clear(c) \/ Leave(c)
      BY <3>4, OthersShowNothing DEF Outbox!Next
    <3> QED BY <2>2, <3>1, <3>2, <3>3, <3>4 DEF Inside
  <2> QED BY <2>1, <2>2 DEF Next
<1> QED BY <1>1, <1>2, SessionInvariance, PTL DEF Spec, ImplementsOutbox, Outbox!Spec
=============================================================================
