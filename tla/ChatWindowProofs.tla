-------------------------- MODULE ChatWindowProofs --------------------------
(***************************************************************************)
(* ChatWindow for any number of texts and messages: what was counted as    *)
(* rendered was scrolled to or hidden, and a typed text is sent once.  The *)
(* window uses ChatOutbox, which the session implements (theorem           *)
(* SessionImplementsOutbox of ChatSessionProofs).                          *)
(***************************************************************************)
EXTENDS ChatWindow, SequenceTheorems, TLAPS

(***************************************************************************)
(* Nothing is sent, typed or shown at the start.                           *)
(***************************************************************************)
LEMMA WindowInitially == WindowInit => IInv
<1> SUFFICES ASSUME WindowInit PROVE IInv
  OBVIOUS
<1>1. Sent = << >>
  BY DEF WindowInit, Init, Sent
<1>2. TypeOK
  BY DEF WindowInit, Init, TypeOK
<1> QED BY <1>1, <1>2 DEF IInv, WindowInit, Ascending, InputIsNewer, ScrolledOrHidden

(***************************************************************************)
(* What is sent is a sequence of texts; handing it over does not change    *)
(* it, and queueing a text adds the text at its end.                       *)
(***************************************************************************)
LEMMA SentGrows ==
    ASSUME TypeOK
    PROVE  /\ Sent \in Seq(Texts)
           /\ Take => Sent' = Sent /\ taken' \in Seq(Texts) /\ unsent' \in Seq(Texts)
           /\ \A m \in Texts : Queue(m) => Sent' = Append(Sent, m) /\ unsent' \in Seq(Texts)
<1>1. taken \in Seq(Texts) /\ unsent \in Seq(Texts)
  BY DEF TypeOK
<1>2. Sent \in Seq(Texts)
  BY <1>1 DEF Sent
<1>3. Take => Sent' = Sent /\ taken' \in Seq(Texts) /\ unsent' \in Seq(Texts)
  <2>1. (taken \o unsent) \o << >> = taken \o unsent
    BY <1>1
  <2> QED BY <1>1, <1>2, <2>1 DEF Take, Sent
<1>4. ASSUME NEW m \in Texts, Queue(m)
      PROVE  Sent' = Append(Sent, m) /\ unsent' \in Seq(Texts)
  <2>1. unsent' = Append(unsent, m) /\ taken' = taken
    BY <1>4 DEF Queue
  <2>2. taken \o Append(unsent, m) = Append(taken \o unsent, m)
    BY <1>1
  <2> QED BY <1>1, <2>1, <2>2 DEF Sent
<1> QED BY <1>2, <1>3, <1>4

(***************************************************************************)
(* The order and the novelty of the input depend on what is sent, on the   *)
(* input and on the number of texts alone.                                 *)
(***************************************************************************)
LEMMA SameSent ==
    ASSUME Ascending, InputIsNewer, Sent' = Sent, UNCHANGED typed,
           input' = input \/ input' \notin Nat
    PROVE  Ascending' /\ InputIsNewer'
BY DEF Ascending, InputIsNewer

(***************************************************************************)
(* One step of a frame keeps the invariant.                                *)
(***************************************************************************)
LEMMA ChildKeepsIInv ==
    ASSUME IInv, NEW visible \in BOOLEAN, Child(visible)
    PROVE  IInv'
<1> USE DEF Child, ChildRemembers
<1>1. UNCHANGED <<outbox, keys, messages>> /\ remembered' = Len(messages) /\ Len(messages) \in Nat
  BY DEF IInv, TypeOK
<1>2. TypeOK'
  BY <1>1 DEF IInv, TypeOK, outbox, keys
<1>3. Ascending' /\ InputIsNewer'
  BY <1>1, SameSent DEF IInv, Sent, outbox, keys
<1>4. ScrolledOrHidden'
  <2>1. {remembered, scrolled, hidden} \subseteq Nat /\ (remembered <= scrolled \/ remembered <= hidden)
    BY DEF IInv, TypeOK, ScrolledOrHidden
  <2>2. CASE visible
    BY <1>1, <2>1, <2>2 DEF ScrolledOrHidden
  <2>3. CASE ~visible
    BY <1>1, <2>1, <2>3 DEF ScrolledOrHidden
  <2> QED BY <2>2, <2>3
<1> QED BY <1>2, <1>3, <1>4 DEF IInv

LEMMA InputKeepsIInv ==
    ASSUME WindowAssumption, IInv, Input
    PROVE  IInv'
<1>1. UNCHANGED <<outbox, view>>
  BY DEF Input
<1>2. \/ UNCHANGED typed /\ input' \in {input, Empty, Blank}
      \/ typed' = typed + 1 /\ input' = typed'
  BY DEF Input
<1>3. TypeOK'
  BY <1>1, <1>2 DEF IInv, TypeOK, outbox, view
<1>4. Sent' = Sent /\ Sent \in Seq(Texts)
  BY <1>1, SentGrows DEF Sent, outbox, IInv
<1>5. Ascending' /\ InputIsNewer'
  <2>1. CASE UNCHANGED typed /\ input' \in {input, Empty, Blank}
    BY <1>4, <2>1, SameSent DEF IInv, WindowAssumption
  <2>2. CASE typed' = typed + 1 /\ input' = typed'
    <3>1. \A i \in DOMAIN Sent : Sent[i][2] \in Nat
      BY <1>4 DEF Texts
    <3>2. typed \in Nat
      BY DEF IInv, TypeOK
    <3> QED BY <1>4, <2>2, <3>1, <3>2 DEF IInv, Ascending, InputIsNewer
  <2> QED BY <1>2, <2>1, <2>2
<1>6. ScrolledOrHidden'
  BY <1>1 DEF IInv, ScrolledOrHidden, view
<1> QED BY <1>3, <1>5, <1>6 DEF IInv

LEMMA SendKeepsIInv ==
    ASSUME WindowAssumption, IInv, Send
    PROVE  IInv'
<1>1. PICK m : m = <<"user", Trim(input)>>
  OBVIOUS
<1>2. Queue(m) /\ input' = Empty /\ UNCHANGED <<typed, view>> /\ Trim(input) # Empty
  BY <1>1 DEF Send, SendLeaving, CanSend
<1>3. input \in 1 .. typed /\ Trim(input) = input /\ typed \in Nat
  BY <1>2 DEF Trim, IInv, TypeOK
<1>4. m \in Texts /\ m[2] = input
  BY <1>1, <1>3 DEF Texts
<1>5. Sent \in Seq(Texts) /\ Sent' = Append(Sent, m) /\ unsent' \in Seq(Texts)
  BY <1>2, <1>4, SentGrows DEF IInv
<1>6. TypeOK'
  <2>1. transcript' \in Seq(Messages \cup Texts) /\ taken' \in Seq(Texts)
    BY <1>2, <1>4 DEF Queue, IInv, TypeOK
  <2> QED BY <1>2, <1>3, <1>5, <2>1 DEF IInv, TypeOK, view
<1>7. /\ DOMAIN Sent' = DOMAIN Sent \cup {Len(Sent) + 1} /\ Sent'[Len(Sent) + 1] = m
      /\ \A i \in DOMAIN Sent : i <= Len(Sent) /\ Sent'[i] = Sent[i]
      /\ DOMAIN Sent = 1 .. Len(Sent) /\ Len(Sent) \in Nat
  BY <1>4, <1>5
<1>8. \A i \in DOMAIN Sent : Sent[i][2] < input /\ Sent[i][2] <= typed
  BY <1>3 DEF IInv, InputIsNewer
<1>9. Ascending'
  <2>1. ASSUME NEW i \in DOMAIN Sent', NEW j \in DOMAIN Sent', i < j
        PROVE  Sent'[i][2] < Sent'[j][2]
    <3>1. i \in DOMAIN Sent
      BY <1>7, <2>1
    <3>2. CASE j \in DOMAIN Sent
      BY <1>7, <2>1, <3>1, <3>2 DEF IInv, Ascending
    <3>3. CASE j = Len(Sent) + 1
      BY <1>4, <1>7, <1>8, <3>1, <3>3
    <3> QED BY <1>7, <3>2, <3>3
  <2> QED BY <2>1 DEF Ascending
<1>10. InputIsNewer'
  BY <1>2, <1>3, <1>4, <1>7, <1>8 DEF InputIsNewer, WindowAssumption
<1>11. ScrolledOrHidden'
  BY <1>2 DEF IInv, ScrolledOrHidden, view
<1> QED BY <1>6, <1>9, <1>10, <1>11 DEF IInv

(***************************************************************************)
(* The other steps show a message, or take the queue, or neither.          *)
(***************************************************************************)
LEMMA OtherStepsKeepIInv ==
    ASSUME IInv, UNCHANGED <<typed, input, view>>,
           \/ UNCHANGED outbox
           \/ Take
           \/ \E m \in Messages \cup Texts : Show(m)
    PROVE  IInv'
<1>1. transcript' \in Seq(Messages \cup Texts) /\ taken' \in Seq(Texts) /\ unsent' \in Seq(Texts) /\ Sent' = Sent
  <2>1. {transcript} \subseteq Seq(Messages \cup Texts) /\ {taken, unsent} \subseteq Seq(Texts)
    BY DEF IInv, TypeOK
  <2>2. CASE UNCHANGED outbox
    BY <2>1, <2>2 DEF outbox, Sent
  <2>3. CASE Take
    BY <2>1, <2>3, SentGrows DEF Take, IInv
  <2>4. ASSUME NEW m \in Messages \cup Texts, Show(m)
        PROVE  transcript' \in Seq(Messages \cup Texts) /\ UNCHANGED <<taken, unsent>>
    BY <2>1, <2>4 DEF Show
  <2> QED BY <2>1, <2>2, <2>3, <2>4 DEF Sent
<1>2. TypeOK'
  BY <1>1 DEF IInv, TypeOK, view
<1>3. Ascending' /\ InputIsNewer'
  BY <1>1, SameSent DEF IInv
<1>4. ScrolledOrHidden'
  BY DEF IInv, ScrolledOrHidden, view
<1> QED BY <1>2, <1>3, <1>4 DEF IInv

LEMMA WindowStep ==
    ASSUME WindowAssumption, IInv, [WindowNext]_vars
    PROVE  IInv'
<1>1. CASE Start \/ Poll \/ Close \/ BeginHidden \/ BeginVisible \/ NotSent \/ UNCHANGED vars
  <2>1. UNCHANGED <<typed, input, view, outbox>>
    BY <1>1 DEF Start, Poll, Close, BeginHidden, BeginVisible, NotSent, vars, keys
  <2> QED BY <2>1, OtherStepsKeepIInv
<1>2. CASE Snapshot
  <2>1. messages' = transcript /\ UNCHANGED <<outbox, keys, remembered, drawn, scrolled, hidden>>
    BY <1>2 DEF Snapshot, SnapshotOf
  <2>2. Ascending' /\ InputIsNewer'
    BY <2>1, SameSent DEF IInv, Sent, outbox, keys
  <2>3. TypeOK'
    BY <2>1 DEF IInv, TypeOK, outbox, keys
  <2> QED BY <2>1, <2>2, <2>3 DEF IInv, ScrolledOrHidden
<1>3. ASSUME NEW visible \in BOOLEAN, Child(visible)
      PROVE  IInv'
  BY <1>3, ChildKeepsIInv
<1>4. CASE Input
  BY <1>4, InputKeepsIInv
<1>5. CASE Send
  BY <1>5, SendKeepsIInv
<1>6. CASE OutOfMemory
  <2>1. UNCHANGED <<typed, input, view>>
    BY <1>6 DEF OutOfMemory, keys
  <2>2. CanSend => <<"user", Trim(input)>> \in Texts
    BY DEF CanSend, Trim, IInv, TypeOK, Texts
  <2> QED BY <1>6, <2>1, <2>2, OtherStepsKeepIInv DEF OutOfMemory
<1>7. CASE Others
  <2>1. UNCHANGED <<typed, input, view>>
    BY <1>7 DEF Others, keys
  <2> QED BY <1>7, <2>1, OtherStepsKeepIInv DEF Others
<1> QED BY <1>1, <1>2, <1>3, <1>4, <1>5, <1>6, <1>7 DEF WindowNext, Frame

(***************************************************************************)
(* The invariant of the window holds for any bounds and messages.          *)
(***************************************************************************)
THEOREM WindowInvariance ==
    ASSUME WindowAssumption
    PROVE  WindowSpec => []IInv
<1>1. IInv /\ [WindowNext]_vars => IInv'
  BY WindowStep
<1> QED BY <1>1, WindowInitially, PTL DEF WindowSpec

(***************************************************************************)
(* No message that a frame counted as rendered was missed.                 *)
(***************************************************************************)
THEOREM NoMessageMissed ==
    ASSUME WindowAssumption
    PROVE  WindowSpec => []ScrolledOrHidden
<1>1. IInv => ScrolledOrHidden
  BY DEF IInv
<1> QED BY <1>1, WindowInvariance, PTL

(***************************************************************************)
(* Whatever is typed is sent at most once, in the order it was typed.      *)
(***************************************************************************)
THEOREM TypedTextSentOnce ==
    ASSUME WindowAssumption
    PROVE  WindowSpec => []SentOnce
<1>1. IInv => SentOnce
  <2>1. ASSUME IInv PROVE \A i \in DOMAIN Sent : Sent[i][2] # input
    <3>1. Sent \in Seq(Texts) /\ \A i \in DOMAIN Sent : input \in Nat => Sent[i][2] < input
      BY <2>1, SentGrows DEF IInv, InputIsNewer
    <3>2. \A i \in DOMAIN Sent : Sent[i][2] \in Nat
      BY <3>1 DEF Texts
    <3> QED BY <3>1, <3>2
  <2> QED BY <2>1 DEF IInv, SentOnce
<1> QED BY <1>1, WindowInvariance, PTL
=============================================================================
