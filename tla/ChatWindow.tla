----------------------------- MODULE ChatWindow -----------------------------
(***************************************************************************)
(* The frames of the chat window (src/networking/src/app/chat_window.cpp   *)
(* and the loop of main_window in app/main.cpp), composed with the promise *)
(* of the session: peers add to the transcript and the network takes the   *)
(* user's messages between any two steps of a frame.  What ImGui answers   *)
(* (what is visible, typed, clicked) is arbitrary.                         *)
(***************************************************************************)
EXTENDS ChatOutbox, Integers, SequencesExt

CONSTANTS MaxTyped, MaxPosts,   \* bounds: texts typed, messages of peers
          Empty, Blank          \* inputs of no character and of spaces only

WindowAssumption == {Empty, Blank} \cap Nat = {}   \* a text is no number

VARIABLES
    frame,       \* the next step of the loop
    close,       \* glfwWindowShouldClose
    input,       \* input_buffer: Empty, Blank or the number of a text
    typed,       \* texts typed so far
    messages,    \* the snapshot of the frame
    remembered,  \* last_rendered_message_count
    focus,       \* focus_input_on_next_frame
    focused,     \* the input has the keyboard
    entered,     \* submitted_with_enter of the frame
    drawn,       \* messages drawn when the transcript was last visible
    scrolled,    \* messages there were when it last scrolled to the end
    hidden       \* messages there were when it was last not visible

keys == <<input, typed, focused, entered>>
view == <<messages, remembered, drawn, scrolled, hidden>>
vars == <<outbox, frame, close, keys, focus, view>>

Step(from, to) == frame = from /\ frame' = to
Stopped        == frame \in {"failed", "closed", "dead"}

WindowInit ==
    /\ Init
    /\ frame = "start" /\ close = FALSE
    /\ input = Empty /\ typed = 0 /\ focused = FALSE /\ entered = FALSE
    /\ focus = TRUE
    /\ messages = << >> /\ remembered = 0 /\ drawn = 0 /\ scrolled = 0 /\ hidden = 0
-----------------------------------------------------------------------------
Start == (Step("start", "failed") \/ Step("start", "loop")) /\ UNCHANGED <<outbox, close, keys, focus, view>>

\* glfwPollEvents: Escape, the close button, a click into or beside the input.
Poll ==
    /\ Step("loop", "begin") /\ ~close
    /\ close' \in BOOLEAN /\ focused' \in BOOLEAN
    /\ UNCHANGED <<outbox, input, typed, entered, focus, view>>

Close == Step("loop", "closed") /\ close /\ UNCHANGED <<outbox, close, keys, focus, view>>

\* Mutant: the flag is cleared although the input is not drawn.
BeginHiddenUnfocus == Step("begin", "loop") /\ focus' = FALSE /\ UNCHANGED <<outbox, close, keys, view>>
BeginHidden        == Step("begin", "loop") /\ UNCHANGED <<outbox, close, keys, focus, view>>
BeginVisible       == Step("begin", "snapshot") /\ UNCHANGED <<outbox, close, keys, focus, view>>

SnapshotOf(m) ==
    /\ Step("snapshot", "child")
    /\ messages' = m
    /\ UNCHANGED <<outbox, close, keys, focus, remembered, drawn, scrolled, hidden>>

SnapshotOnce == SnapshotOf(IF messages = << >> THEN transcript ELSE messages)   \* Mutant
Snapshot     == SnapshotOf(transcript)

\* The transcript, and the number of messages to compare with the next time.
ChildRemembers(visible, n) ==
    /\ Step("child", "input")
    /\ IF visible
       THEN /\ drawn' = Len(messages)
            /\ scrolled' = IF Len(messages) > remembered THEN Len(messages) ELSE scrolled
            /\ UNCHANGED hidden
       ELSE hidden' = Len(messages) /\ UNCHANGED <<drawn, scrolled>>
    /\ remembered' = n
    /\ UNCHANGED <<outbox, close, keys, focus, messages>>

ChildLate(visible) == ChildRemembers(visible, Len(transcript))   \* Mutant
Child(visible)     == ChildRemembers(visible, Len(messages))

Input ==
    /\ Step("input", "button")
    /\ focus' = FALSE
    /\ focused' = (focus \/ focused)
    /\ \/ UNCHANGED <<input, typed>> /\ entered' = FALSE
       \/ focused' /\ entered' \in BOOLEAN
          /\ \/ input' \in {input, Empty, Blank} /\ UNCHANGED typed
             \/ typed < MaxTyped /\ typed' = typed + 1 /\ input' = typed'
    /\ UNCHANGED <<outbox, close, view>>

Trim(text) == IF text = Blank THEN Empty ELSE text
CanSend    == Trim(input) # Empty

\* Enter and a click take the keyboard from the input.
NotSent ==
    /\ Step("button", "loop")
    /\ ~(entered /\ CanSend)
    /\ focused' = (focused /\ ~entered)
    /\ UNCHANGED <<outbox, close, input, typed, entered, focus, view>>

SendLeaving(text) ==
    /\ Step("button", "loop")
    /\ CanSend
    /\ Queue(<<"user", Trim(input)>>)
    /\ input' = text
    /\ focus' = TRUE /\ focused' = FALSE
    /\ UNCHANGED <<close, typed, entered, view>>

SendKeeping == SendLeaving(input)   \* Mutant
Send        == SendLeaving(Empty)

\* Nothing catches bad_alloc: the program terminates, perhaps between the
\* two lists of the session.
OutOfMemory ==
    /\ \/ Step("snapshot", "dead") /\ UNCHANGED outbox
       \/ Step("button", "dead") /\ CanSend /\ (Show(<<"user", Trim(input)>>) \/ UNCHANGED outbox)
    /\ UNCHANGED <<close, keys, focus, view>>

Frame == \/ Start \/ Poll \/ Close \/ BeginHidden \/ BeginVisible \/ Snapshot
         \/ \E visible \in BOOLEAN : Child(visible)
         \/ Input \/ NotSent \/ Send \/ OutOfMemory

Others ==
    /\ ~Stopped /\ frame # "start"
    /\ \/ Take
       \/ \E m \in Messages :
             /\ m[1] = "peer" /\ m[2] = Len(SelectSeq(transcript, LAMBDA n : n[1] = "peer")) + 1
             /\ Show(m)
    /\ UNCHANGED <<frame, close, keys, focus, view>>

WindowNext == Frame \/ Others
WindowSpec == WindowInit /\ [][WindowNext]_vars

(***************************************************************************)
(* The loop goes on, and the window and its transcript are visible again   *)
(* and again.  Nothing is assumed of peers, network and user.              *)
(***************************************************************************)
WindowFairSpec ==
    WindowSpec /\ WF_vars(Frame) /\ SF_vars(BeginVisible) /\ SF_vars(Child(TRUE))
-----------------------------------------------------------------------------
Texts == {"user"} \X Nat
Sent  == taken \o unsent

TypeOK ==
    /\ {transcript, messages} \subseteq Seq(Messages \cup Texts)
    /\ {taken, unsent} \subseteq Seq(Texts)
    /\ typed \in Nat /\ input \in {Empty, Blank} \cup (1 .. typed)
    /\ {remembered, scrolled, hidden, drawn} \subseteq Nat

(***************************************************************************)
(* Messages that arrive between any two steps of a frame are not missed:   *)
(* every message the window counted as rendered was scrolled to, or the    *)
(* transcript was hidden in the frame that counted it.                     *)
(***************************************************************************)
ScrolledOrHidden == remembered <= scrolled \/ remembered <= hidden

(***************************************************************************)
(* What the user typed is sent at most once, in the order it was typed,    *)
(* whether by Enter, by the button or by both; and the text in the input   *)
(* is not sent yet.                                                        *)
(***************************************************************************)
Ascending == \A i, j \in DOMAIN Sent : i < j => Sent[i][2] < Sent[j][2]

SentOnce == Ascending /\ \A i \in DOMAIN Sent : Sent[i][2] # input

(***************************************************************************)
(* Why: a text in the input is newer than every text that was sent.        *)
(***************************************************************************)
InputIsNewer ==
    \A i \in DOMAIN Sent : Sent[i][2] <= typed /\ (input \in Nat => Sent[i][2] < input)

IInv == TypeOK /\ Ascending /\ InputIsNewer /\ ScrolledOrHidden

(***************************************************************************)
(* Every message of the transcript is eventually drawn, unless the program *)
(* stops.                                                                  *)
(***************************************************************************)
EveryMessageDrawn ==
    \A n \in 1 .. (MaxTyped + MaxPosts) : Len(transcript) >= n ~> drawn >= n \/ Stopped

(***************************************************************************)
(* The input gets the keyboard after a message was sent (and at the start) *)
(* however many frames are hidden in between.                              *)
(***************************************************************************)
FocusReturns == focus ~> focused \/ Stopped
=============================================================================
