------------------------ MODULE TerminalLoggingProofs ------------------------
(***************************************************************************)
(* TerminalLogging for any threads, names and number of messages: no two   *)
(* threads share a message buffer, lines are not torn, and messages reach  *)
(* the terminal once each and in order.                                    *)
(***************************************************************************)
EXTENDS TerminalLogging, SequenceTheorems, FiniteSetTheorems, TLAPS

(***************************************************************************)
(* One place of one thread changes in a step.                              *)
(***************************************************************************)
LEMMA StepMoves ==
    ASSUME TypeOK, NEW t \in Threads, NEW from,
           NEW to \in {"new", "get", "emplace", "got", "idle", "flush", "text"},
           Step(t, from, to)
    PROVE  /\ pc' \in [Threads -> {"new", "get", "emplace", "got", "idle", "flush", "text"}]
           /\ pc[t] = from /\ pc'[t] = to
           /\ \A u \in Threads \ {t} : pc'[u] = pc[u]
           /\ ~terminated
  BY DEF Step, TypeOK

(***************************************************************************)
(* Threads with a name have different names.                               *)
(***************************************************************************)
LEMMA TakenFinite ==
    /\ IsFiniteSet(Taken) /\ Cardinality(Taken) \in Nat
    /\ Cardinality(Taken) <= IdModulus /\ IdModulus \in Nat \ {0}
    /\ \A u \in Users \ Taken : Cardinality(Taken) < IdModulus
<1>1. IsFiniteSet(Users) /\ Taken \subseteq Users /\ IdModulus \in Nat \ {0}
      /\ Cardinality(Users) <= IdModulus
  BY LoggingAssumption DEF Taken
<1>2. IsFiniteSet(Taken) /\ Cardinality(Taken) <= Cardinality(Users)
      /\ (Cardinality(Users) = Cardinality(Taken) => Users = Taken)
  BY <1>1, FS_Subset
<1>3. Cardinality(Taken) \in Nat /\ Cardinality(Users) \in Nat
  BY <1>1, <1>2, FS_CardinalityType
<1>4. ASSUME NEW u \in Users \ Taken PROVE Cardinality(Taken) # Cardinality(Users)
  BY <1>2, <1>4
<1> QED
  BY <1>1, <1>2, <1>3, <1>4

LEMMA OwnName ==
    ASSUME NamesApart, NEW t \in Threads, NEW u \in Threads,
           pc[t] # "new", pc[u] # "new", name[t] = name[u]
    PROVE  t = u
<1>1. ASSUME NEW a \in Users, NEW w \in Workers, pc[a] # "new" PROVE name[a] # name[w]
  <2>1. name[a] \in 0 .. (Cardinality(Taken) - 1)
    BY <1>1 DEF NamesApart, Taken
  <2>2. name[a] \in 0 .. (IdModulus - 1)
    BY <2>1, TakenFinite
  <2> QED
    BY <2>2, LoggingAssumption DEF NamesApart
<1>2. CASE t \in Users /\ u \in Users
  BY <1>2 DEF NamesApart, Taken
<1>3. CASE t \in Workers /\ u \in Workers
  BY <1>3, LoggingAssumption DEF NamesApart
<1> QED
  BY <1>1, <1>2, <1>3 DEF Threads

(***************************************************************************)
(* What a step that leaves names, loggers and the terminal alone keeps.    *)
(***************************************************************************)
LEMMA NamesFrame ==
    ASSUME NamesApart, UNCHANGED <<name, nextId>>,
           \A t \in Threads : pc'[t] = "new" <=> pc[t] = "new"
    PROVE  NamesApart'
<1>1. Taken' = Taken
  BY DEF Taken, Threads
<1> QED
  BY <1>1 DEF NamesApart, Threads

LEMMA LogFrame ==
    ASSUME Buffered, TerminalHeld, LinesWhole, TextsInOrder,
           UNCHANGED <<count, printed, out, outMutex>>,
           \A t \in Threads :
              /\ InLog(t)' <=> InLog(t)
              /\ pc'[t] = "text" <=> pc[t] = "text"
              /\ pc'[t] = "idle" <=> pc[t] = "idle"
              /\ InLog(t) => name'[t] = name[t] /\ buffer'[name[t]] = buffer[name[t]]
    PROVE  Buffered' /\ TerminalHeld' /\ LinesWhole' /\ TextsInOrder'
<1>1. Buffered'
  <2> SUFFICES ASSUME NEW t \in Threads, InLog(t)'
               PROVE  LastOf(t)'
    BY DEF Buffered
  <2>1. InLog(t) /\ name'[t] = name[t] /\ buffer'[name'[t]] = buffer[name[t]]
    OBVIOUS
  <2> QED
    BY ZenonT(40), <2>1 DEF Buffered, LastOf
<1>2. TerminalHeld'
  BY DEF TerminalHeld
<1>3. LinesWhole'
  BY DEF LinesWhole
<1>4. TextsInOrder'
  <2>1. \A t \in Threads : Done(t)' = Done(t)
    BY DEF Done
  <2> QED
    BY <2>1 DEF TextsInOrder, PrintedUpTo, TextsOf
<1> QED
  BY <1>1, <1>2, <1>3, <1>4

(***************************************************************************)
(* No logger, no id taken and an empty terminal to begin with.             *)
(***************************************************************************)
LEMMA InitIInv == Init => IInv
<1> SUFFICES ASSUME Init PROVE IInv
  OBVIOUS
<1> USE DEF Init
<1>1. TypeOK
  <2>1. \A w \in Workers : NameOf[w] \in Names
    BY DEF Names
  <2>2. name \in [Threads -> Names \cup {Nobody}]
    BY <2>1 DEF Threads
  <2>3. pc \in [Threads -> {"new", "get", "emplace", "got", "idle", "flush", "text"}]
    OBVIOUS
  <2>4. printed \in [Threads -> Nat] /\ count \in [Threads -> Nat]
    OBVIOUS
  <2>5. buffer \in [DOMAIN buffer -> Seq(Threads \X Nat)] /\ out \in Seq(Threads \X Nat)
    OBVIOUS
  <2>6. /\ nextId \in Nat /\ terminated \in BOOLEAN
        /\ mapMutex \in Threads \cup {Nobody} /\ outMutex \in Threads \cup {Nobody}
    OBVIOUS
  <2> HIDE DEF Init
  <2> QED
    BY <2>2, <2>3, <2>4, <2>5, <2>6 DEF TypeOK
<1>2. NamesApart
  <2>1. Taken = {}
    BY DEF Taken, Threads
  <2>2. Cardinality(Taken) = 0 /\ 0 % IdModulus = 0
    BY <2>1, FS_EmptySet, LoggingAssumption
  <2> QED
    BY <2>1, <2>2, LoggingAssumption DEF NamesApart, Threads
<1>3. \A t \in Threads : pc[t] \in {"new", "get"}
  OBVIOUS
<1>4. OwnLogger /\ Buffered
  BY <1>3 DEF OwnLogger, Buffered, InLog
<1>5. TerminalHeld /\ LinesWhole
  BY <1>3, LoggingAssumption DEF TerminalHeld, LinesWhole
<1>6. TextsInOrder
  <2>1. \A t \in Threads : TextsOf(t) = {} /\ ~InLog(t)
    BY <1>3 DEF TextsOf, InLog
  <2> QED
    BY <2>1 DEF TextsInOrder, PrintedUpTo, Done
<1> QED
  BY <1>1, <1>2, <1>4, <1>5, <1>6 DEF IInv
-----------------------------------------------------------------------------
(***************************************************************************)
(* The next id is not taken, since there are no more users than ids.       *)
(***************************************************************************)
LEMMA TakeIdKeepsIInv ==
    ASSUME IInv, NEW u \in Users, TakeId(u)
    PROVE  IInv'
<1> DEFINE n == Cardinality(Taken)
<1>1. /\ pc' \in [Threads -> {"new", "get", "emplace", "got", "idle", "flush", "text"}]
      /\ pc[u] = "new" /\ pc'[u] = "get"
      /\ \A t \in Threads \ {u} : pc'[t] = pc[t]
      /\ u \in Threads
  <2>1. u \in Threads /\ TypeOK /\ Step(u, "new", "get")
    BY DEF TakeId, TakeIdOf, IInv, Threads
  <2> QED
    BY <2>1, StepMoves
<1>2. /\ name' = [name EXCEPT ![u] = nextId]
      /\ nextId' = (nextId + 1) % IdModulus
      /\ UNCHANGED <<buffer, count, mapMutex, terminated, outMutex, out, printed>>
      /\ name \in [Threads -> Names \cup {Nobody}]
  BY DEF TakeId, TakeIdOf, manager, terminal, IInv, TypeOK
<1>3. /\ n \in Nat /\ n < IdModulus /\ IdModulus \in Nat \ {0}
      /\ nextId = n /\ IsFiniteSet(Taken)
  <2>1. u \in Users \ Taken
    BY <1>1 DEF Taken
  <2>2. n \in Nat /\ n < IdModulus /\ IdModulus \in Nat \ {0} /\ IsFiniteSet(Taken)
    BY <2>1, TakenFinite
  <2>3. nextId = n % IdModulus
    BY DEF IInv, NamesApart
  <2> QED
    BY <2>2, <2>3
<1>4. Taken' = Taken \cup {u} /\ Cardinality(Taken') = n + 1
  <2>1. Taken' = Taken \cup {u} /\ u \notin Taken
    BY <1>1 DEF Taken, Threads
  <2> QED
    BY <1>3, <2>1, FS_AddElement
<1>5. NamesApart'
  <2>1. nextId' = Cardinality(Taken') % IdModulus
    BY <1>2, <1>3, <1>4
  <2>2. name'[u] = n /\ \A v \in Threads \ {u} : name'[v] = name[v]
    BY <1>1, <1>2, <1>3
  <2>3. \A v \in Taken : v \in Threads \ {u} /\ name[v] \in 0 .. (n - 1)
    BY <1>1 DEF IInv, NamesApart, Taken, Threads
  <2>4. \A v \in Taken' : name'[v] \in 0 .. (Cardinality(Taken') - 1)
    BY <1>3, <1>4, <2>2, <2>3
  <2>5. \A v, w \in Taken' : name'[v] = name'[w] => v = w
    <3> HIDE DEF n
    <3>1. \A v \in Taken : name'[v] = name[v] /\ name'[v] # n
      BY <1>3, <2>2, <2>3
    <3>2. \A v, w \in Taken : name[v] = name[w] => v = w
      BY DEF IInv, NamesApart
    <3> QED
      BY <1>4, <2>2, <3>1, <3>2
  <2>6. \A w \in Workers : pc'[w] # "new" /\ name'[w] = NameOf[w]
    <3>1. \A w \in Workers : w \in Threads \ {u}
      BY LoggingAssumption DEF Threads
    <3> QED
      BY <1>1, <2>2, <3>1 DEF IInv, NamesApart
  <2> QED
    BY <2>1, <2>4, <2>5, <2>6 DEF NamesApart
<1>6. TypeOK'
  <2>1. nextId \in Names
    BY <1>3 DEF Names
  <2>2. nextId' \in Nat
    BY <1>2, <1>3
  <2> QED
    BY <1>1, <1>2, <2>1, <2>2 DEF IInv, TypeOK
<1>7. \A t \in Threads : /\ InLog(t)' <=> InLog(t)
                         /\ pc'[t] = "text" <=> pc[t] = "text"
                         /\ pc'[t] = "idle" <=> pc[t] = "idle"
                         /\ pc'[t] = "got" <=> pc[t] = "got"
                         /\ InLog(t) \/ pc[t] = "got" => name'[t] = name[t]
  BY <1>1, <1>2 DEF InLog
<1>8. OwnLogger'
  BY <1>2, <1>7 DEF IInv, OwnLogger
<1> QED
  BY <1>2, <1>5, <1>6, <1>7, <1>8, LogFrame DEF IInv

(***************************************************************************)
(* get_logger finds no logger of the name and inserts one.                 *)
(***************************************************************************)
LEMMA FindKeepsIInv ==
    ASSUME IInv, NEW t \in Threads, Find(t)
    PROVE  IInv'
<1>1. name[t] \notin DOMAIN buffer
  <2> SUFFICES ASSUME name[t] \in DOMAIN buffer PROVE FALSE
    OBVIOUS
  <2>1. PICK u \in Threads : (pc[u] = "got" \/ InLog(u)) /\ name[u] = name[t]
    BY DEF IInv, OwnLogger
  <2>2. pc[t] = "get"
    BY DEF Find, Step
  <2>3. u = t
    BY <2>1, <2>2, OwnName DEF IInv, InLog
  <2> QED
    BY <2>1, <2>2, <2>3 DEF InLog
<1>2. /\ pc' \in [Threads -> {"new", "get", "emplace", "got", "idle", "flush", "text"}]
      /\ pc[t] = "get" /\ pc'[t] = "emplace"
      /\ \A u \in Threads \ {t} : pc'[u] = pc[u]
  BY <1>1, StepMoves DEF Find, IInv
<1>3. /\ mapMutex' = t
      /\ UNCHANGED <<name, nextId, buffer, count, terminated, outMutex, out, printed>>
  BY DEF Find, terminal
<1>4. TypeOK'
  BY <1>2, <1>3 DEF IInv, TypeOK
<1>5. \A u \in Threads : /\ InLog(u)' <=> InLog(u)
                         /\ pc'[u] = "text" <=> pc[u] = "text"
                         /\ pc'[u] = "idle" <=> pc[u] = "idle"
                         /\ pc'[u] = "got" <=> pc[u] = "got"
                         /\ pc'[u] = "new" <=> pc[u] = "new"
  BY <1>2 DEF InLog
<1>6. OwnLogger'
  BY <1>3, <1>5 DEF IInv, OwnLogger
<1> QED
  BY <1>3, <1>4, <1>5, <1>6, LogFrame, NamesFrame DEF IInv

LEMMA EmplaceKeepsIInv ==
    ASSUME IInv, NEW t \in Threads, Emplace(t)
    PROVE  IInv'
<1>1. /\ pc' \in [Threads -> {"new", "get", "emplace", "got", "idle", "flush", "text"}]
      /\ pc[t] = "emplace" /\ pc'[t] = "got"
      /\ \A u \in Threads \ {t} : pc'[u] = pc[u]
  BY StepMoves DEF Emplace, IInv
<1>2. name[t] \notin DOMAIN buffer
  <2> SUFFICES ASSUME name[t] \in DOMAIN buffer PROVE FALSE
    OBVIOUS
  <2>1. PICK u \in Threads : (pc[u] = "got" \/ InLog(u)) /\ name[u] = name[t]
    BY DEF IInv, OwnLogger
  <2>2. u = t
    BY <1>1, <2>1, OwnName DEF IInv, InLog
  <2> QED
    BY <1>1, <2>1, <2>2 DEF InLog
<1>3. /\ DOMAIN buffer' = DOMAIN buffer \cup {name[t]}
      /\ buffer' \in [DOMAIN buffer' -> Seq(Threads \X Nat)]
      /\ buffer'[name[t]] = << >>
      /\ \A n \in DOMAIN buffer : buffer'[n] = buffer[n]
      /\ terminated' = FALSE
      /\ UNCHANGED <<name, nextId, count, mapMutex, outMutex, out, printed>>
  <2>1. /\ buffer' = [n \in DOMAIN buffer \cup {name[t]} |->
                         IF n \in DOMAIN buffer THEN buffer[n] ELSE << >>]
        /\ terminated' = (name[t] \in DOMAIN buffer)
        /\ UNCHANGED <<name, nextId, count, mapMutex, outMutex, out, printed>>
    BY DEF Emplace, terminal
  <2>2. << >> \in Seq(Threads \X Nat)
    OBVIOUS
  <2>3. \A n \in DOMAIN buffer : buffer[n] \in Seq(Threads \X Nat)
    BY DEF IInv, TypeOK
  <2>4. buffer' \in [DOMAIN buffer' -> Seq(Threads \X Nat)]
    BY <2>1, <2>2, <2>3
  <2>5. terminated' = FALSE
    <3>1. (name[t] \in DOMAIN buffer) = FALSE
      BY <1>2
    <3>2. terminated' = (name[t] \in DOMAIN buffer)
      BY <2>1
    <3> QED
      BY <3>1, <3>2
  <2> QED
    BY <1>2, <2>1, <2>4, <2>5
<1>4. TypeOK'
  <2>1. terminated' \in BOOLEAN
    BY <1>3
  <2> QED
    BY <1>1, <1>3, <2>1 DEF IInv, TypeOK
<1>5. \A u \in Threads : /\ InLog(u)' <=> InLog(u)
                         /\ pc'[u] = "text" <=> pc[u] = "text"
                         /\ pc'[u] = "idle" <=> pc[u] = "idle"
                         /\ pc'[u] = "got" <=> pc[u] = "got" \/ u = t
                         /\ pc'[u] = "new" <=> pc[u] = "new"
  BY <1>1 DEF InLog
<1>6. \A u \in Threads : InLog(u) \/ pc[u] = "got" => name[u] \in DOMAIN buffer
  BY DEF IInv, OwnLogger
<1>7. OwnLogger'
  <2>1. DOMAIN buffer' = {name[u] : u \in {v \in Threads : pc'[v] = "got" \/ InLog(v)'}}
    <3>1. DOMAIN buffer = {name[u] : u \in {v \in Threads : pc[v] = "got" \/ InLog(v)}}
      BY DEF IInv, OwnLogger
    <3> QED
      BY <1>3, <1>5, <3>1
  <2>2. \A u \in Threads : pc'[u] = "got" => buffer'[name[u]] = << >>
    BY <1>3, <1>5, <1>6 DEF IInv, OwnLogger
  <2>3. \A u \in Threads : ~InLog(u)' => count[u] = 0 /\ printed[u] = 0
    BY <1>5 DEF IInv, OwnLogger
  <2> QED
    BY <1>3, <2>1, <2>2, <2>3 DEF OwnLogger
<1>8. NamesApart'
  BY <1>3, <1>5, NamesFrame DEF IInv
<1> QED
  BY <1>3, <1>4, <1>5, <1>6, <1>7, <1>8, LogFrame DEF IInv

(***************************************************************************)
(* A new logger has logged nothing.                                        *)
(***************************************************************************)
LEMMA GotKeepsIInv ==
    ASSUME IInv, NEW t \in Threads, Got(t)
    PROVE  IInv'
<1>1. /\ pc' \in [Threads -> {"new", "get", "emplace", "got", "idle", "flush", "text"}]
      /\ pc[t] = "got" /\ pc'[t] = "idle"
      /\ \A u \in Threads \ {t} : pc'[u] = pc[u]
  BY StepMoves DEF Got, IInv
<1>2. /\ mapMutex' = Nobody
      /\ UNCHANGED <<name, nextId, buffer, count, terminated, outMutex, out, printed>>
  BY DEF Got, terminal
<1>3. TypeOK'
  BY <1>1, <1>2 DEF IInv, TypeOK
<1>4. \A u \in Threads : /\ InLog(u)' <=> InLog(u) \/ u = t
                         /\ pc'[u] = "text" <=> pc[u] = "text"
                         /\ pc'[u] = "idle" <=> pc[u] = "idle" \/ u = t
                         /\ pc'[u] = "got" \/ InLog(u)' <=> pc[u] = "got" \/ InLog(u)
                         /\ pc'[u] = "got" => pc[u] = "got"
                         /\ pc'[u] = "new" <=> pc[u] = "new"
  BY <1>1 DEF InLog
<1>5. ~InLog(t) /\ buffer[name[t]] = << >> /\ count[t] = 0 /\ printed[t] = 0
  BY <1>1 DEF IInv, OwnLogger, InLog
<1>6. OwnLogger'
  BY <1>2, <1>4 DEF IInv, OwnLogger
<1>7. NamesApart'
  BY <1>2, <1>4, NamesFrame DEF IInv
<1>8. Buffered'
  <2>1. BufferSize > 0 /\ Len(<< >>) = 0
    BY LoggingAssumption
  <2> SUFFICES ASSUME NEW u \in Threads, InLog(u)'
               PROVE  LastOf(u)'
    BY DEF Buffered
  <2>2. CASE u = t
    BY <1>1, <1>2, <1>5, <2>1, <2>2 DEF LastOf
  <2>3. CASE u # t
    <3>1. InLog(u) /\ pc'[u] = pc[u]
      BY <1>1, <1>4, <2>3
    <3> QED
      BY <1>2, <3>1 DEF IInv, Buffered, LastOf
  <2> QED
    BY <2>2, <2>3
<1>9. TextsInOrder'
  <2>1. \A u \in Threads : Done(u)' = Done(u)
    BY <1>2, <1>4, <1>5 DEF Done
  <2> QED
    BY <1>2, <2>1 DEF IInv, TextsInOrder, PrintedUpTo, TextsOf
<1>10. TerminalHeld' /\ LinesWhole'
  BY <1>2, <1>4 DEF IInv, TerminalHeld, LinesWhole
<1> QED
  BY <1>3, <1>6, <1>7, <1>8, <1>9, <1>10 DEF IInv

-----------------------------------------------------------------------------
(***************************************************************************)
(* A step of a thread inside log leaves the others' loggers alone.         *)
(***************************************************************************)
LEMMA InLogFrame ==
    ASSUME IInv, NEW t \in Threads, InLog(t), InLog(t)', NEW held,
           \A u \in Threads \ {t} :
               pc'[u] = pc[u] /\ count'[u] = count[u] /\ printed'[u] = printed[u],
           UNCHANGED <<name, nextId, terminated>>,
           buffer' = [buffer EXCEPT ![name[t]] = held]
    PROVE  /\ NamesApart' /\ OwnLogger'
           /\ name[t] \in DOMAIN buffer /\ buffer'[name[t]] = held
           /\ \A u \in Threads \ {t} : /\ InLog(u) => LastOf(u)'
                                       /\ InLog(u)' <=> InLog(u)
                                       /\ Done(u)' = Done(u)
<1>1. /\ \A u \in Threads : pc'[u] = "new" <=> pc[u] = "new"
      /\ \A u \in Threads : InLog(u)' <=> InLog(u)
      /\ \A u \in Threads : pc'[u] = "got" <=> pc[u] = "got"
      /\ \A u \in Threads : pc[u] = "got" => u # t
  BY DEF InLog
<1>2. NamesApart'
  BY <1>1, NamesFrame DEF IInv
<1>3. name[t] \in DOMAIN buffer /\ DOMAIN buffer' = DOMAIN buffer
  BY DEF IInv, OwnLogger
<1>4. ASSUME NEW u \in Threads \ {t}, pc[u] = "got" \/ InLog(u)
      PROVE  buffer'[name[u]] = buffer[name[u]]
  <2>1. name[u] # name[t]
    BY <1>4, OwnName DEF IInv, InLog
  <2>2. name[u] \in DOMAIN buffer
    BY <1>4 DEF IInv, OwnLogger
  <2> QED
    BY <2>1, <2>2
<1>5. OwnLogger'
  <2>1. \A u \in Threads : pc'[u] = "got" => buffer'[name'[u]] = << >>
    BY <1>1, <1>4 DEF IInv, OwnLogger
  <2>2. \A u \in Threads : ~InLog(u)' => count'[u] = 0 /\ printed'[u] = 0
    BY <1>1 DEF IInv, OwnLogger
  <2>3. {name'[u] : u \in {v \in Threads : pc'[v] = "got" \/ InLog(v)'}}
           = {name[u] : u \in {v \in Threads : pc[v] = "got" \/ InLog(v)}}
    BY <1>1
  <2> QED
    BY <1>3, <2>1, <2>2, <2>3 DEF IInv, OwnLogger
<1>6. ASSUME NEW u \in Threads \ {t}, InLog(u)
      PROVE  LastOf(u)'
  <2>1. LastOf(u)
    BY <1>6 DEF IInv, Buffered
  <2> QED
    BY <1>4, <1>6, <2>1 DEF LastOf
<1>7. ASSUME NEW u \in Threads \ {t} PROVE Done(u)' = Done(u)
  BY <1>1, <1>4 DEF Done
<1> QED
  BY <1>1, <1>2, <1>3, <1>5, <1>6, <1>7

(***************************************************************************)
(* What a thread inside log holds.                                         *)
(***************************************************************************)
LEMMA HeldType ==
    ASSUME IInv, NEW t \in Threads, InLog(t)
    PROVE  /\ name[t] \in DOMAIN buffer
           /\ buffer[name[t]] \in Seq(Threads \X Nat)
           /\ Len(buffer[name[t]]) \in Nat
           /\ count[t] \in Nat /\ printed[t] \in Nat
           /\ LastOf(t)
  BY DEF IInv, TypeOK, OwnLogger, Buffered

LEMMA BufferTyped ==
    ASSUME IInv, NEW n \in DOMAIN buffer, NEW held \in Seq(Threads \X Nat),
           buffer' = [buffer EXCEPT ![n] = held]
    PROVE  buffer' \in [DOMAIN buffer' -> Seq(Threads \X Nat)]
  BY DEF IInv, TypeOK

(***************************************************************************)
(* log buffers the next message of its thread.                             *)
(***************************************************************************)
LEMMA LogKeepsIInv ==
    ASSUME IInv, NEW t \in Threads, Log(t)
    PROVE  IInv'
<1> DEFINE held == buffer[name[t]]
           more == Append(held, <<t, count[t] + 1>>)
<1>1. /\ pc[t] = "idle" /\ InLog(t)
      /\ count' = [count EXCEPT ![t] = @ + 1]
      /\ UNCHANGED <<name, nextId, mapMutex, terminated, outMutex, out, printed>>
  BY DEF Log, LogFrom, manager, terminal, InLog
<1>2. /\ name[t] \in DOMAIN buffer /\ held \in Seq(Threads \X Nat)
      /\ Len(held) \in Nat /\ count[t] \in Nat /\ LastOf(t)
  BY <1>1, HeldType
<1>3. count'[t] = count[t] + 1 /\ count' \in [Threads -> Nat]
      /\ \A u \in Threads \ {t} : count'[u] = count[u]
  BY SMTT(30), <1>1, <1>2 DEF IInv, TypeOK
<1>4. buffer' = [buffer EXCEPT ![name[t]] = more] /\ buffer'[name[t]] = more
  BY <1>2, <1>3 DEF Log, LogFrom
<1>5. /\ more \in Seq(Threads \X Nat) /\ Len(more) = Len(held) + 1
      /\ \A i \in 1 .. Len(held) : more[i] = held[i]
      /\ more[Len(held) + 1] = <<t, count[t] + 1>>
  <2>1. <<t, count[t] + 1>> \in Threads \X Nat
    BY <1>2
  <2> QED
    BY <1>2, <2>1, AppendProperties
<1>6. /\ pc' \in [Threads -> {"new", "get", "emplace", "got", "idle", "flush", "text"}]
      /\ pc'[t] = (IF Len(more) >= BufferSize THEN "flush" ELSE "idle")
      /\ \A u \in Threads \ {t} : pc'[u] = pc[u]
  <2>1. Step(t, "idle", IF Len(more) >= BufferSize THEN "flush" ELSE "idle")
    BY <1>4 DEF Log, LogFrom
  <2> QED
    BY <2>1, StepMoves DEF IInv
<1>7. InLog(t)' /\ pc'[t] # "text"
  BY <1>6 DEF InLog
<1> HIDE DEF held, more
<1>8. /\ NamesApart' /\ OwnLogger'
      /\ \A u \in Threads \ {t} : /\ InLog(u) => LastOf(u)'
                                  /\ InLog(u)' <=> InLog(u)
                                  /\ Done(u)' = Done(u)
  <2>1. \A u \in Threads \ {t} :
           pc'[u] = pc[u] /\ count'[u] = count[u] /\ printed'[u] = printed[u]
    BY <1>1, <1>3, <1>6
  <2> QED
    BY <1>1, <1>4, <1>7, <2>1, InLogFrame
<1>9. TypeOK'
  <2>1. buffer' \in [DOMAIN buffer' -> Seq(Threads \X Nat)]
    BY <1>2, <1>4, <1>5, BufferTyped
  <2> QED
    BY <1>1, <1>3, <1>6, <2>1 DEF IInv, TypeOK
<1>10. /\ Len(held) <= count[t] /\ printed[t] = 0 /\ Len(held) < BufferSize
       /\ \A i \in 1 .. Len(held) : held[i] = <<t, count[t] - Len(held) + i>>
  BY <1>1, <1>2 DEF LastOf, held
<1>11. LastOf(t)'
  <2>1. DOMAIN more = 1 .. (Len(held) + 1) /\ BufferSize \in Nat
    BY <1>5, LoggingAssumption
  <2>2. \A i \in DOMAIN more : more[i] = <<t, (count[t] + 1) - Len(more) + i>>
    <3>1. \A i \in 1 .. Len(held) :
             more[i] = <<t, (count[t] + 1) - (Len(held) + 1) + i>>
      <4> SUFFICES ASSUME NEW i \in 1 .. Len(held)
                   PROVE  more[i] = <<t, (count[t] + 1) - (Len(held) + 1) + i>>
        OBVIOUS
      <4>1. (count[t] + 1) - (Len(held) + 1) + i = count[t] - Len(held) + i
        BY <1>2
      <4> QED
        BY <1>5, <1>10, <4>1
    <3>2. (count[t] + 1) - (Len(held) + 1) + (Len(held) + 1) = count[t] + 1
      BY <1>2
    <3>3. \A i \in 1 .. (Len(held) + 1) : i \in 1 .. Len(held) \/ i = Len(held) + 1
      BY <1>2
    <3> QED
      BY <1>5, <2>1, <3>1, <3>2, <3>3
  <2>3. buffer'[name'[t]] = more /\ count'[t] = count[t] + 1 /\ printed'[t] = 0
    BY <1>1, <1>3, <1>4, <1>10
  <2>4. pc'[t] = "idle" => Len(more) < BufferSize
    BY <1>2, <1>5, <1>6, <2>1
  <2>5. Len(more) <= count[t] + 1 /\ 0 <= Len(more)
    BY <1>2, <1>5, <1>10
  <2> QED
    BY <1>7, <2>2, <2>3, <2>4, <2>5 DEF LastOf
<1>12. Buffered'
  BY <1>8, <1>11 DEF Buffered
<1>13. \A u \in Threads : Done(u)' = Done(u)
  <2>1. Done(t)' = Done(t)
    BY SMTT(30), <1>1, <1>2, <1>3, <1>4, <1>5, <1>7, <1>10 DEF Done, held
  <2> QED
    BY <1>8, <2>1
<1>14. TextsInOrder'
  BY <1>1, <1>13 DEF IInv, TextsInOrder, PrintedUpTo, TextsOf
<1>15. TerminalHeld' /\ LinesWhole'
  <2>1. \A u \in Threads : pc'[u] = "text" <=> pc[u] = "text"
    BY <1>1, <1>6, <1>7
  <2> QED
    BY <1>1, <2>1 DEF IInv, TerminalHeld, LinesWhole
<1> QED
  BY <1>8, <1>9, <1>12, <1>14, <1>15 DEF IInv

(***************************************************************************)
(* The name of a line: the terminal was free, so the last part of it is a  *)
(* text.                                                                   *)
(***************************************************************************)
LEMMA PrintNameKeepsIInv ==
    ASSUME IInv, NEW t \in Threads, PrintName(t)
    PROVE  IInv'
<1>1. /\ pc' \in [Threads -> {"new", "get", "emplace", "got", "idle", "flush", "text"}]
      /\ pc[t] = "flush" /\ pc'[t] = "text"
      /\ \A u \in Threads \ {t} : pc'[u] = pc[u]
  BY StepMoves DEF PrintName, WriteName, IInv
<1>2. /\ outMutex = Nobody /\ outMutex' = t
      /\ out' = Append(out, <<t, 0>>)
      /\ printed[t] < Len(buffer[name[t]])
      /\ UNCHANGED <<name, nextId, buffer, count, mapMutex, terminated, printed>>
  BY DEF PrintName, WriteName, manager
<1>3. /\ out \in Seq(Threads \X Nat) /\ out' \in Seq(Threads \X Nat)
      /\ Len(out) \in Nat /\ Len(out') = Len(out) + 1
      /\ \A i \in 1 .. Len(out) : out'[i] = out[i]
      /\ out'[Len(out) + 1] = <<t, 0>>
  <2>1. out \in Seq(Threads \X Nat) /\ <<t, 0>> \in Threads \X Nat
    BY DEF IInv, TypeOK
  <2> QED
    BY <1>2, <2>1, AppendProperties, LenProperties
<1>4. InLog(t) /\ InLog(t)'
  BY <1>1 DEF InLog
<1>5. /\ name[t] \in DOMAIN buffer /\ buffer[name[t]] \in Seq(Threads \X Nat)
      /\ LastOf(t)
  BY <1>4, HeldType
<1>6. buffer' = [buffer EXCEPT ![name[t]] = buffer[name[t]]]
  BY <1>2 DEF IInv, TypeOK
<1>7. /\ NamesApart' /\ OwnLogger'
      /\ \A u \in Threads \ {t} : /\ InLog(u) => LastOf(u)'
                                  /\ InLog(u)' <=> InLog(u)
                                  /\ Done(u)' = Done(u)
  BY <1>1, <1>2, <1>4, <1>6, InLogFrame
<1>8. TypeOK'
  BY <1>1, <1>2, <1>3 DEF IInv, TypeOK
<1>9. Buffered'
  <2>1. LastOf(t)'
    BY <1>1, <1>2, <1>5 DEF LastOf
  <2> QED
    BY <1>7, <2>1 DEF Buffered
<1>10. LinesWhole'
  <2> SUFFICES ASSUME NEW i \in 1 .. (Len(out') - 1)
               PROVE  out'[i][2] = 0 <=> out'[i + 1][2] # 0 /\ out'[i + 1][1] = out'[i][1]
    BY DEF LinesWhole
  <2>1. CASE i < Len(out)
    <3>1. i \in 1 .. (Len(out) - 1) /\ out'[i] = out[i] /\ out'[i + 1] = out[i + 1]
      <4>1. i \in 1 .. (Len(out) - 1) /\ i \in 1 .. Len(out) /\ i + 1 \in 1 .. Len(out)
        <5>1. i \in Nat /\ i >= 1 /\ Len(out) \in Nat
          BY <1>3
        <5> QED
          BY <5>1, <2>1
      <4> QED
        BY <1>3, <4>1
    <3> QED
      BY <3>1 DEF IInv, LinesWhole
  <2>2. CASE i = Len(out)
    <3>1. out # << >>
      BY <1>3, <2>2
    <3>2. out'[i][2] # 0
      BY <1>2, <1>3, <2>2, <3>1 DEF IInv, TerminalHeld
    <3> QED
      BY <1>3, <2>2, <3>2
  <2> QED
    BY <1>3, <2>1, <2>2
<1>11. TerminalHeld'
  <2>1. \A u \in Threads : pc'[u] = "text" <=> outMutex' = u
    BY <1>1, <1>2, LoggingAssumption DEF IInv, TerminalHeld
  <2>2. out' # << >> /\ out'[Len(out')] = <<outMutex', 0>> /\ outMutex' # Nobody
    BY <1>2, <1>3, LoggingAssumption
  <2> QED
    BY <2>1, <2>2 DEF TerminalHeld
<1>12. TextsInOrder'
  <2> SUFFICES ASSUME NEW u \in Threads PROVE PrintedUpTo(u, Done(u))'
    BY DEF TextsInOrder
  <2>1. Done(u)' = Done(u)
    BY <1>2, <1>4, <1>7 DEF Done
  <2>2. TextsOf(u)' = TextsOf(u) /\ \A i \in TextsOf(u) : out'[i] = out[i]
    <3>1. DOMAIN out = 1 .. Len(out) /\ DOMAIN out' = 1 .. (Len(out) + 1)
      BY <1>3
    <3>2. \A i \in 1 .. (Len(out) + 1) : i \in 1 .. Len(out) \/ i = Len(out) + 1
      BY <1>3
    <3>3. 1 .. Len(out) \subseteq 1 .. (Len(out) + 1)
      BY <1>3
    <3> QED
      BY <1>3, <3>1, <3>2, <3>3 DEF TextsOf
  <2> QED
    BY <2>1, <2>2 DEF IInv, TextsInOrder, PrintedUpTo
<1> QED
  BY <1>7, <1>8, <1>9, <1>10, <1>11, <1>12 DEF IInv

(***************************************************************************)
(* Its text: the next message of the thread that holds the terminal.       *)
(***************************************************************************)
LEMMA PrintTextKeepsIInv ==
    ASSUME IInv, NEW t \in Threads, PrintText(t)
    PROVE  IInv'
<1> DEFINE held == buffer[name[t]]
<1>1. /\ pc' \in [Threads -> {"new", "get", "emplace", "got", "idle", "flush", "text"}]
      /\ pc[t] = "text" /\ pc'[t] = "flush"
      /\ \A u \in Threads \ {t} : pc'[u] = pc[u]
  BY StepMoves DEF PrintText, IInv
<1>2. /\ outMutex = t /\ outMutex' = Nobody
      /\ out # << >> /\ out[Len(out)] = <<t, 0>>
  BY <1>1, LoggingAssumption DEF PrintText, IInv, TerminalHeld
<1>3. InLog(t) /\ InLog(t)'
  BY <1>1 DEF InLog
<1>4. /\ name[t] \in DOMAIN buffer /\ held \in Seq(Threads \X Nat)
      /\ Len(held) \in Nat /\ count[t] \in Nat /\ printed[t] \in Nat
      /\ printed[t] < Len(held) /\ Len(held) <= count[t] /\ Done(t) \in Nat
      /\ held[printed[t] + 1] = <<t, Done(t) + 1>>
  <2>1. /\ name[t] \in DOMAIN buffer /\ held \in Seq(Threads \X Nat)
        /\ Len(held) \in Nat /\ count[t] \in Nat /\ printed[t] \in Nat /\ LastOf(t)
    BY <1>3, HeldType
  <2>2. /\ printed[t] < Len(held) /\ Len(held) <= count[t]
        /\ \A i \in DOMAIN held : held[i] = <<t, count[t] - Len(held) + i>>
    BY <1>1, <2>1 DEF LastOf
  <2>3. Done(t) = count[t] - Len(held) + printed[t]
    BY <1>3 DEF Done
  <2>4. printed[t] + 1 \in DOMAIN held
    BY <2>1, <2>2
  <2>5. \A l, c, p \in Nat : p < l /\ l <= c =>
           c - l + p \in Nat /\ c - l + (p + 1) = (c - l + p) + 1
    OBVIOUS
  <2>6. /\ count[t] - Len(held) + printed[t] \in Nat
        /\ count[t] - Len(held) + (printed[t] + 1) = (count[t] - Len(held) + printed[t]) + 1
    <3>1. count[t] \in Nat /\ Len(held) \in Nat /\ printed[t] \in Nat
      BY <2>1
    <3>2. printed[t] < Len(held) /\ Len(held) <= count[t]
      BY <2>2
    <3> QED BY <3>1, <3>2, <2>5
  <2> QED
    BY <2>1, <2>2, <2>3, <2>4, <2>6
<1> HIDE DEF held
<1>5. /\ out' = Append(out, <<t, Done(t) + 1>>)
      /\ printed' = [printed EXCEPT ![t] = @ + 1]
      /\ UNCHANGED <<name, nextId, buffer, count, mapMutex, terminated>>
  BY <1>4 DEF PrintText, manager, held
<1>6. /\ printed' \in [Threads -> Nat] /\ printed'[t] = printed[t] + 1
      /\ \A u \in Threads \ {t} : printed'[u] = printed[u]
  <2>1. printed \in [Threads -> Nat] /\ printed[t] + 1 \in Nat
    BY DEF IInv, TypeOK
  <2> QED
    BY <1>5, <2>1
<1>7. /\ out \in Seq(Threads \X Nat) /\ out' \in Seq(Threads \X Nat)
      /\ Len(out) \in Nat /\ Len(out') = Len(out) + 1
      /\ \A i \in 1 .. Len(out) : out'[i] = out[i]
      /\ out'[Len(out) + 1] = <<t, Done(t) + 1>>
  <2>1. out \in Seq(Threads \X Nat)
    BY DEF IInv, TypeOK
  <2>2. Done(t) \in Nat
    BY <1>4
  <2>3. <<t, Done(t) + 1>> \in Threads \X Nat
    BY <2>2
  <2> QED
    BY <1>5, <2>1, <2>3, AppendProperties, LenProperties
<1>8. buffer' = [buffer EXCEPT ![name[t]] = held]
  BY <1>5 DEF IInv, TypeOK, held
<1>9. /\ NamesApart' /\ OwnLogger'
      /\ \A u \in Threads \ {t} : /\ InLog(u) => LastOf(u)'
                                  /\ InLog(u)' <=> InLog(u)
                                  /\ Done(u)' = Done(u)
  BY <1>1, <1>3, <1>5, <1>6, <1>8, InLogFrame
<1>10. TypeOK'
  BY <1>1, <1>2, <1>5, <1>6, <1>7 DEF IInv, TypeOK
<1>11. Buffered'
  <2>1. LastOf(t)
    BY <1>3, HeldType
  <2>2. buffer'[name'[t]] = held /\ printed'[t] <= Len(held)
    BY <1>4, <1>5, <1>6 DEF held
  <2>3. LastOf(t)'
    BY <1>1, <1>5, <2>1, <2>2 DEF LastOf, held
  <2> QED
    BY <1>9, <2>3 DEF Buffered
<1>12. LinesWhole'
  <2> SUFFICES ASSUME NEW i \in 1 .. (Len(out') - 1)
               PROVE  out'[i][2] = 0 <=> out'[i + 1][2] # 0 /\ out'[i + 1][1] = out'[i][1]
    BY DEF LinesWhole
  <2>1. CASE i < Len(out)
    <3>1. i \in 1 .. (Len(out) - 1) /\ i \in 1 .. Len(out) /\ i + 1 \in 1 .. Len(out)
      BY <1>7, <2>1
    <3>2. out'[i] = out[i] /\ out'[i + 1] = out[i + 1]
      BY <1>7, <3>1
    <3> QED
      BY <3>1, <3>2 DEF IInv, LinesWhole
  <2>2. CASE i = Len(out)
    <3>1. out'[i] = <<t, 0>> /\ out'[i + 1] = <<t, Done(t) + 1>>
      BY <1>2, <1>7, <2>2
    <3> QED
      BY <1>4, <3>1
  <2> QED
    BY <1>7, <2>1, <2>2
<1>13. TerminalHeld'
  <2>1. \A u \in Threads : pc'[u] # "text"
    BY <1>1, <1>2 DEF IInv, TerminalHeld
  <2>2. out' # << >> /\ out'[Len(out')][2] # 0
    BY <1>4, <1>7
  <2> QED
    BY <1>2, <2>1, <2>2, LoggingAssumption DEF TerminalHeld
<1>14. TextsInOrder'
  <2>1. DOMAIN out = 1 .. Len(out) /\ DOMAIN out' = 1 .. (Len(out) + 1)
    BY <1>7
  <2>2. /\ \A i \in 1 .. (Len(out) + 1) : i \in 1 .. Len(out) \/ i = Len(out) + 1
        /\ \A i \in 1 .. Len(out) : i \in 1 .. (Len(out) + 1) /\ i < Len(out) + 1
        /\ Len(out) + 1 \in 1 .. (Len(out) + 1)
    BY <1>7
  <2>3. ASSUME NEW u \in Threads \ {t} PROVE PrintedUpTo(u, Done(u))'
    <3>1. TextsOf(u)' = TextsOf(u) /\ \A i \in TextsOf(u) : out'[i] = out[i]
      BY <1>7, <2>1, <2>2 DEF TextsOf
    <3> QED
      BY <1>9, <3>1 DEF IInv, TextsInOrder, PrintedUpTo
  <2>4. PrintedUpTo(t, Done(t))'
    <3> DEFINE last == Len(out) + 1
               n == Done(t)
    <3>1. /\ TextsOf(t)' = TextsOf(t) \cup {last}
          /\ \A i \in TextsOf(t) : out'[i] = out[i] /\ i \in 1 .. Len(out)
          /\ out'[last] = <<t, n + 1>>
      BY SMTT(30), <1>4, <1>7, <2>1, <2>2 DEF TextsOf
    <3>2. n \in Nat /\ last \in Nat /\ Done(t)' = n + 1
          /\ \A i \in 1 .. Len(out) : i \in Nat /\ i < last
      <4>1. n = count[t] - Len(held) + printed[t]
        BY <1>3 DEF Done, held
      <4>2. Done(t)' = count[t] - Len(held) + (printed[t] + 1)
        BY <1>3, <1>5, <1>6 DEF Done, held
      <4>3. count[t] \in Nat /\ Len(held) \in Nat /\ printed[t] \in Nat
        BY <1>4
      <4>4. Done(t)' = n + 1
        BY <4>1, <4>2, <4>3
      <4>5. n \in Nat
        BY <1>4
      <4> QED
        BY <1>7, <4>4, <4>5
    <3>3. /\ {out[i][2] : i \in TextsOf(t)} = 1 .. n
          /\ \A i, j \in TextsOf(t) : i < j => out[i][2] < out[j][2]
      BY DEF IInv, TextsInOrder, PrintedUpTo
    <3> HIDE DEF last, n
    <3>4. {out'[i][2] : i \in TextsOf(t)'} = 1 .. (n + 1)
      <4>1. {out'[i][2] : i \in TextsOf(t)'} = {out[i][2] : i \in TextsOf(t)} \cup {n + 1}
        BY <3>1
      <4> QED
        BY <3>2, <3>3, <4>1
    <3>5. ASSUME NEW i \in TextsOf(t)', NEW j \in TextsOf(t)', i < j
          PROVE  out'[i][2] < out'[j][2]
      <4>1. i \in TextsOf(t)
        BY <3>1, <3>2, <3>5
      <4>2. CASE j = last
        <5>1. out[i][2] \in 1 .. n
          BY <3>3, <4>1
        <5> QED
          BY <3>1, <3>2, <4>1, <4>2, <5>1
      <4>3. CASE j \in TextsOf(t)
        BY <3>1, <3>3, <3>5, <4>1, <4>3
      <4> QED
        BY <3>1, <4>2, <4>3
    <3> QED
      BY <3>2, <3>4, <3>5 DEF PrintedUpTo
  <2> QED
    BY <2>3, <2>4 DEF TextsInOrder
<1> QED
  BY <1>9, <1>10, <1>11, <1>12, <1>13, <1>14 DEF IInv

(***************************************************************************)
(* flush_buffer ends: every message of the buffer is on the terminal.      *)
(***************************************************************************)
LEMMA ClearKeepsIInv ==
    ASSUME IInv, NEW t \in Threads, Clear(t)
    PROVE  IInv'
<1>1. /\ pc' \in [Threads -> {"new", "get", "emplace", "got", "idle", "flush", "text"}]
      /\ pc[t] = "flush" /\ pc'[t] = "idle"
      /\ \A u \in Threads \ {t} : pc'[u] = pc[u]
  BY StepMoves DEF Clear, IInv
<1>2. InLog(t) /\ InLog(t)'
  BY <1>1 DEF InLog
<1>3. /\ name[t] \in DOMAIN buffer /\ Len(buffer[name[t]]) \in Nat
      /\ count[t] \in Nat /\ printed[t] = Len(buffer[name[t]])
  BY <1>2, HeldType DEF Clear
<1>4. /\ buffer' = [buffer EXCEPT ![name[t]] = << >>]
      /\ printed' = [printed EXCEPT ![t] = 0]
      /\ UNCHANGED <<name, nextId, count, mapMutex, terminated, outMutex, out>>
  BY DEF Clear, manager
<1>5. /\ printed' \in [Threads -> Nat] /\ printed'[t] = 0
      /\ \A u \in Threads \ {t} : printed'[u] = printed[u]
  BY <1>4 DEF IInv, TypeOK
<1>6. /\ NamesApart' /\ OwnLogger' /\ buffer'[name[t]] = << >>
      /\ \A u \in Threads \ {t} : /\ InLog(u) => LastOf(u)'
                                  /\ InLog(u)' <=> InLog(u)
                                  /\ Done(u)' = Done(u)
  BY <1>1, <1>2, <1>4, <1>5, InLogFrame
<1>7. TypeOK'
  <2>1. buffer' \in [DOMAIN buffer' -> Seq(Threads \X Nat)]
    <3>1. << >> \in Seq(Threads \X Nat)
      OBVIOUS
    <3> QED
      BY <1>3, <1>4, <3>1, BufferTyped
  <2> QED
    BY <1>1, <1>4, <1>5, <2>1 DEF IInv, TypeOK
<1>8. Buffered'
  <2>1. BufferSize > 0 /\ Len(<< >>) = 0
    BY LoggingAssumption
  <2>2. LastOf(t)'
    BY <1>1, <1>3, <1>4, <1>5, <1>6, <2>1 DEF LastOf
  <2> QED
    BY <1>6, <2>2 DEF Buffered
<1>9. TextsInOrder'
  <2>1. Done(t)' = Done(t)
    BY <1>2, <1>3, <1>4, <1>5, <1>6 DEF Done
  <2>2. \A u \in Threads : Done(u)' = Done(u)
    BY <1>6, <2>1
  <2> QED
    BY <1>4, <2>2 DEF IInv, TextsInOrder, PrintedUpTo, TextsOf
<1>10. TerminalHeld' /\ LinesWhole'
  <2>1. \A u \in Threads : pc'[u] = "text" <=> pc[u] = "text"
    BY <1>1
  <2> QED
    BY <1>4, <2>1 DEF IInv, TerminalHeld, LinesWhole
<1> QED
  BY <1>6, <1>7, <1>8, <1>9, <1>10 DEF IInv

LEMMA NextKeepsIInv ==
    ASSUME IInv, [Next]_vars
    PROVE  IInv'
<1>1. CASE UNCHANGED vars
  <2>1. UNCHANGED <<pc, name, nextId, buffer, count, mapMutex, terminated, outMutex, out, printed>>
    BY <1>1 DEF vars, manager, terminal
  <2>2. TypeOK'
    BY <2>1 DEF IInv, TypeOK
  <2>3. OwnLogger'
    BY <2>1 DEF IInv, OwnLogger, InLog
  <2>4. NamesApart'
    BY <2>1, NamesFrame DEF IInv
  <2>5. Buffered' /\ TerminalHeld' /\ LinesWhole' /\ TextsInOrder'
    BY <2>1, LogFrame DEF IInv, InLog
  <2> QED
    BY <2>2, <2>3, <2>4, <2>5 DEF IInv
<1>2. ASSUME NEW u \in Users, TakeId(u) PROVE IInv'
  BY <1>2, TakeIdKeepsIInv
<1>3. ASSUME NEW t \in Threads, GetLogger(t) PROVE IInv'
  BY <1>3, FindKeepsIInv, EmplaceKeepsIInv, GotKeepsIInv DEF GetLogger
<1>4. ASSUME NEW t \in Threads, Log(t) PROVE IInv'
  BY <1>4, LogKeepsIInv
<1>5. ASSUME NEW t \in Threads, Flush(t) PROVE IInv'
  BY <1>5, PrintNameKeepsIInv, PrintTextKeepsIInv, ClearKeepsIInv DEF Flush
<1> QED
  BY <1>1, <1>2, <1>3, <1>4, <1>5 DEF Next
-----------------------------------------------------------------------------
(***************************************************************************)
(* The inductive invariant of the loggers.                                 *)
(***************************************************************************)
THEOREM LoggingInvariance == Spec => []IInv
<1>1. Init => IInv
  BY InitIInv
<1>2. IInv /\ [Next]_vars => IInv'
  BY NextKeepsIInv
<1> QED
  BY <1>1, <1>2, PTL DEF Spec

(***************************************************************************)
(* push_back and the loop over msg_buffer_ need no lock: a logger belongs  *)
(* to one thread, for the ids of the users do not repeat.                  *)
(***************************************************************************)
THEOREM LoggersAreOwned == Spec => []BufferOwned
<1>1. IInv => BufferOwned
  BY OwnName DEF IInv, BufferOwned
<1> QED
  BY <1>1, LoggingInvariance, PTL

(***************************************************************************)
(* A line on the terminal is a name and a text of one thread.              *)
(***************************************************************************)
THEOREM LinesAreWhole == Spec => []LinesWhole
<1>1. IInv => LinesWhole
  BY DEF IInv
<1> QED
  BY <1>1, LoggingInvariance, PTL

(***************************************************************************)
(* With k_buffer_size 1, as in the code, log returns with all messages of  *)
(* its thread printed, once each and in order.                             *)
(***************************************************************************)
THEOREM LogFlushesAtOnce ==
    ASSUME BufferSize = 1
    PROVE  Spec => []InstaFlush
<1>1. IInv => InstaFlush
  <2> SUFFICES ASSUME IInv, NEW t \in Threads, pc[t] = "idle"
               PROVE  PrintedUpTo(t, count[t])
    BY DEF InstaFlush
  <2>1. InLog(t)
    BY DEF InLog
  <2>2. /\ Len(buffer[name[t]]) \in Nat /\ count[t] \in Nat
        /\ printed[t] = 0 /\ Len(buffer[name[t]]) < 1
    BY <2>1, HeldType DEF LastOf
  <2>3. Done(t) = count[t]
    BY <2>1, <2>2 DEF Done
  <2> QED
    BY <2>3 DEF IInv, TextsInOrder
<1> QED
  BY <1>1, LoggingInvariance, PTL

(***************************************************************************)
(* With any k_buffer_size: the messages of a thread are on the terminal,   *)
(* once each and in the order of the calls of log, up to some point, and   *)
(* what is past it is in the buffer of its logger, in that order.          *)
(***************************************************************************)
THEOREM NoLineLostOrOvertaken == Spec => [](TextsInOrder /\ Buffered)
<1>1. IInv => TextsInOrder /\ Buffered
  BY DEF IInv
<1> QED
  BY <1>1, LoggingInvariance, PTL
=============================================================================
