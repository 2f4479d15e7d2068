-------------------------- MODULE GatewayLifetime --------------------------
(***************************************************************************)
(* OrderGatewayExperiment (src/src/lib/order_gateway.hpp): the constructor *)
(* starts the threads of OrderGateway one after the other while those      *)
(* already started work; the destructor, or a constructor that throws,     *)
(* destroys the members in reverse order, and a std::jthread joins.        *)
(***************************************************************************)
EXTENDS OrderGateway

CONSTANT StartOrder   \* the threads in the order the constructor starts them

\* The place of a thread's member in the class; the context comes first.
Rank(t) == IF t \in Users THEN 1 ELSE IF t = Ingress THEN 2
           ELSE IF t \in Symbols THEN 3 ELSE 4

ASSUME StartAssumption ==
    /\ StartOrder \in Seq(Threads)
    /\ Threads = {StartOrder[i] : i \in DOMAIN StartOrder}
    /\ \A i, j \in DOMAIN StartOrder :
          i < j => StartOrder[i] # StartOrder[j] /\ Rank(StartOrder[i]) <= Rank(StartOrder[j])

VARIABLES phase,     \* of the object: "starting", "running", "destroying", "gone"
          started,   \* how many threads were started
          joined     \* the threads joined

lifetime == <<phase, started, joined>>
allVars  == <<vars, lifetime>>

Started == {StartOrder[i] : i \in 1 .. started}

LifetimeInit == Init /\ phase = "starting" /\ started = 0 /\ joined = {}

Starting == phase = "starting" /\ ~terminated

\* The constructor is done when it has started the last thread.
StartOneOf(last) ==
    /\ Starting
    /\ started' = started + 1
    /\ phase' = IF started' = last THEN "running" ELSE phase
    /\ UNCHANGED <<vars, joined>>

StartThreadNotLast == StartOneOf(Len(StartOrder) - 1)   \* Mutant
StartThread        == StartOneOf(Len(StartOrder))

\* A reserve or the start of a thread throws.
StartThrows ==
    /\ Starting
    /\ phase' = "destroying"
    /\ UNCHANGED <<vars, started, joined>>

Destroy ==
    /\ phase = "running" /\ ~terminated
    /\ phase' = "destroying"
    /\ UNCHANGED <<vars, started, joined>>

\* The next thread to join, of those whose join does not wait.
JoinOneOf(t, ready) ==
    /\ phase = "destroying" /\ ~terminated
    /\ t \in (Started \ joined) \cap ready
    /\ \A u \in Started \ joined : Rank(u) <= Rank(t)
    /\ joined' = joined \cup {t}
    /\ UNCHANGED <<vars, phase, started>>

JoinDetached(t) == JoinOneOf(t, Threads)   \* Mutant
Join(t)         == JoinOneOf(t, exited)

DestroyContext ==
    /\ phase = "destroying" /\ ~terminated
    /\ joined = Started
    /\ phase' = "gone"
    /\ UNCHANGED <<vars, started, joined>>

Owner == \/ StartThread
         \/ StartThrows
         \/ Destroy
         \/ \E t \in Threads : Join(t)
         \/ DestroyContext

Work(t) ==
    /\ t \in Started
    /\ \/ t \in Users /\ Push(t)
       \/ t = Ingress /\ Router
       \/ t \in Symbols /\ SymbolWork(t)
       \/ t = Responder /\ ResponseWork
    /\ UNCHANGED lifetime

Submit(u) == u \in Started /\ UserBegin(u) /\ UNCHANGED lifetime
Leave(t)  == t \in Started /\ Exit(t) /\ UNCHANGED lifetime
Quit      == phase # "gone" /\ RaiseQuit /\ UNCHANGED lifetime

LifetimeNext == \/ Owner
                \/ \E t \in Threads : Work(t)
                \/ \E t \in Threads : Leave(t)
                \/ \E u \in Users : Submit(u)
                \/ Quit

LifetimeSpec == LifetimeInit /\ [][LifetimeNext]_allVars

(***************************************************************************)
(* Started threads run and see quit_signal in the end, as in OrderGateway; *)
(* a destructor that was entered goes on.                                  *)
(***************************************************************************)
LifetimeFairness ==
    /\ \A t \in Threads : WF_allVars(Work(t)) /\ SF_allVars(Leave(t)) /\ WF_allVars(Join(t))
    /\ WF_allVars(DestroyContext)

LifetimeFairSpec == LifetimeSpec /\ LifetimeFairness
-----------------------------------------------------------------------------
(***************************************************************************)
(* The destructor, or the exception of the constructor, gets past the      *)
(* joins only when no thread is left that could use the context, and once  *)
(* a thread was started that takes somebody who stored quit_signal: the    *)
(* class does not, so it never returns.                                    *)
(***************************************************************************)
ReturnsAfterQuit ==
    phase = "gone" => Started \subseteq exited /\ (quit \/ Started = {})

(***************************************************************************)
(* If quit_signal is set, the destructor returns, whatever the queues hold *)
(* and however many threads the constructor had started.                   *)
(***************************************************************************)
DestructionReturns ==
    phase = "destroying" /\ quit ~> phase = "gone" \/ terminated

(***************************************************************************)
(* Orders submitted before the ingress and symbol threads exist wait for   *)
(* them: once the constructor is done every acknowledged order is settled, *)
(* even while the destructor waits, unless pushes overlapped, somebody     *)
(* told the threads to quit or the process terminated.                     *)
(***************************************************************************)
EarlyOrderSettled ==
    \A o \in Order : o \in acked /\ phase = "running"
                        ~> Settled(o) \/ raced \/ quit \/ terminated
=============================================================================
