------------------------------- MODULE RWSpin -------------------------------
(***************************************************************************)
(* The readers-writer spinlock of p7 (p7/rwspin.c), taken by coroutines    *)
(* that run cooperatively on carriers.                                      *)
(*                                                                         *)
(* A coroutine draws a ticket from `request' and waits until `completion'   *)
(* shows it.  A reader then counts itself in and passes the ticket on at    *)
(* once; a writer keeps the ticket, waits for the readers to leave, and    *)
(* passes it on when it unlocks.  A waiting coroutine yields its carrier   *)
(* at every second test (`penalty'); unlocking yields as well.              *)
(*                                                                         *)
(* Tickets wrap: they are uint32_t.  The increment of `completion' is not   *)
(* atomic, hence a load and a store.  Between two yields a carrier runs     *)
(* one coroutine, the head of its queue; steps of different carriers       *)
(* interleave.                                                             *)
(***************************************************************************)
EXTENDS Integers, Sequences, FiniteSets

CONSTANTS Coro,         \* the coroutines that use the lock
          Carrier,
          InitialQueue, \* the coroutines of each carrier
          Modulus       \* 2^32

ASSUME RWSpinAssumption ==
    /\ IsFiniteSet(Coro)
    /\ InitialQueue \in [Carrier -> Seq(Coro)]
    /\ Modulus \in Nat
    /\ Cardinality(Coro) < Modulus

Ticket == 0 .. Modulus - 1

\* uint32_t arithmetic.
Succ(n)    == IF n = Modulus - 1 THEN 0 ELSE n + 1
Pred(n)    == IF n = 0 THEN Modulus - 1 ELSE n - 1
Dist(a, b) == IF a >= b THEN a - b ELSE a - b + Modulus

VARIABLES request, completion, nreaders,   \* the lock
          pc, ticket, penalty, loaded,     \* the coroutines
          queue                            \* coro_queue of each carrier

lockVars == <<request, completion, nreaders>>
coroVars == <<pc, ticket, penalty, loaded>>
vars     == <<lockVars, coroVars, queue>>

Init ==
    /\ request = 0 /\ completion = 0 /\ nreaders = 0
    /\ pc = [t \in Coro |-> "idle"]
    /\ ticket = [t \in Coro |-> 0]
    /\ penalty = [t \in Coro |-> 0]
    /\ loaded = [t \in Coro |-> 0]
    /\ queue = InitialQueue

Goto(t, label) == pc' = [pc EXCEPT ![t] = label]

\* The lock function returns: its locals are dead.
DropLocals(t) ==
    /\ ticket'  = [ticket  EXCEPT ![t] = 0]
    /\ penalty' = [penalty EXCEPT ![t] = 0]
    /\ loaded'  = [loaded  EXCEPT ![t] = 0]

\* p7_coro_yield: the scheduler puts the running coroutine behind the others.
Rotate(c) == queue' = [queue EXCEPT ![c] = Append(Tail(@), Head(@))]

(***************************************************************************)
(* The steps of coroutine t while it runs on carrier c.                    *)
(***************************************************************************)
\* It does something else and yields; inside a critical section too.
YieldElsewhere(c, t) ==
    /\ pc[t] \in {"idle", "reading", "writing"}
    /\ Rotate(c)
    /\ UNCHANGED <<lockVars, coroVars>>

\* A fault: the ticket counter does not wrap with the other one.
DrawWide(t) ==
    /\ pc[t] = "idle"
    /\ ticket' = [ticket EXCEPT ![t] = request]
    /\ request' = request + 1
    /\ Goto(t, "rdwait") \/ Goto(t, "wrwait")
    /\ UNCHANGED <<completion, nreaders, penalty, loaded, queue>>

\* p7_rwspinlock_rdlock or _wrlock: draw a ticket.
Draw(t) ==
    /\ pc[t] = "idle"
    /\ ticket' = [ticket EXCEPT ![t] = request]
    /\ request' = Succ(request)
    /\ Goto(t, "rdwait") \/ Goto(t, "wrwait")
    /\ UNCHANGED <<completion, nreaders, penalty, loaded, queue>>

\* A fault: whoever waits spins on without yielding.
BackoffSpinning(c, t) ==
    /\ penalty' = [penalty EXCEPT ![t] = 1 - @]
    /\ UNCHANGED queue

\* A test has failed: yield every other time.
Backoff(c, t) ==
    /\ IF penalty[t] = 1 THEN Rotate(c) ELSE UNCHANGED queue
    /\ penalty' = [penalty EXCEPT ![t] = 1 - @]

\* A fault: tickets are compared by their order, not for equality.
TestTurnByOrder(c, t) ==
    /\ pc[t] \in {"rdwait", "wrwait"}
    /\ IF completion >= ticket[t]
       THEN /\ Goto(t, IF pc[t] = "rdwait" THEN "enter" ELSE "drain")
            /\ UNCHANGED <<penalty, queue>>
       ELSE Backoff(c, t) /\ UNCHANGED pc
    /\ UNCHANGED <<lockVars, ticket, loaded>>

\* The loop on `completion'.
TestTurn(c, t) ==
    /\ pc[t] \in {"rdwait", "wrwait"}
    /\ IF completion = ticket[t]
       THEN /\ Goto(t, IF pc[t] = "rdwait" THEN "enter" ELSE "drain")
            /\ UNCHANGED <<penalty, queue>>
       ELSE Backoff(c, t) /\ UNCHANGED pc
    /\ UNCHANGED <<lockVars, ticket, loaded>>

\* The reader counts itself in, then increments `completion' in two steps.
CountIn(t) ==
    /\ pc[t] = "enter"
    /\ nreaders' = Succ(nreaders)
    /\ Goto(t, "rdload")
    /\ UNCHANGED <<request, completion, ticket, penalty, loaded, queue>>

LoadCompletion(t) ==
    /\ pc[t] \in {"rdload", "wrload"}
    /\ loaded' = [loaded EXCEPT ![t] = completion]
    /\ Goto(t, IF pc[t] = "rdload" THEN "rdstore" ELSE "wrstore")
    /\ UNCHANGED <<lockVars, ticket, penalty, queue>>

PassOn(t) ==
    /\ pc[t] = "rdstore"
    /\ completion' = Succ(loaded[t])
    /\ Goto(t, "reading")
    /\ DropLocals(t)
    /\ UNCHANGED <<request, nreaders, queue>>

\* A fault: the writer does not look at the readers.
TestReadersNever(c, t) ==
    /\ pc[t] = "drain"
    /\ Goto(t, "writing")
    /\ UNCHANGED <<lockVars, ticket, penalty, loaded, queue>>

\* The writer's loop on `n_readers'.
TestReaders(c, t) ==
    /\ pc[t] = "drain"
    /\ IF nreaders = 0
       THEN Goto(t, "writing") /\ UNCHANGED <<penalty, queue>>
       ELSE Backoff(c, t) /\ UNCHANGED pc
    /\ UNCHANGED <<lockVars, ticket, loaded>>

\* p7_rwspinlock_rdunlock.
LeaveReading(c, t) ==
    /\ pc[t] = "reading"
    /\ nreaders' = Pred(nreaders)
    /\ Goto(t, "idle")
    /\ Rotate(c)
    /\ UNCHANGED <<request, completion, ticket, penalty, loaded>>

\* p7_rwspinlock_wrunlock: the load of `completion', then its store.
BeginUnlock(t) ==
    /\ pc[t] = "writing"
    /\ Goto(t, "wrload")
    /\ UNCHANGED <<lockVars, ticket, penalty, loaded, queue>>

LeaveWriting(c, t) ==
    /\ pc[t] = "wrstore"
    /\ completion' = Succ(loaded[t])
    /\ Goto(t, "idle")
    /\ DropLocals(t)
    /\ Rotate(c)
    /\ UNCHANGED <<request, nreaders>>

Unlock(c, t) == LeaveReading(c, t) \/ BeginUnlock(t)

Step(c, t) ==
    \/ TestTurn(c, t) \/ CountIn(t) \/ LoadCompletion(t) \/ PassOn(t)
    \/ TestReaders(c, t) \/ LeaveWriting(c, t) \/ Unlock(c, t)

Running(c) == Head(queue[c])

Next == \E c \in Carrier :
           /\ queue[c] # <<>>
           /\ \/ Step(c, Running(c))
              \/ Draw(Running(c))
              \/ YieldElsewhere(c, Running(c))

Spec == Init /\ [][Next]_vars

\* A carrier goes on; a coroutine that keeps coming back to its critical
\* section ends it; one that is idle need not ever ask for the lock.
Fairness ==
    \A c \in Carrier :
        /\ WF_vars(queue[c] # <<>> /\ (Step(c, Running(c)) \/ YieldElsewhere(c, Running(c))))
        /\ \A t \in Coro : SF_vars(queue[c] # <<>> /\ t = Running(c) /\ Unlock(c, t))

LiveSpec == Spec /\ Fairness

-----------------------------------------------------------------------------
InReaders(t) == pc[t] \in {"rdload", "rdstore", "reading"}
InWriter(t)  == pc[t] \in {"writing", "wrload", "wrstore"}
InLine(t)    == pc[t] \in {"rdwait", "enter", "wrwait", "drain"}

Readers == {t \in Coro : InReaders(t)}
Writers == {t \in Coro : InWriter(t)}
Waiting == {t \in Coro : InLine(t)}

TypeOK ==
    /\ request \in Ticket /\ completion \in Ticket /\ nreaders \in Ticket
    /\ pc \in [Coro -> {"idle", "rdwait", "enter", "rdload", "rdstore",
                         "reading", "wrwait", "drain", "writing", "wrload",
                         "wrstore"}]
    /\ ticket \in [Coro -> Ticket]
    /\ penalty \in [Coro -> {0, 1}]
    /\ loaded \in [Coro -> Ticket]
    /\ queue \in [Carrier -> Seq(Coro)]

\* A writer has the lock for itself, from the moment its last test succeeds
\* until `completion' moves on, whatever the interleaving of the carriers and
\* even when the tickets have wrapped around.
WriterExclusion ==
    \A w \in Writers : Readers = {} /\ Writers = {w}

\* The coroutines that wait, in the order of their tickets.
Ahead(t) == {u \in Waiting : Dist(ticket[u], completion) < Dist(ticket[t], completion)}
Role(t)  == IF pc[t] \in {"rdwait", "enter"} THEN "reader" ELSE "writer"
Line ==
    [i \in 1 .. Cardinality(Waiting) |->
        LET t == CHOOSE u \in Waiting : Cardinality(Ahead(u)) = i - 1
        IN  <<t, Role(t)>>]

Lock == INSTANCE FairLock WITH line <- Line, reading <- Readers, writing <- Writers

\* The lock is fair: coroutines get it in the order of their first
\* fetch-and-add, readers together, a writer alone.
ImplementsFairLock == Lock!FairLockSpec

\* Whoever asks for the lock gets it, even from a carrier that it shares with
\* the coroutine it waits for.
NoStarvation == \A t \in Coro : InLine(t) ~> (InReaders(t) \/ InWriter(t))
=============================================================================
