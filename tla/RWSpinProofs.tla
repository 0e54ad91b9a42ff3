---------------------------- MODULE RWSpinProofs ----------------------------
(***************************************************************************)
(* Exclusion and fairness of the p7 readers-writer spinlock for any number   *)
(* of coroutines and carriers, tickets of any width that leaves room for    *)
(* all of them.                                                             *)
(*                                                                         *)
(* The argument: the tickets that are out are distinct and lie in the      *)
(* window from `completion' up to `request', which is never larger than    *)
(* the number of coroutines that hold one, so it cannot wrap onto itself.   *)
(* Hence at most one coroutine holds the ticket that `completion' shows, no *)
(* one else moves `completion' meanwhile (so its two-step increment is safe) *)
(* and no reader counts itself in while a writer waits for the last one to  *)
(* leave.                                                                  *)
(***************************************************************************)
EXTENDS RWSpin, FiniteSetTheorems, FunctionTheorems, SequenceTheorems, TLAPS

\* The coroutine has drawn a ticket and not yet passed it on.
Pending(t) == pc[t] \in {"rdwait", "enter", "rdload", "rdstore", "wrwait",
                          "drain", "writing", "wrload", "wrstore"}
Holders == {t \in Coro : Pending(t)}

\* It has seen its ticket on `completion'.
HasTurn(t) == pc[t] \in {"enter", "rdload", "rdstore", "drain", "writing",
                          "wrload", "wrstore"}

TicketsInWindow ==
    \A t \in Coro : Pending(t) => Dist(ticket[t], completion) < Dist(request, completion)

TicketsDistinct ==
    \A t, u \in Coro : Pending(t) /\ Pending(u) /\ ticket[t] = ticket[u] => t = u

WindowCounted == Dist(request, completion) <= Cardinality(Holders)

TurnIsShown == \A t \in Coro : HasTurn(t) => ticket[t] = completion

LoadIsFresh ==
    \A t \in Coro : pc[t] \in {"rdstore", "wrstore"} => loaded[t] = completion

ReadersCounted == nreaders = Cardinality(Readers)

WriterFindsNone == \A t \in Coro : InWriter(t) => Readers = {}

Inv == /\ TypeOK
       /\ TicketsInWindow /\ TicketsDistinct /\ WindowCounted
       /\ TurnIsShown /\ LoadIsFresh
       /\ ReadersCounted /\ WriterFindsNone

-----------------------------------------------------------------------------
(***************************************************************************)
(* Arithmetic of tickets.                                                  *)
(***************************************************************************)
LEMMA ModulusPositive == Modulus \in Nat /\ Modulus >= 1
<1>1. Cardinality(Coro) \in Nat
  BY RWSpinAssumption, FS_CardinalityType
<1> QED
  BY <1>1, RWSpinAssumption

LEMMA SuccType == ASSUME NEW n \in Ticket PROVE Succ(n) \in Ticket
BY ModulusPositive DEF Ticket, Succ

LEMMA PredType == ASSUME NEW n \in Ticket PROVE Pred(n) \in Ticket
BY ModulusPositive DEF Ticket, Pred

LEMMA DistType ==
  ASSUME NEW m \in Ticket, NEW n \in Ticket
  PROVE  Dist(m, n) \in 0 .. Modulus - 1 /\ (Dist(m, n) = 0 <=> m = n)
BY ModulusPositive DEF Ticket, Dist

\* Equal distances from one ticket are equal tickets.
LEMMA DistInjective ==
  ASSUME NEW m \in Ticket, NEW n \in Ticket, NEW o \in Ticket, Dist(m, o) = Dist(n, o)
  PROVE  m = n
BY ModulusPositive DEF Ticket, Dist

\* Drawing a ticket widens the window by one, if it stays below Modulus.
LEMMA DistWidens ==
  ASSUME NEW m \in Ticket, NEW n \in Ticket, Dist(m, n) + 1 < Modulus
  PROVE  Dist(Succ(m), n) = Dist(m, n) + 1
BY ModulusPositive DEF Ticket, Dist, Succ

\* Passing it on brings every other ticket one nearer.
LEMMA DistShrinks ==
  ASSUME NEW m \in Ticket, NEW n \in Ticket, m # n
  PROVE  Dist(m, Succ(n)) = Dist(m, n) - 1
BY ModulusPositive DEF Ticket, Dist, Succ

LEMMA HoldersFinite == IsFiniteSet(Holders) /\ IsFiniteSet(Readers)
<1>1. Holders \subseteq Coro /\ Readers \subseteq Coro
  BY DEF Holders, Readers
<1> QED
  BY <1>1, RWSpinAssumption, FS_Subset

-----------------------------------------------------------------------------
LEMMA InitInv == Init => Inv
<1> SUFFICES ASSUME Init PROVE Inv
  OBVIOUS
<1>1. TypeOK
  BY ModulusPositive, RWSpinAssumption DEF Init, TypeOK, Ticket
<1>2. Holders = {} /\ Readers = {}
  BY DEF Init, Holders, Pending, Readers, InReaders
<1>3. Dist(request, completion) = 0 /\ Cardinality({}) = 0
  BY FS_EmptySet DEF Init, Dist
<1>4. \A t \in Coro : ~ Pending(t) /\ ~ HasTurn(t) /\ ~ InWriter(t)
  BY DEF Init, Pending, HasTurn, InWriter
<1>5. WindowCounted /\ ReadersCounted
  BY <1>2, <1>3 DEF WindowCounted, ReadersCounted, Init
<1> QED
  BY <1>1, <1>4, <1>5
     DEF Inv, TicketsInWindow, TicketsDistinct, TurnIsShown, LoadIsFresh,
         WriterFindsNone, Init

LEMMA RotateType ==
  ASSUME TypeOK, NEW c \in Carrier, queue[c] # <<>>, Rotate(c)
  PROVE  queue' \in [Carrier -> Seq(Coro)]
<1>1. queue[c] \in Seq(Coro)
  BY DEF TypeOK
<1>2. Append(Tail(queue[c]), Head(queue[c])) \in Seq(Coro)
  BY <1>1
<1> QED
  BY <1>2 DEF Rotate, TypeOK

\* A step that leaves the lock, the tickets and the two sets as they are.
LEMMA QuietStep ==
  ASSUME Inv, TypeOK', UNCHANGED <<request, completion, nreaders, ticket>>,
         \A t \in Coro : Pending(t)' <=> Pending(t),
         \A t \in Coro : InReaders(t)' <=> InReaders(t),
         TurnIsShown', LoadIsFresh', WriterFindsNone'
  PROVE  Inv'
<1>1. Holders' = Holders /\ Readers' = Readers
  BY DEF Holders, Readers
<1>2. TicketsInWindow' /\ TicketsDistinct'
  BY DEF Inv, TicketsInWindow, TicketsDistinct
<1>3. WindowCounted' /\ ReadersCounted'
  BY <1>1 DEF Inv, WindowCounted, ReadersCounted
<1> QED
  BY <1>2, <1>3 DEF Inv

LEMMA YieldInv ==
  ASSUME Inv, NEW c \in Carrier, NEW t \in Coro, queue[c] # <<>>,
         YieldElsewhere(c, t)
  PROVE  Inv'
<1>1. queue' \in [Carrier -> Seq(Coro)]
  BY RotateType DEF Inv, YieldElsewhere
<1>2. TypeOK'
  BY <1>1 DEF Inv, TypeOK, YieldElsewhere, lockVars, coroVars
<1>3. UNCHANGED <<lockVars, coroVars>>
  BY DEF YieldElsewhere
<1>4. \A u \in Coro :
          /\ Pending(u)' <=> Pending(u)
          /\ InReaders(u)' <=> InReaders(u)
          /\ HasTurn(u)' <=> HasTurn(u)
          /\ InWriter(u)' <=> InWriter(u)
  BY <1>3 DEF Pending, InReaders, HasTurn, InWriter, coroVars
<1>5. TurnIsShown' /\ LoadIsFresh' /\ WriterFindsNone'
  BY <1>3, <1>4 DEF Inv, TurnIsShown, LoadIsFresh, WriterFindsNone, Readers, lockVars, coroVars
<1> QED
  BY <1>2, <1>3, <1>4, <1>5, QuietStep DEF lockVars, coroVars

LEMMA BackoffType ==
  ASSUME TypeOK, NEW c \in Carrier, NEW t \in Coro, queue[c] # <<>>, Backoff(c, t)
  PROVE  penalty' \in [Coro -> {0, 1}] /\ queue' \in [Carrier -> Seq(Coro)]
<1>1. queue' \in [Carrier -> Seq(Coro)]
  BY RotateType DEF Backoff, TypeOK
<1>2. penalty' \in [Coro -> {0, 1}]
  BY DEF Backoff, TypeOK
<1> QED
  BY <1>1, <1>2

\* Both loops: the coroutine goes on when its test succeeds, else backs off.
LEMMA TestTurnInv ==
  ASSUME Inv, NEW c \in Carrier, NEW t \in Coro, queue[c] # <<>>, TestTurn(c, t)
  PROVE  Inv'
<1>1. CASE completion = ticket[t]
  <2>1. /\ pc' = [pc EXCEPT ![t] = IF pc[t] = "rdwait" THEN "enter" ELSE "drain"]
        /\ UNCHANGED <<lockVars, ticket, loaded, penalty, queue>>
        /\ pc[t] \in {"rdwait", "wrwait"}
    BY <1>1 DEF TestTurn, Goto
  <2>2. TypeOK'
    BY <2>1 DEF Inv, TypeOK, lockVars
  <2>3. \A u \in Coro :
            /\ Pending(u)' <=> Pending(u)
            /\ InReaders(u)' <=> InReaders(u)
            /\ HasTurn(u)' <=> HasTurn(u) \/ u = t
            /\ InWriter(u)' <=> InWriter(u)
            /\ pc'[u] \in {"rdstore", "wrstore"} <=> pc[u] \in {"rdstore", "wrstore"}
    BY <2>1 DEF Inv, TypeOK, Pending, InReaders, HasTurn, InWriter
  <2>4. TurnIsShown' /\ LoadIsFresh' /\ WriterFindsNone'
    BY <1>1, <2>1, <2>3 DEF Inv, TurnIsShown, LoadIsFresh, WriterFindsNone, Readers, lockVars
  <2> QED
    BY <2>1, <2>2, <2>3, <2>4, QuietStep DEF lockVars
<1>2. CASE completion # ticket[t]
  <2>1. UNCHANGED <<lockVars, ticket, loaded, pc>> /\ Backoff(c, t)
    BY <1>2 DEF TestTurn
  <2>2. TypeOK'
    BY <2>1, BackoffType DEF Inv, TypeOK, lockVars
  <2>3. \A u \in Coro :
            /\ Pending(u)' <=> Pending(u)
            /\ InReaders(u)' <=> InReaders(u)
            /\ HasTurn(u)' <=> HasTurn(u)
            /\ InWriter(u)' <=> InWriter(u)
    BY <2>1 DEF Pending, InReaders, HasTurn, InWriter
  <2>4. TurnIsShown' /\ LoadIsFresh' /\ WriterFindsNone'
    BY <2>1, <2>3 DEF Inv, TurnIsShown, LoadIsFresh, WriterFindsNone, Readers, lockVars
  <2> QED
    BY <2>1, <2>2, <2>3, <2>4, QuietStep DEF lockVars
<1> QED
  BY <1>1, <1>2

LEMMA TestReadersInv ==
  ASSUME Inv, NEW c \in Carrier, NEW t \in Coro, queue[c] # <<>>, TestReaders(c, t)
  PROVE  Inv'
<1>1. CASE nreaders = 0
  <2>1. /\ pc' = [pc EXCEPT ![t] = "writing"]
        /\ UNCHANGED <<lockVars, ticket, loaded, penalty, queue>>
        /\ pc[t] = "drain"
    BY <1>1 DEF TestReaders, Goto
  <2>2. TypeOK'
    BY <2>1 DEF Inv, TypeOK, lockVars
  <2>3. \A u \in Coro :
            /\ Pending(u)' <=> Pending(u)
            /\ InReaders(u)' <=> InReaders(u)
            /\ HasTurn(u)' <=> HasTurn(u)
            /\ pc'[u] \in {"rdstore", "wrstore"} <=> pc[u] \in {"rdstore", "wrstore"}
    BY <2>1 DEF Inv, TypeOK, Pending, InReaders, HasTurn
  <2>4. Readers = {}
    BY <1>1, HoldersFinite, FS_EmptySet DEF Inv, ReadersCounted
  <2>5. Readers' = {}
    BY <2>3, <2>4 DEF Readers
  <2>6. TurnIsShown' /\ LoadIsFresh' /\ WriterFindsNone'
    BY <2>1, <2>3, <2>5 DEF Inv, TurnIsShown, LoadIsFresh, WriterFindsNone, lockVars
  <2> QED
    BY <2>1, <2>2, <2>3, <2>6, QuietStep DEF lockVars
<1>2. CASE nreaders # 0
  <2>1. UNCHANGED <<lockVars, ticket, loaded, pc>> /\ Backoff(c, t)
    BY <1>2 DEF TestReaders
  <2>2. TypeOK'
    BY <2>1, BackoffType DEF Inv, TypeOK, lockVars
  <2>3. \A u \in Coro :
            /\ Pending(u)' <=> Pending(u)
            /\ InReaders(u)' <=> InReaders(u)
            /\ HasTurn(u)' <=> HasTurn(u)
            /\ InWriter(u)' <=> InWriter(u)
    BY <2>1 DEF Pending, InReaders, HasTurn, InWriter
  <2>4. TurnIsShown' /\ LoadIsFresh' /\ WriterFindsNone'
    BY <2>1, <2>3 DEF Inv, TurnIsShown, LoadIsFresh, WriterFindsNone, Readers, lockVars
  <2> QED
    BY <2>1, <2>2, <2>3, <2>4, QuietStep DEF lockVars
<1> QED
  BY <1>1, <1>2

LEMMA LoadInv ==
  ASSUME Inv, NEW t \in Coro, LoadCompletion(t)
  PROVE  Inv'
<1>1. /\ pc' = [pc EXCEPT ![t] = IF pc[t] = "rdload" THEN "rdstore" ELSE "wrstore"]
      /\ loaded' = [loaded EXCEPT ![t] = completion]
      /\ UNCHANGED <<lockVars, ticket, penalty, queue>>
      /\ pc[t] \in {"rdload", "wrload"}
  BY DEF LoadCompletion, Goto
<1>2. TypeOK'
  BY <1>1 DEF Inv, TypeOK, lockVars
<1>3. \A u \in Coro :
          /\ Pending(u)' <=> Pending(u)
          /\ InReaders(u)' <=> InReaders(u)
          /\ HasTurn(u)' <=> HasTurn(u)
          /\ InWriter(u)' <=> InWriter(u)
          /\ pc'[u] \in {"rdstore", "wrstore"} <=>
                 pc[u] \in {"rdstore", "wrstore"} \/ u = t
  BY <1>1 DEF Inv, TypeOK, Pending, InReaders, HasTurn, InWriter
<1>4. TurnIsShown' /\ WriterFindsNone'
  BY <1>1, <1>3 DEF Inv, TurnIsShown, WriterFindsNone, Readers, lockVars
<1>5. LoadIsFresh'
  BY <1>1, <1>3 DEF Inv, TypeOK, LoadIsFresh, lockVars
<1> QED
  BY <1>1, <1>2, <1>3, <1>4, <1>5, QuietStep DEF lockVars

LEMMA BeginUnlockInv ==
  ASSUME Inv, NEW t \in Coro, BeginUnlock(t)
  PROVE  Inv'
<1>1. /\ pc' = [pc EXCEPT ![t] = "wrload"]
      /\ UNCHANGED <<lockVars, ticket, penalty, loaded, queue>>
      /\ pc[t] = "writing"
  BY DEF BeginUnlock, Goto
<1>2. TypeOK'
  BY <1>1 DEF Inv, TypeOK, lockVars
<1>3. \A u \in Coro :
          /\ Pending(u)' <=> Pending(u)
          /\ InReaders(u)' <=> InReaders(u)
          /\ HasTurn(u)' <=> HasTurn(u)
          /\ InWriter(u)' <=> InWriter(u)
          /\ pc'[u] \in {"rdstore", "wrstore"} <=> pc[u] \in {"rdstore", "wrstore"}
  BY <1>1 DEF Inv, TypeOK, Pending, InReaders, HasTurn, InWriter
<1>4. TurnIsShown' /\ LoadIsFresh' /\ WriterFindsNone'
  BY <1>1, <1>3 DEF Inv, TurnIsShown, LoadIsFresh, WriterFindsNone, Readers, lockVars
<1> QED
  BY <1>1, <1>2, <1>3, <1>4, QuietStep DEF lockVars

-----------------------------------------------------------------------------
(***************************************************************************)
(* The steps that move the window or the count of readers.                 *)
(***************************************************************************)
\* There is room for one more ticket while somebody holds none.
LEMMA RoomInWindow ==
  ASSUME Inv, NEW t \in Coro, ~ Pending(t)
  PROVE  Dist(request, completion) + 1 < Modulus
<1>1. Holders \subseteq Coro \ {t}
  BY DEF Holders
<1>2. IsFiniteSet(Coro \ {t}) /\ Cardinality(Coro \ {t}) = Cardinality(Coro) - 1
  BY RWSpinAssumption, FS_RemoveElement
<1>3. Cardinality(Holders) <= Cardinality(Coro \ {t})
  BY <1>1, <1>2, FS_Subset
<1>4. Cardinality(Holders) \in Nat /\ Cardinality(Coro) \in Nat
  BY HoldersFinite, RWSpinAssumption, FS_CardinalityType
<1>5. Dist(request, completion) \in 0 .. Modulus - 1
  BY DistType DEF Inv, TypeOK
<1> QED
  BY <1>2, <1>3, <1>4, <1>5, ModulusPositive, RWSpinAssumption DEF Inv, WindowCounted

LEMMA DrawInv ==
  ASSUME Inv, NEW t \in Coro, Draw(t)
  PROVE  Inv'
<1>1. /\ pc[t] = "idle"
      /\ ticket' = [ticket EXCEPT ![t] = request]
      /\ request' = Succ(request)
      /\ UNCHANGED <<completion, nreaders, penalty, loaded, queue>>
  BY DEF Draw
<1>2. PICK l \in {"rdwait", "wrwait"} : pc' = [pc EXCEPT ![t] = l]
  BY DEF Draw, Goto
<1>3. TypeOK'
  BY <1>1, <1>2, SuccType DEF Inv, TypeOK
<1>4. \A u \in Coro :
         /\ Pending(u)' <=> Pending(u) \/ u = t
         /\ InReaders(u)' <=> InReaders(u)
         /\ HasTurn(u)' <=> HasTurn(u)
         /\ InWriter(u)' <=> InWriter(u)
         /\ pc'[u] \in {"rdstore", "wrstore"} <=> pc[u] \in {"rdstore", "wrstore"}
         /\ u # t => ticket'[u] = ticket[u]
  BY <1>1, <1>2 DEF Inv, TypeOK, Pending, InReaders, HasTurn, InWriter
<1>5. ~ Pending(t) /\ ~ HasTurn(t) /\ ticket'[t] = request
  BY <1>1 DEF Pending, HasTurn, Inv, TypeOK
<1>6. Dist(request', completion') = Dist(request, completion) + 1
  BY <1>1, <1>5, RoomInWindow, DistWidens DEF Inv, TypeOK
<1>7. \A u \in Coro : Dist(ticket[u], completion) \in Int
  BY DistType DEF Inv, TypeOK
<1>8. Dist(request, completion) \in Int
  BY DistType DEF Inv, TypeOK
<1>9. TicketsInWindow'
  BY <1>1, <1>4, <1>5, <1>6, <1>7, <1>8 DEF Inv, TicketsInWindow
<1>10. TicketsDistinct'
  <2>1. \A u \in Coro : Pending(u) => ticket[u] # request
    BY <1>8 DEF Inv, TicketsInWindow
  <2> QED
    BY <2>1, <1>4, <1>5 DEF Inv, TicketsDistinct
<1>11. WindowCounted'
  <2>1. Holders' = Holders \cup {t} /\ t \notin Holders
    BY <1>4, <1>5 DEF Holders
  <2>2. Cardinality(Holders') = Cardinality(Holders) + 1
    BY <2>1, HoldersFinite, FS_AddElement
  <2>3. Cardinality(Holders) \in Nat
    BY HoldersFinite, FS_CardinalityType
  <2> QED
    BY <2>2, <2>3, <1>6, <1>8 DEF Inv, WindowCounted
<1>12. Readers' = Readers
  BY <1>4 DEF Readers
<1>13. TurnIsShown' /\ LoadIsFresh' /\ ReadersCounted' /\ WriterFindsNone'
  BY <1>1, <1>4, <1>5, <1>12
     DEF Inv, TurnIsShown, LoadIsFresh, ReadersCounted, WriterFindsNone
<1> QED
  BY <1>3, <1>9, <1>10, <1>11, <1>13 DEF Inv

\* Whoever has its turn is alone with it.
LEMMA TurnIsAlone ==
  ASSUME Inv, NEW t \in Coro, NEW u \in Coro, HasTurn(t), Pending(u), u # t
  PROVE  ticket[u] # completion /\ ~ HasTurn(u)
<1>1. Pending(t) /\ ticket[t] = completion
  BY DEF HasTurn, Pending, Inv, TurnIsShown
<1>2. ticket[u] # completion
  BY <1>1 DEF Inv, TicketsDistinct
<1> QED
  BY <1>2 DEF Inv, TurnIsShown

LEMMA CountInInv ==
  ASSUME Inv, NEW t \in Coro, CountIn(t)
  PROVE  Inv'
<1>1. /\ pc[t] = "enter"
      /\ nreaders' = Succ(nreaders)
      /\ pc' = [pc EXCEPT ![t] = "rdload"]
      /\ UNCHANGED <<request, completion, ticket, penalty, loaded, queue>>
  BY DEF CountIn, Goto
<1>2. TypeOK'
  BY <1>1, SuccType DEF Inv, TypeOK
<1>3. \A u \in Coro :
         /\ Pending(u)' <=> Pending(u)
         /\ InReaders(u)' <=> InReaders(u) \/ u = t
         /\ HasTurn(u)' <=> HasTurn(u)
         /\ InWriter(u)' <=> InWriter(u)
         /\ pc'[u] \in {"rdstore", "wrstore"} <=> pc[u] \in {"rdstore", "wrstore"}
  BY <1>1 DEF Inv, TypeOK, Pending, InReaders, HasTurn, InWriter
<1>4. Readers' = Readers \cup {t} /\ t \notin Readers
  BY <1>1, <1>3 DEF Readers, InReaders
<1>5. Cardinality(Readers') = Cardinality(Readers) + 1
  BY <1>4, HoldersFinite, FS_AddElement
<1>6. nreaders' = nreaders + 1
  <2>1. Cardinality(Readers') <= Cardinality(Coro)
    BY RWSpinAssumption, FS_Subset DEF Readers
  <2>2. Cardinality(Coro) \in Nat
    BY RWSpinAssumption, FS_CardinalityType
  <2>3. nreaders \in Nat /\ nreaders = Cardinality(Readers)
    BY ModulusPositive DEF Inv, ReadersCounted, TypeOK, Ticket
  <2>4. nreaders # Modulus - 1
    BY <1>5, <2>1, <2>2, <2>3, ModulusPositive, RWSpinAssumption
  <2> QED
    BY <1>1, <2>4 DEF Succ
<1>7. ReadersCounted'
  BY <1>5, <1>6 DEF Inv, ReadersCounted
<1>8. WriterFindsNone'
  <2>1. HasTurn(t)
    BY <1>1 DEF HasTurn
  <2>2. \A u \in Coro : ~ InWriter(u)
    <3> SUFFICES ASSUME NEW u \in Coro, InWriter(u) PROVE FALSE
      OBVIOUS
    <3>1. HasTurn(u) /\ Pending(u) /\ u # t
      BY <1>1 DEF InWriter, HasTurn, Pending
    <3> QED
      BY <2>1, <3>1, TurnIsAlone
  <2> QED
    BY <1>3, <2>2 DEF WriterFindsNone
<1>9. Holders' = Holders
  BY <1>3 DEF Holders
<1>10. TicketsInWindow' /\ TicketsDistinct' /\ WindowCounted' /\ TurnIsShown' /\ LoadIsFresh'
  BY <1>1, <1>3, <1>9
     DEF Inv, TicketsInWindow, TicketsDistinct, WindowCounted, TurnIsShown, LoadIsFresh
<1> QED
  BY <1>2, <1>7, <1>8, <1>10 DEF Inv

LEMMA LeaveReadingInv ==
  ASSUME Inv, NEW c \in Carrier, NEW t \in Coro, queue[c] # <<>>, LeaveReading(c, t)
  PROVE  Inv'
<1>1. /\ pc[t] = "reading"
      /\ nreaders' = Pred(nreaders)
      /\ pc' = [pc EXCEPT ![t] = "idle"]
      /\ UNCHANGED <<request, completion, ticket, penalty, loaded>>
  BY DEF LeaveReading, Goto
<1>2. queue' \in [Carrier -> Seq(Coro)]
  BY RotateType DEF Inv, LeaveReading
<1>3. TypeOK'
  BY <1>1, <1>2, PredType DEF Inv, TypeOK
<1>4. \A u \in Coro :
         /\ Pending(u)' <=> Pending(u)
         /\ InReaders(u)' <=> InReaders(u) /\ u # t
         /\ HasTurn(u)' <=> HasTurn(u)
         /\ InWriter(u)' <=> InWriter(u)
         /\ pc'[u] \in {"rdstore", "wrstore"} <=> pc[u] \in {"rdstore", "wrstore"}
  BY <1>1 DEF Inv, TypeOK, Pending, InReaders, HasTurn, InWriter
<1>5. Readers' = Readers \ {t} /\ t \in Readers
  BY <1>1, <1>4 DEF Readers, InReaders
<1>6. Cardinality(Readers') = Cardinality(Readers) - 1 /\ Cardinality(Readers) \in Nat
  BY <1>5, HoldersFinite, FS_RemoveElement, FS_CardinalityType
<1>7. Cardinality(Readers) # 0
  BY <1>5, HoldersFinite, FS_EmptySet
<1>8. ReadersCounted'
  BY <1>1, <1>6, <1>7 DEF Inv, ReadersCounted, Pred
<1>9. Holders' = Holders
  BY <1>4 DEF Holders
<1>10. TicketsInWindow' /\ TicketsDistinct' /\ WindowCounted' /\ TurnIsShown' /\ LoadIsFresh'
  BY <1>1, <1>4, <1>9
     DEF Inv, TicketsInWindow, TicketsDistinct, WindowCounted, TurnIsShown, LoadIsFresh
<1>11. WriterFindsNone'
  BY <1>4, <1>5 DEF Inv, WriterFindsNone
<1> QED
  BY <1>3, <1>8, <1>10, <1>11 DEF Inv

\* Reader or writer: the holder of the ticket that is shown moves the window.
LEMMA PassOnWindow ==
  ASSUME Inv, TypeOK', NEW t \in Coro, pc[t] \in {"rdstore", "wrstore"},
         completion' = Succ(loaded[t]), UNCHANGED request,
         \A u \in Coro : Pending(u)' <=> Pending(u) /\ u # t,
         \A u \in Coro : HasTurn(u)' <=> HasTurn(u) /\ u # t,
         \A u \in Coro : u # t => ticket'[u] = ticket[u],
         \A u \in Coro : pc'[u] \in {"rdstore", "wrstore"} => HasTurn(u)'
  PROVE  TicketsInWindow' /\ TicketsDistinct' /\ WindowCounted'
         /\ TurnIsShown' /\ LoadIsFresh'
<1>1. HasTurn(t) /\ Pending(t) /\ loaded[t] = completion /\ ticket[t] = completion
  BY DEF HasTurn, Pending, Inv, LoadIsFresh, TurnIsShown
<1>2. \A u \in Coro : Pending(u) /\ u # t => ticket[u] # completion /\ ~ HasTurn(u)
  BY <1>1, TurnIsAlone
<1>3. \A u \in Coro : ~ HasTurn(u)'
  BY <1>2 DEF HasTurn, Pending
<1>4. request # completion
  <2>1. Dist(ticket[t], completion) \in Nat /\ Dist(request, completion) \in Nat
    BY DistType, ModulusPositive DEF Inv, TypeOK
  <2>2. Dist(ticket[t], completion) < Dist(request, completion)
    BY <1>1 DEF Inv, TicketsInWindow
  <2> QED
    BY <2>1, <2>2, DistType DEF Inv, TypeOK
<1>5. Dist(request', completion') = Dist(request, completion) - 1
  BY <1>1, <1>4, DistShrinks DEF Inv, TypeOK
<1>6. \A u \in Coro : Pending(u) /\ u # t =>
         Dist(ticket'[u], completion') = Dist(ticket[u], completion) - 1
  BY <1>1, <1>2, DistShrinks DEF Inv, TypeOK
<1>7. \A u \in Coro : Dist(ticket[u], completion) \in Int
  BY DistType DEF Inv, TypeOK
<1>8. Dist(request, completion) \in Int
  BY DistType DEF Inv, TypeOK
<1>9. TicketsInWindow'
  BY <1>5, <1>6, <1>7, <1>8 DEF Inv, TicketsInWindow
<1>10. TicketsDistinct'
  BY DEF Inv, TicketsDistinct
<1>11. WindowCounted'
  <2>1. Holders' = Holders \ {t} /\ t \in Holders
    BY <1>1 DEF Holders
  <2>2. Cardinality(Holders') = Cardinality(Holders) - 1 /\ Cardinality(Holders) \in Nat
    BY <2>1, HoldersFinite, FS_RemoveElement, FS_CardinalityType
  <2> QED
    BY <2>2, <1>5, <1>8 DEF Inv, WindowCounted
<1>12. TurnIsShown' /\ LoadIsFresh'
  BY <1>3 DEF TurnIsShown, LoadIsFresh
<1> QED
  BY <1>9, <1>10, <1>11, <1>12

LEMMA PassOnInv ==
  ASSUME Inv, NEW t \in Coro, PassOn(t)
  PROVE  Inv'
<1>1. /\ pc[t] = "rdstore"
      /\ completion' = Succ(loaded[t])
      /\ pc' = [pc EXCEPT ![t] = "reading"]
      /\ ticket' = [ticket EXCEPT ![t] = 0]
      /\ penalty' = [penalty EXCEPT ![t] = 0]
      /\ loaded' = [loaded EXCEPT ![t] = 0]
      /\ UNCHANGED <<request, nreaders, queue>>
  BY DEF PassOn, Goto, DropLocals
<1>2. TypeOK'
  <2>1. 0 \in Ticket /\ completion' \in Ticket
    BY <1>1, SuccType, ModulusPositive DEF Inv, TypeOK, Ticket
  <2> QED
    BY <1>1, <2>1 DEF Inv, TypeOK
<1>3. \A u \in Coro :
         /\ Pending(u)' <=> Pending(u) /\ u # t
         /\ InReaders(u)' <=> InReaders(u)
         /\ HasTurn(u)' <=> HasTurn(u) /\ u # t
         /\ InWriter(u)' <=> InWriter(u)
         /\ pc'[u] \in {"rdstore", "wrstore"} => HasTurn(u)'
         /\ u # t => ticket'[u] = ticket[u]
  BY <1>1 DEF Inv, TypeOK, Pending, InReaders, HasTurn, InWriter
<1>4. TicketsInWindow' /\ TicketsDistinct' /\ WindowCounted' /\ TurnIsShown' /\ LoadIsFresh'
  BY <1>1, <1>2, <1>3, PassOnWindow
<1>5. Readers' = Readers
  BY <1>3 DEF Readers
<1>6. ReadersCounted' /\ WriterFindsNone'
  BY <1>1, <1>3, <1>5 DEF Inv, ReadersCounted, WriterFindsNone
<1> QED
  BY <1>2, <1>4, <1>6 DEF Inv

LEMMA LeaveWritingInv ==
  ASSUME Inv, NEW c \in Carrier, NEW t \in Coro, queue[c] # <<>>, LeaveWriting(c, t)
  PROVE  Inv'
<1>1. /\ pc[t] = "wrstore"
      /\ completion' = Succ(loaded[t])
      /\ pc' = [pc EXCEPT ![t] = "idle"]
      /\ ticket' = [ticket EXCEPT ![t] = 0]
      /\ penalty' = [penalty EXCEPT ![t] = 0]
      /\ loaded' = [loaded EXCEPT ![t] = 0]
      /\ UNCHANGED <<request, nreaders>>
  BY DEF LeaveWriting, Goto, DropLocals
<1>2. TypeOK'
  <2>1. 0 \in Ticket /\ completion' \in Ticket
    BY <1>1, SuccType, ModulusPositive DEF Inv, TypeOK, Ticket
  <2>2. queue' \in [Carrier -> Seq(Coro)]
    BY RotateType DEF Inv, LeaveWriting
  <2> QED
    BY <1>1, <2>1, <2>2 DEF Inv, TypeOK
<1>3. \A u \in Coro :
         /\ Pending(u)' <=> Pending(u) /\ u # t
         /\ InReaders(u)' <=> InReaders(u)
         /\ HasTurn(u)' <=> HasTurn(u) /\ u # t
         /\ InWriter(u)' <=> InWriter(u) /\ u # t
         /\ pc'[u] \in {"rdstore", "wrstore"} => HasTurn(u)'
         /\ u # t => ticket'[u] = ticket[u]
  BY <1>1 DEF Inv, TypeOK, Pending, InReaders, HasTurn, InWriter
<1>4. TicketsInWindow' /\ TicketsDistinct' /\ WindowCounted' /\ TurnIsShown' /\ LoadIsFresh'
  BY <1>1, <1>2, <1>3, PassOnWindow
<1>5. Readers' = Readers
  BY <1>3 DEF Readers
<1>6. ReadersCounted' /\ WriterFindsNone'
  BY <1>1, <1>3, <1>5 DEF Inv, ReadersCounted, WriterFindsNone
<1> QED
  BY <1>2, <1>4, <1>6 DEF Inv

-----------------------------------------------------------------------------
LEMMA NextInv == Inv /\ [Next]_vars => Inv'
<1> SUFFICES ASSUME Inv, [Next]_vars PROVE Inv'
  OBVIOUS
<1>1. ASSUME NEW c \in Carrier, queue[c] # <<>>, NEW t \in Coro,
             Step(c, t) \/ Draw(t) \/ YieldElsewhere(c, t)
      PROVE  Inv'
  BY <1>1, TestTurnInv, CountInInv, LoadInv, PassOnInv, TestReadersInv,
     LeaveWritingInv, LeaveReadingInv, BeginUnlockInv, DrawInv, YieldInv
     DEF Step, Unlock
<1>2. \A c \in Carrier : queue[c] # <<>> => Running(c) \in Coro
  BY DEF Inv, TypeOK, Running
<1>3. CASE Next
  BY <1>1, <1>2, <1>3 DEF Next
<1>4. CASE UNCHANGED vars
  <2>1. TypeOK'
    BY <1>4 DEF Inv, TypeOK, vars, lockVars, coroVars
  <2>2. UNCHANGED <<lockVars, coroVars>>
    BY <1>4 DEF vars
  <2>3. \A u \in Coro :
           /\ Pending(u)' <=> Pending(u)
           /\ InReaders(u)' <=> InReaders(u)
           /\ HasTurn(u)' <=> HasTurn(u)
           /\ InWriter(u)' <=> InWriter(u)
    BY <2>2 DEF Pending, InReaders, HasTurn, InWriter, coroVars
  <2>4. TurnIsShown' /\ LoadIsFresh' /\ WriterFindsNone'
    BY <2>2, <2>3 DEF Inv, TurnIsShown, LoadIsFresh, WriterFindsNone, Readers, lockVars, coroVars
  <2> QED
    BY <2>1, <2>2, <2>3, <2>4, QuietStep DEF lockVars, coroVars
<1> QED
  BY <1>3, <1>4

LEMMA Invariance == Spec => []Inv
BY InitInv, NextInv, PTL DEF Spec

\* The variables of the spinlock and of its users keep their types: the
\* counters, uint32_t that wrap, stay below the modulus (p7/rwspin.c).
THEOREM TypeCorrect == Spec => []TypeOK
<1>1. Inv => TypeOK
  BY DEF Inv
<1> QED
  BY <1>1, Invariance, PTL

LEMMA InvExcludes == Inv => WriterExclusion
<1> SUFFICES ASSUME Inv, NEW w \in Writers PROVE Readers = {} /\ Writers = {w}
  BY DEF WriterExclusion
<1>1. w \in Coro /\ InWriter(w)
  BY DEF Writers
<1>2. Readers = {}
  BY <1>1 DEF Inv, WriterFindsNone
<1>3. ASSUME NEW u \in Writers PROVE u = w
  <2>1. u \in Coro /\ HasTurn(u) /\ Pending(u) /\ HasTurn(w)
    BY <1>1 DEF Writers, InWriter, HasTurn, Pending
  <2> QED
    BY <1>1, <2>1, TurnIsAlone
<1> QED
  BY <1>2, <1>3

\* A writer has the lock for itself, for any number of coroutines on any
\* carriers, as long as fewer than 2^32 of them hold a ticket
\* (p7_rwspinlock_wrlock and p7_rwspinlock_rdlock).
THEOREM WritersExclude == Spec => []WriterExclusion
BY InvExcludes, Invariance, PTL

-----------------------------------------------------------------------------
(***************************************************************************)
(* The lock is fair: it implements FairLock.                               *)
(*                                                                         *)
(* `Line' is abstract, the coroutines in the order of their tickets; the    *)
(* proof uses only that everyone has its place there (Ordered).  A step of   *)
(* `completion' brings all tickets nearer by one and leaves their order; a    *)
(* new ticket is the farthest; who has its turn is the nearest.            *)
(***************************************************************************)
Place(t) == Cardinality(Ahead(t)) + 1

Ordered ==
    /\ Line \in Seq(Coro \X {"reader", "writer"}) /\ Len(Line) = Cardinality(Waiting)
    /\ \A t \in Waiting : /\ Place(t) \in 1 .. Cardinality(Waiting)
                          /\ Line[Place(t)] = <<t, Role(t)>>
    /\ \A i \in 1 .. Cardinality(Waiting) : \E t \in Waiting : Place(t) = i

\* In a finite set with an order, each member has a place.
Rank(W, dist, t) == Cardinality({u \in W : dist[u] < dist[t]}) + 1

LEMMA MembersRanked ==
    ASSUME NEW W, IsFiniteSet(W), NEW dist \in [W -> Int],
           \A t, u \in W : dist[t] = dist[u] => t = u
    PROVE  /\ Cardinality(W) \in Nat
           /\ \A t \in W : Rank(W, dist, t) \in 1 .. Cardinality(W)
           /\ \A t, u \in W : Rank(W, dist, t) = Rank(W, dist, u) => t = u
           /\ \A i \in 1 .. Cardinality(W) : \E t \in W : Rank(W, dist, t) = i
<1> DEFINE before(t) == {u \in W : dist[u] < dist[t]}
           place(t)  == Cardinality(before(t)) + 1
           D         == 1 .. Cardinality(W)
           f         == [t \in W |-> place(t)]
<1>1. Cardinality(W) \in Nat
  BY FS_CardinalityType
<1>2. \A t \in W : IsFiniteSet(before(t)) /\ Cardinality(before(t)) \in Nat
  <2> TAKE t \in W
  <2>1. before(t) \in SUBSET W
    OBVIOUS
  <2> QED
    BY <2>1, FS_Subset, FS_CardinalityType
<1>3. ASSUME NEW t \in W PROVE place(t) \in D
  <2>1. before(t) \in SUBSET (W \ {t})
    OBVIOUS
  <2>2. IsFiniteSet(W \ {t}) /\ Cardinality(W \ {t}) = Cardinality(W) - 1
    BY FS_RemoveElement
  <2>3. Cardinality(before(t)) <= Cardinality(W) - 1
    BY <2>1, <2>2, FS_Subset
  <2> QED
    BY <1>1, <1>2, <2>3
<1>4. ASSUME NEW t \in W, NEW u \in W, dist[t] < dist[u]
      PROVE  Cardinality(before(t)) < Cardinality(before(u))
  <2>1. before(t) \in SUBSET before(u)
    <3>1. \A v \in W : dist[v] \in Int
      OBVIOUS
    <3> QED
      BY <1>4, <3>1
  <2>2. t \in before(u) /\ t \notin before(t)
    BY <1>4
  <2>3. /\ Cardinality(before(t)) <= Cardinality(before(u))
        /\ Cardinality(before(u)) # Cardinality(before(t))
    BY <1>2, <2>1, <2>2, FS_Subset
  <2> QED
    BY <1>2, <2>3
<1>5. ASSUME NEW t \in W, NEW u \in W, Cardinality(before(t)) = Cardinality(before(u))
      PROVE  t = u
  <2>1. dist[t] < dist[u] \/ dist[u] < dist[t] \/ dist[t] = dist[u]
    OBVIOUS
  <2>2. /\ dist[t] < dist[u] => Cardinality(before(t)) < Cardinality(before(u))
        /\ dist[u] < dist[t] => Cardinality(before(u)) < Cardinality(before(t))
    BY <1>4
  <2>3. Cardinality(before(t)) \in Nat /\ Cardinality(before(u)) \in Nat
    BY <1>2
  <2> HIDE DEF before
  <2>4. dist[t] = dist[u]
    BY <1>5, <2>1, <2>2, <2>3
  <2> QED
    BY <2>4
<1>6. \A i \in D : \E t \in W : place(t) = i
  <2>1. IsFiniteSet(D) /\ Cardinality(D) = Cardinality(W)
    BY <1>1, FS_Interval
  <2>2. f \in [W -> D]
    BY <1>3
  <2>3. \A t, u \in W : f[t] = f[u] => t = u
    <3> TAKE t, u \in W
    <3>1. f[t] = place(t) /\ f[u] = place(u)
      OBVIOUS
    <3>2. Cardinality(before(t)) \in Nat /\ Cardinality(before(u)) \in Nat
      BY <1>2
    <3>3. Cardinality(before(t)) = Cardinality(before(u)) => t = u
      BY <1>5
    <3> HIDE DEF f, before
    <3> QED
      BY <3>1, <3>2, <3>3
  <2>4. f \in Injection(W, D)
    BY <2>2, <2>3, Fun_IsInj
  <2>5. f \in Surjection(W, D)
    BY <2>1, <2>4, FS_Injection
  <2> QED
    BY <2>5 DEF Surjection
<1>7. \A t \in W : Rank(W, dist, t) = place(t) /\ Cardinality(before(t)) \in Nat
  BY <1>2 DEF Rank
<1>8. \A t, u \in W : Rank(W, dist, t) = Rank(W, dist, u) => t = u
  <2> TAKE t, u \in W
  <2>1. Rank(W, dist, t) = Cardinality(before(t)) + 1
        /\ Rank(W, dist, u) = Cardinality(before(u)) + 1
    BY <1>7
  <2>2. Cardinality(before(t)) \in Nat /\ Cardinality(before(u)) \in Nat
    BY <1>2
  <2>3. Cardinality(before(t)) = Cardinality(before(u)) => t = u
    BY <1>5
  <2> HIDE DEF before
  <2> QED
    BY <2>1, <2>2, <2>3
<1> QED
  BY <1>1, <1>3, <1>6, <1>7, <1>8

LEMMA WaitingHold ==
    /\ IsFiniteSet(Waiting)
    /\ \A t \in Waiting : t \in Coro /\ Pending(t)
<1>1. Waiting \in SUBSET Coro
  BY DEF Waiting
<1>2. IsFiniteSet(Waiting)
  BY <1>1, RWSpinAssumption, FS_Subset
<1> QED
  BY <1>2 DEF Waiting, InLine, Pending

LEMMA LineOrdered == Inv => Ordered
<1> SUFFICES ASSUME Inv PROVE Ordered
  OBVIOUS
<1> DEFINE dist == [t \in Waiting |-> Dist(ticket[t], completion)]
           n == Cardinality(Waiting)
           at(i) == CHOOSE u \in Waiting : Cardinality(Ahead(u)) = i - 1
<1>1. \A t \in Waiting : ticket[t] \in Ticket /\ completion \in Ticket
  BY WaitingHold DEF Inv, TypeOK
<1>2. dist \in [Waiting -> Int]
  BY <1>1, DistType
<1>3. \A t, u \in Waiting : dist[t] = dist[u] => t = u
  <2> TAKE t, u \in Waiting
  <2> HAVE dist[t] = dist[u]
  <2>1. ticket[t] = ticket[u]
    BY <1>1, DistInjective
  <2> QED
    BY <2>1, WaitingHold DEF Inv, TicketsDistinct
<1>4. \A t \in Waiting : Ahead(t) = {u \in Waiting : dist[u] < dist[t]}
  BY DEF Ahead
<1>5. /\ n \in Nat
      /\ \A t \in Waiting : Place(t) \in 1 .. n
      /\ \A t, u \in Waiting : Place(t) = Place(u) => t = u
      /\ \A i \in 1 .. n : \E t \in Waiting : Place(t) = i
  <2>1. \A t \in Waiting : Place(t) = Rank(Waiting, dist, t)
    BY <1>4 DEF Place, Rank
  <2> HIDE DEF dist
  <2>2. /\ Cardinality(Waiting) \in Nat
        /\ \A t \in Waiting : Rank(Waiting, dist, t) \in 1 .. Cardinality(Waiting)
        /\ \A t, u \in Waiting : Rank(Waiting, dist, t) = Rank(Waiting, dist, u) => t = u
        /\ \A i \in 1 .. Cardinality(Waiting) : \E t \in Waiting : Rank(Waiting, dist, t) = i
    BY <1>2, <1>3, WaitingHold, MembersRanked
  <2> QED
    BY <2>1, <2>2
<1>6. \A t \in Waiting : Cardinality(Ahead(t)) \in Nat
  <2> TAKE t \in Waiting
  <2>1. Ahead(t) \in SUBSET Waiting
    BY DEF Ahead
  <2> QED
    BY <2>1, WaitingHold, FS_Subset, FS_CardinalityType
<1>7. \A t \in Waiting : at(Place(t)) = t
  <2> TAKE t \in Waiting
  <2>1. Place(t) - 1 = Cardinality(Ahead(t))
    BY <1>6 DEF Place
  <2>2. \A u \in Waiting : Cardinality(Ahead(u)) = Place(t) - 1 => u = t
    BY <1>5, <2>1 DEF Place
  <2> QED
    BY <2>1, <2>2
<1>8. Line = [i \in 1 .. n |-> <<at(i), Role(at(i))>>]
  BY DEF Line
<1>9. \A t \in Waiting : Line[Place(t)] = <<t, Role(t)>>
  <2> HIDE DEF at
  <2> QED
    BY <1>5, <1>7, <1>8
<1>10. Line \in Seq(Coro \X {"reader", "writer"}) /\ Len(Line) = n
  <2>1. \A i \in 1 .. n : at(i) \in Coro
    <3> TAKE i \in 1 .. n
    <3>1. PICK t \in Waiting : Place(t) = i
      BY <1>5
    <3> QED
      BY <1>7, <3>1, WaitingHold
  <2> HIDE DEF at
  <2>2. \A t : Role(t) \in {"reader", "writer"}
    BY DEF Role
  <2>3. Line \in [1 .. n -> Coro \X {"reader", "writer"}]
    BY <1>8, <2>1, <2>2
  <2> QED
    BY <1>5, <2>3
<1> QED
  BY <1>5, <1>9, <1>10 DEF Ordered

-----------------------------------------------------------------------------
\* The line depends on the order of those who wait, and on nothing else.
LEMMA SameLine ==
    ASSUME Ordered, Ordered', Waiting' = Waiting,
           \A t \in Waiting : Ahead(t)' = Ahead(t) /\ Role(t)' = Role(t)
    PROVE  Line' = Line
<1> DEFINE S == Coro \X {"reader", "writer"}
<1>1. \A t \in Waiting : Place(t)' = Place(t)
  BY DEF Place
<1>2. /\ Line \in Seq(S) /\ Line' \in Seq(S)
      /\ Len(Line) = Cardinality(Waiting) /\ Len(Line') = Cardinality(Waiting)
  BY DEF Ordered
<1>3. \A i \in 1 .. Cardinality(Waiting) : Line'[i] = Line[i]
  BY <1>1 DEF Ordered
<1> HIDE DEF Line, S
<1> QED
  BY <1>2, <1>3, SeqEqual

\* Who comes last.
LEMMA LineGrows ==
    ASSUME Ordered, Ordered', NEW t \in Coro, t \notin Waiting,
           Waiting' = Waiting \cup {t}, Ahead(t)' = Waiting,
           \A u \in Waiting : Ahead(u)' = Ahead(u) /\ Role(u)' = Role(u)
    PROVE  Line' = Append(Line, <<t, Role(t)'>>)
<1> DEFINE S == Coro \X {"reader", "writer"}
           n == Cardinality(Waiting)
           x == <<t, Role(t)'>>
<1>1. n \in Nat /\ Cardinality(Waiting') = n + 1
  BY WaitingHold, FS_CardinalityType, FS_AddElement
<1>2. /\ Line \in Seq(S) /\ Line' \in Seq(S)
      /\ Len(Line) = n /\ Len(Line') = n + 1
  BY <1>1 DEF Ordered
<1>3. Line'[n + 1] = x
  <2>1. Place(t)' = n + 1
    BY DEF Place
  <2> QED
    BY <2>1 DEF Ordered
<1>4. ASSUME NEW i \in 1 .. n PROVE Line'[i] = Line[i]
  <2>1. PICK u \in Waiting : Place(u) = i
    BY DEF Ordered
  <2>2. Place(u)' = i
    BY <2>1 DEF Place
  <2> QED
    BY <2>1, <2>2 DEF Ordered
<1>5. x \in S
  BY DEF Role
<1> HIDE DEF Line, S, n, x
<1>6. /\ Append(Line, x) \in Seq(S) /\ Len(Append(Line, x)) = n + 1
      /\ Append(Line, x)[n + 1] = x /\ \A i \in 1 .. n : Append(Line, x)[i] = Line[i]
  BY <1>1, <1>2, <1>5, AppendProperties
<1>7. \A i \in 1 .. n + 1 : Line'[i] = Append(Line, x)[i]
  BY <1>1, <1>3, <1>4, <1>6
<1>8. Line' = Append(Line, x)
  BY <1>2, <1>6, <1>7, SeqEqual
<1> QED
  BY <1>8 DEF x

\* Who comes first leaves.
LEMMA LineShrinks ==
    ASSUME Ordered, Ordered', NEW t \in Waiting, Ahead(t) = {},
           Waiting' = Waiting \ {t},
           \A u \in Waiting \ {t} : /\ t \in Ahead(u) /\ Ahead(u)' = Ahead(u) \ {t}
                                    /\ Role(u)' = Role(u)
    PROVE  Line # <<>> /\ Line' = Tail(Line) /\ Head(Line) = <<t, Role(t)>>
<1> DEFINE S == Coro \X {"reader", "writer"}
           n == Cardinality(Waiting)
<1>1. n \in Nat /\ n # 0 /\ Cardinality(Waiting') = n - 1
  BY WaitingHold, FS_CardinalityType, FS_RemoveElement, FS_EmptySet
<1>2. /\ Line \in Seq(S) /\ Line' \in Seq(S)
      /\ Len(Line) = n /\ Len(Line') = n - 1
  BY <1>1 DEF Ordered
<1>3. Line[1] = <<t, Role(t)>>
  <2>1. Place(t) = 1
    BY FS_EmptySet DEF Place
  <2> QED
    BY <2>1 DEF Ordered
<1>4. ASSUME NEW i \in 1 .. n - 1 PROVE Line'[i] = Line[i + 1]
  <2>1. PICK u \in Waiting' : Place(u)' = i
    BY <1>1 DEF Ordered
  <2>2. u \in Waiting \ {t}
    BY <2>1
  <2>3. IsFiniteSet(Ahead(u)) /\ Cardinality(Ahead(u)) \in Nat
    <3>1. Ahead(u) \in SUBSET Waiting
      BY DEF Ahead
    <3> QED
      BY <3>1, WaitingHold, FS_Subset, FS_CardinalityType
  <2>4. Cardinality(Ahead(u)') = Cardinality(Ahead(u)) - 1
    BY <2>2, <2>3, FS_RemoveElement
  <2>5. Place(u) = i + 1
    BY <2>1, <2>3, <2>4 DEF Place
  <2> QED
    BY <2>1, <2>2, <2>5 DEF Ordered
<1> HIDE DEF Line, S, n
<1>5. /\ Line # <<>> /\ Head(Line) = Line[1] /\ Tail(Line) \in Seq(S)
      /\ Len(Tail(Line)) = n - 1 /\ \A i \in 1 .. n - 1 : Tail(Line)[i] = Line[i + 1]
  BY <1>1, <1>2, HeadTailProperties, EmptySeq
<1>6. Line' = Tail(Line)
  BY <1>2, <1>4, <1>5, SeqEqual
<1> QED
  BY <1>3, <1>5, <1>6

-----------------------------------------------------------------------------
(***************************************************************************)
(* The steps.                                                              *)
(***************************************************************************)
\* Neither in the line nor at the lock does anything change.
LEMMA QuietRefines ==
    ASSUME Ordered, Ordered', UNCHANGED <<completion, ticket>>,
           \A t \in Coro : /\ InLine(t)' <=> InLine(t)
                           /\ InReaders(t)' <=> InReaders(t)
                           /\ InWriter(t)' <=> InWriter(t)
                           /\ Role(t)' = Role(t)
    PROVE  UNCHANGED Lock!fairLockVars
<1>1. Waiting' = Waiting /\ Readers' = Readers /\ Writers' = Writers
  BY DEF Waiting, Readers, Writers
<1>2. \A t \in Waiting : Ahead(t)' = Ahead(t) /\ Role(t)' = Role(t)
  BY <1>1, WaitingHold DEF Ahead
<1>3. Line' = Line
  BY <1>1, <1>2, SameLine
<1> QED
  BY <1>1, <1>3 DEF Lock!fairLockVars

LEMMA WaitersRefine ==
    ASSUME Inv, Ordered, Ordered', NEW c \in Carrier, NEW t \in Coro,
           \/ YieldElsewhere(c, t) \/ TestTurn(c, t) \/ LoadCompletion(t) \/ BeginUnlock(t)
           \/ (TestReaders(c, t) /\ nreaders # 0) \/ UNCHANGED vars
    PROVE  UNCHANGED Lock!fairLockVars
<1>1. UNCHANGED <<completion, ticket>>
  BY DEF YieldElsewhere, TestTurn, LoadCompletion, BeginUnlock, TestReaders, lockVars, coroVars, vars
<1>2. \/ UNCHANGED pc
      \/ /\ pc' = [pc EXCEPT ![t] = IF pc[t] = "rdwait" THEN "enter" ELSE "drain"]
         /\ pc[t] \in {"rdwait", "wrwait"}
      \/ /\ pc' = [pc EXCEPT ![t] = IF pc[t] = "rdload" THEN "rdstore" ELSE "wrstore"]
         /\ pc[t] \in {"rdload", "wrload"}
      \/ pc' = [pc EXCEPT ![t] = "wrload"] /\ pc[t] = "writing"
  BY DEF YieldElsewhere, TestTurn, LoadCompletion, BeginUnlock, TestReaders, Goto, coroVars, vars
<1>3. \A u \in Coro : /\ InLine(u)' <=> InLine(u)
                      /\ InReaders(u)' <=> InReaders(u)
                      /\ InWriter(u)' <=> InWriter(u)
                      /\ Role(u)' = Role(u)
  BY <1>2 DEF Inv, TypeOK, InLine, InReaders, InWriter, Role
<1> QED
  BY <1>1, <1>3, QuietRefines

\* A ticket that is drawn is the farthest.
LEMMA DrawRefines ==
    ASSUME Inv, Inv', Ordered, Ordered', NEW t \in Coro, Draw(t)
    PROVE  \E role \in {"reader", "writer"} : Lock!Arrive(t, role)
<1>1. PICK l \in {"rdwait", "wrwait"} : pc' = [pc EXCEPT ![t] = l]
  BY DEF Draw, Goto
<1>2. /\ pc[t] = "idle" /\ ticket' = [ticket EXCEPT ![t] = request] /\ UNCHANGED completion
  BY DEF Draw
<1>3. \A u \in Coro : /\ InLine(u)' <=> InLine(u) \/ u = t
                      /\ InReaders(u)' <=> InReaders(u)
                      /\ InWriter(u)' <=> InWriter(u)
                      /\ u # t => ticket'[u] = ticket[u] /\ Role(u)' = Role(u)
  BY <1>1, <1>2 DEF Inv, TypeOK, InLine, InReaders, InWriter, Role
<1>4. ticket'[t] = request /\ t \notin Waiting
  BY <1>2 DEF Inv, TypeOK, Waiting, InLine
<1>5. Waiting' = Waiting \cup {t} /\ Readers' = Readers /\ Writers' = Writers
  BY <1>3 DEF Waiting, Readers, Writers
<1>6. \A u \in Waiting : /\ Dist(ticket[u], completion) < Dist(request, completion)
                         /\ Dist(ticket[u], completion) \in Int
                         /\ u # t /\ ticket'[u] = ticket[u] /\ Role(u)' = Role(u)
  <2> TAKE u \in Waiting
  <2>1. u \in Coro /\ Pending(u) /\ u # t
    BY <1>4, WaitingHold
  <2>2. Dist(ticket[u], completion) \in Int
    BY <2>1, DistType DEF Inv, TypeOK
  <2> QED
    BY <1>3, <2>1, <2>2 DEF Inv, TicketsInWindow
<1>7. Dist(request, completion) \in Int
  BY DistType DEF Inv, TypeOK
<1>8. Ahead(t)' = Waiting
  BY <1>2, <1>4, <1>5, <1>6, <1>7 DEF Ahead
<1>9. \A u \in Waiting : Ahead(u)' = Ahead(u) /\ Role(u)' = Role(u)
  BY <1>2, <1>4, <1>5, <1>6, <1>7 DEF Ahead
<1>10. Line' = Append(Line, <<t, Role(t)'>>)
  BY <1>4, <1>5, <1>8, <1>9, LineGrows
<1> QED
  BY <1>5, <1>10 DEF Lock!Arrive, Role

\* Who has its turn is the nearest.
LEMMA TurnIsFirst ==
    ASSUME Inv, NEW t \in Waiting, HasTurn(t)
    PROVE  /\ Ahead(t) = {} /\ Writers = {}
           /\ \A u \in Waiting \ {t} : t \in Ahead(u)
<1>1. t \in Coro /\ Pending(t) /\ ticket[t] = completion
  BY WaitingHold DEF Inv, TurnIsShown
<1>2. \A u \in Coro : /\ Dist(ticket[u], completion) \in Nat
                      /\ Dist(ticket[u], completion) = 0 <=> ticket[u] = completion
  BY ModulusPositive, DistType DEF Inv, TypeOK
<1>3. \A u \in Waiting \ {t} : ticket[u] # completion
  BY <1>1, WaitingHold, TurnIsAlone
<1>4. Writers = {}
  <2> SUFFICES ASSUME NEW u \in Coro, InWriter(u) PROVE FALSE
    BY DEF Writers
  <2>1. Pending(u) /\ HasTurn(u) /\ u # t
    BY DEF InWriter, Pending, HasTurn, Waiting, InLine
  <2> QED
    BY <1>1, <2>1, TurnIsAlone
<1> QED
  BY <1>1, <1>2, <1>3, <1>4, WaitingHold DEF Ahead

\* A reader that counts itself in, or a writer that finds no reader left.
LEMMA ServeRefines ==
    ASSUME Inv, Ordered, Ordered', NEW c \in Carrier, NEW t \in Coro,
           CountIn(t) \/ (TestReaders(c, t) /\ nreaders = 0)
    PROVE  Lock!Serve
<1>1. /\ UNCHANGED <<completion, ticket>>
      /\ \/ pc[t] = "enter" /\ pc' = [pc EXCEPT ![t] = "rdload"]
         \/ pc[t] = "drain" /\ pc' = [pc EXCEPT ![t] = "writing"] /\ nreaders = 0
  BY DEF CountIn, TestReaders, Goto, lockVars
<1>2. t \in Waiting /\ HasTurn(t)
  BY <1>1 DEF Waiting, InLine, HasTurn
<1>3. \A u \in Coro : /\ InLine(u)' <=> InLine(u) /\ u # t
                      /\ u # t => Role(u)' = Role(u)
                      /\ InReaders(u)' <=> InReaders(u) \/ (u = t /\ pc[t] = "enter")
                      /\ InWriter(u)' <=> InWriter(u) \/ (u = t /\ pc[t] = "drain")
  BY <1>1 DEF Inv, TypeOK, InLine, InReaders, InWriter, Role
<1>4. Waiting' = Waiting \ {t}
  BY <1>3 DEF Waiting
<1>5. \A u \in Waiting \ {t} : /\ t \in Ahead(u) /\ Ahead(u)' = Ahead(u) \ {t}
                               /\ Role(u)' = Role(u)
  <2>1. \A u \in Waiting \ {t} : t \in Ahead(u)
    BY <1>2, TurnIsFirst
  <2>2. \A u \in Waiting \ {t} : Ahead(u)' = Ahead(u) \ {t}
    BY <1>1, <1>4 DEF Ahead
  <2> QED
    BY <1>3, <2>1, <2>2, WaitingHold
<1>6. Ahead(t) = {} /\ Writers = {}
  BY <1>2, TurnIsFirst
<1>7. Line # <<>> /\ Line' = Tail(Line) /\ Head(Line) = <<t, Role(t)>>
  BY <1>2, <1>4, <1>5, <1>6, LineShrinks
<1>8. CASE pc[t] = "enter"
  <2>1. Readers' = Readers \cup {t} /\ Writers' = Writers
    BY <1>3, <1>8 DEF Readers, Writers
  <2>2. Role(t) = "reader"
    BY <1>8 DEF Role
  <2> QED
    BY <1>6, <1>7, <2>1, <2>2 DEF Lock!Serve
<1>9. CASE pc[t] = "drain"
  <2>1. Readers = {}
    BY <1>1, <1>9, HoldersFinite, FS_EmptySet DEF Inv, ReadersCounted
  <2>2. Readers' = Readers /\ Writers' = Writers \cup {t}
    BY <1>3, <1>9 DEF Readers, Writers
  <2>3. Role(t) = "writer"
    BY <1>9 DEF Role
  <2> QED
    BY <1>6, <1>7, <2>1, <2>2, <2>3 DEF Lock!Serve
<1> QED
  BY <1>1, <1>8, <1>9

\* All who wait come nearer by one.
LEMMA TurnMoves ==
    ASSUME Inv, Ordered, Ordered', NEW t \in Coro, pc[t] \in {"rdstore", "wrstore"},
           completion' = Succ(loaded[t]), ticket' = [ticket EXCEPT ![t] = 0],
           pc' = [pc EXCEPT ![t] = IF pc[t] = "rdstore" THEN "reading" ELSE "idle"]
    PROVE  Line' = Line
<1>1. HasTurn(t) /\ Pending(t) /\ loaded[t] = completion /\ t \notin Waiting
  BY DEF HasTurn, Pending, Inv, LoadIsFresh, Waiting, InLine
<1>2. \A u \in Coro : /\ InLine(u)' <=> InLine(u)
                      /\ InLine(u) => Role(u)' = Role(u)
                      /\ u # t => ticket'[u] = ticket[u]
  BY DEF Inv, TypeOK, InLine, Role
<1>3. Waiting' = Waiting /\ \A u \in Waiting : Role(u)' = Role(u)
  BY <1>2 DEF Waiting
<1>4. \A u \in Waiting :
         /\ Dist(ticket'[u], completion') = Dist(ticket[u], completion) - 1
         /\ Dist(ticket[u], completion) \in Int
  <2> TAKE u \in Waiting
  <2>1. u \in Coro /\ Pending(u) /\ u # t
    BY <1>1, WaitingHold
  <2>2. ticket[u] # completion
    BY <1>1, <2>1, TurnIsAlone
  <2> QED
    BY <1>1, <1>2, <2>1, <2>2, DistShrinks, DistType DEF Inv, TypeOK
<1>5. \A u \in Waiting : Ahead(u)' = Ahead(u)
  <2> TAKE u \in Waiting
  <2>1. \A v \in Waiting : Dist(ticket[v], completion) - 1 < Dist(ticket[u], completion) - 1
                             <=> Dist(ticket[v], completion) < Dist(ticket[u], completion)
    BY <1>4
  <2> QED
    BY <1>3, <1>4, <2>1 DEF Ahead
<1> QED
  BY <1>3, <1>5, SameLine

LEMMA PassOnRefines ==
    ASSUME Inv, Ordered, Ordered', NEW t \in Coro, PassOn(t)
    PROVE  UNCHANGED Lock!fairLockVars
<1>1. /\ pc[t] = "rdstore" /\ pc' = [pc EXCEPT ![t] = "reading"]
      /\ completion' = Succ(loaded[t]) /\ ticket' = [ticket EXCEPT ![t] = 0]
  BY DEF PassOn, Goto, DropLocals
<1>2. Line' = Line
  BY <1>1, TurnMoves
<1>3. Readers' = Readers /\ Writers' = Writers
  BY <1>1 DEF Inv, TypeOK, Readers, InReaders, Writers, InWriter
<1> QED
  BY <1>2, <1>3 DEF Lock!fairLockVars

LEMMA LeaveRefines ==
    ASSUME Inv, Ordered, Ordered', NEW c \in Carrier, NEW t \in Coro,
           LeaveReading(c, t) \/ LeaveWriting(c, t)
    PROVE  Lock!Leave(t)
<1>1. CASE LeaveReading(c, t)
  <2>1. /\ pc[t] = "reading" /\ pc' = [pc EXCEPT ![t] = "idle"]
        /\ UNCHANGED <<completion, ticket>>
    BY <1>1 DEF LeaveReading, Goto
  <2>2. \A u \in Coro : /\ InLine(u)' <=> InLine(u)
                        /\ InLine(u) => Role(u)' = Role(u)
                        /\ InReaders(u)' <=> InReaders(u) /\ u # t
                        /\ InWriter(u)' <=> InWriter(u) /\ u # t
    BY <2>1 DEF Inv, TypeOK, InLine, InReaders, InWriter, Role
  <2>3. Waiting' = Waiting /\ \A u \in Waiting : Role(u)' = Role(u)
    BY <2>2 DEF Waiting
  <2>4. \A u \in Waiting : Ahead(u)' = Ahead(u)
    BY <2>1, <2>3 DEF Ahead
  <2>5. Line' = Line
    BY <2>3, <2>4, SameLine
  <2>6. Readers' = Readers \ {t} /\ Writers' = Writers \ {t} /\ t \in Readers
    BY <2>1, <2>2 DEF Readers, InReaders, Writers
  <2> QED
    BY <2>5, <2>6 DEF Lock!Leave
<1>2. CASE LeaveWriting(c, t)
  <2>1. /\ pc[t] = "wrstore" /\ pc' = [pc EXCEPT ![t] = "idle"]
        /\ completion' = Succ(loaded[t]) /\ ticket' = [ticket EXCEPT ![t] = 0]
    BY <1>2 DEF LeaveWriting, Goto, DropLocals
  <2>2. Line' = Line
    BY <2>1, TurnMoves
  <2>3. Readers' = Readers \ {t} /\ Writers' = Writers \ {t} /\ t \in Writers
    BY <2>1 DEF Inv, TypeOK, Readers, InReaders, Writers, InWriter
  <2> QED
    BY <2>2, <2>3 DEF Lock!Leave
<1> QED
  BY <1>1, <1>2

LEMMA LineEmpty ==
    ASSUME Init, Ordered
    PROVE  Lock!FairLockInit
<1>1. Waiting = {} /\ Readers = {} /\ Writers = {}
  BY DEF Init, Waiting, InLine, Readers, InReaders, Writers, InWriter
<1>2. Len(Line) = 0 /\ Line \in Seq(Coro \X {"reader", "writer"})
  BY <1>1, FS_EmptySet DEF Ordered
<1> HIDE DEF Line
<1>3. Line = <<>>
  BY <1>2, EmptySeq
<1> QED
  BY <1>1, <1>3 DEF Lock!FairLockInit

\* The lock of p7/rwspin.c serves coroutines in the order of their first
\* fetch-and-add, readers together and a writer alone, whatever their number, the
\* carriers that they share, and the width of the tickets.
THEOREM Fair == Spec => ImplementsFairLock
<1>1. Inv' => Ordered'
  BY LineOrdered, PTL
<1>2. Inv /\ Inv' /\ [Next]_vars => [Lock!FairLockNext]_(Lock!fairLockVars)
  <2> SUFFICES ASSUME Inv, Inv', [Next]_vars
               PROVE  [Lock!FairLockNext]_(Lock!fairLockVars)
    OBVIOUS
  <2>1. Ordered /\ Ordered'
    BY <1>1, LineOrdered
  <2>2. ASSUME NEW c \in Carrier, NEW t \in Coro,
               Step(c, t) \/ Draw(t) \/ YieldElsewhere(c, t)
        PROVE  [Lock!FairLockNext]_(Lock!fairLockVars)
    <3>1. CASE \/ YieldElsewhere(c, t) \/ TestTurn(c, t) \/ LoadCompletion(t) \/ BeginUnlock(t)
               \/ (TestReaders(c, t) /\ nreaders # 0)
      BY <2>1, <3>1, WaitersRefine
    <3>2. CASE Draw(t)
      BY <2>1, <3>2, DrawRefines DEF Lock!FairLockNext
    <3>3. CASE CountIn(t) \/ (TestReaders(c, t) /\ nreaders = 0)
      BY <2>1, <3>3, ServeRefines DEF Lock!FairLockNext
    <3>4. CASE PassOn(t)
      BY <2>1, <3>4, PassOnRefines
    <3>5. CASE LeaveReading(c, t) \/ LeaveWriting(c, t)
      BY <2>1, <3>5, LeaveRefines DEF Lock!FairLockNext
    <3>6. TestReaders(c, t) => (TestReaders(c, t) /\ nreaders = 0)
                                \/ (TestReaders(c, t) /\ nreaders # 0)
      OBVIOUS
    <3> QED
      BY <2>2, <3>1, <3>2, <3>3, <3>4, <3>5, <3>6, Zenon DEF Step, Unlock
  <2>3. CASE UNCHANGED vars
    <3>1. UNCHANGED <<completion, ticket>> /\ UNCHANGED pc
      BY <2>3 DEF vars, lockVars, coroVars
    <3> QED
      BY <2>1, <3>1, QuietRefines DEF InLine, InReaders, InWriter, Role
  <2>4. \A c \in Carrier : queue[c] # <<>> => Running(c) \in Coro
    BY DEF Inv, TypeOK, Running
  <2> QED
    BY <2>2, <2>3, <2>4 DEF Next
<1>3. Init => Lock!FairLockInit
  BY InitInv, LineOrdered, LineEmpty
<1> QED
  BY <1>2, <1>3, Invariance, PTL DEF Spec, ImplementsFairLock, Lock!FairLockSpec
=============================================================================
