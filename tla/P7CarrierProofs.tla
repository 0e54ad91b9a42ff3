-------------------------- MODULE P7CarrierProofs --------------------------
(***************************************************************************)
(* Proofs about P7Carrier for any number of carriers, coroutines and        *)
(* messages: no two threads are ever at the same list of a box, the carrier *)
(* never sleeps for ever over a message or a request, and a struct p7_coro  *)
(* is in one place and serves one coroutine at a time, so that mail within  *)
(* the carrier reaches what it was meant for.  A message is delivered once  *)
(* and in order, and its note follows it if its carrier sends to no other   *)
(* coroutine.                                                               *)
(***************************************************************************)
EXTENDS P7Carrier, ListTheorems

(***************************************************************************)
(* The inductive invariant is about the index bytes and the posters alone.  *)
(***************************************************************************)
posterVars == <<index, lock, ppc, pitem, named>>

PostersTyped ==
    /\ index \in [Box -> 0..3]
    /\ ppc \in [Carrier -> Stages]
    /\ pitem \in [Carrier -> Message \cup Entry \cup {None}]
    /\ named \subseteq Carrier /\ fresh \subseteq Entry

\* Who sends by name sends a message.
NamedCarry ==
    \A p \in Carrier :
        /\ ppc[p] \in {"found", "counted", "uncount"} => p \in named
        /\ p \in named => ppc[p] # "idle" /\ pitem[p] \in Message

\* Between the or-fetch and the and-fetch of BUSY.
Producing(p) == ppc[p] \in {"add0", "add1", "clear"}

\* Who requests a coroutine holds rq_queue_lock until it has cleared BUSY.
RequesterHasLock ==
    \A p \in Carrier : ppc[p] \in {"busy", "add0", "add1", "clear"}
                          /\ pitem[p] \in Entry => lock = p

ProducingMeansBusy ==
    \A p \in Carrier : Producing(p) => IsBusy(index[BoxOf(p)])

\* The side that a poster loaded is still the posters' side.
SideIsKept ==
    \A p \in Carrier : /\ ppc[p] = "add0" => Side(index[BoxOf(p)]) = 0
                       /\ ppc[p] = "add1" => Side(index[BoxOf(p)]) = 1

RaceInv == /\ PostersTyped /\ NamedCarry
           /\ RequesterHasLock /\ ProducingMeansBusy /\ SideIsKept

-----------------------------------------------------------------------------
\* The index byte under the operations of poster and carrier.
LEMMA IndexFacts ==
    ASSUME NEW i \in 0..3
    PROVE  /\ Side(i) \in 0..1 /\ OtherSide(i) \in 0..3
           /\ OtherSide(i) \in 0..1 /\ Side(i) # OtherSide(i)
           /\ WithBusy(i) \in 0..3 /\ NoBusy(i) \in 0..3
           /\ IsBusy(WithBusy(i)) /\ ~ IsBusy(NoBusy(i))
           /\ Side(WithBusy(i)) = Side(i) /\ Side(NoBusy(i)) = Side(i)
           /\ OtherSide(WithBusy(i)) = OtherSide(i)
           /\ OtherSide(NoBusy(i)) = OtherSide(i)
           /\ CanSwap(i) => /\ ~ IsBusy(OtherSide(i))
                            /\ Side(OtherSide(i)) = OtherSide(i)
                            /\ OtherSide(OtherSide(i)) = Side(i)
  <1> USE DEF Side, OtherSide, WithBusy, NoBusy, IsBusy, CanSwap
  <1>1. CASE i = 0  BY <1>1
  <1>2. CASE i = 1  BY <1>2
  <1>3. CASE i = 2  BY <1>3
  <1>4. CASE i = 3  BY <1>4
  <1>5. QED  BY <1>1, <1>2, <1>3, <1>4

\* Two posters of one box request coroutines, and are in each other's way.
LEMMA SharedBox ==
    ASSUME NEW p \in Carrier, NEW q \in Carrier, p # q, BoxOf(p) = BoxOf(q)
    PROVE  pitem[p] \in Entry /\ pitem[q] \in Entry
  BY P7Assumption DEF BoxOf, Carrier, Rq

LEMMA BoxOfIsBox ==
    ASSUME NEW p \in Carrier
    PROVE  BoxOf(p) \in Box
  BY P7Assumption DEF BoxOf, Carrier, Rq, Box

\* Only one poster of a box is producing.
LEMMA OneProducer ==
    ASSUME RequesterHasLock, NEW p \in Carrier, NEW q \in Carrier, p # q,
           Producing(p), ppc[q] \in {"busy", "add0", "add1", "clear"}
    PROVE  BoxOf(p) # BoxOf(q)
  BY SharedBox DEF RequesterHasLock, Producing

-----------------------------------------------------------------------------
\* What the scheduler and the coroutines do, apart from the swap of a box, is
\* nothing to the posters.
LEMMA LoopKeepsPosters ==
    ASSUME \/ ComputeTimeout \/ ExpireTimer \/ TimersDone \/ HandleIo \/ BeginPipe
           \/ ReadPipe \/ PipeDone \/ EventsDone \/ TakeRequest
           \/ DispatchOne \/ BoxDone \/ DispatchLocal \/ Decide \/ Bury \/ Pick \/ Resume
    PROVE  UNCHANGED <<posterVars, fresh>>
  <1> USE DEF posterVars, sharedVars, sentVars, boxVars, postVars
  <1>1. CASE ComputeTimeout \/ ExpireTimer \/ TimersDone \/ HandleIo \/ BeginPipe
    BY <1>1 DEF ComputeTimeout, ExpireTimer, TimersDone, HandleIo, BeginPipe
  <1>2. CASE ReadPipe \/ PipeDone \/ EventsDone
    BY <1>2 DEF ReadPipe, PipeDone, EventsDone
  <1>3. CASE TakeRequest \/ DispatchOne \/ BoxDone \/ DispatchLocal
    BY <1>3 DEF TakeRequest, DispatchOne, BoxDone, DispatchLocal
  <1>4. CASE Decide \/ Bury \/ Pick \/ Resume
    BY <1>4 DEF Decide, Bury, Pick, Resume
  <1>5. QED  BY <1>1, <1>2, <1>3, <1>4

LEMMA CoroutinesKeepPosters ==
    ASSUME \/ Leave \/ TakeMessage \/ IoNotifyFails \/ SendLocal \/ CreateLocal \/ Concat
           \/ EpollReturns \/ EpollTimesOut \/ EpollFails
           \/ WakeTheDead \/ WakeDeadParent
           \/ \E c \in Coro : BecomesReady(c) \/ Elapse(c)
    PROVE  UNCHANGED posterVars /\ fresh' \subseteq fresh
  <1> USE DEF posterVars, sharedVars, sentVars, boxVars, postVars
  <1>1. CASE Leave
    BY <1>1 DEF Leave, Yield, BlockInRecv, BlockOnIo, End
  <1>2. CASE TakeMessage \/ IoNotifyFails \/ SendLocal
    BY <1>2 DEF TakeMessage, IoNotifyFails, SendLocal
  <1>3. CASE CreateLocal \/ Concat
    BY <1>3 DEF CreateLocal, Concat
  <1>4. CASE EpollReturns \/ EpollTimesOut \/ EpollFails
    BY <1>4 DEF EpollReturns, EpollTimesOut, EpollFails
  <1>5. CASE \E c \in Coro : BecomesReady(c) \/ Elapse(c)
    BY <1>5 DEF BecomesReady, Elapse
  <1>6. CASE WakeTheDead \/ WakeDeadParent
    BY <1>6 DEF WakeTheDead, WakeDeadParent
  <1>7. QED  BY <1>1, <1>2, <1>3, <1>4, <1>5, <1>6

LEMMA PostersUntouched ==
    ASSUME RaceInv, UNCHANGED posterVars, fresh' \subseteq fresh
    PROVE  RaceInv'
  BY DEF RaceInv, PostersTyped, NamedCarry, RequesterHasLock, ProducingMeansBusy,
         SideIsKept, Producing, BoxOf, posterVars

-----------------------------------------------------------------------------
\* The carrier swaps a box only when no poster is busy there.
LEMMA SwapKeeps ==
    ASSUME RaceInv, SwapBox
    PROVE  RaceInv'
  <1> USE DEF RaceInv
  <1>1. /\ index' = [index EXCEPT ![cursor] = Swapped(cursor)]
        /\ UNCHANGED <<lock, ppc, pitem, named, fresh>>
    BY DEF SwapBox, sentVars, postVars
  <1>2. ASSUME NEW b \in Box
        PROVE  Swapped(b) \in 0..3
    BY <1>2, IndexFacts DEF Swapped, PostersTyped
  <1>3. PostersTyped'
    BY <1>1, <1>2 DEF PostersTyped
  <1>4. ASSUME NEW p \in Carrier, Producing(p)
        PROVE  index'[BoxOf(p)] = index[BoxOf(p)]
    BY <1>1, <1>4 DEF ProducingMeansBusy, Swapped, CanSwap, PostersTyped
  <1>5. \A p \in Carrier : BoxOf(p)' = BoxOf(p) /\ (Producing(p)' <=> Producing(p))
    BY <1>1 DEF BoxOf, Producing
  <1>6. RequesterHasLock' /\ NamedCarry'
    BY <1>1 DEF RequesterHasLock, NamedCarry
  <1>7. ProducingMeansBusy'
    BY <1>4, <1>5 DEF ProducingMeansBusy
  <1>8. SideIsKept'
    BY <1>1, <1>4, <1>5 DEF SideIsKept, Producing
  <1>9. QED  BY <1>3, <1>6, <1>7, <1>8

\* A poster that is not producing afterwards, and has no request if it is busy, is
\* in nobody's way.
LEMMA IdlePosterKeeps ==
    ASSUME RaceInv, NEW p \in Carrier, UNCHANGED <<index, lock, fresh>>,
           ppc' = [ppc EXCEPT ![p] = ppc'[p]], pitem' = [pitem EXCEPT ![p] = pitem'[p]],
           ppc'[p] \in Stages \ {"add0", "add1", "clear"},
           pitem'[p] \in Message \cup Entry \cup {None},
           ppc'[p] = "busy" => pitem'[p] \in Message, NamedCarry', named' \subseteq Carrier
    PROVE  RaceInv'
  <1> USE DEF RaceInv
  <1>1. \A q \in Carrier : q # p => /\ ppc'[q] = ppc[q] /\ pitem'[q] = pitem[q]
                                    /\ BoxOf(q)' = BoxOf(q)
    BY DEF PostersTyped, BoxOf
  <1>2. PostersTyped'
    BY DEF PostersTyped
  <1>3. RequesterHasLock'
    BY <1>1, P7Assumption DEF RequesterHasLock
  <1>4. ProducingMeansBusy' /\ SideIsKept'
    BY <1>1 DEF ProducingMeansBusy, SideIsKept, Producing
  <1>5. QED  BY <1>2, <1>3, <1>4

\* A sender before and after its work at the box.
LEMMA SendKeeps ==
    ASSUME RaceInv, NEW p \in Carrier,
           \/ BeginSend(p) \/ FindName(p) \/ CountIn(p) \/ TestStatus(p)
           \/ CountOut(p) \/ WritePipe(p)
    PROVE  RaceInv'
  <1> USE DEF RaceInv, Stages, boxVars, sentVars
  <1>1. CASE BeginSend(p) \/ FindName(p)
    <2>1. /\ ppc[p] = "idle" /\ UNCHANGED <<index, lock, fresh>>
          /\ ppc' = [ppc EXCEPT ![p] = ppc'[p]] /\ ppc'[p] \in {"busy", "found"}
          /\ pitem' = [pitem EXCEPT ![p] = pitem'[p]] /\ pitem'[p] \in Message
          /\ named' = IF ppc'[p] = "found" THEN named \cup {p} ELSE named
      BY <1>1 DEF BeginSend, FindName, PostersTyped, Unsent
    <2>2. NamedCarry'
      BY <2>1 DEF NamedCarry, PostersTyped
    <2>3. named' \subseteq Carrier
      BY <2>1 DEF PostersTyped
    <2>4. QED  BY <2>1, <2>2, <2>3, IdlePosterKeeps
  <1>2. CASE CountIn(p) \/ TestStatus(p)
    <2>1. /\ ppc[p] \in {"found", "counted"} /\ UNCHANGED <<index, lock, fresh, pitem, named>>
          /\ ppc' = [ppc EXCEPT ![p] = ppc'[p]]
          /\ ppc'[p] \in {"counted", "busy", "uncount"}
      BY <1>2 DEF CountIn, TestStatus, PostersTyped
    <2>2. pitem[p] \in Message /\ p \in named
      BY <2>1 DEF NamedCarry
    <2>3. NamedCarry'
      BY <2>1, <2>2 DEF NamedCarry, PostersTyped
    <2>4. pitem' = [pitem EXCEPT ![p] = pitem'[p]]
      BY <2>1 DEF PostersTyped
    <2>5. named' \subseteq Carrier
      BY <2>1 DEF PostersTyped
    <2>6. QED  BY <2>1, <2>2, <2>3, <2>4, <2>5, IdlePosterKeeps
  <1>3. CASE CountOut(p)
    <2>1. /\ UNCHANGED <<index, lock, fresh>> /\ named' = named \ {p}
          /\ ppc' = [ppc EXCEPT ![p] = "idle"] /\ pitem' = [pitem EXCEPT ![p] = None]
      BY <1>3 DEF CountOut
    <2>2. ppc'[p] = "idle" /\ pitem'[p] = None
      BY <2>1 DEF PostersTyped
    <2>3. NamedCarry'
      BY <2>1 DEF NamedCarry, PostersTyped
    <2>4. named' \subseteq Carrier
      BY <2>1 DEF PostersTyped
    <2>5. QED  BY <2>1, <2>2, <2>3, <2>4, IdlePosterKeeps
  <1>4. CASE WritePipe(p)
    <2>1. /\ UNCHANGED <<index, lock, fresh, named>>
          /\ ppc' = [ppc EXCEPT ![p] = IF p \in named THEN "uncount" ELSE "idle"]
          /\ pitem' = [pitem EXCEPT ![p] = IF p \in named THEN @ ELSE None]
      BY <1>4 DEF WritePipe, PostersTyped
    <2>2. /\ ppc'[p] = (IF p \in named THEN "uncount" ELSE "idle")
          /\ pitem'[p] = (IF p \in named THEN pitem[p] ELSE None)
      BY <2>1 DEF PostersTyped
    <2>3. NamedCarry'
      BY <2>1 DEF NamedCarry, PostersTyped
    <2>4. pitem'[p] \in Message \cup Entry \cup {None}
      BY <2>2 DEF NamedCarry
    <2>5. ppc' = [ppc EXCEPT ![p] = ppc'[p]] /\ pitem' = [pitem EXCEPT ![p] = pitem'[p]]
      BY <2>1, <2>2
    <2>6. /\ ppc'[p] \in Stages \ {"add0", "add1", "clear"}
          /\ ppc'[p] = "busy" => pitem'[p] \in Message
      BY <2>2
    <2>7. named' \subseteq Carrier
      BY <2>1 DEF PostersTyped
    <2>8. QED  BY <2>1, <2>3, <2>4, <2>5, <2>6, <2>7, IdlePosterKeeps
  <1>5. QED  BY <1>1, <1>2, <1>3, <1>4

\* A requester begins: it is not producing yet, and has the lock.
LEMMA RequestKeeps ==
    ASSUME RaceInv, NEW p \in Carrier, BeginRequest(p)
    PROVE  RaceInv'
  <1> USE DEF RaceInv
  <1>1. /\ ppc[p] = "idle" /\ ppc' = [ppc EXCEPT ![p] = "busy"]
        /\ UNCHANGED <<index, named>> /\ fresh' \subseteq fresh
        /\ lock = None /\ lock' = p
    BY DEF BeginRequest, boxVars
  <1>2. pitem' = [pitem EXCEPT ![p] = pitem'[p]] /\ pitem'[p] \in Entry
    BY DEF BeginRequest, PostersTyped
  <1>3. PostersTyped'
    BY <1>1, <1>2 DEF PostersTyped, Stages
  <1>4. \A q \in Carrier : q # p => /\ ppc'[q] = ppc[q] /\ pitem'[q] = pitem[q]
                                    /\ BoxOf(q)' = BoxOf(q)
    BY <1>1, <1>2 DEF PostersTyped, BoxOf
  <1>5. ppc'[p] = "busy"
    BY <1>1 DEF PostersTyped
  <1>6. RequesterHasLock'
    BY <1>1, <1>4, P7Assumption DEF RequesterHasLock, Carrier, Box
  <1>7. ProducingMeansBusy' /\ SideIsKept'
    BY <1>1, <1>4, <1>5 DEF ProducingMeansBusy, SideIsKept, Producing
  <1>8. NamedCarry'
    BY <1>1, <1>4, <1>5 DEF NamedCarry
  <1>9. QED  BY <1>3, <1>6, <1>7, <1>8

\* The or-fetch of BUSY keeps the side.
LEMMA SetBusyKeeps ==
    ASSUME RaceInv, NEW p \in Carrier, SetBusy(p)
    PROVE  RaceInv'
  <1> USE DEF RaceInv
  <1> DEFINE b == BoxOf(p)
  <1>1. /\ ppc[p] = "busy" /\ UNCHANGED <<lock, pitem, named, fresh>>
        /\ index' = [index EXCEPT ![b] = WithBusy(@)]
        /\ ppc' = [ppc EXCEPT ![p] = IF Side(index[b]) = 0 THEN "add0" ELSE "add1"]
    BY DEF SetBusy, sentVars
  <1>2. b \in Box /\ index[b] \in 0..3
    BY BoxOfIsBox DEF PostersTyped
  <1>3. /\ WithBusy(index[b]) \in 0..3 /\ IsBusy(WithBusy(index[b]))
        /\ Side(WithBusy(index[b])) = Side(index[b]) /\ Side(index[b]) \in 0..1
    BY <1>2, IndexFacts
  <1>4. PostersTyped'
    BY <1>1, <1>2, <1>3 DEF PostersTyped, Stages
  <1>5. \A q \in Carrier : BoxOf(q)' = BoxOf(q)
    BY <1>1 DEF BoxOf
  <1>6. /\ ppc'[p] = "add0" => Side(index[b]) = 0
        /\ ppc'[p] = "add1" => Side(index[b]) = 1
        /\ ppc'[p] \in {"add0", "add1"}
        /\ \A q \in Carrier : q # p => ppc'[q] = ppc[q]
    BY <1>1, <1>3 DEF PostersTyped
  <1>7. RequesterHasLock' /\ NamedCarry'
    BY <1>1, <1>6 DEF RequesterHasLock, NamedCarry
  <1>8. /\ index'[b] = WithBusy(index[b])
        /\ \A c \in Box : c # b => index'[c] = index[c]
    BY <1>1, <1>2 DEF PostersTyped
  <1>9. ProducingMeansBusy'
    BY <1>3, <1>5, <1>6, <1>8, BoxOfIsBox DEF ProducingMeansBusy, Producing
  <1>10. SideIsKept'
    BY <1>3, <1>5, <1>6, <1>8, BoxOfIsBox DEF SideIsKept
  <1>11. QED  BY <1>4, <1>7, <1>9, <1>10

LEMMA AddTailKeeps ==
    ASSUME RaceInv, NEW p \in Carrier, AddTail(p)
    PROVE  RaceInv'
  <1> USE DEF RaceInv
  <1>1. /\ ppc[p] \in {"add0", "add1"} /\ UNCHANGED <<index, lock, pitem, named, fresh>>
        /\ ppc' = [ppc EXCEPT ![p] = "clear"]
    BY DEF AddTail, sentVars
  <1>2. ppc'[p] = "clear" /\ \A q \in Carrier : q # p => ppc'[q] = ppc[q]
    BY <1>1 DEF PostersTyped
  <1>3. \A q \in Carrier : BoxOf(q)' = BoxOf(q)
    BY <1>1 DEF BoxOf
  <1>4. PostersTyped'
    BY <1>1 DEF PostersTyped, Stages
  <1>5. RequesterHasLock' /\ NamedCarry'
    BY <1>1, <1>2 DEF RequesterHasLock, NamedCarry
  <1>6. ProducingMeansBusy'
    BY <1>1, <1>2, <1>3 DEF ProducingMeansBusy, Producing
  <1>7. SideIsKept'
    BY <1>1, <1>2, <1>3 DEF SideIsKept
  <1>8. QED  BY <1>4, <1>5, <1>6, <1>7

\* The and-fetch of ~BUSY is of the only poster that is producing there.
LEMMA ClearBusyKeeps ==
    ASSUME RaceInv, NEW p \in Carrier, ClearBusy(p)
    PROVE  RaceInv'
  <1> USE DEF RaceInv
  <1> DEFINE b == BoxOf(p)
  <1>1. /\ ppc[p] = "clear" /\ UNCHANGED <<pitem, named, fresh>>
        /\ index' = [index EXCEPT ![b] = NoBusy(@)]
        /\ lock' = IF lock = p THEN None ELSE lock
        /\ ppc' = [ppc EXCEPT ![p] = "write"]
    BY DEF ClearBusy, sentVars
  <1>2. b \in Box /\ index[b] \in 0..3
    BY BoxOfIsBox DEF PostersTyped
  <1>3. PostersTyped'
    BY <1>1, <1>2, IndexFacts DEF PostersTyped, Stages
  <1>4. ppc'[p] = "write" /\ \A q \in Carrier : q # p => ppc'[q] = ppc[q]
    BY <1>1 DEF PostersTyped
  <1>5. \A q \in Carrier : BoxOf(q)' = BoxOf(q)
    BY <1>1 DEF BoxOf
  <1>6. RequesterHasLock' /\ NamedCarry'
    BY <1>1, <1>4 DEF RequesterHasLock, NamedCarry
  <1>7. \A q \in Carrier : Producing(q)' => q # p /\ Producing(q) /\ BoxOf(q) # b
    BY <1>1, <1>4, OneProducer DEF Producing
  <1>8. \A q \in Carrier : Producing(q)' => index'[BoxOf(q)'] = index[BoxOf(q)]
    BY <1>1, <1>5, <1>7, BoxOfIsBox DEF PostersTyped
  <1>9. ProducingMeansBusy'
    BY <1>7, <1>8 DEF ProducingMeansBusy
  <1>10. SideIsKept'
    BY <1>4, <1>7, <1>8 DEF SideIsKept, Producing
  <1>11. QED  BY <1>3, <1>6, <1>9, <1>10

-----------------------------------------------------------------------------
LEMMA RaceInvInit == Init => RaceInv
  <1> SUFFICES ASSUME Init PROVE RaceInv
    OBVIOUS
  <1>1. PostersTyped
    BY DEF Init, PostersTyped, Stages
  <1>2. named = {} /\ \A p \in Carrier : ppc[p] = "idle"
    BY DEF Init
  <1>3. QED
    BY <1>1, <1>2 DEF RaceInv, NamedCarry, RequesterHasLock, ProducingMeansBusy,
                      SideIsKept, Producing

LEMMA RaceInvNext == RaceInv /\ [Next]_vars => RaceInv'
  <1> SUFFICES ASSUME RaceInv, [Next]_vars PROVE RaceInv'
    OBVIOUS
  <1>1. CASE SwapBox
    BY <1>1, SwapKeeps
  <1>2. CASE Loop /\ ~ SwapBox
    BY <1>2, LoopKeepsPosters, PostersUntouched DEF Loop, posterVars
  <1>3. CASE \/ EpollReturns \/ EpollTimesOut \/ EpollFails
             \/ Leave \/ TakeMessage \/ IoNotifyFails \/ SendLocal \/ CreateLocal
             \/ Concat \/ WakeTheDead \/ WakeDeadParent
             \/ \E c \in Coro : BecomesReady(c) \/ Elapse(c)
    BY <1>3, CoroutinesKeepPosters, PostersUntouched
  <1>4. ASSUME NEW p \in Carrier,
               BeginSend(p) \/ FindName(p) \/ BeginRequest(p) \/ Post(p)
        PROVE  RaceInv'
    BY <1>4, SendKeeps, RequestKeeps, SetBusyKeeps, AddTailKeeps, ClearBusyKeeps
       DEF Post
  <1>5. CASE UNCHANGED vars
    BY <1>5, PostersUntouched
       DEF vars, sharedVars, boxVars, sentVars, postVars, posterVars
  <1>6. QED
    BY <1>1, <1>2, <1>3, <1>4, <1>5 DEF Next

LEMMA RaceInvHolds == Spec => []RaceInv
  BY RaceInvInit, RaceInvNext, PTL DEF Spec

\* In a drain of p7impl.c's sched_loop no poster is at the list that the carrier
\* takes from, however many carriers post and request: a swap fails while BUSY is
\* set in the index byte, and two posters of one box exclude each other.
THEOREM RaceFree == Spec => []NoListRace
  <1>1. RaceInv => NoListRace
    BY DEF RaceInv, SideIsKept, NoListRace
  <1>2. QED  BY <1>1, RaceInvHolds, PTL

(***************************************************************************)
(* The carrier does not sleep over a message.                              *)
(***************************************************************************)
wakeVars == <<posterVars, buffers, pipe, cpc, timeout, cursor, coroQueue, local>>

WakeTyped ==
    /\ buffers \in [Box -> [0..1 -> Seq(Message \cup Entry)]]
    /\ pipe \in Seq(Coro \cup {None}) /\ cursor \in 0 .. NCarriers

HasItem == \A p \in Carrier : ppc[p] # "idle" => pitem[p] \in Message \cup Entry

\* BUSY is set only while a poster of the box is producing.
BusyMeansProducing ==
    \A b \in Box : IsBusy(index[b]) => \E p \in Carrier : BoxOf(p) = b /\ Producing(p)

\* What the carrier takes from it takes to the end.
TakenToTheEnd ==
    /\ cpc = "drain" => cursor \in Box
    /\ \A b \in Box : buffers[b][OtherSide(index[b])] # <<>> =>
                          cpc = "drain" /\ cursor = b

\* A poster of b has yet to write to the pipe.
Announced(b) == \E p \in Carrier : BoxOf(p) = b /\ InBox(p)

\* The carrier is still going to look at box b before it sleeps.
WillLook(b) ==
    \/ cpc \in {"expire", "events", "pipe"}
    \/ cpc = "swap" /\ cursor <= b
    \/ cpc = "drain" /\ cursor < b

\* Why what lies on the posters' side of a box is found.
Noticed ==
    \A b \in Box : buffers[b][Side(index[b])] # <<>> =>
        Announced(b) \/ pipe # <<>> \/ WillLook(b)

\* It empties localbox in every round, and who fills it writes to the pipe.
WillEmpty == cpc \in {"expire", "events", "pipe", "swap", "drain"}
LocalNoticed == local # <<>> => pipe # <<>> \/ WillEmpty

ForeverMeansIdle == cpc = "sleep" /\ timeout = "ever" => coroQueue = <<>>

WakeInv == /\ WakeTyped /\ HasItem /\ BusyMeansProducing /\ TakenToTheEnd
           /\ Noticed /\ LocalNoticed /\ ForeverMeansIdle

-----------------------------------------------------------------------------
\* A step that leaves posters and boxes alone, and after which the carrier looks
\* where it was going to look or finds a note.
LEMMA QuietStep ==
    ASSUME WakeInv, UNCHANGED <<index, buffers, ppc, pitem>>,
           cpc # "drain", cpc' # "drain",
           pipe' \in Seq(Coro \cup {None}), cursor' \in 0 .. NCarriers,
           \A b \in Box : pipe # <<>> \/ WillLook(b) => pipe' # <<>> \/ WillLook(b)',
           LocalNoticed', ForeverMeansIdle'
    PROVE  WakeInv'
  <1> USE DEF WakeInv
  <1>1. \A p \in Carrier : BoxOf(p)' = BoxOf(p) /\ (Producing(p)' <=> Producing(p))
    BY DEF BoxOf, Producing
  <1>2. \A b \in Box : Announced(b)' <=> Announced(b)
    BY <1>1 DEF Announced, InBox
  <1>3. WakeTyped' /\ HasItem'
    BY DEF WakeTyped, HasItem
  <1>4. BusyMeansProducing'
    BY <1>1 DEF BusyMeansProducing
  <1>5. TakenToTheEnd'
    BY DEF TakenToTheEnd
  <1>6. Noticed'
    BY <1>2 DEF Noticed
  <1>7. QED  BY <1>3, <1>4, <1>5, <1>6

LEMMA LoopKeepsWake ==
    ASSUME WakeInv,
           \/ ComputeTimeout \/ ExpireTimer \/ TimersDone \/ HandleIo \/ BeginPipe
           \/ PipeDone \/ EventsDone \/ DispatchLocal \/ Decide \/ Bury \/ Pick \/ Resume
           \/ EpollReturns \/ EpollTimesOut \/ EpollFails
    PROVE  WakeInv'
  <1> USE DEF WakeInv, WakeTyped, WillLook, LocalNoticed, WillEmpty, ForeverMeansIdle,
              sharedVars, boxVars, sentVars, postVars, coroVars, queueVars, mailVars,
              loopVars, roundVars
  <1>1. CASE ComputeTimeout
    BY <1>1, QuietStep DEF ComputeTimeout, HasWork
  <1>2. CASE ExpireTimer \/ TimersDone
    BY <1>2, QuietStep DEF ExpireTimer, TimersDone
  <1>3. CASE HandleIo \/ BeginPipe \/ PipeDone
    BY <1>3, QuietStep DEF HandleIo, BeginPipe, PipeDone
  <1>4. CASE EventsDone
    <2>1. cursor' \in 0 .. NCarriers /\ \A b \in Box : cursor' <= b
      BY <1>4, P7Assumption DEF EventsDone, Box
    <2>2. QED  BY <1>4, <2>1, QuietStep DEF EventsDone
  <1>5. CASE DispatchLocal
    BY <1>5, QuietStep DEF DispatchLocal
  <1>6. CASE Decide \/ Bury
    <2>1. \A b \in Box : ~ WillLook(b)
      BY <1>6, P7Assumption DEF Decide, Bury, MayBury, Box
    <2>2. CASE Decide
      BY <2>1, <2>2, QuietStep DEF Decide, MayBury
    <2>3. CASE Bury
      BY <2>1, <2>3, QuietStep DEF Bury
    <2>4. QED  BY <1>6, <2>2, <2>3
  <1>7. CASE Pick
    <2>1. \A b \in Box : ~ WillLook(b)
      BY <1>7, P7Assumption DEF Pick, Box
    <2>2. QED  BY <1>7, <2>1, QuietStep DEF Pick
  <1>8. CASE Resume
    BY <1>8, QuietStep DEF Resume
  <1>9. CASE EpollReturns \/ EpollTimesOut \/ EpollFails
    BY <1>9, QuietStep DEF EpollReturns, EpollTimesOut, EpollFails
  <1>10. QED
    BY <1>1, <1>2, <1>3, <1>4, <1>5, <1>6, <1>7, <1>8, <1>9

LEMMA ReadPipeKeepsWake ==
    ASSUME WakeInv, ReadPipe
    PROVE  WakeInv'
  <1>1. /\ cpc = "pipe" /\ pipe # <<>> /\ pipe' = Tail(pipe)
        /\ UNCHANGED <<index, buffers, ppc, pitem, cpc, timeout, cursor, local>>
    BY DEF ReadPipe, boxVars, postVars, mailVars, loopVars, roundVars
  <1>2. pipe' \in Seq(Coro \cup {None})
    BY <1>1 DEF WakeInv, WakeTyped
  <1>3. QED
    BY <1>1, <1>2, QuietStep
       DEF WakeInv, WakeTyped, WillLook, LocalNoticed, WillEmpty, ForeverMeansIdle

LEMMA CoroutinesKeepWake ==
    ASSUME WakeInv,
           \/ Leave \/ TakeMessage \/ IoNotifyFails \/ SendLocal \/ CreateLocal \/ Concat
           \/ WakeTheDead \/ WakeDeadParent
           \/ \E c \in Coro : BecomesReady(c) \/ Elapse(c)
    PROVE  WakeInv' \/ UNCHANGED wakeVars
  <1> USE DEF WakeInv, WakeTyped, WillLook, LocalNoticed, WillEmpty, ForeverMeansIdle,
              sharedVars, boxVars, sentVars, postVars, coroVars, queueVars, mailVars,
              loopVars, roundVars
  <1>1. CASE Yield \/ BlockInRecv
    BY <1>1, QuietStep DEF Yield, BlockInRecv, Block
  <1>2. CASE BlockOnIo
    BY <1>2, QuietStep DEF BlockOnIo, Block
  <1>3. CASE End
    BY <1>3, QuietStep DEF End
  <1>4. CASE TakeMessage \/ IoNotifyFails
    BY <1>4, QuietStep DEF TakeMessage, IoNotifyFails
  <1>5. CASE SendLocal
    <2>1. PICK m \in Message : IF Len(pipe) < PipeCap THEN pipe' = Append(pipe, Dst[m])
                               ELSE UNCHANGED pipe
      BY <1>5 DEF SendLocal, Unsent
    <2>2. pipe' \in Seq(Coro \cup {None}) /\ pipe' # <<>>
      <3>1. Dst[m] \in Coro \cup {None}
        BY P7Assumption
      <3>2. CASE Len(pipe) < PipeCap
        BY <2>1, <3>1, <3>2
      <3>3. CASE ~ (Len(pipe) < PipeCap)
        BY <2>1, <3>3, P7Assumption
      <3>4. QED  BY <3>2, <3>3
    <2>3. cpc = "run" /\ cpc' \in {"run", "stuck"}
      BY <1>5 DEF SendLocal
    <2>4. UNCHANGED <<index, buffers, ppc, pitem, cursor, timeout, coroQueue>>
      BY <1>5 DEF SendLocal
    <2>5. QED  BY <2>2, <2>3, <2>4, QuietStep
  <1>6. CASE CreateLocal
    BY <1>6, QuietStep DEF CreateLocal
  <1>7. CASE Concat
    BY <1>7, QuietStep DEF Concat
  <1>8. CASE \E c \in Coro : BecomesReady(c) \/ Elapse(c)
    BY <1>8 DEF BecomesReady, Elapse, wakeVars, posterVars
  <1>9. CASE WakeTheDead \/ WakeDeadParent
    <2>1. /\ UNCHANGED <<index, buffers, ppc, pitem, pipe, cursor, timeout, coroQueue, local>>
          /\ cpc \in {"pipe", "run"} /\ cpc' = "astray"
      BY <1>9 DEF WakeTheDead, WakeDeadParent
    <2>2. cpc = "pipe" => pipe # <<>>
      BY <1>9 DEF WakeTheDead, WakeDeadParent
    <2>3. \A b \in Box : pipe # <<>> \/ WillLook(b) => pipe' # <<>> \/ WillLook(b)'
      BY <2>1, <2>2
    <2>4. LocalNoticed' /\ ForeverMeansIdle'
      BY <2>1, <2>2
    <2>5. QED  BY <2>1, <2>3, <2>4, QuietStep
  <1>10. QED
    BY <1>1, <1>2, <1>3, <1>4, <1>5, <1>6, <1>7, <1>8, <1>9 DEF Leave

-----------------------------------------------------------------------------
\* The carrier at a box.
LEMMA SwapKeepsWake ==
    ASSUME RaceInv, WakeInv, SwapBox
    PROVE  WakeInv'
  <1> USE DEF WakeInv
  <1>1. /\ cpc = "swap" /\ cursor \in Box /\ cpc' = "drain"
        /\ index' = [index EXCEPT ![cursor] = Swapped(cursor)]
        /\ UNCHANGED <<buffers, ppc, pitem, pipe, cursor, timeout, coroQueue, local>>
    BY P7Assumption
       DEF SwapBox, WakeTyped, Box, postVars, coroVars, queueVars, mailVars, roundVars
  <1>2. /\ index \in [Box -> 0..3] /\ index'[cursor] = Swapped(cursor)
        /\ \A b \in Box : b # cursor => index'[b] = index[b]
    BY <1>1 DEF RaceInv, PostersTyped
  <1>3. \A p \in Carrier : BoxOf(p)' = BoxOf(p) /\ (Producing(p)' <=> Producing(p))
    BY <1>1 DEF BoxOf, Producing
  <1>4. \A b \in Box : buffers[b][OtherSide(index[b])] = <<>>
    BY <1>1 DEF TakenToTheEnd
  <1>5. WakeTyped' /\ HasItem'
    BY <1>1 DEF WakeTyped, HasItem
  <1>6. BusyMeansProducing'
    BY <1>1, <1>2, <1>3, IndexFacts DEF BusyMeansProducing, Swapped
  <1>7. TakenToTheEnd'
    BY <1>1, <1>2, <1>4 DEF TakenToTheEnd
  <1>8. Noticed'
    <2> SUFFICES ASSUME NEW b \in Box, buffers'[b][Side(index'[b])] # <<>>
                 PROVE  Announced(b)' \/ pipe' # <<>> \/ WillLook(b)'
      BY DEF Noticed
    <2>1. \A q \in Box : Announced(q) => Announced(q)'
      BY <1>1, <1>3 DEF Announced, InBox
    <2>2. CASE b # cursor
      <3>1. Announced(b) \/ pipe # <<>> \/ WillLook(b)
        BY <1>1, <1>2, <2>2 DEF Noticed
      <3>2. WillLook(b) => WillLook(b)'
        BY <1>1, <2>2 DEF WillLook, Box
      <3>3. QED  BY <1>1, <2>1, <3>1, <3>2
    <2>3. CASE b = cursor /\ CanSwap(index[b])
      <3>1. Side(index'[b]) = OtherSide(index[b])
        BY <1>2, <2>3, IndexFacts DEF Swapped
      <3>2. QED  BY <1>1, <1>4, <3>1
    <2>4. CASE b = cursor /\ ~ CanSwap(index[b])
      <3>1. Announced(b)
        BY <2>4 DEF CanSwap, BusyMeansProducing, Producing, Announced, InBox
      <3>2. QED  BY <2>1, <3>1
    <2>5. QED  BY <2>2, <2>3, <2>4
  <1>9. LocalNoticed' /\ ForeverMeansIdle'
    BY <1>1 DEF LocalNoticed, WillEmpty, ForeverMeansIdle
  <1>10. QED  BY <1>5, <1>6, <1>7, <1>8, <1>9

LEMMA DrainKeepsWake ==
    ASSUME RaceInv, WakeInv, TakeRequest \/ DispatchOne
    PROVE  WakeInv'
  <1> USE DEF WakeInv
  <1> DEFINE mine == OtherSide(index[cursor])
  <1>1. /\ cpc = "drain" /\ cursor \in Box /\ buffers[cursor][mine] # <<>>
        /\ buffers' = [buffers EXCEPT ![cursor][mine] = Tail(@)]
        /\ UNCHANGED <<index, ppc, pitem, pipe, cpc, cursor, timeout, local>>
    BY DEF TakeRequest, DispatchOne, TakenToTheEnd, postVars, loopVars, roundVars, Rq
  <1>2. /\ index[cursor] \in 0..3 /\ mine \in 0..1 /\ Side(index[cursor]) # mine
    BY <1>1, IndexFacts DEF RaceInv, PostersTyped
  <1>3. Tail(buffers[cursor][mine]) \in Seq(Message \cup Entry)
    BY <1>1, <1>2 DEF WakeTyped
  <1>4. buffers' \in [Box -> [0..1 -> Seq(Message \cup Entry)]]
    BY <1>1, <1>2, <1>3 DEF WakeTyped
  <1>5. \A b \in Box : b # cursor => buffers'[b] = buffers[b]
    BY <1>1 DEF WakeTyped
  <1>6. buffers'[cursor][Side(index[cursor])] = buffers[cursor][Side(index[cursor])]
    BY <1>1, <1>2, IndexFacts DEF WakeTyped
  <1>7. \A p \in Carrier : BoxOf(p)' = BoxOf(p) /\ (Producing(p)' <=> Producing(p))
    BY <1>1 DEF BoxOf, Producing
  <1>8. WakeTyped' /\ HasItem' /\ BusyMeansProducing'
    BY <1>1, <1>4, <1>7 DEF WakeTyped, HasItem, BusyMeansProducing
  <1>9. TakenToTheEnd'
    BY <1>1, <1>5 DEF TakenToTheEnd
  <1>10. \A b \in Box : buffers'[b][Side(index[b])] = buffers[b][Side(index[b])]
    BY <1>5, <1>6
  <1>11. \A b \in Box : (Announced(b) => Announced(b)') /\ (WillLook(b) => WillLook(b)')
    BY <1>1, <1>7 DEF Announced, InBox, WillLook
  <1>12. Noticed'
    BY <1>1, <1>10, <1>11 DEF Noticed
  <1>13. LocalNoticed' /\ ForeverMeansIdle'
    BY <1>1 DEF LocalNoticed, WillEmpty, ForeverMeansIdle
  <1>14. QED  BY <1>8, <1>9, <1>12, <1>13

LEMMA BoxDoneKeepsWake ==
    ASSUME WakeInv, BoxDone
    PROVE  WakeInv'
  <1> USE DEF WakeInv
  <1>1. /\ cpc = "drain" /\ cursor \in Box /\ cpc' = "swap" /\ cursor' = cursor + 1
        /\ buffers[cursor][OtherSide(index[cursor])] = <<>>
        /\ UNCHANGED <<index, buffers, ppc, pitem, pipe, timeout, coroQueue, local>>
    BY DEF BoxDone, TakenToTheEnd, sharedVars, boxVars, postVars, coroVars, queueVars,
           mailVars
  <1>2. WakeTyped' /\ HasItem'
    BY <1>1, P7Assumption DEF WakeTyped, HasItem, Box
  <1>3. \A p \in Carrier : BoxOf(p)' = BoxOf(p) /\ (Producing(p)' <=> Producing(p))
    BY <1>1 DEF BoxOf, Producing
  <1>4. BusyMeansProducing'
    BY <1>1, <1>3 DEF BusyMeansProducing
  <1>5. TakenToTheEnd'
    BY <1>1 DEF TakenToTheEnd
  <1>6. \A b \in Box : (Announced(b) => Announced(b)') /\ (WillLook(b) => WillLook(b)')
    BY <1>1, <1>3 DEF Announced, InBox, WillLook, Box
  <1>7. Noticed'
    BY <1>1, <1>6 DEF Noticed
  <1>8. LocalNoticed' /\ ForeverMeansIdle'
    BY <1>1 DEF LocalNoticed, WillEmpty, ForeverMeansIdle
  <1>9. QED  BY <1>2, <1>4, <1>5, <1>7, <1>8

-----------------------------------------------------------------------------
\* The posters.
LEMMA IdlePosterKeepsWake ==
    ASSUME RaceInv, WakeInv, NEW p \in Carrier,
           UNCHANGED <<index, buffers, cpc, timeout, cursor, coroQueue, local>>,
           ppc' = [ppc EXCEPT ![p] = ppc'[p]], pitem' = [pitem EXCEPT ![p] = pitem'[p]],
           ~ Producing(p), ppc'[p] # "idle" => pitem'[p] \in Message \cup Entry,
           pipe' \in Seq(Coro \cup {None}),
           ppc[p] = "write" \/ pipe # <<>> => pipe' # <<>>
    PROVE  WakeInv'
  <1> USE DEF WakeInv
  <1>1. \A q \in Carrier : q # p => /\ ppc'[q] = ppc[q] /\ pitem'[q] = pitem[q]
                                    /\ BoxOf(q)' = BoxOf(q)
    BY DEF RaceInv, PostersTyped, BoxOf
  <1>2. WakeTyped' /\ HasItem'
    BY <1>1 DEF WakeTyped, HasItem
  <1>3. \A q \in Carrier : Producing(q) => Producing(q)' /\ BoxOf(q)' = BoxOf(q)
    BY <1>1 DEF Producing
  <1>4. BusyMeansProducing'
    BY <1>3 DEF BusyMeansProducing
  <1>5. TakenToTheEnd'
    BY DEF TakenToTheEnd
  <1>6. \A b \in Box : /\ Announced(b) => Announced(b)' \/ pipe' # <<>>
                       /\ WillLook(b) => WillLook(b)'
    BY <1>1 DEF Announced, InBox, WillLook, Producing
  <1>7. Noticed'
    BY <1>6 DEF Noticed
  <1>8. LocalNoticed' /\ ForeverMeansIdle'
    BY DEF LocalNoticed, WillEmpty, ForeverMeansIdle
  <1>9. QED  BY <1>2, <1>4, <1>5, <1>7, <1>8

LEMMA SendKeepsWake ==
    ASSUME RaceInv, WakeInv, NEW p \in Carrier,
           \/ BeginSend(p) \/ FindName(p) \/ BeginRequest(p) \/ CountIn(p)
           \/ TestStatus(p) \/ CountOut(p) \/ WritePipe(p)
    PROVE  WakeInv'
  <1> USE DEF boxVars, ownVars, coroVars, queueVars, mailVars, loopVars, roundVars
  <1>1. pipe \in Seq(Coro \cup {None})
    BY DEF WakeInv, WakeTyped
  <1>2. CASE BeginSend(p) \/ FindName(p) \/ BeginRequest(p)
    <2>1. /\ ppc[p] = "idle" /\ ppc' = [ppc EXCEPT ![p] = ppc'[p]] /\ UNCHANGED pipe
          /\ UNCHANGED <<index, buffers, cpc, timeout, cursor, coroQueue, local>>
      BY <1>2 DEF BeginSend, FindName, BeginRequest, RaceInv, PostersTyped
    <2>2. /\ pitem' = [pitem EXCEPT ![p] = pitem'[p]]
          /\ pitem'[p] \in Message \cup Entry
      BY <1>2 DEF BeginSend, FindName, BeginRequest, RaceInv, PostersTyped, Unsent
    <2>3. QED  BY <1>1, <2>1, <2>2, IdlePosterKeepsWake DEF Producing
  <1>3. CASE CountIn(p) \/ TestStatus(p)
    <2>1. /\ ppc[p] \in {"found", "counted"} /\ ppc' = [ppc EXCEPT ![p] = ppc'[p]]
          /\ UNCHANGED <<pitem, pipe>>
          /\ UNCHANGED <<index, buffers, cpc, timeout, cursor, coroQueue, local>>
      BY <1>3 DEF CountIn, TestStatus, RaceInv, PostersTyped
    <2>2. pitem' = [pitem EXCEPT ![p] = pitem'[p]] /\ pitem'[p] \in Message \cup Entry
      BY <2>1 DEF RaceInv, PostersTyped, NamedCarry
    <2>3. QED  BY <1>1, <2>1, <2>2, IdlePosterKeepsWake DEF Producing
  <1>4. CASE CountOut(p)
    <2>1. /\ ppc[p] = "uncount" /\ ppc' = [ppc EXCEPT ![p] = "idle"]
          /\ pitem' = [pitem EXCEPT ![p] = None] /\ UNCHANGED pipe
          /\ UNCHANGED <<index, buffers, cpc, timeout, cursor, coroQueue, local>>
      BY <1>4 DEF CountOut
    <2>2. ppc'[p] = "idle" /\ pitem'[p] = None
      BY <2>1 DEF RaceInv, PostersTyped
    <2>3. QED  BY <1>1, <2>1, <2>2, IdlePosterKeepsWake DEF Producing
  <1>5. CASE WritePipe(p)
    <2>1. /\ ppc[p] = "write" /\ pipe' = Append(pipe, Note(pitem[p]))
          /\ ppc' = [ppc EXCEPT ![p] = ppc'[p]] /\ pitem' = [pitem EXCEPT ![p] = pitem'[p]]
          /\ ppc'[p] # "idle" => pitem'[p] = pitem[p]
          /\ UNCHANGED <<index, buffers, cpc, timeout, cursor, coroQueue, local>>
      BY <1>5 DEF WritePipe, Noted, RaceInv, PostersTyped
    <2>2. pitem[p] \in Message \cup Entry
      BY <2>1 DEF WakeInv, HasItem
    <2>3. Note(pitem[p]) \in Coro \cup {None}
      BY <2>2, P7Assumption DEF Note
    <2>4. pipe' \in Seq(Coro \cup {None}) /\ pipe' # <<>>
      BY <1>1, <2>1, <2>3
    <2>5. QED  BY <2>1, <2>2, <2>4, IdlePosterKeepsWake DEF Producing
  <1>6. QED  BY <1>2, <1>3, <1>4, <1>5

LEMMA SetBusyKeepsWake ==
    ASSUME RaceInv, WakeInv, NEW p \in Carrier, SetBusy(p)
    PROVE  WakeInv'
  <1> USE DEF WakeInv
  <1> DEFINE box == BoxOf(p)
  <1>1. /\ ppc[p] = "busy" /\ index' = [index EXCEPT ![box] = WithBusy(@)]
        /\ ppc' = [ppc EXCEPT ![p] = IF Side(index[box]) = 0 THEN "add0" ELSE "add1"]
        /\ UNCHANGED <<buffers, pitem, pipe, cpc, timeout, cursor, coroQueue, local>>
    BY DEF SetBusy, ownVars, coroVars, queueVars, mailVars, loopVars, roundVars
  <1>2. box \in Box /\ index \in [Box -> 0..3]
    BY BoxOfIsBox DEF RaceInv, PostersTyped
  <1>3. /\ \A b \in Box : b # box => index'[b] = index[b]
        /\ \A b \in Box : /\ Side(index'[b]) = Side(index[b])
                          /\ OtherSide(index'[b]) = OtherSide(index[b])
    BY <1>1, <1>2, IndexFacts
  <1>4. /\ ppc'[p] \in {"add0", "add1"}
        /\ \A q \in Carrier : q # p => ppc'[q] = ppc[q]
        /\ \A q \in Carrier : BoxOf(q)' = BoxOf(q)
    BY <1>1 DEF RaceInv, PostersTyped, BoxOf
  <1>5. WakeTyped' /\ HasItem'
    BY <1>1, <1>4 DEF WakeTyped, HasItem
  <1>6. BusyMeansProducing'
    BY <1>2, <1>3, <1>4 DEF BusyMeansProducing, Producing
  <1>7. TakenToTheEnd'
    BY <1>1, <1>3 DEF TakenToTheEnd
  <1>8. \A b \in Box : (Announced(b) => Announced(b)') /\ (WillLook(b) => WillLook(b)')
    BY <1>1, <1>4 DEF Announced, InBox, WillLook
  <1>9. Noticed'
    BY <1>1, <1>3, <1>8 DEF Noticed
  <1>10. LocalNoticed' /\ ForeverMeansIdle'
    BY <1>1 DEF LocalNoticed, WillEmpty, ForeverMeansIdle
  <1>11. QED  BY <1>5, <1>6, <1>7, <1>9, <1>10

\* What is added lies on the posters' side, and its poster will write.
LEMMA AddTailKeepsWake ==
    ASSUME RaceInv, WakeInv, NEW p \in Carrier, AddTail(p)
    PROVE  WakeInv'
  <1> USE DEF WakeInv
  <1> DEFINE box  == BoxOf(p)
             side == IF ppc[p] = "add0" THEN 0 ELSE 1
  <1>1. /\ ppc[p] \in {"add0", "add1"} /\ ppc' = [ppc EXCEPT ![p] = "clear"]
        /\ buffers' = [buffers EXCEPT ![box][side] = Append(@, pitem[p])]
        /\ UNCHANGED <<index, pitem, pipe, cpc, timeout, cursor, coroQueue, local>>
    BY DEF AddTail, ownVars, coroVars, queueVars, mailVars, loopVars, roundVars
  <1>2. box \in Box /\ index[box] \in 0..3 /\ side = Side(index[box])
    BY <1>1, BoxOfIsBox DEF RaceInv, PostersTyped, SideIsKept
  <1>3. side \in 0..1 /\ OtherSide(index[box]) \in 0..1 /\ OtherSide(index[box]) # side
    BY <1>2, IndexFacts
  <1>4. Append(buffers[box][side], pitem[p]) \in Seq(Message \cup Entry)
    BY <1>1, <1>2, <1>3 DEF WakeTyped, HasItem
  <1>5. buffers' \in [Box -> [0..1 -> Seq(Message \cup Entry)]]
    BY <1>1, <1>2, <1>3, <1>4 DEF WakeTyped
  <1>6. /\ \A b \in Box : b # box => buffers'[b] = buffers[b]
        /\ buffers'[box][OtherSide(index[box])] = buffers[box][OtherSide(index[box])]
    BY <1>1, <1>2, <1>3 DEF WakeTyped
  <1>7. /\ ppc'[p] = "clear"
        /\ \A q \in Carrier : q # p => ppc'[q] = ppc[q]
        /\ \A q \in Carrier : BoxOf(q)' = BoxOf(q)
    BY <1>1 DEF RaceInv, PostersTyped, BoxOf
  <1>8. WakeTyped' /\ HasItem'
    BY <1>1, <1>5, <1>7 DEF WakeTyped, HasItem
  <1>9. BusyMeansProducing'
    BY <1>1, <1>7 DEF BusyMeansProducing, Producing
  <1>10. TakenToTheEnd'
    BY <1>1, <1>6 DEF TakenToTheEnd
  <1>11. \A b \in Box : (Announced(b) => Announced(b)') /\ (WillLook(b) => WillLook(b)')
    BY <1>1, <1>7 DEF Announced, InBox, WillLook
  <1>12. \A b \in Box : b = box => Announced(b)'
    BY <1>7 DEF Announced, InBox
  <1>13. Noticed'
    <2> SUFFICES ASSUME NEW b \in Box, buffers'[b][Side(index'[b])] # <<>>
                 PROVE  Announced(b)' \/ pipe' # <<>> \/ WillLook(b)'
      BY DEF Noticed
    <2>1. CASE b = box
      BY <2>1, <1>12
    <2>2. CASE b # box
      <3>1. buffers[b][Side(index[b])] # <<>>
        BY <1>1, <1>6, <2>2
      <3>2. QED  BY <1>1, <1>11, <3>1 DEF Noticed
    <2>3. QED  BY <2>1, <2>2
  <1>14. LocalNoticed' /\ ForeverMeansIdle'
    BY <1>1 DEF LocalNoticed, WillEmpty, ForeverMeansIdle
  <1>15. QED  BY <1>8, <1>9, <1>10, <1>13, <1>14

LEMMA ClearBusyKeepsWake ==
    ASSUME RaceInv, WakeInv, NEW p \in Carrier, ClearBusy(p)
    PROVE  WakeInv'
  <1> USE DEF WakeInv
  <1> DEFINE box == BoxOf(p)
  <1>1. /\ ppc[p] = "clear" /\ index' = [index EXCEPT ![box] = NoBusy(@)]
        /\ ppc' = [ppc EXCEPT ![p] = "write"]
        /\ UNCHANGED <<buffers, pitem, pipe, cpc, timeout, cursor, coroQueue, local>>
    BY DEF ClearBusy, ownVars, coroVars, queueVars, mailVars, loopVars, roundVars
  <1>2. box \in Box /\ index \in [Box -> 0..3]
    BY BoxOfIsBox DEF RaceInv, PostersTyped
  <1>3. /\ \A b \in Box : b # box => index'[b] = index[b]
        /\ ~ IsBusy(index'[box])
        /\ \A b \in Box : /\ Side(index'[b]) = Side(index[b])
                          /\ OtherSide(index'[b]) = OtherSide(index[b])
    BY <1>1, <1>2, IndexFacts
  <1>4. /\ ppc'[p] = "write"
        /\ \A q \in Carrier : q # p => ppc'[q] = ppc[q]
        /\ \A q \in Carrier : BoxOf(q)' = BoxOf(q)
    BY <1>1 DEF RaceInv, PostersTyped, BoxOf
  <1>5. WakeTyped' /\ HasItem'
    BY <1>1, <1>4 DEF WakeTyped, HasItem
  <1>6. BusyMeansProducing'
    BY <1>2, <1>3, <1>4 DEF BusyMeansProducing, Producing
  <1>7. TakenToTheEnd'
    BY <1>1, <1>3 DEF TakenToTheEnd
  <1>8. \A b \in Box : (Announced(b) => Announced(b)') /\ (WillLook(b) => WillLook(b)')
    BY <1>1, <1>4 DEF Announced, InBox, WillLook
  <1>9. Noticed'
    BY <1>1, <1>3, <1>8 DEF Noticed
  <1>10. LocalNoticed' /\ ForeverMeansIdle'
    BY <1>1 DEF LocalNoticed, WillEmpty, ForeverMeansIdle
  <1>11. QED  BY <1>5, <1>6, <1>7, <1>9, <1>10

-----------------------------------------------------------------------------
LEMMA WakeInvInit == Init => WakeInv
  <1> SUFFICES ASSUME Init PROVE WakeInv
    OBVIOUS
  <1>1. \A b \in Box : /\ Side(index[b]) = 0 /\ OtherSide(index[b]) = 1
                       /\ ~ IsBusy(index[b])
    BY DEF Init, Side, OtherSide, IsBusy
  <1>2. WakeTyped /\ HasItem
    BY P7Assumption DEF Init, WakeTyped, HasItem
  <1>3. TakenToTheEnd /\ Noticed
    BY <1>1 DEF Init, TakenToTheEnd, Noticed
  <1>4. BusyMeansProducing /\ LocalNoticed /\ ForeverMeansIdle
    BY <1>1 DEF Init, BusyMeansProducing, LocalNoticed, ForeverMeansIdle
  <1>5. QED  BY <1>2, <1>3, <1>4 DEF WakeInv

LEMMA WakeUntouched ==
    ASSUME WakeInv, UNCHANGED wakeVars
    PROVE  WakeInv'
  BY DEF WakeInv, WakeTyped, HasItem, BusyMeansProducing, TakenToTheEnd, Noticed,
         LocalNoticed, ForeverMeansIdle, Announced, InBox, WillLook, WillEmpty,
         Producing, BoxOf, wakeVars, posterVars

LEMMA WakeInvNext == RaceInv /\ WakeInv /\ [Next]_vars => WakeInv'
  <1> SUFFICES ASSUME RaceInv, WakeInv, [Next]_vars PROVE WakeInv'
    OBVIOUS
  <1>1. CASE Loop
    BY <1>1, LoopKeepsWake, ReadPipeKeepsWake, SwapKeepsWake, DrainKeepsWake,
       BoxDoneKeepsWake DEF Loop
  <1>2. CASE EpollReturns \/ EpollTimesOut \/ EpollFails
    BY <1>2, LoopKeepsWake
  <1>3. CASE \/ Leave \/ TakeMessage \/ IoNotifyFails \/ SendLocal \/ CreateLocal
             \/ Concat \/ WakeTheDead \/ WakeDeadParent
             \/ \E c \in Coro : BecomesReady(c) \/ Elapse(c)
    BY <1>3, CoroutinesKeepWake, WakeUntouched
  <1>4. ASSUME NEW p \in Carrier,
               BeginSend(p) \/ FindName(p) \/ BeginRequest(p) \/ Post(p)
        PROVE  WakeInv'
    BY <1>4, SendKeepsWake, SetBusyKeepsWake, AddTailKeepsWake, ClearBusyKeepsWake
       DEF Post
  <1>5. CASE UNCHANGED vars
    BY <1>5, WakeUntouched
       DEF vars, sharedVars, boxVars, postVars, ownVars, coroVars, queueVars, mailVars,
           loopVars, roundVars, wakeVars, posterVars
  <1>6. QED
    BY <1>1, <1>2, <1>3, <1>4, <1>5 DEF Next

LEMMA WakeImpliesNoLostWakeup == RaceInv /\ WakeInv => NoLostWakeup
  <1> SUFFICES ASSUME RaceInv, WakeInv, cpc = "sleep", timeout = "ever", pipe = <<>>
               PROVE  /\ coroQueue = <<>> /\ local = <<>>
                      /\ \A b \in Box : Waiting(b) # {} =>
                            \E p \in Carrier : BoxOf(p) = b /\ InBox(p)
    BY DEF NoLostWakeup
  <1>1. coroQueue = <<>> /\ local = <<>>
    BY DEF WakeInv, ForeverMeansIdle, LocalNoticed, WillEmpty
  <1>2. ASSUME NEW b \in Box, Waiting(b) # {}
        PROVE  \E p \in Carrier : BoxOf(p) = b /\ InBox(p)
    <2>1. buffers[b][0] # <<>> \/ buffers[b][1] # <<>>
      BY <1>2 DEF Waiting, Range
    <2>2. index[b] \in 0..3
      BY DEF RaceInv, PostersTyped
    <2>3. buffers[b][Side(index[b])] # <<>> \/ buffers[b][OtherSide(index[b])] # <<>>
      BY <2>1, <2>2 DEF Side, OtherSide
    <2>4. buffers[b][OtherSide(index[b])] = <<>>
      BY DEF WakeInv, TakenToTheEnd
    <2>5. Announced(b)
      BY <2>3, <2>4 DEF WakeInv, Noticed, WillLook
    <2>6. QED  BY <2>5 DEF Announced
  <1>3. QED  BY <1>1, <1>2

LEMMA WakeInvHolds == Spec => []WakeInv
  <1>1. RaceInv /\ WakeInv /\ [Next]_vars => (RaceInv /\ WakeInv)'
    BY RaceInvNext, WakeInvNext
  <1>2. QED
    BY <1>1, RaceInvInit, WakeInvInit, PTL DEF Spec

\* A carrier of p7impl.c that sleeps without a timeout and with an empty pipe has
\* nothing to run, and whatever lies in a box is of a poster that will write to
\* the pipe, for any number of carriers: what a swap failed to take is of one that
\* was busy, and writes later.
THEOREM WakeupNotLost == Spec => []NoLostWakeup
  BY WakeImpliesNoLostWakeup, RaceInvHolds, WakeInvHolds, PTL

(***************************************************************************)
(* The lives of the coroutines.                                            *)
(***************************************************************************)
Runnable == Range(coroQueue)
Dying    == Range(dying)
Unused   == Range(pool) \cup heap

\* Each struct in its place.
Placed ==
    /\ coroQueue \in Seq(Coro) /\ dying \in Seq(Coro) /\ pool \in Seq(Coro)
    /\ alive \subseteq Coro /\ heap \subseteq Coro
    /\ Once(coroQueue) /\ Once(dying) /\ Once(pool)
    /\ Runnable \cap blocked = {} /\ Runnable \cup blocked = alive
    /\ alive \cap Dying = {} /\ Range(pool) \cap heap = {}
    /\ (alive \cup Dying) \cap Unused = {}
    /\ Len(pool) <= PoolCap
    /\ \A c \in Coro : body[c] = None <=> c \in Unused
    /\ decay \in [Coro -> Int]
    /\ ~ ByName => /\ named = {} /\ \A c \in Coro : decay[c] = 0
                   /\ alive \cup Dying \cup Unused = Coro

\* What a struct runs is its own from the start, or was requested, and nothing is
\* requested twice.
Carrying(p) == ppc[p] \in {"busy", "add0", "add1"} /\ pitem[p] \in Entry
Bodies == {body[c] : c \in Coro}
EntriesOnce ==
    /\ body \in [Coro -> Coro \cup Entry \cup {None}]
    /\ \A s \in 0..1 : buffers[Rq][s] \in Seq(Entry) /\ Once(buffers[Rq][s])
    /\ \A c \in Coro : body[c] \in Coro => body[c] = c
    /\ \A c, d \in Coro : body[c] = body[d] /\ c # d => body[c] = None
    /\ Range(buffers[Rq][0]) \cap Range(buffers[Rq][1]) = {}
    /\ fresh \cap Waiting(Rq) = {} /\ fresh \cap Bodies = {} /\ Waiting(Rq) \cap Bodies = {}
    /\ \A p \in Carrier : Carrying(p) => pitem[p] \notin fresh \cup Waiting(Rq) \cup Bodies

\* Children and the parents in p7_coro_concat.
Family ==
    /\ following \in [Coro -> Coro \cup {None}]
    /\ ParentsWait
    /\ \A c, d \in alive : following[c] = following[d] /\ c # d =>
                             following[c] = None \/ following[c] \in refused
    /\ \A c \in Coro : following[c] # c
    /\ \A c \in Coro : body[c] = None => following[c] = None
    /\ \A c \in blocked : mode[c] = "concat" => \E d \in alive : following[d] = c

\* In which call a coroutine is, and what of it remains.
Calls ==
    /\ mode \in [Coro -> {"run", "recv", "io", "iorecv", "concat"}]
    /\ fd \in [Coro -> {"none", "watched", "ready", "reported"}]
    /\ timer \in [Coro -> {"none", "armed", "due", "triggered"}]
    /\ recv \subseteq Coro /\ refused \subseteq Coro /\ batch \subseteq Coro \cup {Pipe}
    /\ \A c \in Coro \ alive : mode[c] = "run"
    /\ \A c \in Coro : fd[c] # "none" => mode[c] \in {"io", "iorecv"}
    /\ \A c \in Coro : timer[c] # "none" => mode[c] \in {"recv", "io", "iorecv"}
    /\ \A c \in recv : mode[c] \in {"recv", "iorecv"} \/ c \in refused
    /\ \A c \in blocked :
          /\ mode[c] \in {"recv", "iorecv"} => c \in recv
          /\ mode[c] \in {"io", "iorecv"} => fd[c] \in {"watched", "ready"} \/ c \in batch
          /\ mode[c] # "run"
    /\ \A c \in batch : c # Pipe => fd[c] = "reported"
    /\ batch # {} => cpc \in {"expire", "events", "pipe", "astray"}

\* Whose turn it is.
Turns ==
    /\ cpc \in {"timeout", "sleep", "expire", "events", "pipe", "swap", "drain", "bury",
                "resume", "run", "stuck", "astray"}
    /\ running \in Coro \cup {None}
    /\ running # None => running \in Runnable
    /\ resched \subseteq Runnable
    /\ cpc \in {"resume", "run"} => /\ running # None /\ running = Head(coroQueue)
                                    /\ running \notin resched
    /\ cpc = "run" => mode[running] = "run"
    /\ cpc = "bury" => dying # <<>> /\ local = <<>>

\* What a careful coroutine was sent lies in its mailbox while it lives.
Kept(m) == origin[m] = 0 /\ meant[m] \in Careful =>
               Dst[m] \in alive /\ body[Dst[m]] = meant[m]

\* Messages on their way.
Sent ==
    /\ origin \in [Message -> Box \cup {None}]
    /\ meant \in [Message -> Coro \cup Entry \cup {None}]
    /\ mailbox \in [Coro -> Seq(Message)] /\ local \in Seq(Message)
    /\ \A p \in Carrier, s \in 0..1 : buffers[p][s] \in Seq(Message)
    /\ \A p \in Carrier, m \in Message : m \in Waiting(p) => origin[m] = p
    /\ \A c \in Coro : \A m \in Range(mailbox[c]) : Dst[m] = c /\ origin[m] # None /\ Kept(m)
    /\ \A m \in Range(local) : /\ origin[m] = 0 /\ body[Dst[m]] = meant[m]
                               /\ Dst[m] \notin Unused

\* Those that the other carriers are about to send, each by one of them.
CarriedOnce ==
    \A p \in Carrier :
        /\ Posts(p) /\ pitem[p] \in Message => origin[pitem[p]] = p
        /\ ppc[p] \in {"found", "counted"} => origin[pitem[p]] = None
        /\ \A q \in Carrier : q # p /\ pitem[q] = pitem[p] => pitem[p] \notin Message

Others ==
    /\ lock \in Carrier \cup {None} /\ timeout \in {"now", "timer", "ever"}
    /\ dispatched \in Seq(Message)

LifeInv == /\ Placed /\ EntriesOnce /\ Family /\ Calls /\ Turns
           /\ Sent /\ CarriedOnce /\ Others

-----------------------------------------------------------------------------
\* What the parts of the invariant are about.
placeVars  == <<coroQueue, dying, pool, blocked, heap, alive, body, named, decay>>
entryVars  == <<body, buffers, fresh, ppc, pitem>>
familyVars == <<alive, following, blocked, mode, body, refused>>
callVars   == <<mode, fd, timer, recv, batch, blocked, alive, cpc, refused>>
turnVars   == <<resched, coroQueue, running, cpc, mode, dying, local>>
letterVars == <<buffers, origin, meant, mailbox, alive, body, local, pool, heap>>
carryVars  == <<ppc, pitem, origin>>
otherVars  == <<lock, timeout, dispatched>>

LEMMA Untouched ==
    ASSUME LifeInv
    PROVE  /\ UNCHANGED placeVars  => Placed'
           /\ UNCHANGED entryVars  => EntriesOnce'
           /\ UNCHANGED familyVars => Family'
           /\ UNCHANGED callVars   => Calls'
           /\ UNCHANGED turnVars   => Turns'
           /\ UNCHANGED letterVars => Sent'
           /\ UNCHANGED carryVars  => CarriedOnce'
           /\ UNCHANGED otherVars  => Others'
<1> USE DEF LifeInv
<1>1. UNCHANGED placeVars => Placed'
  BY DEF placeVars, Placed, Runnable, Dying, Unused
<1>2. UNCHANGED entryVars => EntriesOnce'
  BY DEF entryVars, EntriesOnce, Waiting, Carrying, Bodies
<1>3. UNCHANGED familyVars => Family'
  BY DEF familyVars, Family, ParentsWait
<1>4. UNCHANGED callVars => Calls'
  BY DEF callVars, Calls
<1>5. UNCHANGED turnVars => Turns'
  BY DEF turnVars, Turns, Runnable
<1>6. UNCHANGED letterVars => Sent'
  BY DEF letterVars, Sent, Kept, Waiting, Unused
<1>7. UNCHANGED carryVars => CarriedOnce'
  BY DEF carryVars, CarriedOnce, Posts, InBox
<1>8. UNCHANGED otherVars => Others'
  BY DEF otherVars, Others
<1> QED
  BY <1>1, <1>2, <1>3, <1>4, <1>5, <1>6, <1>7, <1>8

\* Other names for None.
LEMMA NoCoro == None \notin Coro /\ None \notin Entry /\ None \notin Message /\ Pipe \notin Coro
BY P7Assumption

LEMMA LifeInvInit == Init => LifeInv
<1> SUFFICES ASSUME Init PROVE LifeInv
  OBVIOUS
<1>1. coroQueue \in Seq(Coro) /\ Runnable = Started /\ Once(coroQueue)
  <2>1. coroQueue \in Orders(Started) /\ Started \in SUBSET Coro /\ IsFiniteSet(Started)
    BY P7Assumption DEF Init
  <2> QED
    BY <2>1, OrdersFacts DEF Runnable
<1>2. dying = <<>> /\ pool = <<>> /\ Dying = {} /\ Unused = Coro \ Started
      /\ Once(dying) /\ Once(pool) /\ Len(pool) = 0
  BY EmptyFacts DEF Init, Dying, Unused
<1>3. Placed
  <2>1. /\ alive = Started /\ blocked = {} /\ heap = Coro \ Started /\ named = {}
        /\ Range(pool) = {} /\ \A c \in Coro : body[c] = None <=> c \notin Started
        /\ dying \in Seq(Coro) /\ pool \in Seq(Coro) /\ Started \subseteq Coro
        /\ decay = [c \in Coro |-> 0] /\ 0 \in Int
    BY <1>2, NoCoro, EmptyFacts, P7Assumption DEF Init
  <2>2. Len(pool) <= PoolCap
    BY <1>2, P7Assumption
  <2> QED
    BY <1>1, <1>2, <2>1, <2>2 DEF Placed
<1>4. EntriesOnce
  <2>1. \A b \in Box, s \in 0..1 : buffers[b][s] = <<>>
    BY DEF Init
  <2>2. Rq \in Box
    BY P7Assumption DEF Rq, Box
  <2>3. Waiting(Rq) = {} /\ Once(<<>>)
    BY <2>1, <2>2, EmptyFacts DEF Waiting
  <2> QED
    BY <2>1, <2>2, <2>3, EmptyFacts, NoCoro, P7Assumption
       DEF Init, EntriesOnce, Carrying, Bodies
<1>5. Family
  <2>1. following = [c \in Coro |-> None] /\ blocked = {} /\ alive \subseteq Coro
    BY P7Assumption DEF Init
  <2> QED
    BY <2>1, NoCoro DEF Family, ParentsWait
<1>6. Calls /\ Others
  BY P7Assumption DEF Init, Calls, Others
<1>7. Turns
  BY DEF Init, Turns
<1>8. Sent
  <2>1. \A p \in Carrier : p \in Box /\ \A s \in 0..1 : buffers[p][s] = <<>>
    BY DEF Init, Carrier, Box
  <2>2. \A p \in Carrier : Waiting(p) = {}
    BY <2>1, EmptyFacts DEF Waiting
  <2> QED
    BY <2>1, <2>2, EmptyFacts DEF Init, Sent
<1>9. CarriedOnce
  <2>1. \A p \in Carrier : ppc[p] = "idle" /\ pitem[p] = None
    BY DEF Init
  <2> QED
    BY <2>1, NoCoro DEF CarriedOnce, Posts, InBox
<1> QED
  BY <1>3, <1>4, <1>5, <1>6, <1>7, <1>8, <1>9 DEF LifeInv

-----------------------------------------------------------------------------
\* The loop: steps that move nothing but the loop itself.
LEMMA ControlKeepsLife ==
    ASSUME LifeInv,
           UNCHANGED <<placeVars, entryVars, familyVars, letterVars, carryVars>>,
           UNCHANGED <<fd, timer, recv, resched, running, lock, dispatched>>,
           cpc' \in {"timeout", "sleep", "expire", "events", "pipe", "swap", "drain",
                     "astray"},
           timeout' \in {"now", "timer", "ever"},
           batch' \subseteq batch, batch \subseteq batch' \cup {Pipe},
           batch' # {} => cpc' \in {"expire", "events", "pipe", "astray"}
    PROVE  LifeInv'
<1> USE DEF LifeInv
<1>1. Placed' /\ EntriesOnce' /\ Family' /\ Sent' /\ CarriedOnce'
  BY Untouched
<1>2. Calls'
  <2>1. \A c \in blocked : c \in Coro /\ (c \in batch => c \in batch')
    BY NoCoro DEF Placed
  <2>2. UNCHANGED <<mode, blocked, alive, refused>>
    BY DEF familyVars
  <2> QED
    BY <2>1, <2>2 DEF Calls
<1>3. Turns' /\ Others'
  BY DEF Turns, Others, Runnable, placeVars, familyVars
<1> QED
  BY <1>1, <1>2, <1>3

LEMMA LoopStepsKeepLife ==
    ASSUME LifeInv,
           \/ ComputeTimeout \/ EpollTimesOut \/ EpollFails \/ TimersDone \/ BeginPipe
           \/ PipeDone \/ EventsDone \/ SwapBox \/ BoxDone \/ Yield
           \/ WakeTheDead \/ WakeDeadParent
    PROVE  LifeInv'
<1> USE DEF sharedVars, boxVars, sentVars, postVars, coroVars, queueVars, lifeVars, mailVars,
            roundVars, placeVars, entryVars, familyVars, letterVars, carryVars
<1>1. /\ timeout \in {"now", "timer", "ever"}
      /\ batch # {} => cpc \in {"expire", "events", "pipe", "astray"}
  BY DEF LifeInv, Others, Calls
<1>2. CASE ComputeTimeout
  BY <1>1, <1>2, ControlKeepsLife DEF ComputeTimeout
<1>3. CASE EpollTimesOut \/ EpollFails
  BY <1>1, <1>3, ControlKeepsLife DEF EpollTimesOut, EpollFails
<1>4. CASE TimersDone \/ PipeDone
  BY <1>1, <1>4, ControlKeepsLife DEF TimersDone, PipeDone
<1>5. CASE BeginPipe
  BY <1>1, <1>5, ControlKeepsLife DEF BeginPipe
<1>6. CASE EventsDone
  BY <1>1, <1>6, ControlKeepsLife DEF EventsDone
<1>7. CASE SwapBox \/ BoxDone
  BY <1>1, <1>7, ControlKeepsLife DEF SwapBox, BoxDone
<1>8. CASE Yield
  BY <1>1, <1>8, ControlKeepsLife DEF Yield
<1>9. CASE WakeTheDead \/ WakeDeadParent
  BY <1>1, <1>9, ControlKeepsLife DEF WakeTheDead, WakeDeadParent
<1> QED
  BY <1>2, <1>3, <1>4, <1>5, <1>6, <1>7, <1>8, <1>9

\* What epoll reports is in the batch from then on.
LEMMA EpollReturnsKeepsLife ==
    ASSUME LifeInv, EpollReturns
    PROVE  LifeInv'
<1> USE DEF LifeInv
<1>1. /\ cpc = "sleep" /\ cpc' = "expire" /\ batch' = Ready
      /\ fd' = [c \in Coro |-> IF c \in Ready THEN "reported" ELSE fd[c]]
      /\ UNCHANGED <<sharedVars, queueVars, lifeVars, timer, mailVars, timeout>>
  BY DEF EpollReturns
<1>2. Placed' /\ EntriesOnce' /\ Family' /\ Sent' /\ CarriedOnce' /\ Others'
  BY <1>1, Untouched
     DEF sharedVars, boxVars, sentVars, postVars, queueVars, lifeVars, mailVars,
         placeVars, entryVars, familyVars, letterVars, carryVars, otherVars
<1>3. batch = {} /\ \A c \in Coro : c \in Ready <=> fd[c] = "ready"
  BY <1>1, NoCoro DEF Calls, Ready
<1>4. UNCHANGED <<mode, timer, recv, refused, blocked, alive, resched, coroQueue, running>>
  BY <1>1 DEF queueVars, lifeVars
<1>5. \A c \in Coro : fd'[c] = IF c \in Ready THEN "reported" ELSE fd[c]
  BY <1>1
<1>6. fd' \in [Coro -> {"none", "watched", "ready", "reported"}] /\ Ready \subseteq Coro \cup {Pipe}
  BY <1>1 DEF Calls, Ready
<1>7. \A c \in blocked : c \in Coro
  BY DEF Placed
<1>8. Calls'
  BY <1>1, <1>3, <1>4, <1>5, <1>6, <1>7 DEF Calls
<1>9. Turns'
  BY <1>1, <1>4 DEF Turns, Runnable
<1> QED
  BY <1>2, <1>8, <1>9

-----------------------------------------------------------------------------
\* What makes a coroutine runnable that is alive, and waits for no child or has been
\* refused a descriptor.
LEMMA RescheduleKeepsLife ==
    ASSUME LifeInv, NEW c \in Coro, c \in alive, Reschedule(c),
           mode[c] # "concat" \/ c \in refused,
           cpc \in {"expire", "events", "pipe"}, cpc' = cpc,
           UNCHANGED <<running, mode, refused, lifeVars, named, decay, local>>
    PROVE  /\ Placed' /\ Family' /\ Turns' /\ c \notin blocked' /\ c \in Runnable'
           /\ blocked' \subseteq blocked
<1> USE DEF LifeInv
<1>1. UNCHANGED <<body, alive, following, pool, heap>>
  BY DEF lifeVars
<1>2. CASE c \in resched
  <2>1. UNCHANGED <<coroQueue, blocked, dying, resched>>
    BY <1>2 DEF Reschedule
  <2>2. c \in Runnable /\ Runnable' = Runnable
    BY <1>2, <2>1 DEF Turns, Runnable
  <2>3. Placed' /\ Family' /\ Turns'
    BY <2>1, <1>1, Untouched DEF placeVars, familyVars, turnVars
  <2> QED
    BY <2>1, <2>2, <2>3 DEF Placed
<1>3. CASE c \notin resched
  <2>1. /\ coroQueue' = Append(Without(coroQueue, c), c) /\ blocked' = blocked \ {c}
        /\ dying' = Without(dying, c) /\ resched' = resched \cup {c}
    BY <1>3 DEF Reschedule
  <2>2. coroQueue \in Seq(Coro) /\ dying \in Seq(Coro) /\ c \notin Range(dying)
        /\ Once(coroQueue)
    BY DEF Placed, Dying
  <2>3. dying' = dying
    BY <2>1, <2>2, WithoutFacts
  <2>4. /\ Without(coroQueue, c) \in Seq(Coro) /\ Once(Without(coroQueue, c))
        /\ Range(Without(coroQueue, c)) = Range(coroQueue) \ {c}
    BY <2>2, WithoutFacts
  <2>5. coroQueue' \in Seq(Coro) /\ Once(coroQueue') /\ Range(coroQueue') = Range(coroQueue) \cup {c}
    <3> DEFINE rest == Without(coroQueue, c)
    <3>1. rest \in Seq(Coro) /\ Once(rest) /\ Range(rest) = Range(coroQueue) \ {c}
      BY <2>4
    <3>2. coroQueue' = Append(rest, c)
      BY <2>1
    <3> HIDE DEF rest
    <3>3. /\ Append(rest, c) \in Seq(Coro) /\ Range(Append(rest, c)) = Range(rest) \cup {c}
          /\ Once(Append(rest, c)) <=> Once(rest) /\ c \notin Range(rest)
      BY <3>1, AppendFacts
    <3> QED
      BY <3>1, <3>2, <3>3
  <2>6. Runnable' = Runnable \cup {c} /\ Dying' = Dying /\ Unused' = Unused
    BY <2>3, <2>5, <1>1 DEF Runnable, Dying, Unused
  <2>7. Placed'
    BY <2>1, <2>3, <2>5, <2>6, <1>1 DEF Placed
  <2>8. Family'
    BY <2>1, <1>1 DEF Family, ParentsWait
  <2>9. Turns'
    BY <2>1, <2>6 DEF Turns
  <2> QED
    BY <2>1, <2>6, <2>7, <2>8, <2>9
<1> QED
  BY <1>2, <1>3

LEMMA ExpireTimerKeepsLife ==
    ASSUME LifeInv, ExpireTimer
    PROVE  LifeInv'
<1> USE DEF LifeInv
<1>1. PICK c \in Due : timer' = [timer EXCEPT ![c] = "triggered"] /\ Reschedule(c)
  BY DEF ExpireTimer
<1>2. /\ cpc = "expire" /\ cpc' = cpc
      /\ UNCHANGED <<sharedVars, running, recv, mode, refused, lifeVars, fd, mailVars, batch,
                     timeout>>
  BY DEF ExpireTimer, loopVars, roundVars
<1>3. c \in Coro /\ timer[c] = "due" /\ c \in alive /\ mode[c] \in {"recv", "io", "iorecv"}
  BY DEF Due, Calls
<1>4. Placed' /\ Family' /\ Turns' /\ c \notin blocked' /\ blocked' \subseteq blocked
  BY <1>1, <1>2, <1>3, RescheduleKeepsLife DEF sharedVars, postVars, mailVars
<1>5. EntriesOnce' /\ Sent' /\ CarriedOnce' /\ Others'
  BY <1>2, Untouched
     DEF sharedVars, boxVars, sentVars, postVars, lifeVars, mailVars, entryVars, letterVars,
         carryVars, otherVars
<1>6. timer' \in [Coro -> {"none", "armed", "due", "triggered"}]
      /\ \A d \in Coro : timer'[d] # "none" => timer[d] # "none"
  BY <1>1, <1>3 DEF Calls
<1>7. alive' = alive
  BY <1>2 DEF lifeVars
<1>8. Calls'
  BY <1>2, <1>4, <1>6, <1>7 DEF Calls
<1> QED
  BY <1>4, <1>5, <1>8

LEMMA HandleIoKeepsLife ==
    ASSUME LifeInv, HandleIo
    PROVE  LifeInv'
<1> USE DEF LifeInv
<1>1. PICK c \in batch \cap Coro : batch' = batch \ {c} /\ Reschedule(c)
  BY DEF HandleIo
<1>2. /\ cpc = "events" /\ cpc' = cpc
      /\ UNCHANGED <<sharedVars, running, recv, mode, refused, lifeVars, fd, timer, mailVars,
                     timeout>>
  BY DEF HandleIo
<1>3. c \in Coro /\ c \in alive /\ mode[c] \in {"io", "iorecv"}
  BY NoCoro DEF Calls
<1>4. Placed' /\ Family' /\ Turns' /\ c \notin blocked' /\ blocked' \subseteq blocked
  BY <1>1, <1>2, <1>3, RescheduleKeepsLife DEF sharedVars, postVars, mailVars
<1>5. EntriesOnce' /\ Sent' /\ CarriedOnce' /\ Others'
  BY <1>2, Untouched
     DEF sharedVars, boxVars, sentVars, postVars, lifeVars, mailVars, entryVars, letterVars,
         carryVars, otherVars
<1>6. alive' = alive
  BY <1>2 DEF lifeVars
<1>7. Calls'
  BY <1>1, <1>2, <1>4, <1>6 DEF Calls
<1> QED
  BY <1>4, <1>5, <1>7

LEMMA ReadPipeKeepsLife ==
    ASSUME LifeInv, ReadPipe
    PROVE  LifeInv'
<1> USE DEF LifeInv
<1> DEFINE c == Head(pipe)
<1>1. /\ cpc = "pipe" /\ cpc' = cpc
      /\ UNCHANGED <<boxVars, sentVars, postVars, decay, running, mode, refused, lifeVars, fd,
                     timer, mailVars, batch, timeout>>
  BY DEF ReadPipe, loopVars, roundVars
<1>2. EntriesOnce' /\ Sent' /\ CarriedOnce' /\ Others'
  BY <1>1, Untouched
     DEF boxVars, sentVars, postVars, lifeVars, mailVars, entryVars, letterVars, carryVars,
         otherVars
<1>3. alive' = alive
  BY <1>1 DEF lifeVars
<1>4. CASE c \in recv
  <2>1. Reschedule(c) /\ recv' = recv \ {c}
    BY <1>4 DEF ReadPipe
  <2>2. c \in Coro /\ c \in alive /\ (mode[c] # "concat" \/ c \in refused)
    BY <1>4 DEF Calls, ReadPipe
  <2> HIDE DEF c
  <2>3. Placed' /\ Family' /\ Turns' /\ c \notin blocked' /\ blocked' \subseteq blocked
    BY <1>1, <2>1, <2>2, RescheduleKeepsLife DEF postVars, mailVars
  <2>4. Calls'
    BY <1>1, <1>3, <2>1, <2>3 DEF Calls
  <2> QED
    BY <1>2, <2>3, <2>4
<1>5. CASE c \notin recv
  <2>1. UNCHANGED <<coroQueue, blocked, dying, resched, recv>>
    BY <1>5 DEF ReadPipe
  <2> QED
    BY <1>1, <1>2, <2>1, Untouched
       DEF postVars, lifeVars, mailVars, placeVars, familyVars, callVars, turnVars
<1> QED
  BY <1>4, <1>5

-----------------------------------------------------------------------------
\* The posters.  Their steps are nothing to the carrier's queues.
LEMMA PostersKeepQueues ==
    ASSUME LifeInv, UNCHANGED ownVars, decay' \in [Coro -> Int],
           ByName \/ (named' \subseteq named /\ decay' = decay)
    PROVE  Placed' /\ Family' /\ Calls' /\ Turns'
<1> USE DEF ownVars, coroVars, queueVars, lifeVars, mailVars, loopVars, roundVars, familyVars,
            callVars, turnVars
<1>1. Family' /\ Calls' /\ Turns'
  BY Untouched
<1>2. Runnable' = Runnable /\ Dying' = Dying /\ Unused' = Unused
  BY DEF Runnable, Dying, Unused
<1>3. Placed'
  BY <1>2 DEF LifeInv, Placed
<1> QED
  BY <1>1, <1>3

\* What is alive is no struct that is unused.
LEMMA UnsentFacts ==
    ASSUME LifeInv, NEW m \in Unsent
    PROVE  /\ m \in Message /\ origin[m] = None /\ m \notin Entry
           /\ Dst[m] \in Coro /\ Dst[m] \in alive /\ Dst[m] \notin Unused
           /\ body[Dst[m]] \in Coro \cup Entry
           /\ \A p \in Carrier : pitem[p] # m
<1> USE DEF LifeInv
<1>1. /\ m \in Message /\ origin[m] = None /\ Dst[m] \in alive
      /\ \A p \in Carrier : pitem[p] # m
  BY DEF Unsent
<1>2. m \notin Entry /\ Dst[m] \in Coro
  BY <1>1, P7Assumption
<1>3. Dst[m] \notin Unused /\ body[Dst[m]] # None
  BY <1>1, <1>2 DEF Placed
<1>4. body[Dst[m]] \in Coro \cup Entry
  BY <1>2, <1>3 DEF EntriesOnce
<1> QED
  BY <1>1, <1>2, <1>3, <1>4

\* A message that has no origin is nowhere.
LEMMA NowhereYet ==
    ASSUME LifeInv, NEW m \in Message, origin[m] = None
    PROVE  /\ \A c \in Coro : m \notin Range(mailbox[c])
           /\ m \notin Range(local) /\ \A p \in Carrier : m \notin Waiting(p)
<1>1. None \notin Carrier /\ None # 0
  BY P7Assumption DEF Carrier, Box
<1> QED
  BY <1>1 DEF LifeInv, Sent

\* A message gets its origin, or what it is meant for.
LEMMA StampKeepsSent ==
    ASSUME LifeInv, NEW m \in Message, origin[m] = None,
           NEW o \in Box \cup {None}, NEW x \in Coro \cup Entry \cup {None},
           origin' = [origin EXCEPT ![m] = o], meant' = [meant EXCEPT ![m] = x],
           UNCHANGED <<buffers, mailbox, alive, body, local, pool, heap>>
    PROVE  Sent'
<1> USE DEF LifeInv
<1>1. /\ \A c \in Coro : m \notin Range(mailbox[c])
      /\ m \notin Range(local) /\ \A p \in Carrier : m \notin Waiting(p)
  BY NowhereYet
<1>2. /\ \A k \in Message : k # m => origin'[k] = origin[k] /\ meant'[k] = meant[k]
      /\ origin' \in [Message -> Box \cup {None}]
      /\ meant' \in [Message -> Coro \cup Entry \cup {None}]
  BY DEF Sent
<1>3. (\A p \in Carrier : Waiting(p)' = Waiting(p)) /\ Unused' = Unused
  BY DEF Waiting, Unused
<1>4. \A c \in Coro : \A k \in Range(mailbox[c]) : k # m /\ k \in Message
  BY <1>1 DEF Sent, Range
<1>5. \A k \in Range(local) : k # m /\ k \in Message
  BY <1>1 DEF Sent, Range
<1>6. \A c \in Coro : \A k \in Range(mailbox'[c]) : Dst[k] = c /\ origin'[k] # None /\ Kept(k)'
  BY <1>2, <1>4 DEF Sent, Kept
<1>7. \A k \in Range(local') : /\ origin'[k] = 0 /\ body'[Dst[k]] = meant'[k]
                               /\ Dst[k] \notin Unused'
  BY <1>2, <1>3, <1>5 DEF Sent
<1>8. \A p \in Carrier, k \in Message : k \in Waiting(p)' => origin'[k] = p
  BY <1>1, <1>2, <1>3 DEF Sent
<1> QED
  BY <1>2, <1>6, <1>7, <1>8 DEF Sent

\* One poster moves on.
LEMMA PosterKeepsCarried ==
    ASSUME LifeInv, RaceInv, NEW p \in Carrier,
           ppc' = [ppc EXCEPT ![p] = ppc'[p]], pitem' = [pitem EXCEPT ![p] = pitem'[p]],
           \A q \in Carrier : q # p /\ pitem[q] \in Message =>
               origin'[pitem[q]] = origin[pitem[q]] /\ pitem[q] # pitem'[p],
           Posts(p)' /\ pitem'[p] \in Message => origin'[pitem'[p]] = p,
           ppc'[p] \in {"found", "counted"} => origin'[pitem'[p]] = None
    PROVE  CarriedOnce'
<1>1. \A q \in Carrier : q # p => /\ ppc'[q] = ppc[q] /\ pitem'[q] = pitem[q]
                                  /\ Posts(q)' <=> Posts(q)
  BY DEF RaceInv, PostersTyped, Posts, InBox
<1>2. ASSUME NEW q \in Carrier
      PROVE  /\ Posts(q)' /\ pitem'[q] \in Message => origin'[pitem'[q]] = q
             /\ ppc'[q] \in {"found", "counted"} => origin'[pitem'[q]] = None
  <2>1. CASE q = p
    BY <2>1
  <2>2. CASE q # p
    BY <1>1, <2>2 DEF LifeInv, CarriedOnce, RaceInv, NamedCarry
  <2> QED
    BY <2>1, <2>2
<1>3. ASSUME NEW q \in Carrier, NEW r \in Carrier, r # q, pitem'[r] = pitem'[q],
             pitem'[q] \in Message
      PROVE  FALSE
  <2>1. CASE q # p /\ r # p
    BY <1>1, <1>3, <2>1 DEF LifeInv, CarriedOnce
  <2>2. CASE q = p \/ r = p
    BY <1>1, <1>3, <2>2
  <2> QED
    BY <2>1, <2>2
<1> QED
  BY <1>2, <1>3 DEF CarriedOnce

\* A poster that does not begin to carry a request, and leaves the lists alone.
LEMMA PosterKeepsEntries ==
    ASSUME LifeInv, UNCHANGED <<buffers, fresh, body>>,
           \A q \in Carrier : Carrying(q)' => Carrying(q) /\ pitem'[q] = pitem[q]
    PROVE  EntriesOnce'
<1>1. Waiting(Rq)' = Waiting(Rq) /\ Bodies' = Bodies
  BY DEF Waiting, Bodies
<1> QED
  BY <1>1 DEF LifeInv, EntriesOnce

LEMMA BeginSendKeepsLife ==
    ASSUME LifeInv, RaceInv, NEW p \in Carrier, BeginSend(p) \/ FindName(p)
    PROVE  LifeInv'
<1> USE DEF LifeInv
<1> DEFINE o == IF BeginSend(p) THEN p ELSE None
<1>1. PICK m \in Unsent : /\ pitem' = [pitem EXCEPT ![p] = m]
                          /\ origin' = [origin EXCEPT ![m] = o]
                          /\ meant' = [meant EXCEPT ![m] = body[Dst[m]]]
  <2>1. CASE BeginSend(p)
    BY <2>1 DEF BeginSend
  <2>2. CASE ~ BeginSend(p)
    <3>1. PICK m \in Unsent : /\ pitem' = [pitem EXCEPT ![p] = m]
                              /\ meant' = [meant EXCEPT ![m] = body[Dst[m]]]
      BY <2>2 DEF FindName
    <3>2. origin' = origin /\ origin[m] = None
      BY <2>2 DEF FindName, Unsent
    <3>3. origin' = [origin EXCEPT ![m] = None]
      BY <3>2 DEF Sent
    <3> QED
      BY <2>2, <3>1, <3>3
  <2> QED
    BY <2>1, <2>2
<1>2. /\ ppc[p] = "idle" /\ ppc' = [ppc EXCEPT ![p] = IF BeginSend(p) THEN "busy" ELSE "found"]
      /\ named' = named \/ ByName
      /\ UNCHANGED <<buffers, fresh, lock, decay, ownVars>>
  BY DEF BeginSend, FindName, boxVars
<1> HIDE DEF o
<1>3. /\ m \in Message /\ origin[m] = None /\ m \notin Entry
      /\ Dst[m] \in Coro /\ Dst[m] \in alive /\ Dst[m] \notin Unused
      /\ body[Dst[m]] \in Coro \cup Entry
      /\ \A q \in Carrier : pitem[q] # m
  BY UnsentFacts
<1>4. Placed' /\ Family' /\ Calls' /\ Turns'
  <2>1. decay' \in [Coro -> Int]
    BY <1>2 DEF Placed
  <2> QED
    BY <1>2, <2>1, PostersKeepQueues
<1>5. /\ ppc \in [Carrier -> Stages] /\ pitem \in [Carrier -> Message \cup Entry \cup {None}]
  BY DEF RaceInv, PostersTyped
<1>6. /\ ppc'[p] = (IF BeginSend(p) THEN "busy" ELSE "found") /\ pitem'[p] = m
      /\ \A q \in Carrier : q # p => ppc'[q] = ppc[q] /\ pitem'[q] = pitem[q]
  BY <1>1, <1>2, <1>5
<1>7. UNCHANGED <<body, mailbox, local, alive, pool, heap, dispatched, timeout>>
  BY <1>2 DEF ownVars, coroVars, lifeVars, mailVars, loopVars, roundVars
<1>8. EntriesOnce'
  <2>1. \A q \in Carrier : Carrying(q)' => Carrying(q) /\ pitem'[q] = pitem[q]
    BY <1>3, <1>6 DEF Carrying
  <2> QED
    BY <1>2, <1>7, <2>1, PosterKeepsEntries
<1>9. Sent'
  <2>1. o \in Box \cup {None}
    BY DEF Carrier, Box, o
  <2> QED
    BY <1>1, <1>2, <1>3, <1>7, <2>1, StampKeepsSent
<1>10. CarriedOnce'
  <2>1. origin'[m] = o /\ \A k \in Message : k # m => origin'[k] = origin[k]
    BY <1>1, <1>3 DEF Sent
  <2>2. ppc' = [ppc EXCEPT ![p] = ppc'[p]] /\ pitem' = [pitem EXCEPT ![p] = pitem'[p]]
    BY <1>1, <1>2, <1>6
  <2>3. /\ Posts(p)' /\ pitem'[p] \in Message => origin'[pitem'[p]] = p
        /\ ppc'[p] \in {"found", "counted"} => origin'[pitem'[p]] = None
    BY <1>6, <2>1 DEF Posts, InBox, o
  <2>4. \A q \in Carrier : q # p /\ pitem[q] \in Message =>
            origin'[pitem[q]] = origin[pitem[q]] /\ pitem[q] # pitem'[p]
    BY <1>3, <1>6, <2>1
  <2> QED
    BY <2>2, <2>3, <2>4, PosterKeepsCarried
<1>11. Others'
  BY <1>2, <1>7 DEF Others
<1> QED
  BY <1>4, <1>8, <1>9, <1>10, <1>11

\* The other steps of a sender by name, and the write to the pipe.
LEMMA CountKeepsLife ==
    ASSUME LifeInv, RaceInv, NEW p \in Carrier, CountIn(p) \/ CountOut(p) \/ WritePipe(p)
    PROVE  LifeInv'
<1> USE DEF LifeInv
<1>1. /\ UNCHANGED <<buffers, sentVars, lock, ownVars>> /\ ppc[p] # "idle"
      /\ ppc' = [ppc EXCEPT ![p] = ppc'[p]] /\ pitem' = [pitem EXCEPT ![p] = pitem'[p]]
      /\ ppc'[p] \in {"counted", "uncount", "idle"}
      /\ ppc'[p] = "counted" => ppc[p] = "found"
      /\ pitem'[p] \in {pitem[p], None} /\ (ppc'[p] # "idle" => pitem'[p] = pitem[p])
      /\ named' \subseteq named
  <2>1. /\ ppc \in [Carrier -> Stages] /\ pitem \in [Carrier -> Message \cup Entry \cup {None}]
    BY DEF RaceInv, PostersTyped
  <2>2. CASE CountIn(p)
    BY <2>1, <2>2 DEF CountIn, boxVars
  <2>3. CASE CountOut(p)
    BY <2>1, <2>3 DEF CountOut, boxVars
  <2>4. CASE WritePipe(p)
    BY <2>1, <2>4 DEF WritePipe, boxVars
  <2> QED
    BY <2>2, <2>3, <2>4
<1>2. decay' \in [Coro -> Int] /\ (ByName \/ decay' = decay)
  <2>1. decay \in [Coro -> Int] /\ (~ ByName => named = {})
    BY DEF Placed
  <2>2. CASE CountIn(p) \/ CountOut(p)
    <3>1. p \in named /\ pitem[p] \in Message
      BY <2>2 DEF CountIn, CountOut, RaceInv, NamedCarry
    <3>2. Dst[pitem[p]] \in Coro /\ ByName
      BY <2>1, <3>1, P7Assumption
    <3>3. decay[Dst[pitem[p]]] \in Int
      BY <2>1, <3>2
    <3> QED
      BY <2>1, <2>2, <3>2, <3>3 DEF CountIn, CountOut
  <2>3. CASE WritePipe(p)
    BY <2>1, <2>3 DEF WritePipe
  <2> QED
    BY <2>2, <2>3
<1>3. Placed' /\ Family' /\ Calls' /\ Turns'
  BY <1>1, <1>2, PostersKeepQueues
<1>4. \A q \in Carrier : q # p => ppc'[q] = ppc[q] /\ pitem'[q] = pitem[q]
  BY <1>1 DEF RaceInv, PostersTyped
<1>5. UNCHANGED <<body, mailbox, local, alive, pool, heap, dispatched, timeout, fresh, origin,
                  meant>>
  BY <1>1 DEF ownVars, coroVars, lifeVars, mailVars, loopVars, roundVars, sentVars
<1>6. EntriesOnce'
  <2>1. \A q \in Carrier : Carrying(q)' => Carrying(q) /\ pitem'[q] = pitem[q]
    BY <1>1, <1>4 DEF Carrying
  <2> QED
    BY <1>1, <1>5, <2>1, PosterKeepsEntries
<1>7. Sent'
  BY <1>1, <1>5, Untouched DEF letterVars
<1>8. CarriedOnce'
  <2>1. ~ Posts(p)'
    BY <1>1 DEF Posts, InBox
  <2>2. ppc'[p] \in {"found", "counted"} => origin'[pitem'[p]] = None
    BY <1>1, <1>5 DEF CarriedOnce
  <2>3. \A q \in Carrier : q # p /\ pitem[q] \in Message =>
            origin'[pitem[q]] = origin[pitem[q]] /\ pitem[q] # pitem'[p]
    BY <1>1, <1>5, NoCoro DEF CarriedOnce
  <2> QED
    BY <1>1, <2>1, <2>2, <2>3, PosterKeepsCarried
<1>9. Others'
  BY <1>1, <1>5 DEF Others
<1> QED
  BY <1>3, <1>6, <1>7, <1>8, <1>9

LEMMA TestStatusKeepsLife ==
    ASSUME LifeInv, RaceInv, NEW p \in Carrier, TestStatus(p)
    PROVE  LifeInv'
<1> USE DEF LifeInv
<1> DEFINE m == pitem[p]
           o == IF Dst[m] \in alive THEN p ELSE None
<1>1. /\ ppc[p] = "counted" /\ UNCHANGED <<buffers, meant, fresh, lock, named, decay, ownVars>>
      /\ ppc' = [ppc EXCEPT ![p] = IF Dst[m] \in alive THEN "busy" ELSE "uncount"]
      /\ pitem' = pitem /\ origin' = IF Dst[m] \in alive THEN [origin EXCEPT ![m] = p] ELSE origin
  BY DEF TestStatus, boxVars
<1>2. m \in Message /\ origin[m] = None /\ m \notin Entry
  BY <1>1, P7Assumption DEF RaceInv, NamedCarry, CarriedOnce
<1>3. /\ ppc \in [Carrier -> Stages] /\ pitem \in [Carrier -> Message \cup Entry \cup {None}]
  BY DEF RaceInv, PostersTyped
<1>4. origin' = [origin EXCEPT ![m] = o]
  BY <1>1, <1>2 DEF Sent
<1>5. /\ ppc'[p] = (IF Dst[m] \in alive THEN "busy" ELSE "uncount") /\ pitem'[p] = m
      /\ \A q \in Carrier : q # p => ppc'[q] = ppc[q]
  BY <1>1, <1>3
<1> HIDE DEF o
<1>6. Placed' /\ Family' /\ Calls' /\ Turns'
  <2>1. decay' \in [Coro -> Int]
    BY <1>1 DEF Placed
  <2> QED
    BY <1>1, <2>1, PostersKeepQueues
<1>7. UNCHANGED <<body, mailbox, local, alive, pool, heap, dispatched, timeout>>
  BY <1>1 DEF ownVars, coroVars, lifeVars, mailVars, loopVars, roundVars
<1>8. EntriesOnce'
  <2>1. \A q \in Carrier : Carrying(q)' => Carrying(q) /\ pitem'[q] = pitem[q]
    BY <1>1, <1>2, <1>5 DEF Carrying
  <2> QED
    BY <1>1, <1>7, <2>1, PosterKeepsEntries
<1>9. Sent'
  <2>1. o \in Box \cup {None}
    BY DEF Carrier, Box, o
  <2>2. meant[m] \in Coro \cup Entry \cup {None} /\ meant' = [meant EXCEPT ![m] = meant[m]]
    BY <1>1, <1>2 DEF Sent
  <2> QED
    BY <1>1, <1>2, <1>4, <1>7, <2>1, <2>2, StampKeepsSent
<1>10. CarriedOnce'
  <2>1. origin'[m] = o /\ \A k \in Message : k # m => origin'[k] = origin[k]
    BY <1>2, <1>4 DEF Sent
  <2>2. ppc' = [ppc EXCEPT ![p] = ppc'[p]] /\ pitem' = [pitem EXCEPT ![p] = pitem'[p]]
    BY <1>1, <1>3, <1>5
  <2>3. /\ Posts(p)' => origin'[pitem'[p]] = p
        /\ ppc'[p] \notin {"found", "counted"}
    BY <1>5, <2>1 DEF Posts, InBox, o
  <2>4. \A q \in Carrier : q # p => pitem[q] # m
    BY <1>2 DEF CarriedOnce
  <2>5. \A q \in Carrier : q # p /\ pitem[q] \in Message =>
            origin'[pitem[q]] = origin[pitem[q]] /\ pitem[q] # pitem'[p]
    BY <1>5, <2>1, <2>4
  <2> QED
    BY <2>2, <2>3, <2>5, PosterKeepsCarried
<1>11. Others'
  BY <1>1, <1>7 DEF Others
<1> QED
  BY <1>6, <1>8, <1>9, <1>10, <1>11

LEMMA BeginRequestKeepsLife ==
    ASSUME LifeInv, RaceInv, NEW p \in Carrier, BeginRequest(p)
    PROVE  LifeInv'
<1> USE DEF LifeInv
<1>1. PICK e \in fresh : pitem' = [pitem EXCEPT ![p] = e] /\ fresh' = fresh \ {e}
  BY DEF BeginRequest
<1>2. /\ ppc[p] = "idle" /\ ppc' = [ppc EXCEPT ![p] = "busy"] /\ lock = None /\ lock' = p
      /\ UNCHANGED <<buffers, origin, meant, named, decay, ownVars>>
  BY DEF BeginRequest, boxVars
<1>3. e \in Entry /\ e \notin Message
  BY P7Assumption DEF RaceInv, PostersTyped
<1>4. Placed' /\ Family' /\ Calls' /\ Turns'
  <2>1. decay' \in [Coro -> Int]
    BY <1>2 DEF Placed
  <2> QED
    BY <1>2, <2>1, PostersKeepQueues
<1>5. /\ ppc \in [Carrier -> Stages] /\ pitem \in [Carrier -> Message \cup Entry \cup {None}]
  BY DEF RaceInv, PostersTyped
<1>6. /\ ppc'[p] = "busy" /\ pitem'[p] = e
      /\ \A q \in Carrier : q # p => ppc'[q] = ppc[q] /\ pitem'[q] = pitem[q]
  BY <1>1, <1>2, <1>5
<1>7. UNCHANGED <<body, mailbox, local, alive, pool, heap, dispatched, timeout>>
      /\ Waiting(Rq)' = Waiting(Rq) /\ Bodies' = Bodies
  BY <1>2 DEF ownVars, coroVars, lifeVars, mailVars, loopVars, roundVars, Waiting, Bodies
<1>8. EntriesOnce'
  <2>1. \A q \in Carrier : Carrying(q)' => q = p
    <3> SUFFICES ASSUME NEW q \in Carrier, Carrying(q)', q # p PROVE FALSE
      OBVIOUS
    <3>1. lock = q
      BY <1>6 DEF Carrying, RaceInv, RequesterHasLock
    <3> QED
      BY <1>2, <3>1, P7Assumption DEF Carrier, Box
  <2> QED
    BY <1>1, <1>2, <1>6, <1>7, <2>1 DEF EntriesOnce
<1>9. Sent'
  BY <1>2, <1>7, Untouched DEF letterVars
<1>10. CarriedOnce'
  <2>1. ppc' = [ppc EXCEPT ![p] = ppc'[p]] /\ pitem' = [pitem EXCEPT ![p] = pitem'[p]]
    BY <1>1, <1>2, <1>6
  <2> QED
    BY <1>2, <1>3, <1>6, <2>1, PosterKeepsCarried
<1>11. Others'
  BY <1>2, <1>7 DEF Others
<1> QED
  BY <1>4, <1>8, <1>9, <1>10, <1>11

LEMMA SetAndClearBusyKeepLife ==
    ASSUME LifeInv, RaceInv, NEW p \in Carrier, SetBusy(p) \/ ClearBusy(p)
    PROVE  LifeInv'
<1> USE DEF LifeInv
<1>1. /\ UNCHANGED <<buffers, sentVars, pitem, named, decay, ownVars>>
      /\ lock' \in {lock, None} /\ Posts(p) /\ ppc' = [ppc EXCEPT ![p] = ppc'[p]]
      /\ ppc'[p] \in {"add0", "add1", "write"} /\ (ppc'[p] # "write" => ppc[p] = "busy")
  <2>1. ppc \in [Carrier -> Stages]
    BY DEF RaceInv, PostersTyped
  <2>2. CASE SetBusy(p)
    BY <2>1, <2>2 DEF SetBusy, Posts
  <2>3. CASE ClearBusy(p)
    BY <2>1, <2>3 DEF ClearBusy, Posts, InBox
  <2> QED
    BY <2>2, <2>3
<1>2. Placed' /\ Family' /\ Calls' /\ Turns'
  <2>1. decay' \in [Coro -> Int]
    BY <1>1 DEF Placed
  <2> QED
    BY <1>1, <2>1, PostersKeepQueues
<1>3. \A q \in Carrier : q # p => ppc'[q] = ppc[q]
  BY <1>1 DEF RaceInv, PostersTyped
<1>4. UNCHANGED <<body, mailbox, local, alive, pool, heap, dispatched, timeout, fresh, origin,
                  meant>>
  BY <1>1 DEF ownVars, coroVars, lifeVars, mailVars, loopVars, roundVars, sentVars
<1>5. EntriesOnce'
  <2>1. \A q \in Carrier : Carrying(q)' => Carrying(q) /\ pitem'[q] = pitem[q]
    BY <1>1, <1>3 DEF Carrying
  <2> QED
    BY <1>1, <1>4, <2>1, PosterKeepsEntries
<1>6. Sent'
  BY <1>1, <1>4, Untouched DEF letterVars
<1>7. CarriedOnce'
  <2>1. pitem' = [pitem EXCEPT ![p] = pitem'[p]]
    BY <1>1 DEF RaceInv, PostersTyped
  <2>2. \A q \in Carrier : q # p /\ pitem[q] \in Message =>
            origin'[pitem[q]] = origin[pitem[q]] /\ pitem[q] # pitem'[p]
    BY <1>1, <1>4 DEF CarriedOnce
  <2>3. /\ pitem'[p] \in Message => origin'[pitem'[p]] = p
        /\ ppc'[p] \notin {"found", "counted"}
    BY <1>1, <1>4 DEF CarriedOnce
  <2> QED
    BY <1>1, <2>1, <2>2, <2>3, PosterKeepsCarried
<1>8. Others'
  BY <1>1, <1>4 DEF Others
<1> QED
  BY <1>2, <1>5, <1>6, <1>7, <1>8

LEMMA AddTailKeepsLife ==
    ASSUME LifeInv, RaceInv, WakeInv, NEW p \in Carrier, AddTail(p)
    PROVE  LifeInv'
<1> USE DEF LifeInv
<1> DEFINE box  == BoxOf(p)
           side == IF ppc[p] = "add0" THEN 0 ELSE 1
           list == buffers[box][side]
           item == pitem[p]
<1>1. /\ ppc[p] \in {"add0", "add1"} /\ ppc' = [ppc EXCEPT ![p] = "clear"]
      /\ buffers' = [buffers EXCEPT ![box][side] = Append(@, item)]
      /\ UNCHANGED <<sentVars, lock, pitem, named, decay, ownVars>>
  BY DEF AddTail
<1>2. Placed' /\ Family' /\ Calls' /\ Turns'
  <2>1. decay' \in [Coro -> Int]
    BY <1>1 DEF Placed
  <2> QED
    BY <1>1, <2>1, PostersKeepQueues
<1>3. ppc'[p] = "clear" /\ \A q \in Carrier : q # p => ppc'[q] = ppc[q]
  BY <1>1 DEF RaceInv, PostersTyped
<1>4. UNCHANGED <<body, mailbox, local, alive, pool, heap, dispatched, timeout, fresh, origin,
                  meant>>
      /\ Bodies' = Bodies /\ Unused' = Unused
  BY <1>1 DEF ownVars, coroVars, lifeVars, mailVars, loopVars, roundVars, Bodies, Unused,
              sentVars
<1>5. /\ buffers \in [Box -> [0..1 -> Seq(Message \cup Entry)]]
      /\ box \in Box /\ side \in 0..1 /\ list \in Seq(Message \cup Entry)
      /\ item \in Message \cup Entry
      /\ Rq \in Box /\ Carrier \subseteq Box /\ p # Rq
  <2>1. buffers \in [Box -> [0..1 -> Seq(Message \cup Entry)]] /\ item \in Message \cup Entry
    BY <1>1 DEF WakeInv, WakeTyped, HasItem
  <2>2. box \in Box /\ side \in 0..1
    BY BoxOfIsBox
  <2>3. Rq \in Box /\ Carrier \subseteq Box /\ p # Rq
    BY P7Assumption DEF Rq, Carrier, Box
  <2> HIDE DEF box, side
  <2> QED
    BY <2>1, <2>2, <2>3
<1> HIDE DEF box, side, item
<1>6. /\ buffers'[box][side] = Append(list, item)
      /\ \A b \in Box, s \in 0..1 : b # box \/ s # side => buffers'[b][s] = buffers[b][s]
  BY <1>1, <1>5
<1> HIDE DEF list
<1>7. Range(Append(list, item)) = Range(list) \cup {item}
  <2> DEFINE T == Message \cup Entry
  <2>1. list \in Seq(T) /\ item \in T
    BY <1>5
  <2> HIDE DEF T
  <2> QED
    BY <2>1, AppendFacts
<1>8. \A b \in Box : /\ b = box => Waiting(b)' = Waiting(b) \cup {item}
                     /\ b # box => Waiting(b)' = Waiting(b)
  <2>1. \A b \in Box : b # box => Waiting(b)' = Waiting(b)
    BY <1>6 DEF Waiting
  <2>2. CASE side = 0
    <3>1. buffers'[box][0] = Append(list, item) /\ buffers'[box][1] = buffers[box][1]
      BY <1>5, <1>6, <2>2
    <3> QED
      BY <1>7, <2>1, <2>2, <3>1 DEF Waiting, list
  <2>3. CASE side = 1
    <3>1. buffers'[box][1] = Append(list, item) /\ buffers'[box][0] = buffers[box][0]
      BY <1>5, <1>6, <2>3
    <3> QED
      BY <1>7, <2>1, <2>3, <3>1 DEF Waiting, list
  <2> QED
    BY <1>5, <2>2, <2>3
<1>9. \A q \in Carrier : Carrying(q)' => Carrying(q) /\ q # p
  BY <1>1, <1>3 DEF Carrying
<1>10. ASSUME item \in Entry PROVE EntriesOnce' /\ Sent'
  <2>1. box = Rq
    BY <1>10 DEF BoxOf, box, item
  <2>2. item \notin fresh \cup Waiting(Rq) \cup Bodies
    BY <1>1, <1>10 DEF EntriesOnce, Carrying, item
  <2>3. \A q \in Carrier : ~ Carrying(q)'
    <3>1. lock = p
      BY <1>1, <1>10 DEF RaceInv, RequesterHasLock, item
    <3> QED
      BY <1>9, <3>1 DEF Carrying, RaceInv, RequesterHasLock
  <2>4. list \in Seq(Entry) /\ Once(list) /\ item \notin Range(list)
        /\ \A s \in 0..1 : s # side => item \notin Range(buffers[Rq][s])
    BY <1>5, <2>1, <2>2 DEF EntriesOnce, Waiting, list
  <2>5. Append(list, item) \in Seq(Entry) /\ Once(Append(list, item))
    BY <1>10, <2>4, AppendFacts
  <2>6. \A s \in 0..1 : buffers'[Rq][s] \in Seq(Entry) /\ Once(buffers'[Rq][s])
    BY <1>5, <1>6, <2>1, <2>5 DEF EntriesOnce
  <2>7. Range(buffers'[Rq][0]) \cap Range(buffers'[Rq][1]) = {}
    <3>1. CASE side = 0
      <4>1. buffers'[Rq][0] = Append(list, item) /\ buffers'[Rq][1] = buffers[Rq][1]
            /\ item \notin Range(buffers[Rq][1]) /\ list = buffers[Rq][0]
        BY <1>5, <1>6, <2>1, <2>4, <3>1 DEF list
      <4> QED
        BY <1>7, <4>1 DEF EntriesOnce
    <3>2. CASE side = 1
      <4>1. buffers'[Rq][1] = Append(list, item) /\ buffers'[Rq][0] = buffers[Rq][0]
            /\ item \notin Range(buffers[Rq][0]) /\ list = buffers[Rq][1]
        BY <1>5, <1>6, <2>1, <2>4, <3>2 DEF list
      <4> QED
        BY <1>7, <4>1 DEF EntriesOnce
    <3> QED
      BY <1>5, <3>1, <3>2
  <2>8. EntriesOnce'
    <3>1. Waiting(Rq)' = Waiting(Rq) \cup {item}
      BY <1>5, <1>8, <2>1
    <3> QED
      BY <1>4, <2>2, <2>3, <2>6, <2>7, <3>1 DEF EntriesOnce
  <2>9. \A q \in Carrier : q \in Box /\ q # box
    BY <1>5, <2>1 DEF Carrier, Rq, Box
  <2>10. \A q \in Carrier : Waiting(q)' = Waiting(q)
    BY <1>8, <2>9
  <2>11. \A q \in Carrier, s \in 0..1 : buffers'[q][s] = buffers[q][s]
    BY <1>6, <2>9
  <2>12. \A m \in Message : Kept(m) => Kept(m)'
    BY <1>4 DEF Kept
  <2>13. \A c \in Coro : \A m \in Range(mailbox[c]) : m \in Message
    BY DEF Sent, Range
  <2>14. \A c \in Coro : \A m \in Range(mailbox'[c]) :
           Dst[m] = c /\ origin'[m] # None /\ Kept(m)'
    BY <1>4, <2>12, <2>13 DEF Sent
  <2>15. Sent'
    BY <1>4, <2>10, <2>11, <2>14 DEF Sent
  <2> QED
    BY <2>8, <2>15
<1>11. ASSUME item \notin Entry PROVE EntriesOnce' /\ Sent'
  <2>1. box = p /\ item \in Message /\ box # Rq
    BY <1>5, <1>11 DEF BoxOf, box, item
  <2>2. EntriesOnce'
    BY <1>1, <1>4, <1>5, <1>6, <1>8, <1>9, <2>1 DEF EntriesOnce
  <2>3. list \in Seq(Message)
    BY <1>5, <2>1 DEF Sent, list
  <2>4. Append(list, item) \in Seq(Message)
    BY <2>1, <2>3, AppendFacts
  <2>5. \A q \in Carrier, s \in 0..1 : buffers'[q][s] \in Seq(Message)
    <3> SUFFICES ASSUME NEW q \in Carrier, NEW s \in 0..1 PROVE buffers'[q][s] \in Seq(Message)
      OBVIOUS
    <3>1. CASE q = box /\ s = side
      BY <1>6, <2>4, <3>1
    <3>2. CASE ~ (q = box /\ s = side)
      <4>1. buffers'[q][s] = buffers[q][s]
        BY <1>5, <1>6, <3>2
      <4> QED
        BY <4>1 DEF Sent
    <3> QED
      BY <3>1, <3>2
  <2>6. origin[item] = p
    BY <1>1, <2>1 DEF CarriedOnce, Posts, InBox, item
  <2>7. \A q \in Carrier, m \in Message : m \in Waiting(q)' => origin[m] = q
    <3>1. \A q \in Carrier : q = box => Waiting(q)' = Waiting(q) \cup {item}
      BY <1>5, <1>8
    <3>2. \A q \in Carrier : q # box => Waiting(q)' = Waiting(q)
      BY <1>5, <1>8
    <3> QED
      BY <2>1, <2>6, <3>1, <3>2 DEF Sent
  <2>8. Sent'
    BY <1>4, <2>5, <2>7 DEF Sent, Kept
  <2> QED
    BY <2>2, <2>8
<1>12. Others'
  BY <1>1, <1>4 DEF Others
<1>13. CarriedOnce'
  <2>1. \A q \in Carrier : Posts(q)' => Posts(q)
    BY <1>1, <1>3 DEF Posts, InBox
  <2>2. \A q \in Carrier : ppc'[q] \in {"found", "counted"} => ppc'[q] = ppc[q]
    BY <1>3
  <2> QED
    BY <1>1, <1>4, <2>1, <2>2 DEF CarriedOnce
<1> QED
  BY <1>2, <1>10, <1>11, <1>12, <1>13

-----------------------------------------------------------------------------
\* The mail.
LEMMA SendLocalKeepsLife ==
    ASSUME LifeInv, RaceInv, SendLocal
    PROVE  LifeInv'
<1> USE DEF LifeInv
<1>1. PICK m \in Unsent : /\ origin' = [origin EXCEPT ![m] = 0]
                          /\ meant' = [meant EXCEPT ![m] = body[Dst[m]]]
                          /\ local' = Append(local, m)
  BY DEF SendLocal
<1>2. /\ UNCHANGED <<boxVars, fresh, postVars, decay, queueVars, lifeVars, fd, timer, mailbox,
                     dispatched, roundVars>>
      /\ cpc = "run" /\ cpc' \in {"run", "stuck"}
  BY DEF SendLocal
<1>3. /\ m \in Message /\ origin[m] = None
      /\ Dst[m] \in Coro /\ Dst[m] \in alive /\ Dst[m] \notin Unused
      /\ body[Dst[m]] \in Coro \cup Entry
      /\ \A q \in Carrier : pitem[q] # m
  BY UnsentFacts
<1>4. Placed' /\ EntriesOnce' /\ Family' /\ Others'
  BY <1>2, Untouched
     DEF boxVars, postVars, queueVars, lifeVars, roundVars, placeVars, entryVars, familyVars,
         otherVars
<1>5. UNCHANGED <<buffers, ppc, pitem, mailbox, body, alive>> /\ Unused' = Unused
  BY <1>2 DEF boxVars, postVars, lifeVars, Unused
<1>6. /\ origin'[m] = 0 /\ meant'[m] = body[Dst[m]]
      /\ \A k \in Message : k # m => origin'[k] = origin[k] /\ meant'[k] = meant[k]
      /\ origin' \in [Message -> Box \cup {None}]
      /\ meant' \in [Message -> Coro \cup Entry \cup {None}]
  <2>1. 0 \in Box
    BY P7Assumption DEF Box
  <2> QED
    BY <1>1, <1>3, <2>1 DEF Sent
<1>7. local' \in Seq(Message) /\ Range(local') = Range(local) \cup {m}
  <2>1. local \in Seq(Message)
    BY DEF Sent
  <2> QED
    BY <1>1, <1>3, <2>1, AppendFacts
<1>8. /\ \A c \in Coro : m \notin Range(mailbox[c])
      /\ m \notin Range(local) /\ \A p \in Carrier : m \notin Waiting(p)
  BY <1>3, NowhereYet
<1>9. \A c \in Coro : \A k \in Range(mailbox[c]) : k # m /\ k \in Message
  BY <1>8 DEF Sent, Range
<1>10. \A k \in Range(local) : k # m /\ k \in Message
  BY <1>8 DEF Sent, Range
<1>11. \A q \in Carrier : Waiting(q)' = Waiting(q)
  BY <1>5 DEF Waiting
<1>12. \A q \in Carrier, k \in Message : k \in Waiting(q)' => origin'[k] = q
  BY <1>6, <1>8, <1>11 DEF Sent
<1>13. \A c \in Coro : \A k \in Range(mailbox'[c]) : Dst[k] = c /\ origin'[k] # None /\ Kept(k)'
  BY <1>5, <1>6, <1>9 DEF Sent, Kept
<1>14. \A k \in Range(local') : /\ origin'[k] = 0 /\ body'[Dst[k]] = meant'[k]
                                /\ Dst[k] \notin Unused'
  BY <1>3, <1>5, <1>6, <1>7, <1>10 DEF Sent
<1>15. Sent'
  BY <1>5, <1>6, <1>7, <1>12, <1>13, <1>14 DEF Sent
<1>16. CarriedOnce'
  BY <1>3, <1>5, <1>6 DEF CarriedOnce, Posts, InBox, RaceInv, NamedCarry
<1>17. Calls'
  BY <1>2 DEF Calls, queueVars, lifeVars, roundVars
<1>18. Turns'
  BY <1>2 DEF Turns, Runnable, queueVars
<1> QED
  BY <1>4, <1>15, <1>16, <1>17, <1>18

\* A message that reaches a mailbox was sent, and, if a coroutine of the carrier
\* sent it, to what the struct runs.
LEMMA DispatchedFacts ==
    ASSUME LifeInv, NEW m \in Message, Dispatched(m), UNCHANGED <<body, alive, origin, meant>>,
           origin[m] # None, origin[m] = 0 => body[Dst[m]] = meant[m]
    PROVE  /\ mailbox' \in [Coro -> Seq(Message)] /\ dispatched' \in Seq(Message)
           /\ \A c \in Coro : \A k \in Range(mailbox'[c]) :
                 Dst[k] = c /\ origin'[k] # None /\ Kept(k)'
<1> USE DEF LifeInv
<1>1. mailbox \in [Coro -> Seq(Message)] /\ Dst[m] \in Coro
  BY P7Assumption DEF Sent
<1>2. dispatched' \in Seq(Message)
  BY DEF Dispatched, Others
<1>3. \A k : Kept(k)' <=> Kept(k)
  BY DEF Kept
<1>4. CASE Dst[m] \notin alive
  <2>1. mailbox' = mailbox
    BY <1>4 DEF Dispatched
  <2> QED
    BY <1>1, <1>2, <1>3, <2>1 DEF Sent
<1>5. CASE Dst[m] \in alive
  <2> DEFINE c == Dst[m]
             box == mailbox[c]
  <2>1. mailbox' = [mailbox EXCEPT ![c] = Append(box, m)]
    BY <1>5 DEF Dispatched
  <2>2. box \in Seq(Message) /\ c \in Coro /\ c \in alive
    BY <1>1, <1>5
  <2>3. Kept(m)
    BY <1>5 DEF Kept
  <2> HIDE DEF c, box
  <2>4. Append(box, m) \in Seq(Message) /\ Range(Append(box, m)) = Range(box) \cup {m}
    BY <2>2, AppendFacts
  <2>5. mailbox'[c] = Append(box, m) /\ \A d \in Coro : d # c => mailbox'[d] = mailbox[d]
    BY <1>1, <2>1, <2>2
  <2>6. mailbox' \in [Coro -> Seq(Message)]
    BY <1>1, <2>1, <2>4
  <2>7. \A d \in Coro : \A k \in Range(mailbox'[d]) :
           Dst[k] = d /\ origin'[k] # None /\ Kept(k)'
    <3> SUFFICES ASSUME NEW d \in Coro, NEW k \in Range(mailbox'[d])
                 PROVE  Dst[k] = d /\ origin[k] # None /\ Kept(k)
      BY <1>3
    <3>1. CASE k \in Range(mailbox[d])
      BY <3>1 DEF Sent
    <3>2. CASE k \notin Range(mailbox[d])
      <4>1. d = c
        BY <2>5, <3>2
      <4>2. k = m
        BY <2>4, <2>5, <3>2, <4>1 DEF box
      <4> QED
        BY <2>3, <4>1, <4>2 DEF c
    <3> QED
      BY <3>1, <3>2
  <2> QED
    BY <1>2, <2>6, <2>7
<1> QED
  BY <1>4, <1>5

LEMMA DispatchLocalKeepsLife ==
    ASSUME LifeInv, DispatchLocal
    PROVE  LifeInv'
<1> USE DEF LifeInv
<1> DEFINE m == Head(local)
<1>1. /\ local # <<>> /\ local' = Tail(local) /\ Dispatched(m)
      /\ UNCHANGED <<sharedVars, queueVars, lifeVars, fd, timer, loopVars>>
  BY DEF DispatchLocal
<1>2. local \in Seq(Message) /\ Tail(local) \in Seq(Message) /\ m \in Message
      /\ m \in Range(local) /\ Range(local) = Range(Tail(local)) \cup {m}
  <2>1. local \in Seq(Message)
    BY DEF Sent
  <2> QED
    BY <1>1, <2>1, TailFacts
<1> HIDE DEF m
<1>3. Placed' /\ EntriesOnce' /\ Family' /\ Calls' /\ CarriedOnce'
  BY <1>1, Untouched
     DEF sharedVars, boxVars, sentVars, postVars, queueVars, lifeVars, loopVars, roundVars,
         placeVars, entryVars, familyVars, callVars, carryVars
<1>4. UNCHANGED <<buffers, origin, meant, body, alive, lock, timeout>> /\ Unused' = Unused
  BY <1>1 DEF sharedVars, boxVars, sentVars, postVars, lifeVars, loopVars, roundVars, Unused
<1>5. origin[m] = 0 /\ body[Dst[m]] = meant[m] /\ None # 0
  BY <1>2, P7Assumption DEF Sent, Box
<1>6. /\ mailbox' \in [Coro -> Seq(Message)] /\ dispatched' \in Seq(Message)
      /\ \A c \in Coro : \A k \in Range(mailbox'[c]) :
            Dst[k] = c /\ origin'[k] # None /\ Kept(k)'
  BY <1>1, <1>2, <1>4, <1>5, DispatchedFacts
<1>7. \A p \in Carrier : Waiting(p)' = Waiting(p)
  BY <1>4 DEF Waiting
<1>8. Sent'
  BY <1>1, <1>2, <1>4, <1>6, <1>7 DEF Sent
<1>9. Others'
  BY <1>4, <1>6 DEF Others
<1>10. Turns'
  <2>1. cpc = "swap"
    BY DEF DispatchLocal
  <2> QED
    BY <1>1, <2>1 DEF Turns, Runnable, queueVars, loopVars
<1> QED
  BY <1>3, <1>8, <1>9, <1>10

LEMMA DispatchOneKeepsLife ==
    ASSUME LifeInv, RaceInv, WakeInv, DispatchOne
    PROVE  LifeInv'
<1> USE DEF LifeInv
<1> DEFINE mine == OtherSide(index[cursor])
           list == buffers[cursor][mine]
           m == Head(list)
<1>1. /\ cpc = "drain" /\ cursor # Rq /\ list # <<>>
      /\ buffers' = [buffers EXCEPT ![cursor][mine] = Tail(list)]
      /\ Dispatched(m)
      /\ UNCHANGED <<sentVars, postVars, decay, queueVars, lifeVars, fd, timer, local, loopVars>>
  BY DEF DispatchOne
<1>2. /\ cursor \in Box /\ cursor \in Carrier /\ Rq \in Box /\ mine \in 0..1
      /\ \A p \in Carrier : p \in Box
      /\ buffers \in [Box -> [0..1 -> Seq(Message \cup Entry)]]
  <2>1. cursor \in Box
    BY <1>1 DEF WakeInv, TakenToTheEnd
  <2>2. mine \in 0..1
    BY <2>1, IndexFacts DEF RaceInv, PostersTyped
  <2> QED
    BY <1>1, <2>1, <2>2, P7Assumption, SMTT(30) DEF Box, Carrier, Rq, WakeInv, WakeTyped
<1>3. /\ list \in Seq(Message) /\ m \in Message /\ m \in Range(list)
      /\ Tail(list) \in Seq(Message) /\ Range(list) = Range(Tail(list)) \cup {m}
  <2>1. list \in Seq(Message)
    BY <1>2 DEF Sent
  <2> HIDE DEF list
  <2> QED
    BY <1>1, <2>1, TailFacts
<1>4. /\ buffers'[cursor][mine] = Tail(list)
      /\ \A b \in Box, s \in 0..1 : b # cursor \/ s # mine => buffers'[b][s] = buffers[b][s]
  BY <1>1, <1>2
<1>5. m \in Waiting(cursor) /\ \A b \in Box : Waiting(b)' \subseteq Waiting(b)
  <2>1. \A s \in 0..1 : s = 0 \/ s = 1
    OBVIOUS
  <2>2. \A b \in Box, s \in 0..1 : Range(buffers'[b][s]) \subseteq Range(buffers[b][s])
    BY <1>3, <1>4
  <2>3. m \in Range(buffers[cursor][0]) \/ m \in Range(buffers[cursor][1])
    BY <1>2, <1>3, <2>1
  <2>4. \A b \in Box : /\ Range(buffers'[b][0]) \subseteq Range(buffers[b][0])
                       /\ Range(buffers'[b][1]) \subseteq Range(buffers[b][1])
    BY <2>2
  <2> HIDE DEF m
  <2> QED
    BY <2>3, <2>4 DEF Waiting
<1>6. \A p \in Carrier, s \in 0..1 : buffers'[p][s] \in Seq(Message)
  <2> SUFFICES ASSUME NEW p \in Carrier, NEW s \in 0..1 PROVE buffers'[p][s] \in Seq(Message)
    OBVIOUS
  <2>1. CASE p = cursor /\ s = mine
    BY <1>3, <1>4, <2>1
  <2>2. CASE ~ (p = cursor /\ s = mine)
    <3>1. buffers'[p][s] = buffers[p][s]
      BY <1>2, <1>4, <2>2
    <3> QED
      BY <3>1 DEF Sent
  <2> QED
    BY <2>1, <2>2
<1>7. UNCHANGED <<origin, meant, fresh, ppc, pitem, named, body, alive, lock, timeout, local>>
      /\ Unused' = Unused
  BY <1>1 DEF sentVars, postVars, lifeVars, loopVars, roundVars, Unused
<1>8. buffers'[Rq] = buffers[Rq]
  BY <1>1, <1>2
<1> HIDE DEF m, list, mine
<1>9. Placed' /\ Family' /\ Calls' /\ Turns' /\ CarriedOnce'
  BY <1>1, Untouched
     DEF sentVars, postVars, queueVars, lifeVars, loopVars, roundVars, placeVars, familyVars,
         callVars, turnVars, carryVars
<1>10. EntriesOnce'
  BY <1>7, <1>8 DEF EntriesOnce, Waiting, Bodies, Carrying
<1>11. origin[m] = cursor /\ origin[m] # None /\ origin[m] # 0
  BY <1>1, <1>2, <1>3, <1>5, P7Assumption DEF Sent, Rq
<1>12. /\ mailbox' \in [Coro -> Seq(Message)] /\ dispatched' \in Seq(Message)
       /\ \A c \in Coro : \A k \in Range(mailbox'[c]) :
             Dst[k] = c /\ origin'[k] # None /\ Kept(k)'
  BY <1>1, <1>3, <1>7, <1>11, DispatchedFacts
<1>13. Sent'
  BY <1>2, <1>5, <1>6, <1>7, <1>12 DEF Sent
<1>14. Others'
  BY <1>7, <1>12 DEF Others
<1> QED
  BY <1>9, <1>10, <1>13, <1>14

\* p7_recv takes the first message.
LEMMA TakenFacts ==
    ASSUME LifeInv, NEW c \in Coro, mailbox[c] # <<>>,
           mailbox' = [mailbox EXCEPT ![c] = Tail(@)],
           UNCHANGED <<buffers, origin, meant, body, alive, local, pool, heap>>
    PROVE  Sent'
<1> USE DEF LifeInv
<1> DEFINE box == mailbox[c]
<1>1. box \in Seq(Message) /\ box # <<>> /\ mailbox \in [Coro -> Seq(Message)]
  BY DEF Sent
<1>2. /\ mailbox' = [mailbox EXCEPT ![c] = Tail(box)]
      /\ mailbox'[c] = Tail(box) /\ \A d \in Coro : d # c => mailbox'[d] = mailbox[d]
  BY <1>1
<1> HIDE DEF box
<1>4. Tail(box) \in Seq(Message) /\ Range(Tail(box)) \subseteq Range(box)
  BY <1>1, TailFacts
<1>5. mailbox' \in [Coro -> Seq(Message)]
  BY <1>1, <1>2, <1>4
<1>6. \A d \in Coro : Range(mailbox'[d]) \subseteq Range(mailbox[d])
  BY <1>2, <1>4 DEF box
<1>7. \A p \in Carrier : Waiting(p)' = Waiting(p)
  BY DEF Waiting
<1>8. Unused' = Unused
  BY DEF Unused
<1> QED
  BY <1>5, <1>6, <1>7, <1>8 DEF Sent, Kept

\* Whose turn it is when a coroutine runs.
LEMMA RunningFacts ==
    ASSUME LifeInv, cpc \in {"resume", "run"}
    PROVE  /\ running \in Coro /\ running \in Runnable /\ running \in alive
           /\ running \notin blocked /\ running \notin Dying /\ running \notin Unused
           /\ running \notin resched /\ body[running] # None
           /\ coroQueue # <<>> /\ running = Head(coroQueue) /\ batch = {}
           /\ cpc = "run" => mode[running] = "run" /\ fd[running] = "none"
                             /\ timer[running] = "none"
<1> USE DEF LifeInv
<1>1. running \in Coro /\ running \in Runnable /\ running \notin resched
      /\ running = Head(coroQueue)
  BY DEF Turns
<1>2. coroQueue # <<>>
  BY <1>1, EmptyFacts DEF Runnable
<1>3. running \in alive /\ running \notin blocked /\ running \notin Dying /\ running \notin Unused
      /\ body[running] # None
  BY <1>1 DEF Placed
<1>4. batch = {}
  BY DEF Calls
<1>5. cpc = "run" => mode[running] = "run" /\ fd[running] = "none" /\ timer[running] = "none"
  BY <1>1 DEF Turns, Calls
<1> QED
  BY <1>1, <1>2, <1>3, <1>4, <1>5

LEMMA TakeMessageKeepsLife ==
    ASSUME LifeInv, TakeMessage
    PROVE  LifeInv'
<1> USE DEF LifeInv
<1>1. /\ cpc = "run" /\ mailbox[running] # <<>>
      /\ mailbox' = [mailbox EXCEPT ![running] = Tail(@)]
      /\ UNCHANGED <<sharedVars, queueVars, lifeVars, fd, timer, local, dispatched, loopVars>>
  BY DEF TakeMessage
<1>2. running \in Coro
  BY <1>1, RunningFacts
<1>3. Placed' /\ EntriesOnce' /\ Family' /\ Calls' /\ Turns' /\ CarriedOnce' /\ Others'
  BY <1>1, Untouched
     DEF sharedVars, boxVars, sentVars, postVars, queueVars, lifeVars, loopVars, roundVars,
         placeVars, entryVars, familyVars, callVars, turnVars, carryVars, otherVars
<1>4. Sent'
  BY <1>1, <1>2, TakenFacts DEF sharedVars, boxVars, sentVars, postVars, lifeVars
<1> QED
  BY <1>3, <1>4

-----------------------------------------------------------------------------
\* The choice of the next coroutine.
LEMMA PickKeepsLife ==
    ASSUME LifeInv, Pick
    PROVE  LifeInv'
<1> USE DEF LifeInv
<1>1. /\ cpc = "swap"
      /\ UNCHANGED <<sharedVars, blocked, dying, recv, mode, refused, lifeVars, fd, timer,
                     mailVars, timeout, batch>>
  BY DEF Pick, roundVars
<1>2. EntriesOnce' /\ Family' /\ Sent' /\ CarriedOnce' /\ Others'
  BY <1>1, Untouched
     DEF sharedVars, boxVars, sentVars, postVars, lifeVars, mailVars, entryVars, familyVars,
         letterVars, carryVars, otherVars
<1>3. batch = {} /\ UNCHANGED <<alive, pool, heap, body, named, decay>>
  BY <1>1 DEF Calls, lifeVars, sharedVars, postVars
<1>4. Calls'
  BY <1>1, <1>3 DEF Calls
<1>5. CASE coroQueue = <<>>
  <2>1. cpc' = "timeout" /\ UNCHANGED <<coroQueue, running, resched>>
    BY <1>5 DEF Pick
  <2>2. Placed'
    BY <1>1, <1>3, <2>1, Untouched DEF placeVars
  <2>3. Turns'
    BY <1>1, <2>1 DEF Turns, Runnable
  <2> QED
    BY <1>2, <1>4, <2>2, <2>3
<1>6. CASE coroQueue # <<>>
  <2>1. /\ coroQueue' = Turned /\ running' = Head(Turned)
        /\ resched' = resched \ {Head(Turned)} /\ cpc' = "resume"
    BY <1>6 DEF Pick
  <2>2. coroQueue \in Seq(Coro) /\ Once(coroQueue)
    BY DEF Placed
  <2>3. Turned \in Seq(Coro) /\ Once(Turned) /\ Range(Turned) = Range(coroQueue) /\ Turned # <<>>
    <3>1. CASE Turned = coroQueue
      BY <1>6, <2>2, <3>1
    <3>2. CASE Turned # coroQueue
      <4> DEFINE rest == Tail(coroQueue)
                 c == Head(coroQueue)
      <4>1. Turned = Append(rest, c)
        BY <3>2 DEF Turned
      <4>2. /\ c \in Coro /\ rest \in Seq(Coro) /\ Once(rest) /\ c \notin Range(rest)
            /\ Range(coroQueue) = Range(rest) \cup {c}
        BY <1>6, <2>2, TailFacts
      <4> HIDE DEF rest, c
      <4>3. /\ Append(rest, c) \in Seq(Coro) /\ Range(Append(rest, c)) = Range(rest) \cup {c}
            /\ Once(Append(rest, c)) <=> Once(rest) /\ c \notin Range(rest)
            /\ Append(rest, c) # <<>>
        BY <4>2, AppendFacts
      <4> QED
        BY <4>1, <4>2, <4>3
    <3> QED
      BY <3>1, <3>2
  <2>4. Head(Turned) \in Coro /\ Head(Turned) \in Range(Turned)
    BY <2>3, TailFacts
  <2>5. Runnable' = Runnable /\ Dying' = Dying /\ Unused' = Unused
    BY <1>1, <1>3, <2>1, <2>3 DEF Runnable, Dying, Unused
  <2>6. Placed'
    BY <1>1, <1>3, <2>1, <2>3, <2>5 DEF Placed
  <2>7. Turns'
    BY <2>1, <2>3, <2>4, <2>5, NoCoro DEF Turns, Runnable
  <2> QED
    BY <1>2, <1>4, <2>6, <2>7
<1> QED
  BY <1>5, <1>6

-----------------------------------------------------------------------------
\* The running coroutine comes back from its call.
LEMMA ResumeKeepsLife ==
    ASSUME LifeInv, Resume
    PROVE  LifeInv'
<1> USE DEF LifeInv
<1>1. /\ cpc = "resume" /\ cpc' = "run"
      /\ mode' = [mode EXCEPT ![running] = "run"]
      /\ fd' = [fd EXCEPT ![running] = "none"] /\ timer' = [timer EXCEPT ![running] = "none"]
      /\ UNCHANGED <<sharedVars, coroQueue, blocked, dying, running, resched, refused, lifeVars,
                     local, dispatched, timeout, batch>>
  BY DEF Resume, roundVars
<1>2. /\ mode[running] \in {"recv", "iorecv"} => recv' = recv \ {running}
      /\ mode[running] \notin {"recv", "iorecv"} => recv' = recv
  BY DEF Resume
<1>3. \/ mailbox' = mailbox
      \/ mailbox[running] # <<>> /\ mailbox' = [mailbox EXCEPT ![running] = Tail(@)]
  BY DEF Resume
<1>4. /\ running \in Coro /\ running \in alive /\ running \notin blocked /\ batch = {}
      /\ running # None /\ running = Head(coroQueue) /\ running \notin resched
  BY <1>1, NoCoro, RunningFacts
<1>5. UNCHANGED <<alive, following, body, pool, heap, named, decay, buffers, ppc, pitem, fresh,
                  origin, meant, lock>>
  BY <1>1 DEF lifeVars, sharedVars, postVars, boxVars, sentVars
<1>6. Placed' /\ EntriesOnce' /\ CarriedOnce' /\ Others'
  BY <1>1, <1>5, Untouched DEF placeVars, entryVars, carryVars, otherVars
<1>7. Sent'
  <2>1. CASE mailbox' = mailbox
    BY <1>1, <1>5, <2>1, Untouched DEF letterVars
  <2>2. CASE mailbox[running] # <<>> /\ mailbox' = [mailbox EXCEPT ![running] = Tail(@)]
    BY <1>1, <1>4, <1>5, <2>2, TakenFacts
  <2> QED
    BY <1>3, <2>1, <2>2
<1>8. /\ mode'[running] = "run" /\ fd'[running] = "none" /\ timer'[running] = "none"
      /\ \A c \in Coro : c # running => /\ mode'[c] = mode[c] /\ fd'[c] = fd[c]
                                        /\ timer'[c] = timer[c] /\ (c \in recv' <=> c \in recv)
  BY <1>1, <1>2, <1>4 DEF Calls
<1>9. \A c \in blocked : c \in Coro /\ c # running
  BY <1>4 DEF Placed
<1>10. Family'
  BY <1>1, <1>5, <1>8, <1>9 DEF Family, ParentsWait
<1>11. Calls'
  <2>1. /\ mode' \in [Coro -> {"run", "recv", "io", "iorecv", "concat"}]
        /\ fd' \in [Coro -> {"none", "watched", "ready", "reported"}]
        /\ timer' \in [Coro -> {"none", "armed", "due", "triggered"}]
        /\ recv' \subseteq recv
    BY <1>1, <1>2, <1>4 DEF Calls
  <2>2. running \in recv' => running \in refused
    BY <1>2 DEF Calls
  <2> QED
    BY <1>1, <1>4, <1>5, <1>8, <1>9, <2>1, <2>2 DEF Calls
<1>12. Turns'
  BY <1>1, <1>4, <1>8 DEF Turns, Runnable
<1> QED
  BY <1>6, <1>7, <1>10, <1>11, <1>12

\* A descriptor is refused: FLAG_RECV stays.
LEMMA IoNotifyFailsKeepsLife ==
    ASSUME LifeInv, IoNotifyFails
    PROVE  LifeInv'
<1> USE DEF LifeInv
<1>1. /\ cpc = "run" /\ recv' = recv \cup {running} /\ refused' = refused \cup {running}
      /\ UNCHANGED <<sharedVars, coroQueue, blocked, dying, running, resched, mode, lifeVars, fd,
                     timer, mailVars, loopVars>>
  BY DEF IoNotifyFails
<1>2. running \in Coro /\ running \in alive /\ running \notin blocked /\ mode[running] = "run"
  BY <1>1, RunningFacts
<1>3. Placed' /\ EntriesOnce' /\ Turns' /\ Sent' /\ CarriedOnce' /\ Others'
  BY <1>1, Untouched
     DEF sharedVars, boxVars, sentVars, postVars, lifeVars, mailVars, loopVars, roundVars,
         placeVars, entryVars, turnVars, letterVars, carryVars, otherVars
<1>4. UNCHANGED <<alive, body, following, cpc, batch>>
  BY <1>1 DEF lifeVars, loopVars, roundVars
<1>5. Calls'
  BY <1>1, <1>2, <1>4 DEF Calls
<1>6. Family'
  BY <1>1, <1>4 DEF Family, ParentsWait
<1> QED
  BY <1>3, <1>5, <1>6

LEMMA BecomesReadyKeepsLife ==
    ASSUME LifeInv, NEW c \in Coro, BecomesReady(c)
    PROVE  LifeInv'
<1> USE DEF LifeInv
<1>1. /\ fd[c] = "watched" /\ fd' = [fd EXCEPT ![c] = "ready"]
      /\ UNCHANGED <<sharedVars, queueVars, lifeVars, timer, mailVars, loopVars>>
  BY DEF BecomesReady
<1>2. Placed' /\ EntriesOnce' /\ Family' /\ Turns' /\ Sent' /\ CarriedOnce' /\ Others'
  BY <1>1, Untouched
     DEF sharedVars, boxVars, sentVars, postVars, queueVars, lifeVars, mailVars, loopVars,
         roundVars, placeVars, entryVars, familyVars, turnVars, letterVars, carryVars, otherVars
<1>3. UNCHANGED <<alive, cpc, batch, mode, recv, refused, blocked, timer>>
  BY <1>1 DEF queueVars, lifeVars, loopVars, roundVars
<1>4. fd'[c] = "ready" /\ \A d \in Coro : d # c => fd'[d] = fd[d]
  BY <1>1 DEF Calls
<1>5. fd' \in [Coro -> {"none", "watched", "ready", "reported"}]
  BY <1>1 DEF Calls
<1>6. \A d \in blocked : d \in Coro
  BY DEF Placed
<1>7. \A d \in batch : d # Pipe => d \in Coro /\ d # c
  BY <1>1 DEF Calls
<1>8. Calls'
  BY <1>1, <1>3, <1>4, <1>5, <1>6, <1>7 DEF Calls
<1> QED
  BY <1>2, <1>8

LEMMA ElapseKeepsLife ==
    ASSUME LifeInv, NEW c \in Coro, Elapse(c)
    PROVE  LifeInv'
<1> USE DEF LifeInv
<1>1. /\ timer[c] = "armed" /\ timer' = [timer EXCEPT ![c] = "due"]
      /\ UNCHANGED <<sharedVars, queueVars, lifeVars, fd, mailVars, loopVars>>
  BY DEF Elapse
<1>2. Placed' /\ EntriesOnce' /\ Family' /\ Turns' /\ Sent' /\ CarriedOnce' /\ Others'
  BY <1>1, Untouched
     DEF sharedVars, boxVars, sentVars, postVars, queueVars, lifeVars, mailVars, loopVars,
         roundVars, placeVars, entryVars, familyVars, turnVars, letterVars, carryVars, otherVars
<1>3. UNCHANGED <<alive, cpc, batch, mode, recv, refused, blocked, fd>>
  BY <1>1 DEF queueVars, lifeVars, loopVars, roundVars
<1>4. timer' \in [Coro -> {"none", "armed", "due", "triggered"}]
      /\ \A d \in Coro : timer'[d] # "none" => timer[d] # "none"
  BY <1>1 DEF Calls
<1>5. Calls'
  BY <1>3, <1>4 DEF Calls
<1> QED
  BY <1>2, <1>5

-----------------------------------------------------------------------------
\* A coroutine leaves coro_queue and the thread.
LEMMA BlockFacts ==
    ASSUME LifeInv, NEW how \in {"recv", "io", "iorecv"}, cpc = "run", Block(how),
           UNCHANGED <<dying, resched, refused, lifeVars, named, decay>>
    PROVE  /\ Placed' /\ Family' /\ Turns'
           /\ running \in Coro /\ running \in alive /\ batch = {}
           /\ blocked' = blocked \cup {running} /\ running \notin blocked
           /\ mode' \in [Coro -> {"run", "recv", "io", "iorecv", "concat"}]
           /\ timer' \in [Coro -> {"none", "armed", "due", "triggered"}]
           /\ mode'[running] = how
           /\ \A c \in Coro : c # running => mode'[c] = mode[c] /\ timer'[c] = timer[c]
<1> USE DEF LifeInv
<1>1. /\ mode' = [mode EXCEPT ![running] = how] /\ coroQueue' = Without(coroQueue, running)
      /\ blocked' = blocked \cup {running} /\ running' = None /\ cpc' = "timeout"
      /\ timer' = timer \/ timer' = [timer EXCEPT ![running] = "armed"]
  BY DEF Block
<1>2. /\ running \in Coro /\ running \in Runnable /\ running \in alive /\ running \notin blocked
      /\ running \notin resched /\ running \notin Unused /\ batch = {}
  BY RunningFacts
<1>3. UNCHANGED <<body, alive, following, pool, heap>>
  BY DEF lifeVars
<1>4. /\ coroQueue' \in Seq(Coro) /\ Once(coroQueue')
      /\ Range(coroQueue') = Range(coroQueue) \ {running}
  <2>1. coroQueue \in Seq(Coro) /\ Once(coroQueue)
    BY DEF Placed
  <2> QED
    BY <1>1, <2>1, WithoutFacts
<1>5. Runnable' = Runnable \ {running} /\ Dying' = Dying /\ Unused' = Unused
  BY <1>3, <1>4 DEF Runnable, Dying, Unused
<1>6. Placed'
  BY <1>1, <1>2, <1>3, <1>4, <1>5 DEF Placed
<1>7. /\ mode' \in [Coro -> {"run", "recv", "io", "iorecv", "concat"}]
      /\ timer' \in [Coro -> {"none", "armed", "due", "triggered"}]
      /\ mode'[running] = how
      /\ \A c \in Coro : c # running => mode'[c] = mode[c] /\ timer'[c] = timer[c]
  BY <1>1, <1>2 DEF Calls
<1>8. Family'
  <2>1. \A c \in blocked : c \in Coro /\ c # running
    BY <1>2 DEF Placed
  <2> QED
    BY <1>1, <1>3, <1>7, <2>1 DEF Family, ParentsWait
<1>9. Turns'
  BY <1>1, <1>2, <1>5 DEF Turns
<1> QED
  BY <1>1, <1>2, <1>6, <1>7, <1>8, <1>9

LEMMA BlockInRecvKeepsLife ==
    ASSUME LifeInv, BlockInRecv
    PROVE  LifeInv'
<1> USE DEF LifeInv
<1>1. /\ cpc = "run" /\ recv' = recv \cup {running} /\ Block("recv")
      /\ UNCHANGED <<sharedVars, dying, resched, refused, lifeVars, fd, mailVars, timeout, batch>>
  BY DEF BlockInRecv, roundVars
<1>2. EntriesOnce' /\ Sent' /\ CarriedOnce' /\ Others'
  BY <1>1, Untouched
     DEF sharedVars, boxVars, sentVars, postVars, lifeVars, mailVars, entryVars, letterVars,
         carryVars, otherVars
<1>3. /\ Placed' /\ Family' /\ Turns'
      /\ running \in Coro /\ running \in alive /\ batch = {}
      /\ blocked' = blocked \cup {running} /\ running \notin blocked
      /\ mode' \in [Coro -> {"run", "recv", "io", "iorecv", "concat"}]
      /\ timer' \in [Coro -> {"none", "armed", "due", "triggered"}]
      /\ mode'[running] = "recv"
      /\ \A c \in Coro : c # running => mode'[c] = mode[c] /\ timer'[c] = timer[c]
  BY <1>1, BlockFacts DEF sharedVars, postVars
<1>4. alive' = alive /\ fd[running] = "none"
  BY <1>1, RunningFacts DEF lifeVars
<1>5. \A c \in blocked : c \in Coro
  BY DEF Placed
<1>6. Calls'
  BY <1>1, <1>3, <1>4, <1>5 DEF Calls
<1> QED
  BY <1>2, <1>3, <1>6

LEMMA BlockOnIoKeepsLife ==
    ASSUME LifeInv, BlockOnIo
    PROVE  LifeInv'
<1> USE DEF LifeInv
<1>1. PICK how \in {"io", "iorecv"} :
         /\ Block(how)
         /\ how = "io" => recv' = recv
         /\ how = "iorecv" => recv' = recv \cup {running}
  BY DEF BlockOnIo
<1>2. /\ cpc = "run" /\ fd' = [fd EXCEPT ![running] = "watched"]
      /\ UNCHANGED <<sharedVars, dying, resched, refused, lifeVars, mailVars, timeout, batch>>
  BY DEF BlockOnIo, roundVars
<1>3. EntriesOnce' /\ Sent' /\ CarriedOnce' /\ Others'
  BY <1>2, Untouched
     DEF sharedVars, boxVars, sentVars, postVars, lifeVars, mailVars, entryVars, letterVars,
         carryVars, otherVars
<1>4. /\ Placed' /\ Family' /\ Turns'
      /\ running \in Coro /\ running \in alive /\ batch = {}
      /\ blocked' = blocked \cup {running} /\ running \notin blocked
      /\ mode' \in [Coro -> {"run", "recv", "io", "iorecv", "concat"}]
      /\ timer' \in [Coro -> {"none", "armed", "due", "triggered"}]
      /\ mode'[running] = how
      /\ \A c \in Coro : c # running => mode'[c] = mode[c] /\ timer'[c] = timer[c]
  BY <1>1, <1>2, BlockFacts DEF sharedVars, postVars
<1>5. /\ fd' \in [Coro -> {"none", "watched", "ready", "reported"}]
      /\ fd'[running] = "watched" /\ \A c \in Coro : c # running => fd'[c] = fd[c]
  BY <1>2, <1>4 DEF Calls
<1>6. alive' = alive /\ mode[running] = "run"
  BY <1>2, RunningFacts DEF lifeVars
<1>7. \A c \in blocked : c \in Coro
  BY DEF Placed
<1>8. running \in recv => running \in refused
  BY <1>6 DEF Calls
<1>9. Calls'
  BY <1>1, <1>2, <1>4, <1>5, <1>6, <1>7, <1>8 DEF Calls
<1> QED
  BY <1>3, <1>4, <1>9

-----------------------------------------------------------------------------
\* A struct that is given out was unused, which means: not alive, and with nobody
\* who waits for it.  Its mailbox may hold what an earlier life was sent.
LEMMA CreateFacts ==
    ASSUME LifeInv, NEW c \in Coro, NEW e \in Entry, Create(c, e)
    PROVE  /\ c \in Unused /\ c \notin alive /\ c \notin Dying /\ body[c] = None
           /\ mode[c] = "run" /\ following[c] = None
           /\ Unused' = Unused \ {c} /\ alive' = alive \cup {c}
           /\ pool' \in Seq(Coro) /\ Once(pool') /\ Len(pool') <= PoolCap
           /\ Range(pool') \cap heap' = {} /\ heap' \subseteq Coro
           /\ resched' = resched
           /\ body' \in [Coro -> Coro \cup Entry \cup {None}]
           /\ body'[c] = e /\ \A d \in Coro : d # c => body'[d] = body[d]
           /\ decay' \in [Coro -> Int] /\ \A d \in Coro : decay[d] = 0 => decay'[d] = 0
<1> USE DEF LifeInv
<1>1. /\ pool \in Seq(Coro) /\ Once(pool) /\ Len(pool) <= PoolCap /\ Range(pool) \cap heap = {}
      /\ heap \subseteq Coro
  BY DEF Placed
<1>2. /\ heap' = heap \ {c} /\ body' = [body EXCEPT ![c] = e] /\ alive' = alive \cup {c}
      /\ resched' = resched \ {c} /\ decay' = [decay EXCEPT ![c] = 0]
  BY DEF Create
<1>3. /\ c \in Unused /\ Unused' = Unused \ {c}
      /\ pool' \in Seq(Coro) /\ Once(pool') /\ Len(pool') <= PoolCap /\ Range(pool') \subseteq Range(pool)
  <2>1. CASE pool = <<>>
    <3>1. c \in heap /\ pool' = pool /\ Range(pool) = {}
      BY <2>1, EmptyFacts DEF Create
    <3> QED
      BY <1>1, <1>2, <3>1 DEF Unused
  <2>2. CASE pool # <<>>
    <3>1. c = Head(pool) /\ pool' = Tail(pool)
      BY <2>2 DEF Create
    <3>2. /\ Tail(pool) \in Seq(Coro) /\ Range(pool) = Range(Tail(pool)) \cup {c}
          /\ Once(Tail(pool)) /\ c \notin Range(Tail(pool))
      BY <1>1, <2>2, <3>1, TailFacts
    <3>3. Len(Tail(pool)) <= PoolCap
      <4>1. Len(pool) \in Nat /\ Len(Tail(pool)) = Len(pool) - 1
        BY <1>1, <2>2
      <4> QED
        BY <1>1, <4>1, P7Assumption
    <3> QED
      BY <1>1, <1>2, <3>1, <3>2, <3>3 DEF Unused
  <2> QED
    BY <2>1, <2>2
<1>4. c \notin alive /\ c \notin Dying /\ body[c] = None
  BY <1>3 DEF Placed
<1>5. mode[c] = "run" /\ following[c] = None
  BY <1>4 DEF Calls, Family
<1>6. decay' \in [Coro -> Int] /\ \A d \in Coro : decay[d] = 0 => decay'[d] = 0
  BY <1>2 DEF Placed
<1>7. c \notin resched
  BY <1>4 DEF Turns, Placed
<1>8. /\ body' \in [Coro -> Coro \cup Entry \cup {None}]
      /\ body'[c] = e /\ \A d \in Coro : d # c => body'[d] = body[d]
  BY <1>2 DEF EntriesOnce
<1> QED
  BY <1>1, <1>2, <1>3, <1>4, <1>5, <1>6, <1>7, <1>8

\* What it runs nobody else runs, or is going to.
LEMMA NewBodyOnce ==
    ASSUME LifeInv, NEW c \in Coro, NEW e \in Entry, Create(c, e),
           e \notin Bodies, e \notin fresh', e \notin Waiting(Rq)',
           \A p \in Carrier : Carrying(p) => pitem[p] # e,
           fresh' \subseteq fresh, Waiting(Rq)' \subseteq Waiting(Rq), UNCHANGED <<ppc, pitem>>,
           \A s \in 0..1 : buffers'[Rq][s] \in Seq(Entry) /\ Once(buffers'[Rq][s]),
           Range(buffers'[Rq][0]) \cap Range(buffers'[Rq][1]) = {}
    PROVE  EntriesOnce'
<1> USE DEF LifeInv
<1>1. /\ body[c] = None /\ body' \in [Coro -> Coro \cup Entry \cup {None}]
      /\ body'[c] = e /\ \A d \in Coro : d # c => body'[d] = body[d]
  BY CreateFacts
<1>2. e \notin Coro /\ e # None
  BY NoCoro, P7Assumption
<1>3. \A d \in Coro : body[d] # e
  BY DEF Bodies
<1>4. \A x \in Bodies' : x = e \/ x \in Bodies
  BY <1>1 DEF Bodies
<1>5. \A p \in Carrier : Carrying(p)' <=> Carrying(p)
  BY DEF Carrying
<1>6. \A d \in Coro : body'[d] \in Coro => body'[d] = d
  BY <1>1, <1>2 DEF EntriesOnce
<1>7. \A d1, d2 \in Coro : body'[d1] = body'[d2] /\ d1 # d2 => body'[d1] = None
  BY <1>1, <1>3 DEF EntriesOnce
<1>8. \A p \in Carrier : Carrying(p)' => pitem'[p] \notin fresh' \cup Waiting(Rq)' \cup Bodies'
  BY <1>4, <1>5 DEF EntriesOnce
<1>9. fresh' \cap Waiting(Rq)' = {} /\ fresh' \cap Bodies' = {} /\ Waiting(Rq)' \cap Bodies' = {}
  BY <1>4 DEF EntriesOnce
<1> QED
  BY <1>1, <1>6, <1>7, <1>8, <1>9 DEF EntriesOnce

\* The mailbox of a new coroutine is empty, or is what lay in the struct.
LEMMA CreatedMailbox ==
    ASSUME LifeInv, NEW c \in Coro, NEW e \in Entry, Create(c, e)
    PROVE  /\ mailbox' \in [Coro -> Seq(Message)]
           /\ \A d \in Coro : Range(mailbox'[d]) \subseteq Range(mailbox[d])
<1>1. mailbox \in [Coro -> Seq(Message)]
  BY DEF LifeInv, Sent
<1>2. CASE mailbox' = mailbox
  BY <1>1, <1>2
<1>3. CASE mailbox' = [mailbox EXCEPT ![c] = <<>>]
  <2>1. <<>> \in Seq(Message) /\ Range(<<>>) = {}
    BY EmptyFacts
  <2>2. mailbox'[c] = <<>> /\ \A d \in Coro : d # c => mailbox'[d] = mailbox[d]
    BY <1>1, <1>3
  <2>3. \A d \in Coro : Range(mailbox'[d]) \subseteq Range(mailbox[d])
    BY <2>1, <2>2
  <2> QED
    BY <1>1, <1>3, <2>1, <2>3
<1> QED
  BY <1>2, <1>3 DEF Create

\* No message on its way is meant for a struct that is unused.
LEMMA NewBodyIsNotSentTo ==
    ASSUME LifeInv, NEW c \in Coro, NEW e \in Entry, Create(c, e),
           \A p \in Carrier : buffers'[p] = buffers[p],
           UNCHANGED <<origin, meant, local>>
    PROVE  Sent'
<1> USE DEF LifeInv
<1>1. /\ c \in Unused /\ c \notin alive /\ Unused' = Unused \ {c} /\ alive' = alive \cup {c}
      /\ \A d \in Coro : d # c => body'[d] = body[d]
  BY CreateFacts
<1>2. \A p \in Carrier : Waiting(p)' = Waiting(p)
  BY DEF Waiting
<1>3. \A m \in Message : Dst[m] \in Coro
  BY P7Assumption
<1>4. \A m \in Range(local) : m \in Message /\ Dst[m] # c
  BY <1>1 DEF Sent, Range
<1>5. \A m \in Message : Kept(m) => Kept(m)'
  BY <1>1, <1>3 DEF Kept
<1>6. /\ mailbox' \in [Coro -> Seq(Message)]
      /\ \A d \in Coro : Range(mailbox'[d]) \subseteq Range(mailbox[d])
  BY CreatedMailbox
<1>7. \A d \in Coro : \A m \in Range(mailbox[d]) : m \in Message
  BY DEF Sent, Range
<1>8. \A d \in Coro : \A m \in Range(mailbox'[d]) :
         Dst[m] = d /\ origin'[m] # None /\ Kept(m)'
  BY <1>5, <1>6, <1>7 DEF Sent
<1>9. \A m \in Range(local') : /\ origin'[m] = 0 /\ body'[Dst[m]] = meant'[m]
                               /\ Dst[m] \notin Unused'
  BY <1>1, <1>3, <1>4 DEF Sent
<1> QED
  BY <1>2, <1>6, <1>8, <1>9 DEF Sent

\* The new coroutine is the last of coro_queue, the others stay.
LEMMA CreatedLast ==
    ASSUME LifeInv, NEW c \in Coro, NEW e \in Entry, Create(c, e),
           coroQueue' = Append(coroQueue, c), cpc' = cpc,
           UNCHANGED <<blocked, dying, named, running, mode, refused, following, fd, timer,
                       recv, batch, local>>
    PROVE  Placed' /\ Family' /\ Calls' /\ Turns'
<1> USE DEF LifeInv
<1>1. /\ c \in Unused /\ c \notin alive /\ c \notin Dying /\ following[c] = None
      /\ Unused' = Unused \ {c} /\ alive' = alive \cup {c}
      /\ pool' \in Seq(Coro) /\ Once(pool') /\ Len(pool') <= PoolCap
      /\ Range(pool') \cap heap' = {} /\ heap' \subseteq Coro /\ resched' = resched
      /\ body'[c] = e /\ \A d \in Coro : d # c => body'[d] = body[d]
      /\ decay' \in [Coro -> Int] /\ \A d \in Coro : decay[d] = 0 => decay'[d] = 0
  BY CreateFacts
<1>2. coroQueue \in Seq(Coro) /\ Once(coroQueue) /\ c \notin Range(coroQueue)
  BY <1>1 DEF Placed, Runnable
<1>3. /\ coroQueue' \in Seq(Coro) /\ Once(coroQueue') /\ Range(coroQueue') = Range(coroQueue) \cup {c}
      /\ coroQueue # <<>> => Head(coroQueue') = Head(coroQueue)
  BY <1>2, AppendFacts
<1>4. Runnable' = Runnable \cup {c} /\ Dying' = Dying
  BY <1>3 DEF Runnable, Dying
<1>5. e # None
  BY NoCoro
<1>6. Placed'
  <2>1. /\ Runnable' \cap blocked' = {} /\ Runnable' \cup blocked' = alive'
        /\ alive' \cap Dying' = {} /\ (alive' \cup Dying') \cap Unused' = {}
        /\ alive' \subseteq Coro
    BY <1>1, <1>4 DEF Placed
  <2>2. \A d \in Coro : body'[d] = None <=> d \in Unused'
    BY <1>1, <1>5 DEF Placed
  <2>3. ~ ByName => /\ named' = {} /\ \A d \in Coro : decay'[d] = 0
                    /\ alive' \cup Dying' \cup Unused' = Coro
    BY <1>1, <1>4 DEF Placed
  <2>4. dying' \in Seq(Coro) /\ Once(dying')
    BY DEF Placed
  <2> QED
    BY <1>1, <1>3, <2>1, <2>2, <2>3, <2>4 DEF Placed
<1>7. Family'
  BY <1>1, <1>5 DEF Family, ParentsWait
<1>8. Calls'
  BY <1>1 DEF Calls
<1>9. Turns'
  <2>1. running # None => coroQueue # <<>>
    BY EmptyFacts DEF Turns, Runnable
  <2> QED
    BY <1>1, <1>3, <1>4, <2>1 DEF Turns
<1> QED
  BY <1>6, <1>7, <1>8, <1>9

LEMMA TakeRequestKeepsLife ==
    ASSUME LifeInv, RaceInv, WakeInv, TakeRequest
    PROVE  LifeInv'
<1> USE DEF LifeInv
<1> DEFINE mine == OtherSide(index[Rq])
           list == buffers[Rq][mine]
           e == Head(list)
<1>1. /\ cpc = "drain" /\ list # <<>> /\ buffers' = [buffers EXCEPT ![Rq][mine] = Tail(list)]
      /\ UNCHANGED <<sentVars, postVars, blocked, dying, running, recv, mode, refused,
                     following, fd, timer, local, dispatched, cpc, batch, timeout>>
  BY DEF TakeRequest, loopVars, roundVars
<1>2. PICK c \in Coro : Create(c, e) /\ coroQueue' = Append(coroQueue, c)
  BY DEF TakeRequest
<1>3. /\ Rq \in Box /\ mine \in 0..1 /\ \A p \in Carrier : p \in Box /\ p # Rq
      /\ buffers \in [Box -> [0..1 -> Seq(Message \cup Entry)]]
  <2>1. Rq \in Box /\ \A p \in Carrier : p \in Box /\ p # Rq
    BY P7Assumption DEF Rq, Box, Carrier
  <2>2. mine \in 0..1
    BY <2>1, IndexFacts DEF RaceInv, PostersTyped
  <2> QED
    BY <2>1, <2>2 DEF WakeInv, WakeTyped
<1>4. /\ list \in Seq(Entry) /\ e \in Entry /\ Once(Tail(list)) /\ Tail(list) \in Seq(Entry)
      /\ Range(list) = Range(Tail(list)) \cup {e} /\ e \notin Range(Tail(list))
  <2>1. list \in Seq(Entry) /\ Once(list)
    BY <1>3 DEF EntriesOnce
  <2> HIDE DEF list
  <2> QED
    BY <1>1, <2>1, TailFacts
<1>5. /\ buffers'[Rq][mine] = Tail(list)
      /\ \A s \in 0..1 : s # mine => buffers'[Rq][s] = buffers[Rq][s]
      /\ \A p \in Carrier : buffers'[p] = buffers[p]
  BY <1>1, <1>3
<1>6. /\ e \in Waiting(Rq) /\ e \notin Waiting(Rq)' /\ Waiting(Rq)' \subseteq Waiting(Rq)
      /\ Range(buffers'[Rq][0]) \cap Range(buffers'[Rq][1]) = {}
  <2> HIDE DEF e
  <2>1. CASE mine = 0
    <3>1. buffers'[Rq][0] = Tail(list) /\ buffers'[Rq][1] = buffers[Rq][1] /\ list = buffers[Rq][0]
      BY <1>3, <1>5, <2>1
    <3> QED
      BY <1>4, <3>1 DEF Waiting, EntriesOnce
  <2>2. CASE mine = 1
    <3>1. buffers'[Rq][1] = Tail(list) /\ buffers'[Rq][0] = buffers[Rq][0] /\ list = buffers[Rq][1]
      BY <1>3, <1>5, <2>2
    <3> QED
      BY <1>4, <3>1 DEF Waiting, EntriesOnce
  <2> QED
    BY <1>3, <2>1, <2>2
<1>7. \A s \in 0..1 : buffers'[Rq][s] \in Seq(Entry) /\ Once(buffers'[Rq][s])
  BY <1>3, <1>4, <1>5 DEF EntriesOnce
<1> HIDE DEF mine, list, e
<1>8. UNCHANGED <<origin, meant, fresh, lock, ppc, pitem, named>>
  BY <1>1 DEF sentVars, postVars
<1>9. e \notin Bodies /\ e \notin fresh /\ \A p \in Carrier : Carrying(p) => pitem[p] # e
  BY <1>6 DEF EntriesOnce
<1>10. EntriesOnce'
  BY <1>2, <1>4, <1>6, <1>7, <1>8, <1>9, NewBodyOnce
<1>11. Sent'
  BY <1>1, <1>2, <1>4, <1>5, <1>8, NewBodyIsNotSentTo
<1>12. Placed' /\ Family' /\ Calls' /\ Turns'
  BY <1>1, <1>2, <1>4, <1>8, CreatedLast
<1>13. Others' /\ CarriedOnce'
  BY <1>1, <1>8, Untouched DEF Others, carryVars
<1> QED
  BY <1>10, <1>11, <1>12, <1>13

\* What coro_create_request takes is requested by nobody else.
LEMMA FreshBodyOnce ==
    ASSUME LifeInv, RaceInv, NEW c \in Coro, NEW e \in fresh, Create(c, e), fresh' = fresh \ {e},
           UNCHANGED <<buffers, ppc, pitem>>
    PROVE  e \in Entry /\ EntriesOnce'
<1> USE DEF LifeInv
<1>1. e \in Entry
  BY DEF RaceInv, PostersTyped
<1>2. e \notin Bodies /\ e \notin Waiting(Rq) /\ \A p \in Carrier : Carrying(p) => pitem[p] # e
  BY DEF EntriesOnce
<1>3. Waiting(Rq)' = Waiting(Rq)
  BY DEF Waiting
<1>4. /\ \A s \in 0..1 : buffers'[Rq][s] \in Seq(Entry) /\ Once(buffers'[Rq][s])
      /\ Range(buffers'[Rq][0]) \cap Range(buffers'[Rq][1]) = {}
  BY DEF EntriesOnce
<1> QED
  BY <1>1, <1>2, <1>3, <1>4, NewBodyOnce

LEMMA CreateLocalKeepsLife ==
    ASSUME LifeInv, RaceInv, CreateLocal
    PROVE  LifeInv'
<1> USE DEF LifeInv
<1>1. PICK c \in Coro, e \in fresh :
         Create(c, e) /\ coroQueue' = Append(coroQueue, c) /\ fresh' = fresh \ {e}
  BY DEF CreateLocal
<1>2. UNCHANGED <<buffers, origin, meant, lock, ppc, pitem, named, blocked, dying, running, recv,
                  mode, refused, following, fd, timer, local, dispatched, cpc, batch,
                  timeout>>
  BY DEF CreateLocal, boxVars, postVars, loopVars, roundVars
<1>3. e \in Entry /\ EntriesOnce'
  BY <1>1, <1>2, FreshBodyOnce
<1>4. Sent'
  BY <1>1, <1>2, <1>3, NewBodyIsNotSentTo
<1>5. Placed' /\ Family' /\ Calls' /\ Turns'
  BY <1>1, <1>2, <1>3, CreatedLast
<1>6. Others' /\ CarriedOnce'
  BY <1>2, Untouched DEF Others, carryVars
<1> QED
  BY <1>3, <1>4, <1>5, <1>6

\* The parent leaves coro_queue and the child comes in.
LEMMA ConcatKeepsLife ==
    ASSUME LifeInv, RaceInv, Concat
    PROVE  LifeInv'
<1> USE DEF LifeInv
<1>1. PICK c \in Coro, e \in fresh :
         /\ Create(c, e) /\ fresh' = fresh \ {e}
         /\ following' = [following EXCEPT ![c] = running]
         /\ coroQueue' = Append(Without(coroQueue, running), c)
  BY DEF Concat
<1>2. /\ cpc = "run" /\ cpc' = "timeout" /\ blocked' = blocked \cup {running} /\ running' = None
      /\ mode' = [mode EXCEPT ![running] = "concat"]
      /\ UNCHANGED <<buffers, origin, meant, lock, ppc, pitem, named, dying, recv, refused,
                     fd, timer, local, dispatched, batch, timeout>>
  BY DEF Concat, boxVars, postVars, roundVars
<1>3. e \in Entry /\ EntriesOnce'
  BY <1>1, <1>2, FreshBodyOnce
<1>4. Sent'
  BY <1>1, <1>2, <1>3, NewBodyIsNotSentTo
<1>5. /\ c \in Unused /\ c \notin alive /\ c \notin Dying /\ following[c] = None
      /\ Unused' = Unused \ {c} /\ alive' = alive \cup {c}
      /\ pool' \in Seq(Coro) /\ Once(pool') /\ Len(pool') <= PoolCap
      /\ Range(pool') \cap heap' = {} /\ heap' \subseteq Coro /\ resched' = resched
      /\ body'[c] = e /\ \A d \in Coro : d # c => body'[d] = body[d]
      /\ decay' \in [Coro -> Int] /\ \A d \in Coro : decay[d] = 0 => decay'[d] = 0
  BY <1>1, <1>3, CreateFacts
<1>6. /\ running \in Coro /\ running \in Runnable /\ running \in alive /\ running \notin blocked
      /\ running \notin resched /\ mode[running] = "run" /\ fd[running] = "none"
      /\ timer[running] = "none" /\ batch = {}
  BY <1>2, RunningFacts
<1>7. running # c /\ e # None /\ running # None
  BY <1>5, <1>6, <1>3, NoCoro
<1>8. /\ coroQueue' \in Seq(Coro) /\ Once(coroQueue')
      /\ Range(coroQueue') = (Range(coroQueue) \ {running}) \cup {c}
  <2> DEFINE rest == Without(coroQueue, running)
  <2>1. coroQueue \in Seq(Coro) /\ Once(coroQueue) /\ c \notin Range(coroQueue)
    BY <1>5 DEF Placed, Runnable
  <2>2. rest \in Seq(Coro) /\ Once(rest) /\ Range(rest) = Range(coroQueue) \ {running}
    BY <2>1, WithoutFacts
  <2>3. coroQueue' = Append(rest, c)
    BY <1>1
  <2> HIDE DEF rest
  <2>4. /\ Append(rest, c) \in Seq(Coro) /\ Range(Append(rest, c)) = Range(rest) \cup {c}
        /\ Once(Append(rest, c)) <=> Once(rest) /\ c \notin Range(rest)
    BY <2>2, AppendFacts
  <2> QED
    BY <2>1, <2>2, <2>3, <2>4
<1>9. Runnable' = (Runnable \ {running}) \cup {c} /\ Dying' = Dying
  BY <1>2, <1>8 DEF Runnable, Dying
<1>10. Placed'
  <2>1. /\ coroQueue' \in Seq(Coro) /\ dying' \in Seq(Coro) /\ pool' \in Seq(Coro)
        /\ alive' \subseteq Coro /\ heap' \subseteq Coro
        /\ Once(coroQueue') /\ Once(dying') /\ Once(pool')
    BY <1>2, <1>5, <1>8 DEF Placed
  <2>2. Runnable' \cap blocked' = {} /\ Runnable' \cup blocked' = alive'
    BY <1>2, <1>5, <1>6, <1>7, <1>9 DEF Placed
  <2>3. alive' \cap Dying' = {} /\ (alive' \cup Dying') \cap Unused' = {}
    BY <1>5, <1>9 DEF Placed
  <2>4. \A d \in Coro : body'[d] = None <=> d \in Unused'
    BY <1>5, <1>7 DEF Placed
  <2>5. ~ ByName => /\ named' = {} /\ \A d \in Coro : decay'[d] = 0
                    /\ alive' \cup Dying' \cup Unused' = Coro
    BY <1>2, <1>5, <1>9 DEF Placed
  <2> QED
    BY <1>5, <2>1, <2>2, <2>3, <2>4, <2>5 DEF Placed
<1>11. /\ mode' \in [Coro -> {"run", "recv", "io", "iorecv", "concat"}]
       /\ mode'[running] = "concat" /\ \A d \in Coro : d # running => mode'[d] = mode[d]
  BY <1>2, <1>6 DEF Calls
<1>12. /\ following' \in [Coro -> Coro \cup {None}]
       /\ following'[c] = running /\ \A d \in Coro : d # c => following'[d] = following[d]
  BY <1>1, <1>6 DEF Family
<1>13. \A d \in blocked : d \in Coro /\ d # running
  BY <1>6 DEF Placed
<1>14. \A d \in alive : d \in Coro /\ d # c /\ (following[d] = running => running \in refused)
  BY <1>5, <1>6, <1>7 DEF Placed, Family, ParentsWait
<1>15. Family'
  <2>1. ParentsWait'
    <3> SUFFICES ASSUME NEW d \in alive', following'[d] # None
                 PROVE  \/ following'[d] \in blocked' /\ mode'[following'[d]] = "concat"
                        \/ following'[d] \in refused'
      BY DEF ParentsWait
    <3>1. CASE d = c
      BY <1>2, <1>11, <1>12, <3>1
    <3>2. CASE d # c
      <4>1. d \in alive /\ following'[d] = following[d]
        BY <1>5, <1>12, <1>14, <3>2
      <4>2. \/ following[d] \in blocked /\ mode[following[d]] = "concat"
            \/ following[d] \in refused
        BY <4>1 DEF Family, ParentsWait
      <4> QED
        BY <1>2, <1>11, <1>13, <4>1, <4>2
    <3> QED
      BY <3>1, <3>2
  <2>2. \A d1, d2 \in alive' : following'[d1] = following'[d2] /\ d1 # d2 =>
                                following'[d1] = None \/ following'[d1] \in refused'
    BY <1>2, <1>5, <1>12, <1>14 DEF Family
  <2>3. \A d \in Coro : body'[d] = None => following'[d] = None
    BY <1>5, <1>7, <1>12 DEF Family
  <2>4. \A d \in blocked' : mode'[d] = "concat" => \E k \in alive' : following'[k] = d
    BY <1>2, <1>5, <1>11, <1>12, <1>13, <1>14 DEF Family
  <2>5. \A d \in Coro : following'[d] # d
    BY <1>7, <1>12 DEF Family
  <2> QED
    BY <1>12, <2>1, <2>2, <2>3, <2>4, <2>5 DEF Family
<1>16. running \in recv => running \in refused
  BY <1>6 DEF Calls
<1>17. Calls'
  BY <1>2, <1>5, <1>6, <1>11, <1>13, <1>16 DEF Calls
<1>18. Turns'
  BY <1>2, <1>5, <1>6, <1>9 DEF Turns
<1>19. Others' /\ CarriedOnce'
  BY <1>2, Untouched DEF Others, carryVars
<1> QED
  BY <1>3, <1>4, <1>10, <1>15, <1>17, <1>18, <1>19

-----------------------------------------------------------------------------
\* The end of a coroutine: its parent, if there is one, is runnable again.
LEMMA EndKeepsLife ==
    ASSUME LifeInv, RaceInv, End
    PROVE  LifeInv'
<1> USE DEF LifeInv
<1> DEFINE r        == running
           follower == following[r]
           left     == Without(coroQueue, r)
<1>1. /\ cpc = "run" /\ cpc' = "timeout" /\ body[r] \in Mortal
      /\ alive' = alive \ {r} /\ mailbox' = Cleaned(r)
      /\ follower \in alive \cup {None}
      /\ coroQueue' = IF follower = None THEN left ELSE Append(Without(left, follower), follower)
      /\ blocked' = blocked \ {follower} /\ dying' = Append(dying, r) /\ running' = None
      /\ UNCHANGED <<sharedVars, resched, recv, mode, refused, body, following, pool, heap, fd,
                     timer, local, dispatched, timeout, batch>>
  BY DEF End, roundVars
<1>2. /\ r \in Coro /\ r \in Runnable /\ r \in alive /\ r \notin blocked /\ r \notin Dying
      /\ r \notin Unused /\ r \notin resched /\ mode[r] = "run" /\ batch = {} /\ r # None
  BY <1>1, NoCoro, RunningFacts
<1> HIDE DEF r
<1>3. follower # None => follower \in alive /\ follower \in Coro /\ follower # r
  BY <1>1, <1>2 DEF Family, Placed
<1>4. None \notin blocked /\ None \notin Runnable
  BY NoCoro DEF Placed
<1>5. UNCHANGED <<buffers, origin, meant, fresh, lock, ppc, pitem, named, decay>>
      /\ Unused' = Unused
  BY <1>1 DEF sharedVars, boxVars, sentVars, postVars, Unused
<1>6. EntriesOnce' /\ Others' /\ CarriedOnce'
  BY <1>1, <1>5, Untouched DEF entryVars, otherVars, carryVars
<1>7. left \in Seq(Coro) /\ Once(left) /\ Range(left) = Runnable \ {r}
  <2>1. coroQueue \in Seq(Coro) /\ Once(coroQueue)
    BY DEF Placed
  <2> QED
    BY <2>1, WithoutFacts DEF Runnable
<1> HIDE DEF left, follower
<1>8. /\ coroQueue' \in Seq(Coro) /\ Once(coroQueue')
      /\ Runnable' = (Runnable \ {r}) \cup ({follower} \ {None})
  <2>1. CASE follower = None
    <3>1. coroQueue' = left
      BY <1>1, <2>1
    <3> QED
      BY <1>7, <2>1, <3>1 DEF Runnable
  <2>2. CASE follower # None
    <3> DEFINE rest == Without(left, follower)
    <3>1. follower \in Coro /\ coroQueue' = Append(rest, follower)
      BY <1>1, <1>3, <2>2
    <3>2. rest \in Seq(Coro) /\ Once(rest) /\ Range(rest) = Range(left) \ {follower}
      BY <1>7, WithoutFacts
    <3> HIDE DEF rest
    <3>3. /\ Append(rest, follower) \in Seq(Coro)
          /\ Range(Append(rest, follower)) = Range(rest) \cup {follower}
          /\ Once(Append(rest, follower)) <=> Once(rest) /\ follower \notin Range(rest)
      BY <3>1, <3>2, AppendFacts
    <3>4. Runnable' = Range(rest) \cup {follower} /\ follower # None
      BY <2>2, <3>1, <3>3 DEF Runnable
    <3> QED
      BY <1>7, <3>1, <3>2, <3>3, <3>4
  <2> QED
    BY <2>1, <2>2
<1>9. dying' \in Seq(Coro) /\ Once(dying') /\ Dying' = Dying \cup {r}
  <2>1. dying \in Seq(Coro) /\ Once(dying) /\ r \notin Range(dying)
    BY <1>2 DEF Placed, Dying
  <2>2. /\ Append(dying, r) \in Seq(Coro) /\ Range(Append(dying, r)) = Range(dying) \cup {r}
        /\ Once(Append(dying, r)) <=> Once(dying) /\ r \notin Range(dying)
    BY <1>2, <2>1, AppendFacts
  <2> QED
    BY <1>1, <2>1, <2>2 DEF Dying
<1>10. Placed'
  <2>1. Runnable' \cap blocked' = {} /\ Runnable' \cup blocked' = alive'
    <3>1. Runnable \cap blocked = {} /\ Runnable \cup blocked = alive
      BY DEF Placed
    <3> QED
      BY <1>1, <1>2, <1>3, <1>4, <1>8, <3>1
  <2>2. /\ alive' \cap Dying' = {} /\ (alive' \cup Dying') \cap Unused' = {}
        /\ alive' \cup Dying' = alive \cup Dying
    BY <1>1, <1>2, <1>5, <1>9 DEF Placed
  <2> QED
    BY <1>1, <1>5, <1>8, <1>9, <2>1, <2>2 DEF Placed
<1>11. Family'
  <2>1. ParentsWait'
    <3> SUFFICES ASSUME NEW d \in alive, d # r, following[d] # None
                 PROVE  \/ following[d] \in blocked \ {follower} /\ mode[following[d]] = "concat"
                        \/ following[d] \in refused
      BY <1>1 DEF ParentsWait
    <3>1. \/ following[d] \in blocked /\ mode[following[d]] = "concat"
          \/ following[d] \in refused
      BY DEF Family, ParentsWait
    <3>2. following[d] = follower => following[d] \in refused
      BY <1>2 DEF Family, follower
    <3> QED
      BY <3>1, <3>2
  <2>2. \A d1, d2 \in alive' : following'[d1] = following'[d2] /\ d1 # d2 =>
                                following'[d1] = None \/ following'[d1] \in refused'
    BY <1>1 DEF Family
  <2>3. \A d \in blocked' : mode'[d] = "concat" => \E k \in alive' : following'[k] = d
    <3> SUFFICES ASSUME NEW d \in blocked, d # follower, mode[d] = "concat"
                 PROVE  \E k \in alive \ {r} : following[k] = d
      BY <1>1
    <3>1. PICK k \in alive : following[k] = d
      BY DEF Family
    <3>2. k # r
      BY <3>1 DEF follower
    <3> QED
      BY <3>1, <3>2
  <2>4. \A d \in Coro : body'[d] = None => following'[d] = None
    BY <1>1 DEF Family
  <2>5. following' \in [Coro -> Coro \cup {None}] /\ \A d \in Coro : following'[d] # d
    BY <1>1 DEF Family
  <2> QED
    BY <2>1, <2>2, <2>3, <2>4, <2>5 DEF Family
<1>12. r \in recv => r \in refused
  BY <1>2 DEF Calls
<1>13. Calls'
  BY <1>1, <1>2, <1>12 DEF Calls
<1>14. Turns'
  <2>1. resched' \subseteq Runnable'
    BY <1>1, <1>2, <1>8 DEF Turns
  <2> QED
    BY <1>1, <2>1 DEF Turns
<1>15. Sent'
  <2>1. mailbox \in [Coro -> Seq(Message)]
    BY DEF Sent
  <2>2. /\ mailbox' \in [Coro -> Seq(Message)]
        /\ \A d \in Coro : Range(mailbox'[d]) \subseteq Range(mailbox[d])
        /\ body[r] \in Careful => Range(mailbox'[r]) = {}
    <3>1. CASE body[r] \in Careful
      <4>1. <<>> \in Seq(Message) /\ Range(<<>>) = {}
        BY EmptyFacts
      <4>2. mailbox' = [mailbox EXCEPT ![r] = <<>>]
        BY <1>1, <3>1 DEF Cleaned
      <4>3. mailbox'[r] = <<>> /\ \A d \in Coro : d # r => mailbox'[d] = mailbox[d]
        BY <1>2, <2>1, <4>2
      <4>4. \A d \in Coro : Range(mailbox'[d]) \subseteq Range(mailbox[d])
        BY <4>1, <4>3
      <4>5. mailbox' \in [Coro -> Seq(Message)]
        BY <1>2, <2>1, <4>1, <4>2
      <4> QED
        BY <4>1, <4>3, <4>4, <4>5
    <3>2. CASE body[r] \notin Careful
      BY <1>1, <2>1, <3>2 DEF Cleaned
    <3> QED
      BY <3>1, <3>2
  <2>3. \A d \in Coro : \A m \in Range(mailbox[d]) : m \in Message
    BY <2>1 DEF Range
  <2>4. \A d \in Coro : \A m \in Range(mailbox'[d]) : Kept(m)'
    <3> SUFFICES ASSUME NEW d \in Coro, NEW m \in Range(mailbox'[d]),
                        origin[m] = 0, meant[m] \in Careful
                 PROVE  Dst[m] \in alive' /\ body[Dst[m]] = meant[m]
      BY <1>1, <1>5 DEF Kept
    <3>1. m \in Range(mailbox[d])
      BY <2>2
    <3>2. Dst[m] = d /\ Dst[m] \in alive /\ body[Dst[m]] = meant[m]
      BY <3>1 DEF Sent, Kept
    <3>3. d # r
      BY <2>2, <3>2
    <3> QED
      BY <1>1, <3>2, <3>3
  <2>5. \A d \in Coro : \A m \in Range(mailbox'[d]) :
           Dst[m] = d /\ origin'[m] # None /\ Kept(m)'
    BY <1>5, <2>2, <2>4 DEF Sent
  <2>6. \A p \in Carrier : Waiting(p)' = Waiting(p)
    BY <1>5 DEF Waiting
  <2> QED
    BY <1>1, <1>5, <2>2, <2>5, <2>6 DEF Sent
<1> QED
  BY <1>6, <1>10, <1>11, <1>13, <1>14, <1>15

\* What is buried is the head of dying_queue, which nothing disturbs in between.
LEMMA DecideKeepsLife ==
    ASSUME LifeInv, Decide
    PROVE  LifeInv'
<1> USE DEF LifeInv
<1>1. /\ cpc = "swap" /\ local = <<>> /\ dying # <<>>
      /\ \/ decay[Head(dying)] = 0 /\ cpc' = "bury" /\ dying' = dying
         \/ decay[Head(dying)] # 0 /\ cpc' = "swap" /\ dying' = Tail(dying)
      /\ UNCHANGED <<sharedVars, coroQueue, blocked, running, resched, recv, mode, refused,
                     lifeVars, fd, timer, mailVars, timeout, batch>>
  BY DEF Decide, MayBury, roundVars
<1>2. EntriesOnce' /\ Family' /\ Sent' /\ CarriedOnce' /\ Others'
  BY <1>1, Untouched
     DEF sharedVars, boxVars, sentVars, postVars, lifeVars, mailVars, entryVars, familyVars,
         letterVars, carryVars, otherVars
<1>3. UNCHANGED <<alive, body, pool, heap, decay, named, local>>
      /\ Runnable' = Runnable /\ Unused' = Unused
  BY <1>1 DEF sharedVars, postVars, lifeVars, mailVars, Runnable, Unused
<1>4. Calls'
  BY <1>1, <1>3 DEF Calls
<1>5. Turns'
  BY <1>1, <1>3 DEF Turns
<1>6. Placed'
  <2>1. CASE dying' = dying
    BY <1>1, <1>3, <2>1, Untouched DEF placeVars
  <2>2. CASE decay[Head(dying)] # 0 /\ dying' = Tail(dying)
    <3>1. dying \in Seq(Coro) /\ Once(dying)
      BY DEF Placed
    <3>2. /\ Head(dying) \in Coro /\ dying' \in Seq(Coro) /\ Once(dying')
          /\ Dying' \subseteq Dying
      BY <1>1, <2>2, <3>1, TailFacts DEF Dying
    <3>3. ByName
      BY <2>2, <3>2 DEF Placed
    <3> QED
      BY <1>1, <1>3, <3>2, <3>3 DEF Placed
  <2> QED
    BY <1>1, <2>1, <2>2
<1> QED
  BY <1>2, <1>4, <1>5, <1>6

\* A struct that goes to the pool or the heap is not in the way of a message that a
\* coroutine of this carrier sent: the local mail is dispatched.
LEMMA BuryKeepsLife ==
    ASSUME RaceInv, LifeInv, Bury
    PROVE  LifeInv'
<1> USE DEF LifeInv
<1> DEFINE c == Head(dying)
<1>1. /\ cpc = "bury" /\ cpc' = "swap" /\ dying' = Tail(dying)
      /\ UNCHANGED <<sharedVars, coroQueue, blocked, running, resched, mode, refused, alive,
                     fd, timer, mailVars, timeout, batch>>
      /\ local = <<>> /\ dying # <<>>
  BY DEF Bury, roundVars, Turns
<1>2. /\ c \in Coro /\ Dying = Dying' \cup {c} /\ c \notin Dying' /\ c \in Dying
      /\ dying' \in Seq(Coro) /\ Once(dying')
  <2>1. dying \in Seq(Coro) /\ Once(dying)
    BY DEF Placed
  <2> QED
    BY <1>1, <2>1, TailFacts DEF Dying
<1>3. c \notin alive /\ c \notin Unused
  BY <1>2 DEF Placed
<1>4. UNCHANGED <<buffers, origin, meant, fresh, lock, ppc, pitem, named, decay, mailbox, local,
                  dispatched>>
      /\ Runnable' = Runnable
  BY <1>1 DEF sharedVars, boxVars, sentVars, postVars, mailVars, Runnable
<1>5. Others' /\ CarriedOnce'
  BY <1>1, <1>4, Untouched DEF carryVars, otherVars
<1>6. Turns'
  BY <1>1, <1>4 DEF Turns
<1>7. /\ body' = [body EXCEPT ![c] = None] /\ recv' = recv \ {c}
      /\ following' = [following EXCEPT ![c] = None]
  BY DEF Bury, Unfollowed
<1>8. \/ Len(pool) < PoolCap /\ pool' = Append(pool, c) /\ heap' = heap
      \/ heap' = heap \cup {c} /\ pool' = pool
  BY DEF Bury
<1> HIDE DEF c
<1>9. /\ pool \in Seq(Coro) /\ Once(pool) /\ Len(pool) <= PoolCap /\ Range(pool) \cap heap = {}
      /\ heap \subseteq Coro /\ c \notin Range(pool) /\ c \notin heap
  BY <1>3 DEF Placed, Unused
<1>10. /\ pool' \in Seq(Coro) /\ Once(pool') /\ Len(pool') <= PoolCap
       /\ Range(pool') \cap heap' = {} /\ heap' \subseteq Coro /\ Unused' = Unused \cup {c}
  <2>1. CASE Len(pool) < PoolCap /\ pool' = Append(pool, c) /\ heap' = heap
    <3>1. /\ Append(pool, c) \in Seq(Coro) /\ Range(Append(pool, c)) = Range(pool) \cup {c}
          /\ Once(Append(pool, c)) <=> Once(pool) /\ c \notin Range(pool)
      BY <1>2, <1>9, AppendFacts
    <3>2. Len(pool') <= PoolCap
      <4>1. Len(pool) \in Nat /\ Len(Append(pool, c)) = Len(pool) + 1
        BY <1>2, <1>9
      <4> QED
        BY <2>1, <4>1, P7Assumption
    <3> QED
      BY <1>9, <2>1, <3>1, <3>2 DEF Unused
  <2>2. CASE heap' = heap \cup {c} /\ pool' = pool
    BY <1>2, <1>9, <2>2 DEF Unused
  <2> QED
    BY <1>8, <2>1, <2>2
<1>11. body'[c] = None /\ \A d \in Coro : d # c => body'[d] = body[d]
  BY <1>2, <1>7 DEF EntriesOnce
<1>12. following'[c] = None /\ \A d \in Coro : d # c => following'[d] = following[d]
  BY <1>2, <1>7 DEF Family
<1>13. Placed'
  <2>1. \A d \in Coro : body'[d] = None <=> d \in Unused'
    BY <1>10, <1>11 DEF Placed
  <2>2. (alive' \cup Dying') \cap Unused' = {} /\ alive' \cap Dying' = {}
    BY <1>1, <1>2, <1>3, <1>10 DEF Placed
  <2>3. alive' \cup Dying' \cup Unused' = alive \cup Dying \cup Unused
    BY <1>1, <1>2, <1>10
  <2>4. /\ Runnable' \cap blocked' = {} /\ Runnable' \cup blocked' = alive'
        /\ coroQueue' \in Seq(Coro) /\ Once(coroQueue') /\ alive' \subseteq Coro
        /\ decay' \in [Coro -> Int]
    BY <1>1, <1>4 DEF Placed
  <2>5. ~ ByName => /\ named' = {} /\ \A d \in Coro : decay'[d] = 0
                    /\ alive' \cup Dying' \cup Unused' = Coro
    BY <1>4, <2>3 DEF Placed
  <2> QED
    BY <1>2, <1>10, <2>1, <2>2, <2>4, <2>5 DEF Placed
<1>14. EntriesOnce'
  <2>1. body' \in [Coro -> Coro \cup Entry \cup {None}]
    BY <1>2, <1>7 DEF EntriesOnce
  <2>2. Bodies' \subseteq Bodies \cup {None}
    BY <1>11 DEF Bodies
  <2>3. Waiting(Rq)' = Waiting(Rq) /\ \A p \in Carrier : Carrying(p)' <=> Carrying(p)
    BY <1>4 DEF Waiting, Carrying
  <2>4. None \notin fresh /\ None \notin Waiting(Rq) /\ \A p \in Carrier : Carrying(p) => pitem[p] # None
    <3>1. \A s \in 0..1 : None \notin Range(buffers[Rq][s])
      BY NoCoro DEF EntriesOnce, Range
    <3>2. None \notin Waiting(Rq) /\ \A p \in Carrier : Carrying(p) => pitem[p] # None
      BY <3>1, NoCoro DEF Waiting, Carrying
    <3> QED
      BY <3>2, NoCoro DEF RaceInv, PostersTyped
  <2> QED
    BY <1>4, <1>11, <2>1, <2>2, <2>3, <2>4, NoCoro DEF EntriesOnce
<1>15. Family'
  <2>1. \A d \in alive : d \in Coro /\ d # c
    BY <1>3 DEF Placed
  <2>2. following' \in [Coro -> Coro \cup {None}]
    BY <1>2, <1>7 DEF Family
  <2>3. ParentsWait'
    BY <1>1, <1>12, <2>1 DEF Family, ParentsWait
  <2>4. \A d \in blocked : mode[d] = "concat" => \E k \in alive : following'[k] = d
    BY <1>12, <2>1 DEF Family
  <2>5. \A d1, d2 \in alive : following'[d1] = following'[d2] /\ d1 # d2 =>
                               following'[d1] = None \/ following'[d1] \in refused
    BY <1>12, <2>1 DEF Family
  <2>6. \A d \in Coro : /\ following'[d] # d
                        /\ body'[d] = None => following'[d] = None
    BY <1>2, <1>11, <1>12, NoCoro DEF Family
  <2> QED
    BY <1>1, <2>2, <2>3, <2>4, <2>5, <2>6 DEF Family
<1>16. Calls'
  <2>1. \A d \in blocked : d # c
    BY <1>3 DEF Placed
  <2>2. recv' = recv \ {c} /\ batch = {}
    BY <1>1, <1>7 DEF Calls
  <2>3. \A d \in recv' : mode[d] \in {"recv", "iorecv"} \/ d \in refused
    BY <2>2 DEF Calls
  <2>4. \A d \in blocked : mode[d] \in {"recv", "iorecv"} => d \in recv'
    BY <2>1, <2>2 DEF Calls
  <2> QED
    BY <1>1, <2>2, <2>3, <2>4 DEF Calls
<1>17. Sent'
  <2>1. \A m \in Message : Kept(m) => Kept(m)'
    <3>1. \A m \in Message : Dst[m] \in Coro
      BY P7Assumption
    <3> QED
      BY <1>1, <1>3, <1>4, <1>11, <3>1 DEF Kept
  <2>2. \A p \in Carrier : Waiting(p)' = Waiting(p)
    BY <1>4 DEF Waiting
  <2>3. \A d \in Coro : \A m \in Range(mailbox[d]) : m \in Message
    BY DEF Sent, Range
  <2>4. \A m \in Range(local') : FALSE
    BY <1>1, <1>4, EmptyFacts
  <2>5. \A d \in Coro : \A m \in Range(mailbox'[d]) :
           Dst[m] = d /\ origin'[m] # None /\ Kept(m)'
    BY <1>4, <2>1, <2>3 DEF Sent
  <2> QED
    BY <1>4, <2>2, <2>4, <2>5 DEF Sent
<1> QED
  BY <1>5, <1>6, <1>13, <1>14, <1>15, <1>16, <1>17

LEMMA LifeInvNext ==
    ASSUME RaceInv, WakeInv, LifeInv, [Next]_vars
    PROVE  LifeInv'
<1>1. CASE UNCHANGED vars
  BY <1>1, Untouched
     DEF LifeInv, placeVars, entryVars, familyVars, callVars, turnVars, letterVars, carryVars,
         otherVars, vars, sharedVars, boxVars, sentVars, postVars, ownVars, coroVars, queueVars,
         lifeVars, mailVars, loopVars, roundVars
<1>2. CASE Loop
  <2>1. \/ ComputeTimeout \/ TimersDone \/ BeginPipe \/ PipeDone \/ EventsDone \/ SwapBox
        \/ BoxDone \/ ExpireTimer \/ HandleIo \/ ReadPipe \/ TakeRequest \/ DispatchOne
        \/ DispatchLocal \/ Decide \/ Bury \/ Pick \/ Resume
    BY <1>2 DEF Loop
  <2> QED
    BY <2>1, LoopStepsKeepLife, ExpireTimerKeepsLife, HandleIoKeepsLife, ReadPipeKeepsLife,
       TakeRequestKeepsLife, DispatchOneKeepsLife, DispatchLocalKeepsLife, DecideKeepsLife,
       BuryKeepsLife, PickKeepsLife, ResumeKeepsLife
<1>3. CASE EpollReturns \/ EpollTimesOut \/ EpollFails
  BY <1>3, EpollReturnsKeepsLife, LoopStepsKeepLife
<1>4. CASE Leave
  BY <1>4, LoopStepsKeepLife, BlockInRecvKeepsLife, BlockOnIoKeepsLife, EndKeepsLife DEF Leave
<1>5. CASE TakeMessage \/ IoNotifyFails \/ SendLocal \/ CreateLocal \/ Concat
           \/ WakeTheDead \/ WakeDeadParent
  BY <1>5, TakeMessageKeepsLife, IoNotifyFailsKeepsLife, SendLocalKeepsLife,
     CreateLocalKeepsLife, ConcatKeepsLife, LoopStepsKeepLife
<1>6. ASSUME NEW p \in Carrier, BeginSend(p) \/ FindName(p) \/ BeginRequest(p) \/ Post(p)
      PROVE  LifeInv'
  BY <1>6, BeginSendKeepsLife, CountKeepsLife, TestStatusKeepsLife, BeginRequestKeepsLife,
     SetAndClearBusyKeepLife, AddTailKeepsLife DEF Post
<1>7. ASSUME NEW c \in Coro, BecomesReady(c) \/ Elapse(c)
      PROVE  LifeInv'
  BY <1>7, BecomesReadyKeepsLife, ElapseKeepsLife
<1> QED
  BY <1>1, <1>2, <1>3, <1>4, <1>5, <1>6, <1>7 DEF Next

LEMMA LifeInvHolds == Spec => []LifeInv
<1>1. RaceInv /\ WakeInv /\ LifeInv /\ [Next]_vars => LifeInv'
  BY LifeInvNext
<1> QED
  BY <1>1, LifeInvInit, RaceInvHolds, WakeInvHolds, PTL DEF Spec

-----------------------------------------------------------------------------
LEMMA LifeInvTyped ==
    ASSUME RaceInv, WakeInv, LifeInv
    PROVE  TypeOK
<1>1. /\ index \in [Box -> 0..3] /\ fresh \subseteq Entry /\ named \subseteq Carrier
      /\ ppc \in [Carrier -> Stages]
      /\ pitem \in [Carrier -> Message \cup Entry \cup {None}]
  BY DEF RaceInv, PostersTyped
<1>2. /\ buffers \in [Box -> [0..1 -> Seq(Message \cup Entry)]]
      /\ pipe \in Seq(Coro \cup {None}) /\ cursor \in 0 .. NCarriers
  BY DEF WakeInv, WakeTyped
<1>3. /\ coroQueue \in Seq(Coro) /\ dying \in Seq(Coro) /\ pool \in Seq(Coro)
      /\ alive \subseteq Coro /\ heap \subseteq Coro /\ blocked \subseteq Coro
      /\ Runnable \subseteq Coro /\ decay \in [Coro -> Int]
  BY DEF LifeInv, Placed
<1>4. /\ body \in [Coro -> Coro \cup Entry \cup {None}]
      /\ following \in [Coro -> Coro \cup {None}]
  BY DEF LifeInv, EntriesOnce, Family
<1>5. /\ mode \in [Coro -> {"run", "recv", "io", "iorecv", "concat"}]
      /\ fd \in [Coro -> {"none", "watched", "ready", "reported"}]
      /\ timer \in [Coro -> {"none", "armed", "due", "triggered"}]
      /\ recv \subseteq Coro /\ refused \subseteq Coro /\ batch \subseteq Coro \cup {Pipe}
  BY DEF LifeInv, Calls
<1>6. /\ cpc \in {"timeout", "sleep", "expire", "events", "pipe", "swap", "drain", "bury",
                  "resume", "run", "stuck", "astray"}
      /\ running \in Coro \cup {None} /\ resched \subseteq Coro
  BY <1>3 DEF LifeInv, Turns
<1>7. /\ origin \in [Message -> Box \cup {None}]
      /\ meant \in [Message -> Coro \cup Entry \cup {None}]
      /\ mailbox \in [Coro -> Seq(Message)] /\ local \in Seq(Message)
  BY DEF LifeInv, Sent
<1>8. /\ lock \in Carrier \cup {None} /\ timeout \in {"now", "timer", "ever"}
      /\ dispatched \in Seq(Message)
  BY DEF LifeInv, Others
<1> QED
  BY <1>1, <1>2, <1>3, <1>4, <1>5, <1>6, <1>7, <1>8 DEF TypeOK

\* However many coroutines, carriers, descriptors and timers there are, and up to the
\* step at which the code goes astray, each struct p7_coro is in one place and runs
\* what it runs alone, what is blocked by the calls of p7impl.c can be woken by what
\* the call waits for, and p7_coro_concat waits for the end of the child unless the
\* parent was once refused a descriptor.
THEOREM CoroutinesPlaced == Spec => []QueuesConsistent
<1>1. RaceInv /\ WakeInv /\ LifeInv => QueuesConsistent
  <2> SUFFICES ASSUME RaceInv, WakeInv, LifeInv PROVE QueuesConsistent
    OBVIOUS
  <2>1. TypeOK
    BY LifeInvTyped
  <2>2. StructsPlaced
    BY DEF LifeInv, Placed, StructsPlaced, Runnable, Dying, Unused
  <2>3. /\ ParentsWait
        /\ \A c \in blocked : mode[c] = "concat" => \E d \in alive : following[d] = c
    BY DEF LifeInv, Family
  <2>4. \A c, d \in Coro : body[c] = body[d] /\ c # d => body[c] = None
    BY DEF LifeInv, EntriesOnce
  <2>5. /\ resched \subseteq Range(coroQueue)
        /\ running # None => running \in Range(coroQueue)
        /\ cpc \in {"resume", "run"} => running = Head(coroQueue)
    BY DEF LifeInv, Turns, Runnable
  <2>6. \A c \in blocked :
          /\ mode[c] \in {"recv", "iorecv"} => c \in recv
          /\ mode[c] \in {"io", "iorecv"} => fd[c] \in {"watched", "ready"} \/ c \in batch
          /\ mode[c] # "run"
    BY DEF LifeInv, Calls
  <2> QED
    BY <2>1, <2>2, <2>3, <2>4, <2>5, <2>6 DEF QueuesConsistent
<1> QED
  BY <1>1, LifeInvHolds, RaceInvHolds, WakeInvHolds, PTL

\* Mail between the coroutines of one carrier is dispatched while its receiver's
\* struct serves nobody else, for sched_loop empties localbox before it empties
\* dying_queue; what a coroutine with a mailbox cleaner was sent does not outlive it.
THEOREM LocalMailKept == Spec => []LocalMailKeepsLife
<1>1. LifeInv => LocalMailKeepsLife
  <2> SUFFICES ASSUME LifeInv, NEW m \in Message, origin[m] = 0
               PROVE  /\ m \in Range(local) => body[Dst[m]] = meant[m]
                      /\ m \in Range(mailbox[Dst[m]]) /\ meant[m] \in Careful =>
                             body[Dst[m]] = meant[m]
    BY DEF LocalMailKeepsLife
  <2>1. Dst[m] \in Coro
    BY P7Assumption
  <2> QED
    BY <2>1 DEF LifeInv, Sent, Kept
<1> QED
  BY <1>1, LifeInvHolds, PTL

(***************************************************************************)
(* Each box of another carrier is a mailbox.                                *)
(***************************************************************************)
\* The origin of a message is written when its sender begins, and not again: what
\* LifeInv says of it, in one place, and that only what was sent is dispatched.
Known == \A m \in Range(dispatched) : origin[m] # None

Letters ==
    /\ origin \in [Message -> Box \cup {None}]
    /\ local \in Seq(Message) /\ dispatched \in Seq(Message)
    /\ \A p \in Carrier, s \in 0..1 : buffers[p][s] \in Seq(Message)
    /\ \A p \in Carrier, m \in Message :
          /\ Posts(p) /\ pitem[p] = m => origin[m] = p
          /\ ppc[p] = "counted" /\ pitem[p] = m => origin[m] = None
          /\ m \in Waiting(p) => origin[m] = p
    /\ \A m \in Range(local) : origin[m] = 0
    /\ Known

MailInv == RaceInv /\ WakeInv /\ LifeInv /\ Letters

LEMMA LettersKnown == LifeInv /\ Known => Letters
BY DEF LifeInv, Sent, CarriedOnce, Others, Letters

LEMMA CarrierIsBox ==
    ASSUME NEW p \in Carrier
    PROVE  p \in Box /\ p # Rq /\ p # 0 /\ p # None
BY P7Assumption DEF Carrier, Box, Rq

LEMMA MailTyped ==
    ASSUME MailInv, NEW p \in Carrier
    PROVE  /\ Side(index[p]) \in 0..1 /\ OtherSide(index[p]) \in 0..1
           /\ Side(index[p]) # OtherSide(index[p])
           /\ DeliveredFrom(p) \in Seq(Message)
<1>1. index[p] \in 0..3 /\ dispatched \in Seq(Message)
  BY CarrierIsBox DEF MailInv, RaceInv, PostersTyped, Letters
<1> QED
  BY <1>1, IndexFacts, OnlyFacts DEF DeliveredFrom

LEMMA LettersInit ==
    ASSUME Init
    PROVE  Letters /\ \A p \in Carrier : Mail(p)!MailboxInit
<1>1. \A p \in Carrier : index[p] = 0 /\ ppc[p] = "idle" /\ \A s \in 0..1 : buffers[p][s] = <<>>
  BY CarrierIsBox DEF Init
<1>2. \A p \in Carrier : Waiting(p) = {} /\ OtherSide(index[p]) \in 0..1 /\ Side(index[p]) \in 0..1
  <2> TAKE p \in Carrier
  <2>1. index[p] \in 0..3
    BY <1>1
  <2> QED
    BY <1>1, <2>1, IndexFacts, EmptyFacts DEF Waiting
<1>3. dispatched = <<>> /\ local = <<>> /\ origin \in [Message -> Box \cup {None}]
  BY DEF Init
<1>4. Letters
  <2>1. Known
    BY <1>3, EmptyFacts DEF Known
  <2> QED
    BY <2>1, LifeInvInit, LettersKnown
<1>5. \A p \in Carrier : DeliveredFrom(p) = <<>>
  BY <1>3, OnlyEmpty DEF DeliveredFrom
<1>6. \A p \in Carrier : AcceptedBy(p) = <<>>
  BY <1>1, <1>2, <1>5 DEF AcceptedBy
<1> QED
  BY <1>4, <1>5, <1>6 DEF Mail!MailboxInit

\* A step that leaves the lists alone.
LEMMA MailStays ==
    ASSUME MailInv, UNCHANGED <<origin, dispatched>>,
           \A p \in Carrier : buffers'[p] = buffers[p] /\ Side(index'[p]) = Side(index[p])
    PROVE  \A p \in Carrier : UNCHANGED Mail(p)!mailboxVars
<1> TAKE p \in Carrier
<1>1. DeliveredFrom(p)' = DeliveredFrom(p)
  BY DEF DeliveredFrom
<1>2. AcceptedBy(p)' = AcceptedBy(p)
  BY <1>1 DEF AcceptedBy, OtherSide
<1> QED
  BY <1>1, <1>2 DEF Mail!mailboxVars

\* Most steps of the carrier.
LEMMA QuietMails ==
    ASSUME MailInv,
           \/ ComputeTimeout \/ ExpireTimer \/ TimersDone \/ HandleIo \/ BeginPipe
           \/ ReadPipe \/ PipeDone \/ EventsDone \/ TakeRequest
           \/ BoxDone \/ Decide \/ Bury \/ Pick \/ Resume
           \/ EpollReturns \/ EpollTimesOut \/ EpollFails \/ Leave \/ TakeMessage \/ IoNotifyFails
           \/ CreateLocal \/ Concat \/ WakeTheDead \/ WakeDeadParent
           \/ (\E c \in Coro : BecomesReady(c) \/ Elapse(c)) \/ UNCHANGED vars
    PROVE  Known' /\ \A p \in Carrier : UNCHANGED Mail(p)!mailboxVars
<1>1. /\ UNCHANGED <<index, origin, dispatched>>
      /\ \A p \in Carrier : buffers'[p] = buffers[p]
  <2> USE DEF sharedVars, sentVars, boxVars, coroVars, mailVars, ownVars, vars
  <2>1. CASE \/ ComputeTimeout \/ ExpireTimer \/ TimersDone \/ HandleIo \/ BeginPipe
             \/ ReadPipe \/ PipeDone \/ EventsDone
    BY <2>1 DEF ComputeTimeout, ExpireTimer, TimersDone, HandleIo, BeginPipe, ReadPipe,
                PipeDone, EventsDone
  <2>2. CASE BoxDone \/ Decide \/ Bury \/ Pick \/ Resume
    BY <2>2 DEF BoxDone, Decide, Bury, Pick, Resume
  <2>3. CASE TakeRequest
    <3>1. /\ buffers' = [buffers EXCEPT ![Rq][OtherSide(index[Rq])] = Tail(@)]
          /\ UNCHANGED <<index, origin, dispatched>>
      BY <2>3 DEF TakeRequest
    <3> QED
      BY <3>1, CarrierIsBox DEF MailInv, WakeInv, WakeTyped
  <2>4. CASE \/ EpollReturns \/ EpollTimesOut \/ EpollFails \/ TakeMessage \/ IoNotifyFails
             \/ CreateLocal \/ Concat \/ WakeTheDead \/ WakeDeadParent
    BY <2>4 DEF EpollReturns, EpollTimesOut, EpollFails, TakeMessage, IoNotifyFails,
                CreateLocal, Concat, WakeTheDead, WakeDeadParent
  <2>5. CASE (\E c \in Coro : BecomesReady(c) \/ Elapse(c)) \/ UNCHANGED vars
    BY <2>5 DEF BecomesReady, Elapse
  <2>6. CASE Leave
    BY <2>6 DEF Leave, Yield, BlockInRecv, BlockOnIo, End
  <2> QED
    BY <2>1, <2>2, <2>3, <2>4, <2>5, <2>6
<1>2. Known'
  BY <1>1 DEF MailInv, Letters, Known
<1> QED
  BY <1>1, <1>2, MailStays

\* The posters' steps that neither stamp a message nor add it to a list.
LEMMA PostersMail ==
    ASSUME MailInv, NEW p \in Carrier,
           \/ BeginRequest(p) \/ FindName(p) \/ CountIn(p) \/ SetBusy(p) \/ ClearBusy(p)
           \/ WritePipe(p) \/ CountOut(p)
    PROVE  Known' /\ \A q \in Carrier : UNCHANGED Mail(q)!mailboxVars
<1>1. /\ UNCHANGED <<buffers, origin, dispatched>>
      /\ \A b \in Box : index'[b] \in {index[b], WithBusy(index[b]), NoBusy(index[b])}
  <2> USE DEF sentVars, boxVars, ownVars, coroVars, mailVars
  <2>1. CASE \/ BeginRequest(p) \/ FindName(p) \/ CountIn(p) \/ WritePipe(p) \/ CountOut(p)
    BY <2>1 DEF BeginRequest, FindName, CountIn, WritePipe, CountOut
  <2>2. CASE SetBusy(p) \/ ClearBusy(p)
    BY <2>2, BoxOfIsBox DEF SetBusy, ClearBusy, MailInv, RaceInv, PostersTyped
  <2> QED
    BY <2>1, <2>2
<1>2. \A b \in Box : Side(index'[b]) = Side(index[b])
  <2>1. \A b \in Box : index[b] \in 0..3
    BY DEF MailInv, RaceInv, PostersTyped
  <2> QED
    BY <1>1, <2>1, IndexFacts
<1>3. Known'
  BY <1>1 DEF MailInv, Letters, Known
<1> QED
  BY <1>1, <1>2, <1>3, CarrierIsBox, MailStays

\* A message without an origin has not been dispatched: to stamp it changes no
\* mailbox.
LEMMA OriginIsNew ==
    ASSUME MailInv, NEW m \in Message, origin[m] = None, NEW b \in Box,
           origin' = [origin EXCEPT ![m] = b], UNCHANGED <<index, buffers, dispatched>>
    PROVE  Known' /\ \A p \in Carrier : UNCHANGED Mail(p)!mailboxVars
<1>1. m \notin Range(dispatched)
  BY DEF MailInv, Letters, Known
<1>2. \A n \in Message : origin'[n] = IF n = m THEN b ELSE origin[n]
  BY DEF MailInv, Letters
<1>3. ASSUME NEW p \in Carrier PROVE UNCHANGED Mail(p)!mailboxVars
  <2> DEFINE mine == {n \in Message : origin[n] = p}
             now  == {n \in Message : origin'[n] = p}
  <2>1. Range(dispatched) \cap mine = Range(dispatched) \cap now
    BY <1>1, <1>2
  <2>2. Only(dispatched, mine) = Only(dispatched, now)
    <3> HIDE DEF mine, now
    <3> QED
      BY <2>1, OnlySame
  <2>3. DeliveredFrom(p)' = DeliveredFrom(p)
    BY <2>2 DEF DeliveredFrom
  <2> QED
    BY <2>3 DEF Mail!mailboxVars, AcceptedBy
<1>4. Known'
  <2>1. \A n \in Range(dispatched) : n \in Message
    BY DEF MailInv, Letters, Range
  <2> QED
    BY <1>1, <1>2, <2>1 DEF MailInv, Letters, Known
<1> QED
  BY <1>3, <1>4

LEMMA SendMails ==
    ASSUME MailInv, NEW p \in Carrier, BeginSend(p) \/ TestStatus(p)
    PROVE  Known' /\ \A q \in Carrier : UNCHANGED Mail(q)!mailboxVars
<1>1. p \in Box /\ UNCHANGED <<index, buffers, dispatched>>
  BY CarrierIsBox DEF BeginSend, TestStatus, boxVars, ownVars, coroVars, mailVars
<1>2. CASE BeginSend(p)
  <2>1. PICK m \in Unsent : origin' = [origin EXCEPT ![m] = p]
    BY <1>2 DEF BeginSend
  <2> QED
    BY <1>1, <2>1, OriginIsNew DEF Unsent
<1>3. CASE TestStatus(p)
  <2>1. ppc[p] = "counted" /\ pitem[p] \in Message
    BY <1>3 DEF TestStatus, MailInv, RaceInv, NamedCarry
  <2>2. origin[pitem[p]] = None
    BY <2>1 DEF MailInv, Letters
  <2>3. CASE origin' = [origin EXCEPT ![pitem[p]] = p]
    BY <1>1, <2>1, <2>2, <2>3, OriginIsNew
  <2>4. CASE UNCHANGED origin
    <3>1. Known'
      BY <1>1, <2>4 DEF MailInv, Letters, Known
    <3> QED
      BY <1>1, <2>4, <3>1, MailStays
  <2> QED
    BY <1>3, <2>3, <2>4 DEF TestStatus
<1> QED
  BY <1>2, <1>3

LEMMA SendLocalMails ==
    ASSUME MailInv, SendLocal
    PROVE  Known' /\ \A q \in Carrier : UNCHANGED Mail(q)!mailboxVars
<1>1. PICK m \in Unsent : origin' = [origin EXCEPT ![m] = 0]
  BY DEF SendLocal
<1>2. UNCHANGED <<index, buffers, dispatched>> /\ 0 \in Box
  BY P7Assumption DEF SendLocal, boxVars, Box
<1> QED
  BY <1>1, <1>2, OriginIsNew DEF Unsent

\* The list_add_tail of a poster accepts its message.
LEMMA AddTailMails ==
    ASSUME MailInv, NEW p \in Carrier, AddTail(p)
    PROVE  /\ Known'
           /\ \A q \in Carrier : [Mail(q)!MailboxNext]_(Mail(q)!mailboxVars)
<1> DEFINE box  == BoxOf(p)
           side == IF ppc[p] = "add0" THEN 0 ELSE 1
<1>1. /\ ppc[p] \in {"add0", "add1"} /\ ppc' = [ppc EXCEPT ![p] = "clear"]
      /\ buffers' = [buffers EXCEPT ![box][side] = Append(@, pitem[p])]
      /\ UNCHANGED <<index, pitem, origin, local, dispatched>>
  BY DEF AddTail, sentVars, ownVars, coroVars, mailVars
<1>2. /\ box \in Box /\ side = Side(index[box]) /\ side \in 0..1 /\ index[box] \in 0..3
      /\ pitem[p] \in Message \cup Entry
  BY <1>1, BoxOfIsBox
     DEF MailInv, RaceInv, PostersTyped, SideIsKept, WakeInv, HasItem
<1>3. Known'
  BY <1>1 DEF MailInv, Letters, Known
<1>4. CASE pitem[p] \in Entry
  <2>1. box = Rq
    BY <1>4 DEF BoxOf
  <2>2. \A q \in Carrier : buffers'[q] = buffers[q]
    BY <1>1, <2>1, CarrierIsBox DEF MailInv, WakeInv, WakeTyped
  <2> QED
    BY <1>1, <1>3, <2>2, MailStays
<1>5. CASE pitem[p] \notin Entry
  <2>1. box = p /\ pitem[p] \in Message /\ origin[pitem[p]] = p /\ p \in Box
    BY <1>1, <1>2, <1>5, CarrierIsBox DEF BoxOf, MailInv, Letters, Posts, InBox
  <2>2. /\ buffers'[p][side] = Append(buffers[p][side], pitem[p])
        /\ \A t \in 0..1 : t # side => buffers'[p][t] = buffers[p][t]
        /\ \A q \in Carrier : q # p => buffers'[q] = buffers[q]
    BY <1>1, <1>2, <2>1, CarrierIsBox DEF MailInv, WakeInv, WakeTyped
  <2>3. /\ OtherSide(index[p]) \in 0..1 /\ OtherSide(index[p]) # side
        /\ \A t \in 0..1 : buffers[p][t] \in Seq(Message)
        /\ DeliveredFrom(p) \in Seq(Message) /\ side = Side(index[p])
    BY <1>2, <2>1, MailTyped DEF MailInv, Letters
  <2>4. side \in 0..1 /\ buffers[p][side] \in Seq(Message) /\ pitem[p] \in Message
    BY <1>2, <2>1, <2>3
  <2> HIDE DEF box, side
  <2>5. /\ Append(buffers[p][side], pitem[p]) \in Seq(Message)
        /\ Range(buffers'[p][side]) = Range(buffers[p][side]) \cup {pitem[p]}
    BY <2>2, <2>4, AppendFacts
  <2>7. \A q \in Carrier : DeliveredFrom(q)' = DeliveredFrom(q)
    BY <1>1 DEF DeliveredFrom
  <2>8. AcceptedBy(p)' = Append(AcceptedBy(p), pitem[p])
    <3> DEFINE d == DeliveredFrom(p)  o == buffers[p][OtherSide(index[p])]  w == buffers[p][side]
    <3>1. d \in Seq(Message) /\ o \in Seq(Message) /\ w \in Seq(Message)
      BY <1>2, <2>3
    <3>2. AcceptedBy(p) = (d \o o) \o w
      BY <2>3 DEF AcceptedBy
    <3>3. AcceptedBy(p)' = (d \o o) \o Append(w, pitem[p])
      BY <1>1, <2>2, <2>3, <2>7 DEF AcceptedBy
    <3> HIDE DEF d, o, w
    <3>4. d \o o \in Seq(Message)
      BY <3>1, ConcatProperties
    <3> QED
      BY <2>1, <3>1, <3>2, <3>3, <3>4, ConcatAppend
  <2>9. Mail(p)!Accept(pitem[p])
    BY <1>1, <2>7, <2>8 DEF Mail!Accept
  <2>10. \A q \in Carrier : q # p => UNCHANGED Mail(q)!mailboxVars
    BY <1>1, <2>2, <2>7 DEF Mail!mailboxVars, AcceptedBy
  <2> QED
    BY <1>3, <2>1, <2>9, <2>10 DEF Mail!MailboxNext
<1> QED
  BY <1>4, <1>5

\* The swap renames the two lists, of which the carrier's is empty.
LEMMA SwapBoxMails ==
    ASSUME MailInv, SwapBox
    PROVE  Known' /\ \A q \in Carrier : UNCHANGED Mail(q)!mailboxVars
<1>1. /\ cpc = "swap" /\ cursor \in Box
      /\ index' = [index EXCEPT ![cursor] = Swapped(cursor)]
      /\ UNCHANGED <<buffers, origin, ppc, pitem, local, dispatched>>
  BY P7Assumption
     DEF SwapBox, MailInv, WakeInv, WakeTyped, Box, sentVars, postVars, coroVars, mailVars
<1>2. Known'
  BY <1>1 DEF MailInv, Letters, Known
<1>3. ASSUME NEW q \in Carrier PROVE UNCHANGED Mail(q)!mailboxVars
  <2>1. index \in [Box -> 0..3] /\ q \in Box /\ index[q] \in 0..3
    BY CarrierIsBox DEF MailInv, RaceInv, PostersTyped
  <2>2. DeliveredFrom(q)' = DeliveredFrom(q)
    BY <1>1 DEF DeliveredFrom
  <2>3. CASE index'[q] = index[q]
    BY <1>1, <2>2, <2>3 DEF Mail!mailboxVars, AcceptedBy
  <2>4. CASE index'[q] # index[q]
    <3>1. CanSwap(index[q]) /\ index'[q] = OtherSide(index[q])
      BY <1>1, <2>1, <2>4 DEF Swapped
    <3>2. Side(index'[q]) = OtherSide(index[q]) /\ OtherSide(index'[q]) = Side(index[q])
      BY <2>1, <3>1, IndexFacts
    <3>3. buffers[q][OtherSide(index[q])] = <<>>
      BY <1>1, <2>1 DEF MailInv, WakeInv, TakenToTheEnd
    <3> DEFINE d == DeliveredFrom(q)  w == buffers[q][Side(index[q])]
    <3>4. d \in Seq(Message) /\ w \in Seq(Message)
      BY MailTyped DEF MailInv, Letters
    <3>5. AcceptedBy(q) = (d \o <<>>) \o w
      BY <3>3 DEF AcceptedBy
    <3>6. AcceptedBy(q)' = (d \o w) \o <<>>
      BY <1>1, <2>2, <3>2, <3>3 DEF AcceptedBy
    <3>7. AcceptedBy(q)' = AcceptedBy(q)
      <4> HIDE DEF d, w
      <4>1. d \o w \in Seq(Message) /\ d \o <<>> = d /\ (d \o w) \o <<>> = d \o w
        BY <3>4, ConcatProperties, ConcatEmptySeq
      <4> QED
        BY <3>5, <3>6, <4>1
    <3> QED
      BY <2>2, <3>7 DEF Mail!mailboxVars
  <2> QED
    BY <2>3, <2>4
<1> QED
  BY <1>2, <1>3

\* mailbox_dispatch delivers.
LEMMA DispatchOneMails ==
    ASSUME MailInv, DispatchOne
    PROVE  /\ Known'
           /\ \A q \in Carrier : [Mail(q)!MailboxNext]_(Mail(q)!mailboxVars)
<1> DEFINE mine == OtherSide(index[cursor])
           m    == Head(buffers[cursor][mine])
<1>1. /\ cpc = "drain" /\ cursor # Rq /\ buffers[cursor][mine] # <<>>
      /\ buffers' = [buffers EXCEPT ![cursor][mine] = Tail(@)]
      /\ dispatched' = Append(dispatched, m)
      /\ UNCHANGED <<index, ppc, pitem, origin, local>>
  BY DEF DispatchOne, Dispatched, sentVars, postVars
<1>2. cursor \in Carrier /\ cursor \in Box
  BY <1>1, P7Assumption DEF MailInv, WakeInv, TakenToTheEnd, Box, Carrier, Rq
<1>3. /\ mine \in 0..1 /\ Side(index[cursor]) \in 0..1 /\ Side(index[cursor]) # mine
      /\ \A t \in 0..1 : buffers[cursor][t] \in Seq(Message)
      /\ DeliveredFrom(cursor) \in Seq(Message) /\ dispatched \in Seq(Message)
  BY <1>2, MailTyped DEF MailInv, Letters
<1>4. /\ m \in Message /\ m \in Range(buffers[cursor][mine])
      /\ Tail(buffers[cursor][mine]) \in Seq(Message)
      /\ Range(Tail(buffers[cursor][mine])) \subseteq Range(buffers[cursor][mine])
  BY <1>1, <1>3, TailFacts
<1>5. /\ buffers'[cursor][mine] = Tail(buffers[cursor][mine])
      /\ \A t \in 0..1 : t # mine => buffers'[cursor][t] = buffers[cursor][t]
      /\ \A q \in Carrier : q # cursor => buffers'[q] = buffers[q]
  BY <1>1, <1>2, <1>3, CarrierIsBox DEF MailInv, WakeInv, WakeTyped
<1>6. m \in Waiting(cursor)
  BY <1>3, <1>4 DEF Waiting
<1>7. origin[m] = cursor /\ cursor # None
  BY <1>2, <1>4, <1>6, CarrierIsBox DEF MailInv, Letters
<1> HIDE DEF m, mine
<1>8. Known'
  <2>1. Range(dispatched') = Range(dispatched) \cup {m}
    BY <1>1, <1>3, <1>4, AppendFacts
  <2> QED
    BY <1>1, <1>7, <2>1 DEF MailInv, Letters, Known
<1>9. ASSUME NEW q \in Carrier
      PROVE  DeliveredFrom(q)' = IF q = cursor THEN Append(DeliveredFrom(q), m)
                                               ELSE DeliveredFrom(q)
  <2> DEFINE own == {n \in Message : origin[n] = q}
  <2>1. m \in own <=> q = cursor
    BY <1>4, <1>7
  <2>2. Only(dispatched', own) =
           IF m \in own THEN Append(Only(dispatched, own), m) ELSE Only(dispatched, own)
    <3> HIDE DEF own
    <3> QED
      BY <1>1, <1>3, <1>4, OnlyAppend
  <2> QED
    BY <1>1, <2>1, <2>2 DEF DeliveredFrom
<1>10. \A q \in Carrier : q # cursor => UNCHANGED Mail(q)!mailboxVars
  BY <1>1, <1>5, <1>9 DEF Mail!mailboxVars, AcceptedBy
<1>11. ASSUME NEW q \in Carrier, q = cursor
       PROVE  Mail(q)!Deliver
  <2> DEFINE d == DeliveredFrom(q)  o == buffers[q][mine]  w == buffers[q][Side(index[q])]
  <2>1. d \in Seq(Message) /\ o \in Seq(Message) /\ w \in Seq(Message) /\ o # <<>>
    BY <1>1, <1>3, <1>11
  <2>2. AcceptedBy(q) = (d \o o) \o w
    BY <1>11 DEF AcceptedBy, mine
  <2>3. DeliveredFrom(q)' = Append(d, Head(o))
    BY <1>9, <1>11 DEF m
  <2>4. AcceptedBy(q)' = (Append(d, Head(o)) \o Tail(o)) \o w
    BY <1>1, <1>3, <1>5, <1>11, <2>3 DEF AcceptedBy, mine
  <2>5. d = DeliveredFrom(q)
    OBVIOUS
  <2> HIDE DEF d, o, w
  <2>6. Append(d, Head(o)) \o Tail(o) = d \o o
    BY <2>1, ConcatMoveHead
  <2>7. Len(d) < Len((d \o o) \o w) /\ ((d \o o) \o w)[Len(d) + 1] = Head(o)
    BY <2>1, ConcatNextElement
  <2> QED
    BY <2>2, <2>3, <2>4, <2>5, <2>6, <2>7 DEF Mail!Deliver
<1> QED
  BY <1>8, <1>10, <1>11 DEF Mail!MailboxNext

\* localbox has no part in the other boxes.
LEMMA DispatchLocalMails ==
    ASSUME MailInv, DispatchLocal
    PROVE  Known' /\ \A q \in Carrier : UNCHANGED Mail(q)!mailboxVars
<1> DEFINE m == Head(local)
<1>1. /\ local # <<>> /\ local' = Tail(local) /\ dispatched' = Append(dispatched, m)
      /\ UNCHANGED <<index, buffers, ppc, pitem, origin>>
  BY DEF DispatchLocal, Dispatched, sharedVars, boxVars, sentVars, postVars
<1>2. local \in Seq(Message) /\ dispatched \in Seq(Message)
  BY DEF MailInv, Letters
<1>3. /\ m \in Message /\ m \in Range(local) /\ Tail(local) \in Seq(Message)
      /\ Range(Tail(local)) \subseteq Range(local)
  BY <1>1, <1>2, TailFacts
<1> HIDE DEF m
<1>4. origin[m] = 0 /\ None # 0
  BY <1>3, P7Assumption DEF MailInv, Letters, Box
<1>5. dispatched' \in Seq(Message) /\ Range(dispatched') = Range(dispatched) \cup {m}
  BY <1>1, <1>2, <1>3, AppendFacts
<1>6. Known'
  BY <1>1, <1>4, <1>5 DEF MailInv, Letters, Known
<1>7. ASSUME NEW q \in Carrier PROVE UNCHANGED Mail(q)!mailboxVars
  <2> DEFINE own == {n \in Message : origin[n] = q}
  <2>1. m \notin own
    BY <1>4, CarrierIsBox
  <2>2. Only(dispatched', own) = Only(dispatched, own)
    <3> HIDE DEF own
    <3> QED
      BY <1>1, <1>2, <1>3, <2>1, OnlyAppend
  <2> QED
    BY <1>1, <2>2 DEF DeliveredFrom, Mail!mailboxVars, AcceptedBy
<1> QED
  BY <1>6, <1>7

\* Every mailbox between two carriers of p7impl.c is a FIFO that loses and repeats
\* nothing, through swaps that fail, and whether its messages reach a coroutine or
\* are destroyed.
THEOREM BoxesRefine == Spec => BoxesAreMailboxes
<1>1. Init => MailInv /\ \A p \in Carrier : Mail(p)!MailboxInit
  BY LettersInit, RaceInvInit, WakeInvInit, LifeInvInit DEF MailInv
<1>2. LifeInv' /\ Known' => Letters'
  BY DEF LifeInv, Sent, CarriedOnce, Others, Letters
<1>3. MailInv /\ [Next]_vars =>
         MailInv' /\ \A p \in Carrier : [Mail(p)!MailboxNext]_(Mail(p)!mailboxVars)
  <2>1. MailInv /\ [Next]_vars => RaceInv' /\ WakeInv' /\ LifeInv'
    BY RaceInvNext, WakeInvNext, LifeInvNext DEF MailInv
  <2> SUFFICES ASSUME MailInv, [Next]_vars
               PROVE  Known' /\ \A p \in Carrier : [Mail(p)!MailboxNext]_(Mail(p)!mailboxVars)
    BY <1>2, <2>1 DEF MailInv
  <2>2. ASSUME NEW p \in Carrier,
               BeginSend(p) \/ FindName(p) \/ BeginRequest(p) \/ Post(p)
        PROVE  Known' /\ \A q \in Carrier : [Mail(q)!MailboxNext]_(Mail(q)!mailboxVars)
    BY <2>2, SendMails, AddTailMails, PostersMail DEF Post
  <2>3. CASE Loop
    BY <2>3, QuietMails, SwapBoxMails, DispatchOneMails, DispatchLocalMails DEF Loop
  <2>4. CASE SendLocal
    BY <2>4, SendLocalMails
  <2>5. CASE \/ EpollReturns \/ EpollTimesOut \/ EpollFails \/ Leave \/ TakeMessage
             \/ IoNotifyFails \/ CreateLocal \/ Concat \/ WakeTheDead \/ WakeDeadParent
             \/ (\E c \in Coro : BecomesReady(c) \/ Elapse(c)) \/ UNCHANGED vars
    BY <2>5, QuietMails
  <2> QED
    BY <2>2, <2>3, <2>4, <2>5 DEF Next
<1>4. MailInv /\ [Next]_vars =>
         [\A p \in Carrier : [Mail(p)!MailboxNext]_(Mail(p)!mailboxVars)]_vars
  BY <1>3
<1> QED
  BY <1>1, <1>3, <1>4, PTL DEF Spec, BoxesAreMailboxes

-----------------------------------------------------------------------------
(***************************************************************************)
(* The note follows the message, where a carrier has one receiver.  While   *)
(* there is neither a note for c nor a poster that will write one, the       *)
(* round that has read the last note is still going to every box in which   *)
(* something lies for c from a carrier that sends to nobody else, and c is   *)
(* not in p7_recv while it is on its way.                                   *)
(***************************************************************************)
Notified(c) == \/ c \in Range(pipe) \/ cpc = "stuck"
               \/ \E p \in Carrier : Posts(p) /\ Note(pitem[p]) = c

Wanted(c) == {m \in Message : Dst[m] = c /\ origin[m] # None /\ ~ SendsElsewhere(m)}

Boxed(c, p)  == Waiting(p) \cap Wanted(c)
Behind(c, p) == Range(buffers[p][Side(index[p])]) \cap Wanted(c)
Here(c)      == Range(local) \cap Wanted(c)
Mailed(c)    == Range(mailbox[c]) \cap Wanted(c)

WillDrain(p) == \/ cpc \in {"events", "pipe", "astray"}
                \/ cpc \in {"swap", "drain"} /\ cursor <= p
WillDispatch == cpc \in {"events", "pipe", "astray", "swap", "drain"}
Drained(p)   == cpc = "drain" /\ cursor = p
InRecv(c)    == c \in blocked /\ mode[c] = "recv"

\* While a box is drained nothing is behind what the carrier takes.
Quiet(c) ==
    /\ \A p \in Carrier : /\ Boxed(c, p) # {} => WillDrain(p)
                          /\ Drained(p) => Behind(c, p) = {}
    /\ Here(c) # {} => WillDispatch
    /\ InRecv(c) => /\ Mailed(c) = {} /\ Here(c) = {}
                    /\ \A p \in Carrier : Boxed(c, p) = {}

NoteInv == \A c \in Coro : Notified(c) \/ Quiet(c)

\* Steps that bring nothing for c.
LEMMA NothingComes ==
    ASSUME NoteInv, NEW c \in Coro, Notified(c) => Notified(c)',
           \A p \in Carrier : /\ Boxed(c, p)' \subseteq Boxed(c, p)
                              /\ WillDrain(p) => WillDrain(p)'
                              /\ Drained(p)' => Drained(p) /\ Behind(c, p)' \subseteq Behind(c, p),
           Here(c)' \subseteq Here(c), Here(c) # {} /\ WillDispatch => WillDispatch',
           InRecv(c)' => InRecv(c) /\ Mailed(c)' \subseteq Mailed(c)
    PROVE  Notified(c)' \/ Quiet(c)'
<1> SUFFICES ASSUME Quiet(c) PROVE Quiet(c)'
  BY DEF NoteInv
<1>1. ASSUME NEW p \in Carrier
      PROVE  /\ Boxed(c, p)' # {} => WillDrain(p)'
             /\ Drained(p)' => Behind(c, p)' = {}
  BY DEF Quiet
<1>2. Here(c)' # {} => WillDispatch'
  BY DEF Quiet
<1>3. InRecv(c)' => /\ Mailed(c)' = {} /\ Here(c)' = {}
                    /\ \A p \in Carrier : Boxed(c, p)' = {}
  BY DEF Quiet
<1> QED
  BY <1>1, <1>2, <1>3 DEF Quiet

\* Steps that leave the boxes alone.
LEMMA NoteStays ==
    ASSUME NoteInv, \A c \in Coro : Notified(c) => Notified(c)', UNCHANGED <<origin, local>>,
           \A p \in Carrier : /\ buffers'[p] = buffers[p]
                              /\ Side(index'[p]) = Side(index[p])
                              /\ WillDrain(p) => WillDrain(p)'
                              /\ Drained(p)' => Drained(p),
           local # <<>> /\ WillDispatch => WillDispatch',
           \A c \in Coro : InRecv(c)' => InRecv(c) /\ mailbox'[c] = mailbox[c]
    PROVE  NoteInv'
<1> SUFFICES ASSUME NEW c \in Coro PROVE Notified(c)' \/ Quiet(c)'
  BY DEF NoteInv
<1>1. Wanted(c)' = Wanted(c)
  BY DEF Wanted, SendsElsewhere
<1>2. \A p \in Carrier : /\ Boxed(c, p)' \subseteq Boxed(c, p)
                         /\ WillDrain(p) => WillDrain(p)'
                         /\ Drained(p)' => Drained(p) /\ Behind(c, p)' \subseteq Behind(c, p)
  BY <1>1 DEF Boxed, Behind, Waiting
<1>3. Here(c)' \subseteq Here(c)
  BY <1>1 DEF Here
<1>4. Here(c) # {} /\ WillDispatch => WillDispatch'
  BY EmptyFacts DEF Here
<1>5. InRecv(c)' => InRecv(c) /\ Mailed(c)' \subseteq Mailed(c)
  BY <1>1 DEF Mailed
<1>6. Notified(c) => Notified(c)'
  OBVIOUS
<1> QED
  BY <1>2, <1>3, <1>4, <1>5, <1>6, NothingComes

\* A message that is stamped is wanted by its receiver alone.
LEMMA StampedWanted ==
    ASSUME NEW m \in Message, origin \in [Message -> Box \cup {None}], origin[m] = None,
           NEW b \in Box, origin' = [origin EXCEPT ![m] = b],
           NEW c \in Coro, c # Dst[m]
    PROVE  Wanted(c)' \subseteq Wanted(c)
<1>1. \A n \in Message : n # m => origin'[n] = origin[n]
  OBVIOUS
<1>2. None \notin Carrier
  BY CarrierIsBox
<1>3. ASSUME NEW n \in Message, n # m, SendsElsewhere(n) PROVE SendsElsewhere(n)'
  <2>1. PICK k \in Message : origin[k] = origin[n] /\ origin[n] \in Carrier /\ Dst[k] # Dst[n]
    BY <1>3 DEF SendsElsewhere
  <2>2. k # m
    BY <1>2, <2>1
  <2>3. origin'[k] = origin[k] /\ origin'[n] = origin[n]
    BY <1>1, <1>3, <2>2
  <2> QED
    BY <2>1, <2>3 DEF SendsElsewhere
<1> QED
  BY <1>1, <1>3 DEF Wanted

\* The loop's own steps, and those of the outside world.
LEMMA LoopKeepsNote ==
    ASSUME NoteInv, WakeInv, LifeInv,
           \/ ComputeTimeout \/ ExpireTimer \/ TimersDone \/ HandleIo \/ BeginPipe
           \/ PipeDone \/ EventsDone \/ Decide \/ Bury \/ Pick \/ Resume
           \/ EpollReturns \/ EpollTimesOut \/ EpollFails \/ WakeTheDead \/ WakeDeadParent
           \/ \E c \in Coro : BecomesReady(c) \/ Elapse(c)
    PROVE  NoteInv'
<1> USE DEF WillDrain, WillDispatch, Drained, InRecv, Notified, Posts, InBox, Note, sharedVars,
            boxVars, sentVars, postVars, coroVars, queueVars, lifeVars, mailVars, loopVars,
            roundVars
<1>1. CASE ComputeTimeout
  BY <1>1, NoteStays DEF ComputeTimeout
<1>2. CASE ExpireTimer
  <2>1. blocked' \subseteq blocked
    BY <1>2 DEF ExpireTimer, Reschedule
  <2> QED
    BY <1>2, <2>1, NoteStays DEF ExpireTimer
<1>3. CASE TimersDone
  BY <1>3, NoteStays DEF TimersDone
<1>4. CASE HandleIo
  <2>1. blocked' \subseteq blocked
    BY <1>4 DEF HandleIo, Reschedule
  <2> QED
    BY <1>4, <2>1, NoteStays DEF HandleIo
<1>5. CASE BeginPipe \/ PipeDone
  BY <1>5, NoteStays DEF BeginPipe, PipeDone
<1>6. CASE EventsDone
  <2>1. \A p \in Carrier : 0 <= p
    BY DEF Carrier
  <2> QED
    BY <1>6, <2>1, NoteStays DEF EventsDone
<1>7. CASE Decide \/ Bury
  <2>1. \A p \in Carrier : ~ (NCarriers <= p)
    BY P7Assumption DEF Carrier
  <2>2. CASE Decide
    BY <2>1, <2>2, NoteStays DEF Decide, MayBury
  <2>3. CASE Bury
    BY <2>3, NoteStays DEF Bury
  <2> QED
    BY <1>7, <2>2, <2>3
<1>8. CASE Pick
  <2>1. \A p \in Carrier : ~ (NCarriers <= p)
    BY P7Assumption DEF Carrier
  <2> QED
    BY <1>8, <2>1, NoteStays DEF Pick
<1>9. CASE Resume
  <2>1. running \notin blocked
    BY <1>9 DEF Resume, LifeInv, Placed, Turns
  <2>2. \A c \in Coro : c # running => mode'[c] = mode[c] /\ mailbox'[c] = mailbox[c]
    BY <1>9 DEF Resume, LifeInv, Calls, Sent
  <2> QED
    BY <1>9, <2>1, <2>2, NoteStays DEF Resume
<1>10. CASE EpollReturns \/ EpollTimesOut \/ EpollFails
  BY <1>10, NoteStays DEF EpollReturns, EpollTimesOut, EpollFails
<1>11. CASE \E c \in Coro : BecomesReady(c) \/ Elapse(c)
  BY <1>11, NoteStays DEF BecomesReady, Elapse
<1>12. CASE WakeTheDead \/ WakeDeadParent
  BY <1>12, NoteStays DEF WakeTheDead, WakeDeadParent
<1> QED
  BY <1>1, <1>2, <1>3, <1>4, <1>5, <1>6, <1>7, <1>8, <1>9, <1>10, <1>11, <1>12

\* The last note moves the receiver from p7_recv to coro_queue.
LEMMA ReadPipeKeepsNote ==
    ASSUME NoteInv, WakeInv, LifeInv, ReadPipe
    PROVE  NoteInv'
<1>1. /\ cpc = "pipe" /\ pipe # <<>> /\ pipe' = Tail(pipe)
      /\ UNCHANGED <<index, buffers, origin, ppc, pitem, mode, mailbox, local, cpc, cursor>>
      /\ IF Head(pipe) \in recv THEN Reschedule(Head(pipe)) ELSE UNCHANGED blocked
  BY DEF ReadPipe, boxVars, sentVars, postVars, mailVars, loopVars, roundVars
<1> SUFFICES ASSUME NEW c \in Coro PROVE Notified(c)' \/ Quiet(c)'
  BY DEF NoteInv
<1>2. blocked' \subseteq blocked
  BY <1>1 DEF Reschedule
<1>3. /\ Wanted(c)' = Wanted(c) /\ Here(c)' = Here(c) /\ Mailed(c)' = Mailed(c)
      /\ \A p \in Carrier : Boxed(c, p)' = Boxed(c, p) /\ WillDrain(p)' /\ ~ Drained(p)'
      /\ WillDispatch'
  BY <1>1 DEF Wanted, SendsElsewhere, Here, Mailed, Boxed, Waiting, WillDrain, Drained,
              WillDispatch
<1>4. CASE c = Head(pipe)
  <2>1. ~ InRecv(c)'
    <3>1. CASE Head(pipe) \in recv
      <4>1. Head(pipe) \in resched => Head(pipe) \notin blocked
        BY DEF LifeInv, Placed, Turns
      <4> QED
        BY <1>1, <1>4, <3>1, <4>1 DEF Reschedule, InRecv
    <3>2. CASE Head(pipe) \notin recv
      BY <1>1, <1>4, <3>2 DEF InRecv, LifeInv, Calls
    <3> QED
      BY <3>1, <3>2
  <2> QED
    BY <1>3, <2>1 DEF Quiet
<1>5. CASE c # Head(pipe)
  <2>1. Notified(c) => Notified(c)'
    <3>1. c \in Range(pipe) => c \in Range(Tail(pipe))
      BY <1>1, <1>5, TailFacts DEF WakeInv, WakeTyped
    <3> QED
      BY <1>1, <3>1 DEF Notified, Posts, InBox, Note
  <2>2. InRecv(c)' => InRecv(c)
    BY <1>1, <1>2 DEF InRecv
  <2>3. Quiet(c) => Quiet(c)'
    BY <1>3, <2>2 DEF Quiet
  <2> QED
    BY <2>1, <2>3 DEF NoteInv
<1> QED
  BY <1>4, <1>5

\* A swap fails when the poster is busy with a message.  Then that is for c as well,
\* if the box has something for c and the poster sends to nobody else.
LEMMA BusyForReceiver ==
    ASSUME RaceInv, WakeInv, LifeInv, NEW c \in Coro, NEW p \in Carrier, Boxed(c, p) # {},
           ~ Notified(c)
    PROVE  CanSwap(index[p])
<1>1. PICK m \in Waiting(p) : m \in Message /\ Dst[m] = c /\ ~ SendsElsewhere(m)
  BY DEF Boxed, Wanted
<1>2. origin[m] = p /\ p \in Box /\ p # Rq
  BY <1>1, CarrierIsBox DEF LifeInv, Sent
<1> SUFFICES ASSUME NEW q \in Carrier, BoxOf(q) = p, Producing(q) PROVE FALSE
  BY <1>2 DEF WakeInv, BusyMeansProducing, CanSwap
<1>3. q = p /\ pitem[q] \in Message /\ pitem[q] \notin Entry /\ Posts(q)
  BY <1>2 DEF BoxOf, Producing, Posts, InBox, WakeInv, HasItem
<1>4. origin[pitem[q]] = p
  BY <1>3 DEF LifeInv, CarriedOnce
<1>5. Dst[pitem[q]] = c
  BY <1>1, <1>2, <1>3, <1>4 DEF SendsElsewhere
<1> QED
  BY <1>3, <1>5 DEF Notified, Note

LEMMA SwapBoxKeepsNote ==
    ASSUME RaceInv, WakeInv, LifeInv, NoteInv, SwapBox
    PROVE  NoteInv'
<1>1. /\ cpc = "swap" /\ cpc' = "drain" /\ cursor \in Box
      /\ index' = [index EXCEPT ![cursor] = Swapped(cursor)]
      /\ UNCHANGED <<buffers, origin, ppc, pitem, pipe, mode, blocked, mailbox, local, cursor>>
  BY P7Assumption
     DEF SwapBox, WakeInv, WakeTyped, Box, sentVars, postVars, coroVars, queueVars,
         mailVars, roundVars
<1> SUFFICES ASSUME NEW c \in Coro, ~ Notified(c) PROVE Quiet(c)'
  BY <1>1 DEF NoteInv, Notified, Posts, InBox, Note
<1>2. /\ Wanted(c)' = Wanted(c) /\ Here(c)' = Here(c) /\ Mailed(c)' = Mailed(c)
      /\ \A p \in Carrier : Boxed(c, p)' = Boxed(c, p)
      /\ InRecv(c)' <=> InRecv(c)
  BY <1>1 DEF Wanted, SendsElsewhere, Here, Mailed, Boxed, Waiting, InRecv
<1>3. Quiet(c)
  BY DEF NoteInv
<1>4. \A p \in Carrier : WillDrain(p)' <=> WillDrain(p)
  BY <1>1 DEF WillDrain
<1>5. ASSUME NEW p \in Carrier, Drained(p)' PROVE Behind(c, p)' = {}
  <2>1. p \in Box /\ p # Rq /\ index[p] \in 0..3 /\ index \in [Box -> 0..3] /\ cursor = p
    BY <1>1, <1>5, CarrierIsBox DEF RaceInv, PostersTyped, Drained
  <2>2. Side(index'[p]) \in 0..1
    <3>1. index'[p] \in 0..3
      BY <1>1, <2>1, IndexFacts DEF Swapped
    <3> QED
      BY <3>1, IndexFacts
  <2>3. CASE Boxed(c, p) = {}
    BY <1>1, <1>2, <2>2, <2>3 DEF Boxed, Behind, Waiting
  <2>4. CASE Boxed(c, p) # {}
    <3>1. CanSwap(index[p])
      BY <2>4, BusyForReceiver
    <3>2. index'[p] = OtherSide(index[p])
      BY <1>1, <2>1, <3>1 DEF Swapped
    <3>3. Side(index'[p]) = OtherSide(index[p])
      BY <2>1, <3>1, <3>2, IndexFacts
    <3>4. buffers'[p][Side(index'[p])] = <<>>
      BY <1>1, <2>1, <3>3 DEF WakeInv, TakenToTheEnd
    <3> QED
      BY <3>4, EmptyFacts DEF Behind
  <2> QED
    BY <2>3, <2>4
<1>6. WillDispatch'
  BY <1>1 DEF WillDispatch
<1> QED
  BY <1>2, <1>3, <1>4, <1>5, <1>6 DEF Quiet

\* p7_coro_new is handed a struct that is not in use.
LEMMA CreatedSleepsNot ==
    ASSUME LifeInv, NEW d \in Coro, NEW e, Create(d, e)
    PROVE  \A c \in blocked : mailbox'[c] = mailbox[c]
<1>1. d \in Unused
  BY TailFacts DEF Create, Unused, LifeInv, Placed
<1>2. blocked \subseteq Coro /\ d \notin blocked
  BY <1>1 DEF LifeInv, Placed
<1>3. mailbox \in [Coro -> Seq(Message)]
  BY DEF LifeInv, Sent
<1> QED
  BY <1>2, <1>3 DEF Create

LEMMA TakeRequestKeepsNote ==
    ASSUME RaceInv, WakeInv, LifeInv, NoteInv, TakeRequest
    PROVE  NoteInv'
<1>1. /\ cpc = "drain" /\ cursor = Rq
      /\ buffers' = [buffers EXCEPT ![Rq][OtherSide(index[Rq])] = Tail(@)]
      /\ \E c \in Coro : \E e : Create(c, e)
      /\ UNCHANGED <<index, origin, ppc, pitem, pipe, mode, blocked, local, cpc, cursor>>
  BY DEF TakeRequest, sentVars, postVars, loopVars, roundVars
<1>2. \A p \in Carrier : buffers'[p] = buffers[p]
  BY <1>1, CarrierIsBox DEF WakeInv, WakeTyped
<1>3. \A c \in blocked : mailbox'[c] = mailbox[c]
  BY <1>1, CreatedSleepsNot
<1> QED
  BY <1>1, <1>2, <1>3, NoteStays
     DEF Notified, Posts, InBox, Note, WillDrain, WillDispatch, Drained, InRecv

\* Who receives what is dispatched does not wait in p7_recv, or has a note.
LEMMA DispatchKeepsNote ==
    ASSUME NoteInv, LifeInv, NEW m \in Message, Dispatched(m),
           UNCHANGED <<index, origin, ppc, pitem, pipe, mode, blocked, cpc, cursor>>,
           \A p \in Carrier : /\ Waiting(p)' \subseteq Waiting(p)
                              /\ buffers'[p][Side(index[p])] = buffers[p][Side(index[p])],
           Range(local') \subseteq Range(local),
           m \in Range(local) \/ \E p \in Carrier : m \in Waiting(p)
    PROVE  NoteInv'
<1> SUFFICES ASSUME NEW c \in Coro, ~ Notified(c) PROVE Quiet(c)'
  BY DEF NoteInv, Notified, Posts, InBox, Note
<1>1. /\ Wanted(c)' = Wanted(c) /\ Here(c)' \subseteq Here(c)
      /\ \A p \in Carrier : Boxed(c, p)' \subseteq Boxed(c, p) /\ Behind(c, p)' = Behind(c, p)
  BY DEF Wanted, SendsElsewhere, Here, Boxed, Behind
<1>2. /\ InRecv(c)' <=> InRecv(c)
      /\ WillDispatch' <=> WillDispatch
      /\ \A p \in Carrier : (WillDrain(p)' <=> WillDrain(p)) /\ (Drained(p)' <=> Drained(p))
  BY DEF InRecv, WillDispatch, WillDrain, Drained
<1>3. Quiet(c)
  BY DEF NoteInv
<1>4. ASSUME InRecv(c) PROVE Mailed(c)' = {}
  <2>1. m \notin Wanted(c) /\ Mailed(c) = {}
    BY <1>3, <1>4 DEF Quiet, Here, Boxed
  <2>2. Range(mailbox'[c]) \subseteq Range(mailbox[c]) \cup {m}
    <3>1. mailbox \in [Coro -> Seq(Message)] /\ Dst[m] \in Coro
      BY P7Assumption DEF LifeInv, Sent
    <3>2. Range(Append(mailbox[Dst[m]], m)) = Range(mailbox[Dst[m]]) \cup {m}
      BY <3>1, AppendFacts
    <3> QED
      BY <3>1, <3>2 DEF Dispatched
  <2> QED
    BY <1>1, <2>1, <2>2 DEF Mailed
<1> QED
  BY <1>1, <1>2, <1>3, <1>4 DEF Quiet

LEMMA DispatchOneKeepsNote ==
    ASSUME RaceInv, WakeInv, LifeInv, NoteInv, DispatchOne
    PROVE  NoteInv'
<1> DEFINE mine == OtherSide(index[cursor])
           list == buffers[cursor][mine]
<1>1. /\ cpc = "drain" /\ cursor # Rq /\ list # <<>> /\ Dispatched(Head(list))
      /\ buffers' = [buffers EXCEPT ![cursor][mine] = Tail(list)]
      /\ UNCHANGED <<index, origin, ppc, pitem, pipe, mode, blocked, local, cpc, cursor>>
  BY DEF DispatchOne, sentVars, postVars, queueVars, loopVars, roundVars
<1>2. cursor \in Carrier /\ cursor \in Box
  BY <1>1, P7Assumption DEF WakeInv, TakenToTheEnd, Box, Carrier, Rq
<1>3. mine \in 0..1 /\ Side(index[cursor]) \in 0..1 /\ Side(index[cursor]) # mine
  BY <1>2, IndexFacts DEF RaceInv, PostersTyped
<1>4. /\ buffers'[cursor][mine] = Tail(list)
      /\ \A t \in 0..1 : t # mine => buffers'[cursor][t] = buffers[cursor][t]
      /\ \A q \in Carrier : q # cursor => buffers'[q] = buffers[q]
  BY <1>1, <1>2, <1>3, CarrierIsBox DEF WakeInv, WakeTyped
<1>5. /\ Head(list) \in Range(list) /\ Range(Tail(list)) \subseteq Range(list)
      /\ Head(list) \in Message
  <2>1. list \in Seq(Message)
    BY <1>2, <1>3 DEF LifeInv, Sent
  <2> HIDE DEF list
  <2> QED
    BY <1>1, <2>1, TailFacts
<1> HIDE DEF list
<1>6. Head(list) \in Waiting(cursor)
  BY <1>3, <1>5 DEF Waiting, list
<1> HIDE DEF mine
<1>7. \A p \in Carrier : /\ Waiting(p)' \subseteq Waiting(p)
                         /\ buffers'[p][Side(index[p])] = buffers[p][Side(index[p])]
  <2>1. \A t \in 0..1 : Range(buffers'[cursor][t]) \subseteq Range(buffers[cursor][t])
    BY <1>4, <1>5 DEF list
  <2>2. 0 \in 0..1 /\ 1 \in 0..1
    OBVIOUS
  <2>3. Waiting(cursor)' \subseteq Waiting(cursor)
    BY <1>1, <2>1, <2>2 DEF Waiting
  <2>4. \A p \in Carrier : p # cursor => Waiting(p)' = Waiting(p)
    BY <1>4 DEF Waiting
  <2> QED
    BY <1>1, <1>3, <1>4, <2>3, <2>4
<1>8. /\ UNCHANGED <<index, origin, ppc, pitem, pipe, mode, blocked, cpc, cursor>>
      /\ Range(local') \subseteq Range(local)
      /\ \E p \in Carrier : Head(list) \in Waiting(p)
  BY <1>1, <1>2, <1>6
<1> QED
  BY <1>1, <1>5, <1>7, <1>8, DispatchKeepsNote

LEMMA DispatchLocalKeepsNote ==
    ASSUME LifeInv, NoteInv, DispatchLocal
    PROVE  NoteInv'
<1>1. /\ local # <<>> /\ local' = Tail(local) /\ Dispatched(Head(local))
      /\ UNCHANGED <<index, buffers, origin, ppc, pitem, pipe, mode, blocked, cpc, cursor>>
  BY DEF DispatchLocal, sharedVars, boxVars, sentVars, postVars, queueVars, loopVars, roundVars
<1>2. \A p \in Carrier : /\ Waiting(p)' \subseteq Waiting(p)
                         /\ buffers'[p][Side(index[p])] = buffers[p][Side(index[p])]
  BY <1>1 DEF Waiting
<1>3. local \in Seq(Message)
  BY DEF LifeInv, Sent
<1>4. /\ Head(local) \in Message /\ Head(local) \in Range(local)
      /\ Range(local') \subseteq Range(local)
  BY <1>1, <1>3, TailFacts
<1> QED
  BY <1>1, <1>2, <1>4, DispatchKeepsNote

LEMMA BoxDoneKeepsNote ==
    ASSUME RaceInv, WakeInv, LifeInv, NoteInv, BoxDone
    PROVE  NoteInv'
<1>1. /\ cpc = "drain" /\ cpc' = "swap" /\ cursor' = cursor + 1
      /\ buffers[cursor][OtherSide(index[cursor])] = <<>>
      /\ UNCHANGED <<index, buffers, origin, ppc, pitem, pipe, mode, blocked, mailbox, local>>
  BY DEF BoxDone, sharedVars, boxVars, sentVars, postVars, coroVars, queueVars, mailVars
<1> SUFFICES ASSUME NEW c \in Coro, ~ Notified(c) PROVE Quiet(c)'
  BY <1>1 DEF NoteInv, Notified, Posts, InBox, Note
<1>2. /\ Wanted(c)' = Wanted(c) /\ Here(c)' = Here(c) /\ Mailed(c)' = Mailed(c)
      /\ \A p \in Carrier : Boxed(c, p)' = Boxed(c, p)
      /\ InRecv(c)' <=> InRecv(c)
  BY <1>1 DEF Wanted, SendsElsewhere, Here, Mailed, Boxed, Waiting, InRecv
<1>3. Quiet(c)
  BY DEF NoteInv
<1>4. ASSUME NEW p \in Carrier, cursor = p PROVE Boxed(c, p) = {}
  <2>1. index[p] \in 0..3
    BY CarrierIsBox DEF RaceInv, PostersTyped
  <2>2. /\ Range(buffers[p][Side(index[p])]) \cap Wanted(c) = {}
        /\ Range(buffers[p][OtherSide(index[p])]) = {}
    BY <1>1, <1>3, <1>4, EmptyFacts DEF Quiet, Drained, Behind
  <2>3. Side(index[p]) \in 0..1 /\ OtherSide(index[p]) \in 0..1
           /\ Side(index[p]) # OtherSide(index[p])
    BY <2>1, IndexFacts
  <2>4. \A s \in 0..1 : s = Side(index[p]) \/ s = OtherSide(index[p])
    BY <2>3
  <2>5. \A s \in 0..1 : Range(buffers[p][s]) \cap Wanted(c) = {}
    BY <2>2, <2>4
  <2>6. Range(buffers[p][0]) \cap Wanted(c) = {} /\ Range(buffers[p][1]) \cap Wanted(c) = {}
    BY <2>5
  <2> QED
    BY <2>6 DEF Boxed, Waiting
<1>5. \A p \in Carrier : p \in Nat /\ cursor \in Nat
  BY P7Assumption DEF Carrier, WakeInv, WakeTyped
<1>6. \A p \in Carrier : Boxed(c, p) # {} => WillDrain(p)'
  BY <1>1, <1>3, <1>4, <1>5 DEF Quiet, WillDrain
<1>7. WillDispatch' /\ \A p \in Carrier : ~ Drained(p)'
  BY <1>1 DEF WillDispatch, Drained
<1> QED
  BY <1>2, <1>3, <1>6, <1>7 DEF Quiet

-----------------------------------------------------------------------------
\* A coroutine blocks in p7_recv with an empty mailbox, and when the round is over.
LEMMA BlockInRecvKeepsNote ==
    ASSUME NoteInv, LifeInv, BlockInRecv
    PROVE  NoteInv'
<1>1. /\ cpc = "run" /\ cpc' = "timeout" /\ mailbox[running] = <<>>
      /\ mode' = [mode EXCEPT ![running] = "recv"] /\ blocked' = blocked \cup {running}
      /\ UNCHANGED <<index, buffers, origin, ppc, pitem, pipe, mailbox, local>>
  BY DEF BlockInRecv, Block, sharedVars, boxVars, sentVars, postVars, mailVars
<1> SUFFICES ASSUME NEW c \in Coro, ~ Notified(c) PROVE Quiet(c)'
  BY <1>1 DEF NoteInv, Notified, Posts, InBox, Note
<1>2. /\ Wanted(c)' = Wanted(c) /\ Here(c)' = Here(c) /\ Mailed(c)' = Mailed(c)
      /\ \A p \in Carrier : Boxed(c, p)' = Boxed(c, p) /\ ~ Drained(p)'
  BY <1>1 DEF Wanted, SendsElsewhere, Here, Mailed, Boxed, Waiting, Drained
<1>3. Quiet(c)
  BY DEF NoteInv
<1>4. Here(c) = {} /\ \A p \in Carrier : Boxed(c, p) = {}
  BY <1>1, <1>3 DEF Quiet, WillDrain, WillDispatch
<1>5. InRecv(c)' => Mailed(c) = {}
  <2>1. CASE c = running
    BY <1>1, <2>1, EmptyFacts DEF Mailed
  <2>2. CASE c # running
    <3>1. InRecv(c)' => InRecv(c)
      BY <1>1, <2>2 DEF InRecv, LifeInv, Calls
    <3> QED
      BY <1>3, <3>1 DEF Quiet
  <2> QED
    BY <2>1, <2>2
<1> QED
  BY <1>2, <1>4, <1>5 DEF Quiet

\* What else the running coroutine does.
LEMMA CoroutinesKeepNote ==
    ASSUME WakeInv, NoteInv, LifeInv,
           Yield \/ BlockOnIo \/ End \/ TakeMessage \/ IoNotifyFails \/ CreateLocal \/ Concat
    PROVE  NoteInv'
<1>1. /\ cpc = "run" /\ cpc' \in {"run", "timeout"}
      /\ UNCHANGED <<index, buffers, origin, ppc, pitem, pipe, local>>
  <2> USE DEF sharedVars, boxVars, sentVars, postVars, coroVars, mailVars, loopVars
  <2>1. CASE Yield \/ BlockOnIo \/ End
    BY <2>1 DEF Yield, BlockOnIo, Block, End
  <2>2. CASE TakeMessage \/ IoNotifyFails \/ CreateLocal \/ Concat
    BY <2>2 DEF TakeMessage, IoNotifyFails, CreateLocal, Concat
  <2> QED
    BY <2>1, <2>2
<1>2. running \in Coro /\ running \notin blocked
  BY <1>1 DEF LifeInv, Placed, Turns
<1>3. ASSUME NEW c \in Coro, InRecv(c)'
      PROVE  InRecv(c) /\ mailbox'[c] = mailbox[c]
  <2> USE DEF InRecv
  <2>1. mode \in [Coro -> {"run", "recv", "io", "iorecv", "concat"}]
        /\ mailbox \in [Coro -> Seq(Message)]
    BY DEF LifeInv, Calls, Sent
  <2>2. CASE Yield \/ IoNotifyFails
    BY <1>3, <2>2 DEF Yield, IoNotifyFails, coroVars, queueVars, mailVars
  <2>3. CASE TakeMessage
    BY <1>2, <1>3, <2>1, <2>3 DEF TakeMessage, queueVars
  <2>4. CASE BlockOnIo
    BY <1>2, <1>3, <2>1, <2>4 DEF BlockOnIo, Block, mailVars
  <2>5. CASE End
    BY <1>2, <1>3, <2>1, <2>5 DEF End, Cleaned
  <2>6. CASE CreateLocal
    <3>1. /\ \E d \in Coro : \E e : Create(d, e)
          /\ UNCHANGED <<mode, blocked>>
      BY <2>6 DEF CreateLocal
    <3> QED
      BY <1>3, <3>1, CreatedSleepsNot
  <2>7. CASE Concat
    <3>1. /\ \E d \in Coro : \E e : Create(d, e)
          /\ mode' = [mode EXCEPT ![running] = "concat"]
          /\ blocked' = blocked \cup {running}
      BY <2>7 DEF Concat
    <3>2. c # running
      BY <1>2, <1>3, <2>1, <3>1
    <3>3. InRecv(c)
      BY <1>3, <2>1, <3>1, <3>2
    <3> QED
      BY <3>1, <3>3, CreatedSleepsNot
  <2> QED
    BY <2>2, <2>3, <2>4, <2>5, <2>6, <2>7
<1> QED
  BY <1>1, <1>3, NoteStays DEF Notified, Posts, InBox, Note, WillDrain, WillDispatch, Drained

\* p7_send_by_entity to a coroutine of this carrier writes the note itself.
LEMMA SendLocalKeepsNote ==
    ASSUME WakeInv, LifeInv, NoteInv, SendLocal
    PROVE  NoteInv'
<1>1. PICK m \in Unsent :
         /\ origin' = [origin EXCEPT ![m] = 0] /\ local' = Append(local, m)
         /\ \/ pipe' = Append(pipe, Dst[m]) /\ cpc' = cpc
            \/ cpc' = "stuck" /\ UNCHANGED pipe
  BY DEF SendLocal
<1>2. /\ cpc = "run" /\ UNCHANGED <<index, buffers, ppc, pitem, mode, blocked, mailbox, cursor>>
  BY DEF SendLocal, boxVars, postVars, queueVars, roundVars
<1>3. /\ m \in Message /\ origin[m] = None /\ Dst[m] \in Coro
      /\ origin \in [Message -> Box \cup {None}] /\ 0 \in Box /\ local \in Seq(Message)
  BY P7Assumption DEF Unsent, LifeInv, Sent, Box
<1>4. /\ pipe' = Append(pipe, Dst[m]) => Range(pipe') = Range(pipe) \cup {Dst[m]}
      /\ Range(local') = Range(local) \cup {m}
  <2>1. Dst[m] \in Coro \cup {None} /\ pipe \in Seq(Coro \cup {None})
    BY <1>3 DEF WakeInv, WakeTyped
  <2>2. Range(Append(pipe, Dst[m])) = Range(pipe) \cup {Dst[m]}
    BY <2>1, <1>3, AppendFacts
  <2>3. Range(Append(local, m)) = Range(local) \cup {m}
    BY <1>3, AppendFacts
  <2> QED
    BY <1>1, <2>2, <2>3
<1> SUFFICES ASSUME NEW c \in Coro PROVE Notified(c)' \/ Quiet(c)'
  BY DEF NoteInv
<1>5. CASE cpc' = "stuck"
  BY <1>5 DEF Notified
<1>6. CASE cpc' = cpc /\ c = Dst[m]
  BY <1>1, <1>2, <1>4, <1>6 DEF Notified
<1>7. CASE cpc' = cpc /\ c # Dst[m]
  <2>1. Wanted(c)' \subseteq Wanted(c)
    BY <1>1, <1>3, <1>7, StampedWanted
  <2>2. m \notin Wanted(c)
    BY <1>7 DEF Wanted
  <2>3. Notified(c) => Notified(c)'
    BY <1>1, <1>2, <1>4, <1>7 DEF Notified, Posts, InBox, Note
  <2>4. \A p \in Carrier : /\ Boxed(c, p)' \subseteq Boxed(c, p)
                           /\ WillDrain(p) => WillDrain(p)'
                           /\ Drained(p)' => Drained(p) /\ Behind(c, p)' \subseteq Behind(c, p)
    BY <1>2, <1>7, <2>1 DEF Boxed, Behind, Waiting, WillDrain, Drained
  <2>5. Here(c)' \subseteq Here(c) /\ (Here(c) # {} /\ WillDispatch => WillDispatch')
    BY <1>4, <1>7, <2>1, <2>2 DEF Here, WillDispatch
  <2>6. InRecv(c)' => InRecv(c) /\ Mailed(c)' \subseteq Mailed(c)
    BY <1>2, <2>1 DEF InRecv, Mailed
  <2> QED
    BY <2>3, <2>4, <2>5, <2>6, NothingComes
<1> QED
  BY <1>1, <1>5, <1>6, <1>7

-----------------------------------------------------------------------------
\* A poster stamps its message, and has the note to write from then on.
LEMMA StampKeepsNote ==
    ASSUME RaceInv, WakeInv, LifeInv, NoteInv, NEW p \in Carrier, NEW m \in Message,
           origin[m] = None, origin' = [origin EXCEPT ![m] = p],
           ~ Posts(p), ppc' = [ppc EXCEPT ![p] = "busy"], pitem' = [pitem EXCEPT ![p] = m],
           UNCHANGED <<index, buffers, pipe, mode, blocked, mailbox, local, cpc, cursor>>
    PROVE  NoteInv'
<1>1. /\ p \in Box /\ origin \in [Message -> Box \cup {None}]
      /\ ppc \in [Carrier -> Stages] /\ pitem \in [Carrier -> Message \cup Entry \cup {None}]
  BY CarrierIsBox DEF LifeInv, Sent, RaceInv, PostersTyped
<1>2. /\ ppc'[p] = "busy" /\ pitem'[p] = m
      /\ \A q \in Carrier : q # p => ppc'[q] = ppc[q] /\ pitem'[q] = pitem[q]
  BY <1>1
<1> SUFFICES ASSUME NEW c \in Coro PROVE Notified(c)' \/ Quiet(c)'
  BY DEF NoteInv
<1>3. CASE c = Dst[m]
  BY <1>2, <1>3, P7Assumption DEF Notified, Posts, Note
<1>4. CASE c # Dst[m]
  <2>1. Wanted(c)' \subseteq Wanted(c)
    BY <1>1, <1>4, StampedWanted
  <2>2. Notified(c) => Notified(c)'
    BY <1>2 DEF Notified, Posts, InBox, Note
  <2>3. \A q \in Carrier : /\ Boxed(c, q)' \subseteq Boxed(c, q)
                           /\ WillDrain(q) => WillDrain(q)'
                           /\ Drained(q)' => Drained(q) /\ Behind(c, q)' \subseteq Behind(c, q)
    BY <2>1 DEF Boxed, Behind, Waiting, WillDrain, Drained
  <2>4. Here(c)' \subseteq Here(c) /\ (Here(c) # {} /\ WillDispatch => WillDispatch')
    BY <2>1 DEF Here, WillDispatch
  <2>5. InRecv(c)' => InRecv(c) /\ Mailed(c)' \subseteq Mailed(c)
    BY <2>1 DEF InRecv, Mailed
  <2> QED
    BY <2>2, <2>3, <2>4, <2>5, NothingComes
<1> QED
  BY <1>3, <1>4

LEMMA PostersKeepNote ==
    ASSUME RaceInv, WakeInv, LifeInv, NoteInv, NEW p \in Carrier,
           BeginSend(p) \/ FindName(p) \/ BeginRequest(p) \/ Post(p)
    PROVE  NoteInv'
<1>1. UNCHANGED <<mode, blocked, mailbox, local, cpc, cursor>>
  BY DEF BeginSend, FindName, BeginRequest, Post, CountIn, TestStatus, SetBusy, AddTail,
         ClearBusy, WritePipe, CountOut, ownVars, coroVars, queueVars, mailVars, loopVars,
         roundVars
<1>2. /\ ppc \in [Carrier -> Stages] /\ index \in [Box -> 0..3]
      /\ pitem \in [Carrier -> Message \cup Entry \cup {None}]
      /\ BoxOf(p) \in Box
  BY BoxOfIsBox DEF RaceInv, PostersTyped
<1>3. CASE BeginSend(p)
  <2>1. PICK m \in Unsent : /\ pitem' = [pitem EXCEPT ![p] = m]
                            /\ origin' = [origin EXCEPT ![m] = p]
    BY <1>3 DEF BeginSend
  <2>2. /\ m \in Message /\ origin[m] = None /\ ~ Posts(p)
        /\ ppc' = [ppc EXCEPT ![p] = "busy"] /\ UNCHANGED <<index, buffers, pipe>>
    BY <1>3 DEF BeginSend, Unsent, Posts, InBox, boxVars
  <2> QED
    BY <1>1, <2>1, <2>2, StampKeepsNote
<1>4. CASE TestStatus(p) /\ Dst[pitem[p]] \in alive
  <2>1. /\ ppc[p] = "counted" /\ origin' = [origin EXCEPT ![pitem[p]] = p]
        /\ ppc' = [ppc EXCEPT ![p] = "busy"] /\ UNCHANGED <<index, buffers, pitem, pipe>>
    BY <1>4 DEF TestStatus, boxVars
  <2>2. pitem[p] \in Message /\ origin[pitem[p]] = None /\ ~ Posts(p)
    BY <2>1 DEF RaceInv, NamedCarry, LifeInv, CarriedOnce, Posts, InBox
  <2>3. pitem' = [pitem EXCEPT ![p] = pitem[p]]
    BY <1>2, <2>1
  <2> QED
    BY <1>1, <2>1, <2>2, <2>3, StampKeepsNote
<1>5. CASE \/ TestStatus(p) /\ Dst[pitem[p]] \notin alive
           \/ FindName(p) \/ BeginRequest(p) \/ CountIn(p) \/ CountOut(p)
  <2>1. /\ ppc[p] \in {"idle", "found", "counted", "uncount"}
        /\ UNCHANGED <<index, buffers, origin, pipe>>
        /\ \A q \in Carrier : q # p => ppc'[q] = ppc[q] /\ pitem'[q] = pitem[q]
    BY <1>2, <1>5
       DEF TestStatus, FindName, BeginRequest, CountIn, CountOut, boxVars, sentVars
  <2>2. \A c \in Coro : Notified(c) => Notified(c)'
    BY <1>1, <2>1 DEF Notified, Posts, InBox, Note
  <2> QED
    BY <1>1, <2>1, <2>2, NoteStays DEF WillDrain, WillDispatch, Drained, InRecv
<1>6. CASE SetBusy(p) \/ ClearBusy(p)
  <2>1. \A c \in Coro : Notified(c) => Notified(c)'
    <3>1. /\ UNCHANGED <<pipe, cpc, pitem>> /\ Posts(p)'
          /\ \A q \in Carrier : q # p => ppc'[q] = ppc[q]
      BY <1>1, <1>2, <1>6 DEF SetBusy, ClearBusy, Posts, InBox
    <3> QED
      BY <3>1 DEF Notified, Posts, InBox, Note
  <2>2. UNCHANGED <<buffers, origin>>
    BY <1>6 DEF SetBusy, ClearBusy, sentVars
  <2>3. \A q \in Carrier : Side(index'[q]) = Side(index[q])
    <3> TAKE q \in Carrier
    <3>1. q \in Box /\ index[q] \in 0..3
      BY <1>2, CarrierIsBox
    <3>2. index'[q] \in {index[q], WithBusy(index[q]), NoBusy(index[q])}
      BY <1>2, <1>6, <3>1 DEF SetBusy, ClearBusy
    <3> QED
      BY <3>1, <3>2, IndexFacts
  <2> QED
    BY <1>1, <2>1, <2>2, <2>3, NoteStays DEF WillDrain, WillDispatch, Drained, InRecv
<1>7. CASE AddTail(p)
  <2> DEFINE side == IF ppc[p] = "add0" THEN 0 ELSE 1
             item == pitem[p]
             list == buffers[BoxOf(p)][side]
  <2>1. /\ UNCHANGED <<index, origin, pitem, pipe>> /\ Posts(p)'
        /\ buffers' = [buffers EXCEPT ![BoxOf(p)][side] = Append(@, item)]
        /\ \A q \in Carrier : q # p => ppc'[q] = ppc[q]
    BY <1>2, <1>7 DEF AddTail, sentVars, Posts, InBox
  <2>2. \A c \in Coro : Notified(c) => Notified(c)'
    BY <1>1, <2>1 DEF Notified, Posts, InBox, Note
  <2>3. /\ side \in 0..1 /\ item \in Message \cup Entry /\ list \in Seq(Message \cup Entry)
        /\ buffers \in [Box -> [0..1 -> Seq(Message \cup Entry)]]
    <3>1. item \in Message \cup Entry
      BY <1>7 DEF AddTail, WakeInv, HasItem
    <3> QED
      BY <1>2, <3>1 DEF WakeInv, WakeTyped
  <2> HIDE DEF side, item
  <2>4. \A q \in Carrier, s \in 0..1 :
           Range(buffers'[q][s]) \subseteq Range(buffers[q][s]) \cup {item}
    <3>1. Range(Append(list, item)) = Range(list) \cup {item}
      <4> DEFINE T == Message \cup Entry
      <4>1. list \in Seq(T) /\ item \in T
        BY <2>3
      <4> HIDE DEF T, list
      <4> QED
        BY <4>1, AppendFacts
    <3>2. \A b \in Box, s \in 0..1 : b # BoxOf(p) \/ s # side => buffers'[b][s] = buffers[b][s]
      BY <1>2, <2>1, <2>3
    <3>3. buffers'[BoxOf(p)][side] = Append(list, item)
      BY <1>2, <2>1, <2>3
    <3> QED
      BY <3>1, <3>2, <3>3, CarrierIsBox
  <2> SUFFICES ASSUME NEW c \in Coro PROVE Notified(c)' \/ Quiet(c)'
    BY DEF NoteInv
  <2>5. CASE item \in Message /\ Dst[item] = c
    BY <2>1, <2>5, P7Assumption DEF Notified, Note, item
  <2>6. CASE ~ (item \in Message /\ Dst[item] = c)
    <3>1. Wanted(c)' = Wanted(c) /\ item \notin Wanted(c)
      BY <2>1, <2>6 DEF Wanted, SendsElsewhere
    <3>2. \A q \in Carrier : Boxed(c, q)' \subseteq Boxed(c, q)
      <4> TAKE q \in Carrier
      <4>1. 0 \in 0..1 /\ 1 \in 0..1
        OBVIOUS
      <4>2. /\ Range(buffers'[q][0]) \subseteq Range(buffers[q][0]) \cup {item}
            /\ Range(buffers'[q][1]) \subseteq Range(buffers[q][1]) \cup {item}
        BY <2>4, <4>1
      <4> QED
        BY <3>1, <4>2 DEF Boxed, Waiting
    <3>3. \A q \in Carrier : Behind(c, q)' \subseteq Behind(c, q)
      <4> TAKE q \in Carrier
      <4>1. Side(index[q]) \in 0..1
        BY <1>2, CarrierIsBox, IndexFacts
      <4> QED
        BY <2>1, <2>4, <3>1, <4>1 DEF Behind
    <3>4. \A q \in Carrier : /\ Boxed(c, q)' \subseteq Boxed(c, q)
                             /\ WillDrain(q) => WillDrain(q)'
                             /\ Drained(q)' => Drained(q) /\ Behind(c, q)' \subseteq Behind(c, q)
      BY <1>1, <3>2, <3>3 DEF WillDrain, Drained
    <3>5. Here(c)' \subseteq Here(c) /\ (Here(c) # {} /\ WillDispatch => WillDispatch')
      BY <1>1, <3>1 DEF Here, WillDispatch
    <3>6. InRecv(c)' => InRecv(c) /\ Mailed(c)' \subseteq Mailed(c)
      BY <1>1, <3>1 DEF InRecv, Mailed
    <3>7. Notified(c) => Notified(c)'
      BY <2>2
    <3> QED
      BY <3>4, <3>5, <3>6, <3>7, NothingComes
  <2> QED
    BY <2>5, <2>6
<1>8. CASE WritePipe(p)
  <2>1. /\ ppc[p] = "write" /\ UNCHANGED <<index, buffers, origin>>
        /\ pipe' = Append(pipe, Note(pitem[p]))
        /\ \A q \in Carrier : q # p => ppc'[q] = ppc[q] /\ pitem'[q] = pitem[q]
    BY <1>2, <1>8 DEF WritePipe, Noted, boxVars, sentVars
  <2>2. Range(pipe') = Range(pipe) \cup {Note(pitem[p])}
    <3>1. pitem[p] \in Message \cup Entry
      BY <2>1 DEF WakeInv, HasItem
    <3>2. Note(pitem[p]) \in Coro \cup {None} /\ pipe \in Seq(Coro \cup {None})
      BY <3>1, P7Assumption DEF Note, WakeInv, WakeTyped
    <3> QED
      BY <2>1, <3>2, AppendFacts
  <2>3. \A c \in Coro : Notified(c) => Notified(c)'
    BY <1>1, <2>1, <2>2 DEF Notified, Posts, InBox, Note
  <2> QED
    BY <1>1, <2>1, <2>3, NoteStays DEF WillDrain, WillDispatch, Drained, InRecv
<1> QED
  BY <1>3, <1>4, <1>5, <1>6, <1>7, <1>8 DEF Post

-----------------------------------------------------------------------------
LEMMA NoteInvInit == Init => NoteInv
<1> SUFFICES ASSUME Init, NEW c \in Coro PROVE Quiet(c)
  BY DEF NoteInv
<1>1. \A p \in Carrier : Waiting(p) = {}
  BY CarrierIsBox, EmptyFacts DEF Init, Waiting
<1>2. cpc = "timeout" /\ Range(local) = {} /\ blocked = {}
  BY EmptyFacts DEF Init
<1> QED
  BY <1>1, <1>2 DEF Quiet, Boxed, Here, InRecv, Drained

LEMMA NoteInvNext ==
    RaceInv /\ WakeInv /\ LifeInv /\ NoteInv /\ [Next]_vars => NoteInv'
<1> SUFFICES ASSUME RaceInv, WakeInv, LifeInv, NoteInv, [Next]_vars
             PROVE  NoteInv'
  OBVIOUS
<1>1. CASE Loop
  BY <1>1, LoopKeepsNote, ReadPipeKeepsNote, SwapBoxKeepsNote, TakeRequestKeepsNote,
     DispatchOneKeepsNote, BoxDoneKeepsNote, DispatchLocalKeepsNote DEF Loop
<1>2. CASE \/ EpollReturns \/ EpollTimesOut \/ EpollFails \/ WakeTheDead \/ WakeDeadParent
           \/ \E c \in Coro : BecomesReady(c) \/ Elapse(c)
  BY <1>2, LoopKeepsNote
<1>3. CASE Leave \/ TakeMessage \/ IoNotifyFails \/ SendLocal \/ CreateLocal \/ Concat
  BY <1>3, CoroutinesKeepNote, BlockInRecvKeepsNote, SendLocalKeepsNote DEF Leave
<1>4. CASE \E p \in Carrier : BeginSend(p) \/ FindName(p) \/ BeginRequest(p) \/ Post(p)
  BY <1>4, PostersKeepNote
<1>5. CASE UNCHANGED vars
  BY <1>5, NoteStays
     DEF Notified, Posts, InBox, Note, WillDrain, WillDispatch, Drained, InRecv, vars,
         sharedVars, boxVars, sentVars, postVars, ownVars, coroVars, queueVars, mailVars,
         loopVars, roundVars
<1> QED
  BY <1>1, <1>2, <1>3, <1>4, <1>5 DEF Next

LEMMA NoteInvFollows ==
    ASSUME WakeInv, LifeInv, NoteInv
    PROVE  SentNoteFollows
<1> SUFFICES ASSUME NEW c \in blocked, mode[c] = "recv", NEW m \in Pending(c),
                    ~ SendsElsewhere(m)
             PROVE  Notified(c)
  BY DEF SentNoteFollows, Notified
<1>1. /\ c \in Coro /\ InRecv(c) /\ m \in Wanted(c)
      /\ \/ m \in Range(mailbox[c]) \/ m \in Range(local)
         \/ \E b \in Box : m \in Waiting(b)
  BY DEF Pending, InRecv, Wanted, LifeInv, Placed
<1>2. \A b \in Box : b = Rq \/ b \in Carrier
  BY DEF Box, Carrier, Rq
<1>3. m \notin Waiting(Rq)
  <2>1. buffers[Rq][0] \in Seq(Entry) /\ buffers[Rq][1] \in Seq(Entry)
    BY DEF LifeInv, EntriesOnce
  <2>2. Waiting(Rq) \subseteq Entry
    BY <2>1 DEF Waiting, Range
  <2> QED
    BY <1>1, <2>2, P7Assumption DEF Wanted
<1>4. ~ Quiet(c)
  BY <1>1, <1>2, <1>3 DEF Quiet, Mailed, Here, Boxed
<1> QED
  BY <1>1, <1>4 DEF NoteInv

\* A coroutine that is blocked in p7_recv of p7impl.c and has a message in its mailbox
\* or on the way has a SENT note too, or is about to get one, unless the carrier that
\* sent the message sends to other coroutines as well: for any number of coroutines,
\* carriers and messages, whatever is refused and whatever ends.
THEOREM NoteFollows == Spec => []SentNoteFollows
<1>1. RaceInv /\ WakeInv /\ LifeInv /\ NoteInv /\ [Next]_vars => NoteInv'
  BY NoteInvNext
<1>2. WakeInv /\ LifeInv /\ NoteInv => SentNoteFollows
  BY NoteInvFollows
<1> QED
  BY <1>1, <1>2, NoteInvInit, RaceInvHolds, WakeInvHolds, LifeInvHolds, PTL DEF Spec
=============================================================================
