-------------------------- MODULE MessageBusProofs --------------------------
(***************************************************************************)
(* Proofs about MessageBus for any number of carriers, foreign threads and *)
(* messages: its type, that the carrier never sleeps over a message, and    *)
(* that each of its boxes is a mailbox.                                     *)
(***************************************************************************)
EXTENDS MessageBus, ListTheorems

(***************************************************************************)
(* The inductive invariant.                                                *)
(***************************************************************************)
\* A foreign thread that is not idle holds the lock, and only that one does.
LockHeld == \A p \in Foreign : ppc[p] # "idle" <=> lock = p

HasMessage == \A p \in Poster : ppc[p] # "idle" => pmsg[p] \in Message

Producing(p) == ppc[p] \in {"add0", "add1", "clear"}

\* BUSY is set exactly while the poster of the box is producing.
BusyMeansProducing ==
    \A b \in Box : IsBusy(index[b]) <=>
                       \E p \in Poster : BoxOf(p) = b /\ Producing(p)

\* The side that a poster loaded is still the producers' side.
SideIsKept ==
    \A p \in Poster : /\ ppc[p] = "add0" => Side(index[BoxOf(p)]) = 0
                      /\ ppc[p] = "add1" => Side(index[BoxOf(p)]) = 1

\* The carrier has a box to look at while it drains, and drains to the end.
ConsumerView ==
    /\ rpc = "drain" => cursor < NCarriers
    /\ \A b \in Box : buffers[b][OtherSide(index[b])] # <<>> =>
                          rpc = "drain" /\ cursor = b

\* The poster of a message in box b has yet to write the eventfd.
Announced(b) ==
    \E p \in Poster : BoxOf(p) = b /\ ppc[p] \in {"clear", "write"}

\* The carrier is still going to look at box b before it polls again.
WillLook(b) ==
    \/ rpc = "events"
    \/ rpc = "boxes" /\ cursor <= b
    \/ rpc = "drain" /\ cursor < b

\* Why a message on the producers' side of a box will be found.
Noticed ==
    \A b \in Box : buffers[b][Side(index[b])] # <<>> =>
        Announced(b) \/ counter > 0 \/ consumed = 0 \/ WillLook(b)

\* The carrier polls for ever only if the last round left nothing behind.
ForeverMeansConsumed == rpc = "wait" /\ timeout = -1 => consumed = 1

Inv == TypeOK /\ LockHeld /\ HasMessage /\ BusyMeansProducing /\ SideIsKept
       /\ ConsumerView /\ Noticed /\ ForeverMeansConsumed

-----------------------------------------------------------------------------
\* The index byte under the operations of producer and consumer.
LEMMA IndexFacts ==
    ASSUME NEW i \in 0..3
    PROVE  /\ Side(i) \in 0..1 /\ OtherSide(i) \in 0..1
           /\ Side(i) # OtherSide(i)
           /\ WithBusy(i) \in 0..3 /\ IsBusy(WithBusy(i))
           /\ NoBusy(i) \in 0..3 /\ ~ IsBusy(NoBusy(i))
           /\ Side(WithBusy(i)) = Side(i) /\ Side(NoBusy(i)) = Side(i)
           /\ OtherSide(WithBusy(i)) = OtherSide(i)
           /\ OtherSide(NoBusy(i)) = OtherSide(i)
           /\ CanSwap(i) => /\ 1 - i \in 0..3 /\ ~ IsBusy(i) /\ ~ IsBusy(1 - i)
                            /\ Side(1 - i) = OtherSide(i)
                            /\ OtherSide(1 - i) = Side(i)
           /\ ~ CanSwap(i) => IsBusy(i)
  <1> USE DEF Side, OtherSide, WithBusy, NoBusy, IsBusy, CanSwap
  <1>1. CASE i = 0  BY <1>1
  <1>2. CASE i = 1  BY <1>2
  <1>3. CASE i = 2  BY <1>3
  <1>4. CASE i = 3  BY <1>4
  <1>5. QED  BY <1>1, <1>2, <1>3, <1>4

\* Two posters of one box are foreign threads.
LEMMA SharedBox ==
    ASSUME NEW p \in Poster
    PROVE  /\ BoxOf(p) \in Box
           /\ \A q \in Poster : BoxOf(p) = BoxOf(q) /\ p # q =>
                  p \in Foreign /\ q \in Foreign
  BY BusAssumption DEF Poster, Box, BoxOf

\* Only one poster of a box is not idle.
LEMMA OnePoster ==
    ASSUME LockHeld, NEW p \in Poster, ppc[p] # "idle",
           NEW q \in Poster, ppc[q] # "idle", BoxOf(p) = BoxOf(q)
    PROVE  p = q
  BY SharedBox DEF LockHeld

LEMMA InvInit == Init => Inv
  <1>1. SUFFICES ASSUME Init PROVE Inv
    OBVIOUS
  <1>2. TypeOK
    <2>1. Self \in Box /\ 0 \in 0..NCarriers
      BY BusAssumption
    <2>2. [s \in 0..1 |-> <<>>] \in [0..1 -> Seq(Message)]
      OBVIOUS
    <2>3. /\ index \in [Box -> 0..3] /\ origin \in [Message -> Box]
          /\ buffers \in [Box -> [0..1 -> Seq(Message)]]
      BY <1>1, <2>1, <2>2 DEF Init
    <2>4. /\ lock \in Foreign \cup {None} /\ fresh \subseteq Message
          /\ ppc \in [Poster -> {"idle", "busy", "add0", "add1", "clear", "write", "end"}]
          /\ pmsg \in [Poster -> Message \cup {None}]
      BY <1>1 DEF Init
    <2>5. /\ counter \in Nat /\ consumed \in 0..1 /\ timeout \in {-1, 0}
          /\ rpc \in {"poll", "wait", "events", "boxes", "drain"}
          /\ cursor \in 0..NCarriers /\ requests \in Seq(Message)
      BY <1>1, <2>1 DEF Init
    <2>6. notified \in BOOLEAN
      BY <1>1 DEF Init
    <2>7. QED  BY <2>3, <2>4, <2>5, <2>6 DEF TypeOK
  <1>3. LockHeld /\ HasMessage /\ SideIsKept
    BY <1>1, BusAssumption DEF Init, LockHeld, HasMessage, SideIsKept, Poster
  <1>4. BusyMeansProducing /\ ConsumerView /\ Noticed /\ ForeverMeansConsumed
    BY <1>1, IndexFacts
    DEF Init, BusyMeansProducing, Producing, ConsumerView, Noticed,
        ForeverMeansConsumed, IsBusy
  <1>5. QED  BY <1>2, <1>3, <1>4 DEF Inv

-----------------------------------------------------------------------------
(***************************************************************************)
(* Steps of a poster.                                                      *)
(***************************************************************************)
LEMMA BeginInv ==
    ASSUME Inv, NEW p \in Poster, Begin(p)
    PROVE  Inv'
  <1> USE DEF Inv, TypeOK
  <1>1. PICK m \in fresh :
            /\ fresh' = fresh \ {m}
            /\ origin' = [origin EXCEPT ![m] = BoxOf(p)]
            /\ pmsg' = [pmsg EXCEPT ![p] = m]
    BY DEF Begin
  <1>2. /\ ppc[p] = "idle" /\ ppc' = [ppc EXCEPT ![p] = "busy"]
        /\ p \in Foreign => lock = None /\ lock' = p
        /\ p \notin Foreign => lock' = lock
        /\ UNCHANGED <<index, buffers, counter, carrierVars>>
    BY DEF Begin, Goto
  <1>3. TypeOK'
    BY <1>1, <1>2, SharedBox DEF carrierVars
  <1>4. LockHeld' /\ HasMessage'
    BY <1>1, <1>2, BusAssumption DEF LockHeld, HasMessage, Poster
  <1>5. BusyMeansProducing' /\ SideIsKept'
    BY <1>2 DEF BusyMeansProducing, Producing, SideIsKept
  <1>6. ConsumerView' /\ Noticed' /\ ForeverMeansConsumed'
    BY <1>2 DEF ConsumerView, Noticed, Announced, WillLook,
                ForeverMeansConsumed, carrierVars
  <1>7. QED  BY <1>3, <1>4, <1>5, <1>6

LEMMA SetBusyInv ==
    ASSUME Inv, NEW p \in Poster, SetBusy(p)
    PROVE  Inv'
  <1> USE DEF Inv, TypeOK
  <1> DEFINE b == BoxOf(p)
  <1>1. /\ ppc[p] = "busy" /\ b \in Box
        /\ index' = [index EXCEPT ![b] = WithBusy(index[b])]
        /\ ppc' = [ppc EXCEPT ![p] = IF Side(index[b]) = 0 THEN "add0" ELSE "add1"]
        /\ UNCHANGED <<buffers, lock, fresh, origin, pmsg, counter, carrierVars>>
    BY SharedBox DEF SetBusy, Goto
  <1>2. /\ index[b] \in 0..3 /\ index'[b] \in 0..3 /\ IsBusy(index'[b])
        /\ Side(index'[b]) = Side(index[b])
        /\ OtherSide(index'[b]) = OtherSide(index[b])
        /\ Side(index[b]) \in 0..1
    BY <1>1, IndexFacts
  <1>3. \A c \in Box : /\ c # b => index'[c] = index[c]
                       /\ Side(index'[c]) = Side(index[c])
                       /\ OtherSide(index'[c]) = OtherSide(index[c])
    BY <1>1, <1>2
  <1>4. TypeOK'
    BY <1>1, <1>2 DEF carrierVars
  <1>5. LockHeld' /\ HasMessage'
    BY <1>1 DEF LockHeld, HasMessage, Poster
  <1>6. BusyMeansProducing'
    BY <1>1, <1>2, <1>3 DEF BusyMeansProducing, Producing
  <1>7. SideIsKept'
    BY <1>1, <1>2, <1>3, SharedBox DEF SideIsKept
  <1>8. ConsumerView' /\ Noticed' /\ ForeverMeansConsumed'
    BY <1>1, <1>3 DEF ConsumerView, Noticed, Announced, WillLook,
                      ForeverMeansConsumed, carrierVars
  <1>9. QED  BY <1>4, <1>5, <1>6, <1>7, <1>8

LEMMA AddTailInv ==
    ASSUME Inv, NEW p \in Poster, AddTail(p)
    PROVE  Inv'
  <1> USE DEF Inv, TypeOK
  <1> DEFINE b == BoxOf(p)  s == LoadedSide(p)
  <1>1. /\ ppc[p] \in {"add0", "add1"} /\ b \in Box /\ s \in 0..1
        /\ buffers' = [buffers EXCEPT ![b][s] = Append(buffers[b][s], pmsg[p])]
        /\ ppc' = [ppc EXCEPT ![p] = "clear"]
        /\ pmsg[p] \in Message
        /\ UNCHANGED <<index, lock, fresh, origin, pmsg, counter, carrierVars>>
    BY SharedBox DEF AddTail, Goto, LoadedSide, HasMessage
  <1>2. s = Side(index[b]) /\ OtherSide(index[b]) # s
        /\ \A c \in Box : OtherSide(index[c]) \in 0..1 /\ Side(index[c]) \in 0..1
    <2>1. \A c \in Box : index[c] \in 0..3
      OBVIOUS
    <2>2. s = Side(index[b])
      BY <1>1 DEF SideIsKept, LoadedSide
    <2>3. QED  BY <1>1, <2>1, <2>2, IndexFacts
  <1>3. /\ \A c \in Box : c # b => buffers'[c] = buffers[c]
        /\ buffers'[b][OtherSide(index[b])] = buffers[b][OtherSide(index[b])]
    BY <1>1, <1>2
  <1>4. TypeOK'
    BY <1>1 DEF carrierVars
  <1>5. LockHeld' /\ HasMessage'
    BY <1>1 DEF LockHeld, HasMessage, Poster
  <1>6. BusyMeansProducing'
    BY <1>1 DEF BusyMeansProducing, Producing
  <1>7. SideIsKept'
    BY <1>1 DEF SideIsKept
  <1>8. ConsumerView' /\ ForeverMeansConsumed'
    BY <1>1, <1>3 DEF ConsumerView, ForeverMeansConsumed, carrierVars
  <1>9. Noticed'
    <2>1. Announced(b)'
      BY <1>1 DEF Announced
    <2>2. ASSUME NEW c \in Box, c # b, buffers'[c][Side(index'[c])] # <<>>
          PROVE  (Announced(c) \/ counter > 0 \/ consumed = 0 \/ WillLook(c))'
      BY <1>1, <1>3, <2>2 DEF Noticed, Announced, WillLook, carrierVars
    <2>3. QED  BY <2>1, <2>2 DEF Noticed
  <1>10. QED  BY <1>4, <1>5, <1>6, <1>7, <1>8, <1>9

LEMMA ClearBusyInv ==
    ASSUME Inv, NEW p \in Poster, ClearBusy(p)
    PROVE  Inv'
  <1> USE DEF Inv, TypeOK
  <1> DEFINE b == BoxOf(p)
  <1>1. /\ ppc[p] = "clear" /\ b \in Box
        /\ index' = [index EXCEPT ![b] = NoBusy(index[b])]
        /\ ppc' = [ppc EXCEPT ![p] = "write"]
        /\ UNCHANGED <<buffers, lock, fresh, origin, pmsg, counter, carrierVars>>
    BY SharedBox DEF ClearBusy, Goto
  <1>2. /\ index[b] \in 0..3 /\ index'[b] \in 0..3 /\ ~ IsBusy(index'[b])
        /\ Side(index'[b]) = Side(index[b])
        /\ OtherSide(index'[b]) = OtherSide(index[b])
    BY <1>1, IndexFacts
  <1>3. \A c \in Box : /\ c # b => index'[c] = index[c]
                       /\ Side(index'[c]) = Side(index[c])
                       /\ OtherSide(index'[c]) = OtherSide(index[c])
    BY <1>1, <1>2
  <1>4. TypeOK'
    BY <1>1, <1>2 DEF carrierVars
  <1>5. LockHeld' /\ HasMessage'
    BY <1>1 DEF LockHeld, HasMessage, Poster
  <1>6. BusyMeansProducing'
    <2>1. \A q \in Poster : BoxOf(q) = b /\ q # p => ppc[q] = "idle"
      BY <1>1, OnePoster
    <2>2. QED
      BY <1>1, <1>2, <1>3, <2>1 DEF BusyMeansProducing, Producing
  <1>7. SideIsKept'
    BY <1>1, <1>2, <1>3, SharedBox DEF SideIsKept
  <1>8. ConsumerView' /\ Noticed' /\ ForeverMeansConsumed'
    BY <1>1, <1>3 DEF ConsumerView, Noticed, Announced, WillLook,
                      ForeverMeansConsumed, carrierVars
  <1>9. QED  BY <1>4, <1>5, <1>6, <1>7, <1>8

LEMMA WriteEventfdInv ==
    ASSUME Inv, NEW p \in Poster, WriteEventfd(p)
    PROVE  Inv'
  <1> USE DEF Inv, TypeOK
  <1>1. /\ ppc[p] = "write" /\ ppc' = [ppc EXCEPT ![p] = "end"]
        /\ counter' = counter + 1 /\ counter \in Nat /\ counter' > 0
        /\ UNCHANGED <<index, buffers, lock, fresh, origin, pmsg, carrierVars>>
    BY DEF WriteEventfd, Goto
  <1>2. TypeOK' /\ LockHeld' /\ HasMessage'
    BY <1>1 DEF carrierVars, LockHeld, HasMessage, Poster
  <1>3. BusyMeansProducing' /\ SideIsKept' /\ ConsumerView'
        /\ ForeverMeansConsumed'
    BY <1>1 DEF BusyMeansProducing, Producing, SideIsKept, ConsumerView,
                ForeverMeansConsumed, carrierVars
  <1>4. Noticed'
    BY <1>1 DEF Noticed
  <1>5. QED  BY <1>2, <1>3, <1>4

LEMMA EndInv ==
    ASSUME Inv, NEW p \in Poster, End(p)
    PROVE  Inv'
  <1> USE DEF Inv, TypeOK
  <1>1. /\ ppc[p] = "end" /\ ppc' = [ppc EXCEPT ![p] = "idle"]
        /\ pmsg' = [pmsg EXCEPT ![p] = None]
        /\ p \in Foreign => lock' = None
        /\ p \notin Foreign => lock' = lock
        /\ UNCHANGED <<index, buffers, fresh, origin, counter, carrierVars>>
    BY DEF End, Goto
  <1>2. TypeOK'
    BY <1>1 DEF carrierVars
  <1>3. LockHeld' /\ HasMessage'
    BY <1>1, BusAssumption DEF LockHeld, HasMessage, Poster
  <1>4. BusyMeansProducing' /\ SideIsKept'
    BY <1>1 DEF BusyMeansProducing, Producing, SideIsKept
  <1>5. ConsumerView' /\ Noticed' /\ ForeverMeansConsumed'
    BY <1>1 DEF ConsumerView, Noticed, Announced, WillLook,
                ForeverMeansConsumed, carrierVars
  <1>6. QED  BY <1>2, <1>3, <1>4, <1>5

LEMMA PostInv ==
    ASSUME Inv, NEW p \in Poster, Post(p)
    PROVE  Inv'
  BY SetBusyInv, AddTailInv, ClearBusyInv, WriteEventfdInv, EndInv DEF Post

-----------------------------------------------------------------------------
(***************************************************************************)
(* Steps of the carrier.                                                   *)
(***************************************************************************)
\* The posters' part of the invariant does not depend on the carrier's state,
\* as long as the carrier swaps no box in which a poster is producing.
LEMMA PostersUndisturbed ==
    ASSUME LockHeld, HasMessage, BusyMeansProducing, SideIsKept,
           UNCHANGED posterVars, UNCHANGED index
    PROVE  LockHeld' /\ HasMessage' /\ BusyMeansProducing' /\ SideIsKept'
  BY DEF LockHeld, HasMessage, BusyMeansProducing, SideIsKept, Producing,
         posterVars

LEMMA PollInv ==
    ASSUME Inv, Poll
    PROVE  Inv'
  <1> USE DEF Inv
  <1>1. /\ rpc = "poll" /\ rpc' = "wait" /\ timeout' \in {-1, 0}
        /\ timeout' = -1 => consumed = 1
        /\ UNCHANGED <<index, buffers, counter, posterVars, consumed, notified,
                       cursor, requests>>
    BY DEF Poll
  <1>2. TypeOK'
    BY <1>1 DEF TypeOK, posterVars
  <1>3. ConsumerView' /\ Noticed' /\ ForeverMeansConsumed'
    BY <1>1 DEF ConsumerView, Noticed, Announced, WillLook,
                ForeverMeansConsumed, posterVars
  <1>4. QED  BY <1>1, <1>2, <1>3, PostersUndisturbed

LEMMA WaitInv ==
    ASSUME Inv, WaitReturns \/ WaitFails
    PROVE  Inv'
  <1> USE DEF Inv
  <1>1. CASE WaitReturns
    <2>1. /\ rpc = "wait" /\ rpc' = "events" /\ consumed' = 1
          /\ notified' \in BOOLEAN
          /\ UNCHANGED <<index, buffers, counter, posterVars, timeout, cursor,
                         requests>>
      BY <1>1 DEF WaitReturns
    <2>2. TypeOK'
      BY <2>1 DEF TypeOK, posterVars
    <2>3. ConsumerView' /\ Noticed' /\ ForeverMeansConsumed'
      BY <2>1 DEF ConsumerView, Noticed, WillLook, ForeverMeansConsumed
    <2>4. QED  BY <2>1, <2>2, <2>3, PostersUndisturbed
  <1>2. CASE WaitFails
    <2>1. TypeOK'
      BY <1>2 DEF WaitFails, TypeOK, posterVars
    <2>2. ConsumerView' /\ Noticed' /\ ForeverMeansConsumed'
      BY <1>2 DEF WaitFails, ConsumerView, Noticed, Announced, WillLook,
                  ForeverMeansConsumed, posterVars
    <2>3. QED  BY <1>2, <2>1, <2>2, PostersUndisturbed DEF WaitFails
  <1>3. QED  BY <1>1, <1>2

LEMMA ReadEventsInv ==
    ASSUME Inv, ReadEvents
    PROVE  Inv'
  <1> USE DEF Inv
  <1>1. /\ rpc = "events" /\ rpc' = "boxes" /\ cursor' = 0
        /\ notified' = FALSE /\ counter' \in {0, counter}
        /\ UNCHANGED <<index, buffers, posterVars, consumed, timeout, requests>>
    BY DEF ReadEvents
  <1>2. TypeOK'
    <2>1. counter' \in Nat /\ cursor' \in 0..NCarriers
      BY <1>1, BusAssumption DEF TypeOK
    <2>2. notified' \in BOOLEAN
      BY <1>1
    <2>3. QED  BY <1>1, <2>1, <2>2 DEF TypeOK, posterVars
  <1>3. ConsumerView' /\ ForeverMeansConsumed'
    BY <1>1 DEF ConsumerView, ForeverMeansConsumed
  <1>4. Noticed'
    BY <1>1 DEF Noticed, WillLook, Box
  <1>5. QED  BY <1>1, <1>2, <1>3, <1>4, PostersUndisturbed

\* A failed swap is remembered in `consumed'; a successful one leaves nothing
\* on the producers' side.
LEMMA SwapBoxInv ==
    ASSUME Inv, SwapBox
    PROVE  Inv'
  <1> USE DEF Inv
  <1>1. /\ rpc = "boxes" /\ rpc' = "drain" /\ cursor \in Box
        /\ cursor < NCarriers /\ cursor' = cursor
        /\ UNCHANGED <<buffers, counter, posterVars, timeout, notified, requests>>
    BY BusAssumption DEF SwapBox, TypeOK, Box
  <1>2. CASE ~ CanSwap(index[cursor])
    <2>1. consumed' = 0 /\ index' = index
      BY <1>2 DEF SwapBox
    <2>2. TypeOK'
      BY <1>1, <2>1 DEF TypeOK, posterVars
    <2>3. ConsumerView' /\ Noticed' /\ ForeverMeansConsumed'
      BY <1>1, <2>1 DEF ConsumerView, Noticed, ForeverMeansConsumed
    <2>4. QED  BY <1>1, <2>1, <2>2, <2>3, PostersUndisturbed
  <1>3. CASE CanSwap(index[cursor])
    <2> DEFINE i == index[cursor]
    <2>1. /\ index' = [index EXCEPT ![cursor] = 1 - i] /\ consumed' = consumed
          /\ i \in 0..3 /\ index'[cursor] = 1 - i
          /\ \A c \in Box : c # cursor => index'[c] = index[c]
      BY <1>1, <1>3 DEF SwapBox, TypeOK
    <2>2. /\ 1 - i \in 0..3 /\ ~ IsBusy(i) /\ ~ IsBusy(1 - i)
          /\ Side(1 - i) = OtherSide(i) /\ OtherSide(1 - i) = Side(i)
      BY <1>3, <2>1, IndexFacts
    <2>3. TypeOK'
      BY <1>1, <2>1, <2>2 DEF TypeOK, posterVars
    <2>4. LockHeld' /\ HasMessage'
      BY <1>1 DEF LockHeld, HasMessage, posterVars
    <2>5. BusyMeansProducing'
      BY <1>1, <2>1, <2>2 DEF BusyMeansProducing, Producing, posterVars
    <2>6. SideIsKept'
      <3>1. \A p \in Poster : Producing(p) => BoxOf(p) # cursor
        BY <1>1, <2>1, <2>2 DEF BusyMeansProducing
      <3>2. QED
        BY <1>1, <2>1, <3>1, SharedBox DEF SideIsKept, Producing, posterVars
    <2>7. buffers[cursor][OtherSide(i)] = <<>>
      BY <1>1 DEF ConsumerView
    <2>8. ConsumerView'
      BY <1>1, <2>1, <2>2 DEF ConsumerView
    <2>9. Noticed'
      <3>1. ASSUME NEW c \in Box, c # cursor, buffers'[c][Side(index'[c])] # <<>>
            PROVE  (Announced(c) \/ counter > 0 \/ consumed = 0 \/ WillLook(c))'
        BY <1>1, <2>1, <3>1 DEF Noticed, Announced, WillLook, posterVars, Box
      <3>2. buffers'[cursor][Side(index'[cursor])] = <<>>
        BY <1>1, <2>1, <2>2, <2>7
      <3>3. QED  BY <3>1, <3>2 DEF Noticed
    <2>10. ForeverMeansConsumed'
      BY <1>1 DEF ForeverMeansConsumed
    <2>11. QED  BY <2>3, <2>4, <2>5, <2>6, <2>8, <2>9, <2>10
  <1>4. QED  BY <1>2, <1>3

LEMMA TakeOneInv ==
    ASSUME Inv, TakeOne
    PROVE  Inv'
  <1> USE DEF Inv
  <1> DEFINE mine == OtherSide(index[cursor])
  <1>1. /\ rpc = "drain" /\ rpc' = rpc /\ cursor \in Box /\ cursor' = cursor
        /\ buffers' = [buffers EXCEPT ![cursor][mine] = Tail(buffers[cursor][mine])]
        /\ buffers[cursor][mine] # <<>>
        /\ requests' = Append(requests, Head(buffers[cursor][mine]))
        /\ UNCHANGED <<index, counter, posterVars, consumed, timeout, notified>>
    BY BusAssumption DEF TakeOne, TypeOK, ConsumerView, Box
  <1>2. /\ \A c \in Box : /\ index[c] \in 0..3 /\ Side(index[c]) \in 0..1
                          /\ OtherSide(index[c]) \in 0..1
                          /\ Side(index[c]) # OtherSide(index[c])
        /\ buffers[cursor][mine] \in Seq(Message)
    <2>1. \A c \in Box : index[c] \in 0..3
      BY DEF TypeOK
    <2>2. QED  BY <1>1, <2>1, IndexFacts DEF TypeOK
  <1>3. \A c \in Box : buffers'[c][Side(index[c])] = buffers[c][Side(index[c])]
                       /\ (c # cursor => buffers'[c] = buffers[c])
    BY <1>1, <1>2 DEF TypeOK
  <1>4. TypeOK'
    BY <1>1, <1>2 DEF TypeOK, posterVars
  <1>5. ConsumerView' /\ ForeverMeansConsumed'
    BY <1>1, <1>3 DEF ConsumerView, ForeverMeansConsumed
  <1>6. Noticed'
    BY <1>1, <1>3 DEF Noticed, Announced, WillLook, posterVars
  <1>7. QED  BY <1>1, <1>4, <1>5, <1>6, PostersUndisturbed

LEMMA BoxDoneInv ==
    ASSUME Inv, BoxDone
    PROVE  Inv'
  <1> USE DEF Inv
  <1>1. /\ rpc = "drain" /\ rpc' = "boxes" /\ cursor \in Box
        /\ cursor' = cursor + 1 /\ cursor' \in 0..NCarriers
        /\ buffers[cursor][OtherSide(index[cursor])] = <<>>
        /\ UNCHANGED <<index, buffers, counter, posterVars, consumed, timeout,
                       notified, requests>>
    BY BusAssumption DEF BoxDone, TypeOK, ConsumerView, Box
  <1>2. TypeOK'
    BY <1>1 DEF TypeOK, posterVars
  <1>3. ConsumerView' /\ ForeverMeansConsumed'
    BY <1>1 DEF ConsumerView, ForeverMeansConsumed
  <1>4. Noticed'
    BY <1>1 DEF Noticed, Announced, WillLook, posterVars, Box
  <1>5. QED  BY <1>1, <1>2, <1>3, <1>4, PostersUndisturbed

LEMMA RefreshDoneInv ==
    ASSUME Inv, RefreshDone
    PROVE  Inv'
  <1> USE DEF Inv
  <1>1. TypeOK'
    BY DEF RefreshDone, TypeOK, posterVars
  <1>2. ConsumerView' /\ ForeverMeansConsumed'
    BY DEF RefreshDone, ConsumerView, ForeverMeansConsumed
  <1>3. Noticed'
    BY BusAssumption DEF RefreshDone, Noticed, Announced, WillLook, posterVars, Box
  <1>4. QED  BY <1>1, <1>2, <1>3, PostersUndisturbed DEF RefreshDone

LEMMA InvNext == Inv /\ [Next]_vars => Inv'
  <1>1. ASSUME Inv, UNCHANGED vars PROVE Inv'
    <2>1. TypeOK'
      BY <1>1 DEF Inv, TypeOK, vars, posterVars, carrierVars
    <2>2. ConsumerView' /\ Noticed' /\ ForeverMeansConsumed'
      BY <1>1 DEF Inv, ConsumerView, Noticed, Announced, WillLook,
                  ForeverMeansConsumed, vars, posterVars, carrierVars
    <2>3. QED  BY <1>1, <2>1, <2>2, PostersUndisturbed DEF Inv, vars
  <1>2. QED
    BY <1>1, BeginInv, PostInv, PollInv, WaitInv, ReadEventsInv, SwapBoxInv,
       TakeOneInv, BoxDoneInv, RefreshDoneInv
    DEF Next, Advance

LEMMA Invariance == Spec => []Inv
  BY InvInit, InvNext, PTL DEF Spec

\* Every variable keeps its type.
THEOREM TypeCorrect == Spec => []TypeOK
  <1>1. Inv => TypeOK
    BY DEF Inv
  <1>2. QED  BY <1>1, Invariance, PTL

\* A carrier that sleeps in epoll_wait without a timeout will be woken for
\* every message that lies in one of its boxes.
THEOREM NeverSleepsOverAMessage == Spec => []NoLostWakeup
  <1>1. Inv => NoLostWakeup
    <2>1. SUFFICES ASSUME Inv, Asleep, NEW b \in Box, NEW s \in 0..1,
                          buffers[b][s] # <<>>
                   PROVE  Announced(b)
      BY DEF NoLostWakeup, Announced
    <2>2. s = Side(index[b]) \/ s = OtherSide(index[b])
      <3>1. index[b] \in 0..3
        BY <2>1 DEF Inv, TypeOK
      <3>2. Side(index[b]) \in 0..1 /\ OtherSide(index[b]) = 1 - Side(index[b])
        BY <3>1, IndexFacts DEF OtherSide
      <3>3. QED  BY <2>1, <3>2
    <2>3. s = Side(index[b])
      BY <2>1, <2>2 DEF Inv, ConsumerView, Asleep
    <2>4. consumed = 1 /\ counter = 0 /\ ~ WillLook(b)
      BY <2>1 DEF Inv, ForeverMeansConsumed, Asleep, WillLook
    <2>5. QED  BY <2>1, <2>3, <2>4 DEF Inv, Noticed
  <1>2. QED  BY <1>1, Invariance, PTL

(***************************************************************************)
(* Each box is a mailbox.  What it takes besides is that a message's origin *)
(* is written before anybody else sees the message, and not again.          *)
(***************************************************************************)
Addressed ==
    /\ \A p \in Poster : pmsg[p] \in Message =>
          pmsg[p] \notin fresh /\ origin[pmsg[p]] = BoxOf(p)
    /\ \A b \in Box, s \in 0..1 : \A m \in Range(buffers[b][s]) :
          m \notin fresh /\ origin[m] = b
    /\ \A m \in Range(requests) : m \notin fresh

MailInv == Inv /\ Addressed

\* The three lists that a box's mail is in.
LEMMA MailTyped ==
    ASSUME TypeOK, NEW b \in Box
    PROVE  /\ Side(index[b]) \in 0..1 /\ OtherSide(index[b]) \in 0..1
           /\ Side(index[b]) # OtherSide(index[b])
           /\ \A s \in 0..1 : buffers[b][s] \in Seq(Message)
           /\ DeliveredFrom(b) \in Seq(Message)
<1>1. index[b] \in 0..3 /\ requests \in Seq(Message)
  BY DEF TypeOK
<1> QED
  BY <1>1, IndexFacts, OnlyFacts DEF TypeOK, DeliveredFrom

LEMMA MailInvInit ==
    ASSUME Init
    PROVE  MailInv /\ \A b \in Box : Mail(b)!MailboxInit
<1>1. /\ \A p \in Poster : pmsg[p] = None
      /\ \A b \in Box : index[b] = 0 /\ \A s \in 0..1 : buffers[b][s] = <<>>
      /\ requests = <<>>
  BY DEF Init
<1>2. Addressed
  BY <1>1, EmptyFacts, BusAssumption DEF Addressed
<1>3. \A b \in Box : DeliveredFrom(b) = <<>>
  BY <1>1, OnlyEmpty DEF DeliveredFrom
<1>4. \A b \in Box : AcceptedBy(b) = <<>>
  <2> TAKE b \in Box
  <2>1. index[b] \in 0..3
    BY <1>1
  <2>2. buffers[b][OtherSide(index[b])] = <<>> /\ buffers[b][Side(index[b])] = <<>>
    BY <1>1, <2>1, IndexFacts
  <2> QED
    BY <1>3, <2>2 DEF AcceptedBy
<1> QED
  BY <1>2, <1>3, <1>4, InvInit DEF MailInv, Mail!MailboxInit

\* A step that leaves the lists alone.
LEMMA MailStays ==
    ASSUME MailInv, UNCHANGED <<buffers, requests, origin>>,
           \A b \in Box : Side(index'[b]) = Side(index[b])
    PROVE  \A b \in Box : UNCHANGED Mail(b)!mailboxVars
<1> TAKE b \in Box
<1>1. DeliveredFrom(b)' = DeliveredFrom(b)
  BY DEF DeliveredFrom
<1>2. AcceptedBy(b)' = AcceptedBy(b)
  BY <1>1 DEF AcceptedBy, OtherSide
<1> QED
  BY <1>1, <1>2 DEF Mail!mailboxVars

LEMMA BeginMails ==
    ASSUME MailInv, NEW p \in Poster, Begin(p)
    PROVE  Addressed' /\ \A b \in Box : UNCHANGED Mail(b)!mailboxVars
<1> USE DEF MailInv, Inv
<1>1. PICK m \in fresh :
         /\ fresh' = fresh \ {m}
         /\ origin' = [origin EXCEPT ![m] = BoxOf(p)]
         /\ pmsg' = [pmsg EXCEPT ![p] = m]
  BY DEF Begin
<1>2. UNCHANGED <<index, buffers, requests>>
  BY DEF Begin, carrierVars
<1>3. m \in Message /\ \A n \in Message : origin'[n] = IF n = m THEN BoxOf(p) ELSE origin[n]
  BY <1>1 DEF TypeOK
<1>4. m \notin Range(requests) /\ \A b \in Box, s \in 0..1 : m \notin Range(buffers[b][s])
  BY DEF Addressed
<1>5. /\ \A b \in Box, s \in 0..1 : Range(buffers[b][s]) \subseteq Message
      /\ Range(requests) \subseteq Message
  BY DEF TypeOK, Range
<1>6. Addressed'
  BY <1>1, <1>2, <1>3, <1>4, <1>5 DEF Addressed, TypeOK
<1>7. ASSUME NEW b \in Box PROVE UNCHANGED Mail(b)!mailboxVars
  <2> DEFINE mine == {n \in Message : origin[n] = b}
             now  == {n \in Message : origin'[n] = b}
  <2>1. Range(requests) \cap mine = Range(requests) \cap now
    BY <1>3, <1>4
  <2>2. Only(requests, mine) = Only(requests, now)
    <3> HIDE DEF mine, now
    <3> QED
      BY <2>1, OnlySame
  <2>3. DeliveredFrom(b)' = DeliveredFrom(b)
    BY <1>2, <2>2 DEF DeliveredFrom
  <2> QED
    BY <1>2, <2>3 DEF Mail!mailboxVars, AcceptedBy
<1> QED
  BY <1>6, <1>7

\* The list_add_tail of a poster accepts its message.
LEMMA AddTailMails ==
    ASSUME MailInv, NEW p \in Poster, AddTail(p)
    PROVE  /\ Addressed'
           /\ \A b \in Box : [Mail(b)!MailboxNext]_(Mail(b)!mailboxVars)
<1> USE DEF MailInv, Inv
<1> DEFINE box == BoxOf(p)  s == LoadedSide(p)
<1>1. /\ box \in Box /\ s \in 0..1 /\ pmsg[p] \in Message
      /\ s = Side(index[box])
      /\ buffers' = [buffers EXCEPT ![box][s] = Append(@, pmsg[p])]
      /\ UNCHANGED <<index, fresh, origin, pmsg, requests>>
  BY SharedBox DEF AddTail, LoadedSide, HasMessage, SideIsKept, carrierVars
<1>2. /\ OtherSide(index[box]) \in 0..1 /\ OtherSide(index[box]) # s
      /\ \A t \in 0..1 : buffers[box][t] \in Seq(Message)
      /\ DeliveredFrom(box) \in Seq(Message)
  BY <1>1, MailTyped
<1>3. /\ buffers'[box][s] = Append(buffers[box][s], pmsg[p])
      /\ buffers'[box][OtherSide(index[box])] = buffers[box][OtherSide(index[box])]
      /\ \A b \in Box : b # box => buffers'[b] = buffers[b]
  BY <1>1, <1>2 DEF TypeOK
<1>4. Addressed'
  <2>1. Range(buffers'[box][s]) = Range(buffers[box][s]) \cup {pmsg[p]}
    BY <1>1, <1>2, <1>3, AppendFacts
  <2>2. \A t \in 0..1 : t # s => t = OtherSide(index[box])
    BY <1>1, <1>2
  <2>3. \A b \in Box, t \in 0..1 : \A m \in Range(buffers'[b][t]) :
           m \in Range(buffers[b][t]) \/ (b = box /\ m = pmsg[p])
    BY <1>1, <1>3, <2>1, <2>2
  <2>4. pmsg[p] \notin fresh /\ origin[pmsg[p]] = box
    BY <1>1 DEF Addressed
  <2> HIDE DEF box
  <2>5. \A b \in Box, t \in 0..1 : \A m \in Range(buffers'[b][t]) :
           m \notin fresh /\ origin[m] = b
    BY <2>3, <2>4 DEF Addressed
  <2> QED
    BY <1>1, <2>5 DEF Addressed
<1>5. \A b \in Box : DeliveredFrom(b)' = DeliveredFrom(b)
  BY <1>1 DEF DeliveredFrom
<1>6. AcceptedBy(box)' = Append(AcceptedBy(box), pmsg[p])
  <2> DEFINE d == DeliveredFrom(box)  o == buffers[box][OtherSide(index[box])]
             q == buffers[box][s]
  <2>1. d \in Seq(Message) /\ o \in Seq(Message) /\ q \in Seq(Message)
    BY <1>1, <1>2
  <2>2. AcceptedBy(box) = (d \o o) \o q
    BY <1>1 DEF AcceptedBy
  <2>3. AcceptedBy(box)' = (d \o o) \o Append(q, pmsg[p])
    BY <1>1, <1>3, <1>5 DEF AcceptedBy
  <2> HIDE DEF d, o, q
  <2>4. d \o o \in Seq(Message)
    BY <2>1, ConcatProperties
  <2> QED
    BY <1>1, <2>1, <2>2, <2>3, <2>4, ConcatAppend
<1>7. Mail(box)!Accept(pmsg[p])
  BY <1>1, <1>5, <1>6 DEF Mail!Accept
<1>8. \A b \in Box : b # box => UNCHANGED Mail(b)!mailboxVars
  BY <1>1, <1>3, <1>5 DEF Mail!mailboxVars, AcceptedBy
<1> QED
  BY <1>1, <1>4, <1>7, <1>8 DEF Mail!MailboxNext

\* The list_del of the carrier delivers.
LEMMA TakeOneMails ==
    ASSUME MailInv, TakeOne
    PROVE  /\ Addressed'
           /\ \A b \in Box : [Mail(b)!MailboxNext]_(Mail(b)!mailboxVars)
<1> USE DEF MailInv, Inv
<1> DEFINE mine == OtherSide(index[cursor])
           m    == Head(buffers[cursor][mine])
<1>1. /\ cursor \in Box /\ buffers[cursor][mine] # <<>>
      /\ buffers' = [buffers EXCEPT ![cursor][mine] = Tail(@)]
      /\ requests' = Append(requests, m)
      /\ UNCHANGED <<index, fresh, origin, pmsg>>
  BY BusAssumption DEF TakeOne, TypeOK, ConsumerView, Box, posterVars
<1>2. /\ mine \in 0..1 /\ Side(index[cursor]) \in 0..1 /\ Side(index[cursor]) # mine
      /\ \A t \in 0..1 : buffers[cursor][t] \in Seq(Message)
      /\ DeliveredFrom(cursor) \in Seq(Message) /\ requests \in Seq(Message)
  BY <1>1, MailTyped DEF TypeOK
<1>3. /\ m \in Message /\ m \in Range(buffers[cursor][mine])
      /\ Range(Tail(buffers[cursor][mine])) \subseteq Range(buffers[cursor][mine])
  BY <1>1, <1>2, TailFacts
<1>4. origin[m] = cursor /\ m \notin fresh
  BY <1>1, <1>2, <1>3 DEF Addressed
<1>5. /\ buffers'[cursor][mine] = Tail(buffers[cursor][mine])
      /\ buffers'[cursor][Side(index[cursor])] = buffers[cursor][Side(index[cursor])]
      /\ \A b \in Box : b # cursor => buffers'[b] = buffers[b]
  BY <1>1, <1>2 DEF TypeOK
<1> HIDE DEF m, mine
<1>6. Addressed'
  <2>1. Range(requests') = Range(requests) \cup {m}
    BY <1>1, <1>2, <1>3, AppendFacts
  <2>2. \A b \in Box, t \in 0..1 : Range(buffers'[b][t]) \subseteq Range(buffers[b][t])
    BY <1>1, <1>2, <1>3, <1>5
  <2> QED
    BY <1>1, <1>4, <2>1, <2>2 DEF Addressed
<1>7. ASSUME NEW b \in Box
      PROVE  DeliveredFrom(b)' = IF b = cursor THEN Append(DeliveredFrom(b), m)
                                               ELSE DeliveredFrom(b)
  <2> DEFINE own == {n \in Message : origin[n] = b}
  <2>1. m \in own <=> b = cursor
    BY <1>3, <1>4
  <2>2. Only(requests', own) =
           IF m \in own THEN Append(Only(requests, own), m) ELSE Only(requests, own)
    <3> HIDE DEF own
    <3> QED
      BY <1>1, <1>2, <1>3, OnlyAppend
  <2> QED
    BY <1>1, <2>1, <2>2 DEF DeliveredFrom
<1>8. \A b \in Box : b # cursor => UNCHANGED Mail(b)!mailboxVars
  BY <1>1, <1>5, <1>7 DEF Mail!mailboxVars, AcceptedBy
<1>9. ASSUME NEW b \in Box, b = cursor
      PROVE  Mail(b)!Deliver
  <2> DEFINE d == DeliveredFrom(b)  o == buffers[b][mine]  q == buffers[b][Side(index[b])]
  <2>1. d \in Seq(Message) /\ o \in Seq(Message) /\ q \in Seq(Message) /\ o # <<>>
    BY <1>1, <1>2, <1>9
  <2>2. AcceptedBy(b) = (d \o o) \o q
    BY <1>9 DEF AcceptedBy, mine
  <2>3. DeliveredFrom(b)' = Append(d, Head(o))
    BY <1>7, <1>9 DEF m
  <2>4. AcceptedBy(b)' = (Append(d, Head(o)) \o Tail(o)) \o q
    BY <1>1, <1>5, <1>9, <2>3 DEF AcceptedBy, mine
  <2>5. d = DeliveredFrom(b)
    OBVIOUS
  <2> HIDE DEF d, o, q
  <2>6. Append(d, Head(o)) \o Tail(o) = d \o o
    BY <2>1, ConcatMoveHead
  <2>7. Len(d) < Len((d \o o) \o q) /\ ((d \o o) \o q)[Len(d) + 1] = Head(o)
    BY <2>1, ConcatNextElement
  <2> QED
    BY <2>2, <2>3, <2>4, <2>5, <2>6, <2>7 DEF Mail!Deliver
<1> QED
  BY <1>6, <1>8, <1>9 DEF Mail!MailboxNext

\* The swap renames the two lists, of which the carrier's is empty.
LEMMA SwapBoxMails ==
    ASSUME MailInv, SwapBox
    PROVE  Addressed' /\ \A b \in Box : UNCHANGED Mail(b)!mailboxVars
<1> USE DEF MailInv, Inv
<1>1. /\ rpc = "boxes" /\ cursor \in Box
      /\ UNCHANGED <<buffers, fresh, origin, pmsg, requests>>
  BY BusAssumption DEF SwapBox, TypeOK, Box, posterVars
<1>2. Addressed'
  BY <1>1 DEF Addressed
<1>3. CASE ~ CanSwap(index[cursor])
  BY <1>1, <1>2, <1>3, MailStays DEF SwapBox
<1>4. CASE CanSwap(index[cursor])
  <2> DEFINE i == index[cursor]
  <2>1. /\ i \in 0..3 /\ index'[cursor] = 1 - i
        /\ \A b \in Box : b # cursor => index'[b] = index[b]
    BY <1>1, <1>4 DEF SwapBox, TypeOK
  <2>2. Side(1 - i) = OtherSide(i) /\ OtherSide(1 - i) = Side(i)
    BY <1>4, <2>1, IndexFacts
  <2>3. buffers[cursor][OtherSide(i)] = <<>>
    BY <1>1 DEF ConsumerView
  <2>4. \A b \in Box : DeliveredFrom(b)' = DeliveredFrom(b)
    BY <1>1 DEF DeliveredFrom
  <2>5. ASSUME NEW b \in Box, b = cursor
        PROVE  AcceptedBy(b)' = AcceptedBy(b)
    <3> DEFINE d == DeliveredFrom(b)  q == buffers[b][Side(i)]
    <3>1. d \in Seq(Message) /\ q \in Seq(Message)
      BY <2>5, MailTyped
    <3>2. AcceptedBy(b) = (d \o <<>>) \o q
      BY <2>3, <2>5 DEF AcceptedBy
    <3>3. AcceptedBy(b)' = (d \o q) \o <<>>
      BY <1>1, <2>1, <2>2, <2>3, <2>4, <2>5 DEF AcceptedBy
    <3> HIDE DEF d, q
    <3>4. d \o q \in Seq(Message) /\ d \o <<>> = d /\ (d \o q) \o <<>> = d \o q
      BY <3>1, ConcatProperties, ConcatEmptySeq
    <3> QED
      BY <3>2, <3>3, <3>4
  <2>6. \A b \in Box : b # cursor => AcceptedBy(b)' = AcceptedBy(b)
    BY <1>1, <2>1, <2>4 DEF AcceptedBy
  <2> QED
    BY <1>1, <1>2, <2>4, <2>5, <2>6 DEF Mail!mailboxVars
<1> QED
  BY <1>3, <1>4

LEMMA OthersMail ==
    ASSUME MailInv,
           \/ \E p \in Poster : SetBusy(p) \/ ClearBusy(p) \/ WriteEventfd(p) \/ End(p)
           \/ Poll \/ WaitReturns \/ WaitFails \/ ReadEvents \/ BoxDone \/ RefreshDone
           \/ UNCHANGED vars
    PROVE  Addressed' /\ \A b \in Box : UNCHANGED Mail(b)!mailboxVars
<1> USE DEF MailInv, Inv
<1>1. ASSUME NEW p \in Poster, SetBusy(p) \/ ClearBusy(p) \/ WriteEventfd(p) \/ End(p)
      PROVE  /\ UNCHANGED <<buffers, fresh, origin, requests>>
             /\ \A q \in Poster : pmsg'[q] \in {pmsg[q], None}
             /\ \A b \in Box : Side(index'[b]) = Side(index[b])
  <2>1. \A b \in Box : index[b] \in 0..3
    BY DEF TypeOK
  <2>2. BoxOf(p) \in Box
    BY SharedBox
  <2>3. \A b \in Box : index'[b] \in {index[b], WithBusy(index[b]), NoBusy(index[b])}
    BY <1>1, <2>2 DEF SetBusy, ClearBusy, WriteEventfd, End, TypeOK
  <2>4. /\ UNCHANGED <<buffers, fresh, origin, requests>>
        /\ \A q \in Poster : pmsg'[q] \in {pmsg[q], None}
    BY <1>1 DEF SetBusy, ClearBusy, WriteEventfd, End, TypeOK, carrierVars
  <2> QED
    BY <2>1, <2>3, <2>4, IndexFacts
<1>2. CASE \/ Poll \/ WaitReturns \/ WaitFails \/ ReadEvents \/ BoxDone \/ RefreshDone
           \/ UNCHANGED vars
  <2>1. UNCHANGED <<index, buffers, fresh, origin, pmsg, requests>>
    BY <1>2 DEF Poll, WaitReturns, WaitFails, ReadEvents, BoxDone, RefreshDone, vars,
                posterVars, carrierVars
  <2>2. Addressed'
    BY <2>1 DEF Addressed
  <2> QED
    BY <2>1, <2>2, MailStays
<1>3. ASSUME NEW p \in Poster, SetBusy(p) \/ ClearBusy(p) \/ WriteEventfd(p) \/ End(p)
      PROVE  Addressed' /\ \A b \in Box : UNCHANGED Mail(b)!mailboxVars
  <2>1. Addressed'
    BY <1>1, <1>3, BusAssumption DEF Addressed
  <2> QED
    BY <1>1, <1>3, <2>1, MailStays
<1> QED
  BY <1>2, <1>3

\* Every box of the bus is a FIFO that loses and repeats nothing, for any number of
\* carriers and foreign threads: through failed swaps, and with one queue of
\* requests for what all of them deliver.
THEOREM BoxesRefine == Spec => BoxesAreMailboxes
<1>1. Init => MailInv /\ \A b \in Box : Mail(b)!MailboxInit
  BY MailInvInit
<1>2. MailInv /\ [Next]_vars => 
         MailInv' /\ \A b \in Box : [Mail(b)!MailboxNext]_(Mail(b)!mailboxVars)
  <2> SUFFICES ASSUME MailInv, [Next]_vars
               PROVE  Addressed' /\ \A b \in Box : [Mail(b)!MailboxNext]_(Mail(b)!mailboxVars)
    BY InvNext DEF MailInv
  <2>1. ASSUME NEW p \in Poster, Begin(p) \/ Post(p)
        PROVE  Addressed' /\ \A b \in Box : [Mail(b)!MailboxNext]_(Mail(b)!mailboxVars)
    BY <2>1, BeginMails, AddTailMails, OthersMail DEF Post
  <2>2. CASE TakeOne
    BY <2>2, TakeOneMails
  <2>3. CASE SwapBox
    BY <2>3, SwapBoxMails
  <2>4. CASE Poll \/ WaitReturns \/ WaitFails \/ ReadEvents \/ BoxDone \/ RefreshDone
             \/ UNCHANGED vars
    BY <2>4, OthersMail
  <2> QED
    BY <2>1, <2>2, <2>3, <2>4 DEF Next, Advance
<1>3. MailInv /\ [Next]_vars =>
         [\A b \in Box : [Mail(b)!MailboxNext]_(Mail(b)!mailboxVars)]_vars
  BY <1>2
<1> QED
  BY <1>1, <1>2, <1>3, PTL DEF Spec, BoxesAreMailboxes
=============================================================================
