----------------------------- MODULE MessageBus -----------------------------
(***************************************************************************)
(* The bus of one p7r scheduler (p7r/p7r_uthread.c): a message box per      *)
(* carrier, an eventfd that posters write after they have produced, and    *)
(* the loop of sched_bus_refresh in which the carrier sleeps in epoll_wait *)
(* and empties the boxes.                                                  *)
(*                                                                         *)
(* Box c is filled by carrier c alone, except the scheduler's own box,     *)
(* which all foreign threads share under foreign_request_mutex.            *)
(*                                                                         *)
(* CpBuffer has the boxes in full detail.  Here a producer's load of the   *)
(* index is one step with its setting of BUSY, and the consumer's test of   *)
(* its own list, which is empty, and load of the index are one step with   *)
(* its swap: CpBuffer shows (LoadedSide and ConsumerView of its inductive  *)
(* invariant) that no other thread can tell.                               *)
(***************************************************************************)
EXTENDS IndexByte, Integers, Lists

CONSTANTS NCarriers,    \* scheduler->n_carriers
          Self,         \* the index of this scheduler
          Foreign,      \* threads that are not carriers
          Message,      \* messages that will ever be allocated
          None          \* no message, no poster

Box    == 0 .. NCarriers - 1
Poster == (Box \ {Self}) \cup Foreign

ASSUME BusAssumption ==
    /\ NCarriers \in Nat \ {0}
    /\ Self \in Box
    /\ Foreign \cap Box = {}
    /\ None \notin Message \cup Poster

BoxOf(p) == IF p \in Foreign THEN Self ELSE p

VARIABLES index, buffers,   \* the boxes
          lock,             \* foreign_request_mutex[Self]
          fresh,            \* messages not allocated yet
          origin,           \* the box each message was posted to
          ppc, pmsg,        \* where each poster is, and its message
          counter,          \* the eventfd fd_notification
          consumed,         \* bus.consumed
          rpc,              \* where the carrier is in sched_bus_refresh
          timeout,          \* of epoll_wait: 0, or -1 for ever
          notified,         \* epoll_wait reported the eventfd
          cursor,           \* carrier_index of phase 4
          requests          \* messages moved to the request queue, in order

posterVars  == <<lock, fresh, origin, ppc, pmsg>>
carrierVars == <<consumed, rpc, timeout, notified, cursor, requests>>
vars == <<index, buffers, counter, posterVars, carrierVars>>

Init ==
    /\ index = [b \in Box |-> 0]
    /\ buffers = [b \in Box |-> [s \in 0..1 |-> <<>>]]
    /\ lock = None
    /\ fresh = Message
    /\ origin = [m \in Message |-> Self]
    /\ ppc = [p \in Poster |-> "idle"]
    /\ pmsg = [p \in Poster |-> None]
    /\ counter = 0
    /\ consumed = 1
    /\ rpc = "poll"
    /\ timeout = 0
    /\ notified = FALSE
    /\ cursor = 0
    /\ requests = <<>>

(***************************************************************************)
(* A poster: p7r_uthread_create_ on another carrier, p7r_execute or         *)
(* p7r_submit on a foreign thread, down to p7r_u2cc_message_post.           *)
(***************************************************************************)
Goto(p, label) == ppc' = [ppc EXCEPT ![p] = label]

\* Allocate the message and, on a foreign thread, take the lock first.
Begin(p) ==
    /\ ppc[p] = "idle"
    /\ IF p \in Foreign THEN lock = None /\ lock' = p ELSE UNCHANGED lock
    /\ \E m \in fresh :
          /\ fresh' = fresh \ {m}
          /\ origin' = [origin EXCEPT ![m] = BoxOf(p)]
          /\ pmsg' = [pmsg EXCEPT ![p] = m]
    /\ Goto(p, "busy")
    /\ UNCHANGED <<index, buffers, counter, carrierVars>>

SetBusy(p) ==
    /\ ppc[p] = "busy"
    /\ index' = [index EXCEPT ![BoxOf(p)] = WithBusy(@)]
    /\ Goto(p, IF Side(index[BoxOf(p)]) = 0 THEN "add0" ELSE "add1")
    /\ UNCHANGED <<buffers, lock, fresh, origin, pmsg, counter, carrierVars>>

LoadedSide(p) == IF ppc[p] = "add0" THEN 0 ELSE 1

AddTail(p) ==
    /\ ppc[p] \in {"add0", "add1"}
    /\ buffers' = [buffers EXCEPT ![BoxOf(p)][LoadedSide(p)] =
                                      Append(@, pmsg[p])]
    /\ Goto(p, "clear")
    /\ UNCHANGED <<index, lock, fresh, origin, pmsg, counter, carrierVars>>

ClearBusy(p) ==
    /\ ppc[p] = "clear"
    /\ index' = [index EXCEPT ![BoxOf(p)] = NoBusy(@)]
    /\ Goto(p, "write")
    /\ UNCHANGED <<buffers, lock, fresh, origin, pmsg, counter, carrierVars>>

WriteEventfd(p) ==
    /\ ppc[p] = "write"
    /\ counter' = counter + 1
    /\ Goto(p, "end")
    /\ UNCHANGED <<index, buffers, lock, fresh, origin, pmsg, carrierVars>>

End(p) ==
    /\ ppc[p] = "end"
    /\ lock' = IF p \in Foreign THEN None ELSE lock
    /\ pmsg' = [pmsg EXCEPT ![p] = None]
    /\ Goto(p, "idle")
    /\ UNCHANGED <<index, buffers, fresh, origin, counter, carrierVars>>

(***************************************************************************)
(* The carrier: the phases of sched_bus_refresh.                           *)
(***************************************************************************)
\* Phase 1.  No timer is ever attached to bus.timers, so the timeout is -1
\* unless the last round left something behind or a uthread is runnable; the
\* queue of runnable uthreads may be empty or not at each call.
Poll ==
    /\ rpc = "poll"
    /\ \E runnable \in BOOLEAN :
          timeout' = IF consumed = 1 /\ ~ runnable THEN -1 ELSE 0
    /\ rpc' = "wait"
    /\ UNCHANGED <<index, buffers, counter, posterVars, consumed, notified,
                   cursor, requests>>

\* epoll_wait returns what is ready.  The eventfd may be left out although it
\* is readable, when the event buffer is full of other descriptors.
WaitReturns ==
    /\ rpc = "wait"
    /\ \E reported, others \in BOOLEAN :
          /\ reported => counter > 0
          /\ counter > 0 => reported \/ others
          /\ timeout = -1 => reported \/ others
          /\ notified' = reported
    /\ consumed' = 1
    /\ rpc' = "events"
    /\ UNCHANGED <<index, buffers, counter, posterVars, timeout, cursor,
                   requests>>

\* epoll_wait fails (EINTR): the rest of the refresh is skipped.
WaitFails ==
    /\ rpc = "wait"
    /\ rpc' = "poll"
    /\ UNCHANGED <<index, buffers, counter, posterVars, consumed, timeout,
                   notified, cursor, requests>>

\* Phase 3: the read takes the whole counter.
ReadEvents ==
    /\ rpc = "events"
    /\ counter' = IF notified THEN 0 ELSE counter
    /\ notified' = FALSE
    /\ cursor' = 0
    /\ rpc' = "boxes"
    /\ UNCHANGED <<index, buffers, posterVars, consumed, timeout, requests>>

\* A fault: `consumed' is assigned, not and-ed, so that the last box decides.
SwapBoxOverwriting ==
    /\ rpc = "boxes"
    /\ cursor < NCarriers
    /\ IF CanSwap(index[cursor])
       THEN index' = [index EXCEPT ![cursor] = 1 - @] /\ consumed' = 1
       ELSE consumed' = 0 /\ UNCHANGED index
    /\ rpc' = "drain"
    /\ UNCHANGED <<buffers, counter, posterVars, timeout, notified, cursor,
                   requests>>

\* A fault: the sides are swapped without looking at BUSY.
SwapBoxUnchecked ==
    /\ rpc = "boxes"
    /\ cursor < NCarriers
    /\ index' = [index EXCEPT ![cursor] = 1 - @]
    /\ rpc' = "drain"
    /\ UNCHANGED <<buffers, counter, posterVars, consumed, timeout, notified,
                   cursor, requests>>

\* Phase 4 for one box: try to swap its lists and remember in `consumed'
\* whether that worked,
SwapBox ==
    /\ rpc = "boxes"
    /\ cursor < NCarriers
    /\ IF CanSwap(index[cursor])
       THEN index' = [index EXCEPT ![cursor] = 1 - @] /\ UNCHANGED consumed
       ELSE consumed' = 0 /\ UNCHANGED index
    /\ rpc' = "drain"
    /\ UNCHANGED <<buffers, counter, posterVars, timeout, notified, cursor,
                   requests>>

\* then move the list that is the consumer's to the request queue.
TakeOne ==
    LET mine == OtherSide(index[cursor])
    IN  /\ rpc = "drain"
        /\ buffers[cursor][mine] # <<>>
        /\ requests' = Append(requests, Head(buffers[cursor][mine]))
        /\ buffers' = [buffers EXCEPT ![cursor][mine] = Tail(@)]
        /\ UNCHANGED <<index, counter, posterVars, consumed, rpc, timeout,
                       notified, cursor>>

BoxDone ==
    /\ rpc = "drain"
    /\ buffers[cursor][OtherSide(index[cursor])] = <<>>
    /\ cursor' = cursor + 1
    /\ rpc' = "boxes"
    /\ UNCHANGED <<index, buffers, counter, posterVars, consumed, timeout,
                   notified, requests>>

\* A fault: the eventfd is read after the boxes instead of before.
RefreshDoneReadsLate ==
    /\ rpc = "boxes"
    /\ cursor = NCarriers
    /\ counter' = 0
    /\ rpc' = "poll"
    /\ UNCHANGED <<index, buffers, posterVars, consumed, timeout, notified,
                   cursor, requests>>

\* The refresh returns; the carrier runs uthreads and comes back.
RefreshDone ==
    /\ rpc = "boxes"
    /\ cursor = NCarriers
    /\ rpc' = "poll"
    /\ UNCHANGED <<index, buffers, counter, posterVars, consumed, timeout,
                   notified, cursor, requests>>

Post(p) == SetBusy(p) \/ AddTail(p) \/ ClearBusy(p) \/ WriteEventfd(p) \/ End(p)
Advance == Poll \/ ReadEvents \/ SwapBox \/ TakeOne \/ BoxDone \/ RefreshDone

Next == Advance \/ WaitReturns \/ WaitFails
        \/ \E p \in Poster : Begin(p) \/ Post(p)

Spec == Init /\ [][Next]_vars

\* The kernel has to wake the carrier only for its timeout or its eventfd: that
\* some other descriptor becomes ready is nothing to rely on.
Wake == (timeout = 0 \/ counter > 0) /\ WaitReturns

\* A poster that has begun goes on; the carrier goes on, uthreads giving it
\* back sooner or later; signals do not interrupt every epoll_wait.
Fairness ==
    /\ \A p \in Poster : WF_vars(Post(p))
    /\ WF_vars(Advance)
    /\ SF_vars(Wake)

LiveSpec == Spec /\ Fairness

-----------------------------------------------------------------------------
TypeOK ==
    /\ index \in [Box -> 0..3]
    /\ buffers \in [Box -> [0..1 -> Seq(Message)]]
    /\ lock \in Foreign \cup {None}
    /\ fresh \subseteq Message
    /\ origin \in [Message -> Box]
    /\ ppc \in [Poster -> {"idle", "busy", "add0", "add1", "clear", "write", "end"}]
    /\ pmsg \in [Poster -> Message \cup {None}]
    /\ counter \in Nat
    /\ consumed \in 0..1
    /\ rpc \in {"poll", "wait", "events", "boxes", "drain"}
    /\ timeout \in {-1, 0}
    /\ notified \in BOOLEAN
    /\ cursor \in 0..NCarriers
    /\ requests \in Seq(Message)

\* The carrier sleeps until something happens on a descriptor.
Asleep == rpc = "wait" /\ timeout = -1 /\ counter = 0

\* The messages that lie in box b.
Waiting(b) == UNION {Range(buffers[b][s]) : s \in 0..1}

\* While the carrier sleeps for ever, a box holds messages only if the poster
\* of one of them is between its list_add_tail and its write to the eventfd.
\* So no message is left to a wakeup that has been consumed already, and none
\* waits because the swap met another poster's BUSY: that is what the eventfd
\* being read before the boxes, and `consumed', are for.
NoLostWakeup ==
    Asleep => \A b \in Box :
                 (\E s \in 0..1 : buffers[b][s] # <<>>) =>
                     \E p \in Poster : BoxOf(p) = b /\ ppc[p] \in {"clear", "write"}

\* What box b has delivered, and in order of acceptance what it ever held.
DeliveredFrom(b) == Only(requests, {m \in Message : origin[m] = b})
AcceptedBy(b) == DeliveredFrom(b) \o buffers[b][OtherSide(index[b])]
                                  \o buffers[b][Side(index[b])]

Mail(b) == INSTANCE Mailbox WITH accepted <- AcceptedBy(b),
                                 delivered <- DeliveredFrom(b)

\* A message that a poster has produced reaches the request queue.
EveryPostArrives ==
    \A m \in Message : (\E b \in Box : m \in Waiting(b)) ~> m \in Range(requests)

\* Each box is a mailbox: the request queue receives what one poster (or the
\* foreign threads together) produced in the order of production, once each.
\* (This is \A b \in Box : Mail(b)!MailboxSpec in a form that TLC evaluates.)
BoxesAreMailboxes ==
    /\ \A b \in Box : Mail(b)!MailboxInit
    /\ [][\A b \in Box : [Mail(b)!MailboxNext]_(Mail(b)!mailboxVars)]_vars
=============================================================================
