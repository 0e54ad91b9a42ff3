------------------------------ MODULE CpBuffer ------------------------------
(***************************************************************************)
(* One message box of a p7r scheduler (p7r/p7r_cpbuffer.h): two lists, a    *)
(* byte `index' whose bit 0 names the list the producer appends to and      *)
(* whose bit 1 says that a producer is busy, and a consumer that owns the  *)
(* other list and swaps the two when its own is empty.                     *)
(*                                                                         *)
(* Producers of one box are serialised by a spin lock, as the foreign      *)
(* threads are in p7r_api.c.  Each atomic access of the index is a step of  *)
(* its own; list_add_tail and the consumer's list_del are not atomic in    *)
(* the code, and NoListRace says that they never meet on one list.         *)
(***************************************************************************)
EXTENDS IndexByte, Naturals, Sequences

CONSTANTS Producer,     \* threads posting to this box
          Message,      \* messages that will ever be allocated for it
          NoProducer,   \* the lock is free
          NoMessage     \* a producer has no message at hand

ASSUME NoneAssumption == NoProducer \notin Producer /\ NoMessage \notin Message

VARIABLES index,        \* index_producer: side + 2 * busy
          consuming,    \* outcome of the consumer's last swap attempt
          buffers,      \* the two lists
          lock,         \* foreign_request_mutex[target]
          fresh,        \* messages not allocated yet
          ppc,          \* where each producer is
          pmsg,         \* the message it posts
          pside,        \* the side it loaded
          cpc,          \* where the consumer is
          cside,        \* desired_index, then the list that it drains
          delivered     \* messages handed over to the scheduler, in order

boxVars == <<index, consuming, buffers, lock, fresh, ppc, pmsg, pside,
          cpc, cside, delivered>>

BoxInit ==
    /\ index = 0
    /\ consuming = 1
    /\ buffers = [s \in 0..1 |-> <<>>]
    /\ lock = NoProducer
    /\ fresh = Message
    /\ ppc = [p \in Producer |-> "idle"]
    /\ pmsg = [p \in Producer |-> NoMessage]
    /\ pside = [p \in Producer |-> 0]
    /\ cpc = "check"
    /\ cside = 0
    /\ delivered = <<>>

Goto(p, label) == ppc' = [ppc EXCEPT ![p] = label]

(***************************************************************************)
(* A producer: p7r_execute/p7r_submit take the lock, cp_buffer_produce     *)
(* sets BUSY, loads the index, appends and clears BUSY, and the caller     *)
(* releases the lock.                                                      *)
(***************************************************************************)
consumerVars == <<consuming, cpc, cside, delivered>>

AcquireLock(p) ==
    /\ ppc[p] = "idle"
    /\ lock = NoProducer
    /\ lock' = p
    /\ \E m \in fresh :
          /\ fresh' = fresh \ {m}
          /\ pmsg' = [pmsg EXCEPT ![p] = m]
    /\ Goto(p, "busy")
    /\ UNCHANGED <<index, buffers, pside, consumerVars>>

SetBusy(p) ==
    /\ ppc[p] = "busy"
    /\ index' = WithBusy(index)
    /\ Goto(p, "load")
    /\ UNCHANGED <<buffers, lock, fresh, pmsg, pside, consumerVars>>

LoadSide(p) ==
    /\ ppc[p] = "load"
    /\ pside' = [pside EXCEPT ![p] = Side(index)]
    /\ Goto(p, "add")
    /\ UNCHANGED <<index, buffers, lock, fresh, pmsg, consumerVars>>

\* A fault: list_add instead of list_add_tail.
AddHead(p) ==
    /\ ppc[p] = "add"
    /\ buffers' = [buffers EXCEPT ![pside[p]] = <<pmsg[p]>> \o @]
    /\ Goto(p, "clear")
    /\ UNCHANGED <<index, lock, fresh, pmsg, pside, consumerVars>>

AddTail(p) ==
    /\ ppc[p] = "add"
    /\ buffers' = [buffers EXCEPT ![pside[p]] = Append(@, pmsg[p])]
    /\ Goto(p, "clear")
    /\ UNCHANGED <<index, lock, fresh, pmsg, pside, consumerVars>>

ClearBusy(p) ==
    /\ ppc[p] = "clear"
    /\ index' = NoBusy(index)
    /\ Goto(p, "unlock")
    /\ UNCHANGED <<buffers, lock, fresh, pmsg, pside, consumerVars>>

ReleaseLock(p) ==
    /\ ppc[p] = "unlock"
    /\ lock' = NoProducer
    /\ pmsg' = [pmsg EXCEPT ![p] = NoMessage]
    /\ Goto(p, "idle")
    /\ UNCHANGED <<index, buffers, fresh, pside, consumerVars>>

(***************************************************************************)
(* The consumer: cp_buffer_consume, then the loop of sched_bus_refresh     *)
(* that moves every message of the list it got to the request queue.       *)
(***************************************************************************)
producerVars == <<lock, fresh, ppc, pmsg, pside>>

\* The plain read of the index and the test of the consumer's own list.
CheckOwnSide ==
    /\ cpc = "check"
    /\ IF buffers[OtherSide(index)] = <<>>
       THEN cpc' = "load" /\ UNCHANGED cside
       ELSE cpc' = "drain" /\ cside' = OtherSide(index)
    /\ UNCHANGED <<index, consuming, buffers, delivered, producerVars>>

\* A fault: the loaded index is not normalised.
LoadDesiredRaw ==
    /\ cpc = "load"
    /\ cside' = index
    /\ cpc' = "swap"
    /\ UNCHANGED <<index, consuming, buffers, delivered, producerVars>>

LoadDesired ==
    /\ cpc = "load"
    /\ cside' = Side(index)
    /\ cpc' = "swap"
    /\ UNCHANGED <<index, consuming, buffers, delivered, producerVars>>

\* A fault: a plain store of the flipped side, whatever BUSY says.
SwapUnchecked ==
    /\ cpc = "swap"
    /\ index' = 1 - cside
    /\ consuming' = 1
    /\ cside' = OtherSide(index')
    /\ cpc' = "drain"
    /\ UNCHANGED <<buffers, delivered, producerVars>>

\* The compare-and-exchange expects the bare side, so it fails while BUSY is
\* set; either way the list returned is the one the producer is not sent to.
Swap ==
    /\ cpc = "swap"
    /\ index' = IF index = cside THEN 1 - cside ELSE index
    /\ consuming' = IF index = cside THEN 1 ELSE 0
    /\ cside' = OtherSide(index')
    /\ cpc' = "drain"
    /\ UNCHANGED <<buffers, delivered, producerVars>>

TakeOne ==
    /\ cpc = "drain"
    /\ buffers[cside] # <<>>
    /\ delivered' = Append(delivered, Head(buffers[cside]))
    /\ buffers' = [buffers EXCEPT ![cside] = Tail(@)]
    /\ UNCHANGED <<index, consuming, cpc, cside, producerVars>>

DrainDone ==
    /\ cpc = "drain"
    /\ buffers[cside] = <<>>
    /\ cpc' = "check"
    /\ UNCHANGED <<index, consuming, buffers, cside, delivered, producerVars>>

Produce(p) == AcquireLock(p) \/ SetBusy(p) \/ LoadSide(p) \/ AddTail(p)
              \/ ClearBusy(p) \/ ReleaseLock(p)

Consume == CheckOwnSide \/ LoadDesired \/ Swap \/ TakeOne \/ DrainDone

BoxNext == Consume \/ \E p \in Producer : Produce(p)

BoxSpec == BoxInit /\ [][BoxNext]_boxVars

-----------------------------------------------------------------------------
BoxTypeOK ==
    /\ index \in 0..3
    /\ consuming \in 0..1
    /\ buffers \in [0..1 -> Seq(Message)]
    /\ lock \in Producer \cup {NoProducer}
    /\ fresh \subseteq Message
    /\ ppc \in [Producer -> {"idle", "busy", "load", "add", "clear", "unlock"}]
    /\ pmsg \in [Producer -> Message \cup {NoMessage}]
    /\ pside \in [Producer -> 0..1]
    /\ cpc \in {"check", "load", "swap", "drain"}
    /\ cside \in 0..1
    /\ delivered \in Seq(Message)

\* The list the consumer reads (check) or unlinks from (drain).
ConsumerTouches(s) ==
    \/ cpc = "check" /\ s = OtherSide(index)
    \/ cpc = "drain" /\ s = cside

ProducerTouches(p, s) == ppc[p] = "add" /\ s = pside[p]

\* A list is never appended to by a producer while the consumer reads it or
\* unlinks from it, nor by two producers at once: this is what the BUSY bit
\* and the spin lock are for, list_add_tail itself being several plain stores.
NoListRace ==
    \A p \in Producer, s \in 0..1 :
        ProducerTouches(p, s) =>
            /\ ~ ConsumerTouches(s)
            /\ \A q \in Producer : ProducerTouches(q, s) => q = p

\* When cp_buffer_consume is entered the consumer's list is empty, so that it
\* always tries to swap: `consuming' is never the answer of an earlier call.
\* It holds because the caller drains the list it got completely.
EntersDrained == cpc = "check" => buffers[OtherSide(index)] = <<>>

\* The box as the mailbox its users rely on: in order of acceptance the
\* messages are those delivered, those on the consumer's side, and those on
\* the producer's side.
accepted == delivered \o buffers[OtherSide(index)] \o buffers[Side(index)]

Box == INSTANCE Mailbox

\* Messages leave the box in the order of their list_add_tail, none is lost
\* and none is delivered twice, however produce and consume interleave.
ImplementsMailbox == Box!MailboxSpec
=============================================================================
