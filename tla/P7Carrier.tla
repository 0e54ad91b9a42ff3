----------------------------- MODULE P7Carrier -----------------------------
(***************************************************************************)
(* A carrier of the p7 library (p7/p7impl.c): the thread of sched_loop, the  *)
(* coroutines it runs, and the other carriers that send messages to its     *)
(* coroutines and request new ones.                                        *)
(*                                                                         *)
(* A message travels apart from its wakeup: it lies in a double buffer for   *)
(* each sending carrier (guarded by the index byte alone) until the loop    *)
(* dispatches it to the coroutine's mailbox, while a note in the carrier's   *)
(* pipe makes a coroutine that is in p7_recv runnable.                     *)
(*                                                                         *)
(* A coroutine that has ended waits in dying_queue until the round has       *)
(* dispatched the messages; then its struct p7_coro is pooled or freed, and  *)
(* serves another coroutine.  What is sent is addressed to the struct.  What *)
(* a thread does with a struct that was freed is modelled as long as malloc  *)
(* gives its memory to nothing but another struct.                          *)
(*                                                                         *)
(* The model stops where the code goes astray: when it is about to resume a  *)
(* coroutine that has ended, or when it blocks itself in a write to its pipe.*)
(*                                                                         *)
(* A poster's or-fetch of BUSY and its load of the side are one step: the    *)
(* side cannot change while BUSY is set.                                    *)
(***************************************************************************)
EXTENDS IndexByte, Lists

CONSTANTS Coro, Started,      \* structs p7_coro; those in use from the start
          Entry, Mortal,      \* what is requested to run; what comes to its end
          Careful,            \* what sets a mailbox cleaner
          PoolCap,            \* P7_CORO_POOL_CAP
          ByName,             \* does anybody call p7_send_by_name?
          NCarriers,          \* this carrier is number 0
          Message, Dst,       \* messages and the coroutines they are sent to
          UsesTimers, UsesIo, \* which calls do the coroutines make?
          MayRefuse,          \* may epoll_ctl refuse a descriptor?
          PipeCap,            \* the notes that condpipe has room for
          Pipe,               \* the event of condpipe
          None

\* What the other carriers fill: box 0 is rq_queues (mailbox 0 stays empty, for
\* this carrier uses localbox), the others are their mailboxes.
Rq      == 0
Box     == 0 .. NCarriers - 1
Carrier == 1 .. NCarriers - 1

ASSUME P7Assumption ==
    /\ Started \subseteq Coro /\ IsFiniteSet(Started) /\ Dst \in [Message -> Coro]
    /\ Mortal \subseteq Coro \cup Entry /\ Careful \subseteq Coro \cup Entry
    /\ NCarriers \in Nat \ {0} /\ PoolCap \in Nat /\ PipeCap \in Nat \ {0}
    /\ UsesTimers \in BOOLEAN /\ UsesIo \in BOOLEAN /\ ByName \in BOOLEAN
    /\ MayRefuse \in BOOLEAN
    /\ Coro \cap Message = {} /\ Entry \cap (Coro \cup Message) = {}
    /\ {Pipe, None} \cap (Coro \cup Entry \cup Message) = {}
    /\ None \notin Box

VARIABLES
    index, buffers,   \* active_idx and queue[2] of every box
    lock,             \* rq_queue_lock: the poster that holds it
    origin,           \* of each message: its box, or None while it is not sent
    meant,            \* and what its receiver ran when it was sent
    fresh,            \* the entries that nobody has requested
    ppc, pitem,       \* the other carriers: where they are, and with what
    named, decay,     \* those that send by name; ->decay of each struct
    pipe,             \* condpipe: SENT notes by their coroutine, None is WAKEUP
    coroQueue, blocked, running,   \* sched_info
    resched, recv,    \* the coroutines with ->resched, with FLAG_RECV
    mode,             \* what a coroutine does: "run", "recv", "io", "iorecv", "concat"
    refused,          \* those that got FLAG_RECV from a refused descriptor
    body, alive,      \* what a struct runs, or None; those with STATUS_ALIVE
    following,        \* who waits in p7_coro_concat for its end
    dying, pool, heap,  \* dying_queue, coro_pool_tl, and what malloc may return
    fd, timer,        \* its registration and its timer
    mailbox, local,   \* mailboxes of the coroutines, localbox
    dispatched,       \* what was put into mailboxes, in order
    cpc, timeout, batch, cursor    \* sched_loop

boxVars    == <<index, buffers>>
sentVars   == <<origin, meant, fresh>>
postVars   == <<lock, ppc, pitem, named>>
sharedVars == <<boxVars, sentVars, postVars, decay, pipe>>
queueVars  == <<coroQueue, blocked, dying, running, resched, recv, mode, refused>>
lifeVars   == <<body, alive, following, pool, heap>>
mailVars   == <<mailbox, local, dispatched>>
coroVars   == <<queueVars, lifeVars, fd, timer, mailVars>>
roundVars  == <<timeout, batch, cursor>>
loopVars   == <<cpc, roundVars>>
ownVars    == <<coroVars, loopVars>>
vars       == <<sharedVars, ownVars>>

Init ==
    /\ index = [b \in Box |-> 0]
    /\ buffers = [b \in Box |-> [s \in 0..1 |-> <<>>]]
    /\ lock = None
    /\ origin = [m \in Message |-> None] /\ meant = [m \in Message |-> None]
    /\ fresh = Entry
    /\ ppc = [p \in Carrier |-> "idle"] /\ pitem = [p \in Carrier |-> None]
    /\ named = {} /\ decay = [c \in Coro |-> 0]
    /\ pipe = <<>>
    /\ coroQueue \in Orders(Started) /\ blocked = {} /\ running = None
    /\ resched = {} /\ recv = {} /\ refused = {}
    /\ mode = [c \in Coro |-> "run"]
    /\ body = [c \in Coro |-> IF c \in Started THEN c ELSE None]
    /\ alive = Started /\ following = [c \in Coro |-> None]
    /\ dying = <<>> /\ pool = <<>> /\ heap = Coro \ Started
    /\ fd = [c \in Coro |-> "none"] /\ timer = [c \in Coro |-> "none"]
    /\ mailbox = [c \in Coro |-> <<>>] /\ local = <<>> /\ dispatched = <<>>
    /\ cpc = "timeout" /\ timeout = "now" /\ batch = {} /\ cursor = 0

Waiting(b)  == Range(buffers[b][0]) \cup Range(buffers[b][1])
Unsent      == {m \in Message : /\ origin[m] = None /\ Dst[m] \in alive
                                /\ \A p \in Carrier : pitem[p] # m}

\* The bound of the model: requests are made while Coro has a struct for each.
Coming  == Entry \cap (Waiting(Rq) \cup
                      {pitem[p] : p \in {q \in Carrier : ppc[q] # "write"}})
HasRoom == Cardinality(Coming) + Cardinality({c \in Coro : body[c] # None})
               < Cardinality(Coro)

(***************************************************************************)
(* The other carriers: p7_send_by_entity, p7_send_by_name and               *)
(* coro_create_request.                                                    *)
(***************************************************************************)
BoxOf(p) == IF pitem[p] \in Entry THEN Rq ELSE p

\* Where p has a message or a request under way to the box, and the pipe.
Stages    == {"idle", "found", "counted", "busy", "add0", "add1", "clear", "write",
              "uncount"}
InBox(p)  == ppc[p] \in {"add0", "add1", "clear", "write"}
Posts(p)  == ppc[p] = "busy" \/ InBox(p)

\* p7_send_by_entity finds its receiver alive.
BeginSend(p) ==
    /\ ppc[p] = "idle"
    /\ \E m \in Unsent :
          /\ pitem' = [pitem EXCEPT ![p] = m]
          /\ origin' = [origin EXCEPT ![m] = p]
          /\ meant' = [meant EXCEPT ![m] = body[Dst[m]]]
    /\ ppc' = [ppc EXCEPT ![p] = "busy"]
    /\ UNCHANGED <<boxVars, fresh, lock, named, decay, pipe, ownVars>>

\* p7_send_by_name: p7_namespace_find, which finds no coroutine that has ended if
\* that has discarded its name, the increment of ->decay, and the test of the
\* status in p7_send_by_entity.
FindName(p) ==
    /\ ByName /\ ppc[p] = "idle"
    /\ \E m \in Unsent :
          /\ pitem' = [pitem EXCEPT ![p] = m]
          /\ meant' = [meant EXCEPT ![m] = body[Dst[m]]]
    /\ named' = named \cup {p}
    /\ ppc' = [ppc EXCEPT ![p] = "found"]
    /\ UNCHANGED <<boxVars, origin, fresh, lock, decay, pipe, ownVars>>

CountIn(p) ==
    /\ ppc[p] = "found"
    /\ decay' = [decay EXCEPT ![Dst[pitem[p]]] = @ + 1]
    /\ ppc' = [ppc EXCEPT ![p] = "counted"]
    /\ UNCHANGED <<boxVars, sentVars, lock, pitem, named, pipe, ownVars>>

TestStatus(p) ==
    /\ ppc[p] = "counted"
    /\ IF Dst[pitem[p]] \in alive
       THEN /\ origin' = [origin EXCEPT ![pitem[p]] = p]
            /\ ppc' = [ppc EXCEPT ![p] = "busy"]
       ELSE ppc' = [ppc EXCEPT ![p] = "uncount"] /\ UNCHANGED origin
    /\ UNCHANGED <<boxVars, meant, fresh, lock, pitem, named, decay, pipe, ownVars>>

\* ->decay is unsigned: what is counted out after p7_coro_new has reset it makes it
\* very large, and here negative; that it is not 0 is all that matters.
CountOut(p) ==
    /\ ppc[p] = "uncount"
    /\ decay' = [decay EXCEPT ![Dst[pitem[p]]] = @ - 1]
    /\ ppc' = [ppc EXCEPT ![p] = "idle"] /\ pitem' = [pitem EXCEPT ![p] = None]
    /\ named' = named \ {p}
    /\ UNCHANGED <<boxVars, sentVars, lock, pipe, ownVars>>

BeginRequest(p) ==
    /\ ppc[p] = "idle" /\ lock = None /\ HasRoom
    /\ \E e \in fresh : pitem' = [pitem EXCEPT ![p] = e] /\ fresh' = fresh \ {e}
    /\ lock' = p
    /\ ppc' = [ppc EXCEPT ![p] = "busy"]
    /\ UNCHANGED <<boxVars, origin, meant, named, decay, pipe, ownVars>>

SetBusy(p) ==
    /\ ppc[p] = "busy"
    /\ index' = [index EXCEPT ![BoxOf(p)] = WithBusy(@)]
    /\ ppc' = [ppc EXCEPT ![p] = IF Side(index[BoxOf(p)]) = 0 THEN "add0" ELSE "add1"]
    /\ UNCHANGED <<buffers, sentVars, lock, pitem, named, decay, pipe, ownVars>>

AddTail(p) ==
    /\ ppc[p] \in {"add0", "add1"}
    /\ buffers' = [buffers EXCEPT ![BoxOf(p)][IF ppc[p] = "add0" THEN 0 ELSE 1] =
                                      Append(@, pitem[p])]
    /\ ppc' = [ppc EXCEPT ![p] = "clear"]
    /\ UNCHANGED <<index, sentVars, lock, pitem, named, decay, pipe, ownVars>>

ClearBusy(p) ==
    /\ ppc[p] = "clear"
    /\ index' = [index EXCEPT ![BoxOf(p)] = NoBusy(@)]
    /\ lock' = IF lock = p THEN None ELSE lock
    /\ ppc' = [ppc EXCEPT ![p] = "write"]
    /\ UNCHANGED <<buffers, sentVars, pitem, named, decay, pipe, ownVars>>

Note(item) == IF item \in Entry THEN None ELSE Dst[item]

\* A fault: the test of is_blocking, which is commented out in the code.
NotedIfBlocking(p) == IF cpc = "sleep" THEN Append(pipe, Note(pitem[p])) ELSE pipe

Noted(p) == Append(pipe, Note(pitem[p]))

\* The writing end of condpipe is not O_NONBLOCK: a full pipe blocks the writer.
WritePipe(p) ==
    /\ ppc[p] = "write" /\ Len(pipe) < PipeCap
    /\ pipe' = Noted(p)
    /\ IF p \in named
       THEN ppc' = [ppc EXCEPT ![p] = "uncount"] /\ UNCHANGED pitem
       ELSE ppc' = [ppc EXCEPT ![p] = "idle"] /\ pitem' = [pitem EXCEPT ![p] = None]
    /\ UNCHANGED <<boxVars, sentVars, lock, named, decay, ownVars>>

Post(p) == \/ CountIn(p) \/ TestStatus(p) \/ SetBusy(p) \/ AddTail(p) \/ ClearBusy(p)
           \/ WritePipe(p) \/ CountOut(p)

(***************************************************************************)
(* sched_loop up to the choice of the next coroutine.                       *)
(***************************************************************************)
Due == {c \in Coro : timer[c] = "due"}

HasWork == coroQueue # <<>> \/ Waiting(Rq) # {}

\* The timeout of epoll_wait.  The earliest timer bounds it only when it is not
\* due yet.
ComputeTimeout ==
    /\ cpc = "timeout" /\ lock = None
    /\ timeout' = IF HasWork THEN "now"
                  ELSE IF Due = {} /\ \E c \in Coro : timer[c] = "armed" THEN "timer"
                  ELSE "ever"
    /\ cpc' = "sleep"
    /\ UNCHANGED <<sharedVars, coroVars, batch, cursor>>

Ready == {c \in Coro : fd[c] = "ready"} \cup (IF pipe = <<>> THEN {} ELSE {Pipe})

\* epoll reports all that is ready; descriptors are EPOLLONESHOT.
EpollReturns ==
    /\ cpc = "sleep" /\ Ready # {}
    /\ batch' = Ready
    /\ fd' = [c \in Coro |-> IF c \in Ready THEN "reported" ELSE fd[c]]
    /\ cpc' = "expire"
    /\ UNCHANGED <<sharedVars, queueVars, lifeVars, timer, mailVars, timeout,
                   cursor>>

\* The timeout is over, or a signal came: the loop goes on with no events.
EpollTimesOut ==
    /\ cpc = "sleep" /\ (timeout = "now" => Ready = {})
    /\ timeout # "ever"
    /\ cpc' = "expire"
    /\ UNCHANGED <<sharedVars, coroVars, roundVars>>

EpollFails ==
    /\ cpc = "sleep"
    /\ cpc' = "expire"
    /\ UNCHANGED <<sharedVars, coroVars, roundVars>>

\* A fault: ->resched is not tested.
RescheduleTwice(c) ==
    /\ coroQueue' = Append(coroQueue, c)
    /\ blocked' = blocked \ {c} /\ dying' = dying
    /\ resched' = resched \cup {c}

\* What makes c runnable moves it to the end of coro_queue, once, from any list.
Reschedule(c) ==
    IF c \in resched THEN UNCHANGED <<coroQueue, blocked, dying, resched>>
    ELSE /\ coroQueue' = Append(Without(coroQueue, c), c)
         /\ blocked' = blocked \ {c} /\ dying' = Without(dying, c)
         /\ resched' = resched \cup {c}

ExpireTimer ==
    /\ cpc = "expire"
    /\ \E c \in Due :
          /\ timer' = [timer EXCEPT ![c] = "triggered"]
          /\ Reschedule(c)
    /\ UNCHANGED <<sharedVars, running, recv, mode, refused, lifeVars, fd, mailVars,
                   loopVars>>

TimersDone ==
    /\ cpc = "expire" /\ Due = {}
    /\ cpc' = "events"
    /\ UNCHANGED <<sharedVars, coroVars, roundVars>>

HandleIo ==
    /\ cpc = "events"
    /\ \E c \in batch \cap Coro :
          /\ batch' = batch \ {c}
          /\ Reschedule(c)
    /\ UNCHANGED <<sharedVars, running, recv, mode, refused, lifeVars, fd, timer,
                   mailVars, cpc, timeout, cursor>>

BeginPipe ==
    /\ cpc = "events" /\ Pipe \in batch
    /\ batch' = batch \ {Pipe} /\ cpc' = "pipe"
    /\ UNCHANGED <<sharedVars, coroVars, timeout, cursor>>

\* p7_intern_handle_sent wakes a coroutine with FLAG_RECV, p7_intern_handle_wakeup
\* does nothing.
ReadPipe ==
    /\ cpc = "pipe" /\ pipe # <<>>
    /\ Head(pipe) \in recv => Head(pipe) \in alive
    /\ pipe' = Tail(pipe)
    /\ IF Head(pipe) \in recv
       THEN Reschedule(Head(pipe)) /\ recv' = recv \ {Head(pipe)}
       ELSE UNCHANGED <<coroQueue, blocked, dying, resched, recv>>
    /\ UNCHANGED <<boxVars, sentVars, postVars, decay, running, mode, refused,
                   lifeVars, fd, timer, mailVars, loopVars>>

\* The status of a coroutine that has ended still has the flag: it would be moved
\* from dying_queue to coro_queue.
WakeTheDead ==
    /\ cpc = "pipe" /\ pipe # <<>> /\ Head(pipe) \in recv \ alive
    /\ cpc' = "astray"
    /\ UNCHANGED <<sharedVars, coroVars, roundVars>>

PipeDone ==
    /\ cpc = "pipe" /\ pipe = <<>>
    /\ cpc' = "events"
    /\ UNCHANGED <<sharedVars, coroVars, roundVars>>

EventsDone ==
    /\ cpc = "events" /\ batch = {}
    /\ cpc' = "swap" /\ cursor' = 0
    /\ UNCHANGED <<sharedVars, coroVars, timeout, batch>>

\* A fault: a store instead of the compare-and-exchange.
SwappedUnchecked(b) == OtherSide(index[b])

\* The compare-and-exchange fails when a poster is busy, and nothing is tried
\* again in this round.
Swapped(b) == IF CanSwap(index[b]) THEN OtherSide(index[b]) ELSE index[b]

SwapBox ==
    /\ cpc = "swap" /\ cursor < NCarriers
    /\ index' = [index EXCEPT ![cursor] = Swapped(cursor)]
    /\ cpc' = "drain"
    /\ UNCHANGED <<buffers, sentVars, postVars, decay, pipe, coroVars, roundVars>>

\* p7_coro_new takes the first struct of the pool, or gets one from the heap: c
\* runs e.  What lies in the mailbox of a pooled struct stays there.
Create(c, e) ==
    /\ IF pool = <<>> THEN c \in heap ELSE c = Head(pool)
    /\ pool' = IF pool = <<>> THEN pool ELSE Tail(pool)
    /\ heap' = heap \ {c}
    /\ mailbox' = IF pool = <<>> THEN [mailbox EXCEPT ![c] = <<>>] ELSE mailbox
    /\ body' = [body EXCEPT ![c] = e] /\ alive' = alive \cup {c}
    /\ resched' = resched \ {c} /\ decay' = [decay EXCEPT ![c] = 0]

TakeRequest ==
    LET mine == OtherSide(index[Rq])
        e    == Head(buffers[Rq][mine])
    IN  /\ cpc = "drain" /\ cursor = Rq /\ buffers[Rq][mine] # <<>>
        /\ buffers' = [buffers EXCEPT ![Rq][mine] = Tail(@)]
        /\ \E c \in Coro : Create(c, e) /\ coroQueue' = Append(coroQueue, c)
    /\ UNCHANGED <<index, sentVars, postVars, pipe, blocked, dying, running, recv,
                   mode, refused, following, fd, timer, local, dispatched, loopVars>>

\* mailbox_dispatch puts the message into the mailbox of a struct that is alive,
\* and destroys it otherwise.  What the status of a struct says that was freed
\* makes no difference: then too nobody gets the message.
Dispatched(m) ==
    /\ mailbox' = IF Dst[m] \in alive THEN [mailbox EXCEPT ![Dst[m]] = Append(@, m)]
                  ELSE mailbox
    /\ dispatched' = Append(dispatched, m)

DispatchOne ==
    LET mine == OtherSide(index[cursor])
    IN  /\ cpc = "drain" /\ cursor # Rq /\ buffers[cursor][mine] # <<>>
        /\ buffers' = [buffers EXCEPT ![cursor][mine] = Tail(@)]
        /\ Dispatched(Head(buffers[cursor][mine]))
    /\ UNCHANGED <<index, sentVars, postVars, decay, pipe, queueVars, lifeVars, fd,
                   timer, local, loopVars>>

BoxDone ==
    /\ cpc = "drain" /\ buffers[cursor][OtherSide(index[cursor])] = <<>>
    /\ cursor' = cursor + 1
    /\ cpc' = "swap"
    /\ UNCHANGED <<sharedVars, coroVars, timeout, batch>>

DispatchLocal ==
    /\ cpc = "swap" /\ cursor = NCarriers /\ local # <<>>
    /\ local' = Tail(local)
    /\ Dispatched(Head(local))
    /\ UNCHANGED <<sharedVars, queueVars, lifeVars, fd, timer, loopVars>>

\* A fault: the dying are dead before the mail is dispatched.
MayBuryAtOnce == cpc = "swap" /\ cursor = NCarriers

MayBury == cpc = "swap" /\ cursor = NCarriers /\ local = <<>>

\* A struct with ->decay leaves dying_queue for good, the others are deleted: that
\* is decided first and done next, and a sender by name may come between.
Decide ==
    /\ MayBury /\ dying # <<>>
    /\ IF decay[Head(dying)] = 0
       THEN cpc' = "bury" /\ UNCHANGED dying
       ELSE dying' = Tail(dying) /\ UNCHANGED cpc
    /\ UNCHANGED <<sharedVars, coroQueue, blocked, running, resched, recv, mode,
                   refused, lifeVars, fd, timer, mailVars, roundVars>>

\* A pooled struct has nobody who waits for its end.
Unfollowed(c) == [following EXCEPT ![c] = None]

\* p7_coro_delete.
Bury ==
    LET c == Head(dying)
    IN  /\ cpc = "bury" /\ cpc' = "swap"
        /\ dying' = Tail(dying)
        /\ body' = [body EXCEPT ![c] = None]
        /\ recv' = recv \ {c}
        /\ following' = Unfollowed(c)
        /\ IF Len(pool) < PoolCap THEN pool' = Append(pool, c) /\ UNCHANGED heap
           ELSE heap' = heap \cup {c} /\ UNCHANGED pool
    /\ UNCHANGED <<sharedVars, coroQueue, blocked, running, resched, mode, refused,
                   alive, fd, timer, mailVars, roundVars>>

\* A fault: the coroutine that gave way stays in front.
TurnedNot == coroQueue

\* A coroutine that gave way goes to the end, unless it was moved already.
Turned == IF running # None /\ Head(coroQueue) = running
          THEN Append(Tail(coroQueue), running) ELSE coroQueue

Pick ==
    /\ cpc = "swap" /\ cursor = NCarriers /\ local = <<>> /\ dying = <<>>
    /\ IF coroQueue = <<>>
       THEN cpc' = "timeout" /\ UNCHANGED <<coroQueue, running, resched>>
       ELSE /\ coroQueue' = Turned
            /\ running' = Head(Turned)
            /\ resched' = resched \ {Head(Turned)}
            /\ cpc' = "resume"
    /\ UNCHANGED <<sharedVars, blocked, dying, recv, mode, refused, lifeVars, fd,
                   timer, mailVars, roundVars>>

(***************************************************************************)
(* The running coroutine.                                                  *)
(***************************************************************************)
\* It comes back from the call in which it was blocked: p7_recv takes a message
\* if there is one (and returns NULL if there is none), p7_iowrap_ unregisters
\* the descriptor, and the timed macros remove the timer.
Resume ==
    /\ cpc = "resume"
    /\ mode' = [mode EXCEPT ![running] = "run"]
    /\ recv' = IF mode[running] \in {"recv", "iorecv"} THEN recv \ {running} ELSE recv
    /\ mailbox' = IF mode[running] = "recv" /\ mailbox[running] # <<>>
                  THEN [mailbox EXCEPT ![running] = Tail(@)] ELSE mailbox
    /\ fd' = [fd EXCEPT ![running] = "none"]
    /\ timer' = [timer EXCEPT ![running] = "none"]
    /\ cpc' = "run"
    /\ UNCHANGED <<sharedVars, coroQueue, blocked, dying, running, resched, refused,
                   lifeVars, local, dispatched, roundVars>>

\* p7_coro_yield.
Yield ==
    /\ cpc = "run"
    /\ cpc' = "timeout"
    /\ UNCHANGED <<sharedVars, coroVars, roundVars>>

\* The coroutine leaves coro_queue and the thread, with or without a timer.
Block(how) ==
    /\ mode' = [mode EXCEPT ![running] = how]
    /\ coroQueue' = Without(coroQueue, running)
    /\ blocked' = blocked \cup {running}
    /\ running' = None
    /\ \/ UNCHANGED timer
       \/ UsesTimers /\ timer' = [timer EXCEPT ![running] = "armed"]
    /\ cpc' = "timeout"

\* p7_recv and p7_recv_timed.
TakeMessage ==
    /\ cpc = "run" /\ mailbox[running] # <<>>
    /\ mailbox' = [mailbox EXCEPT ![running] = Tail(@)]
    /\ UNCHANGED <<sharedVars, queueVars, lifeVars, fd, timer, local, dispatched,
                   loopVars>>

\* A fault: the coroutine blocks without saying that it receives.
BlockInRecvUnmarked ==
    /\ cpc = "run" /\ mailbox[running] = <<>>
    /\ Block("recv")
    /\ UNCHANGED <<sharedVars, dying, resched, recv, refused, lifeVars, fd, mailVars,
                   roundVars>>

BlockInRecv ==
    /\ cpc = "run" /\ mailbox[running] = <<>>
    /\ recv' = recv \cup {running}
    /\ Block("recv")
    /\ UNCHANGED <<sharedVars, dying, resched, refused, lifeVars, fd, mailVars,
                   roundVars>>

\* p7_iowrap_, or p7_io_notify_with_recv_ with nothing in the mailbox.
BlockOnIo ==
    /\ UsesIo /\ cpc = "run"
    /\ \/ Block("io") /\ UNCHANGED recv
       \/ mailbox[running] = <<>> /\ Block("iorecv") /\ recv' = recv \cup {running}
    /\ fd' = [fd EXCEPT ![running] = "watched"]
    /\ UNCHANGED <<sharedVars, dying, resched, refused, lifeVars, mailVars,
                   roundVars>>

\* epoll_ctl fails: p7_io_notify_with_recv_ returns and leaves FLAG_RECV set.
IoNotifyFails ==
    /\ UsesIo /\ MayRefuse /\ cpc = "run" /\ mailbox[running] = <<>>
    /\ recv' = recv \cup {running} /\ refused' = refused \cup {running}
    /\ UNCHANGED <<sharedVars, coroQueue, blocked, dying, running, resched, mode,
                   lifeVars, fd, timer, mailVars, loopVars>>

\* p7_send_by_entity, or p7_send_by_name, to a coroutine of this carrier.  Nobody
\* else reads the pipe: when it is full, the carrier never returns from write.
SendLocal ==
    /\ cpc = "run"
    /\ \E m \in Unsent :
          /\ origin' = [origin EXCEPT ![m] = 0]
          /\ meant' = [meant EXCEPT ![m] = body[Dst[m]]]
          /\ local' = Append(local, m)
          /\ IF Len(pipe) < PipeCap THEN pipe' = Append(pipe, Dst[m]) /\ UNCHANGED cpc
             ELSE cpc' = "stuck" /\ UNCHANGED pipe
    /\ UNCHANGED <<boxVars, fresh, postVars, decay, queueVars, lifeVars, fd, timer,
                   mailbox, dispatched, roundVars>>

\* coro_create_request when it is this carrier's turn.
CreateLocal ==
    /\ cpc = "run" /\ HasRoom
    /\ \E c \in Coro, e \in fresh :
          Create(c, e) /\ coroQueue' = Append(coroQueue, c) /\ fresh' = fresh \ {e}
    /\ UNCHANGED <<boxVars, origin, meant, postVars, pipe, blocked, dying, running,
                   recv, mode, refused, following, fd, timer, local, dispatched,
                   loopVars>>

\* p7_coro_concat: the running coroutine is blocked until the new one ends.
Concat ==
    /\ cpc = "run" /\ HasRoom
    /\ \E c \in Coro, e \in fresh :
          /\ Create(c, e) /\ fresh' = fresh \ {e}
          /\ following' = [following EXCEPT ![c] = running]
          /\ coroQueue' = Append(Without(coroQueue, running), c)
    /\ blocked' = blocked \cup {running} /\ running' = None
    /\ mode' = [mode EXCEPT ![running] = "concat"]
    /\ cpc' = "timeout"
    /\ UNCHANGED <<boxVars, origin, meant, postVars, pipe, dying, recv, refused, fd,
                   timer, local, dispatched, roundVars>>

\* The mailbox is emptied by the cleaner, if the coroutine has set one.
Cleaned(c) == IF body[c] \in Careful THEN [mailbox EXCEPT ![c] = <<>>] ELSE mailbox

\* limbo_loop.
End ==
    LET left     == Without(coroQueue, running)
        follower == following[running]
    IN  /\ cpc = "run" /\ body[running] \in Mortal
        /\ follower \in alive \cup {None}
        /\ alive' = alive \ {running}
        /\ mailbox' = Cleaned(running)
        /\ coroQueue' = IF follower = None THEN left
                        ELSE Append(Without(left, follower), follower)
        /\ blocked' = blocked \ {follower}
        /\ dying' = Append(dying, running)
        /\ running' = None
        /\ cpc' = "timeout"
    /\ UNCHANGED <<sharedVars, resched, recv, mode, refused, body, following, pool,
                   heap, fd, timer, local, dispatched, roundVars>>

\* Its parent has left p7_coro_concat and ended: limbo_loop would put that into
\* coro_queue.
WakeDeadParent ==
    /\ cpc = "run" /\ body[running] \in Mortal
    /\ following[running] \notin alive \cup {None}
    /\ cpc' = "astray"
    /\ UNCHANGED <<sharedVars, coroVars, roundVars>>

\* The outside world.
BecomesReady(c) ==
    /\ fd[c] = "watched"
    /\ fd' = [fd EXCEPT ![c] = "ready"]
    /\ UNCHANGED <<sharedVars, queueVars, lifeVars, timer, mailVars, loopVars>>

Elapse(c) ==
    /\ timer[c] = "armed"
    /\ timer' = [timer EXCEPT ![c] = "due"]
    /\ UNCHANGED <<sharedVars, queueVars, lifeVars, fd, mailVars, loopVars>>

Loop == \/ ComputeTimeout \/ ExpireTimer \/ TimersDone \/ HandleIo \/ BeginPipe
        \/ ReadPipe \/ PipeDone \/ EventsDone \/ SwapBox \/ TakeRequest
        \/ DispatchOne \/ BoxDone \/ DispatchLocal \/ Decide \/ Bury \/ Pick \/ Resume

Leave == Yield \/ BlockInRecv \/ BlockOnIo \/ End

Next == \/ Loop \/ EpollReturns \/ EpollTimesOut \/ EpollFails
        \/ Leave \/ TakeMessage \/ IoNotifyFails \/ SendLocal \/ CreateLocal \/ Concat
        \/ WakeTheDead \/ WakeDeadParent
        \/ \E p \in Carrier : BeginSend(p) \/ FindName(p) \/ BeginRequest(p) \/ Post(p)
        \/ \E c \in Coro : BecomesReady(c) \/ Elapse(c)

Spec == Init /\ [][Next]_vars

\* Carriers go on; a coroutine receives what it can and comes back to the
\* scheduler; timers and signals are nothing to rely on.
Fairness ==
    /\ \A p \in Carrier : WF_vars(Post(p))
    /\ WF_vars(Loop) /\ SF_vars(EpollReturns) /\ WF_vars(EpollTimesOut)
    /\ WF_vars(Leave) /\ SF_vars(TakeMessage)

LiveSpec == Spec /\ Fairness

-----------------------------------------------------------------------------
\* The variables are in their ranges.
TypeOK ==
    /\ index \in [Box -> 0..3]
    /\ buffers \in [Box -> [0..1 -> Seq(Message \cup Entry)]]
    /\ lock \in Carrier \cup {None}
    /\ origin \in [Message -> Box \cup {None}]
    /\ ppc \in [Carrier -> Stages]
    /\ pitem \in [Carrier -> Message \cup Entry \cup {None}] /\ named \subseteq Carrier
    /\ decay \in [Coro -> Int]
    /\ meant \in [Message -> Coro \cup Entry \cup {None}] /\ fresh \subseteq Entry
    /\ pipe \in Seq(Coro \cup {None})
    /\ coroQueue \in Seq(Coro) /\ blocked \subseteq Coro
    /\ running \in Coro \cup {None}
    /\ resched \subseteq Coro /\ recv \subseteq Coro /\ refused \subseteq Coro
    /\ mode \in [Coro -> {"run", "recv", "io", "iorecv", "concat"}]
    /\ body \in [Coro -> Coro \cup Entry \cup {None}] /\ alive \subseteq Coro
    /\ following \in [Coro -> Coro \cup {None}]
    /\ dying \in Seq(Coro) /\ pool \in Seq(Coro) /\ heap \subseteq Coro
    /\ fd \in [Coro -> {"none", "watched", "ready", "reported"}]
    /\ timer \in [Coro -> {"none", "armed", "due", "triggered"}]
    /\ mailbox \in [Coro -> Seq(Message)] /\ local \in Seq(Message)
    /\ dispatched \in Seq(Message)
    /\ cpc \in {"timeout", "sleep", "expire", "events", "pipe", "swap", "drain", "bury",
                "resume", "run", "stuck", "astray"}
    /\ timeout \in {"now", "timer", "ever"}
    /\ batch \subseteq Coro \cup {Pipe} /\ cursor \in 0 .. NCarriers

\* A struct is in one place: one that is alive in coro_queue or blocked, others in
\* dying_queue, the pool or the heap, or lost to a send by name.
StructsPlaced ==
    /\ Once(coroQueue) /\ Once(dying) /\ Once(pool)
    /\ Range(coroQueue) \cap blocked = {} /\ Range(coroQueue) \cup blocked = alive
    /\ (alive \cup Range(dying)) \cap (Range(pool) \cup heap) = {}
    /\ alive \cap Range(dying) = {} /\ Range(pool) \cap heap = {}
    /\ Len(pool) <= PoolCap
    /\ \A c \in Coro : body[c] = None <=> c \in Range(pool) \cup heap
    /\ ~ ByName => alive \cup Range(dying) \cup Range(pool) \cup heap = Coro

\* p7_coro_concat returns when the child has ended and not before, unless epoll_ctl
\* has refused the parent a descriptor: then it has FLAG_RECV, and a message ends
\* the wait.
ParentsWait ==
    \A c \in alive : following[c] # None =>
        \/ following[c] \in blocked /\ mode[following[c]] = "concat"
        \/ following[c] \in refused

\* A struct is in one place, and runs what it runs alone; who waits for a child
\* waits until it has ended.  A coroutine that is blocked is in a call that
\* something can end: FLAG_RECV is set, or its descriptor is registered or its
\* event at hand, or the child that it waits for is alive.
QueuesConsistent ==
    /\ TypeOK /\ StructsPlaced /\ ParentsWait
    /\ \A c, d \in Coro : body[c] = body[d] /\ c # d => body[c] = None
    /\ resched \subseteq Range(coroQueue)
    /\ running # None => running \in Range(coroQueue)
    /\ cpc \in {"resume", "run"} => running = Head(coroQueue)
    /\ \A c \in blocked :
          /\ mode[c] \in {"recv", "iorecv"} => c \in recv
          /\ mode[c] \in {"io", "iorecv"} => fd[c] \in {"watched", "ready"} \/ c \in batch
          /\ mode[c] = "concat" => \E d \in alive : following[d] = c
          /\ mode[c] # "run"

\* A message that a coroutine of the carrier sent is put into the mailbox of the
\* coroutine it is for, or destroyed: the struct serves another one only when the
\* mail has been dispatched.  It stays in that mailbox no longer than its receiver
\* lives, if that has set a cleaner.
LocalMailKeepsLife ==
    \A m \in Message : origin[m] = 0 =>
        /\ m \in Range(local) => body[Dst[m]] = meant[m]
        /\ m \in Range(mailbox[Dst[m]]) /\ meant[m] \in Careful
               => body[Dst[m]] = meant[m]

\* "Now we're safe", says the comment on the burial of those that have ended: what
\* the carrier's own coroutines sent them is not received by what runs in their
\* structs later, whether they have set a cleaner or not.
MailKeepsLife ==
    \A m \in Message : origin[m] = 0 /\ m \in Range(mailbox[Dst[m]])
                            => body[Dst[m]] \in {meant[m], None}

\* "Now we're safe" of those that a sender by name holds: what it posts is for the
\* coroutine that it found.
NamedSendKeepsLife ==
    \A p \in named : Posts(p) => body[Dst[pitem[p]]] = meant[pitem[p]]

\* "R.I.P. dying workers": none of those that have ended is resumed.
DeadRest == cpc # "astray"

\* No two threads are at the same list of a box: the carrier takes from one side
\* while a poster with BUSY set adds to the other.
NoListRace ==
    cpc = "drain" => \A p \in Carrier :
        BoxOf(p) = cursor /\ ppc[p] \in {"add0", "add1"} =>
            ppc[p] = (IF Side(index[cursor]) = 0 THEN "add0" ELSE "add1")

\* A carrier that sleeps for ever, with an empty pipe, has nothing to do: what is
\* in a box is of a poster that will write to the pipe.
NoLostWakeup ==
    cpc = "sleep" /\ timeout = "ever" /\ pipe = <<>> =>
        /\ coroQueue = <<>> /\ local = <<>>
        /\ \A b \in Box : Waiting(b) # {} =>
               \E p \in Carrier : BoxOf(p) = b /\ InBox(p)

\* The messages for c that it has not been handed.
Pending(c) == {m \in Message : Dst[m] = c /\ origin[m] # None /\
                  \/ m \in Range(mailbox[c]) \/ m \in Range(local)
                  \/ \E b \in Box : m \in Waiting(b)}

\* The carrier that sent m sends to another coroutine too.  Then the note of m may
\* be read while that carrier is busy in the box of m.
SendsElsewhere(m) ==
    \E n \in Message : origin[n] = origin[m] /\ origin[m] \in Carrier /\ Dst[n] # Dst[m]

\* A coroutine that is blocked in p7_recv and has a message in its mailbox or on
\* the way has a SENT note too, or is about to get one.
SentNoteFollows ==
    \A c \in blocked : mode[c] = "recv" => \A m \in Pending(c) :
        \/ c \in Range(pipe) \/ cpc = "stuck"
        \/ \E p \in Carrier : Posts(p) /\ Note(pitem[p]) = c
        \/ SendsElsewhere(m)

\* A timer bounds the sleep: "expire ALL available timers now", says the comment
\* after epoll_wait, which an unbounded sleep does not reach.
TimersBoundSleep ==
    cpc = "sleep" /\ timeout = "ever" => \A c \in blocked : timer[c] # "due"

\* A box of messages delivers first in, first out.
DeliveredFrom(b) == Only(dispatched, {m \in Message : origin[m] = b})
AcceptedBy(b) == DeliveredFrom(b) \o buffers[b][OtherSide(index[b])]
                                  \o buffers[b][Side(index[b])]

Mail(b) == INSTANCE Mailbox WITH accepted <- AcceptedBy(b),
                                 delivered <- DeliveredFrom(b)

\* Every mailbox between two carriers is a FIFO, across failed swaps.
\* (This is \A p \in Carrier : Mail(p)!MailboxSpec in a form that TLC evaluates.)
BoxesAreMailboxes ==
    /\ \A p \in Carrier : Mail(p)!MailboxInit
    /\ [][\A p \in Carrier : [Mail(p)!MailboxNext]_(Mail(p)!mailboxVars)]_vars

\* What is sent to a coroutine that lives and keeps receiving, rather than to wait
\* for a child, is handed to it, if the carrier that sent it sends to no other one.
MessagesReceived ==
    \A m \in Message : m \in Pending(Dst[m]) ~>
        \/ m \notin Pending(Dst[m]) \/ SendsElsewhere(m)
        \/ Dst[m] \notin alive \/ mode[Dst[m]] = "concat"

\* What was requested runs.
RequestsRun ==
    \A e \in Entry : e \in Waiting(Rq) ~> running # None /\ body[running] = e
=============================================================================
