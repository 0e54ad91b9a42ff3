----------------------------- MODULE Scheduler -----------------------------
(***************************************************************************)
(* One p7r carrier and its scheduler (p7r/p7r_uthread.c): the uthreads that *)
(* run cooperatively on it, the queues they move through, the requests     *)
(* that it turns into uthreads, and the refresh of its bus, during which    *)
(* it may sleep in epoll_wait.                                             *)
(*                                                                         *)
(* Everything here happens on one thread.  The program counter `pc' says    *)
(* where that thread is: in the user's code of the uthread `running', or   *)
(* at a step of sched_bus_refresh and sched_resched_target, called from    *)
(* `site' on the stack of `exec'.  The message boxes are abstracted to one *)
(* FIFO `inbox', which is what MessageBus shows them to be.                *)
(***************************************************************************)
EXTENDS Lists

CONSTANTS Slot,           \* stacks, hence uthreads: a uthread lives on its stack
          Main,           \* main_uthread, on the stack of main()
          Request,        \* uthread requests, each made once
          Submitted,      \* those that p7r_submit makes, with a future
          MainWork,       \* what main_uthread executes
          Fd, BadFd,      \* descriptors, and those that epoll refuses
          SharedFds,      \* may two uthreads wait for one descriptor?
          UseTimeouts,    \* do the programs use P7R_DELEGATION_TIMED?
          None, Carrier,  \* no uthread; the carrier's own context
          SwarmEnabled,   \* policy.swarm.enabled
          MaxTokens       \* policy.swarm.max_tokens

ASSUME SchedulerAssumption ==
    /\ Main \in Slot
    /\ MainWork \notin Request
    /\ Submitted \subseteq Request
    /\ BadFd \subseteq Fd
    /\ None \notin Slot \cup Request \cup {MainWork}
    /\ Carrier \notin Slot
    /\ SwarmEnabled \in BOOLEAN /\ SharedFds \in BOOLEAN
    /\ UseTimeouts \in BOOLEAN
    /\ MaxTokens \in Nat

VARIABLES
    free,         \* stacks that no uthread lives on
    status,       \* status of each uthread
    entrance,     \* the request whose function it executes
    future,       \* uthread->future, named by the request it came with
    reborn,       \* uthreads that took over another request
    resume,       \* where the uthread continues when it is switched to
    runq, blockq, dyingq,   \* sched_queues
    running,      \* runners.running
    tokens,       \* runners.tokens
    requests,     \* runners.request_queue
    exec,         \* whose stack the thread executes on
    pc, site,     \* where it is, and who called sched_bus_refresh
    consumed,     \* bus.consumed
    armed,        \* epoll's one-shot registration of each descriptor
    timed,        \* uthreads that asked for a timeout
    timers,       \* bus.timers
    fresh,        \* requests not made yet
    inbox, bell,  \* the message boxes, and the eventfd
    ready,        \* descriptors with something to report
    finished      \* requests whose function has returned

uthreadVars == <<free, status, entrance, future, reborn, resume>>
queueVars   == <<runq, blockq, dyingq, running>>
busVars     == <<consumed, armed, timed, timers>>
worldVars   == <<fresh, inbox, bell, ready, finished>>
vars == <<uthreadVars, queueVars, tokens, requests, exec, pc, site, busVars,
          worldVars>>

\* p7r_init on carrier 0: main_uthread has run so far, and the carrier's
\* context is switched to.  runners.tokens is never initialised: it may be
\* anything, here up to one more than swarm_sched_refill would ever make it.
Init ==
    /\ free = Slot \ {Main}
    /\ status = [u \in Slot |-> IF u = Main THEN "running" ELSE "prelaunch"]
    /\ entrance = [u \in Slot |-> IF u = Main THEN MainWork ELSE None]
    /\ future = [u \in Slot |-> None]
    /\ reborn = {}
    /\ resume = [u \in Slot |-> IF u = Main THEN "yield" ELSE "start"]
    /\ runq = <<Main>> /\ blockq = <<>> /\ dyingq = <<>>
    /\ running = Main
    /\ tokens \in 0 .. MaxTokens + 1
    /\ requests = <<>>
    /\ exec = Carrier
    /\ pc = "wait" /\ site = "carrier"
    /\ consumed = TRUE
    /\ armed = [fd \in Fd |-> None]
    /\ timed = {} /\ timers = {}
    /\ fresh = Request
    /\ inbox = <<>> /\ bell = FALSE
    /\ ready = {}
    /\ finished = {}

(***************************************************************************)
(* The world: posters and descriptors.                                     *)
(***************************************************************************)
\* A foreign thread (with a future) or another carrier posts a request.
Post(r) ==
    /\ r \in fresh
    /\ fresh' = fresh \ {r}
    /\ inbox' = Append(inbox, r)
    /\ bell' = TRUE
    /\ UNCHANGED <<uthreadVars, queueVars, tokens, requests, exec, pc, site,
                   busVars, ready, finished>>

BecomesReady(fd) ==
    /\ fd \notin ready
    /\ ready' = ready \cup {fd}
    /\ UNCHANGED <<uthreadVars, queueVars, tokens, requests, exec, pc, site,
                   busVars, fresh, inbox, bell, finished>>

(***************************************************************************)
(* Creation of a uthread on a free stack: sched_uthread_from_request.      *)
(***************************************************************************)
FutureOf(r) == IF r \in Submitted THEN r ELSE None

\* p7r_uthread_init does not write status: it is what the memory holds, zero
\* (prelaunch) at first and DYING where another uthread has died.
NewUthread(u, r) ==
    /\ u \in free
    /\ free' = free \ {u}
    /\ entrance' = [entrance EXCEPT ![u] = r]
    /\ future'   = [future EXCEPT ![u] = FutureOf(r)]
    /\ resume'   = [resume EXCEPT ![u] = "start"]
    /\ reborn'   = reborn \ {u}

(***************************************************************************)
(* What a uthread does: the calls of the user's code.                      *)
(***************************************************************************)
InUser(u) == pc = "user" /\ exec = u

\* Enter sched_bus_refresh from one of its four callers.
Refresh(caller) == pc' = "wait" /\ site' = caller

\* p7r_yield, with swarm_sched_refill.
Yield(u) ==
    /\ InUser(u)
    /\ resume' = [resume EXCEPT ![u] = "yield"]
    /\ tokens' = IF tokens < MaxTokens THEN tokens + 1 ELSE tokens
    /\ Refresh("yield")
    /\ UNCHANGED <<free, status, entrance, future, reborn, queueVars, requests, exec,
                   busVars, worldVars>>

\* p7r_uthread_create, when balance_index says this carrier.
CreateLocal(u) ==
    /\ InUser(u)
    /\ \E r \in fresh \ Submitted, v \in Slot :
          /\ NewUthread(v, r)
          /\ fresh' = fresh \ {r}
          /\ runq' = Append(runq, v)
    /\ UNCHANGED <<status, blockq, dyingq, running, tokens, requests, exec, pc, site,
                   busVars, inbox, bell, ready, finished>>

\* p7r_blocking_point up to its loop.
Block(u) ==
    /\ status' = [status EXCEPT ![u] = "blocking"]
    /\ resume' = [resume EXCEPT ![u] = "block"]
    /\ runq' = Without(runq, u)
    /\ blockq' = Append(blockq, u)
    /\ running' = None
    /\ Refresh("block")

\* A fault: the timer is attached, and nothing removes the registration of the
\* descriptor when the timer fires first.
DelegateIoAttached(u, fd, withTimeout) ==
    /\ InUser(u)
    /\ armed' = IF fd \in BadFd THEN armed ELSE [armed EXCEPT ![fd] = u]
    /\ timed' = IF withTimeout THEN timed \cup {u} ELSE timed \ {u}
    /\ timers' = IF withTimeout THEN timers \cup {u} ELSE timers
    /\ Block(u)
    /\ UNCHANGED <<free, entrance, future, reborn, dyingq, tokens, requests, exec,
                   consumed, worldVars>>

\* p7r_delegate on a descriptor: epoll_ctl replaces whatever registration the
\* descriptor had, or fails, and p7r_delegate blocks in either case.  Only the
\* user's discipline can keep two uthreads from waiting for one descriptor.
DelegateIo(u, fd, withTimeout) ==
    /\ InUser(u)
    /\ SharedFds \/ armed[fd] = None
    /\ withTimeout => UseTimeouts
    /\ armed' = IF fd \in BadFd THEN armed ELSE [armed EXCEPT ![fd] = u]
    /\ timed' = IF withTimeout THEN timed \cup {u} ELSE timed \ {u}
    /\ Block(u)
    /\ UNCHANGED <<free, entrance, future, reborn, dyingq, tokens, requests, exec,
                   consumed, timers, worldVars>>

\* p7r_delegate with P7R_DELEGATION_TIMED only: the timer is initialised but
\* p7r_timer_core_attach is called by nobody.
DelegateTimed(u) ==
    /\ InUser(u)
    /\ UseTimeouts
    /\ timed' = timed \cup {u}
    /\ Block(u)
    /\ UNCHANGED <<free, entrance, future, reborn, dyingq, tokens, requests, exec,
                   consumed, armed, timers, worldVars>>

(***************************************************************************)
(* p7r_uthread_lifespan after the user's function has returned: take over  *)
(* the oldest request, or die.  main_uthread has no lifespan.               *)
(***************************************************************************)
\* A fault: the request taken over stays in the queue.
ReincarnateNoPop(u) ==
    /\ InUser(u)
    /\ u # Main
    /\ requests # <<>>
    /\ finished' = finished \cup {entrance[u]}
    /\ status'   = [status EXCEPT ![u] = "limbo"]
    /\ entrance' = [entrance EXCEPT ![u] = Head(requests)]
    /\ reborn'   = reborn \ {u}
    /\ resume'   = [resume EXCEPT ![u] = "limbo"]
    /\ Refresh("limbo")
    /\ UNCHANGED <<free, future, queueVars, tokens, requests, exec, busVars, fresh,
                   inbox, bell, ready>>

\* A fault: the dying uthread refreshes the bus on its own stack.
DieOnOwnStack(u) ==
    /\ InUser(u)
    /\ u # Main
    /\ requests = <<>>
    /\ finished' = finished \cup {entrance[u]}
    /\ status' = [status EXCEPT ![u] = "dying"]
    /\ runq' = Without(runq, u)
    /\ dyingq' = Append(dyingq, u)
    /\ running' = None
    /\ Refresh("carrier")
    /\ UNCHANGED <<free, entrance, future, reborn, resume, blockq, tokens, requests,
                   exec, busVars, fresh, inbox, bell, ready>>

Reincarnate(u) ==
    /\ InUser(u)
    /\ u # Main
    /\ requests # <<>>
    /\ finished' = finished \cup {entrance[u]}
    /\ status'   = [status EXCEPT ![u] = "limbo"]
    /\ requests' = Tail(requests)
    /\ entrance' = [entrance EXCEPT ![u] = Head(requests)]
    /\ reborn'   = reborn \cup {u}
    /\ resume'   = [resume EXCEPT ![u] = "limbo"]
    /\ Refresh("limbo")
    /\ UNCHANGED <<free, future, queueVars, tokens, exec, busVars, fresh, inbox,
                   bell, ready>>

Die(u) ==
    /\ InUser(u)
    /\ u # Main
    /\ requests = <<>>
    /\ finished' = finished \cup {entrance[u]}
    /\ status' = [status EXCEPT ![u] = "dying"]
    /\ runq' = Without(runq, u)
    /\ dyingq' = Append(dyingq, u)
    /\ running' = None
    /\ exec' = Carrier
    /\ Refresh("carrier")
    /\ UNCHANGED <<free, entrance, future, reborn, resume, blockq, tokens, requests,
                   busVars, fresh, inbox, bell, ready>>

(***************************************************************************)
(* sched_bus_refresh.                                                      *)
(***************************************************************************)
\* A fault: list_add_tail without list_del.
ReenableNoDetach(seq) ==
    LET woken == {u \in Range(seq) : status[u] # "running"} IN
    /\ status' = [u \in Slot |-> IF u \in woken THEN "running" ELSE status[u]]
    /\ UNCHANGED blockq
    /\ runq' = runq \o Only(seq, woken)

\* A fault: the loop over the events ends at the eventfd's.
ReenableUnlessBell(seq) ==
    LET woken == {u \in Range(seq) : status[u] # "running" /\ ~ bell} IN
    /\ status' = [u \in Slot |-> IF u \in woken THEN "running" ELSE status[u]]
    /\ blockq' = Only(blockq, Slot \ woken)
    /\ runq' = Only(runq, Slot \ woken) \o Only(seq, woken)

\* p7r_uthread_reenable for each uthread of a sequence in turn.
Reenable(seq) ==
    LET woken == {u \in Range(seq) : status[u] # "running"} IN
    /\ status' = [u \in Slot |-> IF u \in woken THEN "running" ELSE status[u]]
    /\ blockq' = Only(blockq, Slot \ woken)
    /\ runq' = Only(runq, Slot \ woken) \o Only(seq, woken)

\* Phase 1: epoll_wait(-1) only if all was consumed and nobody is runnable.
PollsForEver == consumed /\ runq = <<>>

Reportable == {fd \in ready : armed[fd] # None}

\* Phases 1 to 3: epoll_wait returns, at once or because there is something
\* to report; expired timers, then the reported delegations, are triggered.
\* The event buffer is taken to be large enough for all of them.
EpollReturns ==
    /\ pc = "wait"
    /\ PollsForEver => bell \/ Reportable # {}
    /\ \E due \in SUBSET timers :
          LET reported == {armed[fd] : fd \in Reportable} \ due IN
          /\ \E first \in Orders(due), second \in Orders(reported) :
                Reenable(first \o second)
          /\ timers' = timers \ (due \cup reported)
          /\ timed'  = timed \ (due \cup reported)
    /\ armed' = [fd \in Fd |-> IF fd \in Reportable THEN None ELSE armed[fd]]
    /\ ready' = ready \ Reportable
    /\ bell'  = FALSE
    /\ consumed' = TRUE
    /\ pc' = "drain"
    /\ UNCHANGED <<free, entrance, future, reborn, resume, dyingq, running, tokens,
                   requests, exec, site, fresh, inbox, finished>>

\* Where sched_bus_refresh returns to: p7r_carrier_lifespan cherry-picks.
Return == pc' = IF site = "carrier" THEN "pick" ELSE "resched"

\* epoll_wait fails (EINTR): the rest of the refresh is skipped.
EpollFails ==
    /\ pc = "wait"
    /\ Return
    /\ UNCHANGED <<uthreadVars, queueVars, tokens, requests, exec, site,
                   busVars, worldVars>>

\* Phase 4: the boxes are emptied into the request queue, or a poster was
\* busy and the next poll must not wait.
DrainInbox ==
    /\ pc = "drain"
    /\ requests' = requests \o inbox
    /\ inbox' = <<>>
    /\ pc' = "reap"
    /\ UNCHANGED <<uthreadVars, queueVars, tokens, exec, site, busVars, fresh,
                   bell, ready, finished>>

InboxBusy ==
    /\ pc = "drain"
    /\ consumed' = FALSE
    /\ pc' = "reap"
    /\ UNCHANGED <<uthreadVars, queueVars, tokens, requests, exec, site,
                   armed, timed, timers, worldVars>>

\* Phase 6: the stacks of the dead are given back, some of them to the system
\* (when a provider empties), so that their memory is zero when it is mapped
\* again.
Reap ==
    /\ pc = "reap"
    /\ free' = free \cup Range(dyingq)
    /\ \E zeroed \in SUBSET Range(dyingq) :
          status' = [u \in Slot |-> IF u \in zeroed THEN "prelaunch" ELSE status[u]]
    /\ dyingq' = <<>>
    /\ Return
    /\ UNCHANGED <<entrance, future, reborn, resume, runq, blockq, running,
                   tokens, requests, exec, site, busVars, worldVars>>

(***************************************************************************)
(* After the refresh: p7r_carrier_lifespan picks a request, then, as in     *)
(* the other callers, sched_resched_target chooses whom to switch to.       *)
(***************************************************************************)
Pick ==
    /\ pc = "pick"
    /\ IF requests = <<>>
       THEN UNCHANGED <<uthreadVars, runq, requests>>
       ELSE \E u \in Slot : /\ NewUthread(u, Head(requests))
                            /\ requests' = Tail(requests)
                            /\ runq' = Append(runq, u)
                            /\ UNCHANGED status
    /\ pc' = "resched"
    /\ UNCHANGED <<blockq, dyingq, running, tokens, exec, site, busVars,
                   worldVars>>

\* A fault: the last uthread keeps its place.
RequeuedFirst == runq

\* The queue of runnable uthreads once the last one, if it still is one of
\* them, has gone to its end.
Requeued == IF running = None THEN runq
            ELSE Append(Without(runq, running), running)

\* swarm_sched_available, which also takes the token.
HasToken == SwarmEnabled /\ tokens > 0
TakeToken == tokens' = IF HasToken THEN tokens - 1 ELSE tokens

WantsRequest == HasToken \/ Requeued = <<>>

\* Switch to uthread u, which continues where it left off; a new or a
\* reincarnated one marks itself running first.
SwitchTo(u) ==
    /\ running' = u
    /\ exec' = u
    /\ pc' = "user"

Marked(u) == IF resume[u] \in {"start", "limbo"}
             THEN [status EXCEPT ![u] = "running"] ELSE status

\* sched_resched_target finds a runnable uthread.
ReschedOld ==
    /\ pc = "resched"
    /\ ~ WantsRequest
    /\ runq' = Requeued
    /\ SwitchTo(Head(Requeued))
    /\ status' = Marked(Head(Requeued))
    /\ UNCHANGED <<free, entrance, future, reborn, resume, blockq, dyingq, tokens,
                   requests, site, busVars, worldVars>>

\* A fault: the request stays in the queue.
ReschedNewNoPop ==
    /\ pc = "resched"
    /\ WantsRequest /\ requests # <<>>
    /\ TakeToken
    /\ \E u \in free :
          LET target == Head(Append(Requeued, u))
          IN /\ NewUthread(u, Head(requests))
             /\ runq' = Append(Requeued, u)
             /\ status' = IF target = u THEN [status EXCEPT ![u] = "running"]
                          ELSE Marked(target)
             /\ SwitchTo(target)
    /\ UNCHANGED <<requests, blockq, dyingq, site, busVars, worldVars>>

\* It makes one of the oldest request, which it puts behind the others, and
\* takes the head of the queue.
ReschedNew ==
    /\ pc = "resched"
    /\ WantsRequest /\ requests # <<>>
    /\ TakeToken
    /\ requests' = Tail(requests)
    /\ \E u \in free :
          LET target == Head(Append(Requeued, u))
          IN /\ NewUthread(u, Head(requests))
             /\ runq' = Append(Requeued, u)
             /\ status' = IF target = u THEN [status EXCEPT ![u] = "running"]
                          ELSE Marked(target)
             /\ SwitchTo(target)
    /\ UNCHANGED <<blockq, dyingq, site, busVars, worldVars>>

\* It returns NULL: the carrier and a blocked uthread refresh again, the
\* other two callers switch to the context of a null uthread.
ReschedNull ==
    /\ pc = "resched"
    /\ WantsRequest /\ requests = <<>>
    /\ TakeToken
    /\ runq' = Requeued
    /\ pc' = IF site \in {"carrier", "block"} THEN "wait" ELSE "crashed"
    /\ UNCHANGED <<uthreadVars, blockq, dyingq, running, requests, exec, site,
                   busVars, worldVars>>

\* No stack is left: sched_uthread_from_request stores the future through a
\* null pointer, for a request or for p7r_uthread_create.
NoStack ==
    /\ free = {}
    /\ \/ requests # <<>> /\ (pc = "pick" \/ (pc = "resched" /\ WantsRequest))
       \/ fresh \ Submitted # {} /\ pc = "user"
    /\ pc' = "crashed"
    /\ UNCHANGED <<uthreadVars, queueVars, tokens, requests, exec, site,
                   busVars, worldVars>>

World == (\E r \in Request : Post(r)) \/ (\E fd \in Fd : BecomesReady(fd))

Call(u) == \/ Yield(u) \/ CreateLocal(u) \/ DelegateTimed(u)
           \/ \E fd \in Fd, t \in BOOLEAN : DelegateIo(u, fd, t)
           \/ Reincarnate(u) \/ Die(u)

Sched == \/ DrainInbox \/ InboxBusy \/ Reap \/ Pick
         \/ ReschedOld \/ ReschedNew \/ ReschedNull \/ NoStack

Next == World \/ EpollReturns \/ EpollFails \/ Sched \/ \E u \in Slot : Call(u)

Spec == Init /\ [][Next]_vars

\* Uthreads cooperate: each comes back to the scheduler, by a call that is
\* not a creation.  Signals do not hit every epoll_wait, posters do not keep
\* the boxes busy for ever.
Comeback(u) == Call(u) /\ pc' # "user"

Fairness ==
    /\ \A u \in Slot : WF_vars(Comeback(u))
    /\ WF_vars(Sched)
    /\ SF_vars(EpollReturns)
    /\ SF_vars(DrainInbox)

LiveSpec == Spec /\ Fairness

-----------------------------------------------------------------------------
\* The variables are in their ranges.
TypeOK ==
    /\ free \subseteq Slot
    /\ status \in [Slot -> {"prelaunch", "running", "limbo", "dying", "blocking"}]
    /\ entrance \in [Slot -> Request \cup {MainWork, None}]
    /\ future \in [Slot -> Request \cup {None}]
    /\ reborn \subseteq Slot
    /\ resume \in [Slot -> {"start", "yield", "block", "limbo"}]
    /\ runq \in Seq(Slot) /\ blockq \in Seq(Slot) /\ dyingq \in Seq(Slot)
    /\ running \in Slot \cup {None}
    /\ tokens \in 0 .. MaxTokens + 1
    /\ requests \in Seq(Request)
    /\ exec \in Slot \cup {Carrier}
    /\ pc \in {"user", "wait", "drain", "reap", "pick", "resched", "crashed"}
    /\ site \in {"carrier", "yield", "block", "limbo"}
    /\ consumed \in BOOLEAN
    /\ armed \in [Fd -> Slot \cup {None}]
    /\ timed \subseteq Slot /\ timers \subseteq Slot
    /\ fresh \subseteq Request
    /\ inbox \in Seq(Request) /\ bell \in BOOLEAN
    /\ ready \subseteq Fd
    /\ finished \subseteq Request

\* runners.running is the uthread whose code executes and the head of its
\* queue; while the scheduler works it is None or still in that queue.
RunningIsHead ==
    /\ pc = "user" => running = exec /\ Head(runq) = running
    /\ running # None => running \in Range(runq)

\* A uthread that lives is in exactly one queue, once, and in the one that its
\* status names (a new one's status is still its stack's last owner's): a
\* second list_add_tail without list_del would corrupt both lists.
QueuesConsistent ==
    /\ TypeOK
    /\ Once(runq \o blockq \o dyingq)
    /\ Range(runq \o blockq \o dyingq) = Slot \ free
    /\ \A u \in Range(blockq) : status[u] = "blocking"
    /\ \A u \in Range(dyingq) : status[u] = "dying"
    /\ \A u \in Range(runq) :
          status[u] \in {"prelaunch", "running", "limbo"}
              \/ (status[u] = "dying" /\ resume[u] = "start")
    /\ RunningIsHead

\* The thread never executes on a stack that is free or about to be freed: a
\* dying uthread leaves its stack for the carrier's before it can be reaped,
\* and the uthread on whose stack the scheduler works is never reaped.
StackAlive == exec # Carrier => exec \in Range(runq \o blockq)

\* The pointer that epoll keeps of a delegation points into the frame of
\* p7r_delegate of a uthread that is still blocked in it.
RegistrationsAreLive ==
    \A fd \in Fd : armed[fd] # None => armed[fd] \in Range(blockq)

\* The requests that live uthreads still have to finish.
Live == Range(runq \o blockq)
Held == {entrance[u] : u \in Live}

\* In its first life a uthread has the future of the request it executes, not
\* one that its stack's last owner left there.  (After a reincarnation the
\* future is still that of the first request: p7r_uthread_lifespan copies the
\* function and its argument only.)
FutureOfFirstLife ==
    \A u \in Live \ reborn : entrance[u] # MainWork =>
                               future[u] = FutureOf(entrance[u])

\* No request is lost, forgotten in a reincarnation or executed twice: each
\* is in exactly one place on its way, with its future.
RequestsConserved ==
    /\ Once(inbox \o requests)
    /\ Request = fresh \cup Range(inbox) \cup Range(requests)
                       \cup (Held \ {MainWork}) \cup finished
    /\ \A r \in Request :
          Cardinality({u \in Live : entrance[u] = r})
          + (IF r \in fresh THEN 1 ELSE 0)
          + (IF r \in Range(inbox) THEN 1 ELSE 0)
          + (IF r \in Range(requests) THEN 1 ELSE 0)
          + (IF r \in finished THEN 1 ELSE 0) = 1
    /\ FutureOfFirstLife

\* Every sleep without a timeout finds no request waiting to be started.
SleepsOnlyWhenIdle == pc = "wait" /\ PollsForEver => requests = <<>>

\* Round robin: a runnable uthread gets its turn.
RunnableRuns ==
    \A u \in Slot : u \in Range(runq) ~> (pc = "user" /\ exec = u)

\* A uthread blocked on a descriptor that is registered for it and reports
\* something becomes runnable.
ReadyWakes ==
    \A u \in Slot, fd \in Fd :
        (armed[fd] = u /\ fd \in ready) ~> u \in Range(runq)

\* A uthread that delegated with a timeout does not stay blocked for ever.
TimedWakes == \A u \in Slot : u \in timed ~> u \notin timed
=============================================================================
