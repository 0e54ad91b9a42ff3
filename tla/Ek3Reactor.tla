---------------------------- MODULE Ek3Reactor ----------------------------
(***************************************************************************)
(* The ek3 reactor (ek3/ek3_reactor.c): one thread commits sessions with    *)
(* the events it waits for, polls, and is handed one session at a time      *)
(* whose events have been notified.  Queues of sessions and lists of events *)
(* are intrusive: a node that is in no list must not be unlinked, and one   *)
(* that is in a list must not be linked again.                             *)
(*                                                                         *)
(* ek3_poll runs as phase "deploy" (398-413), "wait" (421) and "dispatch"   *)
(* (426-445).  epoll is level-triggered: ek3_event_io_decorate, which would *)
(* set EPOLLET, is called by nobody.                                       *)
(*                                                                         *)
(* The names are the reactor's own, so that its proofs can share a module  *)
(* with those of the other library, s1 (DlBase).                           *)
(***************************************************************************)
EXTENDS Lists

CONSTANTS Session, Event,
          SessionOf,  \* the session in which the user registers an event
          OwnFd,      \* session->fd
          FdOf,       \* the descriptor of an event that is no timer
          Timer,      \* events of type EK3_EVENT_TIMEOUT
          Posted,     \* events with EK3_EVENTFLAG_POSTED
          Capacity,   \* epoll_capacity
          TakesAll,   \* does the user take all events before it commits?
          UsesTable,  \* does the user call ek3_register_session?
          NoEvent

IOEvent == Event \ Timer
Fd == {FdOf[e] : e \in IOEvent}

ASSUME Ek3Assumption ==
    /\ SessionOf \in [Event -> Session] /\ DOMAIN FdOf = IOEvent
    /\ Timer \subseteq Event /\ Posted \subseteq IOEvent
    /\ \A d, e \in IOEvent : FdOf[d] = FdOf[e] => SessionOf[d] = SessionOf[e]
    /\ Capacity \in Nat \ {0} /\ IsFiniteSet(Event)
    /\ TakesAll \in BOOLEAN /\ UsesTable \in BOOLEAN /\ NoEvent \notin Event

VARIABLES
    queue,     \* the queues of sessions: session_queue_*
    status,    \* of each session, but for EK3_SESSIONFLAG_POSTED
    flagged,   \* the sessions with EK3_SESSIONFLAG_POSTED
    events,    \* the lists of each session: events_*
    held,      \* events that the user holds: new or taken
    table,     \* the hash table of sessions
    freed,     \* how often each session was destroyed
    interest,  \* the epoll set: of each descriptor, the event it reports
    ready,     \* the descriptors that epoll would report
    timers,    \* timer_queue
    elapsed,   \* the timers whose period is over
    batch,     \* epoll_triggered_events that are still to be dispatched
    phase

reactorVars == <<queue, status, flagged, events, held, table, freed, interest,
                 ready, timers, elapsed, batch, phase>>
sessionVars == <<queue, status, flagged, events>>
userVars == <<held, table, freed>>
pollVars == <<ready, timers, elapsed, batch>>

(***************************************************************************)
(* Families of lists through the same nodes.                               *)
(***************************************************************************)
Linked(lists) == UNION {Range(lists[k]) : k \in DOMAIN lists}

\* A node is in at most one of the lists, and in it once.
Apart(lists) ==
    /\ \A k \in DOMAIN lists : Once(lists[k])
    /\ \A k, l \in DOMAIN lists : k # l => Range(lists[k]) \cap Range(lists[l]) = {}

\* list_del, from whatever list x is in, and list_add_tail to the list l.
Relinked(lists, x, l) ==
    [[k \in DOMAIN lists |-> Without(lists[k], x)] EXCEPT ![l] = Append(@, x)]

QueueName == {"committing", "deployed", "notified", "posted"}
ListName  == {"registered", "deployed", "notified"}
NoEvents  == [l \in ListName |-> <<>>]

ReactorInit ==
    /\ queue = [q \in QueueName |-> <<>>]
    /\ status = [s \in Session |-> "none"] /\ flagged = {}
    /\ events = [s \in Session |-> NoEvents]
    /\ held = Event /\ table = {}
    /\ freed = [s \in Session |-> 0]
    /\ interest = [f \in Fd |-> NoEvent] /\ ready = {}
    /\ timers = {} /\ elapsed = {} /\ batch = <<>>
    /\ phase = "user"

Queued == Linked(queue)
InHand == {s \in Session : freed[s] = 0} \ Queued

(***************************************************************************)
(* The user, between two calls of ek3_poll.  A session is in the user's     *)
(* hands when it is new and when ek3_poll has returned it.                  *)
(***************************************************************************)
\* ek3_session_register_event, at any time while the session lives.
RegisterEvent(e) ==
    LET s == SessionOf[e] IN
    /\ phase = "user" /\ e \in held /\ freed[s] = 0
    /\ held' = held \ {e}
    /\ events' = [events EXCEPT ![s].registered = Append(@, e)]
    /\ UNCHANGED <<queue, status, flagged, table, freed, interest, pollVars, phase>>

\* A fault: a committed session is committed again.
IsNewAlways(s) == TRUE

IsNew(s) == status[s] # "committed"

\* ek3_commit_session does nothing to a session that is committed.  One that
\* waits to be returned the user leaves alone: its node would be linked twice.
Commit(s) ==
    /\ phase = "user" /\ freed[s] = 0 /\ s \notin Range(queue["notified"])
    /\ TakesAll => events[s].notified = <<>>
    /\ IsNew(s)
    /\ status' = [status EXCEPT ![s] = "committed"]
    /\ queue' = [queue EXCEPT !["committing"] = Append(@, s)]
    /\ UNCHANGED <<flagged, events, userVars, interest, pollVars, phase>>

\* ek3_session_next_event_notified; the handler may empty the descriptor.
NextEvent(s) ==
    /\ phase = "user" /\ s \in InHand /\ events[s].notified # <<>>
    /\ LET e == Head(events[s].notified) IN
       /\ held' = held \cup {e}
       /\ ready' \in IF e \in Timer THEN {ready} ELSE {ready, ready \ {FdOf[e]}}
    /\ events' = [events EXCEPT ![s].notified = Tail(@)]
    /\ UNCHANGED <<queue, status, flagged, table, freed, interest, timers, elapsed,
                   batch, phase>>

\* A fault: session->fd stays open.
ClosedNone(s) == {}

\* ek3_session_ruin closes session->fd.
Closed(s) == {OwnFd[s]}

\* An assumption on the user: it closes the other descriptors that the session has
\* events of before it destroys it.
ClosedByUser(s) == {FdOf[e] : e \in {d \in IOEvent : SessionOf[d] = s}} \ {OwnFd[s]}

\* ek3_session_destroy.  A closed descriptor is in no epoll set.
DestroySession(s) ==
    /\ phase = "user" /\ s \in InHand \ table
    /\ freed' = [freed EXCEPT ![s] = @ + 1]
    /\ events' = [events EXCEPT ![s] = NoEvents]
    /\ interest' = [f \in Fd |-> IF f \in Closed(s) \cup ClosedByUser(s) THEN NoEvent
                                ELSE interest[f]]
    /\ ready' = ready \ (Closed(s) \cup ClosedByUser(s))
    /\ UNCHANGED <<queue, status, flagged, held, table, timers, elapsed, batch, phase>>

\* ek3_register_session and ek3_session_detach.
RegisterSession(s) ==
    /\ UsesTable /\ phase = "user" /\ s \notin table /\ freed[s] = 0
    /\ table' = table \cup {s}
    /\ UNCHANGED <<sessionVars, held, freed, interest, pollVars, phase>>

Detach(s) ==
    /\ phase = "user" /\ s \in table
    /\ table' = table \ {s}
    /\ UNCHANGED <<sessionVars, held, freed, interest, pollVars, phase>>

\* ek3_reactor_destroy destroys what is queued; then the hash table destroys
\* what is in it.
DestroyReactor ==
    /\ phase = "user" /\ phase' = "closed"
    /\ freed' = [s \in Session |-> freed[s] + (IF s \in Queued THEN 1 ELSE 0)
                                            + (IF s \in table THEN 1 ELSE 0)]
    /\ queue' = [q \in QueueName |-> <<>>] /\ table' = {}
    /\ events' = [s \in Session |-> IF freed'[s] = 0 THEN events[s] ELSE NoEvents]
    /\ interest' = [f \in Fd |-> NoEvent] /\ timers' = {}
    /\ UNCHANGED <<status, flagged, held, ready, elapsed, batch>>

\* epoll still watches the descriptors of a session that ek3_poll returned.
\* The user gives it and its events back, or destroys it, before it polls.
GivenBack == \A f \in Fd : interest[f] # NoEvent =>
                 /\ interest[f] \notin held
                 /\ SessionOf[interest[f]] \notin InHand

EnterPoll ==
    /\ phase = "user" /\ GivenBack
    /\ phase' = "deploy"
    /\ UNCHANGED <<sessionVars, userVars, interest, pollVars>>

(***************************************************************************)
(* ek3_poll.                                                               *)
(***************************************************************************)
\* EPOLL_CTL_ADD: a descriptor that epoll watches keeps its event (EEXIST).
Added(s) ==
    [f \in Fd |-> LET new == Only(events[s].registered, {e \in IOEvent : FdOf[e] = f})
                  IN IF interest[f] = NoEvent /\ new # <<>> THEN Head(new)
                                                            ELSE interest[f]]

\* The next session that is committed leaves its queue for that of the deployed.
DeployHead(s) ==
    queue' = [queue EXCEPT !["committing"] = Tail(@), !["deployed"] = Append(@, s)]

DeployEvents(s) ==
    events' = [events EXCEPT ![s].registered = <<>>,
                             ![s].deployed = @ \o events[s].registered]

\* ek3_deploy_session, in the loop of ek3_poll.
Deploy ==
    /\ phase = "deploy" /\ queue["committing"] # <<>>
    /\ LET s == Head(queue["committing"])
           new == Range(events[s].registered) \cap Timer
       IN  /\ DeployHead(s) /\ DeployEvents(s)
           /\ interest' = Added(s)
           /\ timers' = timers \cup new /\ elapsed' = elapsed \ new
    /\ UNCHANGED <<status, flagged, userVars, ready, batch, phase>>

\* ek3_poll_local_ returns the first notified session.  On an empty queue it
\* would unlink the head itself, and return what is no session.
ReturnSession ==
    IF queue["notified"] = <<>>
    THEN phase' = "crashed" /\ UNCHANGED queue
    ELSE phase' = "user" /\ queue' = [queue EXCEPT !["notified"] = Tail(@)]

ReturnEarly ==
    /\ phase = "deploy" /\ queue["committing"] = <<>> /\ queue["notified"] # <<>>
    /\ ReturnSession
    /\ UNCHANGED <<status, flagged, events, userVars, interest, pollVars>>

Wait ==
    /\ phase = "deploy" /\ queue["committing"] = <<>> /\ queue["notified"] = <<>>
    /\ phase' = "wait"
    /\ UNCHANGED <<sessionVars, userVars, interest, pollVars>>

\* The outside world.
BecomesReady(f) ==
    /\ phase = "wait" /\ interest[f] # NoEvent /\ f \notin ready
    /\ ready' = ready \cup {f}
    /\ UNCHANGED <<sessionVars, userVars, interest, timers, elapsed, batch, phase>>

Elapse(t) ==
    /\ phase = "wait" /\ t \in timers \ elapsed
    /\ elapsed' = elapsed \cup {t}
    /\ UNCHANGED <<sessionVars, userVars, interest, ready, timers, batch, phase>>

\* epoll_wait returns as many events as it has and there is room for.
Reportable == {interest[f] : f \in {g \in ready : interest[g] # NoEvent}}

EpollReturns ==
    /\ phase = "wait" /\ Reportable # {}
    /\ \E S \in SUBSET Reportable :
          /\ Cardinality(S) <= Capacity
          /\ S = Reportable \/ Cardinality(S) = Capacity
          /\ batch' \in Orders(S)
    /\ phase' = "dispatch"
    /\ UNCHANGED <<sessionVars, userVars, interest, ready, timers, elapsed>>

\* timeout_stamp is always 0, and the timeout 0 - baseline_time, cut to an
\* int: it is immediate or some finite time.
EpollTimesOut ==
    /\ phase = "wait" /\ timers # {}
    /\ phase' = "dispatch"
    /\ UNCHANGED <<sessionVars, userVars, interest, pollVars>>

\* A signal: ek3_poll returns NULL.
EpollFails ==
    /\ phase = "wait" /\ phase' = "user"
    /\ UNCHANGED <<sessionVars, userVars, interest, pollVars>>

MoveTo(s, q) == queue' = Relinked(queue, s, q)

Notify(e) ==
    events' = [events EXCEPT ![SessionOf[e]] = Relinked(@, e, "notified")]

\* ek3_dispatch_event: the first event of a session in this round moves it, and
\* every event moves to the session's notified ones.
Dispatch(e) ==
    LET s == SessionOf[e]
    IN  /\ flagged' = IF e \in Posted THEN flagged \cup {s} ELSE flagged
        /\ IF status[s] = "activated" THEN UNCHANGED queue
           ELSE MoveTo(s, IF s \in flagged' THEN "posted" ELSE "notified")
        /\ status' = [status EXCEPT ![s] = "activated"]
        /\ Notify(e)

\* All timers are due (0 is not later than now), and none is ever removed.
\* Which of several is the least is open: ek3_event_key_compare compares its
\* own uninitialised variables.
DispatchTimer ==
    /\ phase = "dispatch"
    /\ \E t \in timers : Dispatch(t)
    /\ UNCHANGED <<userVars, interest, pollVars, phase>>

DispatchEvent ==
    /\ phase = "dispatch" /\ timers = {} /\ batch # <<>>
    /\ Dispatch(Head(batch))
    /\ batch' = Tail(batch)
    /\ UNCHANGED <<userVars, interest, ready, timers, elapsed, phase>>

\* A fault: it goes back to the deployed ones.
FlushBack(s) ==
    queue' = [queue EXCEPT !["posted"] = Tail(@), !["deployed"] = Append(@, s)]

\* A posted session follows those that are notified.
Flush(s) ==
    queue' = [queue EXCEPT !["posted"] = Tail(@), !["notified"] = Append(@, s)]

\* Its status is reset altogether.
FlushPosted ==
    /\ phase = "dispatch" /\ timers = {} /\ batch = <<>> /\ queue["posted"] # <<>>
    /\ LET s == Head(queue["posted"]) IN
       /\ Flush(s)
       /\ status' = [status EXCEPT ![s] = "none"]
       /\ flagged' = flagged \ {s}
    /\ UNCHANGED <<events, userVars, interest, pollVars, phase>>

ReturnFirst ==
    /\ phase = "dispatch" /\ timers = {} /\ batch = <<>> /\ queue["posted"] = <<>>
    /\ ReturnSession
    /\ UNCHANGED <<status, flagged, events, userVars, interest, pollVars>>

UserCalls == \/ \E e \in Event : RegisterEvent(e)
        \/ \E s \in Session : \/ Commit(s) \/ NextEvent(s) \/ DestroySession(s)
                              \/ RegisterSession(s) \/ Detach(s)
        \/ DestroyReactor \/ EnterPoll

World == (\E f \in Fd : BecomesReady(f)) \/ (\E t \in Timer : Elapse(t))

Poll == \/ Deploy \/ ReturnEarly \/ Wait
        \/ EpollReturns \/ EpollTimesOut \/ EpollFails
        \/ DispatchTimer \/ DispatchEvent \/ FlushPosted \/ ReturnFirst

ReactorNext == UserCalls \/ World \/ Poll

ReactorSpec == ReactorInit /\ [][ReactorNext]_reactorVars

\* The user takes the events, registers them again, commits and polls; ek3_poll
\* goes on; epoll leaves no ready descriptor out for ever, whatever its capacity,
\* for it reports them in turn.
Fairness ==
    /\ \A e \in IOEvent : WF_reactorVars(RegisterEvent(e))
    /\ \A s \in Session : WF_reactorVars(Commit(s)) /\ WF_reactorVars(NextEvent(s))
    /\ WF_reactorVars(EnterPoll)
    /\ WF_reactorVars(Deploy) /\ WF_reactorVars(ReturnEarly) /\ WF_reactorVars(Wait)
    /\ \A e \in IOEvent : SF_reactorVars(EpollReturns /\ e \in Range(batch'))
    /\ WF_reactorVars(DispatchEvent) /\ WF_reactorVars(FlushPosted)
    /\ WF_reactorVars(ReturnFirst)

LiveReactorSpec == ReactorSpec /\ Fairness

-----------------------------------------------------------------------------
\* The variables are in their ranges; ek3_poll pops no empty queue ("crashed").
ReactorTypeOK ==
    /\ queue \in [QueueName -> Seq(Session)]
    /\ status \in [Session -> {"none", "activated", "committed"}]
    /\ flagged \subseteq Session /\ held \subseteq Event /\ table \subseteq Session
    /\ events \in [Session -> [ListName -> Seq(Event)]]
    /\ freed \in [Session -> 0 .. 2]
    /\ interest \in [Fd -> IOEvent \cup {NoEvent}] /\ ready \subseteq Fd
    /\ elapsed \subseteq Timer /\ timers \subseteq Timer
    /\ batch \in Seq(IOEvent)
    /\ phase \in {"user", "deploy", "wait", "dispatch", "closed"}

\* Every event is in the user's hands or once in one list of its session, while
\* the session lives: what ek3_dispatch_event unlinks is linked.
EventsPlaced ==
    \A s \in Session :
        freed[s] = 0 =>
            /\ Apart(events[s])
            /\ Linked(events[s]) = {e \in Event : SessionOf[e] = s} \ held

\* Every session is in at most one queue, once; a destroyed one is in none; its
\* status tells whether ek3_dispatch_event must move it; its events are in place.
SessionsPlaced ==
    /\ ReactorTypeOK /\ EventsPlaced
    /\ Apart(queue)
    /\ \A s \in Queued : freed[s] = 0
    /\ \A s \in Range(queue["committing"]) \cup Range(queue["deployed"]) :
          status[s] = "committed"
    /\ \A s \in Range(queue["notified"]) \cup Range(queue["posted"]) :
          status[s] # "committed"

\* While ek3_poll waits or dispatches, what epoll may report is an event that
\* is deployed or notified, of a session that lives and is in a queue.
ReportsAreLive ==
    \A e \in Range(batch) \cup (IF phase = "wait" THEN Reportable ELSE {}) :
        LET s == SessionOf[e] IN
        /\ s \in Queued
        /\ e \in Range(events[s].deployed) \cup Range(events[s].notified)

\* A session that is to be returned has an event to be taken; and, with a user
\* who takes all events before it commits, an event that was notified is in a
\* session that will be returned or was.
NotifiedIsReturned ==
    \A s \in Session :
        /\ s \in Range(queue["notified"]) \cup Range(queue["posted"]) =>
              events[s].notified # <<>>
        /\ TakesAll /\ events[s].notified # <<>> =>
              s \notin Range(queue["committing"]) \cup Range(queue["deployed"])

\* ek3_reactor_destroy destroys each session once ("all sessions & events will
\* be destroyed", says the comment on the destruction of the hash table).
DestroyedOnce == \A s \in Session : freed[s] <= 1

\* ek3_deploy_session is handed the time for the timers' stamps ("timestamp set
\* based on current_time"): a timer is notified only when its period is over.
TimersNotEarly ==
    \A s \in Session : Range(events[s].notified) \cap Timer \subseteq elapsed

\* The user gets every event whose descriptor is and stays ready, if epoll
\* watches the descriptor for that event, unless a timer is deployed: ek3_poll
\* loops over the expired timers (DispatchTimer) and never takes one away.
ReadyDelivered ==
    \A e \in IOEvent :
        interest[FdOf[e]] = e /\ FdOf[e] \in ready
            ~> \/ e \in held \/ FdOf[e] \notin ready
               \/ interest[FdOf[e]] # e \/ phase = "closed" \/ timers # {}
=============================================================================
