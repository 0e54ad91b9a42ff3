-------------------------- MODULE SchedulerProofs --------------------------
(***************************************************************************)
(* Proofs about Scheduler, for any number of stacks, requests and           *)
(* descriptors: the queues, the stacks, epoll's registrations, and the way  *)
(* of every request.                                                       *)
(***************************************************************************)
EXTENDS Scheduler, ListTheorems

Runnable == Range(runq)
Blocked  == Range(blockq)
Dying    == Range(dyingq)

\* Who lives on a stack is in one queue, once.
Placed ==
    /\ Once(runq) /\ Once(blockq) /\ Once(dyingq)
    /\ Runnable \cap Blocked = {} /\ Runnable \cap Dying = {} /\ Blocked \cap Dying = {}
    /\ free = Slot \ (Runnable \cup Blocked \cup Dying)

\* The status of a runnable uthread, which it still has to set when it is new or
\* reincarnated.  A new one has that of its stack's last owner.
MayRun(u) ==
    \/ status[u] = "running"
    \/ status[u] = "limbo" /\ resume[u] = "limbo"
    \/ status[u] \in {"prelaunch", "dying"} /\ resume[u] = "start"

Statuses ==
    /\ \A u \in Runnable : MayRun(u)
    /\ \A u \in Blocked : status[u] = "blocking"
    /\ \A u \in Dying : status[u] = "dying"
    /\ \A u \in free : status[u] \in {"prelaunch", "dying"}

\* Whose code and on whose stack the thread executes.
Executing ==
    /\ pc = "user" => /\ running = exec /\ running # None
                      /\ Head(runq) = running /\ status[running] = "running"
    /\ running # None => running \in Runnable
    /\ exec # Carrier => exec \in Runnable \cup Blocked

\* A blocked uthread has one registration at most; nobody has a timer.
Registered ==
    /\ timers = {}
    /\ \A fd \in Fd : armed[fd] # None => armed[fd] \in Blocked
    /\ \A d, e \in Fd : armed[d] # None /\ armed[d] = armed[e] => d = e

QueueInv == TypeOK /\ Placed /\ Statuses /\ Executing /\ Registered

\* Who is not about to be reaped, and what it executes.
Alive == Runnable \cup Blocked
Work  == {entrance[u] : u \in Alive}

\* Nobody executes what another one executes.
Employed ==
    /\ Main \in Alive /\ entrance[Main] = MainWork
    /\ \A u \in Alive : entrance[u] \in Request \cup {MainWork}
    /\ \A u, v \in Alive : entrance[u] = entrance[v] => u = v

\* The five stations of a request.
Stations ==
    /\ Once(inbox) /\ Once(requests)
    /\ Request = fresh \cup Range(inbox) \cup Range(requests) \cup (Work \ {MainWork})
                      \cup finished
    /\ fresh \cap Range(inbox) = {} /\ fresh \cap Range(requests) = {}
    /\ fresh \cap Work = {} /\ fresh \cap finished = {}
    /\ Range(inbox) \cap Range(requests) = {} /\ Range(inbox) \cap Work = {}
    /\ Range(inbox) \cap finished = {}
    /\ Range(requests) \cap Work = {} /\ Range(requests) \cap finished = {}
    /\ Work \cap finished = {}

FirstLife ==
    \A u \in Alive \ reborn : entrance[u] # MainWork => future[u] = FutureOf(entrance[u])

RequestInv == Employed /\ Stations /\ FirstLife

-----------------------------------------------------------------------------
\* The names of nobody and of the carrier are no uthreads.
LEMMA NoUthread == None \notin Slot /\ Carrier \notin Slot /\ Main \in Slot
BY SchedulerAssumption DEF SchedulerAssumption

LEMMA RangesTyped ==
    ASSUME TypeOK
    PROVE  Runnable \subseteq Slot /\ Blocked \subseteq Slot /\ Dying \subseteq Slot
BY DEF TypeOK, Runnable, Blocked, Dying, Range

\* Who calls the scheduler is runnable, and first in its queue.
LEMMA CallerRuns ==
    ASSUME QueueInv, NEW u \in Slot, InUser(u)
    PROVE  /\ u \in Runnable /\ running = u /\ exec = u /\ pc = "user"
           /\ runq # <<>> /\ Head(runq) = u /\ status[u] = "running"
           /\ u \notin Blocked /\ u \notin Dying /\ u \notin free
           /\ \A fd \in Fd : armed[fd] # u
<1>1. u \in Runnable /\ running = u /\ exec = u /\ pc = "user" /\ Head(runq) = u
      /\ status[u] = "running"
  BY NoUthread DEF QueueInv, Executing, InUser
<1>2. runq # <<>>
  BY <1>1, EmptyFacts DEF Runnable
<1>3. u \notin Blocked /\ u \notin Dying /\ u \notin free
  BY <1>1 DEF QueueInv, Placed
<1>4. \A fd \in Fd : armed[fd] # u
  BY <1>3, NoUthread DEF QueueInv, Registered
<1> QED
  BY <1>1, <1>2, <1>3, <1>4

\* What a step does to the ranges of the queues is all that matters of them.
LEMMA NothingMoves ==
    ASSUME QueueInv, TypeOK',
           UNCHANGED <<free, status, runq, blockq, dyingq, running, exec, armed, timers>>,
           \A u \in Runnable : resume'[u] = resume[u] \/ status[u] = "running",
           pc' = "user" => pc = "user"
    PROVE  QueueInv'
<1>1. Runnable' = Runnable /\ Blocked' = Blocked /\ Dying' = Dying
  BY DEF Runnable, Blocked, Dying
<1>2. Placed'
  BY <1>1 DEF QueueInv, Placed
<1>3. Statuses'
  BY <1>1 DEF QueueInv, Statuses, MayRun
<1>4. Executing' /\ Registered'
  BY <1>1 DEF QueueInv, Executing, Registered
<1> QED
  BY <1>2, <1>3, <1>4 DEF QueueInv

LEMMA InitQueueInv == Init => QueueInv
<1> SUFFICES ASSUME Init PROVE QueueInv
  OBVIOUS
<1>1. /\ runq \in Seq(Slot) /\ Runnable = {Main} /\ Once(runq)
      /\ blockq \in Seq(Slot) /\ Blocked = {} /\ Once(blockq)
      /\ dyingq \in Seq(Slot) /\ Dying = {} /\ Once(dyingq)
  BY NoUthread, SingleFacts, EmptyFacts, EmptySeq DEF Init, Runnable, Blocked, Dying
<1>2. requests \in Seq(Request) /\ inbox \in Seq(Request)
  BY EmptySeq DEF Init
<1>3. TypeOK
  BY <1>1, <1>2, NoUthread, SchedulerAssumption DEF Init, TypeOK, SchedulerAssumption
<1>4. Placed
  BY <1>1 DEF Init, Placed
<1>5. Statuses
  BY <1>1, NoUthread DEF Init, Statuses, MayRun
<1>6. Executing /\ Registered
  BY <1>1 DEF Init, Executing, Registered
<1> QED
  BY <1>3, <1>4, <1>5, <1>6 DEF QueueInv

LEMMA PostKeeps ==
    ASSUME QueueInv, NEW r \in Request, Post(r)
    PROVE  QueueInv'
<1>1. inbox' \in Seq(Request)
  BY AppendFacts DEF QueueInv, TypeOK, Post
<1>2. TypeOK'
  BY <1>1 DEF QueueInv, TypeOK, Post, uthreadVars, queueVars, busVars
<1> QED
  BY <1>2, NothingMoves DEF Post, uthreadVars, queueVars, busVars

LEMMA BecomesReadyKeeps ==
    ASSUME QueueInv, NEW fd \in Fd, BecomesReady(fd)
    PROVE  QueueInv'
<1>1. TypeOK'
  BY DEF QueueInv, TypeOK, BecomesReady, uthreadVars, queueVars, busVars
<1> QED
  BY <1>1, NothingMoves DEF BecomesReady, uthreadVars, queueVars, busVars

LEMMA YieldKeeps ==
    ASSUME QueueInv, NEW u \in Slot, Yield(u)
    PROVE  QueueInv'
<1>1. InUser(u) /\ status[u] = "running"
  BY CallerRuns DEF Yield
<1>2. tokens' \in 0 .. MaxTokens + 1
  BY SchedulerAssumption DEF QueueInv, TypeOK, Yield, SchedulerAssumption
<1>3. TypeOK'
  BY <1>2 DEF QueueInv, TypeOK, Yield, Refresh, queueVars, busVars, worldVars
<1>4. \A v \in Runnable : resume'[v] = resume[v] \/ status[v] = "running"
  BY <1>1, RangesTyped DEF QueueInv, TypeOK, Yield
<1> QED
  BY <1>3, <1>4, NothingMoves DEF Yield, Refresh, queueVars, busVars, worldVars

LEMMA EpollFailsKeeps ==
    ASSUME QueueInv, EpollFails
    PROVE  QueueInv'
<1>1. TypeOK' /\ pc' # "user"
  BY DEF QueueInv, TypeOK, EpollFails, Return, uthreadVars, queueVars, busVars, worldVars
<1> QED
  BY <1>1, NothingMoves DEF EpollFails, uthreadVars, queueVars, busVars, worldVars

LEMMA DrainInboxKeeps ==
    ASSUME QueueInv, DrainInbox
    PROVE  QueueInv'
<1>1. requests' \in Seq(Request) /\ inbox' \in Seq(Request)
  BY ConcatFacts, EmptySeq DEF QueueInv, TypeOK, DrainInbox
<1>2. TypeOK' /\ pc' # "user"
  BY <1>1 DEF QueueInv, TypeOK, DrainInbox, uthreadVars, queueVars, busVars
<1> QED
  BY <1>2, NothingMoves DEF DrainInbox, uthreadVars, queueVars, busVars

LEMMA InboxBusyKeeps ==
    ASSUME QueueInv, InboxBusy
    PROVE  QueueInv'
<1>1. TypeOK' /\ pc' # "user"
  BY DEF QueueInv, TypeOK, InboxBusy, uthreadVars, queueVars, worldVars
<1> QED
  BY <1>1, NothingMoves DEF InboxBusy, uthreadVars, queueVars

LEMMA NoStackKeeps ==
    ASSUME QueueInv, NoStack
    PROVE  QueueInv'
<1>1. TypeOK' /\ pc' # "user"
  BY DEF QueueInv, TypeOK, NoStack, uthreadVars, queueVars, busVars, worldVars
<1> QED
  BY <1>1, NothingMoves DEF NoStack, uthreadVars, queueVars, busVars, worldVars

\* A new uthread at the end of a queue of runnable ones.
LEMMA NewcomerPlaced ==
    ASSUME QueueInv, NEW u \in Slot, NEW r, NewUthread(u, r),
           NEW queue \in Seq(Slot), Once(queue), Range(queue) = Runnable,
           runq' = Append(queue, u), UNCHANGED <<blockq, dyingq>>
    PROVE  /\ u \notin Runnable /\ u \notin Blocked /\ u \notin Dying
           /\ runq' \in Seq(Slot) /\ Runnable' = Runnable \cup {u}
           /\ Blocked' = Blocked /\ Dying' = Dying
           /\ Placed'
           /\ status[u] \in {"prelaunch", "dying"} /\ resume'[u] = "start"
           /\ \A v \in Slot \ {u} : resume'[v] = resume[v]
<1>1. u \notin Runnable /\ u \notin Blocked /\ u \notin Dying /\ free' = free \ {u}
      /\ status[u] \in {"prelaunch", "dying"}
  BY DEF QueueInv, Placed, Statuses, NewUthread
<1>2. runq' \in Seq(Slot) /\ Range(runq') = Runnable \cup {u} /\ Once(runq')
  BY <1>1, AppendFacts
<1>3. Runnable' = Runnable \cup {u} /\ Blocked' = Blocked /\ Dying' = Dying
  BY <1>2 DEF Runnable, Blocked, Dying
<1>4. Once(blockq') /\ Once(dyingq')
  BY DEF QueueInv, Placed
<1>5. Placed'
  BY <1>1, <1>2, <1>3, <1>4 DEF QueueInv, Placed
<1>6. resume'[u] = "start" /\ \A v \in Slot \ {u} : resume'[v] = resume[v]
  BY DEF NewUthread, QueueInv, TypeOK
<1> QED
  BY <1>1, <1>2, <1>3, <1>5, <1>6

LEMMA CreateLocalKeeps ==
    ASSUME QueueInv, NEW u \in Slot, CreateLocal(u)
    PROVE  QueueInv'
<1>1. PICK r \in fresh \ Submitted, v \in Slot :
         NewUthread(v, r) /\ fresh' = fresh \ {r} /\ runq' = Append(runq, v)
  BY DEF CreateLocal
<1>2. /\ runq \in Seq(Slot) /\ Once(runq) /\ Range(runq) = Runnable
      /\ UNCHANGED <<status, blockq, dyingq, running, exec, pc, armed, timers>>
  BY DEF QueueInv, TypeOK, Placed, Runnable, CreateLocal, busVars
<1>3. /\ v \notin Runnable /\ v \notin Blocked /\ v \notin Dying
      /\ runq' \in Seq(Slot) /\ Runnable' = Runnable \cup {v}
      /\ Blocked' = Blocked /\ Dying' = Dying /\ Placed'
      /\ status[v] \in {"prelaunch", "dying"} /\ resume'[v] = "start"
      /\ \A w \in Slot \ {v} : resume'[w] = resume[w]
  BY <1>1, <1>2, NewcomerPlaced
<1>4. runq # <<>> /\ pc = "user"
  BY CallerRuns DEF CreateLocal
<1>5. Head(runq') = Head(runq)
  BY <1>1, <1>2, <1>4, AppendFacts
<1>6. r \in Request /\ FutureOf(r) \in Request \cup {None}
  BY <1>1, SchedulerAssumption DEF QueueInv, TypeOK, FutureOf, SchedulerAssumption
<1>7. TypeOK'
  BY <1>1, <1>3, <1>6 DEF QueueInv, TypeOK, CreateLocal, NewUthread, busVars
<1>8. Statuses'
  <2>1. free' = free \ {v}
    BY <1>1 DEF NewUthread
  <2> QED
    BY <1>2, <1>3, <2>1, RangesTyped DEF QueueInv, Statuses, MayRun
<1>9. Executing' /\ Registered'
  BY <1>2, <1>3, <1>5 DEF QueueInv, Executing, Registered
<1> QED
  BY <1>3, <1>7, <1>8, <1>9 DEF QueueInv

\* p7r_blocking_point moves its caller from the head of one queue to the end of
\* another.
LEMMA BlockedQueues ==
    ASSUME QueueInv, NEW u \in Slot, InUser(u), Block(u)
    PROVE  /\ runq' \in Seq(Slot) /\ Once(runq') /\ Runnable' = Runnable \ {u}
           /\ blockq' \in Seq(Slot) /\ Once(blockq') /\ Blocked' = Blocked \cup {u}
<1>1. runq \in Seq(Slot) /\ blockq \in Seq(Slot) /\ Once(runq) /\ Once(blockq)
      /\ u \notin Range(blockq)
  BY CallerRuns DEF QueueInv, TypeOK, Placed, Blocked
<1> QED
  BY <1>1, WithoutFacts, AppendFacts DEF Block, Runnable, Blocked

LEMMA BlockKeeps ==
    ASSUME QueueInv, NEW u \in Slot, InUser(u), Block(u), TypeOK',
           UNCHANGED <<free, dyingq, exec, timers>>,
           armed' = armed \/ \E fd \in Fd : armed' = [armed EXCEPT ![fd] = u]
    PROVE  QueueInv'
<1>1. /\ Once(runq') /\ Runnable' = Runnable \ {u}
      /\ Once(blockq') /\ Blocked' = Blocked \cup {u} /\ Dying' = Dying
  BY BlockedQueues DEF Dying
<1>2. /\ u \in Runnable /\ exec = u
      /\ u \notin Blocked /\ u \notin Dying /\ u \notin free
      /\ \A fd \in Fd : armed[fd] # u
  BY CallerRuns
<1>3. Placed'
  BY <1>1, <1>2 DEF QueueInv, Placed
<1>4. /\ \A v \in Slot \ {u} : status'[v] = status[v] /\ resume'[v] = resume[v]
      /\ status'[u] = "blocking"
  BY DEF QueueInv, TypeOK, Block
<1>5. Statuses'
  BY <1>1, <1>2, <1>4, RangesTyped DEF QueueInv, Placed, Statuses, MayRun
<1>6. Executing'
  BY <1>1, <1>2 DEF Executing, Block, Refresh
<1>7. Registered'
  <2>1. CASE armed' = armed
    BY <1>1, <2>1 DEF QueueInv, Registered
  <2>2. ASSUME NEW fd \in Fd, armed' = [armed EXCEPT ![fd] = u]
        PROVE  Registered'
    <3>1. armed'[fd] = u /\ \A d \in Fd \ {fd} : armed'[d] = armed[d]
      BY <2>2 DEF QueueInv, TypeOK
    <3> QED
      BY <1>1, <1>2, <3>1 DEF QueueInv, Registered
  <2> QED
    BY <2>1, <2>2
<1> QED
  BY <1>3, <1>5, <1>6, <1>7 DEF QueueInv

LEMMA DelegateIoKeeps ==
    ASSUME QueueInv, NEW u \in Slot, NEW fd \in Fd, NEW t \in BOOLEAN, DelegateIo(u, fd, t)
    PROVE  QueueInv'
<1>1. /\ InUser(u) /\ Block(u) /\ UNCHANGED <<free, dyingq, exec, timers>>
      /\ armed' = armed \/ armed' = [armed EXCEPT ![fd] = u]
  BY DEF DelegateIo
<1>2. TypeOK'
  BY <1>1, BlockedQueues
     DEF QueueInv, TypeOK, DelegateIo, Block, Refresh, worldVars
<1> QED
  BY <1>1, <1>2, BlockKeeps

LEMMA DelegateTimedKeeps ==
    ASSUME QueueInv, NEW u \in Slot, DelegateTimed(u)
    PROVE  QueueInv'
<1>1. InUser(u) /\ Block(u) /\ UNCHANGED <<free, dyingq, exec, timers, armed>>
  BY DEF DelegateTimed
<1>2. TypeOK'
  BY <1>1, BlockedQueues
     DEF QueueInv, TypeOK, DelegateTimed, Block, Refresh, worldVars
<1> QED
  BY <1>1, <1>2, BlockKeeps

\* The function that returns is that of a request: main_uthread's is not here.
LEMMA Returns ==
    ASSUME QueueInv, RequestInv, NEW u \in Slot, InUser(u), u # Main
    PROVE  entrance[u] \in Request /\ entrance[u] # MainWork
BY CallerRuns DEF RequestInv, Employed, Alive

LEMMA ReincarnateKeeps ==
    ASSUME QueueInv, RequestInv, NEW u \in Slot, Reincarnate(u)
    PROVE  QueueInv'
<1>1. InUser(u) /\ u # Main /\ requests # <<>>
  BY DEF Reincarnate
<1>2. entrance[u] \in Request
  BY <1>1, Returns
<1>3. Head(requests) \in Request /\ requests' \in Seq(Request)
  BY <1>1, TailFacts DEF QueueInv, TypeOK, Reincarnate
<1>4. TypeOK'
  BY <1>2, <1>3 DEF QueueInv, TypeOK, Reincarnate, Refresh, queueVars, busVars
<1>5. /\ u \in Runnable /\ u \notin Blocked /\ u \notin Dying /\ u \notin free
  BY <1>1, CallerRuns
<1>6. /\ UNCHANGED <<free, runq, blockq, dyingq, running, exec, armed, timers>>
      /\ pc' = "wait"
      /\ Runnable' = Runnable /\ Blocked' = Blocked /\ Dying' = Dying
  BY DEF Reincarnate, Refresh, queueVars, busVars, Runnable, Blocked, Dying
<1>7. /\ \A v \in Slot \ {u} : status'[v] = status[v] /\ resume'[v] = resume[v]
      /\ status'[u] = "limbo" /\ resume'[u] = "limbo"
  BY DEF QueueInv, TypeOK, Reincarnate
<1>8. Placed' /\ Executing' /\ Registered'
  BY <1>6 DEF QueueInv, Placed, Executing, Registered
<1>9. Statuses'
  BY <1>5, <1>6, <1>7, RangesTyped DEF QueueInv, Placed, Statuses, MayRun
<1> QED
  BY <1>4, <1>8, <1>9 DEF QueueInv

LEMMA DieKeeps ==
    ASSUME QueueInv, RequestInv, NEW u \in Slot, Die(u)
    PROVE  QueueInv'
<1>1. /\ InUser(u) /\ u # Main /\ UNCHANGED <<free, resume, blockq, armed, timers>>
      /\ pc' = "wait" /\ running' = None /\ exec' = Carrier
  BY DEF Die, Refresh, busVars
<1>2. entrance[u] \in Request
  BY <1>1, Returns
<1>3. /\ u \in Runnable /\ u \notin Blocked /\ u \notin Dying /\ u \notin free
  BY <1>1, CallerRuns
<1>4. /\ runq' \in Seq(Slot) /\ Once(runq') /\ Runnable' = Runnable \ {u}
      /\ dyingq' \in Seq(Slot) /\ Once(dyingq') /\ Dying' = Dying \cup {u}
      /\ Blocked' = Blocked
  BY <1>1, <1>3, WithoutFacts, AppendFacts
     DEF QueueInv, TypeOK, Placed, Die, Runnable, Dying, Blocked
<1>5. TypeOK'
  BY <1>2, <1>4 DEF QueueInv, TypeOK, Die, Refresh, busVars
<1>6. Placed'
  BY <1>1, <1>3, <1>4 DEF QueueInv, Placed
<1>7. \A v \in Slot \ {u} : status'[v] = status[v]
  BY DEF QueueInv, TypeOK, Die
<1>8. status'[u] = "dying"
  BY DEF QueueInv, TypeOK, Die
<1>9. Statuses'
  BY <1>1, <1>3, <1>4, <1>7, <1>8, RangesTyped DEF QueueInv, Placed, Statuses, MayRun
<1>10. Executing' /\ Registered'
  BY <1>1, <1>4, NoUthread DEF QueueInv, Executing, Registered
<1> QED
  BY <1>5, <1>6, <1>9, <1>10 DEF QueueInv

-----------------------------------------------------------------------------
\* Epoll reports delegations of blocked uthreads, each once, and no timer.
LEMMA EpollReports ==
    ASSUME QueueInv, EpollReturns
    PROVE  \E reported \in SUBSET Blocked :
              /\ reported = {armed[fd] : fd \in Reportable}
              /\ runq' \in Seq(Slot) /\ Once(runq') /\ Runnable' = Runnable \cup reported
              /\ blockq' \in Seq(Slot) /\ Once(blockq') /\ Blocked' = Blocked \ reported
              /\ status' = [u \in Slot |-> IF u \in reported THEN "running" ELSE status[u]]
              /\ timers' = {} /\ timed' \subseteq timed
<1> DEFINE reported == {armed[fd] : fd \in Reportable}
<1>1. timers = {}
  BY DEF QueueInv, Registered
<1>2. /\ \E first \in Orders({}), second \in Orders(reported) : Reenable(first \o second)
      /\ timers' = {} /\ timed' = timed \ reported
  <2>1. PICK due \in SUBSET timers :
           /\ \E first \in Orders(due), second \in Orders(reported \ due) :
                 Reenable(first \o second)
           /\ timers' = timers \ (due \cup (reported \ due))
           /\ timed' = timed \ (due \cup (reported \ due))
    BY DEF EpollReturns
  <2>2. due = {} /\ reported \ due = reported
    BY <1>1
  <2> QED
    BY <2>1, <2>2, <1>1
<1>3. PICK first \in Orders({}), second \in Orders(reported) : Reenable(first \o second)
  BY <1>2
<1>4. reported \subseteq Blocked
  BY DEF QueueInv, Registered, Reportable, TypeOK
<1>5. Blocked \subseteq Slot /\ IsFiniteSet(Blocked)
  BY RangesTyped, FiniteRange DEF QueueInv, TypeOK, Blocked
<1>6. IsFiniteSet(reported) /\ reported \in SUBSET Slot
  BY <1>4, <1>5, FS_Subset
<1> HIDE DEF reported
<1>7. first \in Seq(Slot) /\ Range(first) = {} /\ Once(first)
  BY OrdersFacts, FS_EmptySet
<1>8. second \in Seq(Slot) /\ Range(second) = reported /\ Once(second)
  BY <1>6, OrdersFacts
<1> DEFINE seq == first \o second
<1>9. seq \in Seq(Slot) /\ Range(seq) = reported /\ Once(seq)
  <2>1. seq = first \o second
    OBVIOUS
  <2> HIDE DEF seq
  <2>2. Range(first) \cap Range(second) = {}
    BY <1>7
  <2>3. seq \in Seq(Slot) /\ Range(seq) = Range(first) \cup Range(second) /\ Once(seq)
    <3>1. first \in Seq(Slot) /\ second \in Seq(Slot)
      BY <1>7, <1>8
    <3>2. Range(first \o second) = Range(first) \cup Range(second)
      BY <3>1, ConcatFacts, SMTT(30)
    <3>3. first \o second \in Seq(Slot)
      BY <3>1, ConcatFacts
    <3>4. Once(first \o second)
      BY <1>7, <1>8, <2>2, <3>1, ConcatFacts
    <3> QED
      BY <2>1, <3>2, <3>3, <3>4
  <2> QED
    BY <1>7, <1>8, <2>3
<1>10. Reenable(seq)
  BY <1>3
<1> HIDE DEF seq
<1> DEFINE woken == {u \in Range(seq) : status[u] # "running"}
<1>11. woken = reported
  BY <1>4, <1>9 DEF QueueInv, Statuses
<1>12. /\ status' = [u \in Slot |-> IF u \in reported THEN "running" ELSE status[u]]
       /\ blockq' = Only(blockq, Slot \ reported)
       /\ runq' = Only(runq, Slot \ reported) \o Only(seq, reported)
  BY <1>10, <1>11 DEF Reenable
<1>13. blockq' \in Seq(Slot) /\ Once(blockq') /\ Range(blockq') = Blocked \ reported
  <2>1. blockq \in Seq(Slot) /\ Once(blockq) /\ Range(blockq) = Blocked
    BY DEF QueueInv, TypeOK, Placed, Blocked
  <2> QED
    BY <2>1, <1>5, <1>12, OnlyFacts, OnlyOnce
<1>14. /\ Only(runq, Slot \ reported) \in Seq(Slot) /\ Once(Only(runq, Slot \ reported))
       /\ Range(Only(runq, Slot \ reported)) = Runnable
  <2>1. runq \in Seq(Slot) /\ Once(runq) /\ Range(runq) = Runnable
    BY DEF QueueInv, TypeOK, Placed, Runnable
  <2>2. Runnable \subseteq Slot \ reported
    BY <1>4, RangesTyped DEF QueueInv, Placed
  <2> QED
    BY <2>1, <2>2, OnlyFacts, OnlyOnce, ZenonT(30)
<1>15. /\ Only(seq, reported) \in Seq(Slot) /\ Once(Only(seq, reported))
       /\ Range(Only(seq, reported)) = reported
  <2>1. /\ Only(seq, reported) \in Seq(Slot)
        /\ Range(Only(seq, reported)) = Range(seq) \cap reported
    BY <1>9, OnlyFacts
  <2>2. Once(Only(seq, reported))
    BY <1>9, OnlyOnce
  <2> QED
    BY <1>9, <2>1, <2>2
<1>16. Runnable \cap reported = {}
  BY <1>4 DEF QueueInv, Placed
<1>17. runq' \in Seq(Slot) /\ Once(runq') /\ Range(runq') = Runnable \cup reported
  <2> DEFINE kept == Only(runq, Slot \ reported)
             back == Only(seq, reported)
  <2>1. /\ kept \in Seq(Slot) /\ Once(kept) /\ Range(kept) = Runnable
        /\ back \in Seq(Slot) /\ Once(back) /\ Range(back) = reported
        /\ runq' = kept \o back
    BY <1>12, <1>14, <1>15
  <2> HIDE DEF kept, back
  <2> QED
    BY <1>16, <2>1, ConcatFacts
<1>18. timers' = {} /\ timed' \subseteq timed
  BY <1>2
<1>19. Runnable' = Runnable \cup reported /\ Blocked' = Blocked \ reported
  BY <1>13, <1>17 DEF Runnable, Blocked
<1> QED
  BY <1>4, <1>12, <1>13, <1>17, <1>18, <1>19 DEF reported

LEMMA EpollReturnsKeeps ==
    ASSUME QueueInv, EpollReturns
    PROVE  QueueInv'
<1>1. PICK reported \in SUBSET Blocked :
         /\ reported = {armed[fd] : fd \in Reportable}
         /\ runq' \in Seq(Slot) /\ Once(runq') /\ Runnable' = Runnable \cup reported
         /\ blockq' \in Seq(Slot) /\ Once(blockq') /\ Blocked' = Blocked \ reported
         /\ status' = [u \in Slot |-> IF u \in reported THEN "running" ELSE status[u]]
         /\ timers' = {} /\ timed' \subseteq timed
  BY EpollReports
<1>2. /\ UNCHANGED <<free, entrance, future, reborn, resume, dyingq, running, tokens,
                     requests, exec, site, fresh, inbox, finished>>
      /\ armed' = [fd \in Fd |-> IF fd \in Reportable THEN None ELSE armed[fd]]
      /\ ready' = ready \ Reportable /\ bell' = FALSE /\ consumed' = TRUE /\ pc' = "drain"
  BY DEF EpollReturns
<1>3. TypeOK'
  BY <1>1, <1>2 DEF QueueInv, TypeOK
<1>4. Dying' = Dying
  BY <1>2 DEF Dying
<1>5. Placed'
  BY <1>1, <1>2, <1>4 DEF QueueInv, Placed
<1>6. Statuses'
  <2>1. \A u \in Slot : status'[u] = IF u \in reported THEN "running" ELSE status[u]
    BY <1>1
  <2>2. Runnable \subseteq Slot /\ Blocked \subseteq Slot /\ Dying \subseteq Slot
        /\ free \subseteq Slot
    BY RangesTyped DEF QueueInv, TypeOK
  <2>3. \A u \in Runnable' : MayRun(u)'
    <3> SUFFICES ASSUME NEW u \in Runnable' PROVE MayRun(u)'
      OBVIOUS
    <3>1. CASE u \in reported
      BY <2>1, <2>2, <3>1 DEF MayRun
    <3>2. CASE u \notin reported
      BY <1>1, <1>2, <2>1, <2>2, <3>2 DEF QueueInv, Statuses, MayRun
    <3> QED
      BY <3>1, <3>2
  <2>4. \A u \in Dying \cup free : u \notin reported
    BY <1>1 DEF QueueInv, Placed
  <2> QED
    BY <1>1, <1>2, <1>4, <2>1, <2>2, <2>3, <2>4 DEF QueueInv, Statuses
<1>7. Executing'
  BY <1>1, <1>2 DEF QueueInv, Executing
<1>8. Registered'
  <2>1. \A fd \in Fd : armed'[fd] # None => /\ fd \notin Reportable
                                            /\ armed'[fd] = armed[fd]
    BY <1>2
  <2>2. \A fd \in Fd : armed'[fd] # None => armed[fd] \notin reported
    <3> SUFFICES ASSUME NEW fd \in Fd, armed'[fd] # None, armed[fd] \in reported
                 PROVE  FALSE
      OBVIOUS
    <3>1. PICK d \in Reportable : armed[d] = armed[fd]
      BY <1>1
    <3>2. d \in Fd /\ armed[d] # None
      BY DEF Reportable, QueueInv, TypeOK
    <3>3. d = fd
      BY <3>1, <3>2 DEF QueueInv, Registered
    <3> QED
      BY <2>1, <3>3
  <2> QED
    BY <1>1, <2>1, <2>2 DEF QueueInv, Registered
<1> QED
  BY <1>3, <1>5, <1>6, <1>7, <1>8 DEF QueueInv

LEMMA ReapKeeps ==
    ASSUME QueueInv, Reap
    PROVE  QueueInv'
<1>1. PICK zeroed \in SUBSET Dying :
         status' = [u \in Slot |-> IF u \in zeroed THEN "prelaunch" ELSE status[u]]
  BY DEF Reap, Dying
<1>2. /\ UNCHANGED <<resume, runq, blockq, running, exec, armed, timers>>
      /\ free' = free \cup Dying /\ pc' # "user"
  BY DEF Reap, Return, busVars, Dying
<1>3. /\ dyingq' \in Seq(Slot) /\ Once(dyingq') /\ Dying' = {}
      /\ Runnable' = Runnable /\ Blocked' = Blocked
  BY <1>2, EmptyFacts, EmptySeq DEF Reap, Dying, Runnable, Blocked
<1>4. Dying \subseteq Slot /\ Runnable \subseteq Slot /\ Blocked \subseteq Slot
  BY RangesTyped DEF QueueInv
<1>5. TypeOK'
  BY <1>1, <1>2, <1>3, <1>4 DEF QueueInv, TypeOK, Reap, Return, busVars, worldVars
<1>6. Placed'
  BY <1>2, <1>3, <1>4 DEF QueueInv, Placed
<1>7. Statuses'
  <2>1. \A u \in Slot : status'[u] = IF u \in zeroed THEN "prelaunch" ELSE status[u]
    BY <1>1
  <2>2. free \subseteq Slot /\ \A u \in Runnable \cup Blocked : u \notin zeroed
    BY DEF QueueInv, Placed
  <2> QED
    BY <1>2, <1>3, <1>4, <2>1, <2>2 DEF QueueInv, Statuses, MayRun
<1>8. Executing' /\ Registered'
  BY <1>2, <1>3 DEF QueueInv, Executing, Registered
<1> QED
  BY <1>5, <1>6, <1>7, <1>8 DEF QueueInv

LEMMA PickKeeps ==
    ASSUME QueueInv, Pick
    PROVE  QueueInv'
<1>1. /\ UNCHANGED <<blockq, dyingq, running, tokens, exec, site, busVars, worldVars>>
      /\ pc' = "resched"
  BY DEF Pick
<1>2. CASE requests = <<>>
  <2>1. UNCHANGED <<uthreadVars, runq, requests>>
    BY <1>2 DEF Pick
  <2>2. TypeOK'
    BY <1>1, <2>1 DEF QueueInv, TypeOK, uthreadVars, busVars, worldVars
  <2> QED
    BY <1>1, <2>1, <2>2, NothingMoves DEF uthreadVars, busVars
<1>3. CASE requests # <<>>
  <2>1. PICK u \in Slot : /\ NewUthread(u, Head(requests))
                          /\ requests' = Tail(requests)
                          /\ runq' = Append(runq, u)
                          /\ UNCHANGED status
    BY <1>3 DEF Pick
  <2>2. Head(requests) \in Request /\ requests' \in Seq(Request)
    BY <1>3, <2>1, TailFacts DEF QueueInv, TypeOK
  <2>3. FutureOf(Head(requests)) \in Request \cup {None}
    BY <2>2 DEF FutureOf
  <2>4. runq \in Seq(Slot) /\ Once(runq) /\ Range(runq) = Runnable
    BY DEF QueueInv, TypeOK, Placed, Runnable
  <2>5. /\ u \notin Runnable /\ u \notin Blocked /\ u \notin Dying
        /\ runq' \in Seq(Slot) /\ Runnable' = Runnable \cup {u}
        /\ Blocked' = Blocked /\ Dying' = Dying /\ Placed'
        /\ status[u] \in {"prelaunch", "dying"} /\ resume'[u] = "start"
        /\ \A v \in Slot \ {u} : resume'[v] = resume[v]
    BY <1>1, <2>1, <2>4, NewcomerPlaced
  <2>6. TypeOK'
    BY <1>1, <2>1, <2>2, <2>3, <2>5 DEF QueueInv, TypeOK, NewUthread, busVars, worldVars
  <2>7. free' = free \ {u}
    BY <2>1 DEF NewUthread
  <2>8. Statuses'
    BY <2>1, <2>5, <2>7, RangesTyped DEF QueueInv, Statuses, MayRun
  <2>9. Executing' /\ Registered'
    BY <1>1, <2>5 DEF QueueInv, Executing, Registered, busVars
  <2> QED
    BY <2>5, <2>6, <2>8, <2>9 DEF QueueInv
<1> QED
  BY <1>2, <1>3

\* Requeueing the uthread that ran last is a permutation of the queue.
LEMMA RequeuedFacts ==
    ASSUME QueueInv
    PROVE  Requeued \in Seq(Slot) /\ Once(Requeued) /\ Range(Requeued) = Runnable
<1>1. runq \in Seq(Slot) /\ Once(runq) /\ Range(runq) = Runnable
  BY DEF QueueInv, TypeOK, Placed, Runnable
<1>2. CASE running = None
  BY <1>1, <1>2 DEF Requeued
<1>3. CASE running # None
  <2>1. running \in Slot /\ running \in Runnable
    BY <1>3 DEF QueueInv, TypeOK, Executing
  <2>2. /\ Without(runq, running) \in Seq(Slot) /\ Once(Without(runq, running))
        /\ Range(Without(runq, running)) = Runnable \ {running}
    BY <1>1, WithoutFacts
  <2> DEFINE others == Without(runq, running)
  <2>3. Requeued = Append(others, running)
    BY <1>3 DEF Requeued
  <2> HIDE DEF others
  <2>4. Requeued \in Seq(Slot) /\ Once(Requeued)
        /\ Range(Requeued) = Range(others) \cup {running}
    BY <2>1, <2>2, <2>3, AppendFacts DEF others
  <2> QED
    BY <2>1, <2>2, <2>4 DEF others
<1> QED
  BY <1>2, <1>3

\* Whoever is switched to is running when its code goes on.
LEMMA MarkedFacts ==
    ASSUME QueueInv, NEW u \in Runnable
    PROVE  /\ Marked(u) \in [Slot -> {"prelaunch", "running", "limbo", "dying", "blocking"}]
           /\ Marked(u)[u] = "running"
           /\ \A v \in Slot \ {u} : Marked(u)[v] = status[v]
<1>1. u \in Slot /\ status \in [Slot -> {"prelaunch", "running", "limbo", "dying", "blocking"}]
  BY RangesTyped DEF QueueInv, TypeOK
<1>2. MayRun(u)
  BY DEF QueueInv, Statuses
<1> QED
  BY <1>1, <1>2 DEF MayRun, Marked

LEMMA TakeTokenFacts ==
    ASSUME QueueInv, TakeToken
    PROVE  tokens' \in 0 .. MaxTokens + 1
BY SchedulerAssumption DEF QueueInv, TypeOK, TakeToken, HasToken, SchedulerAssumption

LEMMA ReschedOldKeeps ==
    ASSUME QueueInv, ReschedOld
    PROVE  QueueInv'
<1> DEFINE u == Head(Requeued)
<1>1. /\ Requeued # <<>> /\ runq' = Requeued /\ status' = Marked(u)
      /\ running' = u /\ exec' = u /\ pc' = "user"
      /\ UNCHANGED <<free, entrance, future, reborn, resume, blockq, dyingq, tokens,
                     requests, site, busVars, worldVars>>
  BY DEF ReschedOld, WantsRequest, SwitchTo
<1>2. Requeued \in Seq(Slot) /\ Once(Requeued) /\ Range(Requeued) = Runnable
  BY RequeuedFacts
<1>3. u \in Runnable /\ u \in Slot
  BY <1>1, <1>2, TailFacts
<1>4. Head(runq') = u
  BY <1>1
<1> HIDE DEF u
<1>5. /\ status' \in [Slot -> {"prelaunch", "running", "limbo", "dying", "blocking"}]
      /\ status'[u] = "running" /\ \A v \in Slot \ {u} : status'[v] = status[v]
  BY <1>1, <1>3, MarkedFacts
<1>6. Runnable' = Runnable /\ Blocked' = Blocked /\ Dying' = Dying
  BY <1>1, <1>2 DEF Runnable, Blocked, Dying
<1>7. TypeOK'
  BY <1>1, <1>2, <1>3, <1>5 DEF QueueInv, TypeOK, busVars, worldVars
<1>8. Placed'
  BY <1>1, <1>2, <1>6 DEF QueueInv, Placed
<1>9. Statuses'
  BY <1>1, <1>3, <1>5, <1>6, RangesTyped DEF QueueInv, TypeOK, Placed, Statuses, MayRun
<1>10. Executing' /\ Registered'
  BY <1>1, <1>3, <1>4, <1>5, <1>6, NoUthread DEF QueueInv, Executing, Registered, busVars
<1> QED
  BY <1>7, <1>8, <1>9, <1>10 DEF QueueInv

LEMMA ReschedNewKeeps ==
    ASSUME QueueInv, ReschedNew
    PROVE  QueueInv'
<1>1. PICK u \in free :
         LET target == Head(Append(Requeued, u)) IN
         /\ NewUthread(u, Head(requests))
         /\ runq' = Append(Requeued, u)
         /\ status' = IF target = u THEN [status EXCEPT ![u] = "running"]
                      ELSE Marked(target)
         /\ SwitchTo(target)
  BY DEF ReschedNew
<1> DEFINE target == Head(Append(Requeued, u))
<1>2. /\ requests # <<>> /\ TakeToken /\ requests' = Tail(requests)
      /\ UNCHANGED <<blockq, dyingq, site, busVars, worldVars>>
      /\ running' = target /\ exec' = target /\ pc' = "user" /\ Head(runq') = target
  BY <1>1 DEF ReschedNew, SwitchTo
<1>3. Requeued \in Seq(Slot) /\ Once(Requeued) /\ Range(Requeued) = Runnable
  BY RequeuedFacts
<1>4. u \in Slot
  BY DEF QueueInv, TypeOK
<1>5. /\ u \notin Runnable /\ u \notin Blocked /\ u \notin Dying
      /\ runq' \in Seq(Slot) /\ Runnable' = Runnable \cup {u}
      /\ Blocked' = Blocked /\ Dying' = Dying /\ Placed'
      /\ status[u] \in {"prelaunch", "dying"} /\ resume'[u] = "start"
      /\ \A v \in Slot \ {u} : resume'[v] = resume[v]
  BY <1>1, <1>2, <1>3, <1>4, NewcomerPlaced
<1>6. target \in Runnable \cup {u}
  <2>1. runq' # <<>>
    BY <1>1, <1>3, <1>4, AppendFacts
  <2>2. Head(runq') \in Range(runq')
    BY <1>5, <2>1, TailFacts
  <2> QED
    BY <1>2, <1>5, <2>2 DEF Runnable
<1>7. status' = IF target = u THEN [status EXCEPT ![u] = "running"] ELSE Marked(target)
  BY <1>1
<1> HIDE DEF target
<1>8. /\ status' \in [Slot -> {"prelaunch", "running", "limbo", "dying", "blocking"}]
      /\ status'[target] = "running"
      /\ \A v \in Slot \ {target} : status'[v] = status[v]
  <2>1. CASE target = u
    BY <1>4, <1>7, <2>1 DEF QueueInv, TypeOK
  <2>2. CASE target # u
    BY <1>6, <1>7, <2>2, MarkedFacts
  <2> QED
    BY <2>1, <2>2
<1>9. Head(requests) \in Request /\ requests' \in Seq(Request)
  BY <1>2, TailFacts DEF QueueInv, TypeOK
<1>10. FutureOf(Head(requests)) \in Request \cup {None}
  BY <1>9 DEF FutureOf
<1>11. target \in Slot /\ target # None
  BY <1>4, <1>6, RangesTyped, NoUthread DEF QueueInv
<1>12. tokens' \in 0 .. MaxTokens + 1
  BY <1>2, TakeTokenFacts
<1>13. TypeOK'
  BY <1>1, <1>2, <1>5, <1>8, <1>9, <1>10, <1>11, <1>12
     DEF QueueInv, TypeOK, NewUthread, busVars, worldVars
<1>14. free' = free \ {u}
  BY <1>1 DEF NewUthread
<1>15. Statuses'
  <2>1. /\ Runnable \subseteq Slot /\ Blocked \subseteq Slot /\ Dying \subseteq Slot
        /\ free \subseteq Slot
    BY RangesTyped DEF QueueInv, TypeOK
  <2>2. \A v \in Runnable \cup {u} : MayRun(v)'
    <3> SUFFICES ASSUME NEW v \in Runnable \cup {u} PROVE MayRun(v)'
      OBVIOUS
    <3>1. CASE v = target
      BY <1>8, <3>1 DEF MayRun
    <3>2. CASE v # target
      BY <1>4, <1>5, <1>8, <2>1, <3>2 DEF QueueInv, Statuses, MayRun
    <3> QED
      BY <3>1, <3>2
  <2>3. \A v \in Blocked \cup Dying \cup (free \ {u}) : v # target
    BY <1>5, <1>6 DEF QueueInv, Placed
  <2> QED
    BY <1>5, <1>8, <1>14, <2>1, <2>2, <2>3 DEF QueueInv, Statuses
<1>16. Executing' /\ Registered'
  BY <1>2, <1>5, <1>6, <1>8, <1>11 DEF QueueInv, Executing, Registered, busVars
<1> QED
  BY <1>5, <1>13, <1>15, <1>16 DEF QueueInv

LEMMA ReschedNullKeeps ==
    ASSUME QueueInv, ReschedNull
    PROVE  QueueInv'
<1>1. /\ runq' = Requeued /\ TakeToken /\ pc' # "user"
      /\ UNCHANGED <<uthreadVars, blockq, dyingq, running, requests, exec, site,
                     busVars, worldVars>>
  BY DEF ReschedNull
<1>2. Requeued \in Seq(Slot) /\ Once(Requeued) /\ Range(Requeued) = Runnable
  BY RequeuedFacts
<1>3. Runnable' = Runnable /\ Blocked' = Blocked /\ Dying' = Dying
  BY <1>1, <1>2 DEF Runnable, Blocked, Dying
<1>4. TypeOK'
  BY <1>1, <1>2, TakeTokenFacts
     DEF QueueInv, TypeOK, ReschedNull, uthreadVars, busVars, worldVars
<1>5. Placed' /\ Statuses'
  BY <1>1, <1>2, <1>3 DEF QueueInv, Placed, Statuses, MayRun, uthreadVars
<1>6. Executing' /\ Registered'
  BY <1>1, <1>3 DEF QueueInv, Executing, Registered, busVars
<1> QED
  BY <1>4, <1>5, <1>6 DEF QueueInv

-----------------------------------------------------------------------------
\* Where nobody is born, dies or takes over a request, and no request moves.
LEMMA RequestsStay ==
    ASSUME QueueInv, RequestInv, Alive' = Alive,
           UNCHANGED <<entrance, future, reborn, fresh, inbox, requests, finished>>
    PROVE  RequestInv'
<1>1. Work' = Work
  BY DEF Work
<1>2. Employed' /\ FirstLife'
  BY DEF RequestInv, Employed, FirstLife
<1>3. Stations'
  BY <1>1 DEF RequestInv, Stations
<1> QED
  BY <1>2, <1>3 DEF RequestInv

LEMMA RequestsTyped ==
    ASSUME QueueInv
    PROVE  /\ requests \in Seq(Request) /\ inbox \in Seq(Request)
           /\ Range(requests) \subseteq Request /\ Range(inbox) \subseteq Request
           /\ Alive \subseteq Slot /\ free \subseteq Slot /\ Alive \cap free = {}
           /\ MainWork \notin Request
BY RangesTyped, SchedulerAssumption
   DEF QueueInv, TypeOK, Placed, Alive, Range, SchedulerAssumption

LEMMA PostConserves ==
    ASSUME QueueInv, RequestInv, NEW r \in Request, Post(r)
    PROVE  RequestInv'
<1>1. /\ r \in fresh /\ fresh' = fresh \ {r} /\ inbox' = Append(inbox, r)
      /\ UNCHANGED <<entrance, future, reborn, runq, blockq, requests, finished>>
  BY DEF Post, uthreadVars, queueVars
<1>2. Alive' = Alive /\ Work' = Work
  BY <1>1 DEF Alive, Runnable, Blocked, Work
<1>3. Employed' /\ FirstLife'
  BY <1>1, <1>2 DEF RequestInv, Employed, FirstLife
<1>4. Range(inbox') = Range(inbox) \cup {r} /\ Once(inbox')
  BY <1>1, AppendFacts, RequestsTyped DEF RequestInv, Stations
<1>5. Stations'
  BY <1>1, <1>2, <1>4 DEF RequestInv, Stations
<1> QED
  BY <1>3, <1>5 DEF RequestInv

LEMMA DrainInboxConserves ==
    ASSUME QueueInv, RequestInv, DrainInbox
    PROVE  RequestInv'
<1>1. /\ requests' = requests \o inbox /\ inbox' = <<>>
      /\ UNCHANGED <<entrance, future, reborn, runq, blockq, fresh, finished>>
  BY DEF DrainInbox, uthreadVars, queueVars
<1>2. Alive' = Alive /\ Work' = Work
  BY <1>1 DEF Alive, Runnable, Blocked, Work
<1>3. Employed' /\ FirstLife'
  BY <1>1, <1>2 DEF RequestInv, Employed, FirstLife
<1>4. Range(inbox') = {} /\ Once(inbox')
  BY <1>1, EmptyFacts
<1>5. Range(requests') = Range(requests) \cup Range(inbox) /\ Once(requests')
  <2>1. /\ requests \in Seq(Request) /\ inbox \in Seq(Request)
        /\ Once(requests) /\ Once(inbox) /\ Range(requests) \cap Range(inbox) = {}
    BY RequestsTyped DEF RequestInv, Stations
  <2> QED
    BY <1>1, <2>1, ConcatFacts
<1>6. Stations'
  BY <1>1, <1>2, <1>4, <1>5 DEF RequestInv, Stations
<1> QED
  BY <1>3, <1>6 DEF RequestInv

\* A new uthread executes what nobody else does, with the future of it.
LEMMA Recruited ==
    ASSUME QueueInv, RequestInv, NEW u \in Slot, NEW r \in Request,
           NewUthread(u, r), r \notin Work, Alive' = Alive \cup {u}
    PROVE  Employed' /\ FirstLife' /\ Work' = Work \cup {r}
<1>1. u \notin Alive
  BY RequestsTyped DEF NewUthread
<1>2. /\ entrance'[u] = r /\ \A v \in Slot \ {u} : entrance'[v] = entrance[v]
      /\ future'[u] = FutureOf(r) /\ \A v \in Slot \ {u} : future'[v] = future[v]
      /\ reborn' = reborn \ {u}
  BY DEF NewUthread, QueueInv, TypeOK
<1>3. Work' = Work \cup {r}
  BY <1>1, <1>2, RequestsTyped DEF Work
<1>4. Employed'
  <2>1. \A v \in Alive : v \in Slot \ {u} /\ entrance'[v] = entrance[v]
                         /\ entrance[v] # r
    BY <1>1, <1>2, RequestsTyped DEF Work
  <2> QED
    BY <1>2, <2>1 DEF RequestInv, Employed
<1>5. FirstLife'
  BY <1>1, <1>2, RequestsTyped DEF RequestInv, FirstLife
<1> QED
  BY <1>3, <1>4, <1>5

LEMMA CreateLocalConserves ==
    ASSUME QueueInv, RequestInv, NEW u \in Slot, CreateLocal(u)
    PROVE  RequestInv'
<1>1. PICK r \in fresh \ Submitted, v \in Slot :
         NewUthread(v, r) /\ fresh' = fresh \ {r} /\ runq' = Append(runq, v)
  BY DEF CreateLocal
<1>2. UNCHANGED <<blockq, inbox, requests, finished>>
  BY DEF CreateLocal
<1>3. Runnable' = Runnable \cup {v} /\ Blocked' = Blocked
  BY <1>1, <1>2, AppendFacts DEF Runnable, Blocked, QueueInv, TypeOK
<1>4. Alive' = Alive \cup {v}
  BY <1>3 DEF Alive
<1>5. r \in Request /\ r \notin Work
  BY DEF RequestInv, Stations, QueueInv, TypeOK
<1>6. Employed' /\ FirstLife' /\ Work' = Work \cup {r}
  BY <1>1, <1>4, <1>5, Recruited
<1>7. Stations'
  BY <1>1, <1>2, <1>5, <1>6, RequestsTyped DEF RequestInv, Stations
<1> QED
  BY <1>6, <1>7 DEF RequestInv

\* The oldest request leaves its queue for a new uthread.
LEMMA HeadRecruited ==
    ASSUME QueueInv, RequestInv, NEW u \in Slot, requests # <<>>,
           NewUthread(u, Head(requests)), requests' = Tail(requests),
           Alive' = Alive \cup {u}, UNCHANGED <<fresh, inbox, finished>>
    PROVE  RequestInv'
<1> DEFINE r == Head(requests)
<1>1. /\ r \in Request /\ Range(requests) = Range(requests') \cup {r}
      /\ Once(requests') /\ r \notin Range(requests')
  BY TailFacts, RequestsTyped DEF RequestInv, Stations
<1>2. r \notin Work
  BY <1>1 DEF RequestInv, Stations
<1>3. NewUthread(u, r)
  OBVIOUS
<1> HIDE DEF r
<1>4. Employed' /\ FirstLife' /\ Work' = Work \cup {r}
  BY <1>1, <1>2, <1>3, Recruited
<1>5. Stations'
  BY <1>1, <1>2, <1>4, RequestsTyped DEF RequestInv, Stations
<1> QED
  BY <1>4, <1>5 DEF RequestInv

LEMMA PickConserves ==
    ASSUME QueueInv, RequestInv, Pick
    PROVE  RequestInv'
<1>1. UNCHANGED <<blockq, fresh, inbox, finished>>
  BY DEF Pick, worldVars
<1>2. CASE requests = <<>>
  BY <1>1, <1>2, RequestsStay DEF Pick, uthreadVars, Alive, Runnable, Blocked
<1>3. CASE requests # <<>>
  <2>1. PICK u \in Slot : /\ NewUthread(u, Head(requests))
                          /\ requests' = Tail(requests)
                          /\ runq' = Append(runq, u)
    BY <1>3 DEF Pick
  <2>2. Alive' = Alive \cup {u}
    BY <1>1, <2>1, AppendFacts DEF Alive, Runnable, Blocked, QueueInv, TypeOK
  <2> QED
    BY <1>1, <1>3, <2>1, <2>2, HeadRecruited
<1> QED
  BY <1>2, <1>3

LEMMA ReschedNewConserves ==
    ASSUME QueueInv, RequestInv, ReschedNew
    PROVE  RequestInv'
<1>1. /\ UNCHANGED <<blockq, fresh, inbox, finished>> /\ requests # <<>>
      /\ requests' = Tail(requests)
  BY DEF ReschedNew, worldVars
<1>2. PICK u \in free : NewUthread(u, Head(requests)) /\ runq' = Append(Requeued, u)
  BY DEF ReschedNew
<1>3. u \in Slot
  BY DEF QueueInv, TypeOK
<1>4. Requeued \in Seq(Slot) /\ Range(Requeued) = Runnable
  BY RequeuedFacts
<1>5. Runnable' = Runnable \cup {u} /\ Blocked' = Blocked
  BY <1>1, <1>2, <1>3, <1>4, AppendFacts DEF Runnable, Blocked
<1> QED
  BY <1>1, <1>2, <1>3, <1>5, HeadRecruited DEF Alive

\* A uthread that takes over the oldest request leaves its own behind.
LEMMA ReincarnateConserves ==
    ASSUME QueueInv, RequestInv, NEW u \in Slot, Reincarnate(u)
    PROVE  RequestInv'
<1> DEFINE r == Head(requests)
           done == entrance[u]
<1>1. /\ InUser(u) /\ u # Main /\ requests # <<>> /\ requests' = Tail(requests)
      /\ finished' = finished \cup {done}
      /\ entrance' = [entrance EXCEPT ![u] = r] /\ reborn' = reborn \cup {u}
      /\ UNCHANGED <<future, runq, blockq, fresh, inbox>>
  BY DEF Reincarnate, queueVars
<1>2. /\ r \in Request /\ Range(requests) = Range(requests') \cup {r}
      /\ Once(requests') /\ r \notin Range(requests')
  BY <1>1, TailFacts, RequestsTyped DEF RequestInv, Stations
<1>3. done \in Request /\ done # MainWork
  BY <1>1, Returns
<1>4. u \in Alive /\ Alive' = Alive /\ Main \in Alive
  BY <1>1, CallerRuns DEF Alive, Runnable, Blocked, RequestInv, Employed
<1>5. entrance'[u] = r /\ \A v \in Slot \ {u} : entrance'[v] = entrance[v]
  BY <1>1 DEF QueueInv, TypeOK
<1>6. done \in Work /\ r \notin Work
  BY <1>2, <1>4 DEF RequestInv, Stations, Work
<1> HIDE DEF r
<1>7. \A v \in Alive \ {u} : v \in Slot \ {u} /\ entrance[v] # done /\ entrance[v] # r
  BY <1>4, <1>6, RequestsTyped DEF RequestInv, Employed, Work
<1>8. Work' = (Work \ {done}) \cup {r}
  <2>1. Work' = {entrance'[v] : v \in Alive \ {u}} \cup {r}
    BY <1>4, <1>5 DEF Work
  <2>2. Work = {entrance[v] : v \in Alive \ {u}} \cup {done}
    BY <1>4 DEF Work
  <2>3. {entrance'[v] : v \in Alive \ {u}} = {entrance[v] : v \in Alive \ {u}}
    BY <1>5, <1>7
  <2> QED
    BY <1>6, <1>7, <2>1, <2>2, <2>3
<1>9. Employed'
  BY <1>1, <1>2, <1>4, <1>5, <1>7, RequestsTyped DEF RequestInv, Employed
<1>10. FirstLife'
  BY <1>1, <1>4, <1>5, <1>7 DEF RequestInv, FirstLife
<1> HIDE DEF done
<1>11. Stations'
  <2>1. Request = fresh \cup Range(inbox) \cup Range(requests) \cup (Work \ {MainWork})
                    \cup finished
    BY DEF RequestInv, Stations
  <2>2. Request' = (fresh \cup Range(inbox) \cup Range(requests) \cup (Work \ {MainWork})
                    \cup finished)'
    BY <1>1, <1>2, <1>3, <1>6, <1>8, <2>1, RequestsTyped
  <2> QED
    BY <1>1, <1>2, <1>6, <1>8, <2>2 DEF RequestInv, Stations
<1> QED
  BY <1>9, <1>10, <1>11 DEF RequestInv

LEMMA DieConserves ==
    ASSUME QueueInv, RequestInv, NEW u \in Slot, Die(u)
    PROVE  RequestInv'
<1> DEFINE done == entrance[u]
<1>1. /\ InUser(u) /\ u # Main /\ finished' = finished \cup {done}
      /\ runq' = Without(runq, u)
      /\ UNCHANGED <<entrance, future, reborn, blockq, fresh, inbox, requests>>
  BY DEF Die
<1>2. done \in Request /\ done # MainWork
  BY <1>1, Returns
<1>3. u \in Alive /\ u \notin Blocked
  BY <1>1, CallerRuns DEF Alive
<1>4. Runnable' = Runnable \ {u} /\ Blocked' = Blocked
  BY <1>1, WithoutFacts DEF QueueInv, TypeOK, Runnable, Blocked
<1>5. Alive' = Alive \ {u}
  BY <1>3, <1>4 DEF Alive
<1>6. Work' = Work \ {done} /\ done \in Work
  BY <1>1, <1>3, <1>5 DEF RequestInv, Employed, Work
<1>7. Employed' /\ FirstLife'
  BY <1>1, <1>5 DEF RequestInv, Employed, FirstLife
<1> HIDE DEF done
<1>8. Stations'
  BY <1>1, <1>2, <1>6 DEF RequestInv, Stations
<1> QED
  BY <1>7, <1>8 DEF RequestInv

\* Blocking and waking move uthreads between the two queues of the living.
LEMMA BlockConserves ==
    ASSUME QueueInv, RequestInv, NEW u \in Slot, InUser(u), Block(u),
           UNCHANGED <<entrance, future, reborn, fresh, inbox, requests, finished>>
    PROVE  RequestInv'
<1>1. Alive' = Alive
  BY BlockedQueues, CallerRuns DEF Alive
<1> QED
  BY <1>1, RequestsStay

LEMMA EpollReturnsConserves ==
    ASSUME QueueInv, RequestInv, EpollReturns
    PROVE  RequestInv'
<1>1. Alive' = Alive
  BY EpollReports DEF Alive
<1> QED
  BY <1>1, RequestsStay DEF EpollReturns

LEMMA ReapConserves ==
    ASSUME QueueInv, RequestInv, Reap
    PROVE  RequestInv'
BY RequestsStay DEF Reap, worldVars, Alive, Runnable, Blocked

LEMMA ReschedOldConserves ==
    ASSUME QueueInv, RequestInv, ReschedOld
    PROVE  RequestInv'
<1>1. Runnable' = Runnable /\ Blocked' = Blocked
  BY RequeuedFacts DEF ReschedOld, Runnable, Blocked
<1> QED
  BY <1>1, RequestsStay DEF ReschedOld, worldVars, Alive

LEMMA ReschedNullConserves ==
    ASSUME QueueInv, RequestInv, ReschedNull
    PROVE  RequestInv'
<1>1. Runnable' = Runnable /\ Blocked' = Blocked
  BY RequeuedFacts DEF ReschedNull, Runnable, Blocked
<1> QED
  BY <1>1, RequestsStay DEF ReschedNull, uthreadVars, worldVars, Alive

LEMMA InitRequestInv == Init => RequestInv
<1> SUFFICES ASSUME Init PROVE RequestInv
  OBVIOUS
<1>1. Runnable = {Main} /\ Blocked = {}
  BY SingleFacts, EmptyFacts DEF Init, Runnable, Blocked
<1>2. Alive = {Main} /\ entrance[Main] = MainWork /\ Work = {MainWork}
  BY <1>1, NoUthread DEF Init, Alive, Work
<1>3. Range(inbox) = {} /\ Range(requests) = {} /\ Once(inbox) /\ Once(requests)
  BY EmptyFacts DEF Init
<1>4. MainWork \notin Request
  BY SchedulerAssumption DEF SchedulerAssumption
<1>5. Employed /\ FirstLife
  BY <1>2 DEF Employed, FirstLife
<1>6. Stations
  BY <1>2, <1>3, <1>4 DEF Init, Stations
<1> QED
  BY <1>5, <1>6 DEF RequestInv

-----------------------------------------------------------------------------
IInv == QueueInv /\ RequestInv

LEMMA InitIInv == Init => IInv
BY InitQueueInv, InitRequestInv DEF IInv

\* Every step, by the action that it is of.
LEMMA NextKeeps ==
    ASSUME IInv, Next
    PROVE  IInv'
<1> USE DEF IInv
<1>1. ASSUME NEW r \in Request, Post(r) PROVE IInv'
  BY <1>1, PostKeeps, PostConserves
<1>2. ASSUME NEW fd \in Fd, BecomesReady(fd) PROVE IInv'
  BY <1>2, BecomesReadyKeeps, RequestsStay
     DEF BecomesReady, uthreadVars, queueVars, Alive, Runnable, Blocked
<1>3. CASE EpollReturns
  BY <1>3, EpollReturnsKeeps, EpollReturnsConserves
<1>4. CASE EpollFails
  BY <1>4, EpollFailsKeeps, RequestsStay
     DEF EpollFails, uthreadVars, queueVars, worldVars, Alive, Runnable, Blocked
<1>5. CASE DrainInbox
  BY <1>5, DrainInboxKeeps, DrainInboxConserves
<1>6. CASE InboxBusy
  BY <1>6, InboxBusyKeeps, RequestsStay
     DEF InboxBusy, uthreadVars, queueVars, worldVars, Alive, Runnable, Blocked
<1>7. CASE Reap
  BY <1>7, ReapKeeps, ReapConserves
<1>8. CASE Pick
  BY <1>8, PickKeeps, PickConserves
<1>9. CASE ReschedOld
  BY <1>9, ReschedOldKeeps, ReschedOldConserves
<1>10. CASE ReschedNew
  BY <1>10, ReschedNewKeeps, ReschedNewConserves
<1>11. CASE ReschedNull
  BY <1>11, ReschedNullKeeps, ReschedNullConserves
<1>12. CASE NoStack
  BY <1>12, NoStackKeeps, RequestsStay
     DEF NoStack, uthreadVars, queueVars, worldVars, Alive, Runnable, Blocked
<1>13. ASSUME NEW u \in Slot, Yield(u) PROVE IInv'
  BY <1>13, YieldKeeps, RequestsStay
     DEF Yield, queueVars, worldVars, Alive, Runnable, Blocked
<1>14. ASSUME NEW u \in Slot, CreateLocal(u) PROVE IInv'
  BY <1>14, CreateLocalKeeps, CreateLocalConserves
<1>15. ASSUME NEW u \in Slot, DelegateTimed(u) PROVE IInv'
  BY <1>15, DelegateTimedKeeps, BlockConserves DEF DelegateTimed, worldVars
<1>16. ASSUME NEW u \in Slot, NEW fd \in Fd, NEW t \in BOOLEAN, DelegateIo(u, fd, t)
       PROVE  IInv'
  BY <1>16, DelegateIoKeeps, BlockConserves DEF DelegateIo, worldVars
<1>17. ASSUME NEW u \in Slot, Reincarnate(u) PROVE IInv'
  BY <1>17, ReincarnateKeeps, ReincarnateConserves
<1>18. ASSUME NEW u \in Slot, Die(u) PROVE IInv'
  BY <1>18, DieKeeps, DieConserves
<1> QED
  BY <1>1, <1>2, <1>3, <1>4, <1>5, <1>6, <1>7, <1>8, <1>9, <1>10, <1>11, <1>12,
     <1>13, <1>14, <1>15, <1>16, <1>17, <1>18
     DEF Next, World, Sched, Call

LEMMA StutterKeeps ==
    ASSUME IInv, UNCHANGED vars
    PROVE  IInv'
<1>1. UNCHANGED <<free, status, runq, blockq, dyingq, running, exec, armed, timers,
                  resume, pc, entrance, future, reborn, fresh, inbox, requests,
                  finished>>
  BY DEF vars, uthreadVars, queueVars, busVars, worldVars
<1>2. TypeOK'
  BY DEF IInv, QueueInv, TypeOK, vars, uthreadVars, queueVars, busVars, worldVars
<1> QED
  BY <1>1, <1>2, NothingMoves, RequestsStay DEF IInv, Alive, Runnable, Blocked

THEOREM Invariance == Spec => []IInv
<1>1. IInv /\ [Next]_vars => IInv'
  BY NextKeeps, StutterKeeps
<1> QED
  BY InitIInv, <1>1, PTL DEF Spec

\* What the invariant says of the three queues together.
LEMMA QueuesTogether ==
    ASSUME QueueInv
    PROVE  /\ Range(runq \o blockq) = Alive
           /\ Once(runq \o blockq \o dyingq)
           /\ Range(runq \o blockq \o dyingq) = Slot \ free
<1>1. runq \in Seq(Slot) /\ blockq \in Seq(Slot) /\ dyingq \in Seq(Slot)
  BY DEF QueueInv, TypeOK
<1>2. /\ Once(runq) /\ Once(blockq) /\ Once(dyingq)
      /\ Range(runq) \cap Range(blockq) = {}
      /\ (Range(runq) \cup Range(blockq)) \cap Range(dyingq) = {}
      /\ Range(runq) \cup Range(blockq) \cup Range(dyingq) = Slot \ free
  BY RangesTyped DEF QueueInv, Placed, Runnable, Blocked, Dying
<1> DEFINE alive == runq \o blockq
<1>3. /\ alive \in Seq(Slot) /\ Once(alive)
      /\ Range(alive) = Range(runq) \cup Range(blockq)
  BY <1>1, <1>2, ConcatFacts
<1> HIDE DEF alive
<1>4. /\ Once(alive \o dyingq)
      /\ Range(alive \o dyingq) = Range(alive) \cup Range(dyingq)
  BY <1>1, <1>2, <1>3, ConcatFacts
<1> QED
  BY <1>2, <1>3, <1>4 DEF alive, Alive, Runnable, Blocked

\* A uthread that is not free is linked once, in the queue that its status
\* names, whatever sequence of yields, delegations, deaths and wakings led
\* there: list_del always comes before list_add_tail.
THEOREM Consistent == Spec => []QueuesConsistent
<1>1. IInv => QueuesConsistent
  <2> SUFFICES ASSUME IInv PROVE QueuesConsistent
    OBVIOUS
  <2>1. QueueInv
    BY DEF IInv
  <2>2. \A u \in Range(runq) :
           status[u] \in {"prelaunch", "running", "limbo"}
              \/ (status[u] = "dying" /\ resume[u] = "start")
    BY <2>1 DEF QueueInv, Statuses, MayRun, Runnable
  <2>3. RunningIsHead
    BY <2>1 DEF QueueInv, Executing, RunningIsHead, Runnable
  <2> QED
    BY <2>1, <2>2, <2>3, QueuesTogether
       DEF QueueInv, Statuses, QueuesConsistent, Blocked, Dying
<1> QED
  BY Invariance, <1>1, PTL

\* The stack on which the scheduler works is never one of those it gives back:
\* p7r_uthread_lifespan leaves it for the carrier's before anyone reaps.
THEOREM StacksOutliveUse == Spec => []StackAlive
<1>1. IInv => StackAlive
  BY QueuesTogether DEF IInv, QueueInv, Executing, StackAlive, Alive
<1> QED
  BY Invariance, <1>1, PTL

\* Epoll's one-shot registrations name delegations whose uthread is still
\* blocked in p7r_delegate, on whose frame they lie.
THEOREM Registrations == Spec => []RegistrationsAreLive
<1>1. IInv => RegistrationsAreLive
  BY DEF IInv, QueueInv, Registered, RegistrationsAreLive, Blocked
<1> QED
  BY Invariance, <1>1, PTL

\* The number of living uthreads that execute a request.
LEMMA HeldOnce ==
    ASSUME IInv, NEW r \in Request
    PROVE  Cardinality({u \in Alive : entrance[u] = r}) = IF r \in Work THEN 1 ELSE 0
<1>1. CASE r \in Work
  <2>1. PICK u \in Alive : entrance[u] = r
    BY <1>1 DEF Work
  <2>2. {v \in Alive : entrance[v] = r} = {u}
    BY <2>1 DEF IInv, RequestInv, Employed
  <2> QED
    BY <1>1, <2>2, FS_Singleton
<1>2. CASE r \notin Work
  <2>1. {v \in Alive : entrance[v] = r} = {}
    BY <1>2 DEF Work
  <2> QED
    BY <1>2, <2>1, FS_EmptySet
<1> QED
  BY <1>1, <1>2

\* A request is always at one station of its way, from the poster through the
\* message boxes and the queue into one uthread and to its end, and the
\* uthread that was made for it has its future.
THEOREM Conserved == Spec => []RequestsConserved
<1>1. IInv => RequestsConserved
  <2> SUFFICES ASSUME IInv PROVE RequestsConserved
    OBVIOUS
  <2>1. Live = Alive /\ Held = Work
    BY QueuesTogether DEF IInv, Live, Held, Work
  <2>2. Once(inbox \o requests)
    <3>1. /\ inbox \in Seq(Request) /\ requests \in Seq(Request)
          /\ Once(inbox) /\ Once(requests) /\ Range(inbox) \cap Range(requests) = {}
      BY RequestsTyped DEF IInv, RequestInv, Stations
    <3> QED
      BY <3>1, ConcatFacts
  <2>3. \A r \in Request :
          Cardinality({u \in Live : entrance[u] = r})
          + (IF r \in fresh THEN 1 ELSE 0)
          + (IF r \in Range(inbox) THEN 1 ELSE 0)
          + (IF r \in Range(requests) THEN 1 ELSE 0)
          + (IF r \in finished THEN 1 ELSE 0) = 1
    <3> TAKE r \in Request
    <3>1. Cardinality({u \in Live : entrance[u] = r}) = IF r \in Work THEN 1 ELSE 0
      BY <2>1, HeldOnce
    <3>2. r # MainWork
      BY RequestsTyped DEF IInv
    <3> QED
      BY <3>1, <3>2 DEF IInv, RequestInv, Stations
  <2>4. FutureOfFirstLife
    BY <2>1 DEF IInv, RequestInv, FirstLife, FutureOfFirstLife
  <2> QED
    BY <2>1, <2>2, <2>3, <2>4 DEF IInv, RequestInv, Stations, RequestsConserved
<1> QED
  BY Invariance, <1>1, PTL
=============================================================================
