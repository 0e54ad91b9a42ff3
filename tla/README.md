# Verification of servcraft

servcraft is "a collection of tools that make a server": two userspace thread
libraries (`p7`, `p7r`), a dictionary of hot-pluggable shared objects (`s1`), a
reactor (`ek3`) and the containers under them (`util`, `include`). This
directory holds TLA+ models of its code, the TLC runs that check them and the
theorems that TLAPS proves about them. `PROJECT.json` maps every definition to
the lines it models.

    tlc -config MCCpBuffer.cfg MCCpBuffer.tla     # a run
    tlapm MessageBusProofs.tla                    # a module of proofs

## 1. Inventory

| component | state | operations | interacts with | what is hard | what makes it correct |
|---|---|---|---|---|---|
| p7r message box (`p7r_cpbuffer.h`) | `index_producer` (side and BUSY bit), `consuming`, two lists | `cp_buffer_produce`, `cp_buffer_consume` | producers on other threads, the bus refresh of its carrier | a lock-free swap against a list insertion | the lists are never touched by two threads; FIFO, nothing lost or repeated |
| p7r bus (`p7r_uthread.c`) | boxes, eventfd, epoll set, `consumed`, timers | `p7r_u2cc_message_post`, `sched_bus_refresh` | every other carrier, foreign threads | sleeping against posting | no wakeup is lost; each box is a FIFO |
| p7r scheduler (`p7r_uthread.c`) | three queues, `running`, `request_queue`, tokens, uthreads on their stacks | create, yield, delegate, lifespan (reincarnate or die), refresh, resched | bus, stack allocator, user code | who runs on which stack; the life cycle; epoll's one-shot registrations | each uthread in one queue; a stack is never freed under a running uthread; each request executed once; no sleep with work at hand; round robin |
| p7r stack allocator (`p7r_stack_allocator.c`, `p7r_stack_hint.c`) | two master zones, a list of slave zones, page counts | allocate (four pipelines), free, map and unmap of slaves | scheduler | a count beside a list; unmapping | a stack in use lies in a mapped zone and is handed out once |
| p7r API and futures (`p7r_api.c`, `p7r_future.h`, `p7r_feature_chain.h`) | a singleton, spin locks of the foreign boxes, futures in an arena | poolize, execute, submit, future release | bus, arena | lifetimes: a pointer to a parameter handed to a thread, futures of failed posts | a future is released once, by the right side |
| p7r stack hint dictionary | hash table of hints | put, get, delete, ruin | stack allocator | equal hints in one chain that every lookup reorders | the newest of equal hints is in force until it is deleted |
| p7r context switch (assembly) | saved registers | init, prepare, switch | scheduler | - | out of TLC's reach; one step in the models |
| p7 ticket lock (`rwspin.c`) | `request`, `completion`, `n_readers` | rdlock, rdunlock, wrlock, wrunlock | p7 scheduler (`p7_coro_yield`) | plain and atomic accesses mixed, wrap of tickets, waiters that share a carrier with the holder | writers exclude all; first come, first served; no starvation |
| p7 scheduler (`p7impl.c`) | carriers, run queues, mailboxes, epoll waits, timers, pipe, dying queue, pool of structs | coroutine create, yield, concat, send (by pointer, by name), recv, iowrap, timed wait, end | user code, namespace, `spin.c` | wakeups from other carriers, timed and plain receives, structs that serve another coroutine while mail is on its way | a coroutine is in one queue; no message and no wakeup is lost; mail reaches the life it was meant for |
| p7 MPSC arena (`spin.c`) | blocks, counters | allocate, queue operations | p7 scheduler | counters updated twice, indices | nothing is handed out twice |
| p7 namespace (`p7_namespace.c`) | hash table under a ticket lock | register, find, unregister | ticket lock | find then insert | one owner per name |
| s1 dictionary (`s1_dlbase.c`, `s1_hashdic.c`) | handles with reference counts, old and new versions | load, reload, guard, unguard, unload | user threads | reload against use | an object in use is never closed |
| ek3 reactor (`ek3_reactor.c`) | registered events, timers, epoll set | register, modify, delete, poll | user callbacks | callbacks that delete events; timers | no event is handled after its deletion |
| red-black tree (`scraft_rbt.c`) | root, links and colors of nodes | init, insert, delete, detach, min, max, find | timers of p7, p7r and ek3, LRU cache | repairs in mirrored cases over long sequences; equal keys | order, balance, nothing lost; the first node is the least |
| hash table, LRU, arena (`util`) | chains, lists, slots | insert, fetch, delete | s1, namespace, hints, futures | growth, cleanup attributes | size counts, each block in one place |
| common headers, build scripts | - | - | - | - | not modelled |

`PROJECT.json` lists the worst hazards, each at the line where it bites, and the
properties that would catch it.

## 2. Plan

The p7r core comes first, for everything else of p7r stands on it.

1. **Message box** (`IndexByte`, `Mailbox`, `CpBuffer`): done, with the proof of the
   refinement (`BoxAndStackProofs`).
2. **Message bus** (`MessageBus`, `MessageBusProofs`): composes several boxes
   (each is proved to refine `Mailbox`) with the eventfd and the sleep: done.
3. **Scheduler** (`Scheduler`, `SchedulerProofs`): takes the boxes as one FIFO,
   which is what 2 shows them to be: done; all of its safety is proved.
4. **Ticket lock** (`FairLock`, `RWSpin`, `RWSpinProofs`): done, with the proof
   of the refinement.
5. **Stack allocator and its hints** (`StackAllocator`, `HashTable`,
   `HintDirectory`, `StackHints`): modelled and checked, the dictionary as a
   refinement; the zones and the refinement are proved (`BoxAndStackProofs`).
6. **s1** (`DlBase`): reference counts and reload of shared objects, by
   coroutines and by threads: modelled and checked; what holds for both is
   proved (`LibraryProofs`).
7. **ek3** (`Ek3Reactor`): the reactor: done; all of its safety is proved
   (`LibraryProofs`).
8. **p7 carrier** (`P7Carrier`, `P7CarrierProofs`): done, with the end of
   coroutines, their pool and the sends by name; the safety that holds is proved.
9. **Red-black tree** (`RBTree`, `RBTreeProofs`): done; everything the run checks of
   it is proved.

What was on the plan and is not modelled, and why, is in section 6.

## 3. The modules

Threads interleave at single memory accesses where the code has no lock, and
memory is sequentially consistent: the accesses in question are on atomics with
acquire or release order on one location, or plain ones that the properties
show to be free of races. Allocation of memory succeeds unless a module says
otherwise.

### Lists

The lists of `include/util_list.h` as sequences. Nodes leave them at any place
(`list_del`, `Without`), and they are defined by the places that remain
(`Places`, `Only`), without recursion, which is what makes `ListTheorems` about
them possible. `Once` says that no node is linked twice. Scheduler, P7Carrier,
MessageBus, StackAllocator and HashTable are written with them.

### CpBuffer, Mailbox, IndexByte

`IndexByte` gives the arithmetic of `index_producer`. `CpBuffer` follows the
producers (`p7r_execute`/`p7r_submit` around `cp_buffer_produce`:
`AcquireLock`, `SetBusy`, `LoadSide`, `AddTail`, `ClearBusy`, `ReleaseLock`)
and the consumer (`cp_buffer_consume`, then the loop of `sched_bus_refresh`:
`CheckOwnSide`, `LoadDesired`, `Swap`, `TakeOne`, `DrainDone`) access by
access. `delivered` is a history of what the consumer took. `Mailbox` is the
abstraction: messages are accepted and delivered first in, first out.

* `NoListRace`: no list is touched by a producer and the consumer, or by two
  producers, at once.
* `EntersDrained`: the consumer comes back to `cp_buffer_consume` only with its
  own side empty.
* `ImplementsMailbox`: the refinement, with `accepted` defined from the two
  lists.

### MessageBus

All boxes of one carrier, `Self`. A box has one poster per other carrier, and
the box of the carrier itself is shared by the foreign threads. Uthreads of the
carrier itself never post to it through the box (`p7r_uthread_create_` makes
them locally). The carrier goes through `Poll`, `WaitReturns` or `WaitFails`,
`ReadEvents`, and for each box `SwapBox`, `TakeOne`, `BoxDone`. `timeout`,
`notified`, `cursor` are the locals of `sched_bus_refresh`. The carrier's
runnable uthreads are left out: with one, the timeout would be 0, which is also
what `WaitReturns` (it may return at any time, a descriptor may have reported)
allows.

* `NoLostWakeup`: a sleeping carrier has no message whose poster has finished.
* `EveryPostArrives` (under `LiveSpec`), `BoxesAreMailboxes`.

Fairness (`Fairness`): posters do not stop between the lines of
`p7r_u2cc_message_post`; the carrier's thread goes on, and wakes when epoll has
a reason to (`Wake`). The swap needs no fairness of its own: messages are finitely
many, so that no poster is busy whenever the carrier tries. Of posters that go on
for ever `EveryPostArrives` says nothing; the code's retry loop never retries (hazard
at `p7r_uthread.c:282`).

### Scheduler

One carrier: one thread, so that an action is a stretch of code between two
points where the environment matters. `pc` and `site` say where the thread is,
`exec` on whose stack. The calls of the user's code are nondeterministic
(`Call`): yield, create, delegate on a descriptor with or without timeout,
delegate on time only, return. `World` posts requests and makes descriptors
ready. `resume` stands for the saved context.

What the model says of the code beyond its properties: with swarm scheduling a
token and an empty request queue make `p7r_yield` switch to a null uthread
(`ReschedNull`, `crashed`); a reincarnated uthread keeps its first future; two
uthreads on one descriptor override each other's registration; a failed
`epoll_ctl` leaves its uthread blocked.

* `QueuesConsistent`: a uthread is in one queue, once, in the one its status
  names; `RunningIsHead`, a part of it, is about `runners.running`.
* `StackAlive`: the thread is never on a stack that is or will be freed.
* `RegistrationsAreLive`: epoll's pointers are to frames that are alive.
* `RequestsConserved`: each request is in one place on its way, and (its part
  `FutureOfFirstLife`) a uthread in its first life has that request's future.
* `RunnableRuns`, `ReadyWakes`: liveness under `Fairness`. Uthreads come back to
  the scheduler (`Comeback`), as cooperative threads must; `epoll_wait` is not
  interrupted by signals for ever, and posters are not busy for ever.
* `TimedWakes` is no property of a run, for it does not hold: the timer of
  `p7r_delegate` is initialised (`p7r_uthread.c:622`) and never inserted. As a
  PROPERTY of `MCSchedulerLive.cfg` with `UseTimeouts = TRUE` it is violated.
* `SleepsOnlyWhenIdle` is no property of a run, for it does not hold: a uthread
  that blocks takes one request at most per refresh (`p7r_uthread.c:587-591`),
  and the next one to block polls with timeout -1 before it looks at
  `request_queue`. As an INVARIANT of `MCScheduler.cfg` it is violated.

### RWSpin, FairLock

Coroutines on carriers; a carrier executes the head of its `queue`. The ticket
numbers are counted modulo `Modulus`, which stands for 2^32. `completion++` is
the load and the store that it is (`LoadCompletion`, `PassOn`). A waiter
alternates between spinning and `p7_coro_yield` (`Backoff`). `FairLock` is a
line of readers and writers served in order.

* `WriterExclusion`, `ImplementsFairLock`, and `NoStarvation` under weak
  fairness of each carrier: a carrier's thread goes on, and a holder unlocks.

`RWSpinAssumption` asks for fewer coroutines than `Modulus`: with 2^32 waiting
at once two would hold the same ticket.

### StackAllocator

One step per call, for an allocator is used by one carrier only. A zone counts
its free pages (`size`) and holds its free stacks (`pages`). `Adjusted` says
how many stacks the configured pages are, rounded up. `MapFails` is the null slave.

* `StacksAccounted`, with the types: no stack is lost, handed out twice or
  unmapped in use, and the count agrees with the list of free stacks.
* `SlavesListed`: slaves with room come first, and none is kept without use.

### StackHints, HashTable, HintDirectory

`HashTable` is the chained table of `util/scraft_hashtable.c`, as operators on the
chains: `Insert` in front, `Fetch` with its move to the front, `Take`. `StackHints`
composes it with StackAllocator: `NewHint`, `PutHint`, `GetHint`, `DeleteHint`,
`Renew` are what `p7r_stack_hint_dictionary.c` offers, and `AllocateWithHint` is the
allocation that the policy of the hint at hand asks for. Hints are given back to
the heap when they are deleted, and who holds one then forgets it. A hint is not put
twice: the node would be in its chain twice, which the code does not look at.

* `ImplementsDirectory`: the dictionary is a `HintDirectory`, which keeps for each
  key its hints, the newest first. The refinement mapping picks the entries of a key
  out of their slot's chain. The table holds entries of equal keys and other keys of
  the slot in one chain, and lookups reorder it.

`scraft_hashtable_delete` calls `key_destroy` for what it has not found
(`DeleteNothing`). For a hint that is an address below NULL that goes to `free`: the
model stops there.

### DlBase

One alias of the dictionary. The manager loads, reloads and unloads it; users
fetch a symbol (`FetchSymbol`, or `FetchRef` and `ReloadSymbol`), `Guard` it,
execute it, and leave through `Unguard`, `TestBase`, `CountOut`, `TakeDoomed`,
`CloseDoomed`, `Renew`, which are the parts of `s1_call_unguard`. `opened` and
`closed` are what `dlopen` and `dlclose` were called for. The constant
`Preemptive` tells threads, which interleave between all these steps, from
coroutines, which give way only while they execute a symbol.

* `ObjectsPlaced`, with the types: an opened object is in service, deprecated, about
  to be closed by one user, or closed, and closed once; and until it is closed
  `invcnt` counts its users. It holds for threads and for coroutines, whatever they
  keep.
* `ReadyIsOpen` is no property of a run, for it does not hold: the reference in a
  symbol that `s1_call_unguard` has made "ready for reloading" (`s1_dlbase.c:178`) is
  counted nowhere, so that a further reload and the last unguard close its object and
  free its record, which `s1_dlsym_reload` then reads (184). As an INVARIANT of
  `MCDlBase.cfg` it is violated, with `Preemptive = FALSE` too.
* `InUseIsOpen` is no property of a run, for it does not hold with threads: the object
  is put into `deprecated_set` (134) before the new one is published (136), and an
  unguard in between closes what `s1_dllib_symbol` still hands out. As an INVARIANT of
  `MCDlBase.cfg` it is violated, with `KeepsSymbols = FALSE` too.

The manager unloads the alias while no user is in a call, and the users forget their
symbols then (`Unload`): `s1_dlbase_ruin` closes everything. Nothing else is asked of
the users: with `KeepsSymbols` they may guard again what `s1_call_unguard` returned as
it was, or reload the symbol later. Where the code reads the record of an object
that was closed and freed the model stops (`GoesAstray`); what it reads there may be
anything.

### Ek3Reactor

One thread: its user (`RegisterEvent`, `Commit`, `NextEvent`, `RegisterSession`,
`Detach`, `DestroySession`, `DestroyReactor`) and `ek3_poll`, which deploys what
was committed, waits, dispatches and returns one session. The four queues of
sessions and the three lists of a session's events are two families of sequences
through the same nodes (`Linked`, `Apart`); `Relinked` is a list_del from whatever
list the node is in and a list_add_tail. Popping an empty queue is a crash, and
`SessionsPlaced` says that no node is unlinked that is in no list. epoll is
level-triggered and reports at most `Capacity` descriptors. The names are the
reactor's own (`ReactorSpec`, `phase`), so that one module can hold its proofs
and those of s1.

The model's user does what the API needs of it: it commits a session that is not
waiting to be returned, and gives what `ek3_poll` returned back (its events
registered again, the session committed) before it polls (`GivenBack`).
`ek3_session_ruin` closes one descriptor, the session's own (`Closed`, `OwnFd`); the
user is assumed to close those of its other events before it destroys the session
(`ClosedByUser`), for nothing in the code takes them out of epoll.

What the model says of the code beyond its properties: a second event on one
descriptor is silent; a session that is destroyed after it was posted leaves no
trace; a timer is due at once, and the loop over due timers never ends, so that
`ek3_poll` does not return once a timer is deployed.

* `SessionsPlaced`, with the types: the queues of sessions and the lists of events
  against the statuses that tell the code where a node is.
* `ReportsAreLive`: epoll's pointers are to events in use.
* `NotifiedIsReturned`: a session to be returned has an event to be taken, and
  no notified event is left in a session that nobody will return.
* `ReadyDelivered`: a ready descriptor's event reaches the user, as long as no
  timer is deployed (after that `ek3_poll` does not return).
* `TimersNotEarly` is no property of a run, for it does not hold:
  `ek3_reactor.c:401` says "timestamp set based on current_time" of a call that
  sets no stamp (`ek3_deploy_event`, line 324, ignores the time it is given), so
  that the first poll notifies a timer. As an INVARIANT of `MCEk3Reactor.cfg` it
  is violated.
* `DestroyedOnce` is no property of a run, for it does not hold: a session that
  is registered (in the hash table) and committed (in a queue) is destroyed by
  both parts of `ek3_reactor_destroy` (`ek3_reactor.c:284-306`). As an INVARIANT
  of `MCEk3Reactor.cfg` it is violated.

Fairness: the user goes on taking and committing, the steps of `ek3_poll` are
not suspended, and epoll, which reports ready descriptors in turn, does not
leave one out for ever.

### P7Carrier

The thread of one carrier (`sched_loop`): `ComputeTimeout`, `EpollReturns` (or
`EpollTimesOut`, `EpollFails`), `ExpireTimer`, `HandleIo`, `ReadPipe`, then for
each box `SwapBox`, `DispatchOne` or `TakeRequest`, `BoxDone`, then `DispatchLocal`,
`Decide`, `Bury` and `Pick`. Box 0 is `rq_queues`, the others are the mailboxes of the
other carriers, which post through `BeginSend` or `BeginRequest`, `SetBusy`, `AddTail`,
`ClearBusy`, `WritePipe`. Who sends by name goes through `FindName`, `CountIn` and
`TestStatus` before, and `CountOut` after that. What the running coroutine calls is
free: `Yield`, `TakeMessage`, `BlockInRecv`, `BlockOnIo`, `IoNotifyFails`, `SendLocal`,
`CreateLocal`, `Concat`, `End`. `Block` is the part that all waits share, `Resume` what
they do when they come back. The timer of a timed call is `armed`, `due`, `triggered`.

An element of `Coro` is a struct `p7_coro`, an element of `Entry` what it runs
(`body`): a struct whose coroutine ended goes through `dying` to `pool` or to the
heap and may then run something else. `meant` remembers, for every message, what
ran in the receiver's struct when the message was sent. What is `Careful` sets a
mailbox cleaner; what is not leaves its mail in the mailbox, and a struct from the
pool keeps it (`Create`). `decay` is counted by senders by name on other threads, read
by `Decide` and acted upon by `Bury`, a step later, and reset by `Create`. `MayRefuse`
says whether epoll_ctl may refuse a descriptor: then FLAG_RECV stays set
(`IoNotifyFails`), which `refused` remembers.

The pipe has room for `PipeCap` notes. Its reading end alone is O_NONBLOCK
(`p7impl.c:216-217`), so that a poster on another carrier waits in `write` until there
is room, and the carrier that writes to its own full pipe never returns
(`SendLocal`, "stuck"): the test for -1 and the yields after it are not reached.

The model stops in two more places, "astray": where a SENT note finds FLAG_RECV set
in a coroutine that has ended and moves it to `coro_queue` (`WakeTheDead`), and where a
child ends whose parent has ended before (`WakeDeadParent`); what the carrier would then
resume is a coroutine behind its end. Both need a refused descriptor. So the
properties speak of what the code does up to there, and `DeadRest` says that it does
not come there.

* `QueuesConsistent`, with the types: a coroutine is in `coro_queue` or blocked,
  once, however many of timer, descriptor and SENT note wake it in one round, and
  one that is blocked is in a call that something can end; a struct is in one
  place (`StructsPlaced`), and who waits for a child waits until it has ended
  (`ParentsWait`), unless epoll_ctl has refused it a descriptor: then a message ends
  the wait, and p7_coro_concat returns before the child has ended.
* `LocalMailKeepsLife`: a message that a coroutine of the carrier sent is not put
  into the mailbox of a later life of the struct, nor left there if its receiver is
  `Careful`. It rests on the order of the round: the local box is dispatched after
  coroutines ended and before they are buried.
* `MailKeepsLife`, which asks the same of all receivers, is no property of a run, for
  it does not hold: the default cleaner is NULL (`p7impl.c:141`), and `p7_coro_new`
  leaves the mailbox of a struct from the pool as it is (117-142). As an INVARIANT of
  `MCP7Lives.cfg` it is violated.
* `NamedSendKeepsLife`, that a sender by name posts to the life that it found, is no
  property of a run, for it does not hold: between the lookup (782) and the increment
  of `decay` (785) the struct is buried and reborn, and passes the test of the status
  (734). As an INVARIANT of `MCP7Lives.cfg` with `Started = {c1, c2}` it is violated.
* `DeadRest` is no property of a run, for it does not hold: `p7_io_notify_with_recv_`
  leaves FLAG_RECV set when epoll_ctl fails (876-879), `limbo_loop` resets only ALIVE
  (379), and the note of a message to one that has ended moves it (404-408). As an
  INVARIANT of `MCP7Lives.cfg` it is violated.
* `NoListRace`, `BoxesAreMailboxes`: as for the boxes of p7r. Here the swap is
  tried once per round and may fail, and requests share one box under
  `rq_queue_lock`.
* `NoLostWakeup`: a carrier that sleeps for ever has nothing to do.
* `SentNoteFollows`, `MessagesReceived`: the message and the note that wakes its
  receiver travel apart. The note may be read in a round in which the box cannot be
  swapped, since its poster is busy with a later message; the receiver is woken, gets
  NULL and waits again. If the later message is for the same coroutine, its note
  wakes it for both. If it is for another one, nothing does, and this is what the
  code does: both properties speak of messages whose carrier sends to that coroutine
  alone (`SendsElsewhere`; in the runs all messages have one receiver, the theorem
  about `SentNoteFollows` is for any). `MessagesReceived` speaks of receivers that live and do not
  wait for a child.
* `RequestsRun`: a requested coroutine gets its turn.
* `TimersBoundSleep` is no property of a run, for it does not hold: the earliest
  timer bounds `epoll_wait` only if its time is still to come
  (`p7impl.c:449`). As an INVARIANT of `MCP7Carrier.cfg` it is violated.

Not protected by the code and not stated: a poster on another carrier that holds a
pointer to a struct may post to any later life of it.

Assumed: what a thread does with a struct that was freed it does to memory that
`malloc` has given to nothing but another struct; a lookup of a name finds no
coroutine that has ended. `HasRoom` bounds the requests under way.

What the model says of the code beyond its properties: a struct whose `decay` is
not 0 when it is buried leaves `dying_queue` for good (`p7impl.c:567`), and is
lost; the status of a struct that was given back is read when a note for it arrives,
which makes no difference to the queues; the test of the pool of requests (281)
keeps one more than it says.

Fairness: carriers go on; a coroutine comes back to the scheduler, receives
while it can, and leaves; `epoll_wait` is not interrupted for ever. Timers and
signals are not relied on.

### RBTree

The tree of timers, and of the LRU cache. `Insert` and `Delete` go up to the
loop that repairs the colors, and every round of the loop is a step
(`InsertFix`, `DeleteFix`), so that the invariants speak of the tree in the
middle of a repair. The loops' left and right halves, which mirror each other
line by line, are one action with a side. `Leaf`, `Least` and `Find` are the ways
down, as recursive functions. What the code leaves stale is stale here too: the
parent of a root that came up when the old one was deleted, and that of the
sentinel. The key of a node is the same while it is in the tree, which is what
the callers do.

* `SearchTree`: the nodes inserted and not deleted, in order, each once, with
  the ways up that the repairs follow. Equal keys are to the left of their node
  when they are inserted, and on either side after rotations.
* `RedBlack`: as many black nodes on every way down, counting the one that a
  deletion has still to make up for, and no two red nodes in a row but at `cur`.
* `LookupsAgree`: the first timer to expire is the least; a key is found when it
  is there.
* `RoundsClimb`: every round of a repair is the last or leaves the trouble
  higher up, so that the repairs end.

## 4. The runs

| run | instance | what it shows |
|---|---|---|
| `MCCpBuffer.cfg` | 2 producers, 3 messages, symmetry | all of CpBuffer. Two producers contend for the lock; three messages fill both sides and leave one to reorder |
| `MCMessageBus.cfg` | 2 boxes, 2 foreign threads, 2 messages | no lost wakeup, FIFO and `EveryPostArrives`: two posters share the carrier's own box or post to two boxes, one while the other runs late |
| `MCScheduler.cfg` | 3 stacks, 3 requests (1 with future), 2 descriptors (1 refused), sharing, timeouts, tokens | all of its safety. Two uthreads block while a third runs; a stack is reused; stacks and requests run out. Deadlock is allowed because a crash stops the system |
| `MCSchedulerLive.cfg` | 3 stacks, 2 requests, 1 descriptor, no swarm, no sharing, no timeouts | `RunnableRuns`, `ReadyWakes` |
| `MCRWSpin.cfg` | 3 coroutines on 2 carriers, Modulus 4 | safety, refinement and `NoStarvation`; tickets wrap, and two coroutines share a carrier |
| `MCStackHints.cfg` | masters of one stack, 3 slaves of three, capacities that are no multiples; 3 hints in one of two slots, two of the same key | all of StackAllocator, HashTable and StackHints: every pipeline, a slave that is unmapped between two others, equal hints that lookups of another one move about; deadlock is allowed because of the crash |
| `MCDlBase.cfg` | 2 users and a manager, threads that keep their symbols, 3 objects, symmetry | all of DlBase: two deprecated objects at once, a user in each step of an unguard beside every step of a reload |
| `MCEk3Reactor.cfg` | 2 sessions, 3 descriptors and a timer, one event posted, the hash table, batches of 2 | all of the reactor but the second event on a descriptor (add `e4` to `Event` to see it: it is silent and disturbs nothing) |
| `MCP7Carrier.cfg` | 2 carriers, a coroutine with timers and descriptors that may be refused, 2 messages to it from either carrier, a pipe for one note | the safety of messages, notes, timers and I/O that wake one coroutine; the second message keeps the box busy while the first one's note is read, and posters wait for the pipe |
| `MCP7Lives.cfg` | 2 carriers, 2 structs, a coroutine and an entry that end, the entry `Careful`, requested or created, descriptors that may be refused, a pool of one, one message to the first struct, by pointer and by name, from either carrier, a pipe for one note | the lives of structs: creation, concat and end in every order, a refused parent that wakes early, mail that meets its receiver alive, dying, pooled and reborn, a send by name beside the burial of its receiver, a struct through the pool, to the heap or lost; a request and a message beside each other |
| `MCP7CarrierLive.cfg` | 2 carriers, 2 structs, a coroutine and an entry, requested or created, 2 messages to it from either carrier | `RequestsRun`, and `MessagesReceived`: the first message is left in the box while the second one's poster is busy, and arrives with it |
| `MCRBTree.cfg` | 10 nodes, two with one key | all of RBTree. Up to 6 nodes come in any order (`Few`), larger trees by the order of the nodes; any node goes at any time. Eight nodes make an insertion recolor twice, ten make a deletion move up and then repair at the next level |

MCScheduler, MCStackHints, MCDlBase, MCEk3Reactor, MCP7Carrier and MCP7Lives may
stop: after a crash, when all objects are used up, when the reactor is destroyed, or
where the code goes astray or blocks itself.

`NoListRace` of P7Carrier is checked where requests and a message are on their
way, and proved for all; that two requests in one box keep out of each other's BUSY is what
`CpBuffer` shows of the same byte under a lock.

Bounds: messages and requests are made once each, which bounds queues and the
eventfd's counter; `PipeCap` is small enough to fill the pipe in MCP7Carrier and
MCP7Lives, and large enough to hold all notes in MCP7CarrierLive, for a carrier
that blocks itself does nothing more; objects of DlBase are opened once each; `Modulus`
bounds tickets; `MaxTokens` is the program's own. Ek3Reactor needs none: its
descriptors become ready again and again.

## 5. The proofs

For every value of the constants that satisfies the modules' assumptions.

* `BoxAndStackProofs`, of the message box: `BoxTypeCorrect`, `RaceFree`,
  `AlwaysEntersDrained`, `BoxRefinement`. The inductive invariant says who holds the lock, that BUSY is
  set exactly while a producer is between its two atomic operations, and that
  the side a producer loaded is the current one until it clears BUSY: the
  consumer swaps only without BUSY, so it cannot move the side away. The
  refinement maps `AddTail` to `Accept`, `TakeOne` to `Deliver` and the swap to
  a stutter, for it happens only when the own side is empty.
* `MessageBusProofs`: `TypeCorrect`, `NeverSleepsOverAMessage`, `BoxesRefine`. The
  invariant follows a message from its insertion: its poster has still to write, or
  the eventfd counts, or the carrier is in a refresh and has not passed the box, or
  `consumed` is 0 and the next poll does not sleep. For the refinement, `MailInv`
  adds that what is in a box was posted to it, once. `accepted` of a box is what was
  taken from it followed by its two lists, the one that is drained first: only an
  insertion makes that longer, and taking a message moves the boundary in it.
* `ListTheorems`: what `Without` and the other operations on lists leave of the
  order, the members and the length, and that a list without repetition stays one;
  what `Only` makes of a list that grows at either end (`OnlyAppend`, `OnlyPrepend`)
  or was picked from before (`OnlyOnly`). `Only` picks the n-th place that remains by
  counting, so that the lemmas rest on the library's facts about finite
  cardinalities: the places are numbered without gaps (`PlacesRanked`), and a list
  whose members come from a list's places in S, in order and all of them, is what
  `Only` makes of it (`OnlyIs`). No induction is needed.
* `SchedulerProofs`: `Consistent`, `StacksOutliveUse`, `Registrations`,
  `Conserved`, which are all the safety properties that the runs check of Scheduler.
  `QueueInv` says which uthreads are in which queue (`Placed`), what their statuses
  and saved contexts may be there (`Statuses`: a new uthread still has the status of
  its stack's last owner, and a reincarnated one the status of its last life, so that
  the queue decides and not the status), whose code runs on whose stack
  (`Executing`), and that a blocked uthread has one registration (`Registered`).
  It is what makes `StackAlive` hold: the stack that the thread is on belongs to who
  runs or blocks, and only the dying are reaped. `RequestInv` adds that uthreads
  execute different things (`Employed`), that the five stations of a request are
  disjoint (`Stations`), and whose future it is (`FirstLife`).
* `RWSpinProofs`: `TypeCorrect`, `WritersExclude`, `Fair`. The invariant: the tickets in
  use are exactly those between `completion` and `request` (a window, counted
  with wrap), all distinct; only the holder of the current turn passes it on,
  so that its load of `completion` is still fresh when it stores; `n_readers`
  counts the readers; a writer that has seen none excludes new ones by keeping
  the turn. For the refinement, everyone who holds a ticket has a place in the line,
  which is the distance of the ticket from `completion` (`Ordered`): a new ticket is
  the farthest, who has the turn is the nearest, and `PassOn` brings all the others
  nearer by one, whether the tickets have wrapped or not.
* `P7CarrierProofs`: `RaceFree`, `WakeupNotLost`, `BoxesRefine`, `CoroutinesPlaced`,
  `LocalMailKept`, `NoteFollows`, for any carriers, structs, messages and receivers,
  whatever is refused and whoever ends. `RaceInv` says what `BoxAndStackProofs`
  says of p7r's byte, here for `rq_queues` with its lock and for a mailbox with its
  single poster, and that the loop drains the side that the swap turned away.
  `WakeInv` follows a message from its box: its poster has still to write to the
  pipe, or the note is in it (`HasItem`, `Noticed`), or the loop has read it and has
  not come to the box (`TakenToTheEnd`); a message of the carrier's own is
  dispatched in the round that sent it (`LocalNoticed`), and the timeout is "for ever"
  only where nothing is to be done (`ForeverMeansIdle`). `Letters` says that a
  message in a box, or dispatched from it, is one that its carrier has posted, once,
  which with the other invariants shows that each box is a `Mailbox`, whatever the
  lives of the coroutines.
  `LifeInv` says where each struct is (`Placed`), that no two structs ever run the same
  (`EntriesOnce`, which follows an entry from its request through `rq_queues` to the
  struct, with `CarriedOnce` for the posters), who waits for whose end (`Family`), what
  remains of the call in which a coroutine is (`Calls`: FLAG_RECV, the registration
  and the timer outlast the wakeup, and only `Resume` clears them; one in
  p7_coro_concat has none of them unless it was refused a descriptor, and then
  FLAG_RECV alone, which is the exception in `ParentsWait`), whose turn it is (`Turns`:
  the running coroutine has no `resched` and stays at the head of `coro_queue`), and for
  which life the mail on its way is (`Sent`: what is in localbox is for structs that
  are not in the pool, since `Bury` finds the box empty, and what a `Careful` coroutine
  has not taken its cleaner has removed). It uses `RaceInv` and `WakeInv`, for what the
  posters carry. That the proof needs no condition on refusals is because the model
  stops at the two steps that go astray; `DeadRest` is about these.
  `NoteInv` is stated for each receiver: there is a note for it, or a poster that will
  write one (`Notified`), or (`Quiet`) the round that has read the last note is still
  going to every box in which something for it lies (`Boxed`, `WillDrain`), nothing for
  it is behind what is being drained (`Behind`), what the carrier's own coroutines sent
  it will be dispatched (`Here`), and it does not wait in p7_recv with anything in its
  mailbox or on its way. `Wanted` leaves out the messages of carriers that send
  elsewhere: then the swap, the step that may fail, succeeds for a box with something
  wanted, for only a poster with a message for the same receiver could keep it busy.
* `LibraryProofs`, of s1: `NoObjectIsLost`, for threads and coroutines alike.
  `ObjectsPlaced` is nearly inductive; `Moves` adds who is where: an object is loading
  exactly while the manager is in the middle of a reload, the alias is loaded while
  somebody is in a call or holds a symbol, and a user has objects to close only between
  its two loops over them. That the insertion into `deprecated_set` and the removal of
  everything from it are under the mutex is why nobody else finds what a user has taken.
  The counts follow from the sets of callers, one more or one less at each step
  (`GuardCounts`, `UnguardCounts`, `InvcntKept`).
  Of ek3: `SessionsStayPlaced`, `ReportedLives`, `NotifiedReturns`, and
  `DestroyedOnceWithoutTable` for users without the hash table (with it, `DestroyedOnce`
  is false, see Ek3Reactor above). `ReactorInv` adds to the three properties what they do
  not say alone: what each part of `ek3_poll` leaves empty, and that at its end there is
  something to return (`PhasesInOrder`: hence `ek3_poll_local_` never meets an empty
  queue); that epoll watches only events of sessions that live, and that such an event,
  when it is not among the deployed or notified ones, is of a session that is in no queue
  from which `ek3_poll` would wait for it (`InterestLives`); that a timer in the tree is of
  a session that stays deployed (`TimersLive`), and what was reported stays dispatchable
  while the rest of the batch is dispatched (`BatchLives`). The step that could go wrong is
  `EpollReturns`: the queue of the committed is empty by then, so that whatever is watched
  is deployed or notified (`WatchedLives`). The lemmas on families of lists say what
  popping, appending, splicing and relinking leave of `Apart` and `Linked` (`PopApart`,
  `PushApart`, `ShiftApart`, `SpliceApart`, `RelinkApart`), all from one that replaces a
  single list (`ReplaceApart`).
  TLC checked `ReactorInv` on the run's constants before it was proved.
* `BoxAndStackProofs`, of the stack allocator: `StacksSafe`, `SlavesInOrder`. The two properties are
  inductive together and not alone: that a listed slave has a stack in use
  (`SlavesListed`) is what makes `IsIdleAfter`, which compares page counts, mean
  that the stack that comes back is the last one (`IdleAfterLast`), and hence that
  nothing in use lies in the zone that is unmapped. The lemmas on lists
  (`WithoutKeeps`, `FrontKeeps`, `DemotedKeeps`) say what the three moves in the list
  of slaves keep of its order.
  Of the dictionary the module proves `HintsInForce`, the refinement of
  `HintDirectory`. `TableInv` says that an entry is in its key's slot, once. A lookup
  takes the first of the equal entries out of the chain (`FirstUncovers`: the others
  follow in their order) and puts it before all, which gives the same equal entries
  again, and nothing else in the chain counts for them (`OthersStay`).
  `StacksSafeWithHints` carries the allocator's properties over to `HintsSpec`.

* `RBTreeProofs`: `TreeStaysSearchTree`, `TreeStaysRedBlack`, `TreeFindsItsKeys`,
  `TreeRepairsClimb`, for any nodes and any keys: all that the run checks of RBTree.
  `TreeInv` has three parts. `Numbered`: there is a numbering `at` of the nodes in key
  order, without gaps, in which each subtree is an interval (`Spanned`, `end`), a child's
  being what its parent's has on that side, and the keys grow with the numbers (`Ranked`).
  A rotation keeps the numbers and moves two ends of intervals; an insertion moves the
  numbers above the new leaf up (`MovedUp`) and a deletion moves them down, after the
  successor has taken the place and the number of the node that goes (`Renamed`).
  `Leveled`: there are black heights `bh` that agree at every node, where one is missing
  on the side `hs` of `hp`, the place that a deletion repairs (`Lack`). And `Reds`: red
  meets red only at `cur`, in an insertion above it, in a deletion below it. What the run
  checks is stated by the recursive functions `InOrder`, `BlackHeight`, `Least`, `Find`
  and `Depth` instead, and `Leaf` is in the step of an insertion.
  The provers cannot instantiate the library's induction theorems, so that the induction
  over the tree is done by hand: a set of numbers has a least member (`LeastNumber`,
  from `WFMin`), hence whoever has a property when all of smaller rank have it is in the
  set of those that have it (`RankInduction`), and hence a function with given recursive
  equations exists (`RankRecursion`). The rank of a node is the width of its interval.
  From this, the function that each recursive definition chooses satisfies its equations,
  and what it computes follows by another induction: `InOrder` lists the nodes by their
  numbers, `BlackHeight` is the `bh` of the root, `Least` ends at the first of an
  interval, `Leaf` at a node with room on the side of the new key, and `Find` loses no
  node with the key.

Every invariant, action property and refinement that a passing run checks is thus stated by a
theorem, for all constants that satisfy the modules' assumptions. Only
model-checked are the liveness properties, for fairness and ENABLED are out of the
prover's reach: `EveryPostArrives`, `RunnableRuns`, `ReadyWakes`, `NoStarvation`,
`ReadyDelivered`, `MessagesReceived` and `RequestsRun`.

## 6. Not modelled

* Register-level context switches, allocation and clock wrappers, the build; the
  teardown of schedulers and allocators, which nothing calls; `p7_finalize`, which
  walks the queues of carriers whose threads are still running.
* Futures, their arena, `p7r_poolize`. `scraft_arena_init` marks guards, elements
  and slots for release with cleanup attributes and never disarms them, so that
  they are released on the successful return too (`scraft_arena.c:58`). All that
  `p7r_submit` does with a future is then on released memory: any outcome is
  possible, and a model could show nothing. (Beyond that, `p7r_submit` ignores
  that the request could not be made, `p7r_api.c:98`, and the token that is to
  spread threads over slots is unsigned and never assigned, `scraft_arena.c:15`.)
* The p7 namespace. A reader's `scraft_hashtable_fetch` unlinks and links a node
  under the shared lock, so that two lookups on two carriers leave the chain
  undefined. Registration looks a name up and inserts it in two critical sections
  (`p7_namespace.c:43`), and the record is read after the lock was given back (70).
* The arena of spin locks (`spin.c`). A carrier's search of its share of the
  reserved locks wraps to index 0 and not to its own first one (53), so that two
  carriers may hand out the same lock, and `used` is counted twice for each (45, 50).
  Both are plain to see in a single call.
* The LRU cache, which nothing uses, and `scraft_rbt_detach`, whose `meta` is set
  on the wrong node (`scraft_rbt.c:79`): the timers it would serve are never
  destroyed (ek3) or never inserted (p7r).
* Of s1, the names of aliases and the hash dictionary under them, a table without
  growth that is used under one lock (its destruction tests `key_dtor` where it
  calls `val_dtor`); of ek3, the names of sessions (MD5) and what handlers do; of
  the hints, the statistics in them, which nothing reads.
* A deletion from the tree in which the second round finds a red sibling needs a
  larger tree than the run has; the round is the same action.
