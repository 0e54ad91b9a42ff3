--------------------------- MODULE StackAllocator ---------------------------
(***************************************************************************)
(* The allocator of uthread stacks of one p7r scheduler                    *)
(* (p7r/p7r_stack_allocator.c, p7r/p7r_stack_hint.c): two master zones,    *)
(* mapped for ever, and slave zones that are mapped when the masters are   *)
(* used up and unmapped as soon as all their stacks are back.              *)
(*                                                                         *)
(* A zone counts its free room in pages (`size').  The list of its free     *)
(* stacks is a set here: they are all the same.  The order of the list of   *)
(* slaves is what makes the search for room short, so it is kept.          *)
(***************************************************************************)
EXTENDS Lists

CONSTANTS Short, Long,      \* the master zones
          Slave,            \* zones that may be mapped beside them
          StackPages,       \* n_pages_stack_total
          ShortPages, LongPages, SlavePages   \* as configured

Zone == {Short, Long} \cup Slave

\* p7r_stack_allocator_config_adjust: n pages, rounded up, are so many stacks.
Adjusted(n) == (n + StackPages - 1) \div StackPages

\* The stacks of a zone, and its capacity in pages.
NStacks(z) == Adjusted(CASE z = Short -> ShortPages
                         [] z = Long  -> LongPages
                         [] OTHER     -> SlavePages)

Capacity(z) == NStacks(z) * StackPages

ASSUME StackAllocatorAssumption ==
    /\ Short # Long /\ {Short, Long} \cap Slave = {}
    /\ StackPages \in Nat \ {0}
    /\ ShortPages \in Nat \ {0} /\ LongPages \in Nat \ {0}
    /\ SlavePages \in Nat \ {0}

\* The stacks that p7r_stack_page_provider_init lays out, by first page.
Stacks(z) == {n * StackPages : n \in 0 .. NStacks(z) - 1}

VARIABLES pages,      \* the free stacks of each zone
          size,       \* its free pages
          slaves,     \* allocator->slaves.slaves
          nslaves,    \* allocator->slaves.n_slaves
          given,      \* the stacks in use, each with its zone
          crashed     \* a slave could not be mapped

vars == <<pages, size, slaves, nslaves, given, crashed>>

Init ==
    /\ pages = [z \in Zone |-> IF z \in Slave THEN {} ELSE Stacks(z)]
    /\ size = [z \in Zone |-> IF z \in Slave THEN 0 ELSE Capacity(z)]
    /\ slaves = <<>>
    /\ nslaves = 0
    /\ given = {}
    /\ crashed = FALSE

(***************************************************************************)
(* Allocation.                                                             *)
(***************************************************************************)
\* The masters that each entry point tries before the slaves:
\* p7r_stack_allocate (default, short term), p7r_stack_allocate_hintless and
\* _with_hint (prudent, eden, any other policy).
Pipelines == {<<Long>>, <<Short, Long>>, <<Long, Short>>, <<Short>>, <<>>}

\* p7r_stack_page_allocate from one of the masters.
FromMaster(pipeline) ==
    \E i \in DOMAIN pipeline :
        LET z == pipeline[i] IN
        /\ size[z] # 0
        /\ \A j \in 1 .. i - 1 : size[pipeline[j]] = 0
        /\ \E s \in pages[z] :
              /\ pages' = [pages EXCEPT ![z] = @ \ {s}]
              /\ size' = [size EXCEPT ![z] = @ - StackPages]
              /\ given' = given \cup {<<z, s>>}
        /\ UNCHANGED <<slaves, nslaves, crashed>>

MastersFull(pipeline) == \A i \in DOMAIN pipeline : size[pipeline[i]] = 0

\* A fault: an exhausted slave keeps its place.
DemotedNever(list, z, room) == list

\* p7r_slave_allocation_adjust: an exhausted slave goes to the end.
Demoted(list, z, room) == IF room = 0 THEN Append(Without(list, z), z) ELSE list

\* p7r_stack_page_allocate_fallback: the first slave with room,
FromSlave(pipeline) ==
    /\ MastersFull(pipeline)
    /\ \E i \in DOMAIN slaves :
          LET z == slaves[i] IN
          /\ size[z] # 0
          /\ \A j \in 1 .. i - 1 : size[slaves[j]] = 0
          /\ \E s \in pages[z] :
                /\ pages' = [pages EXCEPT ![z] = @ \ {s}]
                /\ given' = given \cup {<<z, s>>}
          /\ size' = [size EXCEPT ![z] = @ - StackPages]
          /\ slaves' = Demoted(slaves, z, size'[z])
    /\ UNCHANGED <<nslaves, crashed>>

SlavesFull == \A z \in Range(slaves) : size[z] = 0

\* or a new one, which is put first.
FromNewSlave(pipeline) ==
    /\ MastersFull(pipeline)
    /\ SlavesFull
    /\ \E z \in Slave \ Range(slaves) :
          /\ \E s \in Stacks(z) :
                /\ pages' = [pages EXCEPT ![z] = Stacks(z) \ {s}]
                /\ given' = given \cup {<<z, s>>}
          /\ size' = [size EXCEPT ![z] = Capacity(z) - StackPages]
          /\ slaves' = Demoted(<<z>> \o slaves, z, size'[z])
    /\ nslaves' = nslaves + 1
    /\ UNCHANGED crashed

\* mmap fails: the null slave is put into the list.
MapFails(pipeline) ==
    /\ MastersFull(pipeline)
    /\ SlavesFull
    /\ crashed' = TRUE
    /\ UNCHANGED <<pages, size, slaves, nslaves, given>>

Allocate(pipeline) ==
    /\ ~ crashed
    /\ \/ FromMaster(pipeline) \/ FromSlave(pipeline)
       \/ FromNewSlave(pipeline) \/ MapFails(pipeline)

(***************************************************************************)
(* p7r_stack_page_free.                                                    *)
(***************************************************************************)
FreeToMaster(z, s) ==
    /\ z \notin Slave
    /\ pages' = [pages EXCEPT ![z] = @ \cup {s}]
    /\ size' = [size EXCEPT ![z] = @ + StackPages]
    /\ UNCHANGED <<slaves, nslaves>>

\* p7r_slave_free_adjust: a slave that was exhausted goes to the front.
Promoted(z) == IF size[z] = 0 THEN <<z>> \o Without(slaves, z) ELSE slaves

\* A fault: unmapped while one stack is still in use.
IsIdleTooEarly(z) == size[z] + 2 * StackPages >= Capacity(z)

IsIdleAfter(z) == size[z] + StackPages = Capacity(z)

FreeToSlave(z, s) ==
    /\ z \in Slave
    /\ ~ IsIdleAfter(z)
    /\ pages' = [pages EXCEPT ![z] = @ \cup {s}]
    /\ size' = [size EXCEPT ![z] = @ + StackPages]
    /\ slaves' = Promoted(z)
    /\ UNCHANGED nslaves

\* The last stack of a slave is back: the zone is unmapped.
UnmapSlave(z, s) ==
    /\ z \in Slave
    /\ IsIdleAfter(z)
    /\ pages' = [pages EXCEPT ![z] = {}]
    /\ size' = [size EXCEPT ![z] = 0]
    /\ slaves' = Without(slaves, z)
    /\ nslaves' = nslaves - 1

Free(z, s) ==
    /\ ~ crashed
    /\ <<z, s>> \in given
    /\ given' = given \ {<<z, s>>}
    /\ FreeToMaster(z, s) \/ FreeToSlave(z, s) \/ UnmapSlave(z, s)
    /\ UNCHANGED crashed

Next == \/ \E p \in Pipelines : Allocate(p)
        \/ \E use \in given : Free(use[1], use[2])

Spec == Init /\ [][Next]_vars

-----------------------------------------------------------------------------
\* The variables are in their ranges.
TypeOK ==
    /\ pages \in [Zone -> SUBSET Nat]
    /\ size \in [Zone -> Nat]
    /\ slaves \in Seq(Slave)
    /\ nslaves \in Nat
    /\ given \subseteq Zone \X Nat
    /\ crashed \in BOOLEAN

Mapped == {Short, Long} \cup Range(slaves)
InUse(z) == {s \in Stacks(z) : <<z, s>> \in given}

\* The page count, which alone decides whether a zone is tried and when it is
\* unmapped, agrees with the list of free stacks.
SizeCountsFree ==
    \A z \in Mapped : size[z] = StackPages * Cardinality(pages[z])

\* Every stack that is in use lies in a mapped zone and none is handed out
\* twice: a mapped zone's stacks are either free or in use, never lost, and the
\* page count tells which.
StacksAccounted ==
    /\ TypeOK /\ SizeCountsFree
    /\ \A use \in given : use[1] \in Mapped /\ use[2] \in Stacks(use[1])
    /\ \A z \in Mapped : /\ pages[z] \cup InUse(z) = Stacks(z)
                         /\ pages[z] \cap InUse(z) = {}

\* Slaves with room come before exhausted ones, so that the search for room looks
\* at the first slave only; each is listed and counted once, and mapped only for
\* stacks that are in use.
SlavesListed ==
    /\ nslaves = Len(slaves)
    /\ \A i, j \in DOMAIN slaves :
          /\ slaves[i] = slaves[j] => i = j
          /\ i < j /\ size[slaves[i]] = 0 => size[slaves[j]] = 0
    /\ \A z \in Range(slaves) : InUse(z) # {}
=============================================================================
