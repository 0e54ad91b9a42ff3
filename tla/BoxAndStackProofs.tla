-------------------------- MODULE BoxAndStackProofs --------------------------
(***************************************************************************)
(* Proofs about the two parts that a p7r scheduler owns, neither of which   *)
(* knows of the other.  First the stack allocator (StackAllocator), for all *)
(* sizes of zones and any number of slaves, and the dictionary of hints in *)
(* front of it (StackHints).  Then the message box (CpBuffer), for any set  *)
(* of producers and of messages: its type, the absence of races on the two *)
(* lists, and that the double buffer implements the FIFO of Mailbox.       *)
(***************************************************************************)
EXTENDS CpBuffer, StackHints, ListTheorems

\* Pages of whole stacks.
LEMMA WholeStacks ==
    ASSUME NEW z
    PROVE  NStacks(z) \in Nat \ {0}
<1>1. \A n \in Nat \ {0} : Adjusted(n) \in Nat \ {0}
  BY StackAllocatorAssumption DEF StackAllocatorAssumption, Adjusted
<1> QED
  BY <1>1, StackAllocatorAssumption DEF StackAllocatorAssumption, NStacks

LEMMA Products ==
    ASSUME NEW m \in Nat, NEW n \in Nat
    PROVE  /\ m * StackPages \in Nat
           /\ (m + 1) * StackPages = m * StackPages + StackPages
           /\ m * StackPages = n * StackPages => m = n
           /\ m * StackPages = 0 <=> m = 0
<1>1. StackPages \in Nat /\ StackPages > 0
  BY StackAllocatorAssumption DEF StackAllocatorAssumption
<1>2. m * StackPages \in Nat /\ (m + 1) * StackPages = m * StackPages + StackPages
  BY <1>1
<1>3. \A k \in Nat : k > 0 => k * StackPages > 0
  BY <1>1
<1>4. \A j, k \in Nat : j < k => j * StackPages < k * StackPages
  <2> SUFFICES ASSUME NEW j \in Nat, NEW k \in Nat, j < k PROVE j * StackPages < k * StackPages
    OBVIOUS
  <2>1. k * StackPages = j * StackPages + (k - j) * StackPages
    BY <1>1
  <2>2. (k - j) * StackPages > 0
    BY <1>3
  <2>3. j * StackPages \in Nat /\ (k - j) * StackPages \in Nat
    BY <1>1
  <2> QED
    BY <2>1, <2>2, <2>3
<1>5. m * StackPages = n * StackPages => m = n
  <2>1. m * StackPages \in Nat /\ n * StackPages \in Nat
    BY <1>1
  <2>2. CASE m < n
    BY <2>1, <2>2, <1>4
  <2>3. CASE n < m
    BY <2>1, <2>3, <1>4
  <2> QED
    BY <2>2, <2>3
<1>6. m * StackPages = 0 <=> m = 0
  <2>1. CASE m = 0
    BY <2>1, <1>1
  <2>2. CASE m > 0
    BY <2>2, <1>3, <1>2
  <2> QED
    BY <2>1, <2>2
<1> QED
  BY <1>2, <1>5, <1>6

LEMMA StacksCounted ==
    ASSUME NEW z
    PROVE  /\ IsFiniteSet(Stacks(z)) /\ Stacks(z) \subseteq Nat
           /\ Cardinality(Stacks(z)) = NStacks(z)
<1> DEFINE D == 0 .. NStacks(z) - 1
           f == [n \in D |-> n * StackPages]
<1>1. IsFiniteSet(D) /\ Cardinality(D) = NStacks(z)
  BY WholeStacks, FS_Interval
<1>2. \A m, n \in D : f[m] = f[n] => m = n
  BY Products
<1>3. f \in Bijection(D, Stacks(z))
  BY <1>2, Fun_IsBij DEF Stacks
<1>4. ExistsBijection(D, Stacks(z))
  BY <1>3 DEF ExistsBijection
<1>5. Stacks(z) \subseteq Nat
  BY Products DEF Stacks
<1> QED
  BY <1>1, <1>4, <1>5, FS_Bijection

(***************************************************************************)
(* The list of slaves: what moving a zone in it keeps.                     *)
(***************************************************************************)
RoomFirst(list, room) ==
    \A i, j \in DOMAIN list : i < j /\ room[list[i]] = 0 => room[list[j]] = 0

\* Without z, the others keep their order.
LEMMA WithoutKeeps ==
    ASSUME NEW list \in Seq(Slave), NEW z \in Range(list), Once(list)
    PROVE  /\ Without(list, z) \in Seq(Slave)
           /\ Len(Without(list, z)) = Len(list) - 1
           /\ Once(Without(list, z))
           /\ Range(Without(list, z)) = Range(list) \ {z}
           /\ \A room : RoomFirst(list, room) => RoomFirst(Without(list, z), room)
<1> DEFINE w == Without(list, z)
<1>1. PICK at : Picks(at, list, Range(list) \ {z}, w)
  BY OnlyPicks DEF Without
<1>2. /\ at \in [DOMAIN w -> DOMAIN list] /\ \A n \in DOMAIN w : w[n] = list[at[n]]
      /\ \A m, n \in DOMAIN w : m < n => at[m] < at[n]
  BY <1>1 DEF Picks
<1> HIDE DEF w
<1>3. \A room : RoomFirst(list, room) => RoomFirst(w, room)
  BY <1>2 DEF RoomFirst
<1> QED
  BY <1>3, WithoutFacts DEF w

\* The order of a list depends on the room of its own zones only.
LEMMA RoomAgrees ==
    ASSUME NEW list, NEW room, NEW other, RoomFirst(list, room),
           \A y \in Range(list) : other[y] = 0 <=> room[y] = 0
    PROVE  RoomFirst(list, other)
BY DEF RoomFirst, Range

\* A new zone in front: it has room, or nobody has.
LEMMA FrontKeeps ==
    ASSUME NEW list \in Seq(Slave), NEW z \in Slave \ Range(list), NEW room,
           Once(list), RoomFirst(list, room),
           room[z] # 0 \/ \A y \in Range(list) : room[y] = 0
    PROVE  /\ <<z>> \o list \in Seq(Slave)
           /\ Len(<<z>> \o list) = Len(list) + 1
           /\ Once(<<z>> \o list)
           /\ Range(<<z>> \o list) = Range(list) \cup {z}
           /\ RoomFirst(<<z>> \o list, room)
<1> DEFINE f == <<z>> \o list
<1>1. /\ f \in Seq(Slave) /\ Len(f) = Len(list) + 1
      /\ \A k \in 1 .. Len(list) + 1 : f[k] = IF k = 1 THEN z ELSE list[k - 1]
  OBVIOUS
<1> HIDE DEF f
<1>2. DOMAIN f = 1 .. Len(list) + 1 /\ DOMAIN list = 1 .. Len(list) /\ Len(list) \in Nat
  BY <1>1
<1>3. f[1] = z /\ 1 \in DOMAIN f
  BY <1>1, <1>2
<1>4. \A k \in DOMAIN f : k # 1 => k - 1 \in DOMAIN list /\ f[k] = list[k - 1]
  BY <1>1, <1>2
<1>5. \A k \in DOMAIN list : k + 1 \in DOMAIN f /\ f[k + 1] = list[k]
  BY <1>1, <1>2
<1>6. \A k \in DOMAIN list : list[k] \in Range(list) /\ list[k] # z
  BY DEF Range
<1>7. Once(f)
  BY <1>2, <1>3, <1>4, <1>6 DEF Once
<1>8. Range(f) = Range(list) \cup {z}
  BY <1>3, <1>4, <1>5 DEF Range
<1>9. RoomFirst(f, room)
  <2> SUFFICES ASSUME NEW j \in DOMAIN f, NEW k \in DOMAIN f, j < k, room[f[j]] = 0
               PROVE  room[f[k]] = 0
    BY DEF RoomFirst
  <2>1. k # 1 /\ k - 1 \in DOMAIN list /\ f[k] = list[k - 1]
    BY <1>2, <1>4
  <2>2. CASE j = 1
    BY <1>3, <1>6, <2>1, <2>2
  <2>3. CASE j # 1
    <3>1. j - 1 \in DOMAIN list /\ f[j] = list[j - 1] /\ j - 1 < k - 1
      BY <1>2, <1>4, <2>3
    <3> QED
      BY <2>1, <3>1 DEF RoomFirst
  <2> QED
    BY <2>2, <2>3
<1> QED
  BY <1>1, <1>7, <1>8, <1>9 DEF f

\* An exhausted zone at the end.
LEMMA DemotedKeeps ==
    ASSUME NEW list \in Seq(Slave), NEW z \in Range(list), NEW room,
           Once(list),
           room[z] # 0 => RoomFirst(list, room),
           RoomFirst(Without(list, z), room)
    PROVE  LET d == Demoted(list, z, room[z]) IN
           /\ d \in Seq(Slave) /\ Len(d) = Len(list)
           /\ Once(d) /\ Range(d) = Range(list) /\ RoomFirst(d, room)
<1>1. CASE room[z] # 0
  BY <1>1 DEF Demoted
<1>2. CASE room[z] = 0
  <2> DEFINE w == Without(list, z)
             d == Append(w, z)
  <2>1. /\ w \in Seq(Slave) /\ Len(w) = Len(list) - 1 /\ Once(w)
        /\ Range(w) = Range(list) \ {z} /\ RoomFirst(w, room)
    BY WithoutKeeps
  <2>2. z \in Slave
    BY DEF Range
  <2> HIDE DEF w
  <2>3. /\ d \in Seq(Slave) /\ Len(d) = Len(w) + 1
        /\ \A k \in 1 .. Len(w) + 1 : d[k] = IF k = Len(w) + 1 THEN z ELSE w[k]
    BY <2>1, <2>2
  <2> HIDE DEF d
  <2>4. DOMAIN d = 1 .. Len(w) + 1 /\ DOMAIN w = 1 .. Len(w) /\ Len(w) \in Nat
    BY <2>1, <2>3
  <2>5. Len(w) + 1 \in DOMAIN d /\ d[Len(w) + 1] = z
    BY <2>3, <2>4
  <2>6. \A k \in DOMAIN d : k # Len(w) + 1 => k \in DOMAIN w /\ d[k] = w[k]
    BY <2>3, <2>4
  <2>7. \A k \in DOMAIN w : k \in DOMAIN d /\ d[k] = w[k] /\ w[k] # z
    <3>1. \A k \in DOMAIN w : w[k] \in Range(w)
      BY DEF Range
    <3> QED
      BY <2>1, <2>3, <2>4, <3>1
  <2>8. Once(d)
    BY <2>1, <2>5, <2>6, <2>7 DEF Once
  <2>9. Range(d) = Range(list)
    <3>1. Range(w) \cup {z} = Range(list)
      BY <2>1
    <3>2. Range(d) \subseteq Range(w) \cup {z}
      BY <2>5, <2>6 DEF Range
    <3>3. Range(w) \subseteq Range(d) /\ z \in Range(d)
      BY <2>5, <2>7 DEF Range
    <3> QED
      BY <3>1, <3>2, <3>3
  <2>10. RoomFirst(d, room)
    <3> SUFFICES ASSUME NEW j \in DOMAIN d, NEW k \in DOMAIN d, j < k, room[d[j]] = 0
                 PROVE  room[d[k]] = 0
      BY DEF RoomFirst
    <3>1. CASE k = Len(w) + 1
      BY <1>2, <2>5, <3>1
    <3>2. CASE k # Len(w) + 1
      BY <2>1, <2>4, <2>6, <3>2 DEF RoomFirst
    <3> QED
      BY <3>1, <3>2
  <2>11. Demoted(list, z, room[z]) = d
    BY <1>2 DEF Demoted, d, w
  <2>12. Len(d) = Len(list)
    BY <2>1, <2>3
  <2> QED
    BY <2>3, <2>8, <2>9, <2>10, <2>11, <2>12
<1> QED
  BY <1>1, <1>2

(***************************************************************************)
(* The invariant is what the runs check, both together: that a mapped      *)
(* slave has a stack in use is what keeps the last one from being returned  *)
(* to a zone that is no longer mapped.                                     *)
(***************************************************************************)
IInv == StacksAccounted /\ SlavesListed

\* What StacksAccounted says of one zone.
Accounted(z) ==
    /\ size[z] = StackPages * Cardinality(pages[z])
    /\ pages[z] \cup InUse(z) = Stacks(z)
    /\ pages[z] \cap InUse(z) = {}

LEMMA AccountedAlike ==
    StacksAccounted <=> /\ TypeOK
                        /\ \A use \in given : use[1] \in Mapped /\ use[2] \in Stacks(use[1])
                        /\ \A z \in Mapped : Accounted(z)
BY DEF StacksAccounted, SizeCountsFree, Accounted

LEMMA ZonesMapped ==
    ASSUME TypeOK
    PROVE  Mapped \subseteq Zone /\ Range(slaves) \subseteq Slave
BY DEF TypeOK, Mapped, Zone, Range

\* Of the stacks of a zone, as many are free as its page count says.
LEMMA FreeCounted ==
    ASSUME IInv, NEW z \in Mapped
    PROVE  /\ IsFiniteSet(pages[z]) /\ pages[z] \subseteq Stacks(z)
           /\ Cardinality(pages[z]) \in Nat
           /\ size[z] = Cardinality(pages[z]) * StackPages
           /\ size[z] \in Nat
           /\ StackPages \in Nat \ {0}
<1>1. pages[z] \subseteq Stacks(z) /\ size[z] = StackPages * Cardinality(pages[z])
  BY AccountedAlike DEF IInv, Accounted
<1>2. IsFiniteSet(pages[z])
  BY <1>1, StacksCounted, FS_Subset
<1>3. Cardinality(pages[z]) \in Nat
  BY <1>2, FS_CardinalityType
<1>4. StackPages \in Nat \ {0}
  BY StackAllocatorAssumption DEF StackAllocatorAssumption
<1> QED
  BY <1>1, <1>2, <1>3, <1>4

\* One stack less, one stack more.
LEMMA OneTaken ==
    ASSUME NEW S, IsFiniteSet(S), NEW s \in S
    PROVE  /\ Cardinality(S) * StackPages - StackPages \in Nat
           /\ Cardinality(S) * StackPages - StackPages
                = StackPages * Cardinality(S \ {s})
<1>1. /\ Cardinality(S \ {s}) = Cardinality(S) - 1
      /\ Cardinality(S \ {s}) \in Nat /\ Cardinality(S) \in Nat
  BY FS_RemoveElement, FS_CardinalityType, FS_Subset
<1> DEFINE n == Cardinality(S \ {s})
<1>2. Cardinality(S) = n + 1
  BY <1>1
<1> HIDE DEF n
<1>3. n \in Nat
  BY <1>1 DEF n
<1>4. (n + 1) * StackPages = n * StackPages + StackPages /\ n * StackPages \in Nat
  BY <1>3, Products
<1>5. StackPages \in Nat
  BY StackAllocatorAssumption DEF StackAllocatorAssumption
<1>6. n * StackPages = StackPages * n
  BY <1>3, <1>5
<1> QED
  BY <1>2, <1>4, <1>5, <1>6 DEF n

LEMMA OneBack ==
    ASSUME NEW S, IsFiniteSet(S), NEW s, s \notin S
    PROVE  /\ Cardinality(S) * StackPages + StackPages \in Nat
           /\ Cardinality(S) * StackPages + StackPages
                = StackPages * Cardinality(S \cup {s})
<1> DEFINE n == Cardinality(S)
<1>1. Cardinality(S \cup {s}) = n + 1 /\ n \in Nat
  BY FS_AddElement, FS_CardinalityType
<1>2. StackPages \in Nat
  BY StackAllocatorAssumption DEF StackAllocatorAssumption
<1> HIDE DEF n
<1>3. (n + 1) * StackPages = n * StackPages + StackPages /\ n * StackPages \in Nat
  BY <1>1, Products
<1>4. (n + 1) * StackPages = StackPages * (n + 1)
  BY <1>1, <1>2
<1> QED
  BY <1>1, <1>2, <1>3, <1>4 DEF n

LEMMA ListedAlike ==
    SlavesListed <=> /\ nslaves = Len(slaves)
                     /\ Once(slaves) /\ RoomFirst(slaves, size)
                     /\ \A z \in Range(slaves) : InUse(z) # {}
BY DEF SlavesListed, Once, RoomFirst

\* A free stack of a mapped zone is handed out.
LEMMA TakeKeeps ==
    ASSUME IInv, NEW z \in Mapped, NEW s \in pages[z],
           pages' = [pages EXCEPT ![z] = @ \ {s}],
           size' = [size EXCEPT ![z] = @ - StackPages],
           given' = given \cup {<<z, s>>},
           slaves' \in Seq(Slave), Range(slaves') = Range(slaves),
           nslaves' \in Nat, crashed' \in BOOLEAN
    PROVE  StacksAccounted' /\ \A y \in Range(slaves') : InUse(y)' # {}
<1>1. TypeOK /\ Mapped' = Mapped /\ z \in Zone
  BY ZonesMapped DEF IInv, StacksAccounted, Mapped
<1>2. pages[z] \subseteq Stacks(z) /\ s \in Stacks(z) /\ s \in Nat
  BY FreeCounted, StacksCounted
<1>3. /\ size'[z] \in Nat
      /\ size'[z] = StackPages * Cardinality(pages[z] \ {s})
  BY <1>1, FreeCounted, OneTaken DEF TypeOK
<1>4. TypeOK'
  BY <1>1, <1>2, <1>3 DEF TypeOK
<1>5. \A y \in Mapped : InUse(y)' = IF y = z THEN InUse(y) \cup {s} ELSE InUse(y)
  BY <1>2 DEF InUse
<1>6. \A use \in given' : use[1] \in Mapped' /\ use[2] \in Stacks(use[1])
  BY <1>1, <1>2, AccountedAlike DEF IInv
<1>7. ASSUME NEW y \in Mapped PROVE Accounted(y)'
  <2>1. Accounted(y)
    BY AccountedAlike DEF IInv
  <2>2. y \in Zone
    BY <1>1, ZonesMapped
  <2>3. CASE y = z
    <3>1. pages'[z] = pages[z] \ {s}
      BY <1>1 DEF TypeOK
    <3>2. InUse(z)' = InUse(z) \cup {s}
      BY <1>5
    <3> QED
      BY <1>3, <2>1, <2>3, <3>1, <3>2 DEF Accounted
  <2>4. CASE y # z
    <3>1. pages'[y] = pages[y] /\ size'[y] = size[y]
      BY <1>1, <2>2, <2>4 DEF TypeOK
    <3>2. InUse(y)' = InUse(y)
      BY <1>5, <2>4
    <3> QED
      BY <2>1, <3>1, <3>2 DEF Accounted
  <2> QED
    BY <2>3, <2>4
<1>8. StacksAccounted'
  <2>1. \A y \in Mapped' : Accounted(y)'
    BY <1>1, <1>7
  <2> QED
    BY <1>4, <1>6, <2>1 DEF StacksAccounted, SizeCountsFree, Accounted
<1>9. \A y \in Range(slaves') : InUse(y)' # {}
  <2>1. \A y \in Range(slaves) : y \in Mapped /\ InUse(y) # {}
    BY ListedAlike DEF IInv, Mapped
  <2> QED
    BY <1>5, <2>1
<1> QED
  BY <1>8, <1>9

\* A stack returns to its zone, which stays mapped and has another one in use
\* when it is a slave.
LEMMA GiveKeeps ==
    ASSUME IInv, NEW z, NEW s, <<z, s>> \in given,
           z \in Slave => InUse(z) # {s},
           pages' = [pages EXCEPT ![z] = @ \cup {s}],
           size' = [size EXCEPT ![z] = @ + StackPages],
           given' = given \ {<<z, s>>},
           slaves' \in Seq(Slave), Range(slaves') = Range(slaves),
           nslaves' \in Nat, crashed' \in BOOLEAN
    PROVE  StacksAccounted' /\ \A y \in Range(slaves') : InUse(y)' # {}
<1>1. TypeOK /\ Mapped' = Mapped
  BY DEF IInv, StacksAccounted, Mapped
<1>2. z \in Mapped /\ z \in Zone /\ s \in Stacks(z) /\ s \in Nat
  BY <1>1, AccountedAlike, ZonesMapped, StacksCounted DEF IInv
<1>3. s \in InUse(z) /\ s \notin pages[z]
  BY <1>2, AccountedAlike DEF IInv, Accounted, InUse
<1>4. /\ size'[z] \in Nat
      /\ size'[z] = StackPages * Cardinality(pages[z] \cup {s})
  BY <1>1, <1>2, <1>3, FreeCounted, OneBack DEF TypeOK
<1>5. TypeOK'
  BY <1>1, <1>2, <1>4 DEF TypeOK
<1>6. \A y \in Mapped : InUse(y)' = IF y = z THEN InUse(y) \ {s} ELSE InUse(y)
  BY DEF InUse
<1>7. \A use \in given' : use[1] \in Mapped' /\ use[2] \in Stacks(use[1])
  BY <1>1, AccountedAlike DEF IInv
<1>8. ASSUME NEW y \in Mapped PROVE Accounted(y)'
  <2>1. Accounted(y)
    BY AccountedAlike DEF IInv
  <2>2. y \in Zone
    BY <1>1, ZonesMapped
  <2>3. CASE y = z
    <3>1. pages'[z] = pages[z] \cup {s}
      BY <1>1, <1>2 DEF TypeOK
    <3>2. InUse(z)' = InUse(z) \ {s}
      BY <1>2, <1>6
    <3> QED
      BY <1>3, <1>4, <2>1, <2>3, <3>1, <3>2, ZenonT(30) DEF Accounted
  <2>4. CASE y # z
    <3>1. pages'[y] = pages[y] /\ size'[y] = size[y]
      BY <1>1, <2>2, <2>4 DEF TypeOK
    <3>2. InUse(y)' = InUse(y)
      BY <1>6, <2>4
    <3> QED
      BY <2>1, <3>1, <3>2 DEF Accounted
  <2> QED
    BY <2>3, <2>4
<1>9. StacksAccounted'
  <2>1. \A y \in Mapped' : Accounted(y)'
    BY <1>1, <1>8
  <2> QED
    BY <1>5, <1>7, <2>1 DEF StacksAccounted, SizeCountsFree, Accounted
<1>10. \A y \in Range(slaves') : InUse(y)' # {}
  <2>1. \A y \in Range(slaves) : y \in Mapped /\ y \in Slave /\ InUse(y) # {}
    BY <1>1, ListedAlike, ZonesMapped DEF IInv, Mapped
  <2> QED
    BY <1>3, <1>6, <2>1
<1> QED
  BY <1>9, <1>10

\* The page count says when the last stack of a slave comes back.
LEMMA IdleAfterLast ==
    ASSUME IInv, NEW z, NEW s, <<z, s>> \in given
    PROVE  IsIdleAfter(z) <=> InUse(z) = {s}
<1>1. z \in Mapped /\ s \in Stacks(z)
  BY AccountedAlike DEF IInv
<1>2. s \in InUse(z) /\ Accounted(z)
  BY <1>1, AccountedAlike DEF IInv, InUse
<1> DEFINE n == Cardinality(pages[z])
<1>3. IsFiniteSet(pages[z]) /\ n \in Nat /\ size[z] = n * StackPages
  BY <1>1, FreeCounted
<1>4. IsFiniteSet(pages[z] \cup {s}) /\ Cardinality(pages[z] \cup {s}) = n + 1
  BY <1>2, <1>3, FS_AddElement DEF Accounted
<1>5. pages[z] \cup {s} \subseteq Stacks(z)
  BY <1>1, <1>2 DEF Accounted
<1> HIDE DEF n
<1>6. IsIdleAfter(z) <=> n + 1 = NStacks(z)
  <2>1. (n + 1) * StackPages = n * StackPages + StackPages
    BY <1>3, Products
  <2>2. (n + 1) * StackPages = NStacks(z) * StackPages <=> n + 1 = NStacks(z)
    BY <1>3, WholeStacks, Products
  <2> QED
    BY <1>3, <2>1, <2>2 DEF IsIdleAfter, Capacity
<1>7. n + 1 = NStacks(z) <=> pages[z] \cup {s} = Stacks(z)
  BY <1>4, <1>5, StacksCounted, FS_Subset
<1>8. pages[z] \cup {s} = Stacks(z) <=> InUse(z) = {s}
  BY <1>2 DEF Accounted
<1> QED
  BY <1>6, <1>7, <1>8

-----------------------------------------------------------------------------
LEMMA InitIInv == Init => IInv
<1> SUFFICES ASSUME Init PROVE IInv
  OBVIOUS
<1>1. \A z \in {Short, Long} : z \in Zone /\ z \notin Slave
  BY StackAllocatorAssumption DEF StackAllocatorAssumption, Zone
<1>2. \A z \in Zone : /\ Stacks(z) \subseteq Nat /\ Capacity(z) \in Nat
                     /\ Capacity(z) = StackPages * Cardinality(Stacks(z))
  <2>1. StackPages \in Nat
    BY StackAllocatorAssumption DEF StackAllocatorAssumption
  <2> QED
    BY <2>1, WholeStacks, StacksCounted, Products DEF Capacity
<1>3. TypeOK
  <2>1. pages \in [Zone -> SUBSET Nat]
    BY <1>2 DEF Init
  <2>2. size \in [Zone -> Nat]
    BY <1>2 DEF Init
  <2>3. slaves \in Seq(Slave) /\ nslaves \in Nat /\ crashed \in BOOLEAN
    BY EmptySeq DEF Init
  <2>4. given \subseteq Zone \X Nat
    BY DEF Init
  <2> QED
    BY <2>1, <2>2, <2>3, <2>4 DEF TypeOK
<1>4. Range(slaves) = {} /\ DOMAIN slaves = {} /\ Len(slaves) = 0
  BY DEF Init, Range
<1>5. Mapped = {Short, Long} /\ \A z : InUse(z) = {}
  BY <1>4 DEF Mapped, InUse, Init
<1>6. \A z \in Mapped : pages[z] = Stacks(z) /\ size[z] = Capacity(z)
  BY <1>1, <1>5 DEF Init
<1>7. \A z \in Mapped : Accounted(z)
  BY <1>1, <1>2, <1>5, <1>6 DEF Accounted
<1>8. StacksAccounted
  BY <1>3, <1>7, AccountedAlike DEF Init
<1>9. SlavesListed
  BY <1>4 DEF SlavesListed, Init
<1> QED
  BY <1>8, <1>9 DEF IInv

LEMMA FromMasterKeeps ==
    ASSUME IInv, NEW pipeline \in Pipelines, ~ crashed, FromMaster(pipeline)
    PROVE  IInv'
<1>1. \A i \in DOMAIN pipeline : pipeline[i] \in {Short, Long}
  BY DEF Pipelines
<1>2. PICK i \in DOMAIN pipeline : \E s \in pages[pipeline[i]] :
         /\ pages' = [pages EXCEPT ![pipeline[i]] = @ \ {s}]
         /\ size' = [size EXCEPT ![pipeline[i]] = @ - StackPages]
         /\ given' = given \cup {<<pipeline[i], s>>}
  BY DEF FromMaster
<1> DEFINE z == pipeline[i]
<1>3. z \in Mapped /\ z \notin Slave
  BY <1>1, StackAllocatorAssumption DEF Mapped, StackAllocatorAssumption
<1>4. TypeOK /\ UNCHANGED <<slaves, nslaves, crashed>>
  BY DEF IInv, StacksAccounted, FromMaster
<1> HIDE DEF z
<1>5. StacksAccounted' /\ \A y \in Range(slaves') : InUse(y)' # {}
  BY <1>2, <1>3, <1>4, TakeKeeps DEF TypeOK, z
<1>6. \A y \in Range(slaves) : size'[y] = size[y]
  BY <1>2, <1>3, <1>4, ZonesMapped DEF TypeOK, z, Zone
<1>7. RoomFirst(slaves, size')
  BY <1>6, RoomAgrees, ListedAlike DEF IInv
<1>8. SlavesListed'
  <2>1. nslaves = Len(slaves) /\ Once(slaves)
    BY ListedAlike DEF IInv
  <2> QED
    BY <1>4, <1>5, <1>7, <2>1 DEF SlavesListed, Once, RoomFirst
<1> QED
  BY <1>5, <1>8 DEF IInv

LEMMA FromSlaveKeeps ==
    ASSUME IInv, NEW pipeline \in Pipelines, ~ crashed, FromSlave(pipeline)
    PROVE  IInv'
<1>1. PICK i \in DOMAIN slaves :
         /\ size[slaves[i]] # 0
         /\ \E s \in pages[slaves[i]] :
               /\ pages' = [pages EXCEPT ![slaves[i]] = @ \ {s}]
               /\ given' = given \cup {<<slaves[i], s>>}
         /\ size' = [size EXCEPT ![slaves[i]] = @ - StackPages]
         /\ slaves' = Demoted(slaves, slaves[i], size'[slaves[i]])
  BY DEF FromSlave
<1> DEFINE z == slaves[i]
<1>2. TypeOK /\ UNCHANGED <<nslaves, crashed>>
  BY DEF IInv, StacksAccounted, FromSlave
<1>3. z \in Range(slaves) /\ z \in Mapped /\ size[z] # 0
  BY <1>1 DEF Range, Mapped
<1>4. /\ nslaves = Len(slaves) /\ Once(slaves) /\ RoomFirst(slaves, size)
      /\ slaves \in Seq(Slave)
  BY <1>2, ListedAlike DEF IInv, TypeOK
<1>5. size' = [size EXCEPT ![z] = @ - StackPages] /\ slaves' = Demoted(slaves, z, size'[z])
  BY <1>1
<1> HIDE DEF z
<1>6. \A y \in Range(slaves) : y # z => size'[y] = size[y]
  BY <1>2, <1>5, ZonesMapped DEF TypeOK, Zone
<1>7. size'[z] # 0 => RoomFirst(slaves, size')
  BY <1>3, <1>4, <1>6, RoomAgrees
<1>8. RoomFirst(Without(slaves, z), size')
  <2>1. Range(Without(slaves, z)) = Range(slaves) \ {z} /\ RoomFirst(Without(slaves, z), size)
    BY <1>3, <1>4, WithoutKeeps
  <2> QED
    BY <1>6, <2>1, RoomAgrees
<1>9. /\ slaves' \in Seq(Slave) /\ Len(slaves') = Len(slaves) /\ Once(slaves')
      /\ Range(slaves') = Range(slaves) /\ RoomFirst(slaves', size')
  <2> DEFINE room == size'
             d == Demoted(slaves, z, room[z])
  <2>1. /\ slaves \in Seq(Slave) /\ z \in Range(slaves) /\ Once(slaves)
        /\ room[z] # 0 => RoomFirst(slaves, room)
        /\ RoomFirst(Without(slaves, z), room)
    BY <1>3, <1>4, <1>7, <1>8
  <2> HIDE DEF room
  <2>2. /\ d \in Seq(Slave) /\ Len(d) = Len(slaves) /\ Once(d)
        /\ Range(d) = Range(slaves) /\ RoomFirst(d, room)
    BY <2>1, DemotedKeeps
  <2> QED
    BY <1>5, <2>2 DEF room
<1>10. StacksAccounted' /\ \A y \in Range(slaves') : InUse(y)' # {}
  BY <1>1, <1>2, <1>3, <1>9, TakeKeeps DEF TypeOK, z
<1>11. SlavesListed'
  BY <1>2, <1>4, <1>9, <1>10 DEF SlavesListed, Once, RoomFirst
<1> QED
  BY <1>10, <1>11 DEF IInv

LEMMA FromNewSlaveKeeps ==
    ASSUME IInv, NEW pipeline \in Pipelines, ~ crashed, FromNewSlave(pipeline)
    PROVE  IInv'
<1>1. PICK z \in Slave \ Range(slaves) :
         /\ \E s \in Stacks(z) :
               /\ pages' = [pages EXCEPT ![z] = Stacks(z) \ {s}]
               /\ given' = given \cup {<<z, s>>}
         /\ size' = [size EXCEPT ![z] = Capacity(z) - StackPages]
         /\ slaves' = Demoted(<<z>> \o slaves, z, size'[z])
  BY DEF FromNewSlave
<1>2. PICK s \in Stacks(z) : /\ pages' = [pages EXCEPT ![z] = Stacks(z) \ {s}]
                            /\ given' = given \cup {<<z, s>>}
  BY <1>1
<1>3. /\ TypeOK /\ nslaves' = nslaves + 1 /\ crashed' = crashed
      /\ \A y \in Range(slaves) : size[y] = 0
  BY DEF IInv, StacksAccounted, FromNewSlave, SlavesFull
<1>4. z \in Zone /\ z \notin Mapped /\ Stacks(z) \subseteq Nat
  BY StackAllocatorAssumption, StacksCounted
     DEF StackAllocatorAssumption, Zone, Mapped
<1>5. /\ nslaves = Len(slaves) /\ Once(slaves) /\ RoomFirst(slaves, size)
      /\ slaves \in Seq(Slave)
  BY <1>3, ListedAlike DEF IInv, TypeOK
<1> DEFINE front == <<z>> \o slaves
<1>6. \A y \in Range(slaves) : size'[y] = 0
  BY <1>1, <1>3, ZonesMapped DEF TypeOK, Zone
<1>7. RoomFirst(slaves, size')
  BY <1>3, <1>5, <1>6, RoomAgrees
<1>8. /\ front \in Seq(Slave) /\ Len(front) = Len(slaves) + 1 /\ Once(front)
      /\ Range(front) = Range(slaves) \cup {z} /\ RoomFirst(front, size')
  BY <1>5, <1>6, <1>7, FrontKeeps
<1> HIDE DEF front
<1>9. RoomFirst(Without(front, z), size')
  BY <1>8, WithoutKeeps
<1>10. /\ slaves' \in Seq(Slave) /\ Len(slaves') = Len(front) /\ Once(slaves')
       /\ Range(slaves') = Range(front) /\ RoomFirst(slaves', size')
  <2>1. z \in Range(front) /\ slaves' = Demoted(front, z, size'[z])
    BY <1>1, <1>8 DEF front
  <2> QED
    BY <1>8, <1>9, <2>1, DemotedKeeps
<1>11. Mapped' = Mapped \cup {z}
  BY <1>8, <1>10 DEF Mapped
<1>12. InUse(z)' = {s} /\ \A y \in Mapped : InUse(y)' = InUse(y)
  <2>1. \A use \in given : use[1] # z
    BY <1>4, AccountedAlike DEF IInv
  <2> QED
    BY <1>2, <1>4, <2>1 DEF InUse
<1>13. size'[z] \in Nat /\ size'[z] = StackPages * Cardinality(Stacks(z) \ {s})
  <2>1. size'[z] = Cardinality(Stacks(z)) * StackPages - StackPages
    BY <1>1, <1>3, <1>4, StacksCounted DEF TypeOK, Capacity
  <2> QED
    BY <1>2, <2>1, StacksCounted, OneTaken
<1>14. pages'[z] = Stacks(z) \ {s}
  BY <1>2, <1>3, <1>4 DEF TypeOK
<1>15. Accounted(z)'
  BY <1>12, <1>13, <1>14 DEF Accounted
<1>16. ASSUME NEW y \in Mapped PROVE Accounted(y)'
  <2>1. Accounted(y)
    BY AccountedAlike DEF IInv
  <2>2. y \in Zone /\ y # z
    BY <1>3, <1>4, ZonesMapped
  <2>3. pages'[y] = pages[y] /\ size'[y] = size[y]
    BY <1>1, <1>2, <1>3, <2>2 DEF TypeOK
  <2> QED
    BY <1>12, <2>1, <2>3 DEF Accounted
<1>17. TypeOK'
  <2>1. size' \in [Zone -> Nat]
    BY <1>1, <1>3, <1>4, <1>13 DEF TypeOK
  <2>2. pages' \in [Zone -> SUBSET Nat] /\ given' \subseteq Zone \X Nat
    BY <1>2, <1>3, <1>4 DEF TypeOK
  <2> QED
    BY <1>3, <1>10, <2>1, <2>2 DEF TypeOK
<1>18. \A use \in given' : use[1] \in Mapped' /\ use[2] \in Stacks(use[1])
  BY <1>2, <1>11, AccountedAlike DEF IInv
<1>19. StacksAccounted'
  BY <1>11, <1>15, <1>16, <1>17, <1>18 DEF StacksAccounted, SizeCountsFree, Accounted
<1>20. \A y \in Range(slaves') : InUse(y)' # {}
  <2>1. \A y \in Range(slaves) : y \in Mapped /\ InUse(y) # {}
    BY ListedAlike DEF IInv, Mapped
  <2> QED
    BY <1>8, <1>10, <1>12, <2>1
<1>21. nslaves' = Len(slaves')
  BY <1>3, <1>5, <1>8, <1>10
<1>22. SlavesListed'
  BY <1>10, <1>20, <1>21 DEF SlavesListed, Once, RoomFirst
<1> QED
  BY <1>19, <1>22 DEF IInv

LEMMA StandingKeeps ==
    ASSUME IInv, UNCHANGED <<pages, size, slaves, nslaves, given>>, crashed' \in BOOLEAN
    PROVE  IInv'
BY DEF IInv, StacksAccounted, SizeCountsFree, SlavesListed, TypeOK, Mapped, InUse

LEMMA FreeToMasterKeeps ==
    ASSUME IInv, NEW z, NEW s, <<z, s>> \in given, given' = given \ {<<z, s>>},
           UNCHANGED crashed, FreeToMaster(z, s)
    PROVE  IInv'
<1>1. /\ TypeOK /\ z \notin Slave /\ UNCHANGED <<slaves, nslaves>>
      /\ pages' = [pages EXCEPT ![z] = @ \cup {s}]
      /\ size' = [size EXCEPT ![z] = @ + StackPages]
  BY DEF IInv, StacksAccounted, FreeToMaster
<1>2. StacksAccounted' /\ \A y \in Range(slaves') : InUse(y)' # {}
  BY <1>1, GiveKeeps DEF TypeOK
<1>3. \A y \in Range(slaves) : size'[y] = size[y]
  BY <1>1, ZonesMapped DEF TypeOK, Zone
<1>4. RoomFirst(slaves, size')
  BY <1>3, RoomAgrees, ListedAlike DEF IInv
<1>5. nslaves = Len(slaves) /\ Once(slaves)
  BY ListedAlike DEF IInv
<1>6. SlavesListed'
  BY <1>1, <1>2, <1>4, <1>5 DEF SlavesListed, Once, RoomFirst
<1> QED
  BY <1>2, <1>6 DEF IInv

LEMMA FreeToSlaveKeeps ==
    ASSUME IInv, NEW z, NEW s, <<z, s>> \in given, given' = given \ {<<z, s>>},
           UNCHANGED crashed, FreeToSlave(z, s)
    PROVE  IInv'
<1>1. /\ TypeOK /\ z \in Slave /\ ~ IsIdleAfter(z) /\ slaves' = Promoted(z)
      /\ nslaves' = nslaves
      /\ pages' = [pages EXCEPT ![z] = @ \cup {s}]
      /\ size' = [size EXCEPT ![z] = @ + StackPages]
  BY DEF IInv, StacksAccounted, FreeToSlave
<1>2. z \in Mapped /\ z \in Range(slaves) /\ z \in Zone
  BY <1>1, AccountedAlike, ZonesMapped, StackAllocatorAssumption
     DEF IInv, Mapped, StackAllocatorAssumption
<1>3. /\ nslaves = Len(slaves) /\ Once(slaves) /\ RoomFirst(slaves, size)
      /\ slaves \in Seq(Slave)
  BY <1>1, ListedAlike DEF IInv, TypeOK
<1>4. /\ \A y \in Range(slaves) : y # z => size'[y] = size[y]
      /\ size'[z] = size[z] + StackPages
  BY <1>1, <1>2, ZonesMapped DEF TypeOK, Zone
<1>5. size[z] \in Nat /\ size'[z] # 0
  BY <1>2, <1>4, FreeCounted
<1>6. /\ slaves' \in Seq(Slave) /\ Len(slaves') = Len(slaves) /\ Once(slaves')
      /\ Range(slaves') = Range(slaves) /\ RoomFirst(slaves', size')
  <2>1. CASE size[z] # 0
    <3>1. RoomFirst(slaves, size')
      BY <1>3, <1>4, <1>5, <2>1, RoomAgrees
    <3> QED
      BY <1>1, <1>3, <2>1, <3>1 DEF Promoted
  <2>2. CASE size[z] = 0
    <3> DEFINE w == Without(slaves, z)
    <3>1. /\ w \in Seq(Slave) /\ Len(w) = Len(slaves) - 1 /\ Once(w)
          /\ Range(w) = Range(slaves) \ {z} /\ RoomFirst(w, size)
      BY <1>2, <1>3, WithoutKeeps
    <3>2. slaves' = <<z>> \o w
      BY <1>1, <2>2 DEF Promoted
    <3> HIDE DEF w
    <3>3. RoomFirst(w, size')
      BY <1>4, <3>1, RoomAgrees
    <3>4. /\ <<z>> \o w \in Seq(Slave) /\ Len(<<z>> \o w) = Len(w) + 1
          /\ Once(<<z>> \o w) /\ Range(<<z>> \o w) = Range(w) \cup {z}
          /\ RoomFirst(<<z>> \o w, size')
      BY <1>1, <1>5, <3>1, <3>3, FrontKeeps
    <3>5. Len(w) + 1 = Len(slaves) /\ Range(w) \cup {z} = Range(slaves)
      BY <1>2, <1>3, <3>1
    <3> QED
      BY <3>2, <3>4, <3>5
  <2> QED
    BY <2>1, <2>2
<1>7. InUse(z) # {s}
  BY <1>1, IdleAfterLast
<1>8. StacksAccounted' /\ \A y \in Range(slaves') : InUse(y)' # {}
  BY <1>1, <1>6, <1>7, GiveKeeps DEF TypeOK
<1>9. SlavesListed'
  BY <1>1, <1>3, <1>6, <1>8 DEF SlavesListed, Once, RoomFirst
<1> QED
  BY <1>8, <1>9 DEF IInv

LEMMA UnmapSlaveKeeps ==
    ASSUME IInv, NEW z, NEW s, <<z, s>> \in given, given' = given \ {<<z, s>>},
           UNCHANGED crashed, UnmapSlave(z, s)
    PROVE  IInv'
<1>1. /\ TypeOK /\ z \in Slave /\ IsIdleAfter(z) /\ slaves' = Without(slaves, z)
      /\ nslaves' = nslaves - 1
      /\ pages' = [pages EXCEPT ![z] = {}] /\ size' = [size EXCEPT ![z] = 0]
  BY DEF IInv, StacksAccounted, UnmapSlave
<1>2. z \in Range(slaves) /\ z \notin {Short, Long}
  BY <1>1, AccountedAlike, StackAllocatorAssumption
     DEF IInv, Mapped, StackAllocatorAssumption
<1>3. /\ nslaves = Len(slaves) /\ Once(slaves) /\ RoomFirst(slaves, size)
      /\ slaves \in Seq(Slave)
  BY <1>1, ListedAlike DEF IInv, TypeOK
<1>4. /\ slaves' \in Seq(Slave) /\ Len(slaves') = Len(slaves) - 1 /\ Once(slaves')
      /\ Range(slaves') = Range(slaves) \ {z} /\ RoomFirst(slaves', size)
  BY <1>1, <1>2, <1>3, WithoutKeeps
<1>5. Mapped' = Mapped \ {z}
  BY <1>2, <1>4 DEF Mapped
<1>6. InUse(z) = {s}
  BY <1>1, IdleAfterLast
\* The last stack was the only one of z.
<1>7. \A use \in given' : use[1] \in Mapped' /\ use[2] \in Stacks(use[1])
  <2> SUFFICES ASSUME NEW use \in given' PROVE use[1] \in Mapped' /\ use[2] \in Stacks(use[1])
    OBVIOUS
  <2>1. use \in given /\ use # <<z, s>> /\ use = <<use[1], use[2]>>
    BY <1>1 DEF TypeOK
  <2>2. use[1] \in Mapped /\ use[2] \in Stacks(use[1])
    BY <2>1, AccountedAlike DEF IInv
  <2>3. use[1] # z
    BY <1>6, <2>1, <2>2 DEF InUse
  <2> QED
    BY <1>5, <2>2, <2>3
<1>8. \A y \in Mapped' : /\ InUse(y)' = InUse(y)
                        /\ pages'[y] = pages[y] /\ size'[y] = size[y]
  BY <1>1, <1>5, ZonesMapped DEF InUse, TypeOK
<1>9. \A y \in Mapped' : Accounted(y)'
  BY <1>5, <1>8, AccountedAlike DEF IInv, Accounted
<1>10. nslaves' = Len(slaves') /\ nslaves' \in Nat
  BY <1>1, <1>3, <1>4
<1>11. TypeOK'
  BY <1>1, <1>4, <1>10 DEF TypeOK
<1>12. StacksAccounted'
  BY <1>7, <1>9, <1>11 DEF StacksAccounted, SizeCountsFree, Accounted
<1>13. RoomFirst(slaves', size')
  <2>1. \A y \in Range(slaves') : y \in Mapped'
    BY DEF Mapped
  <2> QED
    BY <1>4, <1>8, <2>1, RoomAgrees
<1>14. \A y \in Range(slaves') : InUse(y)' # {}
  BY <1>4, <1>8, ListedAlike DEF IInv, Mapped
<1>15. SlavesListed'
  BY <1>4, <1>10, <1>13, <1>14 DEF SlavesListed, Once, RoomFirst
<1> QED
  BY <1>12, <1>15 DEF IInv

LEMMA NextIInv == IInv /\ [Next]_vars => IInv'
<1> SUFFICES ASSUME IInv, [Next]_vars PROVE IInv'
  OBVIOUS
<1>1. ASSUME NEW p \in Pipelines, Allocate(p) PROVE IInv'
  <2>1. CASE FromMaster(p)
    BY <1>1, <2>1, FromMasterKeeps DEF Allocate
  <2>2. CASE FromSlave(p)
    BY <1>1, <2>2, FromSlaveKeeps DEF Allocate
  <2>3. CASE FromNewSlave(p)
    BY <1>1, <2>3, FromNewSlaveKeeps DEF Allocate
  <2>4. CASE MapFails(p)
    BY <2>4, StandingKeeps DEF MapFails
  <2> QED
    BY <1>1, <2>1, <2>2, <2>3, <2>4 DEF Allocate
<1>2. ASSUME NEW use \in given, Free(use[1], use[2]) PROVE IInv'
  <2>1. /\ <<use[1], use[2]>> \in given /\ UNCHANGED crashed
        /\ given' = given \ {<<use[1], use[2]>>}
    BY <1>2 DEF Free
  <2>2. CASE FreeToMaster(use[1], use[2])
    BY <2>1, <2>2, FreeToMasterKeeps
  <2>3. CASE FreeToSlave(use[1], use[2])
    BY <2>1, <2>3, FreeToSlaveKeeps
  <2>4. CASE UnmapSlave(use[1], use[2])
    BY <2>1, <2>4, UnmapSlaveKeeps
  <2> QED
    BY <1>2, <2>2, <2>3, <2>4 DEF Free
<1>3. CASE UNCHANGED vars
  BY <1>3, StandingKeeps DEF vars, IInv, StacksAccounted, TypeOK
<1> QED
  BY <1>1, <1>2, <1>3 DEF Next

-----------------------------------------------------------------------------
\* For every size of the zones and any number of slaves: a stack in use lies in
\* a zone that is still mapped, belongs to one uthread only, and the page count,
\* by which p7r_stack_page_free decides to unmap, never lies.
THEOREM StacksSafe == Spec => []StacksAccounted
<1>1. IInv => StacksAccounted
  BY DEF IInv
<1> QED
  BY InitIInv, NextIInv, <1>1, PTL DEF Spec

\* The list of slaves holds each mapped slave once, those with room first, and
\* none that nobody uses: however the allocations and the frees alternate.
THEOREM SlavesInOrder == Spec => []SlavesListed
<1>1. IInv => SlavesListed
  BY DEF IInv
<1> QED
  BY InitIInv, NextIInv, <1>1, PTL DEF Spec

-----------------------------------------------------------------------------
(***************************************************************************)
(* The dictionary of hints.  It refines a directory that keeps, for each    *)
(* key, the entries of that key alone, the newest first: whatever the other  *)
(* entries of the chain do, and although a lookup moves what it finds, the   *)
(* entries that compare equal stay in their order.                         *)
(***************************************************************************)
Matching(k) == {e \in Entry : Compares(k, e)}

TableInv ==
    /\ cluster \in [Slot -> Seq(Entry)]
    /\ \A s \in Slot : /\ Once(cluster[s])
                       /\ \A e \in Range(cluster[s]) : SlotOf(KeyOf[e]) = s
    /\ hint \in Entry \cup {None}

LEMMA KeysHaveSlots ==
    /\ \A e \in Entry : KeyOf[e] \in Key
    /\ \A k \in Key : SlotOf(k) \in Slot
<1>1. \A n \in Nat : n % Cap \in 0 .. Cap - 1
  BY HashTableAssumption
<1> QED
  BY <1>1, HashTableAssumption DEF Key, Range, SlotOf, Slot

\* What a lookup finds.
LEMMA FoundFacts ==
    ASSUME TableInv, NEW k \in Key
    PROVE  /\ Chain(k) \in Seq(Entry) /\ Once(Chain(k))
           /\ Equals(k) = Only(Chain(k), Matching(k))
           /\ Equals(k) \in Seq(Entry) /\ Once(Equals(k))
           /\ Range(Equals(k)) \subseteq Range(Chain(k)) \cap Matching(k)
           /\ Equals(k) = <<>> => Found(k) = None
           /\ Equals(k) # <<>> =>
                 /\ Found(k) = Head(Equals(k)) /\ Found(k) # None
                 /\ Found(k) \in Range(Chain(k)) \cap Matching(k)
<1>1. Chain(k) \in Seq(Entry) /\ Once(Chain(k))
  BY KeysHaveSlots DEF TableInv, Chain
<1>2. Equals(k) = Only(Chain(k), Matching(k))
  BY DEF Equals, Matching
<1>3. Equals(k) \in Seq(Entry) /\ Range(Equals(k)) = Range(Chain(k)) \cap Matching(k)
  BY <1>1, <1>2, OnlyFacts
<1>4. Once(Equals(k))
  BY <1>1, <1>2, OnlyOnce
<1>5. ASSUME Equals(k) # <<>>
      PROVE  /\ Found(k) = Head(Equals(k)) /\ Found(k) # None
             /\ Found(k) \in Range(Chain(k)) \cap Matching(k)
  <2>1. Head(Equals(k)) \in Entry /\ Head(Equals(k)) \in Range(Equals(k))
    BY <1>3, <1>5, TailFacts
  <2> QED
    BY <1>3, <1>5, <2>1, HashTableAssumption DEF Found
<1> QED
  BY <1>1, <1>2, <1>3, <1>4, <1>5 DEF Found

\* Where a chain is replaced.
LEMMA ChainsReplaced ==
    ASSUME TableInv, NEW s \in Slot, NEW list, cluster' = [cluster EXCEPT ![s] = list]
    PROVE  \A k \in Key : /\ Chain(k)' = IF SlotOf(k) = s THEN list ELSE Chain(k)
                          /\ Equals(k)' = IF SlotOf(k) = s THEN Only(list, Matching(k))
                                                           ELSE Equals(k)
<1> TAKE k \in Key
<1>1. Chain(k)' = IF SlotOf(k) = s THEN list ELSE Chain(k)
  BY KeysHaveSlots DEF TableInv, Chain
<1> QED
  BY <1>1 DEF Equals, Matching

LEMMA TableKept ==
    ASSUME TableInv, NEW s \in Slot, NEW list \in Seq(Entry), Once(list),
           \A e \in Range(list) : SlotOf(KeyOf[e]) = s,
           cluster' = [cluster EXCEPT ![s] = list], hint' \in Entry \cup {None}
    PROVE  TableInv'
<1>1. cluster' \in [Slot -> Seq(Entry)]
  BY DEF TableInv
<1>2. \A r \in Slot : cluster'[r] = IF r = s THEN list ELSE cluster[r]
  BY DEF TableInv
<1> QED
  BY <1>1, <1>2 DEF TableInv, SlotOf

\* The chain without an entry.
LEMMA OthersStay ==
    ASSUME NEW list \in Seq(Entry), NEW e, NEW S, e \notin S
    PROVE  Only(Without(list, e), S) = Only(list, S)
<1> DEFINE R == Range(list) \ {e}
<1>1. Range(list) \cap (R \cap S) = Range(list) \cap S
  OBVIOUS
<1> HIDE DEF R
<1>2. Only(Only(list, R), S) = Only(list, R \cap S)
  BY OnlyOnly
<1> DEFINE RS == R \cap S
<1>3. Only(list, RS) = Only(list, S)
  <2>1. Range(list) \cap RS = Range(list) \cap S
    BY <1>1
  <2> HIDE DEF RS
  <2> QED
    BY <2>1, OnlySame
<1> QED
  BY <1>2, <1>3 DEF Without, R

LEMMA FirstUncovers ==
    ASSUME NEW list \in Seq(Entry), Once(list), NEW S, Only(list, S) # <<>>
    PROVE  Only(Without(list, Head(Only(list, S))), S) = Tail(Only(list, S))
<1> DEFINE only == Only(list, S)
           e == Head(only)
           R == Range(list) \ {e}
           Q == Range(only) \ {e}
<1>1. only \in Seq(Entry) /\ Range(only) = Range(list) \cap S /\ Once(only)
  BY OnlyFacts, OnlyOnce
<1> HIDE DEF only
<1>2. Without(only, e) = Tail(only)
  BY <1>1, WithoutHead DEF only
<1> DEFINE RS == R \cap S
           SQ == S \cap Q
<1>3. Range(list) \cap RS = Range(list) \cap SQ
  BY <1>1
<1> HIDE DEF e, R, Q, RS, SQ
<1>4. Only(list, RS) = Only(list, SQ)
  BY <1>3, OnlySame
<1>5. Only(Only(list, R), S) = Only(list, RS)
  BY OnlyOnly DEF RS
<1>6. Only(Only(list, S), Q) = Only(list, SQ)
  BY OnlyOnly DEF SQ
<1> QED
  BY <1>2, <1>4, <1>5, <1>6 DEF Without, only, e, R, Q

-----------------------------------------------------------------------------
LEMMA DirectoryEmpty ==
    ASSUME HintsInit
    PROVE  TableInv /\ Directory!DirectoryInit
<1>1. \A s \in Slot : cluster[s] = <<>>
  BY DEF HintsInit, TableInit
<1>2. cluster \in [Slot -> Seq(Entry)]
  BY DEF HintsInit, TableInit
<1>3. TableInv
  BY <1>1, <1>2, EmptyFacts DEF TableInv, HintsInit
<1>4. \A k \in Key : Equals(k) = <<>>
  BY <1>1, KeysHaveSlots, OnlyEmpty DEF Equals, Chain
<1>5. [k \in Key |-> Equals(k)] = [k \in Directory!Range(KeyOf) |-> <<>>]
  BY <1>4 DEF Key, Range, Directory!Range
<1>6. hint = None
  BY DEF HintsInit
<1> QED
  BY <1>3, <1>5, <1>6 DEF Directory!DirectoryInit

LEMMA PutRefines ==
    ASSUME TableInv, NEW h \in Entry, PutHint(h)
    PROVE  TableInv' /\ Directory!Put(h)
<1> DEFINE j == KeyOf[h]
           list == <<h>> \o Chain(j)
<1>1. /\ h \notin Stored /\ cluster' = [cluster EXCEPT ![SlotOf(j)] = list]
      /\ UNCHANGED hint
  BY DEF PutHint, Insert, Chain, TableInv
<1>2. j \in Key /\ SlotOf(j) \in Slot
  BY KeysHaveSlots
<1>3. Chain(j) \in Seq(Entry) /\ Once(Chain(j))
  BY <1>2, FoundFacts
<1>4. \A k \in Key : h \notin Range(Chain(k))
  BY <1>1, KeysHaveSlots DEF Stored, Chain
<1>5. list \in Seq(Entry) /\ Range(list) = {h} \cup Range(Chain(j)) /\ Once(list)
  <2> DEFINE one == <<h>>
             chain == Chain(j)
  <2>1. one \in Seq(Entry) /\ Range(one) = {h} /\ Once(one)
    BY SingleFacts
  <2>2. chain \in Seq(Entry) /\ Once(chain) /\ h \notin Range(chain)
    BY <1>2, <1>3, <1>4
  <2> HIDE DEF one, chain
  <2>3. Range(one) \cap Range(chain) = {}
    BY <2>1, <2>2
  <2>4. one \o chain \in Seq(Entry) /\ Range(one \o chain) = {h} \cup Range(chain) /\ Once(one \o chain)
    BY <2>1, <2>2, <2>3, ConcatFacts
  <2> QED
    BY <2>4 DEF one, chain
<1>6. \A e \in Range(list) : SlotOf(KeyOf[e]) = SlotOf(j)
  BY <1>2, <1>5 DEF TableInv, Chain
<1>7. TableInv'
  <2> HIDE DEF list, j
  <2> QED
    BY <1>1, <1>2, <1>5, <1>6, TableKept DEF TableInv
<1>8. \A k \in Key : Equals(k)' = IF k = j THEN <<h>> \o Equals(k) ELSE Equals(k)
  <2> TAKE k \in Key
  <2>1. Equals(k)' = IF SlotOf(k) = SlotOf(j) THEN Only(list, Matching(k)) ELSE Equals(k)
    <3> HIDE DEF list, j
    <3> QED
      BY <1>1, <1>2, ChainsReplaced
  <2>2. h \in Matching(k) <=> k = j
    BY DEF Matching, Compares
  <2>3. Only(list, Matching(k)) = IF h \in Matching(k) THEN <<h>> \o Only(Chain(j), Matching(k))
                                                       ELSE Only(Chain(j), Matching(k))
    BY <1>3, OnlyPrepend
  <2>4. Equals(k) = Only(Chain(k), Matching(k)) /\ (SlotOf(k) = SlotOf(j) => Chain(k) = Chain(j))
    BY FoundFacts DEF Chain
  <2> QED
    BY <2>1, <2>2, <2>3, <2>4
<1>9. \A k \in Key : h \notin Range(Equals(k))
  BY <1>4, FoundFacts
<1>10. \A k \in DOMAIN [i \in Key |-> Equals(i)] :
          h \notin Directory!Range([i \in Key |-> Equals(i)][k])
  BY <1>9 DEF Range, Directory!Range
<1>11. [k \in Key |-> Equals(k)]'
          = [[k \in Key |-> Equals(k)] EXCEPT ![KeyOf[h]] = <<h>> \o @]
  BY <1>2, <1>8
<1> QED
  BY <1>1, <1>7, <1>10, <1>11 DEF Directory!Put

LEMMA GetRefines ==
    ASSUME TableInv, NEW k \in Key, GetHint(k)
    PROVE  TableInv' /\ Directory!Get(k)
<1>1. hint' = IF Equals(k) = <<>> THEN None ELSE Head(Equals(k))
  BY DEF GetHint, Found
<1>2. hint' \in Entry \cup {None}
  BY <1>1, FoundFacts DEF Matching
<1>3. CASE Equals(k) = <<>>
  <2>1. UNCHANGED cluster
    BY <1>3 DEF GetHint, Found
  <2>2. TableInv' /\ \A j \in Key : Equals(j)' = Equals(j)
    BY <1>2, <2>1 DEF TableInv, Equals, Chain
  <2> QED
    BY <1>1, <2>2 DEF Directory!Get
<1>4. CASE Equals(k) # <<>>
  <2> DEFINE e == Found(k)
             rest == Without(Chain(k), e)
             list == <<e>> \o rest
  <2>1. /\ e = Head(Equals(k)) /\ e # None /\ e \in Range(Chain(k)) /\ e \in Matching(k)
        /\ Chain(k) \in Seq(Entry) /\ Once(Chain(k)) /\ Equals(k) = Only(Chain(k), Matching(k))
        /\ Equals(k) \in Seq(Entry)
    BY <1>4, FoundFacts
  <2>2. cluster' = [cluster EXCEPT ![SlotOf(k)] = list] /\ SlotOf(k) \in Slot /\ e \in Entry
    BY <2>1, KeysHaveSlots DEF GetHint, Fetch, MovedToFront, Chain, TableInv, Matching
  <2> HIDE DEF e
  <2>3. rest \in Seq(Entry) /\ Range(rest) = Range(Chain(k)) \ {e} /\ Once(rest)
    BY <2>1, WithoutFacts
  <2>4. list \in Seq(Entry) /\ Range(list) = {e} \cup Range(rest) /\ Once(list)
    <3> DEFINE one == <<e>>
    <3>1. one \in Seq(Entry) /\ Range(one) = {e} /\ Once(one)
      BY <2>2, SingleFacts
    <3> HIDE DEF one, rest
    <3>2. Range(one) \cap Range(rest) = {}
      BY <2>3, <3>1
    <3>3. /\ one \o rest \in Seq(Entry) /\ Range(one \o rest) = {e} \cup Range(rest)
          /\ Once(one \o rest)
      BY <2>3, <3>1, <3>2, ConcatFacts
    <3> QED
      BY <3>3 DEF one
  <2>5. \A x \in Range(list) : SlotOf(KeyOf[x]) = SlotOf(k)
    BY <2>1, <2>2, <2>3, <2>4 DEF TableInv, Chain
  <2>6. TableInv'
    <3> HIDE DEF list
    <3> QED
      BY <1>2, <2>2, <2>4, <2>5, TableKept
  <2>7. \A j \in Key : Equals(j)' = Equals(j)
    <3> TAKE j \in Key
    <3>1. Equals(j)' = IF SlotOf(j) = SlotOf(k) THEN Only(list, Matching(j)) ELSE Equals(j)
      <4> HIDE DEF list
      <4> QED
        BY <2>2, ChainsReplaced
    <3>2. Equals(j) = Only(Chain(j), Matching(j)) /\ (SlotOf(j) = SlotOf(k) => Chain(j) = Chain(k))
      BY FoundFacts DEF Chain
    <3>3. e \in Matching(j) <=> j = k
      BY <2>1, <2>2 DEF Matching, Compares
    <3>4. Only(list, Matching(j)) = IF e \in Matching(j) THEN <<e>> \o Only(rest, Matching(j))
                                                         ELSE Only(rest, Matching(j))
      BY <2>2, <2>3, OnlyPrepend
    <3>5. CASE j = k
      <4>1. Only(rest, Matching(k)) = Tail(Equals(k))
        BY <1>4, <2>1, FirstUncovers
      <4>2. <<e>> \o Tail(Equals(k)) = Equals(k)
        BY <1>4, <2>1
      <4> QED
        BY <3>1, <3>3, <3>4, <3>5, <4>1, <4>2
    <3>6. CASE j # k
      <4>1. Only(rest, Matching(j)) = Only(Chain(k), Matching(j))
        BY <2>1, <3>3, <3>6, OthersStay
      <4> QED
        BY <3>1, <3>2, <3>3, <3>4, <3>6, <4>1
    <3> QED
      BY <3>5, <3>6
  <2> QED
    BY <1>1, <2>6, <2>7 DEF Directory!Get
<1> QED
  BY <1>3, <1>4

LEMMA DeleteRefines ==
    ASSUME TableInv, NEW k \in Key, DeleteHint(k)
    PROVE  TableInv' /\ Directory!Delete(k)
<1> DEFINE e == Found(k)
           rest == Without(Chain(k), e)
<1>1. Equals(k) # <<>>
  BY DEF DeleteHint, Found
<1>2. /\ e = Head(Equals(k)) /\ e # None /\ e \in Range(Chain(k)) /\ e \in Matching(k)
      /\ Chain(k) \in Seq(Entry) /\ Once(Chain(k)) /\ Equals(k) = Only(Chain(k), Matching(k))
  BY <1>1, FoundFacts
<1>3. /\ cluster' = [cluster EXCEPT ![SlotOf(k)] = rest] /\ SlotOf(k) \in Slot
      /\ hint' = IF hint = e THEN None ELSE hint
  BY KeysHaveSlots DEF DeleteHint, Take, Chain, TableInv
<1> HIDE DEF e
<1>4. rest \in Seq(Entry) /\ Range(rest) = Range(Chain(k)) \ {e} /\ Once(rest)
  BY <1>2, WithoutFacts
<1>5. \A x \in Range(rest) : SlotOf(KeyOf[x]) = SlotOf(k)
  BY <1>3, <1>4 DEF TableInv, Chain
<1>6. TableInv'
  <2>1. hint' \in Entry \cup {None}
    BY <1>3 DEF TableInv
  <2> HIDE DEF rest
  <2> QED
    BY <1>3, <1>4, <1>5, <2>1, TableKept
<1>7. \A j \in Key : Equals(j)' = IF j = k THEN Tail(Equals(j)) ELSE Equals(j)
  <2> TAKE j \in Key
  <2>1. Equals(j)' = IF SlotOf(j) = SlotOf(k) THEN Only(rest, Matching(j)) ELSE Equals(j)
    <3> HIDE DEF rest
    <3> QED
      BY <1>3, ChainsReplaced
  <2>2. Equals(j) = Only(Chain(j), Matching(j)) /\ (SlotOf(j) = SlotOf(k) => Chain(j) = Chain(k))
    BY FoundFacts DEF Chain
  <2>3. CASE j = k
    <3>1. Only(rest, Matching(k)) = Tail(Equals(k))
      BY <1>1, <1>2, FirstUncovers
    <3> QED
      BY <2>1, <2>3, <3>1
  <2>4. CASE j # k
    <3>1. e \notin Matching(j)
      BY <1>2, <2>4 DEF Matching, Compares
    <3>2. Only(rest, Matching(j)) = Only(Chain(k), Matching(j))
      BY <1>2, <3>1, OthersStay
    <3> QED
      BY <2>1, <2>2, <2>4, <3>2
  <2> QED
    BY <2>3, <2>4
<1> QED
  BY <1>1, <1>2, <1>3, <1>6, <1>7 DEF Directory!Delete

LEMMA RenewRefines ==
    ASSUME TableInv, Renew
    PROVE  TableInv' /\ Directory!Clear
<1>1. cluster' \in [Slot -> Seq(Entry)] /\ hint' = None /\ \A s \in Slot : cluster'[s] = <<>>
  BY DEF Renew
<1>2. TableInv'
  BY <1>1, EmptyFacts DEF TableInv
<1>3. \A k \in Key : Equals(k)' = <<>>
  BY <1>1, KeysHaveSlots, OnlyEmpty DEF Equals, Chain
<1> QED
  BY <1>1, <1>2, <1>3 DEF Directory!Clear

\* Steps that leave the table and the hint alone.
LEMMA TableStays ==
    ASSUME TableInv, UNCHANGED <<cluster, hint>>
    PROVE  TableInv' /\ UNCHANGED Directory!directoryVars
BY DEF TableInv, Directory!directoryVars, Equals, Chain

LEMMA DirectoryNextRefines ==
    ASSUME TableInv, [HintsNext]_hintsVars
    PROVE  TableInv' /\ [Directory!DirectoryNext]_(Directory!directoryVars)
<1>1. CASE UNCHANGED hintVars
  BY <1>1, TableStays DEF hintVars
<1>2. CASE Dictionary
  <2>1. ASSUME NEW h \in Entry, NewHint(h) PROVE UNCHANGED <<cluster, hint>>
    BY <2>1 DEF NewHint
  <2>2. ASSUME NEW k \in Key, DeleteNothing(k) PROVE UNCHANGED <<cluster, hint>>
    BY <2>2 DEF DeleteNothing
  <2>3. \A k \in Key : k \in DOMAIN [j \in Key |-> Equals(j)]
    OBVIOUS
  <2> QED
    BY <1>2, <2>1, <2>2, <2>3, TableStays, PutRefines, GetRefines, DeleteRefines, RenewRefines
       DEF Dictionary, Directory!DirectoryNext
<1> QED
  BY <1>1, <1>2 DEF HintsNext, hintsVars

\* A hint that was put for a key stays in force until it is deleted or a newer one
\* is put for the same key, whatever was looked up, put or deleted under other keys
\* of its slot (p7r_stack_hint_dictionary.c over scraft_hashtable.c).
THEOREM HintsInForce == HintsSpec => ImplementsDirectory
<1>1. HintsInit => TableInv /\ Directory!DirectoryInit
  BY DirectoryEmpty
<1>2. TableInv /\ [HintsNext]_hintsVars =>
         TableInv' /\ [Directory!DirectoryNext]_(Directory!directoryVars)
  BY DirectoryNextRefines
<1> QED
  BY <1>1, <1>2, PTL DEF HintsSpec, ImplementsDirectory, Directory!DirectorySpec

\* With hints from the dictionary, the allocator does what it does without.
LEMMA HintsAllocate == HintsSpec => Spec
<1>1. HintsInit => TableInv /\ Init
  BY DirectoryEmpty DEF HintsInit
<1>2. TableInv /\ [HintsNext]_hintsVars => TableInv' /\ [Next]_vars
  <2> SUFFICES ASSUME TableInv, [HintsNext]_hintsVars PROVE TableInv' /\ [Next]_vars
    OBVIOUS
  <2>1. TableInv'
    BY DirectoryNextRefines
  <2>2. ASSUME AllocateWithHint PROVE Next
    <3>1. hint \in Entry /\ Allocate(PipelineOf(hint))
      BY <2>2 DEF AllocateWithHint, TableInv
    <3>2. PipelineOf(hint) \in Pipelines
      BY <3>1, StackHintsAssumption DEF PipelineOf, Pipelines
    <3> QED
      BY <3>1, <3>2 DEF Next
  <2> QED
    BY <2>1, <2>2 DEF HintsNext, hintsVars
<1> QED
  BY <1>1, <1>2, PTL DEF HintsSpec, Spec

\* The stacks are safe and the slaves in order where hints say which masters are
\* tried, whatever the dictionary holds.
THEOREM StacksSafeWithHints == HintsSpec => [](StacksAccounted /\ SlavesListed)
BY HintsAllocate, StacksSafe, SlavesInOrder, PTL
-----------------------------------------------------------------------------

(***************************************************************************)
(* The message box: its inductive invariant.                               *)
(***************************************************************************)
\* The lock is held exactly by the one producer that is not idle.
LockHeld == \A p \in Producer : ppc[p] # "idle" <=> lock = p

\* A producer that is not idle has a message.
HasMessage == \A p \in Producer : ppc[p] # "idle" => pmsg[p] \in Message

\* BUSY is set exactly while a producer is between its two updates.
BusyMeansProducing ==
    IsBusy(index) <=> \E p \in Producer : ppc[p] \in {"load", "add", "clear"}

\* The side a producer loaded is still the producer's side when it appends.
LoadedSide ==
    \A p \in Producer : ppc[p] \in {"add", "clear"} => pside[p] = Side(index)

\* What the consumer knows of its list at each of its steps.
ConsumerView ==
    /\ cpc \in {"check", "load", "swap"} => buffers[OtherSide(index)] = <<>>
    /\ cpc = "swap"  => cside = Side(index)
    /\ cpc = "drain" => cside = OtherSide(index)

Inv == BoxTypeOK /\ LockHeld /\ HasMessage /\ BusyMeansProducing /\ LoadedSide
       /\ ConsumerView

-----------------------------------------------------------------------------
\* The operations on the index byte: its values, and that setting or clearing
\* BUSY leaves the side alone while 1 - i swaps it.
LEMMA IndexFacts ==
    ASSUME NEW i \in 0..3
    PROVE  /\ Side(i) \in 0..1 /\ OtherSide(i) \in 0..1
           /\ Side(i) # OtherSide(i)
           /\ WithBusy(i) \in 0..3 /\ IsBusy(WithBusy(i))
           /\ NoBusy(i) \in 0..3 /\ ~ IsBusy(NoBusy(i))
           /\ Side(WithBusy(i)) = Side(i) /\ Side(NoBusy(i)) = Side(i)
           /\ i \in 0..1 => /\ Side(i) = i /\ 1 - i \in 0..3
                            /\ ~ IsBusy(i) /\ ~ IsBusy(1 - i)
                            /\ Side(1 - i) = OtherSide(i)
                            /\ OtherSide(1 - i) = Side(i)
  <1>1. CASE i = 0  BY <1>1 DEF Side, OtherSide, WithBusy, NoBusy, IsBusy
  <1>2. CASE i = 1  BY <1>2 DEF Side, OtherSide, WithBusy, NoBusy, IsBusy
  <1>3. CASE i = 2  BY <1>3 DEF Side, OtherSide, WithBusy, NoBusy, IsBusy
  <1>4. CASE i = 3  BY <1>4 DEF Side, OtherSide, WithBusy, NoBusy, IsBusy
  <1>5. QED  BY <1>1, <1>2, <1>3, <1>4

LEMMA InvInit == BoxInit => Inv
  <1>1. SUFFICES ASSUME BoxInit PROVE Inv
    OBVIOUS
  <1>2. BoxTypeOK
    BY <1>1 DEF BoxInit, BoxTypeOK
  <1>3. LockHeld /\ HasMessage
    BY <1>1, NoneAssumption DEF BoxInit, LockHeld, HasMessage
  <1>4. BusyMeansProducing /\ LoadedSide /\ ConsumerView
    BY <1>1 DEF BoxInit, BusyMeansProducing, LoadedSide, ConsumerView,
                IsBusy, Side, OtherSide
  <1>5. QED  BY <1>2, <1>3, <1>4 DEF Inv

\* A producer's step preserves the invariant.
LEMMA InvProduce ==
    ASSUME Inv, NEW p \in Producer, Produce(p)
    PROVE  Inv'
  <1> USE DEF Inv, LockHeld, HasMessage, BusyMeansProducing, LoadedSide,
              ConsumerView, BoxTypeOK
  <1>1. CASE AcquireLock(p)
    BY <1>1, NoneAssumption DEF AcquireLock, Goto, consumerVars
  <1>2. CASE SetBusy(p)
    BY <1>2, IndexFacts DEF SetBusy, Goto, consumerVars, OtherSide
  <1>3. CASE LoadSide(p)
    BY <1>3, IndexFacts DEF LoadSide, Goto, consumerVars
  <1>4. CASE AddTail(p)
    BY <1>4, IndexFacts DEF AddTail, Goto, consumerVars
  <1>5. CASE ClearBusy(p)
    BY <1>5, IndexFacts DEF ClearBusy, Goto, consumerVars, OtherSide
  <1>6. CASE ReleaseLock(p)
    BY <1>6, NoneAssumption DEF ReleaseLock, Goto, consumerVars
  <1>7. QED
    BY <1>1, <1>2, <1>3, <1>4, <1>5, <1>6 DEF Produce

\* A consumer's step preserves the invariant.
LEMMA InvConsume ==
    ASSUME Inv, Consume
    PROVE  Inv'
  <1> USE DEF Inv, LockHeld, HasMessage, BusyMeansProducing, LoadedSide,
              ConsumerView, BoxTypeOK
  <1>1. CASE CheckOwnSide
    BY <1>1, IndexFacts DEF CheckOwnSide, producerVars
  <1>2. CASE LoadDesired
    BY <1>2, IndexFacts DEF LoadDesired, producerVars
  <1>3. CASE Swap
    <2>1. CASE index = cside
      BY <1>3, <2>1, IndexFacts DEF Swap, producerVars
    <2>2. CASE index # cside
      BY <1>3, <2>2, IndexFacts DEF Swap, producerVars
    <2>3. QED  BY <2>1, <2>2
  <1>4. CASE TakeOne
    BY <1>4, IndexFacts DEF TakeOne, producerVars
  <1>5. CASE DrainDone
    BY <1>5, IndexFacts DEF DrainDone, producerVars
  <1>6. QED
    BY <1>1, <1>2, <1>3, <1>4, <1>5 DEF Consume

LEMMA InvStutter == Inv /\ UNCHANGED boxVars => Inv'
  BY DEF Inv, LockHeld, HasMessage, BusyMeansProducing, LoadedSide,
         ConsumerView, BoxTypeOK, boxVars

LEMMA InvNext == Inv /\ [BoxNext]_boxVars => Inv'
  BY InvProduce, InvConsume, InvStutter DEF BoxNext

LEMMA Invariance == BoxSpec => []Inv
  BY InvInit, InvNext, PTL DEF BoxSpec

\* Every variable keeps its type, for any producers and messages.
THEOREM BoxTypeCorrect == BoxSpec => []BoxTypeOK
  <1>1. Inv => BoxTypeOK
    BY DEF Inv
  <1>2. QED  BY <1>1, Invariance, PTL

\* No list is ever touched by two threads at once.
THEOREM RaceFree == BoxSpec => []NoListRace
  <1>1. Inv => NoListRace
    <2>1. SUFFICES ASSUME Inv, NEW p \in Producer, NEW s \in 0..1,
                          ProducerTouches(p, s)
                   PROVE  /\ ~ ConsumerTouches(s)
                          /\ \A q \in Producer : ProducerTouches(q, s) => q = p
      BY DEF NoListRace
    <2>2. s = Side(index)
      BY <2>1 DEF Inv, LoadedSide, ProducerTouches
    <2>3. ~ ConsumerTouches(s)
      BY <2>1, <2>2, IndexFacts DEF Inv, BoxTypeOK, ConsumerView, ConsumerTouches
    <2>4. \A q \in Producer : ProducerTouches(q, s) => q = p
      BY <2>1 DEF Inv, LockHeld, ProducerTouches
    <2>5. QED  BY <2>3, <2>4
  <1>2. QED  BY <1>1, Invariance, PTL

\* cp_buffer_consume always starts from an empty list of its own.
THEOREM AlwaysEntersDrained == BoxSpec => []EntersDrained
  <1>1. Inv => EntersDrained
    BY DEF Inv, ConsumerView, EntersDrained
  <1>2. QED  BY <1>1, Invariance, PTL

-----------------------------------------------------------------------------
(***************************************************************************)
(* The message box refines Mailbox.                                        *)
(***************************************************************************)
LEMMA AcceptedInit == BoxInit => Box!MailboxInit
  BY DEF BoxInit, Box!MailboxInit, accepted, OtherSide, Side

\* The producer's list_add_tail is the step that accepts a message; its other
\* steps are invisible to the mailbox.
LEMMA ProduceRefines ==
    ASSUME Inv, NEW p \in Producer, Produce(p)
    PROVE  [Box!MailboxNext]_(Box!mailboxVars)
  <1> USE DEF Box!mailboxVars
  <1>1. CASE AddTail(p)
    <2> DEFINE o == OtherSide(index)  b == Side(index)
    <2>1. /\ pmsg[p] \in Message /\ pside[p] = b /\ o \in 0..1 /\ b \in 0..1
          /\ o # b /\ buffers \in [0..1 -> Seq(Message)]
          /\ delivered \in Seq(Message)
      BY <1>1, IndexFacts DEF Inv, BoxTypeOK, HasMessage, LoadedSide, AddTail
    <2>2. /\ buffers'[o] = buffers[o]
          /\ buffers'[b] = Append(buffers[b], pmsg[p])
          /\ index' = index /\ delivered' = delivered
      BY <1>1, <2>1 DEF AddTail, consumerVars
    <2>3. buffers[b] \in Seq(Message) /\ delivered \o buffers[o] \in Seq(Message)
      BY <2>1, ConcatProperties
    <2>4. (delivered \o buffers[o]) \o Append(buffers[b], pmsg[p])
          = Append((delivered \o buffers[o]) \o buffers[b], pmsg[p])
      <3>1. pmsg[p] \in Message
        BY <2>1
      <3>2. \A s, t \in Seq(Message), e \in Message :
               s \o Append(t, e) = Append(s \o t, e)
        BY ConcatAppend
      <3>3. QED  BY <2>3, <3>1, <3>2, Zenon
    <2>5. accepted' = Append(accepted, pmsg[p])
      BY <2>2, <2>4 DEF accepted
    <2>6. QED  BY <2>1, <2>2, <2>5 DEF Box!MailboxNext, Box!Accept
  <1>2. CASE ~ AddTail(p)
    <2>1. Side(index') = Side(index) /\ buffers' = buffers
          /\ delivered' = delivered
      BY <1>2, IndexFacts DEF Inv, BoxTypeOK, Produce, AcquireLock, SetBusy,
         LoadSide, ClearBusy, ReleaseLock, consumerVars
    <2>2. QED  BY <2>1 DEF accepted, OtherSide
  <1>3. QED  BY <1>1, <1>2

\* The consumer's list_del delivers; the swap renames the two sides, which is
\* invisible because the consumer's is empty.
LEMMA ConsumeRefines ==
    ASSUME Inv, Consume
    PROVE  [Box!MailboxNext]_(Box!mailboxVars)
  <1> USE DEF Box!mailboxVars
  <1> DEFINE o == OtherSide(index)  b == Side(index)
  <1>1. /\ o \in 0..1 /\ b \in 0..1 /\ o # b
        /\ buffers[o] \in Seq(Message) /\ buffers[b] \in Seq(Message)
        /\ delivered \in Seq(Message)
    BY IndexFacts DEF Inv, BoxTypeOK
  <1>2. CASE TakeOne
    <2>1. /\ cside = o /\ buffers[o] # <<>> /\ index' = index
          /\ delivered' = Append(delivered, Head(buffers[o]))
          /\ buffers'[o] = Tail(buffers[o]) /\ buffers'[b] = buffers[b]
      BY <1>1, <1>2 DEF TakeOne, Inv, BoxTypeOK, ConsumerView
    <2>2. Append(delivered, Head(buffers[o])) \o Tail(buffers[o])
          = delivered \o buffers[o]
      BY <1>1, <2>1, ConcatMoveHead
    <2>3. accepted' = accepted
      BY <2>1, <2>2 DEF accepted
    <2>4. /\ Len(delivered) < Len(accepted)
          /\ accepted[Len(delivered) + 1] = Head(buffers[o])
      BY <1>1, <2>1, ConcatNextElement DEF accepted
    <2>5. QED  BY <2>1, <2>3, <2>4 DEF Box!MailboxNext, Box!Deliver
  <1>3. CASE Swap
    <2>1. buffers[o] = <<>> /\ buffers' = buffers /\ delivered' = delivered
      BY <1>3 DEF Swap, Inv, ConsumerView
    <2>2. CASE index = cside
      <3>1. OtherSide(index') = b /\ Side(index') = o
        BY <1>3, <2>2, IndexFacts DEF Swap, Inv, BoxTypeOK
      <3>2. /\ delivered \o buffers[o] = delivered
            /\ delivered \o buffers[b] \in Seq(Message)
            /\ (delivered \o buffers[b]) \o buffers[o] = delivered \o buffers[b]
        BY <1>1, <2>1, ConcatEmptySeq, ConcatProperties
      <3>3. accepted' = accepted
        BY <2>1, <3>1, <3>2 DEF accepted
      <3>4. QED  BY <2>1, <3>3
    <2>3. CASE index # cside
      BY <1>3, <2>1, <2>3 DEF Swap, accepted
    <2>4. QED  BY <2>2, <2>3
  <1>4. CASE CheckOwnSide \/ LoadDesired \/ DrainDone
    BY <1>4 DEF CheckOwnSide, LoadDesired, DrainDone, accepted
  <1>5. QED  BY <1>2, <1>3, <1>4 DEF Consume

\* The double buffer implements a FIFO mailbox that loses and repeats nothing.
THEOREM BoxRefinement == BoxSpec => ImplementsMailbox
  <1>1. Inv /\ [BoxNext]_boxVars => [Box!MailboxNext]_(Box!mailboxVars)
    <2>1. UNCHANGED boxVars => UNCHANGED (Box!mailboxVars)
      BY DEF boxVars, Box!mailboxVars, accepted
    <2>2. QED  BY <2>1, ProduceRefines, ConsumeRefines DEF BoxNext
  <1>2. QED
    BY <1>1, AcceptedInit, Invariance, PTL
    DEF BoxSpec, ImplementsMailbox, Box!MailboxSpec
=============================================================================
