---------------------------- MODULE LibraryProofs ----------------------------
(***************************************************************************)
(* Proofs about the libraries beside the two schedulers, s1 (DlBase) and    *)
(* ek3 (Ek3Reactor), neither of which knows of the other.                  *)
(***************************************************************************)
EXTENDS DlBase, Ek3Reactor, ListTheorems

(***************************************************************************)
(* s1: threads or coroutines, with symbols that are kept or not, lose no    *)
(* object and close none twice.                                            *)
(***************************************************************************)
\* Who is where: the manager reloads while an object is loading, a user has objects
\* to close only in the middle of s1_call_unguard, and the alias is not unloaded
\* while it is in use.
Moves ==
    /\ pc[Manager] \in {"idle", "crashed", "lock", "test", "read", "write", "publish"}
    /\ loading # None <=> pc[Manager] \in {"lock", "test", "read", "write", "publish"}
    /\ loading # None => stable # None
    /\ \A u \in User :
          /\ pc[u] \notin {"idle", "astray"} \/ ref[u] # None => stable # None
          /\ pc[u] \in {"guard", "call"} => ref[u] # None
          /\ doomed[u] # {} => pc[u] = "close"

IInv == ObjectsPlaced /\ Moves

\* The callers of an object are finitely many.
LEMMA Countable ==
    /\ Cardinality(User) \in Nat
    /\ \A l : /\ IsFiniteSet(Callers(l)) /\ Cardinality(Callers(l)) \in Nat
             /\ Cardinality(Callers(l)) <= Cardinality(User)
<1>1. \A l : Callers(l) \subseteq User
  BY DEF Callers
<1> QED
  BY <1>1, DlBaseAssumption, FS_Subset, FS_CardinalityType DEF DlBaseAssumption

\* What is left when one element is taken out.
LEMMA OneLess ==
    ASSUME NEW S, IsFiniteSet(S), NEW x \in S
    PROVE  Cardinality(S \ {x}) = Cardinality(S) - 1
BY FS_RemoveElement

\* s1_call_guard counts its caller in.
LEMMA GuardCounts ==
    ASSUME IInv, NEW u \in User, Guard(u)
    PROVE  /\ ref[u] \in Library \ closed
           /\ invcnt[ref[u]] + 1 \in 0 .. Cardinality(User)
           /\ \A l \in Library \ closed : invcnt'[l] = Cardinality(Callers(l)')
<1> USE DlBaseAssumption DEF IInv, ObjectsPlaced, TypeOK, UsersCounted, Moves, Thread, Step,
    libVars, localVars
<1>1. ref[u] \in Library \ closed /\ pc[u] # "call"
  BY DEF Guard, Kept
<1>2. \A l : Callers(l)' = IF l = ref[u] THEN Callers(l) \cup {u} ELSE Callers(l)
  BY DEF Guard, Callers
<1>3. u \notin Callers(ref[u]) /\ Callers(ref[u]) \cup {u} \subseteq User
  BY <1>1 DEF Callers
<1>4. Cardinality(Callers(ref[u]) \cup {u}) = Cardinality(Callers(ref[u])) + 1
  BY <1>3, Countable, FS_AddElement
<1>5. Cardinality(Callers(ref[u]) \cup {u}) <= Cardinality(User)
  BY <1>3, FS_Subset DEF DlBaseAssumption
<1>6. invcnt[ref[u]] = Cardinality(Callers(ref[u]))
  BY <1>1
<1>7. invcnt[ref[u]] + 1 \in 0 .. Cardinality(User)
  BY <1>4, <1>5, <1>6, Countable
<1>8. \A l \in Library : invcnt'[l] = IF l = ref[u] THEN invcnt[l] + 1 ELSE invcnt[l]
  BY <1>1 DEF Guard
<1>9. ASSUME NEW l \in Library \ closed PROVE invcnt'[l] = Cardinality(Callers(l)')
  <2>1. CASE l = ref[u]
    BY <2>1, <1>2, <1>4, <1>6, <1>8
  <2>2. CASE l # ref[u]
    BY <2>2, <1>2, <1>8
  <2> QED
    BY <2>1, <2>2
<1> QED
  BY <1>1, <1>7, <1>9

\* s1_call_unguard counts it out.
LEMMA UnguardCounts ==
    ASSUME IInv, NEW u \in User, Unguard(u)
    PROVE  /\ ref[u] \in Library \ closed
           /\ invcnt[ref[u]] - 1 \in 0 .. Cardinality(User)
           /\ \A l \in Library \ closed : invcnt'[l] = Cardinality(Callers(l)')
<1> USE DlBaseAssumption DEF IInv, ObjectsPlaced, TypeOK, UsersCounted, Moves, Thread, Step,
    libVars, localVars
<1>1. ref[u] \in Library \ closed /\ pc[u] = "call"
  BY DEF Unguard
<1>2. \A l : Callers(l)' = IF l = ref[u] THEN Callers(l) \ {u} ELSE Callers(l)
  BY DEF Unguard, Callers
<1>3. u \in Callers(ref[u])
  BY <1>1 DEF Callers
<1>4. Cardinality(Callers(ref[u]) \ {u}) = Cardinality(Callers(ref[u])) - 1
  BY <1>3, Countable, OneLess
<1>5. Cardinality(Callers(ref[u])) # 0
  BY <1>3, Countable, FS_EmptySet
<1>6. invcnt[ref[u]] = Cardinality(Callers(ref[u]))
  BY <1>1
<1>7. invcnt[ref[u]] - 1 \in 0 .. Cardinality(User)
  BY <1>5, <1>6, Countable
<1>8. \A l \in Library : invcnt'[l] = IF l = ref[u] THEN invcnt[l] - 1 ELSE invcnt[l]
  BY <1>1 DEF Unguard
<1>9. ASSUME NEW l \in Library \ closed PROVE invcnt'[l] = Cardinality(Callers(l)')
  <2>1. CASE l = ref[u]
    BY <2>1, <1>2, <1>4, <1>6, <1>8
  <2>2. CASE l # ref[u]
    BY <2>2, <1>2, <1>8
  <2> QED
    BY <2>1, <2>2
<1> QED
  BY <1>1, <1>7, <1>9

\* Nothing else changes the count of an object that is not closed, or its callers.
LEMMA InvcntKept ==
    ASSUME IInv, Next
    PROVE  UsersCounted'
<1> USE DlBaseAssumption DEF IInv, ObjectsPlaced, TypeOK, UsersCounted, Moves, Thread, Step,
    libVars, localVars
<1>1. closed \subseteq closed'
  BY DEF Next, Manage, Use, Load, Opens, Unload, OpenFails, ReloadOpens, ReloadLocks,
     ReloadTests, ReloadReads, ReloadWrites, ReloadPublishes, FetchSymbol, FetchRef,
     ReloadSymbol, Guard, Unguard, TestBase, CountOut, TakeDoomed, CloseDoomed, Renew,
     GoesAstray
<1>2. ASSUME NEW u \in User, Guard(u) \/ Unguard(u)
      PROVE  UsersCounted'
  BY <1>1, <1>2, GuardCounts, UnguardCounts
<1>3. CASE Manage
  <2>1. invcnt' = invcnt /\ \A l : Callers(l)' = Callers(l)
    BY <1>3 DEF Callers, Manage, Load, Opens, Unload, OpenFails, ReloadOpens,
       ReloadLocks, ReloadTests, ReloadReads, ReloadWrites, ReloadPublishes
  <2> QED
    BY <1>1, <2>1
<1>4. ASSUME NEW u \in User, GoesAstray(u)
      PROVE  UsersCounted'
  <2>1. invcnt' = invcnt /\ closed' = closed
    BY <1>4 DEF GoesAstray
  <2>2. \A l \in Library \ closed : Callers(l)' = Callers(l)
    BY <1>4 DEF GoesAstray, Callers
  <2> QED
    BY <2>1, <2>2
<1>5. ASSUME NEW u \in User, Use(u), ~ Guard(u), ~ Unguard(u), ~ GoesAstray(u)
      PROVE  UsersCounted'
  <2>1. invcnt' = invcnt /\ \A l : Callers(l)' = Callers(l)
    BY <1>5 DEF Callers, Use, FetchSymbol, FetchRef, ReloadSymbol, TestBase, CountOut,
       TakeDoomed, CloseDoomed, Renew
  <2> QED
    BY <1>1, <2>1
<1> QED
  BY <1>2, <1>3, <1>4, <1>5 DEF Next, Use

\* Every step leaves every object in one place.
LEMMA PlacesKept ==
    ASSUME IInv, Next
    PROVE  TypeOK' /\ InOnePlace' /\ Moves'
<1> DEFINE Right == TypeOK' /\ InOnePlace' /\ Moves'
<1> USE DlBaseAssumption DEF IInv, ObjectsPlaced, TypeOK, InOnePlace, Moves, Serving, Thread, Step,
    vars, libVars, localVars
<1>1. CASE Load
  BY <1>1 DEF Load, Opens
<1>2. CASE Unload
  BY <1>2 DEF Unload
<1>3. CASE OpenFails
  BY <1>3 DEF OpenFails
<1>4. CASE ReloadOpens
  BY <1>4 DEF ReloadOpens, Opens
<1>5. CASE ReloadLocks
  BY <1>5 DEF ReloadLocks, Lock
<1>6. CASE ReloadTests
  <2>1. Cardinality(Library) # 0
    BY <1>6, FS_EmptySet DEF DlBaseAssumption, ReloadTests
  <2>2. Modulus \in Nat /\ Modulus > 1
    BY <2>1, FS_CardinalityType DEF DlBaseAssumption
  <2> QED
    BY <1>6, <2>2 DEF ReloadTests
<1>7. CASE ReloadReads
  BY <1>7 DEF ReloadReads
<1>8. CASE ReloadWrites
  BY <1>8 DEF ReloadWrites
<1>9. CASE ReloadPublishes
  BY <1>9 DEF ReloadPublishes
<1>10. ASSUME NEW u \in User, FetchSymbol(u) PROVE Right
  BY <1>10 DEF FetchSymbol
<1>11. ASSUME NEW u \in User, FetchRef(u) PROVE Right
  BY <1>11 DEF FetchRef
<1>12. ASSUME NEW u \in User, ReloadSymbol(u) PROVE Right
  BY <1>12 DEF ReloadSymbol, Renewed
<1>13. ASSUME NEW u \in User, Guard(u) PROVE Right
  <2>1. ref[u] \in Library /\ invcnt[ref[u]] + 1 \in 0 .. Cardinality(User)
    BY <1>13, GuardCounts
  <2> QED
    BY <1>13, <2>1 DEF Guard, Kept
<1>14. ASSUME NEW u \in User, Unguard(u) PROVE Right
  <2>1. ref[u] \in Library /\ invcnt[ref[u]] - 1 \in 0 .. Cardinality(User)
    BY <1>14, UnguardCounts
  <2> QED
    BY <1>14, <2>1 DEF Unguard
<1>15. ASSUME NEW u \in User, TestBase(u) PROVE Right
  BY <1>15 DEF TestBase
<1>16. ASSUME NEW u \in User, CountOut(u) PROVE Right
  BY <1>16 DEF CountOut
<1>17. ASSUME NEW u \in User, TakeDoomed(u) PROVE Right
  BY <1>17 DEF TakeDoomed, LeftInSet
<1>18. ASSUME NEW u \in User, CloseDoomed(u) PROVE Right
  BY <1>18 DEF CloseDoomed
<1>19. ASSUME NEW u \in User, Renew(u) PROVE Right
  BY <1>19 DEF Renew
<1>20. ASSUME NEW u \in User, GoesAstray(u) PROVE Right
  BY <1>20 DEF GoesAstray
<1> QED
  BY <1>1, <1>2, <1>3, <1>4, <1>5, <1>6, <1>7, <1>8, <1>9, <1>10, <1>11, <1>12,
     <1>13, <1>14, <1>15, <1>16, <1>17, <1>18, <1>19, <1>20
  DEF Next, Manage, Use

\* Whatever the users and the manager are, threads or coroutines, and whatever they
\* keep: an object that was opened is in service, deprecated, about to be closed by
\* one user, or closed, and invcnt counts its users as long as it is not closed.
THEOREM NoObjectIsLost == Spec => []ObjectsPlaced
<1>1. Init => IInv
  <2> SUFFICES ASSUME Init PROVE IInv
    OBVIOUS
  <2>1. \A l : Callers(l) = {}
    BY DEF Init, Callers, Thread
  <2>2. TypeOK /\ Moves
    BY Countable, DlBaseAssumption, FS_CardinalityType
    DEF DlBaseAssumption, Init, TypeOK, Moves, Thread
  <2> QED
    BY <2>1, <2>2, FS_EmptySet DEF Init, IInv, ObjectsPlaced, InOnePlace, UsersCounted, Serving
<1>2. IInv /\ [Next]_vars => IInv'
  <2>1. ASSUME IInv, UNCHANGED vars PROVE IInv'
    BY <2>1 DEF IInv, ObjectsPlaced, TypeOK, InOnePlace, UsersCounted, Moves, Serving,
       Callers, vars, libVars, localVars
  <2>2. ASSUME IInv, Next PROVE IInv'
    BY <2>2, PlacesKept, InvcntKept DEF IInv, ObjectsPlaced
  <2> QED
    BY <2>1, <2>2
<1>3. IInv => ObjectsPlaced
  BY DEF IInv
<1> QED
  BY <1>1, <1>2, <1>3, PTL DEF Spec

-----------------------------------------------------------------------------
(***************************************************************************)
(* Families of lists through the same nodes.                               *)
(***************************************************************************)
\* Only the lists of S differ.
Alike(lists, after, S) ==
    /\ DOMAIN after = DOMAIN lists
    /\ \A k \in DOMAIN lists \ S : after[k] = lists[k]

\* What Tail, Append and the concatenation do to a list.
Shortened(list, x, shorter) ==
    /\ x \in Range(list)
    /\ Once(list) => Once(shorter) /\ Range(shorter) = Range(list) \ {x}

Extended(list, x, longer) ==
    /\ longer # <<>> /\ Range(longer) = Range(list) \cup {x}
    /\ Once(list) /\ x \notin Range(list) => Once(longer)

Joined(list, rest, longer) ==
    /\ Range(longer) = Range(list) \cup Range(rest)
    /\ Once(list) /\ Once(rest) /\ Range(list) \cap Range(rest) = {} => Once(longer)

\* The nodes of list may be in k: none of them is in another list.
Fits(list, lists, k) ==
    /\ Once(list)
    /\ \A x \in Range(list) : x \in Linked(lists) => x \in Range(lists[k])

LEMMA LinkedIn ==
    ASSUME NEW lists
    PROVE  /\ \A k \in DOMAIN lists : Range(lists[k]) \subseteq Linked(lists)
           /\ \A x \in Linked(lists) : \E k \in DOMAIN lists : x \in Range(lists[k])
BY DEF Linked

LEMMA ApartIs ==
    ASSUME NEW lists
    PROVE  Apart(lists) <=>
               /\ \A k \in DOMAIN lists : Once(lists[k])
               /\ \A k, l \in DOMAIN lists :
                     \A x : x \in Range(lists[k]) /\ x \in Range(lists[l]) => k = l
BY DEF Apart

\* A list becomes another one, with the nodes it had and others of no list.
LEMMA ReplaceApart ==
    ASSUME NEW lists, NEW after, NEW k \in DOMAIN lists, Apart(lists),
           Alike(lists, after, {k}), Fits(after[k], lists, k)
    PROVE  /\ Apart(after)
           /\ Linked(after) = (Linked(lists) \ Range(lists[k])) \cup Range(after[k])
<1> DEFINE K == DOMAIN lists
<1>1. DOMAIN after = K /\ \A l \in K : l # k => after[l] = lists[l]
  BY DEF Alike
<1>2. /\ \A l \in K : Once(lists[l])
      /\ \A l, m \in K : \A x : x \in Range(lists[l]) /\ x \in Range(lists[m]) => l = m
  BY ApartIs
<1>3. Once(after[k]) /\ \A x \in Range(after[k]) : x \in Linked(lists) => x \in Range(lists[k])
  BY DEF Fits
<1>4. \A l \in K : \A x \in Range(lists[l]) : x \in Linked(lists)
  BY LinkedIn
<1>5. \A x \in Linked(lists) : \E l \in K : x \in Range(lists[l])
  BY LinkedIn
<1>6. \A l \in K : Once(after[l])
  BY <1>1, <1>2, <1>3
<1>7. ASSUME NEW l \in K, NEW m \in K, NEW x, x \in Range(after[l]), x \in Range(after[m])
      PROVE  l = m
  <2>1. CASE l # k /\ m # k
    BY <1>1, <1>2, <1>7, <2>1
  <2>2. ASSUME NEW n \in K, n # k, x \in Range(after[k]), x \in Range(after[n])
        PROVE  FALSE
    <3>1. x \in Range(lists[n])
      BY <1>1, <2>2
    <3>2. x \in Range(lists[k])
      BY <3>1, <1>3, <1>4, <2>2
    <3> QED
      BY <3>1, <3>2, <1>2, <2>2
  <2> QED
    BY <2>1, <2>2, <1>7
<1>8. Apart(after)
  BY <1>1, <1>6, <1>7, ApartIs
<1>9. \A l \in K : \A x \in Range(after[l]) : x \in Linked(after)
  BY <1>1, LinkedIn
<1>10. \A x \in Linked(after) : \E l \in K : x \in Range(after[l])
  BY <1>1, LinkedIn
<1>11. ASSUME NEW x
       PROVE  x \in Linked(after) <=>
                 x \in (Linked(lists) \ Range(lists[k])) \cup Range(after[k])
  <2>1. ASSUME x \in Linked(after)
        PROVE  x \in (Linked(lists) \ Range(lists[k])) \cup Range(after[k])
    <3>1. PICK l \in K : x \in Range(after[l])
      BY <2>1, <1>10
    <3>2. CASE l = k
      BY <3>1, <3>2
    <3>3. CASE l # k
      <4>1. x \in Range(lists[l])
        BY <3>1, <3>3, <1>1
      <4> QED
        BY <4>1, <3>3, <1>2, <1>4
    <3> QED
      BY <3>2, <3>3
  <2>2. CASE x \in Range(after[k])
    BY <2>2, <1>9
  <2>3. CASE x \in Linked(lists) \ Range(lists[k])
    <3>1. PICK l \in K : x \in Range(lists[l])
      BY <2>3, <1>5
    <3>2. x \in Range(after[l])
      BY <3>1, <2>3, <1>1
    <3> QED
      BY <2>3, <3>2, <1>9
  <2> QED
    BY <2>1, <2>2, <2>3
<1> QED
  BY <1>8, <1>11

\* list_add_tail of a node that is in no list.
LEMMA PushApart ==
    ASSUME NEW lists, NEW after, NEW k \in DOMAIN lists, Apart(lists),
           Alike(lists, after, {k}),
           NEW x, x \notin Linked(lists), Extended(lists[k], x, after[k])
    PROVE  /\ Apart(after)
           /\ Linked(after) = Linked(lists) \cup {x}
           /\ Range(after[k]) = Range(lists[k]) \cup {x}
           /\ after[k] # <<>>
<1>1. Range(lists[k]) \subseteq Linked(lists)
  BY LinkedIn
<1>2. Once(lists[k])
  BY ApartIs
<1>3. /\ Range(after[k]) = Range(lists[k]) \cup {x} /\ Once(after[k])
      /\ after[k] # <<>>
  BY <1>1, <1>2 DEF Extended
<1>4. Fits(after[k], lists, k)
  BY <1>3 DEF Fits
<1>5. /\ Apart(after)
      /\ Linked(after) = (Linked(lists) \ Range(lists[k])) \cup Range(after[k])
  BY <1>4, ReplaceApart
<1> QED
  BY <1>1, <1>3, <1>5

LEMMA AppendExtends ==
    ASSUME NEW T, NEW list \in Seq(T), NEW x \in T
    PROVE  Extended(list, x, Append(list, x))
BY AppendFacts DEF Extended

LEMMA ConcatJoins ==
    ASSUME NEW T, NEW list \in Seq(T), NEW rest \in Seq(T)
    PROVE  Joined(list, rest, list \o rest)
BY ConcatFacts DEF Joined

LEMMA TailShortens ==
    ASSUME NEW T, NEW list \in Seq(T), list # <<>>
    PROVE  Head(list) \in T /\ Shortened(list, Head(list), Tail(list))
<1>1. /\ Head(list) \in T /\ Head(list) \in Range(list)
      /\ Range(list) = Range(Tail(list)) \cup {Head(list)}
      /\ Once(list) => Once(Tail(list)) /\ Head(list) \notin Range(Tail(list))
  BY TailFacts
<1> QED
  BY <1>1 DEF Shortened

\* list_del of the first node.
Popped(lists, after, k, x) ==
    /\ Apart(after)
    /\ x \in Range(lists[k]) /\ x \in Linked(lists)
    /\ Linked(after) = Linked(lists) \ {x}
    /\ Range(after[k]) = Range(lists[k]) \ {x}

LEMMA PopApart ==
    ASSUME NEW lists, NEW after, NEW k \in DOMAIN lists, Apart(lists),
           Alike(lists, after, {k}),
           NEW x, Shortened(lists[k], x, after[k])
    PROVE  Popped(lists, after, k, x)
<1>1. Range(lists[k]) \subseteq Linked(lists)
  BY LinkedIn
<1>2. Once(lists[k])
  BY ApartIs
<1>3. /\ Range(after[k]) = Range(lists[k]) \ {x} /\ Once(after[k])
      /\ x \in Range(lists[k])
  BY <1>2 DEF Shortened
<1>4. Fits(after[k], lists, k)
  BY <1>3 DEF Fits
<1>5. /\ Apart(after)
      /\ Linked(after) = (Linked(lists) \ Range(lists[k])) \cup Range(after[k])
  BY <1>4, ReplaceApart
<1> QED
  BY <1>1, <1>3, <1>5 DEF Popped

\* The first node of k moves to the end of l.
Shifted(lists, after, k, l, x) ==
    /\ Apart(after)
    /\ x \in Range(lists[k]) /\ x \in Linked(lists)
    /\ Linked(after) = Linked(lists)
    /\ Range(after[k]) = Range(lists[k]) \ {x}
    /\ Range(after[l]) = Range(lists[l]) \cup {x}
    /\ after[l] # <<>>

LEMMA ShiftApart ==
    ASSUME NEW lists, NEW after, NEW k \in DOMAIN lists, NEW l \in DOMAIN lists,
           k # l, Apart(lists), Alike(lists, after, {k, l}),
           NEW x, Shortened(lists[k], x, after[k]), Extended(lists[l], x, after[l])
    PROVE  Shifted(lists, after, k, l, x)
<1> DEFINE popped == [m \in DOMAIN lists |-> IF m = k THEN after[k] ELSE lists[m]]
<1>1. Alike(lists, popped, {k}) /\ popped[k] = after[k]
  BY DEF Alike
<1>2. Alike(popped, after, {l}) /\ popped[l] = lists[l] /\ l \in DOMAIN popped
  <2>1. ASSUME NEW m \in DOMAIN lists, m # l
        PROVE  after[m] = popped[m]
    BY <2>1 DEF Alike
  <2> QED
    BY <2>1 DEF Alike
<1> HIDE DEF popped
<1>3. /\ x \in Range(lists[k]) /\ x \in Linked(lists)
      /\ Apart(popped)
      /\ Linked(popped) = Linked(lists) \ {x}
      /\ Range(popped[k]) = Range(lists[k]) \ {x}
  BY <1>1, PopApart DEF Popped
<1>4. Extended(popped[l], x, after[l])
  BY <1>2
<1>5. x \notin Linked(popped)
  BY <1>3
<1>6. /\ Apart(after)
      /\ Linked(after) = Linked(popped) \cup {x}
      /\ Range(after[l]) = Range(popped[l]) \cup {x}
      /\ after[l] # <<>>
  BY <1>2, <1>3, <1>4, <1>5, PushApart
<1>7. Linked(after) = Linked(lists)
  BY <1>3, <1>6
<1>8. Range(after[k]) = Range(lists[k]) \ {x} /\ Range(after[l]) = Range(lists[l]) \cup {x}
  BY <1>1, <1>2, <1>3, <1>6
<1> QED
  BY <1>3, <1>6, <1>7, <1>8 DEF Shifted

\* All nodes of k move to the end of l.
Spliced(lists, after, k, l) ==
    /\ Apart(after)
    /\ Linked(after) = Linked(lists)
    /\ Range(after[k]) = {}
    /\ Range(after[l]) = Range(lists[l]) \cup Range(lists[k])

LEMMA SpliceApart ==
    ASSUME NEW lists, NEW after, NEW k \in DOMAIN lists, NEW l \in DOMAIN lists,
           k # l, Apart(lists), Alike(lists, after, {k, l}),
           after[k] = <<>>,
           Joined(lists[l], lists[k], after[l])
    PROVE  Spliced(lists, after, k, l)
<1> DEFINE cut == [m \in DOMAIN lists |-> IF m = k THEN <<>> ELSE lists[m]]
<1>1. Once(<<>>) /\ Range(<<>>) = {}
  BY EmptyFacts
<1>2. Alike(lists, cut, {k}) /\ cut[k] = <<>>
  BY DEF Alike
<1>3. Alike(cut, after, {l}) /\ cut[l] = lists[l] /\ l \in DOMAIN cut
  <2>1. ASSUME NEW m \in DOMAIN lists, m # l
        PROVE  after[m] = cut[m]
    BY <2>1 DEF Alike
  <2> QED
    BY <2>1 DEF Alike
<1> HIDE DEF cut
<1>4. Fits(cut[k], lists, k)
  BY <1>1, <1>2 DEF Fits
<1>5. Apart(cut) /\ Linked(cut) = (Linked(lists) \ Range(lists[k])) \cup Range(cut[k])
  BY <1>2, <1>4, ReplaceApart
<1>6. Linked(cut) = Linked(lists) \ Range(lists[k])
  BY <1>1, <1>2, <1>5
<1>7. Range(lists[l]) \subseteq Linked(lists) /\ Range(lists[k]) \subseteq Linked(lists)
  BY LinkedIn
<1>8. Once(lists[k]) /\ Once(lists[l]) /\ Range(lists[l]) \cap Range(lists[k]) = {}
  BY ApartIs
<1>9. Range(after[l]) = Range(lists[l]) \cup Range(lists[k]) /\ Once(after[l])
  BY <1>8 DEF Joined
<1>10. Fits(after[l], cut, l)
  BY <1>3, <1>6, <1>9 DEF Fits
<1>11. Apart(after) /\ Linked(after) = (Linked(cut) \ Range(cut[l])) \cup Range(after[l])
  BY <1>3, <1>5, <1>10, ReplaceApart
<1>12. Linked(after) = Linked(lists)
  BY <1>3, <1>6, <1>7, <1>8, <1>9, <1>11
<1> QED
  BY <1>1, <1>9, <1>11, <1>12 DEF Spliced

\* A node moves to the end of a list, from whatever list it is in.
ListsOf(lists, T) == \A k \in DOMAIN lists : lists[k] \in Seq(T)

Moved(lists, after, x, l) ==
    /\ DOMAIN after = DOMAIN lists
    /\ Apart(after)
    /\ Linked(after) = Linked(lists) \cup {x}
    /\ Range(after[l]) = Range(lists[l]) \cup {x}
    /\ after[l] # <<>>
    /\ \A k \in DOMAIN lists : k # l => Range(after[k]) = Range(lists[k]) \ {x}

LEMMA RelinkApart ==
    ASSUME NEW lists, Apart(lists), NEW l \in DOMAIN lists,
           NEW T, ListsOf(lists, T), NEW x \in T
    PROVE  ListsOf(Relinked(lists, x, l), T) /\ Moved(lists, Relinked(lists, x, l), x, l)
<1> DEFINE K == DOMAIN lists
           cut == [k \in K |-> Without(lists[k], x)]
           after == Relinked(lists, x, l)
<1>1. /\ \A k \in K : Once(lists[k])
      /\ \A k, m \in K : \A y : y \in Range(lists[k]) /\ y \in Range(lists[m]) => k = m
  BY ApartIs
<1>2. ASSUME NEW k \in K
      PROVE  /\ cut[k] \in Seq(T) /\ Once(cut[k])
             /\ Range(cut[k]) = Range(lists[k]) \ {x}
  BY <1>1, WithoutFacts DEF ListsOf
<1>3. DOMAIN cut = K
  OBVIOUS
<1>4. /\ DOMAIN after = K /\ after[l] = Append(cut[l], x)
      /\ \A k \in K : k # l => after[k] = cut[k]
  BY DEF Relinked
<1> HIDE DEF cut, after
<1>5. Apart(cut)
  BY <1>1, <1>2, <1>3, ApartIs
<1>6. \A y : y \in Linked(cut) <=> \E k \in K : y \in Range(cut[k])
  BY <1>3, LinkedIn
<1>7. \A y : y \in Linked(lists) <=> \E k \in K : y \in Range(lists[k])
  BY LinkedIn
<1>8. ASSUME NEW y
      PROVE  y \in Linked(cut) <=> y \in Linked(lists) \ {x}
  <2>1. \A k \in K : y \in Range(cut[k]) <=> y \in Range(lists[k]) /\ y # x
    BY <1>2
  <2> QED
    BY <1>6, <1>7, <2>1
<1>9. Linked(cut) = Linked(lists) \ {x}
  BY <1>8
<1>10. x \notin Linked(cut) /\ Alike(cut, after, {l}) /\ l \in DOMAIN cut /\ cut[l] \in Seq(T)
  BY <1>2, <1>3, <1>4, <1>9 DEF Alike
<1>11. /\ Apart(after)
       /\ Linked(after) = Linked(cut) \cup {x}
       /\ Range(after[l]) = Range(cut[l]) \cup {x}
       /\ after[l] # <<>>
  <2>1. Once(cut[l]) /\ Range(cut[l]) \subseteq Linked(cut)
    BY <1>4, <1>5, <1>10, ApartIs, LinkedIn
  <2>2. /\ Range(after[l]) = Range(cut[l]) \cup {x} /\ Once(after[l])
        /\ after[l] # <<>>
    BY <2>1, <1>4, <1>5, <1>10, AppendFacts
  <2>3. Fits(after[l], cut, l)
    BY <2>2, <1>4, <1>5, <1>10 DEF Fits
  <2>4. /\ Apart(after)
        /\ Linked(after) = (Linked(cut) \ Range(cut[l])) \cup Range(after[l])
    BY <2>3, <1>4, <1>5, <1>10, ReplaceApart
  <2> QED
    BY <2>1, <2>2, <2>4
<1>12. Range(after[l]) = Range(lists[l]) \cup {x} /\ Linked(after) = Linked(lists) \cup {x}
  BY <1>2, <1>9, <1>11
<1>13. \A k \in K : k # l => Range(after[k]) = Range(lists[k]) \ {x}
  BY <1>2, <1>4
<1>14. \A k \in K : after[k] \in Seq(T)
  <2>1. after[l] \in Seq(T)
    BY <1>4, <1>10
  <2> QED
    BY <2>1, <1>2, <1>4
<1> QED
  BY <1>4, <1>11, <1>12, <1>13, <1>14 DEF after, ListsOf, Moved

(***************************************************************************)
(* The reactor's inductive invariant.                                      *)
(***************************************************************************)
\* What each part of ek3_poll leaves empty; at its end there is a session to be
\* returned, or something that will notify one.
PhasesInOrder ==
    /\ phase # "dispatch" => queue["posted"] = <<>> /\ batch = <<>>
    /\ phase \in {"wait", "dispatch"} => queue["committing"] = <<>>
    /\ phase = "wait" => queue["notified"] = <<>>
    /\ phase = "dispatch" => \/ timers # {} \/ batch # <<>>
                             \/ queue["posted"] # <<>> \/ queue["notified"] # <<>>

\* What epoll watches is of a session that lives; an event that the user took is of
\* a session in the user's hands or committed again, and ek3_poll sees none that the
\* user kept.
InterestLives ==
    \A f \in Fd : interest[f] # NoEvent =>
        LET e == interest[f]
            s == SessionOf[e]
        IN  /\ FdOf[e] = f /\ freed[s] = 0
            /\ e \in held \cup Range(events[s].registered) =>
                  s \notin Range(queue["deployed"]) \cup Range(queue["notified"])
                             \cup Range(queue["posted"])
            /\ phase \in {"deploy", "wait", "dispatch"} => e \notin held /\ s \in Queued

\* An event that ek3_poll may dispatch: its node is linked and so is its session's.
Dispatchable(e) ==
    LET s == SessionOf[e] IN
    s \in Queued /\ e \in Range(events[s].deployed) \cup Range(events[s].notified)

\* A timer in the tree is of a session that stays deployed until the timer is
\* dispatched.
TimersLive ==
    \A t \in timers :
        /\ Dispatchable(t)
        /\ phase # "dispatch" => SessionOf[t] \in Range(queue["deployed"])

BatchLives == \A e \in Range(batch) : Dispatchable(e)

\* A session in the hash table lives.
TableLives ==
    /\ \A s \in table : freed[s] = 0
    /\ ~ UsesTable => table = {} /\ DestroyedOnce

ReactorInv ==
    /\ SessionsPlaced /\ NotifiedIsReturned /\ PhasesInOrder
    /\ InterestLives /\ TimersLive /\ BatchLives /\ TableLives

-----------------------------------------------------------------------------
SessionQueues == [QueueName -> Seq(Session)]
SessionLists  == [ListName -> Seq(Event)]

LEMMA QueuesAre ==
    ASSUME NEW qs \in SessionQueues
    PROVE  /\ DOMAIN qs = QueueName
           /\ \A q \in QueueName : /\ qs[q] \in Seq(Session)
                                   /\ Range(qs[q]) \subseteq Session
                                   /\ qs[q] = <<>> <=> Range(qs[q]) = {}
           /\ Linked(qs) = Range(qs["committing"]) \cup Range(qs["deployed"])
                           \cup Range(qs["notified"]) \cup Range(qs["posted"])
           /\ Apart(qs) => \A q, r \in QueueName : \A s :
                               s \in Range(qs[q]) /\ s \in Range(qs[r]) => q = r
<1>1. DOMAIN qs = QueueName /\ \A q \in QueueName : qs[q] \in Seq(Session)
  BY DEF SessionQueues
<1>2. \A q \in QueueName : /\ Range(qs[q]) \subseteq Session
                           /\ qs[q] = <<>> <=> Range(qs[q]) = {}
  <2>1. \A q \in QueueName : Range(qs[q]) \subseteq Session
    BY <1>1 DEF Range
  <2> QED
    BY <2>1, <1>1, HeadInRange
<1>3. Linked(qs) = UNION {Range(qs[q]) : q \in QueueName}
  BY <1>1 DEF Linked
<1>4. Linked(qs) = Range(qs["committing"]) \cup Range(qs["deployed"])
                   \cup Range(qs["notified"]) \cup Range(qs["posted"])
  BY <1>3 DEF QueueName
<1> QED
  BY <1>1, <1>2, <1>4, ApartIs

LEMMA ListsAre ==
    ASSUME NEW ls \in SessionLists
    PROVE  /\ DOMAIN ls = ListName
           /\ \A l \in ListName : /\ ls[l] \in Seq(Event)
                                  /\ Range(ls[l]) \subseteq Event
                                  /\ ls[l] = <<>> <=> Range(ls[l]) = {}
           /\ Linked(ls) = Range(ls.registered) \cup Range(ls.deployed)
                           \cup Range(ls.notified)
           /\ Apart(ls) => \A l, m \in ListName : \A e :
                               e \in Range(ls[l]) /\ e \in Range(ls[m]) => l = m
<1>1. DOMAIN ls = ListName /\ \A l \in ListName : ls[l] \in Seq(Event)
  BY DEF SessionLists
<1>2. \A l \in ListName : /\ Range(ls[l]) \subseteq Event
                          /\ ls[l] = <<>> <=> Range(ls[l]) = {}
  <2>1. \A l \in ListName : Range(ls[l]) \subseteq Event
    BY <1>1 DEF Range
  <2> QED
    BY <2>1, <1>1, HeadInRange
<1>3. Linked(ls) = UNION {Range(ls[l]) : l \in ListName}
  BY <1>1 DEF Linked
<1>4. Linked(ls) = Range(ls["registered"]) \cup Range(ls["deployed"])
                   \cup Range(ls["notified"])
  BY <1>3 DEF ListName
<1> QED
  BY <1>1, <1>2, <1>4, ApartIs

\* No list and no queue has anything at first.
LEMMA NothingLinked ==
    /\ \A K : Apart([k \in K |-> <<>>]) /\ Linked([k \in K |-> <<>>]) = {}
BY EmptyFacts DEF Apart, Linked

LEMMA ReactorStarts == ReactorInit => ReactorInv
<1> SUFFICES ASSUME ReactorInit PROVE ReactorInv
  OBVIOUS
<1> USE Ek3Assumption DEF Ek3Assumption
<1>1. queue = [q \in QueueName |-> <<>>] /\ Apart(queue) /\ Queued = {}
  BY NothingLinked DEF ReactorInit, Queued
<1>2. \A s \in Session : /\ events[s] = NoEvents /\ Apart(events[s]) /\ Linked(events[s]) = {}
                         /\ freed[s] = 0 /\ events[s].notified = <<>>
  BY NothingLinked DEF ReactorInit, NoEvents, ListName
<1>3. Range(<<>>) = {}
  BY EmptyFacts
<1>4. ReactorTypeOK
  BY DEF ReactorInit, ReactorTypeOK, NoEvents, ListName, QueueName
<1>5. \A q \in QueueName : queue[q] = <<>>
  BY <1>1
<1>6. SessionsPlaced
  BY <1>1, <1>2, <1>3, <1>4, <1>5 DEF ReactorInit, SessionsPlaced, EventsPlaced, QueueName
<1>7. NotifiedIsReturned /\ PhasesInOrder
  BY <1>2, <1>3, <1>5 DEF NotifiedIsReturned, PhasesInOrder, ReactorInit, QueueName
<1>8. InterestLives /\ TimersLive /\ BatchLives /\ TableLives
  BY <1>2, <1>3 DEF InterestLives, TimersLive, BatchLives, TableLives, ReactorInit, DestroyedOnce
<1> QED
  BY <1>6, <1>7, <1>8 DEF ReactorInv

\* The types, as sets of families.
LEMMA ReactorTyped ==
    /\ ReactorTypeOK => queue \in SessionQueues /\ events \in [Session -> SessionLists]
    /\ (ReactorTypeOK => queue \in SessionQueues /\ events \in [Session -> SessionLists])'
BY DEF ReactorTypeOK, SessionQueues, SessionLists

LEMMA CommitKeeps ==
    ASSUME ReactorInv, NEW s \in Session, Commit(s)
    PROVE  ReactorInv'
<1> USE DEF ReactorInv
<1>1. queue \in SessionQueues /\ ReactorTypeOK /\ Apart(queue)
  BY ReactorTyped DEF SessionsPlaced
<1>2. /\ phase = "user" /\ freed[s] = 0 /\ s \notin Range(queue["notified"])
      /\ TakesAll => events[s].notified = <<>>
      /\ status[s] # "committed" /\ status' = [status EXCEPT ![s] = "committed"]
      /\ queue' = [queue EXCEPT !["committing"] = Append(@, s)]
      /\ UNCHANGED <<flagged, events, held, table, freed, interest, ready, timers,
                     elapsed, batch, phase>>
  BY DEF Commit, IsNew, userVars, pollVars
<1>3. s \notin Queued
  <2>1. queue["posted"] = <<>>
    BY <1>2 DEF PhasesInOrder
  <2> QED
    BY <1>1, <1>2, <2>1, QueuesAre, EmptyFacts DEF Queued, SessionsPlaced
<1>4. /\ queue' \in SessionQueues
      /\ queue'["committing"] = Append(queue["committing"], s)
      /\ \A q \in QueueName : q # "committing" => queue'[q] = queue[q]
  BY <1>1, <1>2 DEF SessionQueues, QueueName
<1>5. Alike(queue, queue', {"committing"}) /\ "committing" \in DOMAIN queue
  BY <1>1, <1>4, QueuesAre DEF Alike, QueueName
<1>6. /\ Apart(queue') /\ Queued' = Queued \cup {s}
      /\ Range(queue'["committing"]) = Range(queue["committing"]) \cup {s}
  <2>1. queue["committing"] \in Seq(Session) /\ s \notin Linked(queue)
    BY <1>1, <1>3, QueuesAre DEF QueueName, Queued
  <2>2. Extended(queue["committing"], s, queue'["committing"])
    BY <2>1, <1>4, AppendExtends
  <2> QED
    BY <2>1, <2>2, <1>1, <1>5, PushApart DEF Queued
<1>7. /\ queue'["deployed"] = queue["deployed"] /\ queue'["notified"] = queue["notified"]
      /\ queue'["posted"] = queue["posted"]
  BY <1>4 DEF QueueName
<1>8. ReactorTypeOK'
  BY <1>1, <1>2, <1>4 DEF ReactorTypeOK, SessionQueues
<1>9. EventsPlaced'
  BY <1>2 DEF EventsPlaced, SessionsPlaced
<1>10. \A t \in Session : t # s => status'[t] = status[t]
  BY <1>1, <1>2 DEF ReactorTypeOK
<1>11. SessionsPlaced'
  <2>1. \A t \in Queued' : freed'[t] = 0
    BY <1>2, <1>6 DEF SessionsPlaced
  <2>2. \A t \in Range(queue["deployed"]) \cup Range(queue["notified"])
                 \cup Range(queue["posted"]) \cup Range(queue["committing"]) :
           t \in Session /\ t # s
    BY <1>1, <1>3, QueuesAre DEF Queued, QueueName
  <2>3. \A t \in Range(queue'["committing"]) \cup Range(queue'["deployed"]) :
           status'[t] = "committed"
    BY <2>2, <1>1, <1>2, <1>6, <1>7, <1>10 DEF SessionsPlaced, ReactorTypeOK
  <2>4. \A t \in Range(queue'["notified"]) \cup Range(queue'["posted"]) :
           status'[t] # "committed"
    BY <2>2, <1>7, <1>10 DEF SessionsPlaced
  <2> QED
    BY <2>1, <2>3, <2>4, <1>6, <1>8, <1>9 DEF SessionsPlaced
<1>12. NotifiedIsReturned'
  BY <1>2, <1>6, <1>7 DEF NotifiedIsReturned
<1>13. PhasesInOrder'
  BY <1>2, <1>4, <1>7 DEF PhasesInOrder
<1>14. InterestLives'
  BY <1>2, <1>6, <1>7 DEF InterestLives
<1>15. TimersLive' /\ BatchLives'
  BY <1>2, <1>6, <1>7 DEF TimersLive, BatchLives, Dispatchable
<1>16. TableLives'
  BY <1>2 DEF TableLives, DestroyedOnce
<1> QED
  BY <1>11, <1>12, <1>13, <1>14, <1>15, <1>16

\* Where an event of a session that lives may be.
LEMMA EventsKnown ==
    ASSUME ReactorTypeOK, EventsPlaced, NEW s \in Session, freed[s] = 0
    PROVE  /\ events[s] \in SessionLists /\ Apart(events[s])
           /\ Linked(events[s]) = {e \in Event : SessionOf[e] = s} \ held
BY ReactorTyped DEF EventsPlaced

\* Steps that leave sessions and events where they are.
LEMMA NothingMoves ==
    ASSUME ReactorInv, ReactorTypeOK',
           UNCHANGED <<queue, status, events, held, freed>>
    PROVE  /\ SessionsPlaced' /\ NotifiedIsReturned'
           /\ \A e : Dispatchable(e) => Dispatchable(e)'
<1>1. SessionsPlaced'
  BY DEF ReactorInv, SessionsPlaced, EventsPlaced, Queued
<1>2. NotifiedIsReturned'
  BY DEF ReactorInv, NotifiedIsReturned
<1>3. \A e : Dispatchable(e) => Dispatchable(e)'
  BY DEF Dispatchable, Queued
<1> QED
  BY <1>1, <1>2, <1>3

LEMMA RegisterEventKeeps ==
    ASSUME ReactorInv, NEW e \in Event, RegisterEvent(e)
    PROVE  ReactorInv'
<1> USE DEF ReactorInv
<1> DEFINE s == SessionOf[e]
<1>1. /\ s \in Session /\ ReactorTypeOK /\ EventsPlaced
      /\ queue \in SessionQueues /\ events \in [Session -> SessionLists]
  BY ReactorTyped, Ek3Assumption DEF SessionsPlaced, Ek3Assumption
<1>2. /\ phase = "user" /\ e \in held /\ freed[s] = 0
      /\ held' = held \ {e}
      /\ events' = [events EXCEPT ![s].registered = Append(@, e)]
      /\ UNCHANGED <<queue, status, flagged, table, freed, interest, ready, timers,
                     elapsed, batch, phase>>
  BY DEF RegisterEvent, pollVars
<1> HIDE DEF s
<1>3. /\ events[s] \in SessionLists /\ Apart(events[s])
      /\ Linked(events[s]) = {d \in Event : SessionOf[d] = s} \ held
  BY <1>1, <1>2, EventsKnown
<1>4. e \notin Linked(events[s]) /\ events[s].registered \in Seq(Event)
  BY <1>2, <1>3, ListsAre DEF ListName
<1>5. /\ events' \in [Session -> SessionLists]
      /\ \A t \in Session : t # s => events'[t] = events[t]
      /\ events'[s].registered = Append(events[s].registered, e)
      /\ \A l \in ListName : l # "registered" => events'[s][l] = events[s][l]
      /\ events'[s].deployed = events[s].deployed
      /\ events'[s].notified = events[s].notified
  <2>1. events[s] \in SessionLists /\ Append(events[s].registered, e) \in Seq(Event)
    BY <1>3, <1>4
  <2>2. events' = [events EXCEPT ![s] = [events[s] EXCEPT !.registered = Append(@, e)]]
    BY <1>1, <1>2
  <2>3. [events[s] EXCEPT !.registered = Append(@, e)] \in SessionLists
    BY <2>1 DEF SessionLists, ListName
  <2> QED
    BY <2>1, <2>2, <2>3, <1>1 DEF SessionLists, ListName
<1>6. Alike(events[s], events'[s], {"registered"}) /\ "registered" \in DOMAIN events[s]
  <2>1. DOMAIN events[s] = ListName /\ DOMAIN events'[s] = ListName
    BY <1>1, <1>3, <1>5, ListsAre
  <2> QED
    BY <2>1, <1>5 DEF Alike, ListName
<1>7. /\ Apart(events'[s])
      /\ Linked(events'[s]) = Linked(events[s]) \cup {e}
      /\ Range(events'[s].registered) = Range(events[s].registered) \cup {e}
  <2>1. Extended(events[s].registered, e, events'[s].registered)
    BY <1>4, <1>5, AppendExtends
  <2>2. Apart(events[s])
    BY <1>3
  <2> QED
    BY <2>1, <2>2, <1>4, <1>6, PushApart
<1>8. ReactorTypeOK'
  BY <1>1, <1>2, <1>5 DEF ReactorTypeOK, SessionLists
<1>9. EventsPlaced'
  <2>1. SessionOf[e] = s
    BY DEF s
  <2>2. ASSUME NEW t \in Session, freed'[t] = 0
        PROVE  Apart(events'[t]) /\ Linked(events'[t]) = {d \in Event : SessionOf[d] = t} \ held'
    <3>1. CASE t = s
      <4>1. {d \in Event : SessionOf[d] = s} \ held'
            = ({d \in Event : SessionOf[d] = s} \ held) \cup {e}
        BY <2>1, <1>2
      <4> QED
        BY <3>1, <4>1, <1>3, <1>7
    <3>2. CASE t # s
      BY <3>2, <2>1, <2>2, <1>1, <1>2, <1>5 DEF EventsPlaced
    <3> QED
      BY <3>1, <3>2
  <2> QED
    BY <2>2 DEF EventsPlaced
<1>10. SessionsPlaced'
  BY <1>2, <1>8, <1>9 DEF SessionsPlaced, Queued
<1>11. NotifiedIsReturned'
  BY <1>2, <1>5 DEF NotifiedIsReturned
<1>12. PhasesInOrder' /\ TableLives'
  BY <1>2 DEF PhasesInOrder, TableLives, DestroyedOnce
<1>13. InterestLives'
  <2>1. ASSUME NEW d \in Event, d \in held' \cup Range(events'[SessionOf[d]].registered)
        PROVE  d \in held \cup Range(events[SessionOf[d]].registered)
    BY <2>1, <1>2, <1>5, <1>7, Ek3Assumption DEF Ek3Assumption
  <2>2. \A f \in Fd : interest[f] # NoEvent => interest[f] \in Event
    BY <1>1 DEF ReactorTypeOK, IOEvent
  <2> QED
    BY <2>1, <2>2, <1>2 DEF InterestLives, Queued
<1>14. TimersLive' /\ BatchLives'
  <2>1. \A t \in Session : /\ events'[t].deployed = events[t].deployed
                           /\ events'[t].notified = events[t].notified
    BY <1>5
  <2>2. \A d \in Event : Dispatchable(d) => Dispatchable(d)'
    BY <2>1, <1>2, Ek3Assumption DEF Dispatchable, Queued, Ek3Assumption
  <2>3. timers \subseteq Event /\ batch = <<>>
    BY <1>1, <1>2, Ek3Assumption DEF ReactorTypeOK, Ek3Assumption, PhasesInOrder
  <2> QED
    BY <2>2, <2>3, <1>2, EmptyFacts DEF TimersLive, BatchLives
<1> QED
  BY <1>10, <1>11, <1>12, <1>13, <1>14

LEMMA NextEventKeeps ==
    ASSUME ReactorInv, NEW s \in Session, NextEvent(s)
    PROVE  ReactorInv'
<1> USE DEF ReactorInv
<1> DEFINE e == Head(events[s].notified)
<1>1. /\ ReactorTypeOK /\ EventsPlaced
      /\ queue \in SessionQueues /\ events \in [Session -> SessionLists]
  BY ReactorTyped DEF SessionsPlaced
<1>2. /\ phase = "user" /\ s \in InHand /\ events[s].notified # <<>>
      /\ held' = held \cup {e} /\ ready' \subseteq ready
      /\ events' = [events EXCEPT ![s].notified = Tail(@)]
      /\ UNCHANGED <<queue, status, flagged, table, freed, interest, timers,
                     elapsed, batch, phase>>
  BY DEF NextEvent
<1>3. freed[s] = 0 /\ s \notin Queued
  BY <1>2 DEF InHand
<1>4. /\ events[s] \in SessionLists /\ Apart(events[s])
      /\ Linked(events[s]) = {d \in Event : SessionOf[d] = s} \ held
      /\ events[s].notified \in Seq(Event)
  BY <1>1, <1>3, EventsKnown, ListsAre DEF ListName
<1>5. /\ events' \in [Session -> SessionLists]
      /\ \A t \in Session : t # s => events'[t] = events[t]
      /\ events'[s].notified = Tail(events[s].notified)
      /\ \A l \in ListName : l # "notified" => events'[s][l] = events[s][l]
      /\ events'[s].deployed = events[s].deployed
      /\ events'[s].registered = events[s].registered
  <2>1. events[s] \in SessionLists /\ Tail(events[s].notified) \in Seq(Event)
    BY <1>2, <1>4, TailFacts
  <2>2. events' = [events EXCEPT ![s] = [events[s] EXCEPT !.notified = Tail(@)]]
    BY <1>1, <1>2
  <2>3. [events[s] EXCEPT !.notified = Tail(@)] \in SessionLists
    BY <2>1 DEF SessionLists, ListName
  <2> QED
    BY <2>1, <2>2, <2>3, <1>1 DEF SessionLists, ListName
<1>6. Alike(events[s], events'[s], {"notified"}) /\ "notified" \in DOMAIN events[s]
  <2>1. DOMAIN events[s] = ListName /\ DOMAIN events'[s] = ListName
    BY <1>1, <1>4, <1>5, ListsAre
  <2> QED
    BY <2>1, <1>5 DEF Alike, ListName
<1>7. /\ e \in Event /\ e \in Linked(events[s])
      /\ Apart(events'[s]) /\ Linked(events'[s]) = Linked(events[s]) \ {e}
      /\ Range(events'[s].notified) = Range(events[s].notified) \ {e}
  <2> DEFINE lists == events[s]
             after == events'[s]
  <2>1. /\ Apart(lists) /\ Alike(lists, after, {"notified"})
        /\ "notified" \in DOMAIN lists
    BY <1>4, <1>6
  <2>2. e \in Event /\ Shortened(lists["notified"], e, after["notified"])
    BY <1>2, <1>4, <1>5, TailShortens
  <2> HIDE DEF lists, after, e
  <2>3. Popped(lists, after, "notified", e)
    BY <2>1, <2>2, PopApart, Zenon
  <2> QED
    BY <2>2, <2>3 DEF lists, after, Popped
<1> HIDE DEF e
<1>8. SessionOf[e] = s
  BY <1>4, <1>7
<1>9. ReactorTypeOK'
  BY <1>1, <1>2, <1>5, <1>7 DEF ReactorTypeOK, SessionLists
<1>10. EventsPlaced'
  <2>1. ASSUME NEW t \in Session, freed'[t] = 0
        PROVE  Apart(events'[t]) /\ Linked(events'[t]) = {d \in Event : SessionOf[d] = t} \ held'
    <3>1. CASE t = s
      BY <3>1, <1>2, <1>4, <1>7
    <3>2. CASE t # s
      BY <3>2, <2>1, <1>1, <1>2, <1>5, <1>8 DEF EventsPlaced
    <3> QED
      BY <3>1, <3>2
  <2> QED
    BY <2>1 DEF EventsPlaced
<1>11. SessionsPlaced'
  BY <1>2, <1>9, <1>10 DEF SessionsPlaced, Queued
<1>12. \A q \in QueueName : s \notin Range(queue[q])
  BY <1>1, <1>3, QueuesAre DEF Queued, QueueName
<1>13. NotifiedIsReturned'
  BY <1>2, <1>5, <1>12 DEF NotifiedIsReturned, QueueName
<1>14. PhasesInOrder' /\ TableLives'
  BY <1>2 DEF PhasesInOrder, TableLives, DestroyedOnce
<1>15. InterestLives'
  <2>1. ASSUME NEW d \in Event, d \in held' \cup Range(events'[SessionOf[d]].registered)
        PROVE  d \in held \cup Range(events[SessionOf[d]].registered) \/ SessionOf[d] = s
    BY <2>1, <1>2, <1>5, <1>8, Ek3Assumption DEF Ek3Assumption
  <2>2. \A f \in Fd : interest[f] # NoEvent => interest[f] \in Event
    BY <1>1 DEF ReactorTypeOK, IOEvent
  <2> QED
    BY <2>1, <2>2, <1>2, <1>12 DEF InterestLives, QueueName
<1>16. TimersLive' /\ BatchLives'
  <2>1. \A d \in Event : Dispatchable(d) => Dispatchable(d)'
    BY <1>2, <1>3, <1>5, Ek3Assumption DEF Dispatchable, Queued, Ek3Assumption
  <2>2. timers \subseteq Event /\ batch = <<>>
    BY <1>1, <1>2, Ek3Assumption DEF ReactorTypeOK, Ek3Assumption, PhasesInOrder
  <2> QED
    BY <2>1, <2>2, <1>2, EmptyFacts DEF TimersLive, BatchLives
<1> QED
  BY <1>11, <1>13, <1>14, <1>15, <1>16

LEMMA DestroySessionKeeps ==
    ASSUME ReactorInv, NEW s \in Session, DestroySession(s)
    PROVE  ReactorInv'
<1> USE DEF ReactorInv
<1>1. /\ ReactorTypeOK /\ EventsPlaced
      /\ queue \in SessionQueues /\ events \in [Session -> SessionLists]
  BY ReactorTyped DEF SessionsPlaced
<1>2. /\ phase = "user" /\ s \in InHand /\ s \notin table
      /\ freed' = [freed EXCEPT ![s] = @ + 1]
      /\ events' = [events EXCEPT ![s] = NoEvents]
      /\ interest' = [f \in Fd |-> IF f \in Closed(s) \cup ClosedByUser(s) THEN NoEvent
                                  ELSE interest[f]]
      /\ ready' \subseteq ready
      /\ UNCHANGED <<queue, status, flagged, held, table, timers, elapsed, batch, phase>>
  BY DEF DestroySession
<1>3. /\ freed[s] = 0 /\ s \notin Queued /\ freed'[s] = 1
      /\ \A t \in Session : t # s => freed'[t] = freed[t] /\ events'[t] = events[t]
      /\ events'[s] = NoEvents
  BY <1>1, <1>2 DEF InHand, ReactorTypeOK
<1>4. NoEvents \in SessionLists /\ NoEvents.notified = <<>>
  BY DEF NoEvents, SessionLists, ListName
<1>5. ReactorTypeOK'
  <2>1. freed' \in [Session -> 0 .. 2]
    BY <1>1, <1>2, <1>3 DEF ReactorTypeOK
  <2>2. interest' \in [Fd -> IOEvent \cup {NoEvent}]
    BY <1>1, <1>2 DEF ReactorTypeOK
  <2> QED
    BY <2>1, <2>2, <1>1, <1>2, <1>4 DEF ReactorTypeOK, SessionLists
<1>6. SessionsPlaced'
  <2>1. EventsPlaced'
    BY <1>1, <1>2, <1>3 DEF EventsPlaced
  <2>2. \A t \in Queued' : freed'[t] = 0
    BY <1>1, <1>2, <1>3, QueuesAre DEF SessionsPlaced, Queued, QueueName
  <2> QED
    BY <2>1, <2>2, <1>2, <1>5 DEF SessionsPlaced
<1>7. \A q \in QueueName : s \notin Range(queue[q])
  BY <1>1, <1>3, QueuesAre DEF Queued, QueueName
<1>8. NotifiedIsReturned'
  BY <1>2, <1>3, <1>4, <1>7 DEF NotifiedIsReturned, QueueName
<1>9. PhasesInOrder'
  BY <1>2 DEF PhasesInOrder
<1>10. TableLives'
  <2>1. \A t \in table : freed'[t] = 0
    BY <1>1, <1>2, <1>3 DEF TableLives, ReactorTypeOK
  <2>2. DestroyedOnce => DestroyedOnce'
    BY <1>3 DEF DestroyedOnce
  <2> QED
    BY <2>1, <2>2, <1>2 DEF TableLives
<1>11. InterestLives'
  <2>1. ASSUME NEW f \in Fd, interest'[f] # NoEvent
        PROVE  /\ interest'[f] = interest[f] /\ interest[f] \in IOEvent
               /\ SessionOf[interest[f]] \in Session /\ SessionOf[interest[f]] # s
    <3>1. /\ interest'[f] = interest[f] /\ f \notin Closed(s) \cup ClosedByUser(s)
          /\ interest[f] \in IOEvent
      BY <2>1, <1>1, <1>2 DEF ReactorTypeOK
    <3>2. FdOf[interest[f]] = f
      BY <2>1, <3>1 DEF InterestLives
    <3> QED
      BY <3>1, <3>2, Ek3Assumption DEF Closed, ClosedByUser, IOEvent, Ek3Assumption
  <2> QED
    BY <2>1, <1>2, <1>3 DEF InterestLives, Queued
<1>12. TimersLive' /\ BatchLives'
  <2>1. \A d \in Event : Dispatchable(d) => Dispatchable(d)'
    BY <1>2, <1>3, Ek3Assumption DEF Dispatchable, Queued, Ek3Assumption
  <2>2. timers \subseteq Event /\ batch = <<>>
    BY <1>1, <1>2, Ek3Assumption DEF ReactorTypeOK, Ek3Assumption, PhasesInOrder
  <2> QED
    BY <2>1, <2>2, <1>2, EmptyFacts DEF TimersLive, BatchLives
<1> QED
  BY <1>6, <1>8, <1>9, <1>10, <1>11, <1>12

LEMMA TableKeeps ==
    ASSUME ReactorInv, NEW s \in Session, RegisterSession(s) \/ Detach(s)
    PROVE  ReactorInv'
<1> USE DEF ReactorInv
<1>1. /\ UNCHANGED <<queue, status, flagged, events, held, freed, interest, ready, timers,
                     elapsed, batch, phase>>
      /\ table' \subseteq table \cup {s} /\ (s \in table' => freed[s] = 0)
      /\ ~ UsesTable => table' \subseteq table
  BY DEF RegisterSession, Detach, sessionVars, pollVars, TableLives
<1>2. ReactorTypeOK'
  BY <1>1 DEF ReactorTypeOK, SessionsPlaced
<1>3. SessionsPlaced' /\ NotifiedIsReturned' /\ \A e : Dispatchable(e) => Dispatchable(e)'
  BY <1>1, <1>2, NothingMoves
<1>4. PhasesInOrder' /\ TableLives'
  BY <1>1 DEF PhasesInOrder, TableLives, DestroyedOnce
<1>5. InterestLives' /\ TimersLive' /\ BatchLives'
  BY <1>1, <1>3 DEF InterestLives, TimersLive, BatchLives, Queued
<1> QED
  BY <1>3, <1>4, <1>5

LEMMA DestroyReactorKeeps ==
    ASSUME ReactorInv, DestroyReactor
    PROVE  ReactorInv'
<1> USE DEF ReactorInv
<1>1. /\ ReactorTypeOK /\ EventsPlaced
      /\ queue \in SessionQueues /\ events \in [Session -> SessionLists]
      /\ freed \in [Session -> 0 .. 2]
  BY ReactorTyped DEF SessionsPlaced, ReactorTypeOK
<1>2. /\ phase = "user" /\ phase' = "closed"
      /\ freed' = [s \in Session |-> freed[s] + (IF s \in Queued THEN 1 ELSE 0)
                                              + (IF s \in table THEN 1 ELSE 0)]
      /\ queue' = [q \in QueueName |-> <<>>] /\ table' = {}
      /\ events' = [s \in Session |-> IF freed'[s] = 0 THEN events[s] ELSE NoEvents]
      /\ interest' = [f \in Fd |-> NoEvent] /\ timers' = {}
      /\ UNCHANGED <<status, flagged, held, ready, elapsed, batch>>
  BY DEF DestroyReactor
<1>3. \A s \in Session : s \in Queued \/ s \in table => freed[s] = 0
  BY DEF SessionsPlaced, TableLives
<1>4. \A s \in Session : /\ freed'[s] \in 0 .. 2
                         /\ freed'[s] = 0 => freed[s] = 0
                         /\ table = {} /\ freed[s] <= 1 => freed'[s] <= 1
  BY <1>1, <1>2, <1>3
<1>5. NoEvents \in SessionLists /\ NoEvents.notified = <<>>
  BY DEF NoEvents, SessionLists, ListName
<1>6. batch = <<>>
  BY <1>2 DEF PhasesInOrder
<1>7. /\ queue' \in SessionQueues /\ Apart(queue') /\ Queued' = {}
      /\ \A q \in QueueName : queue'[q] = <<>> /\ Range(queue'[q]) = {}
  BY <1>2, NothingLinked, EmptyFacts DEF Queued, SessionQueues
<1>8. ReactorTypeOK'
  <2>1. events' \in [Session -> SessionLists]
    BY <1>1, <1>2, <1>5
  <2>2. freed' \in [Session -> 0 .. 2]
    BY <1>2, <1>4
  <2> QED
    BY <2>1, <2>2, <1>1, <1>2, <1>7 DEF ReactorTypeOK, SessionQueues, SessionLists
<1>9. EventsPlaced'
  BY <1>1, <1>2, <1>4 DEF EventsPlaced
<1>10. SessionsPlaced' /\ NotifiedIsReturned'
  BY <1>7, <1>8, <1>9 DEF SessionsPlaced, NotifiedIsReturned, QueueName
<1>11. PhasesInOrder'
  BY <1>2, <1>6, <1>7 DEF PhasesInOrder, QueueName
<1>12. InterestLives' /\ TimersLive' /\ BatchLives'
  BY <1>2, <1>6, EmptyFacts DEF InterestLives, TimersLive, BatchLives
<1>13. TableLives'
  BY <1>2, <1>4 DEF TableLives, DestroyedOnce
<1> QED
  BY <1>10, <1>11, <1>12, <1>13

\* ek3_poll is called; it waits; time passes and descriptors become ready; it gives
\* up, or goes on for a timer's sake.
LEMMA PhaseKeeps ==
    ASSUME ReactorInv,
           \/ EnterPoll \/ Wait \/ EpollTimesOut \/ EpollFails
           \/ \E f \in Fd : BecomesReady(f)
           \/ \E t \in Timer : Elapse(t)
    PROVE  ReactorInv'
<1> USE DEF ReactorInv
<1>1. UNCHANGED <<queue, status, flagged, events, held, table, freed, interest, timers, batch>>
  BY DEF EnterPoll, Wait, EpollTimesOut, EpollFails, BecomesReady, Elapse, sessionVars,
         userVars, pollVars
<1>2. ReactorTypeOK'
  BY <1>1 DEF EnterPoll, Wait, EpollTimesOut, EpollFails, BecomesReady, Elapse, pollVars,
              ReactorTypeOK, SessionsPlaced
<1>3. SessionsPlaced' /\ NotifiedIsReturned' /\ \A e : Dispatchable(e) => Dispatchable(e)'
  BY <1>1, <1>2, NothingMoves
<1>4. \/ phase = "user" /\ phase' = "deploy" /\ GivenBack
      \/ /\ phase = "deploy" /\ phase' = "wait"
         /\ queue["committing"] = <<>> /\ queue["notified"] = <<>>
      \/ phase = "wait" /\ phase' = "dispatch" /\ timers # {}
      \/ phase = "wait" /\ phase' = "user"
      \/ phase' = phase
  BY DEF EnterPoll, Wait, EpollTimesOut, EpollFails, BecomesReady, Elapse
<1>5. PhasesInOrder'
  BY <1>1, <1>4 DEF PhasesInOrder
<1>6. InterestLives'
  <2>1. CASE phase' # "deploy"
    BY <2>1, <1>1, <1>4 DEF InterestLives, Queued
  <2>2. CASE phase' = "deploy" /\ phase = "user" /\ GivenBack
    <3>1. \A f \in Fd : interest[f] # NoEvent =>
             interest[f] \notin held /\ SessionOf[interest[f]] \in Queued
      <4> SUFFICES ASSUME NEW f \in Fd, interest[f] # NoEvent
                   PROVE  interest[f] \notin held /\ SessionOf[interest[f]] \in Queued
        OBVIOUS
      <4>1. interest[f] \notin held /\ SessionOf[interest[f]] \notin InHand
        BY <2>2 DEF GivenBack
      <4>2. interest[f] \in Event
        BY DEF SessionsPlaced, ReactorTypeOK, IOEvent
      <4>3. SessionOf[interest[f]] \in Session /\ freed[SessionOf[interest[f]]] = 0
        BY <4>2, Ek3Assumption DEF InterestLives, Ek3Assumption
      <4> QED
        BY <4>1, <4>3 DEF InHand
    <3> QED
      BY <3>1, <1>1 DEF InterestLives, Queued
  <2>3. CASE phase' = "deploy" /\ phase' = phase
    BY <2>3, <1>1 DEF InterestLives, Queued
  <2> QED
    BY <2>1, <2>2, <2>3, <1>4
<1>7. TimersLive'
  BY <1>1, <1>3, <1>4 DEF TimersLive
<1>8. BatchLives' /\ TableLives'
  BY <1>1, <1>3 DEF BatchLives, TableLives, DestroyedOnce
<1> QED
  BY <1>3, <1>5, <1>6, <1>7, <1>8

\* What epoll has been told to watch, for what reason.
LEMMA AddedFacts ==
    ASSUME ReactorTypeOK, NEW s \in Session, NEW f \in Fd
    PROVE  \/ Added(s)[f] = interest[f]
           \/ /\ Added(s)[f] \in IOEvent /\ FdOf[Added(s)[f]] = f
              /\ Added(s)[f] \in Range(events[s].registered)
<1> DEFINE S   == {e \in IOEvent : FdOf[e] = f}
           new == Only(events[s].registered, S)
<1>1. events[s].registered \in Seq(Event)
  BY ReactorTyped, ListsAre DEF ListName
<1>2. new \in Seq(Event) /\ Range(new) = Range(events[s].registered) \cap S
  BY <1>1, OnlyFacts
<1>3. Added(s)[f] = IF interest[f] = NoEvent /\ new # <<>> THEN Head(new) ELSE interest[f]
  BY DEF Added
<1> HIDE DEF new
<1>4. new # <<>> => Head(new) \in Range(new)
  BY <1>2, TailFacts
<1>5. CASE interest[f] = NoEvent /\ new # <<>>
  BY <1>2, <1>3, <1>4, <1>5
<1>6. CASE ~ (interest[f] = NoEvent /\ new # <<>>)
  BY <1>3, <1>6
<1> QED
  BY <1>5, <1>6

LEMMA DeployKeeps ==
    ASSUME ReactorInv, Deploy
    PROVE  ReactorInv'
<1> USE DEF ReactorInv
<1> DEFINE s == Head(queue["committing"])
           new == Range(events[s].registered) \cap Timer
<1>1. /\ ReactorTypeOK /\ EventsPlaced /\ Apart(queue)
      /\ queue \in SessionQueues /\ events \in [Session -> SessionLists]
  BY ReactorTyped DEF SessionsPlaced
<1>2. /\ phase = "deploy" /\ queue["committing"] # <<>>
      /\ queue' = [queue EXCEPT !["committing"] = Tail(@), !["deployed"] = Append(@, s)]
      /\ events' = [events EXCEPT ![s].registered = <<>>,
                                  ![s].deployed = @ \o events[s].registered]
      /\ interest' = Added(s)
      /\ timers' = timers \cup new /\ elapsed' \subseteq elapsed
      /\ UNCHANGED <<status, flagged, held, table, freed, ready, batch, phase>>
  BY DEF Deploy, DeployHead, DeployEvents, userVars
<1>3. /\ queue["committing"] \in Seq(Session) /\ queue["deployed"] \in Seq(Session)
      /\ s \in Session /\ Tail(queue["committing"]) \in Seq(Session)
  BY <1>1, <1>2, QueuesAre, TailFacts DEF QueueName
<1>4. /\ queue' \in SessionQueues
      /\ queue'["committing"] = Tail(queue["committing"])
      /\ queue'["deployed"] = Append(queue["deployed"], s)
      /\ queue'["notified"] = queue["notified"] /\ queue'["posted"] = queue["posted"]
      /\ Alike(queue, queue', {"committing", "deployed"})
  <2>1. DOMAIN queue = QueueName
    BY <1>1, QueuesAre
  <2>2. Append(queue["deployed"], s) \in Seq(Session)
    BY <1>3
  <2> QED
    BY <2>1, <2>2, <1>1, <1>2, <1>3 DEF Alike, SessionQueues, QueueName
<1>5. /\ s \in Range(queue["committing"]) /\ s \in Linked(queue)
      /\ Apart(queue') /\ Linked(queue') = Linked(queue)
      /\ Range(queue'["committing"]) = Range(queue["committing"]) \ {s}
      /\ Range(queue'["deployed"]) = Range(queue["deployed"]) \cup {s}
  <2>1. "committing" \in DOMAIN queue /\ "deployed" \in DOMAIN queue
    BY <1>1, QueuesAre DEF QueueName
  <2>2. queue["committing"] # <<>> /\ Apart(queue) /\ Alike(queue, queue', {"committing", "deployed"})
    BY <1>1, <1>2, <1>4
  <2>3. Shortened(queue["committing"], s, queue'["committing"])
    BY <1>2, <1>3, <1>4, TailShortens
  <2>4. Extended(queue["deployed"], s, queue'["deployed"])
    BY <1>3, <1>4, AppendExtends
  <2>5. "committing" # "deployed"
    OBVIOUS
  <2> HIDE DEF s
  <2>6. Shifted(queue, queue', "committing", "deployed", s)
    BY <2>1, <2>2, <2>3, <2>4, <2>5, ShiftApart, Zenon
  <2> QED
    BY <2>6 DEF Shifted
<1> HIDE DEF s
<1>6. freed[s] = 0 /\ status[s] = "committed"
  BY <1>5 DEF SessionsPlaced, Queued
<1>7. /\ events[s] \in SessionLists /\ Apart(events[s])
      /\ Linked(events[s]) = {d \in Event : SessionOf[d] = s} \ held
      /\ events[s].registered \in Seq(Event) /\ events[s].deployed \in Seq(Event)
  BY <1>1, <1>3, <1>6, EventsKnown, ListsAre DEF ListName
<1>8. /\ events' \in [Session -> SessionLists]
      /\ \A t \in Session : t # s => events'[t] = events[t]
      /\ events'[s].registered = <<>>
      /\ events'[s].deployed = events[s].deployed \o events[s].registered
      /\ events'[s].notified = events[s].notified
  <2> DEFINE all == events[s].deployed \o events[s].registered
             lists == [[events[s] EXCEPT !.registered = <<>>] EXCEPT !.deployed = all]
  <2>1. all \in Seq(Event) /\ <<>> \in Seq(Event)
    BY <1>7
  <2>2. events' = [events EXCEPT ![s] = lists]
    BY <1>1, <1>2, <1>3, <1>7 DEF SessionLists, ListName
  <2> HIDE DEF all
  <2>3. /\ lists \in SessionLists /\ lists.registered = <<>> /\ lists.deployed = all
        /\ lists.notified = events[s].notified
    BY <2>1, <1>7 DEF SessionLists, ListName
  <2> HIDE DEF lists
  <2> QED
    BY <2>2, <2>3, <1>1, <1>3 DEF all
<1>9. /\ Apart(events'[s]) /\ Linked(events'[s]) = Linked(events[s])
      /\ Range(events'[s].registered) = {}
      /\ Range(events'[s].deployed) = Range(events[s].deployed)
                                      \cup Range(events[s].registered)
  <2>1. events'[s] \in SessionLists
    BY <1>3, <1>8
  <2>2. DOMAIN events[s] = ListName /\ DOMAIN events'[s] = ListName
    BY <2>1, <1>7, ListsAre
  <2>3. /\ Alike(events[s], events'[s], {"registered", "deployed"})
        /\ "registered" \in DOMAIN events[s] /\ "deployed" \in DOMAIN events[s]
    BY <2>2, <1>8 DEF Alike, ListName
  <2>4. Apart(events[s])
    BY <1>7
  <2>5. /\ events'[s].registered = <<>>
        /\ Joined(events[s].deployed, events[s].registered, events'[s].deployed)
    BY <1>7, <1>8, ConcatJoins
  <2>6. "registered" # "deployed"
    OBVIOUS
  <2>7. Spliced(events[s], events'[s], "registered", "deployed")
    BY <2>3, <2>4, <2>5, <2>6, SpliceApart, Zenon
  <2> QED
    BY <2>7 DEF Spliced
<1>10. ReactorTypeOK'
  <2>1. interest' \in [Fd -> IOEvent \cup {NoEvent}]
    <3>1. \A f \in Fd : interest'[f] \in IOEvent \cup {NoEvent}
      BY <1>1, <1>2, <1>3, AddedFacts DEF ReactorTypeOK
    <3>2. interest' = [f \in Fd |-> interest'[f]]
      BY <1>2 DEF Added
    <3> QED
      BY <3>1, <3>2
  <2> QED
    BY <2>1, <1>1, <1>2, <1>4, <1>8 DEF ReactorTypeOK, SessionQueues, SessionLists
<1>11. EventsPlaced'
  <2>1. ASSUME NEW t \in Session, freed'[t] = 0
        PROVE  Apart(events'[t]) /\ Linked(events'[t]) = {d \in Event : SessionOf[d] = t} \ held'
    <3>1. CASE t = s
      BY <3>1, <1>2, <1>7, <1>9
    <3>2. CASE t # s
      BY <3>2, <2>1, <1>1, <1>2, <1>8 DEF EventsPlaced
    <3> QED
      BY <3>1, <3>2
  <2> QED
    BY <2>1 DEF EventsPlaced
<1>12. SessionsPlaced'
  BY <1>2, <1>4, <1>5, <1>6, <1>10, <1>11 DEF SessionsPlaced, Queued
<1>13. NotifiedIsReturned'
  <2>1. \A t \in Session : events'[t].notified = events[t].notified
    BY <1>8
  <2>2. \A t \in Range(queue'["committing"]) \cup Range(queue'["deployed"]) :
           t \in Range(queue["committing"]) \cup Range(queue["deployed"])
    BY <1>5
  <2> QED
    BY <2>1, <2>2, <1>4 DEF NotifiedIsReturned
<1>14. PhasesInOrder'
  BY <1>2, <1>4 DEF PhasesInOrder
<1>15. s \notin Range(queue["deployed"])
  BY <1>1, <1>5, QueuesAre DEF QueueName
<1>16. InterestLives'
  <2> SUFFICES ASSUME NEW f \in Fd, interest'[f] # NoEvent
               PROVE  LET e == interest'[f]
                          t == SessionOf[e]
                      IN  /\ FdOf[e] = f /\ freed'[t] = 0
                          /\ e \notin held' /\ t \in Queued'
                          /\ e \notin Range(events'[t].registered)
                             \/ t \notin Range(queue'["deployed"]) \cup Range(queue'["notified"])
                                            \cup Range(queue'["posted"])
    BY DEF InterestLives
  <2> DEFINE e == interest'[f]
             t == SessionOf[e]
  <2>1. e \in Event /\ t \in Session
    BY <1>10, Ek3Assumption DEF ReactorTypeOK, IOEvent, Ek3Assumption
  <2>2. CASE e = interest[f]
    <3>1. /\ FdOf[e] = f /\ freed[t] = 0 /\ e \notin held /\ t \in Queued
          /\ e \in Range(events[t].registered) =>
                t \notin Range(queue["deployed"]) \cup Range(queue["notified"])
                           \cup Range(queue["posted"])
      BY <2>2, <1>2 DEF InterestLives
    <3>2. CASE t = s
      BY <3>1, <3>2, <1>2, <1>5, <1>9 DEF Queued
    <3>3. CASE t # s
      BY <3>1, <3>3, <2>1, <1>2, <1>4, <1>5, <1>8 DEF Queued
    <3> QED
      BY <3>2, <3>3
  <2>3. CASE FdOf[e] = f /\ e \in Range(events[s].registered)
    <3>1. e \in Linked(events[s])
      BY <2>3, <1>7, ListsAre
    <3>2. t = s /\ e \notin held
      BY <3>1, <1>7
    <3>3. e \notin Range(events'[t].registered)
      BY <3>2, <1>9
    <3>4. t \in Queued' /\ freed'[t] = 0 /\ e \notin held'
      BY <3>2, <1>2, <1>5, <1>6 DEF Queued
    <3> QED
      BY <3>3, <3>4, <2>3
  <2> QED
    BY <2>2, <2>3, <1>1, <1>2, <1>3, AddedFacts
<1>17. TimersLive'
  <2> SUFFICES ASSUME NEW t \in timers'
               PROVE  /\ SessionOf[t] \in Range(queue'["deployed"]) /\ SessionOf[t] \in Queued'
                      /\ t \in Range(events'[SessionOf[t]].deployed)
                               \cup Range(events'[SessionOf[t]].notified)
    BY DEF TimersLive, Dispatchable
  <2>1. CASE t \in timers
    <3>1. SessionOf[t] \in Range(queue["deployed"]) /\ Dispatchable(t)
      BY <2>1, <1>2 DEF TimersLive
    <3>2. SessionOf[t] \in Session /\ SessionOf[t] # s
      BY <3>1, <1>1, <1>15, QueuesAre DEF QueueName
    <3> QED
      BY <3>1, <3>2, <1>5, <1>8 DEF Dispatchable, Queued
  <2>2. CASE t \in new
    <3>1. t \in Linked(events[s]) /\ t \in Range(events[s].registered)
      BY <2>2, <1>7, ListsAre
    <3>2. SessionOf[t] = s
      BY <3>1, <1>7
    <3> QED
      BY <3>1, <3>2, <1>5, <1>9 DEF Queued
  <2> QED
    BY <2>1, <2>2, <1>2
<1>18. BatchLives' /\ TableLives'
  <2>1. batch = <<>>
    BY <1>2 DEF PhasesInOrder
  <2> QED
    BY <2>1, <1>2, EmptyFacts DEF BatchLives, TableLives, DestroyedOnce
<1> QED
  BY <1>12, <1>13, <1>14, <1>16, <1>17, <1>18

\* ek3_poll_local_ has a session to return: its head is never unlinked.
LEMMA ReturnKeeps ==
    ASSUME ReactorInv, ReturnEarly \/ ReturnFirst
    PROVE  ReactorInv'
<1> USE DEF ReactorInv
<1> DEFINE s == Head(queue["notified"])
<1>1. /\ ReactorTypeOK /\ EventsPlaced /\ Apart(queue) /\ queue \in SessionQueues
  BY ReactorTyped DEF SessionsPlaced
<1>2. /\ UNCHANGED <<status, flagged, events, held, table, freed, interest, ready, timers,
                     elapsed, batch>>
      /\ ReturnSession /\ batch = <<>> /\ queue["posted"] = <<>>
      /\ queue["notified"] # <<>>
      /\ timers = {} \/ phase # "dispatch"
  BY DEF ReturnEarly, ReturnFirst, PhasesInOrder, userVars, pollVars
<1>3. phase' = "user" /\ queue' = [queue EXCEPT !["notified"] = Tail(@)]
  BY <1>2 DEF ReturnSession
<1>4. queue["notified"] \in Seq(Session) /\ Tail(queue["notified"]) \in Seq(Session)
  BY <1>1, <1>2, QueuesAre, TailFacts DEF QueueName
<1>5. /\ queue' \in SessionQueues
      /\ queue'["notified"] = Tail(queue["notified"])
      /\ queue'["committing"] = queue["committing"]
      /\ queue'["deployed"] = queue["deployed"] /\ queue'["posted"] = queue["posted"]
      /\ Alike(queue, queue', {"notified"}) /\ "notified" \in DOMAIN queue
  <2>1. DOMAIN queue = QueueName
    BY <1>1, QueuesAre
  <2> QED
    BY <2>1, <1>1, <1>3, <1>4 DEF Alike, SessionQueues, QueueName
<1>6. Popped(queue, queue', "notified", s)
  <2>1. Shortened(queue["notified"], s, queue'["notified"])
    BY <1>2, <1>4, <1>5, TailShortens
  <2> HIDE DEF s
  <2> QED
    BY <2>1, <1>1, <1>5, PopApart, Zenon
<1> HIDE DEF s
<1>7. /\ Apart(queue') /\ Queued' = Queued \ {s}
      /\ Range(queue'["notified"]) = Range(queue["notified"]) \ {s}
  BY <1>6 DEF Popped, Queued
<1>8. ReactorTypeOK'
  BY <1>1, <1>2, <1>3, <1>5 DEF ReactorTypeOK, SessionQueues
<1>9. EventsPlaced'
  BY <1>1, <1>2 DEF EventsPlaced
<1>10. SessionsPlaced'
  BY <1>2, <1>5, <1>7, <1>8, <1>9 DEF SessionsPlaced
<1>11. NotifiedIsReturned'
  BY <1>2, <1>5, <1>7 DEF NotifiedIsReturned
<1>12. PhasesInOrder' /\ TableLives'
  BY <1>2, <1>3, <1>5 DEF PhasesInOrder, TableLives, DestroyedOnce
<1>13. InterestLives'
  BY <1>2, <1>3, <1>5, <1>7 DEF InterestLives
<1>14. TimersLive'
  <2>1. ASSUME NEW t \in timers
        PROVE  SessionOf[t] \in Range(queue'["deployed"]) /\ SessionOf[t] \in Queued'
    <3>1. SessionOf[t] \in Range(queue'["deployed"])
      BY <1>2, <1>5 DEF TimersLive
    <3> QED
      BY <3>1, <1>5, QueuesAre DEF Queued
  <2> QED
    BY <2>1, <1>2 DEF TimersLive, Dispatchable
<1>15. BatchLives'
  BY <1>2, EmptyFacts DEF BatchLives
<1> QED
  BY <1>10, <1>11, <1>12, <1>13, <1>14, <1>15

\* While ek3_poll waits, everything that was committed is deployed.
LEMMA WatchedLives ==
    ASSUME ReactorInv, phase = "wait", NEW f \in Fd, interest[f] # NoEvent
    PROVE  interest[f] \in IOEvent /\ Dispatchable(interest[f])
<1> USE DEF ReactorInv
<1> DEFINE e == interest[f]
           s == SessionOf[e]
<1>1. ReactorTypeOK /\ EventsPlaced /\ queue \in SessionQueues /\ e \in IOEvent
  BY ReactorTyped DEF SessionsPlaced, ReactorTypeOK
<1>2. e \in Event /\ s \in Session /\ s \in Queued /\ freed[s] = 0 /\ e \notin held
  BY <1>1, Ek3Assumption DEF InterestLives, IOEvent, Ek3Assumption
<1>3. s \in Range(queue["deployed"])
  BY <1>1, <1>2, QueuesAre, EmptyFacts DEF PhasesInOrder, Queued
<1>4. e \notin Range(events[s].registered)
  BY <1>3 DEF InterestLives
<1>5. events[s] \in SessionLists /\ e \in Linked(events[s])
  BY <1>1, <1>2, EventsKnown
<1> QED
  BY <1>1, <1>2, <1>4, <1>5, ListsAre DEF Dispatchable

LEMMA EpollReturnsKeeps ==
    ASSUME ReactorInv, EpollReturns
    PROVE  ReactorInv'
<1> USE DEF ReactorInv
<1>1. /\ phase = "wait" /\ phase' = "dispatch"
      /\ UNCHANGED <<queue, status, flagged, events, held, table, freed, interest, ready,
                     timers, elapsed>>
  BY DEF EpollReturns, sessionVars, userVars
<1>2. PICK S \in SUBSET Reportable : /\ S = Reportable \/ Cardinality(S) = Capacity
                                     /\ batch' \in Orders(S)
  BY DEF EpollReturns
<1>3. Reportable # {} /\ Reportable \subseteq IOEvent
      /\ \A e \in Reportable : Dispatchable(e)
  BY <1>1, WatchedLives DEF EpollReturns, Reportable, SessionsPlaced, ReactorTypeOK
<1>4. IsFiniteSet(S) /\ S # {}
  <2>1. S \subseteq Event /\ Capacity # 0
    BY <1>3, Ek3Assumption DEF IOEvent, Ek3Assumption
  <2>2. IsFiniteSet(S)
    BY <2>1, Ek3Assumption, FS_Subset DEF Ek3Assumption
  <2> QED
    BY <2>1, <2>2, <1>2, <1>3, FS_EmptySet
<1>5. batch' \in Seq(IOEvent) /\ Range(batch') = S
  BY <1>2, <1>3, <1>4, OrdersFacts
<1>6. batch' # <<>>
  BY <1>4, <1>5, EmptyFacts
<1>7. ReactorTypeOK'
  BY <1>1, <1>5 DEF SessionsPlaced, ReactorTypeOK
<1>8. SessionsPlaced' /\ NotifiedIsReturned' /\ \A e : Dispatchable(e) => Dispatchable(e)'
  BY <1>1, <1>7, NothingMoves
<1>9. PhasesInOrder'
  BY <1>1, <1>6 DEF PhasesInOrder
<1>10. InterestLives'
  BY <1>1 DEF InterestLives, Queued
<1>11. TimersLive' /\ BatchLives' /\ TableLives'
  BY <1>1, <1>2, <1>3, <1>5, <1>8 DEF TimersLive, BatchLives, TableLives, DestroyedOnce
<1> QED
  BY <1>8, <1>9, <1>10, <1>11

\* ek3_dispatch_event, in the round of ek3_poll.
DispatchStep(e) ==
    /\ phase = "dispatch" /\ Dispatch(e)
    /\ batch' \in Seq(IOEvent) /\ Range(batch') \subseteq Range(batch)
    /\ UNCHANGED <<held, table, freed, interest, ready, timers, elapsed, phase>>

\* Nothing is being committed, so that a session is either deployed or moved already.
LEMMA DispatchMoves ==
    ASSUME ReactorInv, NEW e \in Event, Dispatchable(e), DispatchStep(e)
    PROVE  LET s == SessionOf[e] IN
           /\ queue' \in SessionQueues /\ Apart(queue') /\ Linked(queue') = Linked(queue)
           /\ queue'["committing"] = <<>> /\ Range(queue'["committing"]) = {}
           /\ s \in Range(queue'["notified"]) \cup Range(queue'["posted"])
           /\ s \notin Range(queue'["deployed"])
           /\ \A t \in Session : t # s => \A q \in QueueName :
                 t \in Range(queue'[q]) => t \in Range(queue[q])
           /\ \A t \in Session : t \in Range(queue'["deployed"]) => t \in Range(queue["deployed"])
<1> USE DEF ReactorInv
<1> DEFINE s == SessionOf[e]
<1>1. /\ Apart(queue) /\ queue \in SessionQueues /\ s \in Session
      /\ queue["committing"] = <<>> /\ Range(queue["committing"]) = {} /\ s \in Linked(queue)
  BY ReactorTyped, EmptyFacts, Ek3Assumption
     DEF SessionsPlaced, Ek3Assumption, PhasesInOrder, DispatchStep, Dispatchable, Queued
<1>2. CASE status[s] = "activated"
  <2>1. queue' = queue
    BY <1>2 DEF DispatchStep, Dispatch
  <2>2. s \notin Range(queue["deployed"])
    BY <1>2 DEF SessionsPlaced
  <2>3. s \in Range(queue["notified"]) \cup Range(queue["posted"])
    BY <1>1, <2>2, QueuesAre
  <2> QED
    BY <1>1, <2>1, <2>2, <2>3
<1>3. CASE status[s] # "activated"
  <2>1. PICK q \in {"posted", "notified"} : queue' = Relinked(queue, s, q)
    BY <1>3 DEF DispatchStep, Dispatch, MoveTo
  <2>2. q \in DOMAIN queue /\ ListsOf(queue, Session) /\ DOMAIN queue = QueueName
    BY <1>1, QueuesAre DEF QueueName, ListsOf
  <2> HIDE DEF s
  <2>3. ListsOf(queue', Session) /\ Moved(queue, queue', s, q)
    <3>1. ListsOf(Relinked(queue, s, q), Session) /\ Moved(queue, Relinked(queue, s, q), s, q)
      BY <1>1, <2>2, RelinkApart, Zenon
    <3> QED
      BY <3>1, <2>1
  <2>4. /\ Apart(queue') /\ Linked(queue') = Linked(queue)
        /\ Range(queue'[q]) = Range(queue[q]) \cup {s}
        /\ \A r \in QueueName : r # q => Range(queue'[r]) = Range(queue[r]) \ {s}
        /\ DOMAIN queue' = QueueName
    BY <2>2, <2>3, <1>1 DEF Moved
  <2>5. queue' \in SessionQueues
    <3>1. \A r \in QueueName : queue'[r] \in Seq(Session)
      BY <2>3, <2>4 DEF ListsOf
    <3>2. queue' = [r \in QueueName |-> queue'[r]]
      BY <2>1, <2>2, <2>4 DEF Relinked
    <3> QED
      BY <3>1, <3>2 DEF SessionQueues
  <2>6. Range(queue'["committing"]) = {} /\ queue'["committing"] = <<>>
    <3>1. Range(queue'["committing"]) = {}
      BY <2>1, <2>4, <1>1 DEF QueueName
    <3> QED
      BY <3>1, <2>5, QueuesAre DEF QueueName
  <2>7. /\ s \in Range(queue'["notified"]) \cup Range(queue'["posted"])
        /\ Range(queue'["deployed"]) = Range(queue["deployed"]) \ {s}
    BY <2>1, <2>4 DEF QueueName
  <2>8. \A t \in Session : t # s => \A r \in QueueName :
           t \in Range(queue'[r]) => t \in Range(queue[r])
    BY <2>4
  <2> QED
    BY <2>4, <2>5, <2>6, <2>7, <2>8 DEF s
<1> QED
  BY <1>2, <1>3

LEMMA DispatchLinks ==
    ASSUME ReactorInv, NEW e \in Event, Dispatchable(e), DispatchStep(e)
    PROVE  LET s == SessionOf[e] IN
           /\ events' \in [Session -> SessionLists]
           /\ \A t \in Session : t # s => events'[t] = events[t]
           /\ Apart(events'[s]) /\ Linked(events'[s]) = Linked(events[s])
           /\ e \in Range(events'[s].notified) /\ events'[s].notified # <<>>
           /\ \A d \in Event : d # e =>
                 /\ d \in Range(events'[s].registered) <=> d \in Range(events[s].registered)
                 /\ d \in Range(events'[s].deployed) <=> d \in Range(events[s].deployed)
                 /\ d \in Range(events'[s].notified) <=> d \in Range(events[s].notified)
           /\ e \notin Range(events'[s].registered)
<1> USE DEF ReactorInv
<1> DEFINE s == SessionOf[e]
           lists == events[s]
           after == Relinked(lists, e, "notified")
<1>1. /\ ReactorTypeOK /\ EventsPlaced /\ s \in Session /\ s \in Queued /\ freed[s] = 0
      /\ events \in [Session -> SessionLists]
      /\ e \in Range(lists.deployed) \cup Range(lists.notified)
  BY ReactorTyped, Ek3Assumption DEF SessionsPlaced, Ek3Assumption, Dispatchable
<1>2. lists \in SessionLists /\ Apart(lists) /\ e \in Linked(lists)
  BY <1>1, EventsKnown, ListsAre
<1>3. events' = [events EXCEPT ![s] = after]
  BY DEF DispatchStep, Dispatch, Notify
<1> HIDE DEF s, lists
<1>4. DOMAIN lists = ListName /\ "notified" \in DOMAIN lists /\ ListsOf(lists, Event)
  BY <1>2, ListsAre DEF ListName, ListsOf
<1>5. ListsOf(after, Event) /\ Moved(lists, after, e, "notified")
  BY <1>2, <1>4, RelinkApart, Zenon
<1>6. after \in SessionLists
  <2>1. after = [l \in ListName |-> after[l]] /\ DOMAIN after = ListName
    BY <1>4, <1>5 DEF Relinked, Moved
  <2>2. \A l \in ListName : after[l] \in Seq(Event)
    BY <1>5, <2>1 DEF ListsOf
  <2> HIDE DEF after
  <2> QED
    BY <2>1, <2>2 DEF SessionLists
<1> HIDE DEF after
<1>7. /\ Apart(after) /\ Linked(after) = Linked(lists)
      /\ Range(after["notified"]) = Range(lists["notified"]) \cup {e}
      /\ after["notified"] # <<>>
      /\ Range(after["registered"]) = Range(lists["registered"]) \ {e}
      /\ Range(after["deployed"]) = Range(lists["deployed"]) \ {e}
  BY <1>2, <1>4, <1>5 DEF Moved, ListName
<1>8. /\ events' \in [Session -> SessionLists] /\ events'[s] = after
      /\ \A t \in Session : t # s => events'[t] = events[t]
  BY <1>1, <1>3, <1>6
<1> QED
  BY <1>7, <1>8 DEF s, lists

LEMMA DispatchKeeps ==
    ASSUME ReactorInv, NEW e \in Event, Dispatchable(e), DispatchStep(e)
    PROVE  ReactorInv'
<1> USE DEF ReactorInv
<1> DEFINE s == SessionOf[e]
<1>1. /\ ReactorTypeOK /\ EventsPlaced /\ s \in Session /\ queue \in SessionQueues
      /\ \A t \in Session : freed[t] = 0 <=> freed'[t] = 0
  BY ReactorTyped, Ek3Assumption DEF SessionsPlaced, Ek3Assumption, DispatchStep
<1>2. /\ phase = "dispatch" /\ phase' = "dispatch"
      /\ batch' \in Seq(IOEvent) /\ Range(batch') \subseteq Range(batch)
      /\ UNCHANGED <<held, table, freed, interest, ready, timers, elapsed>>
      /\ status' = [status EXCEPT ![s] = "activated"]
      /\ flagged' \subseteq flagged \cup {s}
  BY DEF DispatchStep, Dispatch
<1>3. /\ queue' \in SessionQueues /\ Apart(queue') /\ Linked(queue') = Linked(queue)
      /\ queue'["committing"] = <<>> /\ Range(queue'["committing"]) = {}
      /\ s \in Range(queue'["notified"]) \cup Range(queue'["posted"])
      /\ s \notin Range(queue'["deployed"])
      /\ \A t \in Session : t # s => \A q \in QueueName :
            t \in Range(queue'[q]) => t \in Range(queue[q])
      /\ \A t \in Session : t \in Range(queue'["deployed"]) => t \in Range(queue["deployed"])
  BY DispatchMoves
<1>4. /\ events' \in [Session -> SessionLists]
      /\ \A t \in Session : t # s => events'[t] = events[t]
      /\ Apart(events'[s]) /\ Linked(events'[s]) = Linked(events[s])
      /\ e \in Range(events'[s].notified) /\ events'[s].notified # <<>>
  BY DispatchLinks
<1>5. /\ \A d \in Event : d # e =>
            /\ d \in Range(events'[s].registered) <=> d \in Range(events[s].registered)
            /\ d \in Range(events'[s].deployed) <=> d \in Range(events[s].deployed)
            /\ d \in Range(events'[s].notified) <=> d \in Range(events[s].notified)
      /\ e \notin Range(events'[s].registered)
  BY DispatchLinks
<1>6. SessionOf[e] = s
  OBVIOUS
<1> HIDE DEF s
<1>7. ReactorTypeOK'
  BY <1>1, <1>2, <1>3, <1>4 DEF ReactorTypeOK, SessionQueues, SessionLists
<1>8. EventsPlaced'
  <2> SUFFICES ASSUME NEW t \in Session, freed'[t] = 0
               PROVE  Apart(events'[t])
                      /\ Linked(events'[t]) = {d \in Event : SessionOf[d] = t} \ held
    BY <1>2 DEF EventsPlaced
  <2>1. Apart(events[t]) /\ Linked(events[t]) = {d \in Event : SessionOf[d] = t} \ held
    BY <1>1, <1>2 DEF EventsPlaced
  <2> QED
    BY <2>1, <1>4
<1>9. /\ status'[s] = "activated" /\ \A t \in Session : t # s => status'[t] = status[t]
      /\ Range(queue'["notified"]) \subseteq Session /\ Range(queue'["posted"]) \subseteq Session
      /\ Range(queue'["deployed"]) \subseteq Session
  BY <1>1, <1>2, <1>3, QueuesAre DEF ReactorTypeOK, QueueName
<1>10. SessionsPlaced'
  <2>1. \A t \in Queued' : freed'[t] = 0
    BY <1>2, <1>3 DEF SessionsPlaced, Queued
  <2>2. \A t \in Range(queue'["committing"]) \cup Range(queue'["deployed"]) :
           status'[t] = "committed"
    BY <1>3, <1>9 DEF SessionsPlaced
  <2>3. \A t \in Range(queue'["notified"]) \cup Range(queue'["posted"]) :
           status'[t] # "committed"
    BY <1>3, <1>9 DEF SessionsPlaced, QueueName
  <2> QED
    BY <2>1, <2>2, <2>3, <1>3, <1>7, <1>8 DEF SessionsPlaced
<1>11. NotifiedIsReturned'
  <2> SUFFICES ASSUME NEW t \in Session
               PROVE  /\ t \in Range(queue'["notified"]) \cup Range(queue'["posted"]) =>
                            events'[t].notified # <<>>
                      /\ TakesAll /\ events'[t].notified # <<>> =>
                            t \notin Range(queue'["committing"]) \cup Range(queue'["deployed"])
    BY DEF NotifiedIsReturned
  <2>1. CASE t = s
    BY <2>1, <1>3, <1>4
  <2>2. CASE t # s
    BY <2>2, <1>3, <1>4 DEF NotifiedIsReturned, QueueName
  <2> QED
    BY <2>1, <2>2
<1>12. PhasesInOrder'
  BY <1>2, <1>3, EmptyFacts DEF PhasesInOrder
<1>13. \A d \in Event : Dispatchable(d) => Dispatchable(d)'
  <2> SUFFICES ASSUME NEW d \in Event, Dispatchable(d)
               PROVE  /\ SessionOf[d] \in Linked(queue')
                      /\ d \in Range(events'[SessionOf[d]].deployed)
                               \cup Range(events'[SessionOf[d]].notified)
    BY DEF Dispatchable, Queued
  <2>1. SessionOf[d] \in Session /\ SessionOf[d] \in Linked(queue')
    BY <1>3, Ek3Assumption DEF Dispatchable, Queued, Ek3Assumption
  <2>2. CASE d = e
    BY <2>1, <2>2, <1>4, <1>6
  <2>3. CASE d # e /\ SessionOf[d] = s
    BY <2>1, <2>3, <1>5 DEF Dispatchable
  <2>4. CASE SessionOf[d] # s
    BY <2>1, <2>4, <1>4 DEF Dispatchable
  <2> QED
    BY <2>1, <2>2, <2>3, <2>4
<1>14. InterestLives'
  <2> SUFFICES ASSUME NEW f \in Fd, interest[f] # NoEvent
               PROVE  LET d == interest[f]
                          t == SessionOf[d]
                      IN  /\ FdOf[d] = f /\ freed[t] = 0
                          /\ d \notin held /\ t \in Linked(queue')
                          /\ d \notin Range(events'[t].registered)
    BY <1>2 DEF InterestLives, Queued
  <2> DEFINE d == interest[f]
             t == SessionOf[d]
  <2>1. /\ FdOf[d] = f /\ freed[t] = 0 /\ d \notin held /\ t \in Linked(queue)
        /\ d \in Range(events[t].registered) =>
              t \notin Range(queue["deployed"]) \cup Range(queue["notified"])
                         \cup Range(queue["posted"])
    BY <1>2 DEF InterestLives, Queued
  <2>2. d \in Event /\ t \in Session
    BY <1>1, Ek3Assumption DEF ReactorTypeOK, IOEvent, Ek3Assumption
  <2>3. d \notin Range(events[t].registered)
    <3>1. Range(queue["committing"]) = {}
      BY <1>2, EmptyFacts DEF PhasesInOrder
    <3> QED
      BY <3>1, <2>1, <1>1, QueuesAre
  <2>4. d \notin Range(events'[t].registered)
    <3>1. CASE t # s
      BY <3>1, <2>2, <2>3, <1>4
    <3>2. CASE t = s
      BY <3>2, <2>2, <2>3, <1>5
    <3> QED
      BY <3>1, <3>2
  <2> QED
    BY <2>1, <2>4, <1>3
<1>15. TimersLive' /\ BatchLives'
  <2>1. timers \subseteq Event /\ Range(batch) \subseteq Event
    BY <1>1, Ek3Assumption DEF ReactorTypeOK, IOEvent, Range, Ek3Assumption
  <2> QED
    BY <2>1, <1>2, <1>13 DEF TimersLive, BatchLives
<1>16. TableLives'
  BY <1>2 DEF TableLives, DestroyedOnce
<1> QED
  BY <1>10, <1>11, <1>12, <1>14, <1>15, <1>16

LEMMA DispatchesKeep ==
    ASSUME ReactorInv, DispatchTimer \/ DispatchEvent
    PROVE  ReactorInv'
<1> USE DEF ReactorInv
<1>1. CASE DispatchTimer
  <2>1. PICK t \in timers : Dispatch(t)
    BY <1>1 DEF DispatchTimer
  <2>2. t \in Event /\ batch \in Seq(IOEvent)
    BY Ek3Assumption DEF SessionsPlaced, ReactorTypeOK, Ek3Assumption
  <2>3. DispatchStep(t)
    BY <2>1, <2>2, <1>1 DEF DispatchTimer, DispatchStep, userVars, pollVars
  <2> QED
    BY <2>2, <2>3, DispatchKeeps DEF TimersLive
<1>2. CASE DispatchEvent
  <2> DEFINE e == Head(batch)
  <2>1. /\ batch \in Seq(IOEvent) /\ batch # <<>> /\ batch' = Tail(batch)
        /\ e \in IOEvent /\ e \in Range(batch)
    BY <1>2, TailFacts DEF SessionsPlaced, ReactorTypeOK, DispatchEvent
  <2>2. batch' \in Seq(IOEvent) /\ Range(batch') \subseteq Range(batch)
    BY <2>1, TailFacts
  <2>3. DispatchStep(e)
    BY <2>2, <1>2 DEF DispatchEvent, DispatchStep, userVars
  <2>4. e \in Event /\ Dispatchable(e)
    BY <2>1 DEF BatchLives, IOEvent
  <2> HIDE DEF e
  <2> QED
    BY <2>3, <2>4, DispatchKeeps
<1> QED
  BY <1>1, <1>2

LEMMA FlushKeeps ==
    ASSUME ReactorInv, FlushPosted
    PROVE  ReactorInv'
<1> USE DEF ReactorInv
<1> DEFINE s == Head(queue["posted"])
<1>1. /\ ReactorTypeOK /\ EventsPlaced /\ Apart(queue) /\ queue \in SessionQueues
  BY ReactorTyped DEF SessionsPlaced
<1>2. /\ phase = "dispatch" /\ timers = {} /\ batch = <<>> /\ queue["posted"] # <<>>
      /\ queue' = [queue EXCEPT !["posted"] = Tail(@), !["notified"] = Append(@, s)]
      /\ status' = [status EXCEPT ![s] = "none"]
      /\ flagged' \subseteq flagged
      /\ UNCHANGED <<events, held, table, freed, interest, ready, timers, elapsed, batch,
                     phase>>
  BY DEF FlushPosted, Flush, userVars, pollVars
<1>3. /\ queue["posted"] \in Seq(Session) /\ queue["notified"] \in Seq(Session)
      /\ s \in Session /\ Tail(queue["posted"]) \in Seq(Session)
      /\ DOMAIN queue = QueueName
  BY <1>1, <1>2, QueuesAre, TailFacts DEF QueueName
<1>4. /\ queue' \in SessionQueues
      /\ queue'["posted"] = Tail(queue["posted"])
      /\ queue'["notified"] = Append(queue["notified"], s)
      /\ queue'["committing"] = queue["committing"] /\ queue'["deployed"] = queue["deployed"]
      /\ Alike(queue, queue', {"posted", "notified"})
  <2>1. Append(queue["notified"], s) \in Seq(Session)
    BY <1>3
  <2> QED
    BY <2>1, <1>1, <1>2, <1>3 DEF Alike, SessionQueues, QueueName
<1>5. Shifted(queue, queue', "posted", "notified", s)
  <2>1. "posted" \in DOMAIN queue /\ "notified" \in DOMAIN queue /\ "posted" # "notified"
    BY <1>3 DEF QueueName
  <2>2. Shortened(queue["posted"], s, queue'["posted"])
    BY <1>2, <1>3, <1>4, TailShortens
  <2>3. Extended(queue["notified"], s, queue'["notified"])
    BY <1>3, <1>4, AppendExtends
  <2>4. Apart(queue) /\ Alike(queue, queue', {"posted", "notified"})
    BY <1>1, <1>4
  <2> HIDE DEF s
  <2> QED
    BY <2>1, <2>2, <2>3, <2>4, ShiftApart, Zenon
<1> HIDE DEF s
<1>6. /\ Apart(queue') /\ Queued' = Queued /\ s \in Range(queue["posted"])
      /\ Range(queue'["posted"]) = Range(queue["posted"]) \ {s}
      /\ Range(queue'["notified"]) = Range(queue["notified"]) \cup {s}
      /\ queue'["notified"] # <<>>
  BY <1>5 DEF Shifted, Queued
<1>7. ReactorTypeOK'
  BY <1>1, <1>2, <1>3, <1>4 DEF ReactorTypeOK, SessionQueues
<1>8. /\ status'[s] = "none" /\ \A t \in Session : t # s => status'[t] = status[t]
      /\ \A q \in QueueName : Range(queue[q]) \subseteq Session
  BY <1>1, <1>2, <1>3, QueuesAre DEF ReactorTypeOK
<1>9. SessionsPlaced'
  <2>1. EventsPlaced'
    BY <1>1, <1>2 DEF EventsPlaced
  <2>2. s \notin Range(queue["committing"]) \cup Range(queue["deployed"])
    BY <1>1, <1>6, QueuesAre DEF QueueName
  <2>3. \A t \in Range(queue["committing"]) \cup Range(queue["deployed"]) :
           t \in Session /\ t # s
    BY <2>2, <1>8 DEF QueueName
  <2>4. \A t \in Range(queue'["notified"]) \cup Range(queue'["posted"]) :
           status'[t] # "committed"
    BY <1>6, <1>8 DEF SessionsPlaced, QueueName
  <2> QED
    BY <2>1, <2>3, <2>4, <1>2, <1>4, <1>6, <1>7, <1>8 DEF SessionsPlaced
<1>10. NotifiedIsReturned'
  BY <1>2, <1>4, <1>6 DEF NotifiedIsReturned
<1>11. PhasesInOrder'
  BY <1>2, <1>4, <1>6 DEF PhasesInOrder
<1>12. InterestLives'
  <2>1. Range(queue'["deployed"]) \cup Range(queue'["notified"]) \cup Range(queue'["posted"])
        = Range(queue["deployed"]) \cup Range(queue["notified"]) \cup Range(queue["posted"])
    BY <1>4, <1>6
  <2> QED
    BY <2>1, <1>2, <1>6 DEF InterestLives
<1>13. TimersLive' /\ BatchLives' /\ TableLives'
  BY <1>2, EmptyFacts DEF TimersLive, BatchLives, TableLives, DestroyedOnce
<1> QED
  BY <1>9, <1>10, <1>11, <1>12, <1>13

LEMMA ReactorStutters ==
    ASSUME ReactorInv, UNCHANGED reactorVars
    PROVE  ReactorInv'
<1> USE DEF ReactorInv
<1>1. UNCHANGED <<queue, status, flagged, events, held, table, freed, interest, ready, timers,
                  elapsed, batch, phase>>
  BY DEF reactorVars
<1>2. ReactorTypeOK'
  BY <1>1 DEF SessionsPlaced, ReactorTypeOK
<1>3. SessionsPlaced' /\ NotifiedIsReturned' /\ \A e : Dispatchable(e) => Dispatchable(e)'
  BY <1>1, <1>2, NothingMoves
<1>4. PhasesInOrder' /\ InterestLives'
  BY <1>1 DEF PhasesInOrder, InterestLives, Queued
<1>5. TimersLive' /\ BatchLives' /\ TableLives'
  BY <1>1, <1>3 DEF TimersLive, BatchLives, TableLives, DestroyedOnce
<1> QED
  BY <1>3, <1>4, <1>5

LEMMA ReactorSteps == ReactorInv /\ [ReactorNext]_reactorVars => ReactorInv'
<1> SUFFICES ASSUME ReactorInv, [ReactorNext]_reactorVars
             PROVE  ReactorInv'
  OBVIOUS
<1>1. ASSUME NEW e \in Event, RegisterEvent(e)
      PROVE  ReactorInv'
  BY <1>1, RegisterEventKeeps
<1>2. ASSUME NEW s \in Session, Commit(s)
      PROVE  ReactorInv'
  BY <1>2, CommitKeeps
<1>3. ASSUME NEW s \in Session, NextEvent(s)
      PROVE  ReactorInv'
  BY <1>3, NextEventKeeps
<1>4. ASSUME NEW s \in Session, DestroySession(s)
      PROVE  ReactorInv'
  BY <1>4, DestroySessionKeeps
<1>5. ASSUME NEW s \in Session, RegisterSession(s) \/ Detach(s)
      PROVE  ReactorInv'
  BY <1>5, TableKeeps
<1>6. CASE DestroyReactor
  BY <1>6, DestroyReactorKeeps
<1>7. CASE EnterPoll \/ World \/ Wait \/ EpollTimesOut \/ EpollFails
  BY <1>7, PhaseKeeps DEF World
<1>8. CASE Deploy
  BY <1>8, DeployKeeps
<1>9. CASE ReturnEarly \/ ReturnFirst
  BY <1>9, ReturnKeeps
<1>10. CASE EpollReturns
  BY <1>10, EpollReturnsKeeps
<1>11. CASE DispatchTimer \/ DispatchEvent
  BY <1>11, DispatchesKeep
<1>12. CASE FlushPosted
  BY <1>12, FlushKeeps
<1>13. CASE UNCHANGED reactorVars
  BY <1>13, ReactorStutters
<1> QED
  BY <1>1, <1>2, <1>3, <1>4, <1>5, <1>6, <1>7, <1>8, <1>9, <1>10, <1>11, <1>12, <1>13
     DEF ReactorNext, UserCalls, Poll

LEMMA ReactorInvariance == ReactorSpec => []ReactorInv
<1>1. ReactorInit => ReactorInv
  BY ReactorStarts
<1>2. ReactorInv /\ [ReactorNext]_reactorVars => ReactorInv'
  BY ReactorSteps
<1> QED
  BY <1>1, <1>2, PTL DEF ReactorSpec

\* No node of the reactor is linked twice or unlinked while in no list, whatever
\* descriptors become ready, timers elapse and epoll reports, in whatever batches; and
\* ek3_poll pops no empty queue.
THEOREM SessionsStayPlaced == ReactorSpec => []SessionsPlaced
<1>1. ReactorInv => SessionsPlaced
  BY DEF ReactorInv
<1> QED
  BY <1>1, ReactorInvariance, PTL

\* What epoll reports, and what ek3_poll has still to dispatch, is an event whose session
\* lives, with both nodes linked: the tag of the epoll_event is no dangling pointer.
THEOREM ReportedLives == ReactorSpec => []ReportsAreLive
<1>1. ReactorInv => ReportsAreLive
  <2> SUFFICES ASSUME ReactorInv,
                      NEW e \in Range(batch) \cup (IF phase = "wait" THEN Reportable ELSE {})
               PROVE  Dispatchable(e)
    BY DEF ReportsAreLive, Dispatchable
  <2>1. CASE e \in Range(batch)
    BY <2>1 DEF ReactorInv, BatchLives
  <2>2. CASE phase = "wait" /\ e \in Reportable
    BY <2>2, WatchedLives DEF Reportable, ReactorInv, SessionsPlaced, ReactorTypeOK
  <2> QED
    BY <2>1, <2>2
<1> QED
  BY <1>1, ReactorInvariance, PTL

\* A session is returned only with an event to be taken, and a user who takes all of them
\* never has a notified event in a session that ek3_poll would wait for.
THEOREM NotifiedReturns == ReactorSpec => []NotifiedIsReturned
<1>1. ReactorInv => NotifiedIsReturned
  BY DEF ReactorInv
<1> QED
  BY <1>1, ReactorInvariance, PTL

\* ek3_reactor_destroy destroys a session twice only if it is both queued and in the hash
\* table: a user who never calls ek3_register_session sees each destroyed once.
THEOREM DestroyedOnceWithoutTable == ~ UsesTable => (ReactorSpec => []DestroyedOnce)
<1>1. ~ UsesTable /\ ReactorInv => DestroyedOnce
  BY DEF ReactorInv, TableLives
<1> SUFFICES ASSUME ~ UsesTable PROVE ReactorSpec => []DestroyedOnce
  OBVIOUS
<1>2. ReactorInv => DestroyedOnce
  BY <1>1
<1> QED
  BY <1>2, ReactorInvariance, PTL
=============================================================================
