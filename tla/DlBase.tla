------------------------------- MODULE DlBase -------------------------------
(***************************************************************************)
(* One alias of the s1 dictionary of shared objects (s1/s1_dlbase.c): users  *)
(* fetch a symbol, guard it, execute it and unguard it while a manager      *)
(* reloads the alias with newer objects.  A replaced object is deprecated,  *)
(* and closed by the unguard after which no deprecated one is in use.       *)
(*                                                                         *)
(* s1 tries to be independent of the thread model: with Preemptive, users   *)
(* and manager are threads that interleave at every access to shared        *)
(* memory; without it they are coroutines, which give way between the       *)
(* calls and while they execute a symbol.                                  *)
(*                                                                         *)
(* The model stops where a user reads the record of an object (s1_dlwrap)   *)
(* that was closed and freed.                                              *)
(***************************************************************************)
EXTENDS Integers, FiniteSets

CONSTANTS User, Manager,
          Library,       \* the objects that can be opened, each once
          Preemptive,    \* threads, or coroutines?
          KeepsSymbols,  \* do users keep for later what s1_call_unguard returned?
          Modulus,       \* of uint64_t deprecated_alivecnt
          None

ASSUME DlBaseAssumption ==
    /\ Manager \notin User /\ None \notin User \cup {Manager} \cup Library
    /\ Preemptive \in BOOLEAN /\ KeepsSymbols \in BOOLEAN
    /\ IsFiniteSet(User) /\ IsFiniteSet(Library)
    /\ Modulus \in Nat /\ Modulus > Cardinality(Library)

Thread == User \cup {Manager}

VARIABLES
    opened, closed,   \* what dlopen and dlclose were called for
    stable, loading,  \* base->stable, base->loading
    deprecated,       \* deprecated_set
    invcnt, hasBase,  \* of each object; those whose ->base is set
    alivecnt, mutex,  \* deprecated_alivecnt, deprecated_mutex
    pc, active,       \* active: the coroutine in the middle of a call
    symbol, ref,      \* the s1_dlsym of a user, each field by its object
    doomed,           \* the local list of s1_call_unguard
    count             \* what s1_dllib_reload has read to add to alivecnt

libVars   == <<opened, closed, stable, loading, deprecated, invcnt, hasBase>>
localVars == <<symbol, ref, doomed, count>>
vars == <<libVars, alivecnt, mutex, pc, active, localVars>>

Init ==
    /\ opened = {} /\ closed = {}
    /\ stable = None /\ loading = None
    /\ deprecated = {}
    /\ invcnt = [l \in Library |-> 0] /\ hasBase = {}
    /\ alivecnt = 0 /\ mutex = None
    /\ pc = [t \in Thread |-> "idle"] /\ active = None
    /\ symbol = [u \in User |-> None] /\ ref = [u \in User |-> None]
    /\ doomed = [u \in User |-> {}]
    /\ count = 0

\* A step of t from one place to another.  Other coroutines get a turn only
\* while t is idle or executes a symbol.
Step(t, from, to) ==
    /\ \A u \in User : pc[u] # "astray"
    /\ pc[t] = from
    /\ pc' = [pc EXCEPT ![t] = to]
    /\ IF Preemptive THEN UNCHANGED active
       ELSE /\ active \in {t, None}
            /\ active' = IF to \in {"idle", "call"} THEN None ELSE t

(***************************************************************************)
(* The manager: s1_dllib_load, s1_dllib_unload, s1_dllib_reload.  Its calls *)
(* follow each other, as the dictionary and base->loading require.          *)
(***************************************************************************)
\* dlopen succeeds.
Opens(l) ==
    /\ l \in Library \ opened
    /\ opened' = opened \cup {l}

Load ==
    /\ stable = None
    /\ Step(Manager, "idle", "idle")
    /\ \E l \in Library : Opens(l) /\ stable' = l
    /\ UNCHANGED <<closed, loading, deprecated, invcnt, hasBase, alivecnt, mutex,
                   localVars>>

\* s1_dlbase_ruin closes all there is, whether it is guarded or not: it is up to
\* the manager to unload only what nobody uses, and to the users to forget it.
Unload ==
    /\ stable # None
    /\ \A u \in User : pc[u] = "idle"
    /\ Step(Manager, "idle", "idle")
    /\ closed' = closed \cup {stable} \cup deprecated
    /\ stable' = None
    /\ deprecated' = {} /\ alivecnt' = 0
    /\ symbol' = [u \in User |-> None] /\ ref' = [u \in User |-> None]
    /\ UNCHANGED <<opened, loading, invcnt, hasBase, mutex, doomed, count>>

\* dlopen fails: s1_dllib_load and s1_dllib_reload use the null wrap.
OpenFails ==
    /\ Step(Manager, "idle", "crashed")
    /\ UNCHANGED <<libVars, alivecnt, mutex, localVars>>

ReloadOpens ==
    /\ stable # None
    /\ Step(Manager, "idle", "lock")
    /\ \E l \in Library : Opens(l) /\ loading' = l
    /\ hasBase' = hasBase \cup {stable}
    /\ UNCHANGED <<closed, stable, deprecated, invcnt, alivecnt, mutex, localVars>>

Lock(t) == mutex = None /\ mutex' = t

ReloadLocks ==
    /\ Step(Manager, "lock", "test")
    /\ Lock(Manager)
    /\ UNCHANGED <<libVars, alivecnt, localVars>>

\* An object that is in use now will be counted out by an unguard.  alivecnt += ...
\* is a load and a store.
ReloadTests ==
    /\ Step(Manager, "test", "read")
    /\ count' = IF invcnt[stable] > 0 THEN 1 ELSE 0
    /\ UNCHANGED <<libVars, alivecnt, mutex, symbol, ref, doomed>>

ReloadReads ==
    /\ Step(Manager, "read", "write")
    /\ count' = (alivecnt + count) % Modulus
    /\ UNCHANGED <<libVars, alivecnt, mutex, symbol, ref, doomed>>

ReloadWrites ==
    /\ Step(Manager, "write", "publish")
    /\ alivecnt' = count
    /\ deprecated' = deprecated \cup {stable}
    /\ mutex' = None
    /\ UNCHANGED <<opened, closed, stable, loading, invcnt, hasBase, localVars>>

ReloadPublishes ==
    /\ Step(Manager, "publish", "idle")
    /\ stable' = loading
    /\ loading' = None
    /\ UNCHANGED <<opened, closed, deprecated, invcnt, hasBase, alivecnt, mutex,
                   localVars>>

(***************************************************************************)
(* The users.                                                              *)
(***************************************************************************)
\* s1_dllib_symbol reads base->stable twice.
FetchSymbol(u) ==
    /\ stable # None /\ stable \notin closed
    /\ Step(u, "idle", "fetch")
    /\ symbol' = [symbol EXCEPT ![u] = stable]
    /\ UNCHANGED <<libVars, alivecnt, mutex, ref, doomed, count>>

FetchRef(u) ==
    /\ Step(u, "fetch", "guard")
    /\ ref' = [ref EXCEPT ![u] = stable]
    /\ UNCHANGED <<libVars, alivecnt, mutex, symbol, doomed, count>>

\* What a user got from an earlier call: a symbol that it can guard and execute
\* again, or one to be reloaded.
Kept(u)    == KeepsSymbols /\ ref[u] # None /\ symbol[u] # None
Renewed(u) == ref[u] # None /\ symbol[u] = None

\* s1_dlsym_reload.
ReloadSymbol(u) ==
    /\ KeepsSymbols /\ Renewed(u) /\ ref[u] \notin closed
    /\ Step(u, "idle", "guard")
    /\ symbol' = [symbol EXCEPT ![u] = ref[u]]
    /\ UNCHANGED <<libVars, alivecnt, mutex, ref, doomed, count>>

\* s1_call_guard; then the user executes the symbol.
Guard(u) ==
    /\ ref[u] \notin closed
    /\ Step(u, "guard", "call") \/ (Kept(u) /\ Step(u, "idle", "call"))
    /\ invcnt' = [invcnt EXCEPT ![ref[u]] = @ + 1]
    /\ UNCHANGED <<opened, closed, stable, loading, deprecated, hasBase, alivecnt,
                   mutex, localVars>>

\* s1_call_unguard counts the user out.  If others still use the object, it
\* returns the symbol as it is.
Unguard(u) ==
    /\ pc[u] = "call" /\ ref[u] \notin closed
    /\ invcnt' = [invcnt EXCEPT ![ref[u]] = @ - 1]
    /\ Step(u, "call", IF invcnt[ref[u]] > 1 THEN "idle" ELSE "base")
    /\ UNCHANGED <<opened, closed, stable, loading, deprecated, hasBase, alivecnt,
                   mutex, localVars>>

\* Is the object deprecated?  If it is not, the symbol is returned as it is.
TestBase(u) ==
    /\ ref[u] \notin closed
    /\ Step(u, "base", IF ref[u] \in hasBase THEN "alive" ELSE "idle")
    /\ UNCHANGED <<libVars, alivecnt, mutex, localVars>>

NoneAlive == alivecnt = 1

CountOut(u) ==
    /\ ref[u] \notin closed
    /\ alivecnt' = (alivecnt - 1) % Modulus
    /\ Step(u, "alive", IF NoneAlive THEN "take" ELSE "renew")
    /\ UNCHANGED <<libVars, mutex, localVars>>

\* A fault: what is to be closed stays in deprecated_set.
NotTaken == deprecated

\* All the deprecated objects are taken from deprecated_set, under the mutex.
LeftInSet == {}

TakeDoomed(u) ==
    /\ ref[u] \notin closed
    /\ Step(u, "take", "close")
    /\ mutex = None
    /\ doomed' = [doomed EXCEPT ![u] = deprecated]
    /\ deprecated' = LeftInSet
    /\ UNCHANGED <<opened, closed, stable, loading, invcnt, hasBase, alivecnt, mutex,
                   symbol, ref, count>>

CloseDoomed(u) ==
    /\ Step(u, "close", "renew")
    /\ closed' = closed \cup doomed[u]
    /\ doomed' = [doomed EXCEPT ![u] = {}]
    /\ UNCHANGED <<opened, stable, loading, deprecated, invcnt, hasBase, alivecnt,
                   mutex, symbol, ref, count>>

\* The symbol that is returned is to be reloaded from what is stable now.
Renew(u) ==
    /\ Step(u, "renew", "idle")
    /\ symbol' = [symbol EXCEPT ![u] = None]
    /\ ref' = [ref EXCEPT ![u] = stable]
    /\ UNCHANGED <<libVars, alivecnt, mutex, doomed, count>>

\* The next access of u would be to a record that was freed.
GoesAstray(u) ==
    /\ \/ pc[u] = "idle" /\ stable \in closed
       \/ pc[u] = "idle" /\ KeepsSymbols /\ ref[u] \in closed
       \/ pc[u] \in {"guard", "call", "base", "alive", "take"} /\ ref[u] \in closed
    /\ Step(u, pc[u], "astray")
    /\ UNCHANGED <<libVars, alivecnt, mutex, localVars>>

Manage == \/ Load \/ Unload \/ OpenFails \/ ReloadOpens \/ ReloadLocks
          \/ ReloadTests \/ ReloadReads \/ ReloadWrites \/ ReloadPublishes

Use(u) == \/ FetchSymbol(u) \/ FetchRef(u) \/ ReloadSymbol(u) \/ Guard(u) \/ Unguard(u)
          \/ TestBase(u) \/ CountOut(u) \/ TakeDoomed(u) \/ CloseDoomed(u) \/ Renew(u)
          \/ GoesAstray(u)

Next == Manage \/ \E u \in User : Use(u)

Spec == Init /\ [][Next]_vars

-----------------------------------------------------------------------------
\* The variables are in their ranges; invcnt and alivecnt never go below zero.
TypeOK ==
    /\ opened \subseteq Library /\ closed \subseteq opened
    /\ stable \in opened \cup {None} /\ loading \in opened \cup {None}
    /\ deprecated \subseteq opened /\ hasBase \subseteq opened
    /\ invcnt \in [Library -> 0 .. Cardinality(User)]
    /\ alivecnt \in 0 .. Modulus - 1 /\ count \in 0 .. Modulus - 1
    /\ mutex \in Thread \cup {None} /\ active \in Thread \cup {None}
    /\ pc \in [Thread -> {"idle", "lock", "test", "read", "write", "publish", "crashed",
                           "fetch", "guard", "call", "base", "alive", "take",
                           "close", "renew", "astray"}]
    /\ symbol \in [User -> opened \cup {None}] /\ ref \in [User -> opened \cup {None}]
    /\ doomed \in [User -> SUBSET opened]

\* What is stable or about to be, and not deprecated: s1_dllib_reload deprecates the
\* stable object before it publishes the next one.
Serving == (IF pc[Manager] = "publish" THEN {loading} ELSE {stable, loading}) \ {None}

\* Who is between s1_call_guard and s1_call_unguard of l.
Callers(l) == {u \in User : pc[u] = "call" /\ ref[u] = l}

InOnePlace ==
    /\ \A l \in opened : \/ l \in Serving \cup deprecated \cup closed
                         \/ \E u \in User : l \in doomed[u]
    /\ stable = loading => stable = None
    /\ Serving \cap (deprecated \cup closed) = {} /\ deprecated \cap closed = {}
    /\ \A u \in User :
          /\ doomed[u] \cap (Serving \cup deprecated \cup closed) = {}
          /\ \A v \in User \ {u} : doomed[u] \cap doomed[v] = {}

UsersCounted == \A l \in Library \ closed : invcnt[l] = Cardinality(Callers(l))

\* Whatever the threads do, an object that was opened is in one place: in service,
\* deprecated, about to be closed by one user, or closed, once; so none is lost
\* and none is closed twice.  And invcnt is the number of its users, as long as it
\* is not closed.
ObjectsPlaced == TypeOK /\ InOnePlace /\ UsersCounted

\* "ready for reloading symbol: call s1_dlsym_reload later", says the comment where
\* s1_call_unguard returns a symbol of the stable object: its object is not closed.
ReadyIsOpen == \A u \in User : pc[u] = "idle" /\ Renewed(u) => ref[u] \notin closed

\* s1 tries to be independent of the thread model: the code that a user executes,
\* between s1_call_guard and s1_call_unguard, is of an object that is not closed.
InUseIsOpen == \A u \in User : pc[u] = "call" => symbol[u] \notin closed
=============================================================================
