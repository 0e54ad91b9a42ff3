----------------------------- MODULE HashTable -----------------------------
(***************************************************************************)
(* The hash table of util/scraft_hashtable.c: a slot is a chain of entries, *)
(* new ones in front, and what is fetched is moved to the front.  Entries   *)
(* with equal keys may be in it together.                                  *)
(***************************************************************************)
EXTENDS Lists

CONSTANTS Entry,    \* what may be inserted
          KeyOf,    \* the key of each entry, for key_compare
          HashOf,   \* hashfunc of each key
          Cap,      \* the number of slots
          None

Key == Range(KeyOf)

ASSUME HashTableAssumption ==
    /\ DOMAIN KeyOf = Entry /\ None \notin Entry
    /\ HashOf \in [Key -> Nat] /\ Cap \in Nat \ {0}

VARIABLE cluster    \* the chain of each slot

Slot      == 0 .. Cap - 1
SlotOf(k) == HashOf[k] % Cap

TableInit == cluster = [s \in Slot |-> <<>>]

Chain(k) == cluster[SlotOf(k)]
Stored   == UNION {Range(cluster[s]) : s \in Slot}

Compares(k, e) == KeyOf[e] = k

\* The entries of the chain that compare equal, in its order.
Equals(k) == Only(Chain(k), {e \in Entry : Compares(k, e)})

\* scraft_hashtable_find: the first of them.
Found(k) == IF Equals(k) = <<>> THEN None ELSE Head(Equals(k))

Insert(e) == cluster' = [cluster EXCEPT ![SlotOf(KeyOf[e])] = <<e>> \o @]

\* A fault: what is fetched goes to the end.
MovedToEnd(chain, e) == Append(Without(chain, e), e)

MovedToFront(chain, e) == <<e>> \o Without(chain, e)

Fetch(k) == cluster' = [cluster EXCEPT ![SlotOf(k)] = MovedToFront(@, Found(k))]

\* scraft_hashtable_remove_inner.
Take(k) == cluster' = [cluster EXCEPT ![SlotOf(k)] = Without(@, Found(k))]
=============================================================================
