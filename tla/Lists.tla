------------------------------- MODULE Lists -------------------------------
(***************************************************************************)
(* The doubly linked lists of include/util_list.h, as sequences.  A node    *)
(* may leave a list at any place (list_del), so that the operators are not  *)
(* those of a queue.  They are defined by the places that remain, without   *)
(* recursion, which makes them fit for proofs.                             *)
(***************************************************************************)
EXTENDS Naturals, Sequences, FiniteSets, Functions

\* A node that is linked twice would corrupt its lists.
Once(list) == \A i, j \in DOMAIN list : list[i] = list[j] => i = j

Places(list, S) == {i \in DOMAIN list : list[i] \in S}

\* The elements of S, in the order in which they are in the list.
Only(list, S) ==
    LET places == Places(list, S)
    IN  [n \in 1 .. Cardinality(places) |->
            list[CHOOSE i \in places : Cardinality({j \in places : j <= i}) = n]]

\* list_del.
Without(list, x) == Only(list, Range(list) \ {x})

\* The orders in which the members of a finite set may be listed.
Orders(S) == {f \in [1..Cardinality(S) -> S] : Range(f) = S}
=============================================================================
