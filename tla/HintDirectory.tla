--------------------------- MODULE HintDirectory ---------------------------
(***************************************************************************)
(* What a dictionary of hints promises: for each key the newest entry that  *)
(* was put and not deleted, whatever was looked up in between.  The delete  *)
(* of an entry uncovers the one that it had hidden.                        *)
(***************************************************************************)
EXTENDS Sequences, Functions

CONSTANTS Entry, KeyOf, None

VARIABLES stack,   \* of each key, the newest entry first
          got      \* what the last lookup has found

directoryVars == <<stack, got>>

DirectoryInit == stack = [k \in Range(KeyOf) |-> <<>>] /\ got = None

Put(e) ==
    /\ \A k \in DOMAIN stack : e \notin Range(stack[k])
    /\ stack' = [stack EXCEPT ![KeyOf[e]] = <<e>> \o @]
    /\ UNCHANGED got

Get(k) ==
    /\ got' = IF stack[k] = <<>> THEN None ELSE Head(stack[k])
    /\ UNCHANGED stack

\* Who holds an entry that is deleted forgets it.
Delete(k) ==
    /\ stack[k] # <<>>
    /\ stack' = [stack EXCEPT ![k] = Tail(@)]
    /\ got' = IF got = Head(stack[k]) THEN None ELSE got

Clear == stack' = [k \in DOMAIN stack |-> <<>>] /\ got' = None

DirectoryNext == \/ \E e \in Entry : Put(e)
                 \/ \E k \in DOMAIN stack : Get(k) \/ Delete(k)
                 \/ Clear

DirectorySpec == DirectoryInit /\ [][DirectoryNext]_directoryVars
=============================================================================
