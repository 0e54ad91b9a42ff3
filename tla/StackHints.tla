----------------------------- MODULE StackHints -----------------------------
(***************************************************************************)
(* The stack allocator of a p7r scheduler together with the dictionary of   *)
(* hints (p7r/p7r_stack_hint.c, p7r/p7r_stack_hint_dictionary.c), which say  *)
(* for an entrance, or for a name, where its stacks come from.  The         *)
(* statistics in a hint, which nobody reads, are left out.                 *)
(***************************************************************************)
EXTENDS StackAllocator, HashTable

CONSTANT PolicyOf   \* ->policy of each hint, as its owner sets it

ASSUME StackHintsAssumption ==
    PolicyOf \in [Entry -> {"prudent", "eden", "fallback"}]

VARIABLES made,         \* the hints that were allocated and not freed
          hint,         \* the hint that the last get has returned
          nullDeleted   \* key_destroy was called for no hint

hintVars  == <<cluster, made, hint, nullDeleted>>
hintsVars == <<vars, hintVars>>

HintsInit ==
    /\ Init /\ TableInit
    /\ made = {} /\ hint = None /\ nullDeleted = FALSE

\* p7r_stack_hint_new_from_name, p7r_stack_hint_new_from_entrance.
NewHint(h) ==
    /\ h \notin made
    /\ made' = made \cup {h}
    /\ UNCHANGED <<cluster, hint, nullDeleted>>

PutHint(h) ==
    /\ h \in made \ Stored
    /\ Insert(h)
    /\ UNCHANGED <<made, hint, nullDeleted>>

GetHint(k) ==
    /\ hint' = Found(k)
    /\ IF Found(k) = None THEN UNCHANGED cluster ELSE Fetch(k)
    /\ UNCHANGED <<made, nullDeleted>>

\* The hint is given back to the heap, so that nobody may use it any more.
DeleteHint(k) ==
    /\ Found(k) # None
    /\ Take(k) /\ made' = made \ {Found(k)}
    /\ hint' = IF hint = Found(k) THEN None ELSE hint
    /\ UNCHANGED nullDeleted

\* scraft_hashtable_delete destroys what it has not found: the address that
\* p7r_stack_hint_delete frees is none that malloc has returned.
DeleteNothing(k) ==
    /\ Found(k) = None
    /\ nullDeleted' = TRUE
    /\ UNCHANGED <<cluster, made, hint>>

\* p7r_stack_hint_dictionary_ruin, and another dictionary_init.
Renew ==
    /\ cluster' = [s \in Slot |-> <<>>] /\ made' = made \ Stored
    /\ hint' = None
    /\ UNCHANGED nullDeleted

\* The masters that p7r_stack_allocate_with_hint tries: the names PRUDENT and
\* DEFAULT are of the same policy.
PipelineOf(h) == CASE PolicyOf[h] = "prudent"  -> <<Long, Short>>
                   [] PolicyOf[h] = "eden"     -> <<Short>>
                   [] PolicyOf[h] = "fallback" -> <<>>

AllocateWithHint == hint # None /\ Allocate(PipelineOf(hint))

Dictionary == \/ \E h \in Entry : NewHint(h) \/ PutHint(h)
              \/ \E k \in Key : GetHint(k) \/ DeleteHint(k) \/ DeleteNothing(k)
              \/ Renew

HintsNext ==
    /\ ~ nullDeleted /\ ~ crashed
    /\ \/ Dictionary /\ UNCHANGED vars
       \/ (AllocateWithHint \/ Next) /\ UNCHANGED hintVars

HintsSpec == HintsInit /\ [][HintsNext]_hintsVars

-----------------------------------------------------------------------------
Directory ==
    INSTANCE HintDirectory WITH
        stack <- [k \in Key |-> Equals(k)],
        got   <- hint

\* A hint stays in force until it is deleted: a lookup finds the newest of those
\* that are equal, although every lookup moves what it finds before them all.
ImplementsDirectory == Directory!DirectorySpec
=============================================================================
