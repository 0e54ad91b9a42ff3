------------------------------ MODULE MCRBTree ------------------------------
EXTENDS RBTree

CONSTANTS Count,   \* of nodes
          Few      \* that come in any order

MCNode == 1 .. Count

\* Two nodes have the same key.
MCKeyOf == [n \in MCNode |-> IF n = 3 THEN 2 ELSE n]

\* The nodes up to Few come in any order, a larger tree in the order of the
\* nodes; and every node may go at any time.
InOrderBeyondFew ==
    \A n \in members' \ members :
        members' \subseteq 1 .. Few \/ members = 1 .. n - 1

MCSpec == TreeInit /\ [][TreeNext /\ InOrderBeyondFew]_treeVars
=============================================================================
