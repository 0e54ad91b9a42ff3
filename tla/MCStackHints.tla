---------------------------- MODULE MCStackHints ----------------------------
EXTENDS StackHints, TLC

CONSTANTS h1, h2, h3, k1, k2

\* Two hints have the same key, a third one is in their slot.
MCKeyOf    == [h \in Entry |-> IF h = h3 THEN k2 ELSE k1]
MCHashOf   == [k \in {k1, k2} |-> IF k = k1 THEN 1 ELSE 3]
MCPolicyOf == [h \in Entry |-> CASE h = h1 -> "prudent"
                                 [] h = h2 -> "eden" [] h = h3 -> "fallback"]

Symmetry == Permutations(Slave)
=============================================================================
