------------------------------ MODULE MCDlBase ------------------------------
EXTENDS DlBase, TLC

Symmetry == Permutations(User) \cup Permutations(Library)
=============================================================================
