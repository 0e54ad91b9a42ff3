----------------------------- MODULE MCCpBuffer -----------------------------
EXTENDS CpBuffer, TLC

Symmetry == Permutations(Producer) \cup Permutations(Message)
=============================================================================
