---------------------------- MODULE MCMessageBus ----------------------------
EXTENDS MessageBus, TLC

Symmetry == Permutations(Foreign) \cup Permutations(Message)
=============================================================================
