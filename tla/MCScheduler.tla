---------------------------- MODULE MCScheduler ----------------------------
EXTENDS Scheduler, TLC

\* Stacks other than main()'s are interchangeable.
Symmetry == Permutations(Slot \ {Main})
=============================================================================
