------------------------------ MODULE MC_RWLock ------------------------------
EXTENDS RWLock, TLC

Symmetry == Permutations(Threads)
=============================================================================
