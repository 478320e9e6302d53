------------------------------ MODULE MC_Futex ------------------------------
EXTENDS Futex

Symmetry == Permutations(Threads) \cup Permutations(Addrs)
=============================================================================
