------------------------------ MODULE MC_Mutex ------------------------------
(* Mutex for TLC: threads are interchangeable.                             *)
EXTENDS Mutex, TLC

Symmetry == Permutations(Threads)

=============================================================================
