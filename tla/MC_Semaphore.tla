---------------------------- MODULE MC_Semaphore ----------------------------
EXTENDS Semaphore, TLC

Symmetry == Permutations(Threads)

OneToken == [s \in Queues |-> 1]

NoToken == [s \in Queues |-> 0]
=============================================================================
