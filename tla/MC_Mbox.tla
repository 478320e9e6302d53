------------------------------- MODULE MC_Mbox -------------------------------
EXTENDS Mbox, TLC

Symmetry == Permutations(Threads \ Handlers) \cup Permutations(Messages)

Counts == [s \in Queues |-> IF s = "readsem" THEN 0 ELSE Size]
=============================================================================
