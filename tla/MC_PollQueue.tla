---------------------------- MODULE MC_PollQueue ----------------------------
EXTENDS PollQueue, TLC

Symmetry == Permutations(Pollers) \cup Permutations(Setters) \cup Permutations(Events)

All == {-1}

AllOrOne == {-1, 1}
=============================================================================
