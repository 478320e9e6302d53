---------------------------- MODULE MC_SchedCoop ----------------------------
(* SchedCoop for TLC: the threads other than the boot thread are           *)
(* interchangeable.                                                        *)
EXTENDS SchedCoop

Symmetry == Permutations(Threads \ {Main})
=============================================================================
