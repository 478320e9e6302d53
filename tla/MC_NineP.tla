------------------------------ MODULE MC_NineP ------------------------------
(* Instance of NineP for TLC. *)
EXTENDS NineP, TLC

MC_Queues == Reqs \cup {Xmit}
MC_Cookies == Reqs
Symmetry == Permutations(Threads) \cup Permutations(Reqs)
=============================================================================
