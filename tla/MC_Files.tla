------------------------------ MODULE MC_Files ------------------------------
(* Instance of Files for TLC: threads are interchangeable                   *)
EXTENDS Files

MC_Events == {POLLIN, POLLOUT, POLL_ALWAYS}

MC_Limits == {-1}

Symmetry == Permutations(Pollers)
=============================================================================
