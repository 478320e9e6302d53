------------------------------ MODULE MC_FdTab ------------------------------
(* Instance of FdTab for TLC: entries are open files with their flag; threads
   and open files are interchangeable *)
EXTENDS FdTab, TLC

MC_Entries == [of : Ofiles, cloexec : BOOLEAN]

MC_Watches == {[fd |-> 0, file |-> f] : f \in Files \ Static}

Symmetry == Permutations(Threads) \cup Permutations(Ofiles)
=============================================================================
