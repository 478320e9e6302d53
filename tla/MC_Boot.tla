------------------------------- MODULE MC_Boot -------------------------------
(* Boot for TLC: every table with the smallest heap, and the empty table    *)
(* with no memory, with adjacent regions, aligned and not, and with regions *)
(* too small to be of use.                                                  *)
EXTENDS Boot

Region(base, len) == [base |-> base, len |-> len]

Tables == [Entries -> [init : BOOLEAN, term : BOOLEAN, match : {TRUE}]]

EmptyTable == [i \in Entries |-> [init |-> FALSE, term |-> FALSE, match |-> TRUE]]

MC_Layouts == {<<>>, <<Region(6, 11)>>, <<Region(2, 8), Region(10, 5)>>,
               <<Region(1, 6), Region(7, 1), Region(8, 7)>>}

MC_Machines == [table : Tables, layout : {<<Region(1, 1)>>}]
                 \cup [table : {EmptyTable}, layout : MC_Layouts]
=============================================================================
