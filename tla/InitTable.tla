------------------------------ MODULE InitTable ------------------------------
(***************************************************************************)
(* Tables of init and term callbacks: the boot table (lib/ukboot/boot.c),  *)
(* the thread table (lib/uksched/thread.c) and the clone table             *)
(* (lib/posix-process/clone.c).  The three loops are alike, except for     *)
(* where they resume when an init callback fails: `Rewind' entries before  *)
(* the failed one (1 in boot.c, 2 in the other two).                       *)
(***************************************************************************)
EXTENDS Integers

CONSTANTS N,       \* entries of the table
          Rewind

ASSUME InitTableAssumption == N \in Nat /\ Rewind \in {1, 2}

Entries == 1 .. N

VARIABLES table,  \* which callbacks an entry has, and whether it is for this
                  \* thread (feature flags, clone flags; always so at boot)
          phase,  \* "init", then "unwind" (failure) or "live" and "term"
          pos,    \* itr
          up,     \* entries whose init callback has succeeded
          ran     \* entries whose term callback has been called

vars == <<table, phase, pos, up, ran>>

TypeOK == /\ table \in [Entries -> [init : BOOLEAN, term : BOOLEAN, match : BOOLEAN]]
          /\ phase \in {"init", "live", "unwind", "term", "gone"}
          /\ pos \in IF phase \in {"unwind", "term"} THEN -1 .. N ELSE -1 .. N + 1
          /\ up \subseteq Entries /\ ran \subseteq Entries

Init == /\ table \in [Entries -> [init : BOOLEAN, term : BOOLEAN, match : BOOLEAN]]
        /\ phase = "init"
        /\ pos = 1
        /\ up = {} /\ ran = {}

Called(i) == table[i].init /\ table[i].match

Skip == /\ phase = "init"
        /\ pos \in Entries
        /\ ~Called(pos)
        /\ pos' = pos + 1
        /\ UNCHANGED <<table, phase, up, ran>>

Succeed == /\ phase = "init"
           /\ pos \in Entries
           /\ Called(pos)
           /\ up' = up \cup {pos}
           /\ pos' = pos + 1
           /\ UNCHANGED <<table, phase, ran>>

\* Mutant: unwinding starts with the entry that failed
FailSelf == /\ phase = "init"
            /\ pos \in Entries
            /\ Called(pos)
            /\ phase' = "unwind"
            /\ UNCHANGED <<table, pos, up, ran>>

\* Mutant: unwinding passes over the last entry that succeeded
FailTwo == /\ phase = "init"
           /\ pos \in Entries
           /\ Called(pos)
           /\ phase' = "unwind"
           /\ pos' = pos - 2
           /\ UNCHANGED <<table, up, ran>>

Fail == /\ phase = "init"
        /\ pos \in Entries
        /\ Called(pos)
        /\ phase' = "unwind"
        /\ pos' = pos - Rewind
        /\ UNCHANGED <<table, up, ran>>

Ready == /\ phase = "init"
         /\ pos \notin Entries
         /\ phase' = "live"
         /\ UNCHANGED <<table, pos, up, ran>>

\* Exit of the thread, shutdown of the system
Terminate == /\ phase = "live"
             /\ phase' = "term"
             /\ pos' = N
             /\ UNCHANGED <<table, up, ran>>

TermEntry == /\ phase \in {"unwind", "term"}
             /\ pos \in Entries
             /\ ran' = IF table[pos].term /\ table[pos].match THEN ran \cup {pos} ELSE ran
             /\ pos' = pos - 1
             /\ UNCHANGED <<table, phase, up>>

Gone == /\ phase \in {"unwind", "term"}
        /\ pos < 1
        /\ phase' = "gone"
        /\ UNCHANGED <<table, pos, up, ran>>

Next == Skip \/ Succeed \/ Fail \/ Ready \/ Terminate \/ TermEntry \/ Gone

Spec == Init /\ [][Next]_vars

-----------------------------------------------------------------------------
\* boot.c, before the loop over the term callbacks: "The init loop left
\* `init_entry` at the position that is one step further after the last
\* successfully initialized entry".  Once that loop is through, nothing that was
\* initialised is left without its term callback, wherever an init failed.  (For
\* Rewind = 2, the loops of thread.c and clone.c, this fails.)
UnwindComplete ==
    phase = "gone" => \A i \in up : table[i].term => i \in ran

\* No term callback runs for an entry whose init failed or was not reached.
TermOnlyInitialised == \A i \in ran : table[i].init => i \in up
=============================================================================
