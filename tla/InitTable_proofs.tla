-------------------------- MODULE InitTable_proofs --------------------------
(***************************************************************************)
(* Proofs about InitTable, for tables of any length.                       *)
(***************************************************************************)
EXTENDS InitTable, TLAPS

\* What the loops have done when they are at pos: everything before pos is up
\* (while initialising), everything up behind pos has been terminated (after).
Progress ==
    /\ phase = "init" => ran = {} /\ pos >= 1 /\ up = {i \in Entries : i < pos /\ Called(i)}
    /\ phase = "live" => ran = {} /\ up = {i \in Entries : Called(i)}
    /\ phase = "term" => up = {i \in Entries : Called(i)}
    /\ phase \in {"unwind", "term", "gone"} =>
        /\ \A i \in up : i > pos /\ table[i].term => i \in ran
        /\ \A i \in ran : i > pos /\ table[i].match /\ (Called(i) => i \in up)
        /\ \A i \in Entries : i <= pos /\ Called(i) => i \in up
    /\ phase = "gone" => pos < 1
    /\ \A i \in up : table[i].match

Inv == TypeOK /\ Progress

\* The invariant holds before the first callback.
LEMMA InitInv == Init => Inv
BY InitTableAssumption DEF Init, Inv, TypeOK, Progress, Called, Entries

\* Every step of the loops preserves the invariant, when unwinding starts right
\* before the entry that failed.
LEMMA NextInv == ASSUME Rewind = 1, Inv, [Next]_vars PROVE Inv'
<1> USE InitTableAssumption DEF Inv, Entries
<1>1. CASE Skip
  BY <1>1 DEF Skip, TypeOK, Progress, Called
<1>2. CASE Succeed
  BY <1>2 DEF Succeed, TypeOK, Progress, Called
<1>3. CASE Fail
  BY <1>3 DEF Fail, TypeOK, Progress, Called
<1>4. CASE Ready
  BY <1>4 DEF Ready, TypeOK, Progress, Called
<1>5. CASE Terminate
  BY <1>5 DEF Terminate, TypeOK, Progress, Called
<1>6. CASE TermEntry
  <2>1. TypeOK'
    BY <1>6 DEF TermEntry, TypeOK
  <2>2. Progress'
    BY <1>6 DEF TermEntry, TypeOK, Progress, Called
  <2> QED
    BY <2>1, <2>2
<1>7. CASE Gone
  BY <1>7 DEF Gone, TypeOK, Progress, Called
<1>8. CASE UNCHANGED vars
  BY <1>8 DEF vars, TypeOK, Progress, Called
<1> QED
  BY <1>1, <1>2, <1>3, <1>4, <1>5, <1>6, <1>7, <1>8 DEF Next

\* The boot table unwinds completely, whatever its length and whichever init
\* callback fails.
THEOREM BootUnwinds == ASSUME Rewind = 1 PROVE Spec => []UnwindComplete
<1>1. Inv => UnwindComplete
  BY InitTableAssumption DEF Inv, TypeOK, Progress, UnwindComplete, Entries
<1> QED
  BY InitInv, NextInv, <1>1, PTL DEF Spec

\* The boot table terminates nothing that was not initialised.
THEOREM BootTermsInitialised == ASSUME Rewind = 1 PROVE Spec => []TermOnlyInitialised
<1>1. Inv => TermOnlyInitialised
  BY InitTableAssumption DEF Inv, TypeOK, Progress, TermOnlyInitialised, Entries, Called
<1> QED
  BY InitInv, NextInv, <1>1, PTL DEF Spec
=============================================================================
