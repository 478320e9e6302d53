----------------------------- MODULE TailQueues -----------------------------
(***************************************************************************)
(* The intrusive tail queues of include/uk/list.h (UK_TAILQ, UK_STAILQ) as *)
(* sequences.  UK_TAILQ_INSERT_TAIL is Append, UK_TAILQ_FIRST is Head.     *)
(***************************************************************************)
EXTENDS Integers, Sequences

On(q, t) == \E i \in DOMAIN q : q[i] = t

NoDuplicates(q) == \A i, j \in DOMAIN q : q[i] = q[j] => i = j

\* Removing an element that is not on the list leaves the model's list alone;
\* the callers' specifications record the damage it does in the code
UK_TAILQ_REMOVE(q, t) ==
    IF On(q, t) THEN LET i == CHOOSE i \in DOMAIN q : q[i] = t
                     IN  SubSeq(q, 1, i - 1) \o SubSeq(q, i + 1, Len(q))
                ELSE q
=============================================================================
