----------------------------- MODULE PipePromise -----------------------------
(* What a pipe promises (lib/posix-pipe): bytes come out in the order they  *)
(* went in, none lost, none twice.  A stream is read in pieces of any size; *)
(* a packet is read at once and what does not fit the buffer is dropped.    *)
(* The writers write the numbers 1, 2, ... modulo Labels.                   *)
EXTENDS Integers, Sequences

CONSTANTS Readers, Labels, PipeSize

VARIABLES chunks,  \* [data, stream] in the pipe; only the last may be a stream
          next,    \* the last number written
          out      \* what a read that has not returned yet has got

Size == LET total[i \in 0..Len(chunks)] == IF i = 0 THEN 0 ELSE total[i - 1] + Len(chunks[i].data)
        IN total[Len(chunks)]

Init == chunks = <<>> /\ next = 0 /\ out = [r \in Readers |-> <<>>]

\* Part of what a writer offers is accepted: at the end of a stream, or as a
\* message of its own
Put == /\ \E n \in 1..(PipeSize - Size), stream \in BOOLEAN :
            LET last == Len(chunks)
                data == [i \in 1..n |-> (next + i) % Labels] IN
            /\ chunks' = IF last > 0 /\ chunks[last].stream
                         THEN [chunks EXCEPT ![last].data = @ \o data]
                         ELSE Append(chunks, [data |-> data, stream |-> stream])
            /\ next' = (next + n) % Labels
       /\ UNCHANGED out

Take(r) ==
    /\ chunks # <<>>
    /\ out[r] = <<>>
    /\ LET first == Head(chunks) IN
       \E n \in 1..Len(first.data) :
          /\ out' = [out EXCEPT ![r] = SubSeq(first.data, 1, n)]
          /\ chunks' = IF first.stream /\ n < Len(first.data)
                       THEN <<[first EXCEPT !.data = SubSeq(@, n + 1, Len(@))]>> \o Tail(chunks)
                       ELSE Tail(chunks)
    /\ UNCHANGED next

Return(r) == out' = [out EXCEPT ![r] = <<>>] /\ UNCHANGED <<chunks, next>>

Next == \/ \E r \in Readers : Return(r)
        \/ chunks' # chunks /\ (Put \/ \E r \in Readers : Take(r))

Spec == Init /\ [][Next]_<<chunks, next, out>>
=============================================================================
