----------------------------- MODULE BoundedFifo -----------------------------
(***************************************************************************)
(* What a mailbox promises: a queue of at most Size messages; every        *)
(* message that was posted is received once, in the order of the posts.    *)
(***************************************************************************)
EXTENDS Naturals, Sequences

CONSTANTS Threads, Messages, NoMessage, Size

VARIABLES queue,
          box    \* the message each thread wants to post, or has received

Init == /\ queue = <<>>
        /\ box = [t \in Threads |-> NoMessage]

\* A thread begins to post m, or (NoMessage) to receive
Begin(t, m) == /\ box' = [box EXCEPT ![t] = m]
               /\ UNCHANGED queue

Post(t) == /\ box[t] # NoMessage
           /\ Len(queue) < Size
           /\ queue' = Append(queue, box[t])
           /\ UNCHANGED box

Receive(t) == /\ box[t] = NoMessage
              /\ queue # <<>>
              /\ queue' = Tail(queue)
              /\ box' = [box EXCEPT ![t] = Head(queue)]

Next == \E t \in Threads : \/ \E m \in Messages \cup {NoMessage} : Begin(t, m)
                           \/ Post(t)
                           \/ Receive(t)

Spec == Init /\ [][Next]_<<queue, box>>
=============================================================================
