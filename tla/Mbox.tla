-------------------------------- MODULE Mbox --------------------------------
(***************************************************************************)
(* uk_mbox (lib/ukmpi): a ring of size + 1 slots and two semaphores, which *)
(* count the free slots (writesem) and the posted messages (readsem).      *)
(* Threads and interrupt handlers (which only use the _try calls) post and *)
(* receive.                                                                *)
(***************************************************************************)
EXTENDS Semaphore, FiniteSets

CONSTANTS Messages, NoMessage,
          Handlers,   \* those of Threads that are interrupt handlers
          Size    \* uk_mbox_create(a, size)

ASSUME MboxAssumption == /\ Handlers \subseteq Threads
                         /\ NoMessage \notin Messages
                         /\ IsFiniteSet(Threads)
                         /\ {"readsem", "writesem"} \subseteq Queues
                         /\ Size \in Nat \ {0}
                         /\ InitCount["readsem"] = 0
                         /\ InitCount["writesem"] = Size

VARIABLES msgs, readpos, writepos,
          msg    \* the message each thread posts, or has received

ringVars == <<msgs, readpos, writepos>>

vars == <<pc, wait_list, blocked, count, sl, call, late, msgs, readpos, writepos, msg>>

len == Size + 1

TypeOK == /\ CountTypeOK
          /\ pc \in [Threads -> WaitPlaces \cup {"out", "lock", "do", "up", "wake"}]
          /\ msgs \in [0 .. Size -> Messages \cup {NoMessage}]
          /\ readpos \in 0 .. Size
          /\ writepos \in 0 .. Size
          /\ msg \in [Threads -> Messages \cup {NoMessage}]

\* uk_mbox_create()
Init == /\ CountInit
        /\ pc = [t \in Threads |-> "out"]
        /\ msgs = [i \in 0 .. Size |-> NoMessage]
        /\ readpos = 0
        /\ writepos = 0
        /\ msg = [t \in Threads |-> NoMessage]

\* The semaphore a call takes a token from; it gives one to the other
Takes(m) == IF m = NoMessage THEN "readsem" ELSE "writesem"

Gives(t) == IF call[t].sem = "readsem" THEN "writesem" ELSE "readsem"

\* uk_mbox_post(), _post_to() with a message; uk_mbox_recv(), _recv_to() without
Blocking(t, m, timed) ==
    /\ uk_semaphore_down(t, Takes(m), timed)
    /\ msg' = [msg EXCEPT ![t] = m]
    /\ UNCHANGED ringVars

\* uk_mbox_post_try(), uk_mbox_recv_try() and their _isr variants
Trying(t, m) ==
    /\ uk_semaphore_down_try(t, Takes(m), "do")
    /\ msg' = [msg EXCEPT ![t] = IF count[Takes(m)] > 0 THEN m ELSE NoMessage]
    /\ UNCHANGED ringVars

\* Mutant: the slot is written after the position has moved
DoPostLate(t) ==
    /\ At(t, "do")
    /\ call[t].sem = "writesem"
    /\ writepos' = (writepos + 1) % len
    /\ msgs' = [msgs EXCEPT ![writepos'] = msg[t]]
    /\ Goto(t, "up")
    /\ UNCHANGED <<waitVars, semVars, readpos, msg>>

\* With interrupts off
_do_mbox_post(t) ==
    /\ At(t, "do")
    /\ call[t].sem = "writesem"
    /\ msgs' = [msgs EXCEPT ![writepos] = msg[t]]
    /\ writepos' = (writepos + 1) % len
    /\ Goto(t, "up")
    /\ UNCHANGED <<waitVars, semVars, readpos, msg>>

_do_mbox_recv(t) ==
    /\ At(t, "do")
    /\ call[t].sem = "readsem"
    /\ msg' = [msg EXCEPT ![t] = msgs[readpos]]
    /\ readpos' = (readpos + 1) % len
    /\ Goto(t, "up")
    /\ UNCHANGED <<waitVars, semVars, msgs, writepos>>

Down(t) == /\ DownWait(t) \/ DownLock(t, "do", "out")
           /\ msg' = IF pc'[t] = "out" THEN [msg EXCEPT ![t] = NoMessage] ELSE msg
           /\ UNCHANGED ringVars

\* Mutant: the token is given back to the semaphore it came from
UpSame(t) == /\ uk_semaphore_up(t, call[t].sem, "up")
             /\ UNCHANGED <<ringVars, msg>>

Up(t) == /\ uk_semaphore_up(t, Gives(t), "up")
         /\ UNCHANGED <<ringVars, msg>>

\* The call returns, and its caller has the message
Wake(t) == /\ UpWake(t, Gives(t))
           /\ msg' = [msg EXCEPT ![t] = NoMessage]
           /\ UNCHANGED ringVars

Clock(t) == /\ Timer(t)
            /\ UNCHANGED <<ringVars, msg>>

Step(t) == Down(t) \/ _do_mbox_post(t) \/ _do_mbox_recv(t) \/ Up(t) \/ Wake(t)

Call(t) == \E m \in Messages \cup {NoMessage} :
              \/ Trying(t, m)
              \/ /\ t \notin Handlers
                 /\ \E timed \in BOOLEAN : Blocking(t, m, timed)

Next == \E t \in Threads : Call(t) \/ Step(t) \/ Clock(t)

Spec == Init /\ [][Next]_vars

-----------------------------------------------------------------------------
Used == (writepos - readpos) % len

\* The assertions of mbox_defs.h: a receiver with a token finds a message, and
\* a writer with a token a slot, so that the ring never looks empty when full.
TokensCoverRing ==
    \A t \in Threads : At(t, "do") =>
        IF call[t].sem = "readsem" THEN readpos # writepos
                                   ELSE (writepos + 1) % len # readpos

\* The calls that hold a token of semaphore s, and those of them that have
\* written or read their slot
Holders(s) == {t \in Threads : pc[t] \in {"do", "up"} /\ call[t].sem = s}

Moved(s) == {t \in Threads : At(t, "up") /\ call[t].sem = s}

\* Tokens are conserved: each slot is counted by a semaphore or is in the hands
\* of one call between its down and its up.
TokensConserved ==
    /\ count["readsem"] + count["writesem"]
         + Cardinality(Holders("readsem")) + Cardinality(Holders("writesem")) = Size
    /\ count["readsem"] + Cardinality(Holders("readsem")) + Cardinality(Moved("writesem"))
         = Used + Cardinality(Moved("readsem"))

\* The messages in the ring, from the read position on
queue == [i \in 1 .. Used |-> msgs[(readpos + i - 1) % len]]

Fifo == INSTANCE BoundedFifo WITH box <- msg

\* The mailbox is a bounded FIFO: no message is lost, duplicated or reordered,
\* whatever posts and receptions of threads and interrupts overlap.
IsFifo == Fifo!Spec

-----------------------------------------------------------------------------
(* The inductive invariant behind the safety properties                     *)

MboxTyped == /\ pc \in [Threads -> WaitPlaces \cup {"out", "lock", "do", "up", "wake"}]
             /\ count \in [Queues -> Nat]
             /\ call \in [Threads -> [sem : Queues \cup {NoThread}, timed : BOOLEAN]]
             /\ msgs \in [0 .. Size -> Messages \cup {NoMessage}]
             /\ readpos \in 0 .. Size
             /\ writepos \in 0 .. Size
             /\ msg \in [Threads -> Messages \cup {NoMessage}]

\* Until it has the ring, a call that takes a message has none
MboxCalls ==
    \A t \in Threads :
        /\ pc[t] \in WaitPlaces \cup {"lock", "do", "up"} => call[t].sem \in {"readsem", "writesem"}
        /\ pc[t] \in WaitPlaces \cup {"lock", "do"} => (msg[t] = NoMessage <=> call[t].sem = "readsem")

MboxInv == MboxTyped /\ MboxCalls /\ TokensConserved
=============================================================================
