------------------------------ MODULE PollQueue ------------------------------
(***************************************************************************)
(* Poll queues (lib/ukfile): threads wait for event bits with a ticket on  *)
(* a list; whoever sets bits walks the list.  Chained updates, and edge    *)
(* polls (which have no caller), are left out.                             *)
(*                                                                         *)
(* waitlock is an rwlock with the guarantees RWLock establishes: pollers   *)
(* that register hold it shared (pc "register" and "link"), a walk of the  *)
(* list is one exclusive step.  The events are read and updated without it.*)
(*                                                                         *)
(* The list is its links: a ticket is its poller, next leads from ticket   *)
(* to ticket, and a walk sees the tickets the links lead to.               *)
(***************************************************************************)
EXTENDS TailQueues, FiniteSets

CONSTANTS Pollers, Setters,
          Events,    \* event bits
          Limits,    \* values of n: how many threads to wake, -1 for all
          ListHead,  \* its link is q->wait
          NoTicket   \* the null pointer

ASSUME PollQueueAssumption == /\ ListHead \notin Pollers /\ NoTicket \notin Pollers
                              /\ Limits \subseteq Int

Threads == Pollers \cup Setters

VARIABLES events, waitmask,
          wait,      \* the registered tickets, in the order of their exchanges
          next,      \* the links: from the list head and from the tickets
          waitend,   \* whose link is the tail of the list
          tail,      \* local of a poller: whose link it has got to fill
          pc,
          mask,      \* req of a poller's call, set of a setter's
          limit,     \* n of a setter's call
          timed,     \* pollers whose call has a deadline
          late,      \* and whose deadline has passed
          blocked,
          passed     \* ghost: tickets that a walk has left on the list unseen

vars == <<events, waitmask, wait, next, waitend, tail, pc, mask, limit, timed, late, blocked, passed>>

queueVars == <<waitmask, wait, next, waitend, tail, passed>>
callVars == <<mask, limit, timed>>

TypeOK == /\ events \subseteq Events /\ waitmask \subseteq Events
          /\ wait \in Seq(Pollers) /\ waitend \in Pollers \cup {ListHead}
          /\ next \in [Pollers \cup {ListHead} -> Pollers \cup {NoTicket}]
          /\ tail \in [Pollers -> Pollers \cup {ListHead}]
          /\ pc \in [Threads -> {"out", "look", "lock", "register", "link", "sleep", "notify"}]
          /\ mask \in [Threads -> SUBSET Events]
          /\ limit \in [Threads -> Limits \cup {0}]
          /\ late \subseteq timed /\ timed \subseteq Pollers
          /\ blocked \subseteq Pollers /\ passed \subseteq Pollers

\* uk_pollq_init(), with some events set
InitWith(set) == /\ events = set /\ waitmask = {}
                 /\ wait = <<>> /\ waitend = ListHead
                 /\ next = [x \in Pollers \cup {ListHead} |-> NoTicket]
                 /\ tail = [t \in Pollers |-> ListHead]
                 /\ pc = [t \in Threads |-> "out"]
                 /\ mask = [t \in Threads |-> {}]
                 /\ limit = [t \in Threads |-> 0]
                 /\ timed = {} /\ late = {} /\ blocked = {} /\ passed = {}

Init == InitWith({})

At(t, place) == pc[t] = place

Goto(t, place) == pc' = [pc EXCEPT ![t] = place]

\* A call returns; its locals are gone
Return(t) == /\ Goto(t, "out")
             /\ mask' = [mask EXCEPT ![t] = {}]
             /\ timed' = timed \ {t}
             /\ late' = late \ {t}
             /\ limit' = [limit EXCEPT ![t] = 0]

BeginPoll(t, req, deadline) ==
    /\ Goto(t, "look")
    /\ mask' = [mask EXCEPT ![t] = req]
    /\ timed' = IF deadline THEN timed \cup {t} ELSE timed
    /\ UNCHANGED <<queueVars, limit, late, blocked>>

\* uk_pollq_poll_until(q, req, deadline)
uk_pollq_poll_until(t, req, deadline) ==
    /\ At(t, "out")
    /\ BeginPoll(t, req, deadline)
    /\ UNCHANGED events

\* uk_pollq_poll_immediate() in the loop of uk_pollq_poll_until()
Look(t) ==
    /\ At(t, "look")
    /\ IF events \cap mask[t] # {} THEN Return(t)
       ELSE Goto(t, "lock") /\ UNCHANGED <<callVars, late>>
    /\ UNCHANGED <<events, queueVars, blocked>>

\* Mutant: events are not looked at again under the lock
LockUnchecked(t) ==
    /\ At(t, "lock")
    /\ Goto(t, "register")
    /\ UNCHANGED <<events, queueVars, callVars, late, blocked>>

_pollq_lock(t) ==
    /\ At(t, "lock")
    /\ IF events \cap mask[t] # {} THEN Return(t)
       ELSE Goto(t, "register") /\ UNCHANGED <<callVars, late>>
    /\ UNCHANGED <<events, queueVars, blocked>>

\* _pollq_wait() up to the exchange: others may exchange before it links
_pollq_wait(t) ==
    /\ At(t, "register")
    /\ waitmask' = waitmask \cup mask[t]
    /\ next' = [next EXCEPT ![t] = NoTicket]
    /\ tail' = [tail EXCEPT ![t] = waitend]
    /\ waitend' = t
    /\ wait' = Append(wait, t)
    /\ Goto(t, "link")
    /\ UNCHANGED <<events, callVars, late, blocked, passed>>

\* _pollq_wait() up to its yield: link the ticket in, block and unlock
LinkTicket(t) ==
    /\ At(t, "link")
    /\ next' = [next EXCEPT ![tail[t]] = t]
    /\ tail' = [tail EXCEPT ![t] = ListHead]
    /\ blocked' = blocked \cup {t}
    /\ Goto(t, "sleep")
    /\ UNCHANGED <<events, waitmask, wait, waitend, callVars, late, passed>>

WaitlockFree == \A t \in Threads : ~At(t, "register") /\ ~At(t, "link")

\* Whose link should lead to the i-th ticket
PrevOf(i) == IF i = 1 THEN ListHead ELSE wait[i - 1]

\* The tickets that a walk from q->wait comes to
Linked == {i \in DOMAIN wait : \A j \in 1..i : next[PrevOf(j)] = wait[j]}

TailOf(list) == IF list = <<>> THEN ListHead ELSE list[Len(list)]

\* How many of the positions ps come up to p
UpTo(ps, p) == Cardinality({x \in ps : x <= p})

\* The elements of a list at the positions ps, in their order
Keep(list, ps) == [k \in 1..Cardinality(ps) |-> list[CHOOSE p \in ps : UpTo(ps, p) = k]]

\* *p = t->next and t->next = NULL, for the tickets at the positions ps
SkipLinks(ps) ==
    LET gone == {wait[i] : i \in ps}
    IN  next' = [x \in DOMAIN next |-> CASE x \in gone -> NoTicket
                                         [] x \notin gone /\ next[x] \in gone -> next[next[x]]
                                         [] OTHER -> next[x]]

\* Mutant: unlinking the last ticket does not move waitend
UnlinkKeepsEnd(ps) == /\ wait' = Keep(wait, DOMAIN wait \ ps)
                      /\ SkipLinks(ps)
                      /\ UNCHANGED <<waitend, tail>>

\* Unlink tickets of which no two are neighbours; where no ticket follows, the
\* link that led to the ticket is the new waitend
Unlink(ps) ==
    LET ends == {i \in ps : next[wait[i]] = NoTicket}
    IN  /\ wait' = Keep(wait, DOMAIN wait \ ps)
        /\ SkipLinks(ps)
        /\ waitend' = IF ends = {} THEN waitend ELSE PrevOf(CHOOSE i \in ends : TRUE)
        /\ UNCHANGED tail

uk_pollq_cancel_ticket(t) ==
    /\ WaitlockFree
    /\ Unlink({i \in Linked : wait[i] = t})
    /\ passed' = passed \ {t}
    /\ UNCHANGED waitmask

\* Mutant: a poll that timed out leaves its ticket on the list
AwakeKeepsTicket(t) ==
    /\ At(t, "sleep")
    /\ t \notin blocked
    /\ IF t \in late THEN Return(t)
       ELSE Goto(t, "look") /\ UNCHANGED <<callVars, late>>
    /\ UNCHANGED <<events, queueVars, blocked>>

\* _pollq_wait() after its yield: give up or loop
Awake(t) ==
    /\ At(t, "sleep")
    /\ t \notin blocked
    /\ \/ /\ t \in late
          /\ uk_pollq_cancel_ticket(t)
          /\ Return(t)
       \/ /\ t \notin late
          /\ Goto(t, "look")
          /\ UNCHANGED <<queueVars, callVars, late>>
    /\ UNCHANGED <<events, blocked>>

Expire(t) ==
    /\ t \in timed \ late
    /\ late' = late \cup {t}
    /\ UNCHANGED <<events, queueVars, pc, callVars, blocked>>

TimedWake(t) ==
    /\ t \in blocked \cap late
    /\ blocked' = blocked \ {t}
    /\ UNCHANGED <<events, queueVars, pc, callVars, late>>

\* uk_pollq_clear()
uk_pollq_clear(clr) ==
    /\ events' = events \ clr
    /\ UNCHANGED <<queueVars, pc, callVars, late, blocked>>

BeginNotify(t, set, n) ==
    /\ Goto(t, "notify")
    /\ mask' = [mask EXCEPT ![t] = set]
    /\ limit' = [limit EXCEPT ![t] = n]
    /\ UNCHANGED <<queueVars, timed, late, blocked>>

\* uk_pollq_set_n(), up to the notification
uk_pollq_set_n(t, set, n) ==
    /\ At(t, "out")
    /\ events' = events \cup set
    /\ BeginNotify(t, set, n)

\* uk_pollq_assign_n(): bits that were set already notify nobody
uk_pollq_assign_n(t, val, n) ==
    /\ At(t, "out")
    /\ events' = val
    /\ IF val \ events # {} THEN BeginNotify(t, val \ events, n)
       ELSE UNCHANGED <<queueVars, pc, callVars, late, blocked>>

\* The walk of pollq_notify_n() unlinks the tickets at the positions hit, at most
\* n.  After each it advances from the successor, which is passed over.
Spent(hit, i, n) == Cardinality({h \in hit : h < i}) = n

PassedOver(hit, i, n) == i - 1 \in hit \/ Spent(hit, i, n)

Hits(hit, set, n) ==
    \A i \in Linked :
        i \in hit <=> ~PassedOver(hit, i, n) /\ mask[wait[i]] \cap set # {}

\* Wake those waiters; at the end of the list, prune waitmask to what was seen
Walk(set, n) ==
    \E hit \in SUBSET Linked :
        LET over == {i \in Linked : PassedOver(hit, i, n)}
            tickets(ps) == {wait[i] : i \in ps}
        IN  /\ Hits(hit, set, n)
            /\ Unlink(hit)
            /\ blocked' = blocked \ tickets(hit)
            /\ waitmask' = IF \E i \in Linked : i - 1 \notin hit /\ Spent(hit, i, n)
                           THEN waitmask
                           ELSE UNION {mask[t] : t \in tickets(Linked \ (hit \cup over))}
            /\ passed' = (passed \ tickets(hit)) \cup tickets(over)

\* With waitlock
pollq_notify_n(t) ==
    /\ At(t, "notify")
    /\ WaitlockFree
    /\ IF waitmask \cap mask[t] # {} THEN Walk(mask[t], limit[t])
       ELSE UNCHANGED <<queueVars, blocked>>
    /\ Return(t)
    /\ UNCHANGED events

Step(t) == Look(t) \/ _pollq_lock(t) \/ _pollq_wait(t) \/ LinkTicket(t) \/ Awake(t)

Poll(t) == \E req \in SUBSET Events \ {{}}, deadline \in BOOLEAN :
              uk_pollq_poll_until(t, req, deadline)

Set(t) == \E set \in SUBSET Events \ {{}}, n \in Limits :
              uk_pollq_set_n(t, set, n) \/ uk_pollq_assign_n(t, set, n)

Clear == \E clr \in SUBSET Events \ {{}} : uk_pollq_clear(clr)

Next == \/ \E t \in Pollers : Poll(t) \/ Step(t) \/ Expire(t) \/ TimedWake(t)
        \/ \E t \in Setters : Set(t) \/ pollq_notify_n(t)
        \/ Clear

Spec == Init /\ [][Next]_vars

-----------------------------------------------------------------------------
OnList(t) == On(wait, t)

\* A ticket lives on its poller's stack: it is on the list only while the poller
\* is in _pollq_wait(), at most once, and a sleeper's ticket is on the list.
NoDanglingTicket ==
    /\ \A t \in Pollers : OnList(t) => At(t, "link") \/ At(t, "sleep")
    /\ \A t \in blocked : OnList(t)
    /\ NoDuplicates(wait)

\* The assertion of _pollq_wait(), UK_ASSERT(!*tail): nobody else fills the link
\* that a poller got from the exchange.  And once nobody is registering, a walk
\* comes to every ticket, and waitend is the end of the list: pollers may link
\* their tickets in another order than they exchanged, and walks and timeouts
\* unlink the last one.
GenuineTail ==
    /\ \A t \in Pollers : At(t, "link") => next[tail[t]] = NoTicket
    /\ WaitlockFree => /\ Linked = DOMAIN wait
                       /\ waitend = TailOf(wait) /\ next[waitend] = NoTicket

\* A notification of an event that t polls for is under way
NotifiedSoon(t) == \E u \in Setters : At(u, "notify") /\ mask[u] \cap mask[t] # {}

\* No event is missed: when a poller sleeps although an event it waits for is
\* set, a notification of that event is still under way, or a walk has come as
\* far as its ticket and left it there without a look.
NoMissedEvent ==
    \A t \in blocked \ passed : events \cap mask[t] # {} => NotifiedSoon(t)

-----------------------------------------------------------------------------
(* Why these hold, along every step                                        *)

\* waitmask covers the tickets a walk has not passed over, and a poller that is
\* about to block has not missed a walk; only a deadline wakes a poller whose
\* ticket is still on the list.
QueueInv ==
    /\ \A t \in Pollers : OnList(t) /\ t \notin passed => mask[t] \subseteq waitmask
    /\ \A t \in Pollers : (At(t, "register") \/ At(t, "link")) /\ events \cap mask[t] # {}
                             => NotifiedSoon(t)
    /\ \A t \in Pollers : OnList(t) /\ t \notin blocked => At(t, "link") \/ t \in late
    /\ \A t \in passed : OnList(t)

\* The links are those of the list, except where a poller has still to fill one:
\* that one is empty, and the poller knows it.
LinkInv ==
    /\ waitend = TailOf(wait) /\ next[waitend] = NoTicket
    /\ \A t \in Pollers : At(t, "link") => OnList(t)
    /\ \A i \in DOMAIN wait :
          IF At(wait[i], "link") THEN tail[wait[i]] = PrevOf(i) /\ next[PrevOf(i)] = NoTicket
          ELSE next[PrevOf(i)] = wait[i]

PollqInv == TypeOK /\ NoDanglingTicket /\ NoMissedEvent /\ QueueInv /\ LinkInv

-----------------------------------------------------------------------------
\* pollqueue.h, uk_pollq_set_n(): "If < 0 wake up all threads."
WakesAll == [][\A u \in Setters :
                 pollq_notify_n(u) /\ limit[u] < 0
                     => \A t \in blocked' : mask[t] \cap mask[u] = {}]_vars
=============================================================================
