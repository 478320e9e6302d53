-------------------------- MODULE Semaphore_proofs --------------------------
(***************************************************************************)
(* Proofs about Semaphore, for any number of threads and of semaphores,    *)
(* and about Mbox, for any number of threads and handlers and any size.    *)
(* The first part uses nothing of Mbox.                                    *)
(***************************************************************************)
EXTENDS Mbox, TailQueues_proofs, FiniteSets

\* A semaphore fresh from uk_semaphore_init() satisfies the inductive invariant.
LEMMA InitInv == SemInit => SemInv
<1> SUFFICES ASSUME SemInit PROVE SemInv
  OBVIOUS
<1> USE SemaphoreAssumption DEF SemInit, CountInit, WaitInit
<1>1. /\ wait_list \in [Queues -> Seq(Threads)] /\ \A s \in Queues : wait_list[s] = <<>>
      /\ blocked = {}
  OBVIOUS
<1>2. \A s \in Queues : NoDuplicates(wait_list[s]) /\ \A t : ~On(wait_list[s], t)
  BY <1>1 DEF On, NoDuplicates
<1>3. SemTyped
  BY <1>1 DEF SemTyped, WaitTypeOK, NoCall
<1>4. SemCalls
  BY <1>1, <1>2 DEF SemCalls, WaitPlaces
<1> QED
  BY <1>1, <1>2, <1>3, <1>4 DEF SemInv, NoStaleEntry, NoLostUp

\* The looks of down() at the counter, in and out of the loop of the wait, do
\* not touch the queue: they preserve the invariant.
LEMMA LookInv ==
    ASSUME SemInv, NEW t \in Threads, UNCHANGED <<wait_list, blocked, semVars>>,
           \/ At(t, "wait") /\ Goto(t, "lock")
           \/ At(t, "wait") /\ Goto(t, "enqueue")
           \/ At(t, "enqueue") /\ Goto(t, "dequeue")
           \/ At(t, "sleep") /\ t \notin blocked /\ Goto(t, "recheck")
           \/ At(t, "recheck") /\ Goto(t, "dequeue")
           \/ At(t, "recheck") /\ Goto(t, "enqueue")
    PROVE  SemInv'
<1> USE DEF SemInv, At, Goto, semVars
<1>1. SemTyped'
  BY Zenon DEF SemTyped, WaitTypeOK, WaitPlaces
<1>2. SemCalls'
  BY DEF SemTyped, WaitTypeOK, SemCalls, WaitPlaces
<1>3. NoStaleEntry'
  <2> SUFFICES ASSUME NEW u \in Threads, NEW s \in Queues, On(wait_list[s], u)
               PROVE  pc'[u] \in {"enqueue", "sleep", "recheck", "dequeue"} /\ call[u].sem = s
    BY DEF NoStaleEntry
  <2>1. pc[u] \in {"enqueue", "sleep", "recheck", "dequeue"} /\ call[u].sem = s
    BY DEF NoStaleEntry
  <2> QED
    BY <2>1 DEF SemTyped
<1>4. NoLostUp'
  BY DEF NoLostUp, Available, SpinFree
<1> QED
  BY <1>1, <1>2, <1>3, <1>4

\* Entering the queue after a second look in vain preserves the invariant.
LEMMA EnqueueInv ==
    ASSUME SemInv, NEW t \in Threads, WaitEnqueue(t, call[t].sem, Available(t)), ~Available(t),
           UNCHANGED semVars
    PROVE  SemInv'
<1> DEFINE q == call[t].sem
           w == wait_list[q]
<1> USE DEF SemInv, At, semVars
<1>1. /\ At(t, "enqueue") /\ pc' = [pc EXCEPT ![t] = "sleep"]
      /\ blocked' = blocked \cup {t} /\ uk_waitq_add(q, t)
      /\ q \in Queues /\ w \in Seq(Threads) /\ NoDuplicates(w)
      /\ wait_list \in [Queues -> Seq(Threads)]
  BY DEF WaitEnqueue, Goto, SemCalls, SemTyped, WaitTypeOK, WaitPlaces
<1>2. /\ wait_list' \in [Queues -> Seq(Threads)]
      /\ \A s \in Queues : NoDuplicates(wait_list'[s])
      /\ \A s \in Queues : \A u : On(wait_list'[s], u) <=> On(wait_list[s], u) \/ (s = q /\ u = t)
  <2>1. CASE On(w, t)
    BY <1>1, <2>1 DEF uk_waitq_add, SemCalls
  <2>2. CASE ~On(w, t)
    <3>1. wait_list' = [wait_list EXCEPT ![q] = Append(w, t)]
      BY <2>2, <1>1 DEF uk_waitq_add
    <3>2. /\ Append(w, t) \in Seq(Threads) /\ NoDuplicates(Append(w, t))
          /\ \A u : On(Append(w, t), u) <=> On(w, u) \/ u = t
      BY <1>1, <2>2, AppendFacts
    <3>3. wait_list'[q] = Append(w, t) /\ \A s \in Queues \ {q} : wait_list'[s] = wait_list[s]
      BY <1>1, <3>1
    <3> QED
      BY <1>1, <3>1, <3>2, <3>3 DEF SemCalls
  <2> QED
    BY <2>1, <2>2, Zenon
<1>3. SemTyped'
  BY <1>1, <1>2 DEF SemTyped, WaitTypeOK, WaitPlaces
<1>4. SemCalls'
  BY <1>1, <1>2 DEF SemCalls, SemTyped, WaitTypeOK, WaitPlaces
<1>5. NoStaleEntry'
  BY <1>1, <1>2 DEF NoStaleEntry, SemTyped
<1>6. NoLostUp'
  <2> SUFFICES ASSUME NEW u \in blocked'
               PROVE  On(wait_list'[call[u].sem], u) /\ (Available(u) => ~SpinFree(call[u].sem))
    BY DEF NoLostUp, Available, SpinFree
  <2>1. CASE u = t
    BY <1>1, <1>2, <2>1
  <2>2. CASE u # t
    <3>1. u \in blocked /\ u \in Threads /\ call[u].sem \in Queues
      BY <1>1, <2>2 DEF SemTyped, WaitTypeOK, SemCalls, WaitPlaces
    <3> QED
      BY <3>1, <1>2 DEF NoLostUp
  <2> QED
    BY <2>1, <2>2
<1> QED
  BY <1>3, <1>4, <1>5, <1>6

\* Leaving the queue preserves the invariant.
LEMMA DequeueInv ==
    ASSUME SemInv, NEW t \in Threads, WaitDequeue(t, call[t].sem, "lock"), UNCHANGED semVars
    PROVE  SemInv'
<1> DEFINE q == call[t].sem
           w == wait_list[q]
<1> USE DEF SemInv, At, semVars
<1>1. /\ At(t, "dequeue") /\ pc' = [pc EXCEPT ![t] = "lock"]
      /\ blocked' = blocked \ {t} /\ wait_list' = [wait_list EXCEPT ![q] = UK_TAILQ_REMOVE(w, t)]
      /\ q \in Queues /\ w \in Seq(Threads) /\ NoDuplicates(w)
      /\ wait_list \in [Queues -> Seq(Threads)]
  BY DEF WaitDequeue, Goto, SemCalls, SemTyped, WaitTypeOK, WaitPlaces
<1>2. /\ UK_TAILQ_REMOVE(w, t) \in Seq(Threads) /\ NoDuplicates(UK_TAILQ_REMOVE(w, t))
      /\ \A u : On(UK_TAILQ_REMOVE(w, t), u) <=> On(w, u) /\ u # t
  BY <1>1, RemoveFacts
<1>3. wait_list'[q] = UK_TAILQ_REMOVE(w, t) /\ \A s \in Queues \ {q} : wait_list'[s] = wait_list[s]
  BY <1>1
<1>4. /\ wait_list' \in [Queues -> Seq(Threads)]
      /\ \A s \in Queues : NoDuplicates(wait_list'[s])
      /\ \A s \in Queues : \A u : On(wait_list'[s], u) <=> On(wait_list[s], u) /\ ~(s = q /\ u = t)
  BY <1>1, <1>2, <1>3 DEF SemCalls
<1>5. SemTyped'
  BY <1>1, <1>4 DEF SemTyped, WaitTypeOK, WaitPlaces
<1>6. SemCalls'
  BY <1>1, <1>4 DEF SemCalls, SemTyped, WaitTypeOK, WaitPlaces
<1>7. NoStaleEntry'
  BY <1>1, <1>4 DEF NoStaleEntry, SemTyped
<1>8. NoLostUp'
  <2> SUFFICES ASSUME NEW u \in blocked'
               PROVE  On(wait_list'[call[u].sem], u) /\ (Available(u) => ~SpinFree(call[u].sem))
    BY DEF NoLostUp, Available, SpinFree
  <2>1. u \in blocked /\ u # t /\ u \in Threads /\ call[u].sem \in Queues
    BY <1>1 DEF SemTyped, WaitTypeOK, SemCalls, WaitPlaces
  <2> QED
    BY <2>1, <1>4 DEF NoLostUp
<1> QED
  BY <1>5, <1>6, <1>7, <1>8

\* The steps outside of the wait leave the queues alone: they preserve the
\* invariant if the calls and the counters of sleepers stay as they must.
LEMMA OutsideInv ==
    ASSUME SemInv, NEW t \in Threads,
           pc[t] \in {"out", "lock", "wake"}, SemTyped', UNCHANGED wait_list,
           blocked' \subseteq blocked,
           \A u \in Threads \ {t} : pc'[u] = pc[u] /\ call'[u] = call[u],
           pc'[t] \in WaitPlaces \cup {"lock"} => call'[t].sem \in Queues,
           \A u \in blocked' : count'[call[u].sem] > 0 => sl'[call[u].sem] # NoThread
    PROVE  SemInv'
<1> USE DEF SemInv, At
<1>1. \A u \in blocked : u \in Threads /\ u # t /\ At(u, "sleep") /\ call[u].sem \in Queues
  BY DEF SemTyped, WaitTypeOK, SemCalls, WaitPlaces
<1>2. \A s \in Queues : ~On(wait_list[s], t)
  BY DEF NoStaleEntry
<1>3. SemCalls'
  BY <1>1 DEF SemCalls
<1>4. NoStaleEntry'
  BY <1>2 DEF NoStaleEntry
<1>5. NoLostUp'
  BY <1>1 DEF NoLostUp, Available, SpinFree
<1> QED
  BY <1>3, <1>4, <1>5

\* Every step of every thread preserves the inductive invariant.
LEMMA NextInv == ASSUME SemInv, [SemNext]_vars_s PROVE SemInv'
<1> USE SemaphoreAssumption
<1>1. /\ SemTyped /\ SemCalls /\ NoLostUp /\ NoStaleEntry
      /\ \A u \in blocked : /\ u \in Threads /\ At(u, "sleep") /\ call[u].sem \in Queues
                            /\ count[call[u].sem] > 0 => sl[call[u].sem] # NoThread
  BY DEF SemInv, SemTyped, WaitTypeOK, SemCalls, WaitPlaces, At, NoLostUp, Available, SpinFree
<1>2. ASSUME NEW t \in Threads, DownWait(t) PROVE SemInv'
  <2>1. CASE WaitCheck(t, Available(t), "lock")
    BY <1>2, <2>1, LookInv DEF WaitCheck, DownWait, waitVars
  <2>2. CASE WaitEnqueue(t, call[t].sem, Available(t))
    <3>1. CASE Available(t)
      BY <1>2, <2>2, <3>1, LookInv DEF WaitEnqueue, DownWait, waitVars
    <3>2. CASE ~Available(t)
      BY <1>2, <2>2, <3>2, EnqueueInv DEF DownWait
    <3> QED
      BY <3>1, <3>2
  <2>3. CASE WaitYield(t)
    BY <1>2, <2>3, LookInv DEF WaitYield, DownWait, waitVars
  <2>4. CASE WaitRecheck(t, Available(t), t \in late)
    BY <1>2, <2>4, LookInv DEF WaitRecheck, DownWait, waitVars
  <2>5. CASE WaitDequeue(t, call[t].sem, "lock")
    BY <1>2, <2>5, DequeueInv DEF DownWait
  <2> QED
    BY <1>2, <2>1, <2>2, <2>3, <2>4, <2>5 DEF DownWait
<1>3. ASSUME NEW t \in Threads, DownLock(t, "out", "out") PROVE SemInv'
  <2> DEFINE q == call[t].sem
  <2>1. /\ pc[t] = "lock" /\ q \in Queues
        /\ count' = [count EXCEPT ![q] = IF count[q] > 0 THEN count[q] - 1 ELSE count[q]]
        /\ UNCHANGED <<wait_list, blocked, sl>>
        /\ \E place \in {"out", "wait"} : Continue(t, place)
    BY <1>1, <1>3 DEF DownLock, At, Available, waitVars, SemCalls
  <2>2. PICK place \in {"out", "wait"} : Continue(t, place)
    BY <2>1
  <2>3. /\ pc' = [pc EXCEPT ![t] = place]
        /\ call' \in {call, [call EXCEPT ![t] = NoCall]} /\ (place = "wait" => call' = call)
        /\ late' \subseteq late
    BY <2>2 DEF Continue, Goto
  <2>4. SemTyped'
    <3>1. count' \in [Queues -> Nat]
      BY <1>1, <2>1 DEF SemTyped
    <3>2. call' \in [Threads -> [sem : Queues \cup {NoThread}, timed : BOOLEAN]]
      <4>1. NoCall \in [sem : Queues \cup {NoThread}, timed : BOOLEAN]
        BY DEF NoCall
      <4> QED
        BY <1>1, <2>3, <4>1 DEF SemTyped
    <3>3. pc' \in [Threads -> WaitPlaces \cup {"out", "lock", "wake"}]
      BY <1>1, <2>3 DEF SemTyped, WaitPlaces
    <3> QED
      BY <1>1, <2>1, <2>3, <3>1, <3>2, <3>3 DEF SemTyped, WaitTypeOK
  <2>5. \A u \in blocked : count'[call[u].sem] > 0 => count[call[u].sem] > 0
    BY <1>1, <2>1 DEF SemTyped
  <2>6. \A u \in Threads \ {t} : pc'[u] = pc[u] /\ call'[u] = call[u]
    BY <1>1, <2>3 DEF SemTyped
  <2>7. pc'[t] \in WaitPlaces \cup {"lock"} => call'[t].sem \in Queues
    BY <1>1, <2>1, <2>3 DEF SemTyped, WaitPlaces
  <2> QED
    BY <1>1, <2>1, <2>4, <2>5, <2>6, <2>7, OutsideInv
<1>4. ASSUME NEW t \in Threads, NEW s \in Queues, UpWake(t, s) PROVE SemInv'
  <2>1. /\ pc[t] = "wake" /\ pc' = [pc EXCEPT ![t] = "out"]
        /\ blocked' = {u \in blocked : ~On(wait_list[s], u)}
        /\ UNCHANGED <<wait_list, count>> /\ sl' = [sl EXCEPT ![s] = NoThread]
        /\ call' = [call EXCEPT ![t] = NoCall] /\ late' = late \ {t}
    BY <1>4 DEF UpWake, At, uk_waitq_wake_up, Continue, Goto
  <2>2. SemTyped'
    BY <1>1, <2>1 DEF SemTyped, WaitTypeOK, NoCall
  <2>3. \A u \in blocked' : call[u].sem # s
    BY <1>1, <2>1 DEF NoLostUp
  <2>4. \A u \in blocked' : sl'[call[u].sem] = sl[call[u].sem]
    BY <1>1, <2>1, <2>3 DEF SemTyped
  <2>5. \A u \in Threads \ {t} : pc'[u] = pc[u] /\ call'[u] = call[u]
    BY <1>1, <2>1 DEF SemTyped
  <2>6. pc'[t] = "out"
    BY <1>1, <2>1 DEF SemTyped
  <2> QED
    BY <1>1, <2>1, <2>2, <2>4, <2>5, <2>6, OutsideInv DEF WaitPlaces
<1>5. ASSUME NEW t \in Threads, NEW s \in Queues, NEW timed \in BOOLEAN,
             uk_semaphore_down(t, s, timed)
      PROVE  SemInv'
  <2>1. /\ pc[t] = "out" /\ pc' = [pc EXCEPT ![t] = "wait"]
        /\ call' = [call EXCEPT ![t] = [sem |-> s, timed |-> timed]]
        /\ UNCHANGED <<wait_list, blocked, count, sl, late>>
    BY <1>5 DEF uk_semaphore_down, At, Goto, waitVars
  <2>2. SemTyped'
    BY <1>1, <2>1 DEF SemTyped, WaitTypeOK, WaitPlaces
  <2>3. call'[t].sem = s /\ \A u \in Threads \ {t} : pc'[u] = pc[u] /\ call'[u] = call[u]
    BY <1>1, <2>1 DEF SemTyped
  <2> QED
    BY <1>1, <2>1, <2>2, <2>3, OutsideInv
<1>6. ASSUME NEW t \in Threads, NEW s \in Queues, uk_semaphore_down_try(t, s, "out") PROVE SemInv'
  <2>1. /\ pc[t] = "out" /\ UNCHANGED <<pc, call, wait_list, blocked, sl, late>>
        /\ count' = [count EXCEPT ![s] = IF count[s] > 0 THEN count[s] - 1 ELSE count[s]]
    BY <1>6 DEF uk_semaphore_down_try, At, waitVars
  <2>2. SemTyped'
    BY <1>1, <2>1 DEF SemTyped, WaitTypeOK
  <2>3. \A u \in blocked : count'[call[u].sem] > 0 => count[call[u].sem] > 0
    BY <1>1, <2>1 DEF SemTyped
  <2> QED
    BY <1>1, <2>1, <2>2, <2>3, OutsideInv DEF WaitPlaces
<1>7. ASSUME NEW t \in Threads, NEW s \in Queues, uk_semaphore_up(t, s, "out") PROVE SemInv'
  <2>1. /\ pc[t] = "out" /\ pc' = [pc EXCEPT ![t] = "wake"]
        /\ UNCHANGED <<call, wait_list, blocked, late>>
        /\ count' = [count EXCEPT ![s] = count[s] + 1] /\ sl' = [sl EXCEPT ![s] = t]
    BY <1>7 DEF uk_semaphore_up, At, Goto, waitVars
  <2>2. SemTyped'
    BY <1>1, <2>1 DEF SemTyped, WaitTypeOK
  <2>3. \A u \in blocked : count'[call[u].sem] > 0 => sl'[call[u].sem] # NoThread
    BY <1>1, <2>1 DEF SemTyped
  <2>4. pc'[t] = "wake" /\ \A u \in Threads \ {t} : pc'[u] = pc[u]
    BY <1>1, <2>1 DEF SemTyped
  <2> QED
    BY <1>1, <2>1, <2>2, <2>3, <2>4, OutsideInv DEF WaitPlaces
<1>8. ASSUME NEW t \in Threads, Timer(t) PROVE SemInv'
  <2>1. /\ UNCHANGED <<pc, wait_list, count, sl, call>>
        /\ blocked' \subseteq blocked /\ late' \subseteq late \cup {t}
    BY <1>8 DEF Timer, Expire, TimedWake, waitVars, semVars
  <2> QED
    BY <1>1, <2>1
    DEF SemInv, SemTyped, WaitTypeOK, SemCalls, NoStaleEntry, NoLostUp, Available, SpinFree, At
<1>9. CASE UNCHANGED vars_s
  BY <1>1, <1>9
  DEF vars_s, SemInv, SemTyped, WaitTypeOK, SemCalls, NoStaleEntry, NoLostUp, Available, SpinFree, At
<1> QED
  BY <1>2, <1>3, <1>4, <1>5, <1>6, <1>7, <1>8, <1>9 DEF SemNext, SemCall, SemStep

\* The inductive invariant holds in every reachable state.
THEOREM SemInvariance == SemSpec => []SemInv
BY InitInv, NextInv, PTL DEF SemSpec

\* No up() is lost on a thread that sleeps in down().
THEOREM SemWakes == SemSpec => []NoLostUp
<1>1. SemInv => NoLostUp
  BY DEF SemInv
<1> QED
  BY SemInvariance, <1>1, PTL

\* No call of down(), timed out or not, leaves its entry on the wait queue.
THEOREM SemLeavesNothing == SemSpec => []NoStaleEntry
<1>1. SemInv => NoStaleEntry
  BY DEF SemInv
<1> QED
  BY SemInvariance, <1>1, PTL

\* The counter is never decremented below zero.
THEOREM SemTokens == SemSpec => []NeverNegative
<1>1. SemInv => NeverNegative
  BY DEF SemInv, SemTyped, NeverNegative
<1> QED
  BY SemInvariance, <1>1, PTL

-----------------------------------------------------------------------------
(* The mailbox                                                              *)

\* Positions in the ring of a mailbox: what % does within one turn.
LEMMA RingFacts ==
    ASSUME NEW n \in Nat \ {0}, NEW x \in Int, -n <= x, x < 2 * n
    PROVE  x % n = IF x < 0 THEN x + n ELSE IF x < n THEN x ELSE x - n
<1>1. \A y \in 0 .. (n - 1) : y % n = y
  BY Z3
<1>2. \A y \in 0 .. (n - 1) : (y + n) % n = y
  BY Z3
<1>3. \A y \in 0 .. (n - 1) : (y - n) % n = y
  BY Z3
<1>4. CASE x < 0
  <2>1. x + n \in 0 .. (n - 1) /\ (x + n) - n = x
    BY <1>4
  <2> QED
    BY <1>3, <1>4, <2>1
<1>5. CASE x >= 0 /\ x < n
  BY <1>1, <1>5
<1>6. CASE x >= n
  <2>1. x - n \in 0 .. (n - 1) /\ (x - n) + n = x
    BY <1>6
  <2> QED
    BY <1>2, <1>6, <2>1
<1> QED
  BY <1>4, <1>5, <1>6

\* How many messages the ring holds, and what a post or a reception does to it.
LEMMA UsedFacts ==
    ASSUME MboxTyped
    PROVE  /\ Used = IF writepos >= readpos THEN writepos - readpos ELSE writepos - readpos + len
           /\ Used \in 0 .. Size
           /\ (readpos + 1) % len \in 0 .. Size
           /\ (writepos + 1) % len \in 0 .. Size
           /\ Used = 0 <=> readpos = writepos
           /\ Used = Size <=> (writepos + 1) % len = readpos
           /\ Used < Size => (((writepos + 1) % len) - readpos) % len = Used + 1
           /\ Used > 0 => (writepos - ((readpos + 1) % len)) % len = Used - 1
<1>1. /\ Size \in Nat \ {0} /\ len = Size + 1 /\ len \in Nat \ {0}
      /\ readpos \in 0 .. Size /\ writepos \in 0 .. Size
  BY MboxAssumption DEF MboxTyped, len
<1>2. \A x \in Int : -len <= x /\ x < 2 * len
                        => x % len = IF x < 0 THEN x + len ELSE IF x < len THEN x ELSE x - len
  BY <1>1, RingFacts, Zenon
<1>3. \A p \in 0 .. Size : (p + 1) % len = IF p = Size THEN 0 ELSE p + 1
  BY <1>1, <1>2
<1>4. \A p, q \in 0 .. Size : (p - q) % len = IF p >= q THEN p - q ELSE p - q + len
  <2> TAKE p, q \in 0 .. Size
  <2> DEFINE d == p - q
  <2>1. d \in Int /\ -len <= d /\ d < len /\ (d < 0 <=> ~(p >= q))
    BY <1>1
  <2> HIDE DEF d
  <2>2. d % len = IF d < 0 THEN d + len ELSE d
    <3>1. d < 2 * len
      BY <1>1, <2>1
    <3> QED
      BY <1>1, <1>2, <2>1, <3>1, Zenon
  <2> QED
    BY <2>1, <2>2 DEF d
<1>5. Used = IF writepos >= readpos THEN writepos - readpos ELSE writepos - readpos + len
  BY <1>1, <1>4 DEF Used
<1>6. /\ (readpos + 1) % len = IF readpos = Size THEN 0 ELSE readpos + 1
      /\ (writepos + 1) % len = IF writepos = Size THEN 0 ELSE writepos + 1
  BY <1>1, <1>3
<1>7. /\ (readpos + 1) % len \in 0 .. Size
      /\ (writepos + 1) % len \in 0 .. Size
  BY <1>1, <1>6
<1> HIDE DEF len
<1>8. Used < Size => (((writepos + 1) % len) - readpos) % len = Used + 1
  <2> DEFINE w == (writepos + 1) % len
  <2>1. (w - readpos) % len = IF w >= readpos THEN w - readpos ELSE w - readpos + len
    BY <1>1, <1>4, <1>7
  <2> HIDE DEF w
  <2> QED
    BY <1>1, <1>5, <1>6, <2>1 DEF w
<1>9. Used > 0 => (writepos - ((readpos + 1) % len)) % len = Used - 1
  <2> DEFINE r == (readpos + 1) % len
  <2>1. (writepos - r) % len = IF writepos >= r THEN writepos - r ELSE writepos - r + len
    BY <1>1, <1>4, <1>7
  <2> HIDE DEF r
  <2> QED
    BY <1>1, <1>5, <1>6, <2>1 DEF r
<1> QED
  BY <1>1, <1>5, <1>6, <1>7, <1>8, <1>9

\* The facts of FiniteSetTheorems that the tokens rest on.  The lemmas assume them;
\* they are cited where everything comes together, in MboxInvariance
Counting ==
    /\ Cardinality({}) = 0
    /\ \A S : IsFiniteSet(S) => Cardinality(S) \in Nat
    /\ \A S : IsFiniteSet(S) => \A T \in SUBSET S :
          IsFiniteSet(T) /\ Cardinality(T) <= Cardinality(S) /\ (Cardinality(T) = Cardinality(S) => T = S)
    /\ \A S : IsFiniteSet(S) => \A x :
          /\ x \notin S => Cardinality(S \cup {x}) = Cardinality(S) + 1
          /\ x \in S => Cardinality(S \ {x}) = Cardinality(S) - 1

\* A mailbox fresh from uk_mbox_create() satisfies the inductive invariant.
LEMMA MboxInitInv == ASSUME Counting, Init PROVE MboxInv
<1> USE DEF Init, CountInit
<1>1. MboxTyped
  BY SemaphoreAssumption, MboxAssumption DEF MboxTyped, NoCall
<1>2. MboxCalls
  BY DEF MboxCalls, WaitPlaces
<1>3. TokensConserved
  <2>1. \A s : Holders(s) = {} /\ Moved(s) = {}
    BY DEF Holders, Moved, At
  <2>2. \A s : Cardinality(Holders(s)) = 0 /\ Cardinality(Moved(s)) = 0
    BY <2>1, Zenon DEF Counting
  <2>3. Used = 0
    BY <1>1, UsedFacts
  <2>4. count["readsem"] = 0 /\ count["writesem"] = Size /\ Size \in Nat
    BY MboxAssumption
  <2> QED
    BY <2>2, <2>3, <2>4 DEF TokensConserved
<1> QED
  BY <1>1, <1>2, <1>3 DEF MboxInv

\* The numbers the conservation law is about are natural numbers.
LEMMA TokenTypes ==
    ASSUME Counting, MboxInv
    PROVE  /\ count["readsem"] \in Nat /\ count["writesem"] \in Nat
           /\ \A s : /\ IsFiniteSet(Holders(s)) /\ Cardinality(Holders(s)) \in Nat
                     /\ IsFiniteSet(Moved(s)) /\ Cardinality(Moved(s)) \in Nat
                     /\ Cardinality(Moved(s)) <= Cardinality(Holders(s))
           /\ Used \in 0 .. Size
<1>1. Used \in 0 .. Size
  BY UsedFacts DEF MboxInv
<1>2. ASSUME NEW s
      PROVE  /\ IsFiniteSet(Holders(s)) /\ Cardinality(Holders(s)) \in Nat
             /\ IsFiniteSet(Moved(s)) /\ Cardinality(Moved(s)) \in Nat
             /\ Cardinality(Moved(s)) <= Cardinality(Holders(s))
  <2>1. Holders(s) \in SUBSET Threads /\ Moved(s) \in SUBSET Holders(s)
    BY DEF Holders, Moved, At
  <2>2. IsFiniteSet(Holders(s)) /\ IsFiniteSet(Moved(s)) /\ Cardinality(Moved(s)) <= Cardinality(Holders(s))
    BY <2>1, MboxAssumption, Zenon DEF Counting
  <2> QED
    BY <2>2, Zenon DEF Counting
<1> QED
  BY <1>1, <1>2, MboxAssumption DEF MboxInv, MboxTyped

\* A finite set that one element joins, leaves or stays out of.
LEMMA CountMoves ==
    ASSUME Counting, NEW S, NEW T, NEW x, IsFiniteSet(S), \A y : y # x => (y \in T <=> y \in S)
    PROVE  Cardinality(T) = Cardinality(S) + (IF x \in T THEN 1 ELSE 0) - (IF x \in S THEN 1 ELSE 0)
<1>1. Cardinality(S) \in Nat
  BY Zenon DEF Counting
<1>2. CASE x \in T <=> x \in S
  <2>1. T = S
    BY <1>2
  <2> QED
    BY <1>1, <2>1
<1>3. CASE x \in T /\ x \notin S
  <2>1. T = S \cup {x}
    BY <1>3
  <2> QED
    BY <1>1, <1>3, <2>1 DEF Counting
<1>4. CASE x \notin T /\ x \in S
  <2>1. T = S \ {x}
    BY <1>4
  <2> QED
    BY <1>1, <1>4, <2>1 DEF Counting
<1> QED
  BY <1>2, <1>3, <1>4

\* A step of one thread changes, of those that hold a token, only that thread.
LEMMA HoldersMove ==
    ASSUME Counting, MboxInv, NEW t \in Threads,
           \A u \in Threads \ {t} : pc'[u] = pc[u] /\ call'[u] = call[u], NEW s
    PROVE  /\ Cardinality(Holders(s)') = Cardinality(Holders(s))
                + (IF pc'[t] \in {"do", "up"} /\ call'[t].sem = s THEN 1 ELSE 0)
                - (IF pc[t] \in {"do", "up"} /\ call[t].sem = s THEN 1 ELSE 0)
           /\ Cardinality(Moved(s)') = Cardinality(Moved(s))
                + (IF pc'[t] = "up" /\ call'[t].sem = s THEN 1 ELSE 0)
                - (IF pc[t] = "up" /\ call[t].sem = s THEN 1 ELSE 0)
<1>1. /\ \A u : u # t => (u \in Holders(s)' <=> u \in Holders(s))
      /\ t \in Holders(s)' <=> pc'[t] \in {"do", "up"} /\ call'[t].sem = s
      /\ t \in Holders(s) <=> pc[t] \in {"do", "up"} /\ call[t].sem = s
  BY DEF Holders
<1>2. /\ \A u : u # t => (u \in Moved(s)' <=> u \in Moved(s))
      /\ t \in Moved(s)' <=> pc'[t] = "up" /\ call'[t].sem = s
      /\ t \in Moved(s) <=> pc[t] = "up" /\ call[t].sem = s
  BY DEF Moved, At
<1>3. IsFiniteSet(Holders(s)) /\ IsFiniteSet(Moved(s))
  BY TokenTypes
<1>4. /\ Cardinality(Holders(s)') = Cardinality(Holders(s))
           + (IF t \in Holders(s)' THEN 1 ELSE 0) - (IF t \in Holders(s) THEN 1 ELSE 0)
      /\ Cardinality(Moved(s)') = Cardinality(Moved(s))
           + (IF t \in Moved(s)' THEN 1 ELSE 0) - (IF t \in Moved(s) THEN 1 ELSE 0)
  BY <1>1, <1>2, <1>3, CountMoves
<1> QED
  BY <1>1, <1>2, <1>4

\* A step outside of the ring and of the counters keeps the tokens.
LEMMA QuietTokens ==
    ASSUME Counting, MboxInv, NEW t \in Threads,
           \A u \in Threads \ {t} : pc'[u] = pc[u] /\ call'[u] = call[u],
           pc[t] \notin {"do", "up"}, pc'[t] \notin {"do", "up"},
           UNCHANGED <<count, readpos, writepos>>
    PROVE  TokensConserved'
<1>1. ASSUME NEW s
      PROVE  /\ Cardinality(Holders(s)') = Cardinality(Holders(s))
             /\ Cardinality(Moved(s)') = Cardinality(Moved(s))
  BY HoldersMove, TokenTypes
<1>2. Used' = Used
  BY DEF Used
<1> QED
  BY <1>1, <1>2 DEF MboxInv, TokensConserved

\* A down that succeeds turns a token of the semaphore into a holder.
LEMMA TakeTokens ==
    ASSUME Counting, MboxInv, NEW t \in Threads, NEW s \in {"readsem", "writesem"},
           \A u \in Threads \ {t} : pc'[u] = pc[u] /\ call'[u] = call[u],
           pc[t] \notin {"do", "up"}, pc'[t] = "do", call'[t].sem = s,
           count' = [count EXCEPT ![s] = count[s] - 1],
           UNCHANGED <<readpos, writepos>>
    PROVE  TokensConserved'
<1>1. ASSUME NEW r
      PROVE  /\ Cardinality(Holders(r)') = Cardinality(Holders(r)) + (IF r = s THEN 1 ELSE 0)
             /\ Cardinality(Moved(r)') = Cardinality(Moved(r))
  BY HoldersMove, TokenTypes
<1>2. Used' = Used
  BY DEF Used
<1>3. \A r \in {"readsem", "writesem"} : count'[r] = count[r] - (IF r = s THEN 1 ELSE 0)
  BY MboxAssumption DEF MboxInv, MboxTyped
<1> QED
  BY <1>1, <1>2, <1>3, TokenTypes DEF MboxInv, TokensConserved

\* A call that writes or reads its slot moves the ring by one.
LEMMA MoveTokens ==
    ASSUME Counting, MboxInv, NEW t \in Threads, NEW s \in {"readsem", "writesem"},
           \A u \in Threads \ {t} : pc'[u] = pc[u] /\ call'[u] = call[u],
           pc[t] = "do", pc'[t] = "up", call[t].sem = s, call'[t] = call[t],
           Used' = IF s = "readsem" THEN Used - 1 ELSE Used + 1,
           UNCHANGED count
    PROVE  TokensConserved'
<1>1. ASSUME NEW r
      PROVE  /\ Cardinality(Holders(r)') = Cardinality(Holders(r))
             /\ Cardinality(Moved(r)') = Cardinality(Moved(r)) + (IF r = s THEN 1 ELSE 0)
  BY HoldersMove, TokenTypes
<1> QED
  BY <1>1, TokenTypes DEF MboxInv, TokensConserved

\* An up turns a holder into a token of the other semaphore.
LEMMA GiveTokens ==
    ASSUME Counting, MboxInv, NEW t \in Threads,
           \A u \in Threads \ {t} : pc'[u] = pc[u] /\ call'[u] = call[u],
           pc[t] = "up", pc'[t] = "wake",
           count' = [count EXCEPT ![Gives(t)] = count[Gives(t)] + 1],
           UNCHANGED <<readpos, writepos>>
    PROVE  TokensConserved'
<1>1. PICK s \in {"readsem", "writesem"} : call[t].sem = s
  BY DEF MboxInv, MboxCalls
<1>2. ASSUME NEW r
      PROVE  /\ Cardinality(Holders(r)') = Cardinality(Holders(r)) - (IF r = s THEN 1 ELSE 0)
             /\ Cardinality(Moved(r)') = Cardinality(Moved(r)) - (IF r = s THEN 1 ELSE 0)
  BY <1>1, HoldersMove, TokenTypes
<1>3. Used' = Used
  BY DEF Used
<1>4. \A r \in {"readsem", "writesem"} : count'[r] = count[r] + (IF r = s THEN 0 ELSE 1)
  BY <1>1, MboxAssumption DEF MboxInv, MboxTyped, Gives
<1> QED
  BY <1>2, <1>3, <1>4, TokenTypes DEF MboxInv, TokensConserved

\* The assertions of the ring follow from the conservation of the tokens.
LEMMA HoldersCovered == ASSUME Counting, MboxInv PROVE TokensCoverRing
<1> SUFFICES ASSUME NEW t \in Threads, At(t, "do")
             PROVE  IF call[t].sem = "readsem" THEN Used > 0 ELSE Used < Size
  BY UsedFacts, MboxAssumption DEF TokensCoverRing, MboxInv, MboxTyped
<1> DEFINE s == call[t].sem
<1>1. s \in {"readsem", "writesem"}
  BY DEF MboxInv, MboxCalls, At
<1>2. t \in Holders(s) /\ t \notin Moved(s) /\ Moved(s) \subseteq Holders(s)
  BY DEF Holders, Moved, At
<1>3. Cardinality(Moved(s)) < Cardinality(Holders(s))
  <2>1. /\ IsFiniteSet(Holders(s)) /\ Cardinality(Moved(s)) <= Cardinality(Holders(s))
        /\ Cardinality(Moved(s)) \in Nat /\ Cardinality(Holders(s)) \in Nat
    BY TokenTypes, Zenon
  <2>2. Cardinality(Moved(s)) # Cardinality(Holders(s))
    BY <1>2, <2>1, Zenon DEF Counting
  <2> HIDE DEF s
  <2> QED
    BY <2>1, <2>2
<1> HIDE DEF s
<1>4. CASE s = "readsem"
  BY <1>3, <1>4, TokenTypes DEF MboxInv, TokensConserved, s
<1>5. CASE s = "writesem"
  BY <1>3, <1>5, TokenTypes, MboxAssumption DEF MboxInv, TokensConserved, s
<1> QED
  BY <1>1, <1>4, <1>5

\* A post finds a free slot and fills it; a reception finds a message and
\* frees its slot.
LEMMA RingMoves ==
    ASSUME Counting, MboxInv, NEW t \in Threads, At(t, "do")
    PROVE  /\ call[t].sem = "writesem" => Used < Size
           /\ call[t].sem = "readsem" => Used > 0
<1>1. TokensCoverRing /\ MboxTyped
  BY HoldersCovered, Zenon DEF MboxInv
<1>2. /\ call[t].sem = "readsem" => readpos # writepos
      /\ call[t].sem = "writesem" => (writepos + 1) % len # readpos
  BY <1>1, Zenon DEF TokensCoverRing
<1>3. /\ Used \in 0 .. Size
      /\ Used = 0 <=> readpos = writepos
      /\ Used = Size <=> (writepos + 1) % len = readpos
  BY <1>1, UsedFacts, Zenon
<1>4. Size \in Nat
  BY MboxAssumption
<1> QED
  BY <1>2, <1>3, <1>4

\* What the steps of down() do to the call: it waits on, has a token, or has
\* given up.
LEMMA DownSteps ==
    ASSUME MboxInv, NEW t \in Threads, Down(t)
    PROVE  /\ pc[t] \in WaitPlaces \cup {"lock"}
           /\ UNCHANGED <<msgs, readpos, writepos>>
           /\ \E place \in WaitPlaces \cup {"lock", "do", "out"} :
                /\ pc' = [pc EXCEPT ![t] = place]
                /\ call' = IF place = "out" THEN [call EXCEPT ![t] = NoCall] ELSE call
                /\ msg' = IF place = "out" THEN [msg EXCEPT ![t] = NoMessage] ELSE msg
                /\ place # "do" => UNCHANGED count
                /\ place = "do" => /\ count[call[t].sem] > 0
                                   /\ count' = [count EXCEPT ![call[t].sem] = count[call[t].sem] - 1]
<1>1. UNCHANGED <<msgs, readpos, writepos>>
  BY DEF Down, ringVars
<1>2. CASE DownWait(t)
  <2>1. /\ pc[t] \in WaitPlaces
        /\ \E place \in WaitPlaces \cup {"lock"} : pc' = [pc EXCEPT ![t] = place]
        /\ UNCHANGED <<count, call>>
    BY <1>2 DEF DownWait, WaitCheck, WaitEnqueue, WaitYield, WaitRecheck, WaitDequeue,
                At, Goto, semVars, WaitPlaces
  <2>2. PICK place \in WaitPlaces \cup {"lock"} : pc' = [pc EXCEPT ![t] = place]
    BY <2>1, Zenon
  <2>3. place # "out" /\ place # "do" /\ pc'[t] = place
    BY <2>2 DEF WaitPlaces, MboxInv, MboxTyped
  <2>4. msg' = msg
    BY <2>3 DEF Down
  <2> QED
    BY <1>1, <2>1, <2>2, <2>3, <2>4, Zenon
<1>3. CASE DownLock(t, "do", "out")
  <2>1. /\ pc[t] = "lock" /\ call[t].sem \in Queues
    BY <1>3, MboxAssumption DEF DownLock, At, MboxInv, MboxCalls
  <2>2. PICK place \in {"do", "out", "wait"} :
           /\ Continue(t, place)
           /\ place = "do" <=> Available(t)
    BY <1>3 DEF DownLock
  <2>3. pc' = [pc EXCEPT ![t] = place] /\ pc'[t] = place
    BY <2>2 DEF Continue, Goto, MboxInv, MboxTyped
  <2>4. msg' = IF place = "out" THEN [msg EXCEPT ![t] = NoMessage] ELSE msg
    BY <2>3 DEF Down
  <2>5. call' = IF place = "out" THEN [call EXCEPT ![t] = NoCall] ELSE call
    BY <2>2 DEF Continue
  <2>6. place # "do" => UNCHANGED count
    BY <1>3, <2>1, <2>2 DEF DownLock, MboxInv, MboxTyped
  <2>7. place = "do" => /\ count[call[t].sem] > 0
                        /\ count' = [count EXCEPT ![call[t].sem] = count[call[t].sem] - 1]
    BY <1>3, <2>2, Zenon DEF DownLock, Available
  <2> QED
    BY <1>1, <2>1, <2>2, <2>3, <2>4, <2>5, <2>6, <2>7, Zenon DEF WaitPlaces
<1> QED
  BY <1>2, <1>3, Zenon DEF Down

\* Every step of every thread and handler preserves the inductive invariant.
LEMMA MboxNextInv == ASSUME Counting, MboxInv, [Next]_vars PROVE MboxInv'
<1> USE SemaphoreAssumption, MboxAssumption
<1> DEFINE Calls == [sem : Queues \cup {NoThread}, timed : BOOLEAN]
<1>1. MboxTyped /\ MboxCalls /\ TokensConserved
  BY DEF MboxInv
<1>2. ASSUME NEW t \in Threads, NEW m \in Messages \cup {NoMessage}, NEW timed \in BOOLEAN,
             Blocking(t, m, timed)
      PROVE  MboxInv'
  <2> DEFINE c == [sem |-> Takes(m), timed |-> timed]
  <2>1. /\ pc[t] = "out" /\ pc' = [pc EXCEPT ![t] = "wait"]
        /\ call' = [call EXCEPT ![t] = c] /\ msg' = [msg EXCEPT ![t] = m]
        /\ UNCHANGED <<count, msgs, readpos, writepos>>
    BY <1>2 DEF Blocking, uk_semaphore_down, At, Goto, ringVars
  <2>2. c \in Calls /\ c.sem \in {"readsem", "writesem"} /\ (m = NoMessage <=> c.sem = "readsem")
    BY DEF Takes
  <2> HIDE DEF c
  <2>3. MboxTyped'
    BY <1>1, <2>1, <2>2 DEF MboxTyped, WaitPlaces
  <2>4. MboxCalls'
    BY <1>1, <2>1, <2>2 DEF MboxTyped, MboxCalls, WaitPlaces
  <2>5. TokensConserved'
    <3>1. \A u \in Threads \ {t} : pc'[u] = pc[u] /\ call'[u] = call[u]
      BY <1>1, <2>1 DEF MboxTyped
    <3>2. pc'[t] = "wait"
      BY <1>1, <2>1 DEF MboxTyped
    <3> QED
      BY <2>1, <3>1, <3>2, QuietTokens
  <2> QED
    BY <2>3, <2>4, <2>5 DEF MboxInv
<1>3. ASSUME NEW t \in Threads, NEW m \in Messages \cup {NoMessage}, Trying(t, m)
      PROVE  MboxInv'
  <2> DEFINE s == Takes(m)
             c == [sem |-> s, timed |-> FALSE]
  <2>1. /\ s \in {"readsem", "writesem"} /\ c \in Calls /\ c.sem = s
        /\ m = NoMessage <=> s = "readsem"
    BY DEF Takes
  <2>2. CASE count[s] > 0
    <3>1. /\ pc[t] = "out" /\ pc' = [pc EXCEPT ![t] = "do"]
          /\ call' = [call EXCEPT ![t] = c] /\ msg' = [msg EXCEPT ![t] = m]
          /\ count' = [count EXCEPT ![s] = count[s] - 1]
          /\ UNCHANGED <<msgs, readpos, writepos>>
      BY <1>3, <2>2, Zenon DEF Trying, uk_semaphore_down_try, At, Goto, ringVars
    <3> HIDE DEF s, c
    <3>2. MboxTyped'
      <4>1. count' \in [Queues -> Nat]
        BY <1>1, <2>1, <2>2, <3>1 DEF MboxTyped
      <4> QED
        BY <1>1, <2>1, <3>1, <4>1 DEF MboxTyped, WaitPlaces
    <3>3. MboxCalls'
      BY <1>1, <2>1, <3>1 DEF MboxTyped, MboxCalls, WaitPlaces
    <3>4. TokensConserved'
      <4>1. \A u \in Threads \ {t} : pc'[u] = pc[u] /\ call'[u] = call[u]
        BY <1>1, <3>1 DEF MboxTyped
      <4>2. pc'[t] = "do" /\ call'[t].sem = s
        BY <1>1, <2>1, <3>1 DEF MboxTyped
      <4> QED
        BY <2>1, <3>1, <4>1, <4>2, TakeTokens, Zenon
    <3> QED
      BY <3>2, <3>3, <3>4 DEF MboxInv
  <2>3. CASE ~(count[s] > 0)
    <3>1. /\ pc[t] = "out" /\ msg' = [msg EXCEPT ![t] = NoMessage]
          /\ UNCHANGED <<pc, call, msgs, readpos, writepos>>
          /\ count' = [count EXCEPT ![s] = count[s]]
      BY <1>3, <2>3, Zenon DEF Trying, uk_semaphore_down_try, At, Goto, ringVars
    <3> HIDE DEF s, c
    <3>2. count' = count
      BY <1>1, <2>1, <3>1 DEF MboxTyped
    <3>3. MboxTyped'
      BY <1>1, <3>1, <3>2, Zenon DEF MboxTyped
    <3>4. MboxCalls'
      BY <1>1, <3>1 DEF MboxTyped, MboxCalls, WaitPlaces
    <3>5. TokensConserved'
      BY <3>1, <3>2, QuietTokens
    <3> QED
      BY <3>3, <3>4, <3>5 DEF MboxInv
  <2> QED
    BY <2>2, <2>3
<1>4. ASSUME NEW t \in Threads, Down(t) PROVE MboxInv'
  <2>1. PICK place \in WaitPlaces \cup {"lock", "do", "out"} :
           /\ pc' = [pc EXCEPT ![t] = place]
           /\ call' = IF place = "out" THEN [call EXCEPT ![t] = NoCall] ELSE call
           /\ msg' = IF place = "out" THEN [msg EXCEPT ![t] = NoMessage] ELSE msg
           /\ place # "do" => UNCHANGED count
           /\ place = "do" => /\ count[call[t].sem] > 0
                              /\ count' = [count EXCEPT ![call[t].sem] = count[call[t].sem] - 1]
    BY <1>4, DownSteps
  <2>2. pc[t] \in WaitPlaces \cup {"lock"} /\ UNCHANGED <<msgs, readpos, writepos>>
    BY <1>4, DownSteps
  <2>3. PICK s \in {"readsem", "writesem"} : call[t].sem = s
    BY <1>1, <2>2 DEF MboxCalls
  <2>4. MboxTyped'
    <3>1. count' \in [Queues -> Nat]
      BY <1>1, <2>1, <2>3 DEF MboxTyped
    <3>2. call' \in [Threads -> Calls]
      <4>1. NoCall \in Calls
        BY DEF NoCall
      <4> QED
        BY <1>1, <2>1, <4>1 DEF MboxTyped
    <3>3. msg' \in [Threads -> Messages \cup {NoMessage}]
      BY <1>1, <2>1 DEF MboxTyped
    <3> QED
      BY <1>1, <2>1, <2>2, <3>1, <3>2, <3>3 DEF MboxTyped
  <2>5. /\ \A u \in Threads \ {t} : pc'[u] = pc[u] /\ call'[u] = call[u] /\ msg'[u] = msg[u]
        /\ pc'[t] = place
        /\ place # "out" => call'[t] = call[t] /\ msg'[t] = msg[t]
    BY <1>1, <2>1 DEF MboxTyped
  <2>6. MboxCalls'
    <3> SUFFICES ASSUME NEW u \in Threads
                 PROVE  /\ pc'[u] \in WaitPlaces \cup {"lock", "do", "up"}
                             => call'[u].sem \in {"readsem", "writesem"}
                        /\ pc'[u] \in WaitPlaces \cup {"lock", "do"}
                             => (msg'[u] = NoMessage <=> call'[u].sem = "readsem")
      BY Zenon DEF MboxCalls
    <3>1. CASE u = t
      BY <1>1, <2>1, <2>2, <2>5, <3>1 DEF MboxCalls, WaitPlaces
    <3>2. CASE u # t
      BY <1>1, <2>5, <3>2 DEF MboxCalls
    <3> QED
      BY <3>1, <3>2
  <2>7. TokensConserved'
    <3>1. pc[t] \notin {"do", "up"} /\ place # "up"
      BY <2>1, <2>2 DEF WaitPlaces
    <3>2. CASE place = "do"
      BY <2>1, <2>2, <2>3, <2>5, <3>1, <3>2, TakeTokens
    <3>3. CASE place # "do"
      BY <2>1, <2>2, <2>5, <3>1, <3>3, QuietTokens
    <3> QED
      BY <3>2, <3>3
  <2> QED
    BY <2>4, <2>6, <2>7 DEF MboxInv
<1>5. ASSUME NEW t \in Threads, _do_mbox_post(t) \/ _do_mbox_recv(t) PROVE MboxInv'
  <2>1. PICK s \in {"readsem", "writesem"} : call[t].sem = s
    BY <1>5 DEF _do_mbox_post, _do_mbox_recv
  <2>2. pc[t] = "do" /\ pc' = [pc EXCEPT ![t] = "up"] /\ UNCHANGED <<count, call>>
    BY <1>5 DEF _do_mbox_post, _do_mbox_recv, At, Goto, semVars
  <2>3. Used' = IF s = "readsem" THEN Used - 1 ELSE Used + 1
    <3>1. CASE _do_mbox_post(t)
      <4>1. s = "writesem" /\ (((writepos + 1) % len) - readpos) % len = Used + 1
        BY <1>1, <2>1, <2>2, <3>1, RingMoves, UsedFacts, Zenon DEF _do_mbox_post, At
      <4>2. Used' = (((writepos + 1) % len) - readpos) % len
        BY <3>1 DEF _do_mbox_post, Used, len
      <4> QED
        BY <4>1, <4>2
    <3>2. CASE _do_mbox_recv(t)
      <4>1. s = "readsem" /\ (writepos - ((readpos + 1) % len)) % len = Used - 1
        BY <1>1, <2>1, <2>2, <3>2, RingMoves, UsedFacts, Zenon DEF _do_mbox_recv, At
      <4>2. Used' = (writepos - ((readpos + 1) % len)) % len
        BY <3>2 DEF _do_mbox_recv, Used, len
      <4> QED
        BY <4>1, <4>2
    <3> QED
      BY <1>5, <3>1, <3>2
  <2>4. MboxTyped'
    <3>1. pc' \in [Threads -> WaitPlaces \cup {"out", "lock", "do", "up", "wake"}]
      BY <1>1, <2>2 DEF MboxTyped
    <3>2. CASE _do_mbox_post(t)
      <4>1. writepos' \in 0 .. Size
        BY <1>1, <3>2, UsedFacts DEF _do_mbox_post
      <4>2. msgs' \in [0 .. Size -> Messages \cup {NoMessage}]
        BY <1>1, <3>2 DEF _do_mbox_post, MboxTyped
      <4> QED
        BY <1>1, <2>2, <3>1, <3>2, <4>1, <4>2, Zenon DEF _do_mbox_post, MboxTyped
    <3>3. CASE _do_mbox_recv(t)
      <4>1. readpos' \in 0 .. Size
        BY <1>1, <3>3, UsedFacts DEF _do_mbox_recv
      <4>2. msg' \in [Threads -> Messages \cup {NoMessage}]
        BY <1>1, <3>3 DEF _do_mbox_recv, MboxTyped
      <4> QED
        BY <1>1, <2>2, <3>1, <3>3, <4>1, <4>2, Zenon DEF _do_mbox_recv, MboxTyped
    <3> QED
      BY <1>5, <3>2, <3>3
  <2>5. /\ \A u \in Threads \ {t} : pc'[u] = pc[u] /\ msg'[u] = msg[u]
        /\ pc'[t] = "up"
    BY <1>1, <1>5, <2>2 DEF MboxTyped, _do_mbox_post, _do_mbox_recv
  <2>6. MboxCalls'
    BY <1>1, <2>1, <2>2, <2>5, Zenon DEF MboxCalls, WaitPlaces
  <2>7. TokensConserved'
    BY <2>1, <2>2, <2>3, <2>5, MoveTokens
  <2> QED
    BY <2>4, <2>6, <2>7 DEF MboxInv
<1>6. ASSUME NEW t \in Threads, Up(t) PROVE MboxInv'
  <2>1. /\ pc[t] = "up" /\ pc' = [pc EXCEPT ![t] = "wake"]
        /\ count' = [count EXCEPT ![Gives(t)] = count[Gives(t)] + 1]
        /\ UNCHANGED <<call, msgs, readpos, writepos, msg>>
    BY <1>6 DEF Up, uk_semaphore_up, At, Goto, ringVars
  <2>2. MboxTyped'
    <3>1. Gives(t) \in Queues
      BY DEF Gives
    <3>2. count' \in [Queues -> Nat]
      BY <1>1, <2>1, <3>1 DEF MboxTyped
    <3> QED
      BY <1>1, <2>1, <3>2 DEF MboxTyped
  <2>3. pc'[t] = "wake" /\ \A u \in Threads \ {t} : pc'[u] = pc[u]
    BY <1>1, <2>1 DEF MboxTyped
  <2>4. MboxCalls'
    BY <1>1, <2>1, <2>3 DEF MboxCalls, WaitPlaces
  <2>5. TokensConserved'
    BY <2>1, <2>3, GiveTokens, Zenon
  <2> QED
    BY <2>2, <2>4, <2>5 DEF MboxInv
<1>7. ASSUME NEW t \in Threads, Wake(t) PROVE MboxInv'
  <2>1. /\ pc[t] = "wake" /\ pc' = [pc EXCEPT ![t] = "out"]
        /\ call' = [call EXCEPT ![t] = NoCall] /\ msg' = [msg EXCEPT ![t] = NoMessage]
        /\ UNCHANGED <<count, msgs, readpos, writepos>>
    BY <1>7 DEF Wake, UpWake, At, Continue, Goto, ringVars
  <2>2. MboxTyped'
    <3>1. NoCall \in Calls
      BY DEF NoCall
    <3> QED
      BY <1>1, <2>1, <3>1 DEF MboxTyped
  <2>3. /\ pc'[t] = "out"
        /\ \A u \in Threads \ {t} : pc'[u] = pc[u] /\ call'[u] = call[u] /\ msg'[u] = msg[u]
    BY <1>1, <2>1 DEF MboxTyped
  <2>4. MboxCalls'
    BY <1>1, <2>3, ZenonT(40) DEF MboxCalls, WaitPlaces
  <2>5. TokensConserved'
    BY <2>1, <2>3, QuietTokens
  <2> QED
    BY <2>2, <2>4, <2>5 DEF MboxInv
<1>8. ASSUME UNCHANGED <<pc, count, call, msgs, readpos, writepos, msg>> PROVE MboxInv'
  BY <1>1, <1>8, Zenon DEF MboxInv, MboxTyped, MboxCalls, TokensConserved, Holders, Moved, At, Used
<1>9. ASSUME NEW t \in Threads, Clock(t) PROVE MboxInv'
  BY <1>8, <1>9 DEF Clock, Timer, Expire, TimedWake, ringVars, semVars
<1>10. CASE UNCHANGED vars
  BY <1>8, <1>10 DEF vars
<1> QED
  BY <1>2, <1>3, <1>4, <1>5, <1>6, <1>7, <1>9, <1>10 DEF Next, Call, Step

\* Where the i-th message of the queue is in the ring.
LEMMA SlotFacts ==
    ASSUME NEW r \in 0 .. Size, NEW i \in 1 .. (Size + 1)
    PROVE  (r + i - 1) % len = IF r + i <= len THEN r + i - 1 ELSE r + i - 1 - len
<1> DEFINE x == r + i - 1
<1>1. /\ Size \in Nat \ {0} /\ len = Size + 1 /\ len \in Nat \ {0}
      /\ x \in Int /\ 0 <= x /\ -len <= x /\ x < 2 * len /\ (r + i <= len <=> x < len)
  BY MboxAssumption DEF len
<1> HIDE DEF x
<1>2. x % len = IF x < 0 THEN x + len ELSE IF x < len THEN x ELSE x - len
  BY <1>1, RingFacts, Zenon
<1> QED
  BY <1>1, <1>2 DEF x

\* The slots of the queue are slots of the ring.
LEMMA QueueFacts ==
    ASSUME NEW m \in [0 .. Size -> Messages \cup {NoMessage}], NEW r \in 0 .. Size, NEW n \in 0 .. Size
    PROVE  [i \in 1 .. n |-> m[(r + i - 1) % len]] \in [1 .. n -> Messages \cup {NoMessage}]
<1> SUFFICES ASSUME NEW i \in 1 .. n
             PROVE  m[(r + i - 1) % len] \in Messages \cup {NoMessage}
  BY Zenon
<1>1. Size \in Nat /\ len = Size + 1 /\ i \in 1 .. (Size + 1)
  BY MboxAssumption DEF len
<1>2. (r + i - 1) % len \in 0 .. Size
  BY <1>1, SlotFacts
<1> QED
  BY <1>2

\* The queue is a sequence of as many messages as the ring holds.
LEMMA QueueType ==
    ASSUME NEW n \in Nat, NEW q \in [1 .. n -> Messages \cup {NoMessage}]
    PROVE  q \in Seq(Messages \cup {NoMessage}) /\ Len(q) = n
OBVIOUS

\* A post appends to the queue.
LEMMA PostAppends ==
    ASSUME Counting, MboxInv, MboxInv', NEW t \in Threads, _do_mbox_post(t)
    PROVE  queue' = Append(queue, msg[t])
<1>1. /\ MboxTyped /\ MboxTyped' /\ msg[t] \in Messages \cup {NoMessage}
      /\ readpos \in 0 .. Size /\ writepos \in 0 .. Size /\ readpos' = readpos
      /\ msgs' = [msgs EXCEPT ![writepos] = msg[t]]
      /\ DOMAIN msgs = 0 .. Size
      /\ Size \in Nat \ {0} /\ len = Size + 1
  BY MboxAssumption DEF MboxInv, MboxTyped, _do_mbox_post, len
<1>2. Used \in Nat /\ Used < Size
  <2>1. Used < Size
    BY RingMoves DEF _do_mbox_post
  <2> QED
    BY <1>1, <2>1, UsedFacts
<1>3. Used' = Used + 1
  <2>1. Used' = (((writepos + 1) % len) - readpos) % len
    BY Zenon DEF _do_mbox_post, Used, len
  <2>2. Used < Size => (((writepos + 1) % len) - readpos) % len = Used + 1
    BY <1>1, UsedFacts, Zenon
  <2> QED
    BY <1>2, <2>1, <2>2, Zenon
<1>4. Used = IF writepos >= readpos THEN writepos - readpos ELSE writepos - readpos + len
  BY <1>1, UsedFacts
<1>5. /\ queue \in Seq(Messages \cup {NoMessage}) /\ Len(queue) = Used
      /\ \A i \in 1 .. Used : queue[i] = msgs[(readpos + i - 1) % len]
  <2>1. queue \in [1 .. Used -> Messages \cup {NoMessage}]
    BY <1>1, <1>2, QueueFacts DEF queue, MboxTyped
  <2>2. queue \in Seq(Messages \cup {NoMessage}) /\ Len(queue) = Used
    BY <1>2, <2>1, QueueType
  <2> QED
    BY <2>2, Zenon DEF queue
<1>6. /\ queue' \in Seq(Messages \cup {NoMessage}) /\ Len(queue') = Used + 1
      /\ \A i \in 1 .. (Used + 1) : queue'[i] = msgs'[(readpos + i - 1) % len]
  <2>1. msgs' \in [0 .. Size -> Messages \cup {NoMessage}] /\ readpos' \in 0 .. Size /\ Used' \in 0 .. Size
    BY <1>1, <1>2, <1>3 DEF MboxTyped
  <2>2. queue' = [i \in 1 .. Used' |-> msgs'[(readpos' + i - 1) % len]]
    BY DEF queue, len
  <2>3. queue' \in [1 .. Used' -> Messages \cup {NoMessage}]
    BY <2>1, <2>2, QueueFacts, Zenon
  <2>4. queue' \in Seq(Messages \cup {NoMessage}) /\ Len(queue') = Used'
    BY <1>2, <1>3, <2>3, QueueType
  <2> QED
    BY <1>1, <1>3, <2>2, <2>4, Zenon
<1>7. \A i \in 1 .. (Used + 1) :
         (readpos + i - 1) % len
            = IF readpos + i <= len THEN readpos + i - 1 ELSE readpos + i - 1 - len
  <2> TAKE i \in 1 .. (Used + 1)
  <2>1. i \in 1 .. (Size + 1)
    BY <1>1, <1>2
  <2> QED
    BY <1>1, <2>1, SlotFacts
<1>8. \A i \in 1 .. Used : queue'[i] = queue[i]
  <2> TAKE i \in 1 .. Used
  <2> DEFINE p == (readpos + i - 1) % len
  <2>1. i \in 1 .. (Used + 1)
    BY <1>2
  <2>2. p = IF readpos + i <= len THEN readpos + i - 1 ELSE readpos + i - 1 - len
    BY <1>7, <2>1
  <2>3. queue[i] = msgs[p] /\ queue'[i] = msgs'[p]
    BY <1>5, <1>6, <2>1
  <2> HIDE DEF p
  <2>4. p # writepos /\ p \in 0 .. Size
    BY <1>1, <1>2, <1>4, <2>2
  <2> QED
    BY <1>1, <2>3, <2>4
<1>9. queue'[Used + 1] = msg[t]
  <2> DEFINE p == (readpos + (Used + 1) - 1) % len
  <2>1. Used + 1 \in 1 .. (Used + 1)
    BY <1>2
  <2>2. p = IF readpos + (Used + 1) <= len THEN readpos + (Used + 1) - 1
                                           ELSE readpos + (Used + 1) - 1 - len
    BY <1>7, <2>1
  <2>3. queue'[Used + 1] = msgs'[p]
    BY <1>6, <2>1
  <2> HIDE DEF p
  <2>4. p = writepos
    BY <1>1, <1>2, <1>4, <2>2
  <2> QED
    BY <1>1, <2>3, <2>4
<1> DEFINE a == Append(queue, msg[t])
<1>10. /\ a \in Seq(Messages \cup {NoMessage}) /\ Len(a) = Used + 1
       /\ \A i \in 1 .. Used : a[i] = queue[i]
       /\ a[Used + 1] = msg[t]
  BY <1>1, <1>2, <1>5
<1> HIDE DEF a
<1>11. \A i \in 1 .. (Used + 1) : queue'[i] = a[i]
  BY <1>2, <1>8, <1>9, <1>10
<1>12. queue' = a
  BY <1>6, <1>10, <1>11
<1> QED
  BY <1>12 DEF a

\* A reception takes the first message of the queue.
LEMMA RecvTakes ==
    ASSUME Counting, MboxInv, MboxInv', NEW t \in Threads, _do_mbox_recv(t)
    PROVE  /\ queue # <<>>
           /\ queue' = Tail(queue)
           /\ msg' = [msg EXCEPT ![t] = Head(queue)]
<1>1. /\ MboxTyped /\ MboxTyped'
      /\ readpos \in 0 .. Size /\ writepos' = writepos /\ msgs' = msgs
      /\ readpos' = (readpos + 1) % len
      /\ msg' = [msg EXCEPT ![t] = msgs[readpos]]
      /\ Size \in Nat \ {0} /\ len = Size + 1
  BY MboxAssumption, Zenon DEF MboxInv, MboxTyped, _do_mbox_recv, len
<1>2. Used \in Nat /\ Used > 0 /\ Used <= Size
  BY <1>1, RingMoves, UsedFacts DEF _do_mbox_recv
<1>3. Used' = Used - 1
  <2>1. Used' = (writepos - ((readpos + 1) % len)) % len
    BY Zenon DEF _do_mbox_recv, Used, len
  <2>2. Used > 0 => (writepos - ((readpos + 1) % len)) % len = Used - 1
    BY <1>1, UsedFacts, Zenon
  <2> QED
    BY <1>2, <2>1, <2>2, Zenon
<1>4. /\ queue \in Seq(Messages \cup {NoMessage}) /\ Len(queue) = Used
      /\ \A i \in 1 .. Used : queue[i] = msgs[(readpos + i - 1) % len]
  <2>1. queue \in [1 .. Used -> Messages \cup {NoMessage}]
    BY <1>1, <1>2, QueueFacts DEF queue, MboxTyped
  <2>2. queue \in Seq(Messages \cup {NoMessage}) /\ Len(queue) = Used
    BY <1>2, <2>1, QueueType
  <2> QED
    BY <2>2, Zenon DEF queue
<1>5. /\ queue' \in Seq(Messages \cup {NoMessage}) /\ Len(queue') = Used - 1
      /\ \A i \in 1 .. (Used - 1) : queue'[i] = msgs[(readpos' + i - 1) % len]
  <2>1. msgs' \in [0 .. Size -> Messages \cup {NoMessage}] /\ readpos' \in 0 .. Size /\ Used' \in 0 .. Size
    BY <1>1, <1>2, <1>3 DEF MboxTyped
  <2>2. queue' = [i \in 1 .. Used' |-> msgs'[(readpos' + i - 1) % len]]
    BY DEF queue, len
  <2>3. queue' \in [1 .. Used' -> Messages \cup {NoMessage}]
    BY <2>1, <2>2, QueueFacts, Zenon
  <2>4. queue' \in Seq(Messages \cup {NoMessage}) /\ Len(queue') = Used'
    BY <1>2, <1>3, <2>3, QueueType
  <2> QED
    BY <1>1, <1>3, <2>2, <2>4, Zenon
<1>6. queue[1] = msgs[readpos]
  <2>1. 1 \in 1 .. Used /\ 1 \in 1 .. (Size + 1)
    BY <1>1, <1>2
  <2>2. (readpos + 1 - 1) % len = readpos
    BY <1>1, <2>1, SlotFacts
  <2> QED
    BY <1>4, <2>1, <2>2
<1>7. \A i \in 1 .. (Used - 1) : queue'[i] = queue[i + 1]
  <2> TAKE i \in 1 .. (Used - 1)
  <2>1. i \in 1 .. (Size + 1) /\ i + 1 \in 1 .. (Size + 1) /\ i + 1 \in 1 .. Used
    BY <1>1, <1>2
  <2>2. readpos' = IF readpos = Size THEN 0 ELSE readpos + 1
    <3>1. 2 \in 1 .. (Size + 1) /\ readpos + 2 - 1 = readpos + 1
      BY <1>1
    <3>2. (readpos + 2 - 1) % len = IF readpos + 2 <= len THEN readpos + 2 - 1 ELSE readpos + 2 - 1 - len
      BY <1>1, <3>1, SlotFacts
    <3>3. (readpos + 1) % len = IF readpos + 2 <= len THEN readpos + 1 ELSE readpos + 1 - len
      BY <1>1, <3>1, <3>2
    <3> QED
      BY <1>1, <3>3
  <2>3. readpos' \in 0 .. Size
    BY <1>1, <2>2
  <2>4. (readpos' + i - 1) % len
           = IF readpos' + i <= len THEN readpos' + i - 1 ELSE readpos' + i - 1 - len
    BY <2>1, <2>3, SlotFacts
  <2>5. (readpos + (i + 1) - 1) % len
           = IF readpos + (i + 1) <= len THEN readpos + (i + 1) - 1 ELSE readpos + (i + 1) - 1 - len
    BY <1>1, <2>1, SlotFacts
  <2>6. (readpos' + i - 1) % len = (readpos + (i + 1) - 1) % len
    BY <1>1, <1>2, <2>1, <2>2, <2>4, <2>5
  <2>7. queue[i + 1] = msgs[(readpos + (i + 1) - 1) % len]
    BY <1>4, <2>1
  <2> QED
    BY <1>5, <2>6, <2>7
<1>8. queue # <<>> /\ Head(queue) = queue[1]
  BY <1>2, <1>4
<1> DEFINE a == Tail(queue)
<1>9. /\ a \in Seq(Messages \cup {NoMessage}) /\ Len(a) = Used - 1
      /\ \A i \in 1 .. (Used - 1) : a[i] = queue[i + 1]
  BY <1>2, <1>4, <1>8
<1> HIDE DEF a
<1>10. queue' = a
  BY <1>5, <1>7, <1>9
<1> QED
  BY <1>1, <1>6, <1>8, <1>10, Zenon DEF a

\* A step that leaves the ring alone leaves the queue alone.
LEMMA QueueStays == ASSUME UNCHANGED <<msgs, readpos, writepos>> PROVE queue' = queue
BY DEF queue, Used, len

\* Every step of the mailbox is a step of the bounded FIFO, or none.
LEMMA FifoStep ==
    ASSUME Counting, MboxInv, MboxInv', [Next]_vars
    PROVE  [Fifo!Next]_<<queue, msg>>
<1> USE DEF Fifo!Next
<1>1. ASSUME NEW t \in Threads, NEW m \in Messages \cup {NoMessage},
             msg' = [msg EXCEPT ![t] = m], UNCHANGED <<msgs, readpos, writepos>>
      PROVE  Fifo!Next
  BY <1>1, QueueStays, Zenon DEF Fifo!Begin
<1>2. ASSUME NEW t \in Threads, Call(t) PROVE Fifo!Next
  <2>1. PICK m \in Messages \cup {NoMessage} :
           msg' = [msg EXCEPT ![t] = m] /\ UNCHANGED <<msgs, readpos, writepos>>
    <3>1. ASSUME NEW n \in Messages \cup {NoMessage}, Trying(t, n)
          PROVE  \E m \in Messages \cup {NoMessage} :
                    msg' = [msg EXCEPT ![t] = m] /\ UNCHANGED <<msgs, readpos, writepos>>
      BY <3>1, Zenon DEF Trying, ringVars
    <3>2. ASSUME NEW n \in Messages \cup {NoMessage}, NEW timed \in BOOLEAN, Blocking(t, n, timed)
          PROVE  \E m \in Messages \cup {NoMessage} :
                    msg' = [msg EXCEPT ![t] = m] /\ UNCHANGED <<msgs, readpos, writepos>>
      BY <3>2, Zenon DEF Blocking, ringVars
    <3> QED
      BY <1>2, <3>1, <3>2 DEF Call
  <2> QED
    BY <1>1, <2>1, Zenon
<1>3. ASSUME NEW t \in Threads, Down(t) PROVE [Fifo!Next]_<<queue, msg>>
  <2>1. /\ UNCHANGED <<msgs, readpos, writepos>>
        /\ msg' = msg \/ msg' = [msg EXCEPT ![t] = NoMessage]
    BY <1>3 DEF Down, ringVars
  <2> QED
    BY <1>1, <2>1, QueueStays
<1>4. ASSUME NEW t \in Threads, _do_mbox_post(t) PROVE Fifo!Next
  <2>1. msg[t] # NoMessage /\ Len(queue) < Size
    <3>1. msg[t] # NoMessage /\ Used < Size
      BY <1>4, RingMoves DEF _do_mbox_post, MboxInv, MboxCalls, At
    <3>2. Used \in 0 .. Size /\ Used \in Nat /\ MboxTyped
      BY UsedFacts, MboxAssumption DEF MboxInv
    <3>3. queue \in [1 .. Used -> Messages \cup {NoMessage}]
      BY <3>2, QueueFacts, Zenon DEF queue, MboxTyped
    <3>4. Len(queue) = Used
      BY <3>2, <3>3, QueueType
    <3> QED
      BY <3>1, <3>4
  <2>2. queue' = Append(queue, msg[t]) /\ msg' = msg
    BY <1>4, PostAppends, Zenon DEF _do_mbox_post
  <2> QED
    BY <2>1, <2>2 DEF Fifo!Post
<1>5. ASSUME NEW t \in Threads, _do_mbox_recv(t) PROVE Fifo!Next
  <2>1. msg[t] = NoMessage
    BY <1>5 DEF _do_mbox_recv, MboxInv, MboxCalls, At
  <2> QED
    BY <1>5, <2>1, RecvTakes DEF Fifo!Receive
<1>6. ASSUME NEW t \in Threads, Up(t) \/ Clock(t) PROVE UNCHANGED <<queue, msg>>
  BY <1>6, QueueStays DEF Up, Clock, ringVars
<1>7. ASSUME NEW t \in Threads, Wake(t) PROVE Fifo!Next
  BY <1>1, <1>7, Zenon DEF Wake, ringVars
<1>8. CASE UNCHANGED vars
  BY <1>8, QueueStays DEF vars
<1> QED
  BY <1>2, <1>3, <1>4, <1>5, <1>6, <1>7, <1>8 DEF Next, Step

Library == INSTANCE FiniteSetTheorems

\* The theorems of the instance are about the same operators.
LEMMA SameOperators ==
    \A S : Cardinality(S) = Library!Cardinality(S) /\ (IsFiniteSet(S) <=> Library!IsFiniteSet(S))
BY DEF Cardinality, IsFiniteSet, Library!Cardinality, Library!IsFiniteSet

\* What the tokens rest on holds of all finite sets.
LEMMA CountingHolds == Counting
<1>1. Cardinality({}) = 0
  BY SameOperators, Library!FS_EmptySet
<1>2. \A S : IsFiniteSet(S) => Cardinality(S) \in Nat
  BY SameOperators, Library!FS_CardinalityType
<1>3. \A S : IsFiniteSet(S) => \A T \in SUBSET S :
         IsFiniteSet(T) /\ Cardinality(T) <= Cardinality(S) /\ (Cardinality(T) = Cardinality(S) => T = S)
  BY SameOperators, Library!FS_Subset
<1>4. \A S : IsFiniteSet(S) => \A x : x \notin S => Cardinality(S \cup {x}) = Cardinality(S) + 1
  BY SameOperators, Library!FS_AddElement
<1>5. \A S : IsFiniteSet(S) => \A x : x \in S => Cardinality(S \ {x}) = Cardinality(S) - 1
  BY SameOperators, Library!FS_RemoveElement
<1> QED
  BY <1>1, <1>2, <1>3, <1>4, <1>5, Zenon DEF Counting

\* The inductive invariant holds in every reachable state of a mailbox.
THEOREM MboxInvariance == Spec => []MboxInv
<1>1. Init => MboxInv
  BY CountingHolds, MboxInitInv
<1>2. MboxInv /\ [Next]_vars => MboxInv'
  BY CountingHolds, MboxNextInv
<1> QED
  BY <1>1, <1>2, PTL DEF Spec

\* No slot is lost and none is counted twice, whatever calls overlap.
THEOREM MboxTokens == Spec => []TokensConserved
<1>1. MboxInv => TokensConserved
  BY DEF MboxInv
<1> QED
  BY MboxInvariance, <1>1, PTL

\* The assertions of the ring hold: with a token there is a slot or a message.
THEOREM MboxAsserts == Spec => []TokensCoverRing
<1>1. MboxInv => TokensCoverRing
  BY CountingHolds, HoldersCovered
<1> QED
  BY MboxInvariance, <1>1, PTL

\* The mailbox implements the bounded FIFO: posted messages are received once
\* each and in order, for any number of threads and handlers and any size.
THEOREM MboxIsFifo == Spec => IsFifo
<1>1. Init => Fifo!Init
  <2> SUFFICES ASSUME Init PROVE Fifo!Init
    OBVIOUS
  <2>1. MboxTyped /\ Used = 0
    BY CountingHolds, MboxInitInv, UsedFacts DEF MboxInv, Init
  <2>2. queue = <<>>
    BY <2>1, QueueFacts, MboxAssumption DEF queue, MboxTyped
  <2> QED
    BY <2>2 DEF Init, Fifo!Init
<1>2. MboxInv /\ MboxInv' /\ [Next]_vars => [Fifo!Next]_<<queue, msg>>
  BY CountingHolds, FifoStep
<1> QED
  BY <1>1, <1>2, MboxInvariance, PTL DEF Spec, IsFifo, Fifo!Spec
=============================================================================
