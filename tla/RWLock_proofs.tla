---------------------------- MODULE RWLock_proofs ----------------------------
(***************************************************************************)
(* Proofs about RWLock, for any finite set of threads.  That the counters  *)
(* are exact does not depend on where threads sleep; that no waiter is     *)
(* lost needs both the counters and the two queues.                        *)
(***************************************************************************)
EXTENDS RWLock, TailQueues_proofs, FiniteSets

Typed == /\ pc \in [Threads -> Places]
         /\ nactive \in Int /\ npending_reads \in Int /\ npending_writes \in Int

\* The inductive invariant: the counters are exact and a writer is alone.
Inv == Typed /\ CountersExact /\ Exclusion

\* The threads that f puts in some places: In for any value of pc.
Who(f, S) == {u \in Threads : f[u] \in S}

\* What moving thread t from f[t] to p does to the number of threads in S
Moved(f, g, t, p, S) ==
    /\ Cardinality(Who(f, S)) \in Nat
    /\ Cardinality(Who(g, S)) = Cardinality(Who(f, S)) + (IF p \in S THEN 1 ELSE 0)
                                                       - (IF f[t] \in S THEN 1 ELSE 0)

\* The facts of the library on finite sets that the counters rest on
Counting ==
    /\ \A S : IsFiniteSet(S) => Cardinality(S) \in Nat
    /\ \A S : IsFiniteSet(S) => (Cardinality(S) = 0 <=> S = {})
    /\ \A S : IsFiniteSet(S) => \A T \in SUBSET S : IsFiniteSet(T)
    /\ \A S : IsFiniteSet(S) => \A x :
          /\ x \notin S => Cardinality(S \cup {x}) = Cardinality(S) + 1
          /\ x \in S => Cardinality(S \ {x}) = Cardinality(S) - 1
    /\ IsFiniteSet({})

\* The number of threads in some places changes by one when a thread enters or
\* leaves them, and not otherwise.
LEMMA Moving ==
  ASSUME Counting, NEW f \in [Threads -> Places], NEW t \in Threads, NEW p \in Places, NEW S,
         NEW g, g = [f EXCEPT ![t] = p]
  PROVE  Moved(f, g, t, p, S)
<1>1. IsFiniteSet(Who(f, S))
  <2>1. Who(f, S) \subseteq Threads
    BY DEF Who
  <2> QED
    BY <2>1, RWLockAssumption, Zenon DEF Counting
<1>2. Cardinality(Who(f, S)) \in Nat
  BY <1>1, Zenon DEF Counting
<1>3. CASE p \in S /\ f[t] \notin S
  <2>1. t \notin Who(f, S) /\ Who(g, S) = Who(f, S) \cup {t}
    BY <1>3 DEF Who
  <2>2. Cardinality(Who(f, S) \cup {t}) = Cardinality(Who(f, S)) + 1
    BY <1>1, <2>1, Zenon DEF Counting
  <2>3. Cardinality(Who(g, S)) = Cardinality(Who(f, S)) + 1
    BY <2>1, <2>2, Zenon
  <2> QED
    BY <1>2, <1>3, <2>3 DEF Moved
<1>4. CASE p \notin S /\ f[t] \in S
  <2>1. t \in Who(f, S) /\ Who(g, S) = Who(f, S) \ {t}
    BY <1>4 DEF Who
  <2>2. Cardinality(Who(f, S) \ {t}) = Cardinality(Who(f, S)) - 1
    BY <1>1, <2>1, Zenon DEF Counting
  <2>3. Cardinality(Who(g, S)) = Cardinality(Who(f, S)) - 1
    BY <2>1, <2>2, Zenon
  <2> QED
    BY <1>2, <1>4, <2>3 DEF Moved
<1>5. CASE p \in S <=> f[t] \in S
  <2>1. Who(g, S) = Who(f, S)
    BY <1>5 DEF Who
  <2> QED
    BY <1>2, <1>5, <2>1 DEF Moved
<1> QED
  BY <1>3, <1>4, <1>5

\* The lock is created free, with nobody inside or waiting.
LEMMA InitInv == ASSUME Counting, Init PROVE Inv
<1>1. \A S : "out" \notin S => In(S) = {}
  BY DEF Init, In
<1>2. /\ In({"writing"}) = {} /\ In({"reading"}) = {} /\ In({"first", "second"}) = {}
      /\ In({"write"}) = {}
  BY <1>1
<1>3. Cardinality({}) = 0
  BY Zenon DEF Counting
<1>4. Typed
  BY DEF Init, Typed, Places
<1>5. CountersExact
  BY <1>2, <1>3 DEF Init, CountersExact
<1>6. Exclusion
  BY <1>2 DEF Exclusion
<1> QED
  BY <1>4, <1>5, <1>6 DEF Inv

\* What a step of a thread to place p does to the counters: they follow it.
Follows(t, p) ==
  /\ pc' = [pc EXCEPT ![t] = p]
  /\ npending_reads' = npending_reads + (IF p \in {"first", "second"} THEN 1 ELSE 0)
                                      - (IF pc[t] \in {"first", "second"} THEN 1 ELSE 0)
  /\ npending_writes' = npending_writes + (IF p = "write" THEN 1 ELSE 0)
                                        - (IF pc[t] = "write" THEN 1 ELSE 0)
  /\ \/ /\ p = "reading" /\ pc[t] \notin {"reading", "writing"}
        /\ nactive >= 0 /\ nactive' = nactive + 1
     \/ /\ p = "writing" /\ pc[t] \notin {"reading", "writing"}
        /\ nactive = 0 /\ nactive' = -1
     \/ /\ pc[t] = "reading" /\ p \notin {"reading", "writing"}
        /\ nactive' = nactive - 1
     \/ /\ pc[t] = "writing" /\ p \notin {"reading", "writing"}
        /\ nactive' = 0
     \/ /\ p \notin {"reading", "writing"} /\ pc[t] \notin {"reading", "writing"}
        /\ nactive' = nactive

\* Every action of rwlock.c is such a step.
LEMMA StepFollows ==
  ASSUME Typed, NEW t \in Threads,
         uk_rwlock_rlock(t) \/ uk_rwlock_wlock(t) \/ Release(t) \/ Continue(t)
  PROVE  \E p \in Places : Follows(t, p)
<1> USE DEF Typed, Goto, At, Places
<1>1. ASSUME NEW reads \in Int, ReadWait(t, reads), pc[t] \in {"out", "first", "second"},
             reads - npending_reads = IF pc[t] = "out" THEN 1 ELSE 0
      PROVE  Follows(t, "reading") \/ Follows(t, "second")
  <2>1. CASE nactive >= 0
    BY <1>1, <2>1 DEF ReadWait, Follows
  <2>2. CASE nactive < 0
    BY <1>1, <2>2 DEF ReadWait, SecondSleep, Sleep, Follows
  <2> QED
    BY <2>1, <2>2
<1>2. ASSUME NEW writes \in Int, WriteWait(t, writes), pc[t] \in {"out", "write"},
             writes - npending_writes = IF pc[t] = "out" THEN 1 ELSE 0
      PROVE  Follows(t, "writing") \/ Follows(t, "write")
  <2>1. CASE nactive = 0
    BY <1>2, <2>1 DEF WriteWait, Follows
  <2>2. CASE nactive # 0
    BY <1>2, <2>2 DEF WriteWait, Sleep, Follows
  <2> QED
    BY <2>1, <2>2
<1>3. CASE uk_rwlock_rlock(t)
  <2>1. CASE ReadWait(t, npending_reads + 1)
    BY <1>1, <1>3, <2>1 DEF uk_rwlock_rlock
  <2>2. CASE ~ReadWait(t, npending_reads + 1)
    <3>1. Follows(t, "first")
      BY <1>3, <2>2 DEF uk_rwlock_rlock, Sleep, Follows
    <3> QED
      BY <3>1
  <2> QED
    BY <2>1, <2>2
<1>4. CASE uk_rwlock_wlock(t)
  BY <1>2, <1>4 DEF uk_rwlock_wlock
<1>5. CASE uk_rwlock_runlock(t)
  <2>1. /\ pc[t] = "reading" /\ nactive' = nactive - 1
        /\ npending_reads' = npending_reads /\ npending_writes' = npending_writes
        /\ \E p \in {"out", "wake_one"} : pc' = [pc EXCEPT ![t] = p]
    BY <1>5, Zenon DEF uk_rwlock_runlock
  <2>2. PICK p \in {"out", "wake_one"} : pc' = [pc EXCEPT ![t] = p]
    BY <2>1, Zenon
  <2>3. Follows(t, p)
    BY <2>1, <2>2 DEF Follows
  <2> QED
    BY <2>3
<1>6. CASE uk_rwlock_wunlock(t)
  <2>1. /\ pc[t] = "writing" /\ nactive' = 0
        /\ npending_reads' = npending_reads /\ npending_writes' = npending_writes
        /\ \E p \in {"wake_all", "wake_one"} : pc' = [pc EXCEPT ![t] = p]
    BY <1>6, Zenon DEF uk_rwlock_wunlock
  <2>2. PICK p \in {"wake_all", "wake_one"} : pc' = [pc EXCEPT ![t] = p]
    BY <2>1, Zenon
  <2>3. Follows(t, p)
    BY <2>1, <2>2 DEF Follows
  <2> QED
    BY <2>3
<1>7. CASE ReadResume(t)
  BY <1>1, <1>7 DEF ReadResume
<1>8. CASE WriteResume(t)
  BY <1>2, <1>8 DEF WriteResume
<1>9. CASE WakeReaders(t) \/ WakeWriter(t)
  <2>1. Follows(t, "out")
    BY <1>9 DEF WakeReaders, WakeWriter, counters, Follows
  <2> QED
    BY <2>1
<1> QED
  BY <1>3, <1>4, <1>5, <1>6, <1>7, <1>8, <1>9 DEF Release, Continue

\* Steps that the counters follow preserve the invariant.
LEMMA FollowsInv ==
  ASSUME Counting, Inv, NEW t \in Threads, NEW p \in Places, Follows(t, p) PROVE Inv'
<1> DEFINE N(S) == Cardinality(Who(pc, S))
           M(S) == Cardinality(Who(pc', S))
<1>1. pc \in [Threads -> Places] /\ pc' = [pc EXCEPT ![t] = p] /\ pc[t] \in Places
  BY DEF Inv, Typed, Follows
<1>2. ASSUME NEW S
      PROVE  /\ N(S) \in Nat
             /\ M(S) = N(S) + (IF p \in S THEN 1 ELSE 0) - (IF pc[t] \in S THEN 1 ELSE 0)
  <2>1. Moved(pc, pc', t, p, S)
    BY <1>1, Moving, Zenon
  <2> QED
    BY <2>1 DEF Moved
<1>3. Typed'
  BY <1>1 DEF Inv, Typed, Follows
<1>4. /\ nactive = IF Who(pc, {"writing"}) # {} THEN -1 ELSE N({"reading"})
      /\ npending_reads = N({"first", "second"})
      /\ npending_writes = N({"write"})
      /\ \A u \in Who(pc, {"writing"}) : Who(pc, {"reading", "writing"}) = {u}
  BY DEF Inv, CountersExact, Exclusion, In, Who
<1>5. npending_reads' = M({"first", "second"})
  <2> HIDE DEF N, M
  <2> QED
    BY <1>2, <1>4 DEF Follows
<1>6. npending_writes' = M({"write"})
  <2> HIDE DEF N, M
  <2> QED
    BY <1>2, <1>4, Zenon DEF Follows
<1>7. /\ nactive' = IF Who(pc', {"writing"}) # {} THEN -1 ELSE M({"reading"})
      /\ \A u \in Who(pc', {"writing"}) : Who(pc', {"reading", "writing"}) = {u}
  <2> DEFINE R == {"reading"}
             W == {"writing"}
             RW == {"reading", "writing"}
  <2>0. /\ N(R) \in Nat
        /\ M(R) = N(R) + (IF p \in R THEN 1 ELSE 0) - (IF pc[t] \in R THEN 1 ELSE 0)
    BY <1>2
  <2>1. CASE p = "reading" /\ pc[t] \notin RW /\ nactive >= 0 /\ nactive' = nactive + 1
    <3>1. Who(pc, W) = {}
      BY <1>4, <2>1
    <3>2. Who(pc', W) = {}
      BY <1>1, <2>1, <3>1 DEF Who
    <3>3. nactive' = M(R)
      BY <1>4, <2>0, <2>1, <3>1
    <3> QED
      BY <3>2, <3>3
  <2>2. CASE p = "writing" /\ pc[t] \notin RW /\ nactive = 0 /\ nactive' = -1
    <3>1. Who(pc, W) = {} /\ N(R) = 0
      BY <1>4, <2>2
    <3>2. Who(pc, R) = {}
      <4>1. Who(pc, R) \subseteq Threads
        BY DEF Who
      <4> QED
        BY <3>1, <4>1, RWLockAssumption, Zenon DEF Counting
    <3>3. Who(pc', W) = {t} /\ Who(pc', RW) = {t}
      BY <1>1, <2>2, <3>1, <3>2 DEF Who
    <3> QED
      BY <2>2, <3>3
  <2>3. CASE pc[t] = "reading" /\ p \notin RW /\ nactive' = nactive - 1
    <3>1. Who(pc, W) = {}
      BY <1>1, <1>4, <2>3 DEF Who
    <3>2. Who(pc', W) = {}
      BY <1>1, <2>3, <3>1 DEF Who
    <3>3. nactive' = M(R)
      BY <1>4, <2>0, <2>3, <3>1
    <3> QED
      BY <3>2, <3>3
  <2>4. CASE pc[t] = "writing" /\ p \notin RW /\ nactive' = 0
    <3>1. t \in Who(pc, W)
      BY <1>1, <2>4 DEF Who
    <3>2. Who(pc, RW) = {t}
      BY <1>4, <3>1
    <3>3. Who(pc', W) = {} /\ Who(pc', R) = {}
      BY <1>1, <2>4, <3>2 DEF Who
    <3>4. M(R) = 0
      BY <3>3, Zenon DEF Counting
    <3> QED
      BY <2>4, <3>3, <3>4
  <2>5. CASE p \notin RW /\ pc[t] \notin RW /\ nactive' = nactive
    <3>1. Who(pc', W) = Who(pc, W) /\ Who(pc', R) = Who(pc, R) /\ Who(pc', RW) = Who(pc, RW)
      BY <1>1, <2>5 DEF Who
    <3> QED
      BY <1>4, <2>5, <3>1
  <2> QED
    BY <2>1, <2>2, <2>3, <2>4, <2>5, Zenon DEF Follows
<1> QED
  BY <1>3, <1>5, <1>6, <1>7 DEF Inv, CountersExact, Exclusion, In, Who

\* Every step preserves the invariant.
LEMMA NextInv == ASSUME Counting, Inv, [Next]_vars PROVE Inv'
<1>1. CASE UNCHANGED vars
  BY <1>1 DEF vars, Inv, Typed, CountersExact, Exclusion, In
<1>2. CASE Next
  BY <1>2, StepFollows, FollowsInv DEF Next, Inv
<1> QED
  BY <1>1, <1>2

-----------------------------------------------------------------------------
(* No waiter is lost                                                        *)

ReadersCovered == In({"first", "second"}) \cap blocked # {} =>
                      In({"write", "writing", "wake_all"}) # {}

Covered == WritersCovered /\ ReadersCovered

\* The counters tell whether anybody is at the places they count.
LEMMA CountersTell ==
    ASSUME Counting, Inv
    PROVE  /\ nactive < 0 <=> \E u \in Threads : pc[u] = "writing"
           /\ npending_reads > 0 <=> \E u \in Threads : pc[u] \in {"first", "second"}
           /\ npending_writes > 0 <=> \E u \in Threads : pc[u] = "write"
<1>1. ASSUME NEW S PROVE Cardinality(In(S)) \in Nat /\ (Cardinality(In(S)) = 0 <=> In(S) = {})
  <2>1. IsFiniteSet(In(S))
    BY RWLockAssumption, Zenon DEF Counting, In
  <2> QED
    BY <2>1, Zenon DEF Counting
<1>2. nactive < 0 <=> In({"writing"}) # {}
  BY <1>1 DEF Inv, CountersExact
<1>3. npending_reads > 0 <=> In({"first", "second"}) # {}
  BY <1>1 DEF Inv, CountersExact
<1>4. npending_writes > 0 <=> In({"write"}) # {}
  BY <1>1 DEF Inv, CountersExact
<1> QED
  BY <1>2, <1>3, <1>4 DEF In

\* The queues stay exact if they follow the thread that moves.
LEMMA QueuedMove ==
    ASSUME Typed, Queued, NEW t \in Threads, NEW p \in Places, pc' = [pc EXCEPT ![t] = p],
           wait_list' \in [Queues -> Seq(Threads)],
           \A q \in Queues : NoDuplicates(wait_list'[q]),
           \A q \in Queues : \A u \in Threads \ {t} : On(wait_list'[q], u) <=> On(wait_list[q], u),
           On(wait_list'["shared"], t) <=> p \in {"first", "second"},
           On(wait_list'["exclusive"], t) <=> p = "write"
    PROVE  Queued'
BY RWLockAssumption DEF Typed, Queued

\* Going to sleep puts the thread on the queue.
LEMMA SleepQueued ==
    ASSUME Typed, Queued, NEW t \in Threads, NEW q \in Queues, uk_waitq_add(q, t)
    PROVE  /\ wait_list' \in [Queues -> Seq(Threads)]
           /\ \A r \in Queues : NoDuplicates(wait_list'[r])
           /\ \A r \in Queues : \A u : On(wait_list'[r], u) <=> On(wait_list[r], u) \/ (r = q /\ u = t)
<1> DEFINE w == wait_list[q]
<1>1. w \in Seq(Threads) /\ NoDuplicates(w) /\ wait_list \in [Queues -> Seq(Threads)]
  BY DEF Queued
<1>2. CASE On(w, t)
  BY <1>1, <1>2 DEF uk_waitq_add, Queued
<1>3. CASE ~On(w, t)
  <2>1. wait_list' = [wait_list EXCEPT ![q] = Append(w, t)]
    BY <1>3 DEF uk_waitq_add
  <2>2. /\ Append(w, t) \in Seq(Threads) /\ NoDuplicates(Append(w, t))
        /\ \A u : On(Append(w, t), u) <=> On(w, u) \/ u = t
    BY <1>1, <1>3, AppendFacts
  <2>3. wait_list'[q] = Append(w, t) /\ \A r \in Queues \ {q} : wait_list'[r] = wait_list[r]
    BY <1>1, <2>1
  <2> QED
    BY <1>1, <2>1, <2>2, <2>3 DEF Queued
<1> QED
  BY <1>2, <1>3, Zenon

\* Entering the lock takes the thread from the queue.
LEMMA UnqueueQueued ==
    ASSUME Typed, Queued, NEW t \in Threads, NEW q \in Queues, Unqueue(t, q)
    PROVE  /\ wait_list' \in [Queues -> Seq(Threads)]
           /\ \A r \in Queues : NoDuplicates(wait_list'[r])
           /\ \A r \in Queues : \A u : On(wait_list'[r], u) <=> On(wait_list[r], u) /\ ~(r = q /\ u = t)
<1> DEFINE w == wait_list[q]
           v == UK_TAILQ_REMOVE(w, t)
<1>1. w \in Seq(Threads) /\ NoDuplicates(w) /\ wait_list \in [Queues -> Seq(Threads)]
  BY DEF Queued
<1>2. wait_list' = [wait_list EXCEPT ![q] = v]
  BY DEF Unqueue
<1>3. v \in Seq(Threads) /\ NoDuplicates(v) /\ \A u : On(v, u) <=> On(w, u) /\ u # t
  BY <1>1, RemoveFacts
<1> HIDE DEF v
<1>4. wait_list'[q] = v /\ \A r \in Queues \ {q} : wait_list'[r] = wait_list[r]
  BY <1>1, <1>2
<1> QED
  BY <1>1, <1>2, <1>3, <1>4 DEF Queued

\* The second wait of a reader moves its entry to the end of the queue.
LEMMA SecondQueued ==
    ASSUME Typed, Queued, NEW t \in Threads, SecondSleep(t)
    PROVE  /\ wait_list' \in [Queues -> Seq(Threads)]
           /\ \A r \in Queues : NoDuplicates(wait_list'[r])
           /\ \A r \in Queues : \A u : On(wait_list'[r], u) <=> On(wait_list[r], u) \/ (r = "shared" /\ u = t)
<1> DEFINE w == wait_list["shared"]
           v == UK_TAILQ_REMOVE(w, t)
<1>1. "shared" \in Queues
  BY RWLockAssumption
<1>2. CASE ~At(t, "first")
  BY <1>1, <1>2, SleepQueued, Zenon DEF SecondSleep, Sleep
<1>3. CASE At(t, "first")
  <2>1. /\ w \in Seq(Threads) /\ NoDuplicates(w) /\ wait_list \in [Queues -> Seq(Threads)]
    BY <1>1 DEF Queued
  <2>6. On(w, t)
    BY <1>3 DEF Queued, At
  <2>2. wait_list' = [wait_list EXCEPT !["shared"] = Append(v, t)]
    BY <1>3 DEF SecondSleep
  <2>3. v \in Seq(Threads) /\ NoDuplicates(v) /\ \A u : On(v, u) <=> On(w, u) /\ u # t
    BY <2>1, RemoveFacts
  <2> HIDE DEF v
  <2>4. /\ Append(v, t) \in Seq(Threads) /\ NoDuplicates(Append(v, t))
        /\ \A u : On(Append(v, t), u) <=> On(v, u) \/ u = t
    BY <2>3, AppendFacts
  <2>5. wait_list'["shared"] = Append(v, t) /\ \A r \in Queues \ {"shared"} : wait_list'[r] = wait_list[r]
    BY <1>1, <2>1, <2>2
  <2> QED
    BY <1>1, <2>1, <2>2, <2>3, <2>4, <2>5, <2>6 DEF Queued
<1> QED
  BY <1>2, <1>3, Zenon

\* A reader that enters, or goes to its second wait, loses nobody.
LEMMA ReadWaitCovers ==
    ASSUME Counting, Inv, Queued, Covered, NEW t \in Threads, NEW reads, ReadWait(t, reads),
           pc[t] \in {"out", "first", "second"}
    PROVE  Queued' /\ Covered'
<1> USE DEF Inv, Goto
<1>1. pc \in [Threads -> Places] /\ Typed /\ nactive \in Int /\ "shared" \in Queues /\ "exclusive" \in Queues
  BY RWLockAssumption DEF Typed
<1>2. ~On(wait_list["exclusive"], t)
  BY DEF Queued
<1>3. CASE nactive >= 0
  <2>1. /\ Unqueue(t, "shared") /\ nactive' = nactive + 1 /\ blocked' = blocked \ {t}
        /\ pc' = [pc EXCEPT ![t] = "reading"]
    BY <1>1, <1>3 DEF ReadWait, Unqueue
  <2>2. Queued'
    <3>1. /\ wait_list' \in [Queues -> Seq(Threads)]
          /\ \A r \in Queues : NoDuplicates(wait_list'[r])
          /\ \A r \in Queues : \A u : On(wait_list'[r], u) <=> On(wait_list[r], u) /\ ~(r = "shared" /\ u = t)
      BY <1>1, <2>1, UnqueueQueued, Zenon
    <3> QED
      BY <1>1, <1>2, <2>1, <3>1, QueuedMove, Zenon DEF Places
  <2>3. WritersCovered'
    BY <1>1, <1>3, <2>1 DEF WritersCovered
  <2>4. ReadersCovered'
    BY <1>1, <2>1 DEF ReadersCovered, Covered, In
  <2> QED
    BY <2>2, <2>3, <2>4 DEF Covered
<1>4. CASE nactive < 0
  <2>1. /\ SecondSleep(t) /\ nactive' = nactive /\ pc' = [pc EXCEPT ![t] = "second"]
    BY <1>1, <1>4 DEF ReadWait, SecondSleep, Sleep
  <2>2. Queued'
    <3>1. /\ wait_list' \in [Queues -> Seq(Threads)]
          /\ \A r \in Queues : NoDuplicates(wait_list'[r])
          /\ \A r \in Queues : \A u : On(wait_list'[r], u) <=> On(wait_list[r], u) \/ (r = "shared" /\ u = t)
      BY <1>1, <2>1, SecondQueued, Zenon
    <3> QED
      BY <1>1, <1>2, <2>1, <3>1, QueuedMove, Zenon DEF Places
  <2>3. WritersCovered'
    BY <1>1, <1>4, <2>1 DEF WritersCovered
  <2>4. ReadersCovered'
    <3>1. PICK w \in Threads : pc[w] = "writing"
      BY <1>4, CountersTell
    <3>2. pc'[w] = "writing"
      BY <1>1, <2>1, <3>1
    <3> QED
      BY <3>2 DEF ReadersCovered, In
  <2> QED
    BY <2>2, <2>3, <2>4 DEF Covered
<1> QED
  BY <1>1, <1>3, <1>4

\* A reader that waits for the writers before it loses nobody.
LEMMA FirstSleepCovers ==
    ASSUME Counting, Inv, Queued, Covered, NEW t \in Threads, Sleep(t, "shared", "first"),
           npending_writes > 0, pc[t] = "out", UNCHANGED nactive
    PROVE  Queued' /\ Covered'
<1> USE DEF Inv, Goto
<1>1. /\ pc \in [Threads -> Places] /\ Typed /\ "shared" \in Queues /\ "exclusive" \in Queues
      /\ pc' = [pc EXCEPT ![t] = "first"] /\ blocked' = blocked \cup {t} /\ uk_waitq_add("shared", t)
  BY RWLockAssumption, Zenon DEF Typed, Sleep
<1>2. Queued'
  <2>1. /\ wait_list' \in [Queues -> Seq(Threads)]
        /\ \A r \in Queues : NoDuplicates(wait_list'[r])
        /\ \A r \in Queues : \A u : On(wait_list'[r], u) <=> On(wait_list[r], u) \/ (r = "shared" /\ u = t)
    BY <1>1, SleepQueued, Zenon
  <2>2. ~On(wait_list["exclusive"], t)
    BY DEF Queued
  <2> QED
    BY <1>1, <2>1, <2>2, QueuedMove, Zenon DEF Places
<1>3. WritersCovered'
  BY <1>1 DEF WritersCovered, Covered, In
<1>4. ReadersCovered'
  <2>1. PICK w \in Threads : pc[w] = "write"
    BY CountersTell
  <2>2. pc'[w] = "write"
    BY <1>1, <2>1
  <2> QED
    BY <2>2 DEF ReadersCovered, In
<1> QED
  BY <1>2, <1>3, <1>4 DEF Covered

\* A writer that enters, or waits for those inside, loses nobody.
LEMMA WriteWaitCovers ==
    ASSUME Counting, Inv, Queued, Covered, NEW t \in Threads, NEW writes, WriteWait(t, writes),
           pc[t] \in {"out", "write"}
    PROVE  Queued' /\ Covered'
<1> USE DEF Inv, Goto
<1>1. pc \in [Threads -> Places] /\ Typed /\ nactive \in Int /\ "shared" \in Queues /\ "exclusive" \in Queues
  BY RWLockAssumption DEF Typed
<1>2. ~On(wait_list["shared"], t)
  BY DEF Queued
<1>3. CASE nactive = 0
  <2>1. /\ Unqueue(t, "exclusive") /\ nactive' = -1 /\ blocked' = blocked \ {t}
        /\ pc' = [pc EXCEPT ![t] = "writing"]
    BY <1>1, <1>3, Zenon DEF WriteWait, Unqueue
  <2>2. Queued'
    <3>1. /\ wait_list' \in [Queues -> Seq(Threads)]
          /\ \A r \in Queues : NoDuplicates(wait_list'[r])
          /\ \A r \in Queues : \A u : On(wait_list'[r], u) <=> On(wait_list[r], u) /\ ~(r = "exclusive" /\ u = t)
      BY <1>1, <2>1, UnqueueQueued, Zenon
    <3> QED
      BY <1>1, <1>2, <2>1, <3>1, QueuedMove, Zenon DEF Places
  <2>3. WritersCovered'
    BY <2>1 DEF WritersCovered
  <2>4. ReadersCovered'
    <3>1. pc'[t] = "writing"
      BY <1>1, <2>1
    <3> QED
      BY <3>1 DEF ReadersCovered, In
  <2> QED
    BY <2>2, <2>3, <2>4 DEF Covered
<1>4. CASE nactive # 0
  <2>1. /\ uk_waitq_add("exclusive", t) /\ nactive' = nactive /\ pc' = [pc EXCEPT ![t] = "write"]
    BY <1>1, <1>4, Zenon DEF WriteWait, Sleep
  <2>2. Queued'
    <3>1. /\ wait_list' \in [Queues -> Seq(Threads)]
          /\ \A r \in Queues : NoDuplicates(wait_list'[r])
          /\ \A r \in Queues : \A u : On(wait_list'[r], u) <=> On(wait_list[r], u) \/ (r = "exclusive" /\ u = t)
      BY <1>1, <2>1, SleepQueued, Zenon
    <3> QED
      BY <1>1, <1>2, <2>1, <3>1, QueuedMove, Zenon DEF Places
  <2>3. WritersCovered'
    BY <1>4, <2>1 DEF WritersCovered
  <2>4. ReadersCovered'
    <3>1. pc'[t] = "write"
      BY <1>1, <2>1
    <3> QED
      BY <3>1 DEF ReadersCovered, In
  <2> QED
    BY <2>2, <2>3, <2>4 DEF Covered
<1> QED
  BY <1>3, <1>4

\* The unlocks choose a wakeup that covers those who wait.
LEMMA ReleaseCovers ==
    ASSUME Counting, Inv, Queued, Covered, NEW t \in Threads, Release(t)
    PROVE  Queued' /\ Covered'
<1> USE DEF Inv, Goto, At
<1>1. pc \in [Threads -> Places] /\ Typed /\ nactive \in Int /\ "shared" \in Queues /\ "exclusive" \in Queues
  BY RWLockAssumption DEF Typed
<1>2. pc[t] \in {"reading", "writing"} /\ wait_list' = wait_list /\ blocked' = blocked
  BY DEF Release, uk_rwlock_runlock, uk_rwlock_wunlock, waitVars
<1>3. PICK p \in {"out", "wake_one", "wake_all"} : pc' = [pc EXCEPT ![t] = p]
  BY Zenon DEF Release, uk_rwlock_runlock, uk_rwlock_wunlock
<1>4. Queued'
  BY <1>1, <1>2, <1>3, QueuedMove, Zenon DEF Queued, Places
<1>5. pc'[t] = p /\ \A u \in Threads \ {t} : pc'[u] = pc[u]
  BY <1>1, <1>3
<1>6. CASE uk_rwlock_runlock(t)
  <2>1. pc[t] = "reading" /\ (nactive' = 0 /\ npending_writes > 0 => p = "wake_one")
    BY <1>3, <1>5, <1>6 DEF uk_rwlock_runlock
  <2>2. WritersCovered'
    <3> SUFFICES ASSUME nactive' = 0, NEW w \in Threads, pc'[w] = "write"
                 PROVE  pc'[t] = "wake_one"
      BY DEF WritersCovered, In
    <3>1. w # t /\ pc[w] = "write"
      BY <1>3, <1>5
    <3> QED
      BY <1>5, <2>1, <3>1, CountersTell
  <2>3. ReadersCovered'
    BY <1>2, <1>3, <1>5, <2>1 DEF ReadersCovered, Covered, In
  <2> QED
    BY <1>4, <2>2, <2>3 DEF Covered
<1>7. CASE uk_rwlock_wunlock(t)
  <2>1. pc[t] = "writing" /\ p = IF npending_reads > 0 THEN "wake_all" ELSE "wake_one"
    BY <1>3, <1>5, <1>7 DEF uk_rwlock_wunlock
  <2>2. CASE npending_reads > 0
    <3>1. PICK r \in Threads : pc[r] \in {"first", "second"}
      BY <2>2, CountersTell
    <3>2. pc'[t] = "wake_all" /\ pc'[r] \in {"first", "second"}
      BY <1>5, <2>1, <2>2, <3>1
    <3>3. WritersCovered' /\ ReadersCovered'
      BY <3>2 DEF WritersCovered, ReadersCovered, In
    <3> QED
      BY <1>4, <3>3 DEF Covered
  <2>3. CASE ~(npending_reads > 0)
    <3>1. \A r \in Threads : pc[r] \notin {"first", "second"}
      BY <2>3, CountersTell
    <3>2. pc'[t] = "wake_one" /\ \A r \in Threads : pc'[r] \notin {"first", "second"}
      BY <1>5, <2>1, <2>3, <3>1
    <3>3. WritersCovered' /\ ReadersCovered'
      BY <3>2 DEF WritersCovered, ReadersCovered, In
    <3> QED
      BY <1>4, <3>3 DEF Covered
  <2> QED
    BY <2>2, <2>3
<1> QED
  BY <1>6, <1>7 DEF Release

\* A wakeup passes on what it stands for: the readers are awake, or the first
\* writer of the queue is.
LEMMA WakeCovers ==
    ASSUME Counting, Inv, Queued, Covered, NEW t \in Threads, WakeReaders(t) \/ WakeWriter(t)
    PROVE  Queued' /\ Covered'
<1> USE DEF Inv, Goto, At
<1>1. pc \in [Threads -> Places] /\ Typed /\ "shared" \in Queues /\ "exclusive" \in Queues
  BY RWLockAssumption DEF Typed
<1>2. /\ pc[t] \in {"wake_all", "wake_one"} /\ pc' = [pc EXCEPT ![t] = "out"]
      /\ wait_list' = wait_list /\ nactive' = nactive
  BY Zenon DEF WakeReaders, WakeWriter, uk_waitq_wake_up, uk_waitq_wake_up_one, counters
<1>3. Queued'
  BY <1>1, <1>2, QueuedMove, Zenon DEF Queued, Places
<1>4. \A u \in Threads \ {t} : pc'[u] = pc[u]
  BY <1>1, <1>2
<1>5. CASE WakeReaders(t)
  <2>1. pc[t] = "wake_all" /\ blocked' = {u \in blocked : ~On(wait_list["shared"], u)}
    BY <1>5 DEF WakeReaders, uk_waitq_wake_up
  <2>2. \A u \in Threads : pc[u] \in {"first", "second"} => u \notin blocked'
    BY <2>1 DEF Queued
  <2>3. ReadersCovered'
    BY <1>2, <1>4, <2>2 DEF ReadersCovered, In
  <2>4. WritersCovered'
    <3> SUFFICES ASSUME nactive = 0, NEW w \in Threads, pc'[w] = "write",
                        \A u \in Threads : pc'[u] # "wake_one"
                 PROVE  \E u \in Threads : pc'[u] \in {"first", "second", "write"} /\ u \notin blocked'
      BY <1>2 DEF WritersCovered, In
    <3>1. pc[w] = "write" /\ \A u \in Threads : pc[u] # "wake_one"
      BY <1>1, <1>2, <1>4, <2>1
    <3>2. PICK u \in Threads : pc[u] \in {"first", "second"} \/ (pc[u] = "write" /\ u \notin blocked)
      BY <3>1 DEF Covered, WritersCovered, In
    <3>3. u # t /\ u \notin blocked'
      BY <2>1, <2>2, <3>2
    <3> QED
      BY <1>4, <3>2, <3>3
  <2> QED
    BY <1>3, <2>3, <2>4 DEF Covered
<1>6. CASE WakeWriter(t)
  <2>1. /\ pc[t] = "wake_one"
        /\ blocked' = IF wait_list["exclusive"] = <<>> THEN blocked
                      ELSE blocked \ {Head(wait_list["exclusive"])}
    BY <1>6 DEF WakeWriter, uk_waitq_wake_up_one
  <2>2. ReadersCovered'
    BY <1>2, <1>4, <2>1 DEF ReadersCovered, Covered, In
  <2>3. WritersCovered'
    <3> DEFINE q == wait_list["exclusive"]
    <3> SUFFICES ASSUME NEW w \in Threads, pc'[w] = "write"
                 PROVE  \E u \in Threads : pc'[u] = "write" /\ u \notin blocked'
      BY DEF WritersCovered, In
    <3>1. pc[w] = "write" /\ On(q, w) /\ q \in Seq(Threads) /\ NoDuplicates(q)
      BY <1>1, <1>2, <1>4 DEF Queued
    <3>2. q # <<>>
      BY <3>1 DEF On
    <3>3. Head(q) \in Threads /\ On(q, Head(q))
      BY <3>1, <3>2, TailFacts
    <3>4. pc[Head(q)] = "write" /\ Head(q) # t
      BY <2>1, <3>3 DEF Queued
    <3> QED
      BY <1>4, <2>1, <3>2, <3>3, <3>4
  <2> QED
    BY <1>3, <2>2, <2>3 DEF Covered
<1> QED
  BY <1>5, <1>6

\* Every step preserves the covering of the waiters.
LEMMA NextCovers ==
    ASSUME Counting, Inv, Queued, Covered, [Next]_vars
    PROVE  Queued' /\ Covered'
<1>1. ASSUME NEW t \in Threads, uk_rwlock_rlock(t) PROVE Queued' /\ Covered'
  <2>1. CASE npending_writes = 0
    BY <1>1, <2>1, ReadWaitCovers DEF uk_rwlock_rlock, At
  <2>2. CASE npending_writes > 0
    BY <1>1, <2>2, FirstSleepCovers DEF uk_rwlock_rlock, At
  <2> QED
    BY <1>1, <2>1, <2>2 DEF uk_rwlock_rlock
<1>2. ASSUME NEW t \in Threads, uk_rwlock_wlock(t) PROVE Queued' /\ Covered'
  BY <1>2, WriteWaitCovers DEF uk_rwlock_wlock, At
<1>3. ASSUME NEW t \in Threads, Release(t) PROVE Queued' /\ Covered'
  BY <1>3, ReleaseCovers
<1>4. ASSUME NEW t \in Threads, ReadResume(t) PROVE Queued' /\ Covered'
  BY <1>4, ReadWaitCovers DEF ReadResume, At
<1>5. ASSUME NEW t \in Threads, WriteResume(t) PROVE Queued' /\ Covered'
  BY <1>5, WriteWaitCovers DEF WriteResume, At
<1>6. ASSUME NEW t \in Threads, WakeReaders(t) \/ WakeWriter(t) PROVE Queued' /\ Covered'
  BY <1>6, WakeCovers
<1>7. CASE UNCHANGED vars
  BY <1>7 DEF vars, Queued, Covered, WritersCovered, ReadersCovered, In
<1> QED
  BY <1>1, <1>2, <1>3, <1>4, <1>5, <1>6, <1>7 DEF Next, Continue

-----------------------------------------------------------------------------
(* The theorems, with the facts on finite sets from the library             *)

Library == INSTANCE FiniteSetTheorems

\* The library's finite sets and cardinalities are those of the specification.
LEMMA SameOperators ==
    \A S : Cardinality(S) = Library!Cardinality(S) /\ (IsFiniteSet(S) <=> Library!IsFiniteSet(S))
BY DEF Cardinality, IsFiniteSet, Library!Cardinality, Library!IsFiniteSet

\* What the counters rest on holds of all finite sets.
LEMMA CountingHolds == Counting
<1>1. \A S : IsFiniteSet(S) => Cardinality(S) \in Nat
  BY SameOperators, Library!FS_CardinalityType
<1>2. IsFiniteSet({}) /\ \A S : IsFiniteSet(S) => (Cardinality(S) = 0 <=> S = {})
  BY SameOperators, Library!FS_EmptySet
<1>3. \A S : IsFiniteSet(S) => \A T \in SUBSET S : IsFiniteSet(T)
  BY SameOperators, Library!FS_Subset
<1>4. \A S : IsFiniteSet(S) => \A x : x \notin S => Cardinality(S \cup {x}) = Cardinality(S) + 1
  BY SameOperators, Library!FS_AddElement
<1>5. \A S : IsFiniteSet(S) => \A x : x \in S => Cardinality(S \ {x}) = Cardinality(S) - 1
  BY SameOperators, Library!FS_RemoveElement
<1> QED
  BY <1>1, <1>2, <1>3, <1>4, <1>5, Zenon DEF Counting

\* The counters are exact and a writer is alone in a lock that was just created.
LEMMA CountersStart == Init => Inv
BY CountingHolds, InitInv

\* And every step keeps them so.
LEMMA CountersStay == Inv /\ [Next]_vars => Inv'
BY CountingHolds, NextInv

\* For any number of threads, a writer inside rwlock.c's lock is alone in it:
\* no other writer, and no reader, however the waits and wakeups interleave.
THEOREM RWExcludes == Spec => []Exclusion
<1>1. Inv => Exclusion
  BY DEF Inv
<1> QED
  BY <1>1, CountersStart, CountersStay, PTL DEF Spec

\* For any number of threads, nactive and the two pending counters say exactly
\* who is inside and who waits, although each waiter counts itself out only
\* after it has slept and been woken.
THEOREM RWCounts == Spec => []CountersExact
<1>1. Inv => CountersExact
  BY DEF Inv
<1> QED
  BY <1>1, CountersStart, CountersStay, PTL DEF Spec

\* For any number of threads, no unlock of rwlock.c strands a waiter: neither
\* waking one writer only, nor waking the readers and no writer.
THEOREM RWLosesNobody == Spec => []NoLostWaiter
<1> DEFINE WInv == Inv /\ Queued /\ Covered
<1>1. Init => WInv
  <2> SUFFICES ASSUME Init PROVE WInv
    OBVIOUS
  <2>1. wait_list \in [Queues -> Seq(Threads)] /\ \A q \in Queues : wait_list[q] = <<>>
    BY DEF Init, WaitInit
  <2>2. \A q \in Queues : NoDuplicates(wait_list[q]) /\ \A t : ~On(wait_list[q], t)
    BY <2>1 DEF On, NoDuplicates
  <2>3. Queued
    BY <2>1, <2>2, RWLockAssumption DEF Init, Queued
  <2>4. Covered
    BY DEF Init, Covered, WritersCovered, ReadersCovered, In
  <2> QED
    BY <2>3, <2>4, CountersStart
<1>2. WInv /\ [Next]_vars => WInv'
  BY CountingHolds, CountersStay, NextCovers
<1>3. WInv => NoLostWaiter
  BY DEF Covered, WritersCovered, ReadersCovered, NoLostWaiter, In
<1> QED
  BY <1>1, <1>2, <1>3, PTL DEF Spec
=============================================================================
