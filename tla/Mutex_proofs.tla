---------------------------- MODULE Mutex_proofs ----------------------------
(***************************************************************************)
(* Proofs about Mutex, for any number of threads and any recursion depth.  *)
(***************************************************************************)
EXTENDS Mutex, TailQueues_proofs

\* A mutex fresh from uk_mutex_init_config() satisfies the inductive invariant.
LEMMA InitInv == Init => Inv
<1> SUFFICES ASSUME Init PROVE Inv
  OBVIOUS
<1> USE MutexAssumption DEF Init, WaitInit
<1>1. wait_list \in [Queues -> Seq(Threads)] /\ wait_list["wait"] = <<>>
  OBVIOUS
<1>2. \A t : ~On(wait_list["wait"], t)
  BY <1>1 DEF On
<1>3. NoDuplicates(wait_list["wait"])
  BY <1>1 DEF NoDuplicates
<1>4. TypeOK
  BY <1>1 DEF TypeOK, WaitTypeOK, Places
<1> QED
  BY <1>2, <1>3, <1>4 DEF Inv, QueueInv, OwnerInv, SleepInv, Free

\* The steps that move on the wait queue preserve the invariant.
LEMMA LockWaitInv == ASSUME Inv, NEW t \in Threads, LockWait(t) PROVE Inv'
<1> USE MutexAssumption DEF Inv, At, Goto
<1>1. /\ pc \in [Threads -> Places] /\ wait_list \in [{"wait"} -> Seq(Threads)]
      /\ wait_list["wait"] \in Seq(Threads) /\ NoDuplicates(wait_list["wait"])
      /\ UNCHANGED <<owner, lock_count, held>>
  BY DEF TypeOK, WaitTypeOK, QueueInv, LockWait, ownerVars
<1>2. CASE \/ WaitCheck(t, Free, "cas") \/ WaitYield(t) \/ WaitRecheck(t, Free, FALSE)
           \/ WaitEnqueue(t, "wait", Free) /\ Free
  <2>1. /\ UNCHANGED <<wait_list, blocked>>
        /\ \/ At(t, "wait") /\ pc' \in {[pc EXCEPT ![t] = "cas"], [pc EXCEPT ![t] = "enqueue"]}
           \/ At(t, "sleep") /\ t \notin blocked /\ pc' = [pc EXCEPT ![t] = "recheck"]
           \/ At(t, "recheck") /\ pc' \in {[pc EXCEPT ![t] = "dequeue"], [pc EXCEPT ![t] = "enqueue"]}
           \/ At(t, "enqueue") /\ pc' = [pc EXCEPT ![t] = "dequeue"]
    BY <1>2 DEF WaitCheck, WaitYield, WaitRecheck, WaitEnqueue, waitVars
  <2>2. TypeOK'
    BY <1>1, <2>1 DEF TypeOK, WaitTypeOK, Places, WaitPlaces
  <2>3. QueueInv'
    BY <1>1, <2>1 DEF QueueInv
  <2>4. OwnerInv'
    BY <1>1, <2>1 DEF OwnerInv, Free
  <2>5. SleepInv'
    BY <1>1, <2>1 DEF SleepInv, Free
  <2> QED
    BY <2>2, <2>3, <2>4, <2>5
<1>3. CASE WaitEnqueue(t, "wait", Free) /\ ~Free
  <2> DEFINE w == wait_list["wait"]
  <2>1. /\ At(t, "enqueue") /\ pc' = [pc EXCEPT ![t] = "sleep"]
        /\ blocked' = blocked \cup {t}
        /\ uk_waitq_add("wait", t)
    BY <1>3 DEF WaitEnqueue
  <2>2. /\ wait_list' \in [{"wait"} -> Seq(Threads)]
        /\ NoDuplicates(wait_list'["wait"])
        /\ \A u : On(wait_list'["wait"], u) <=> On(w, u) \/ u = t
    <3>1. CASE On(w, t)
      BY <1>1, <2>1, <3>1 DEF uk_waitq_add
    <3>2. CASE ~On(w, t)
      <4>1. wait_list' = [wait_list EXCEPT !["wait"] = Append(w, t)]
        BY <2>1, <3>2 DEF uk_waitq_add
      <4>2. /\ Append(w, t) \in Seq(Threads) /\ NoDuplicates(Append(w, t))
            /\ \A u : On(Append(w, t), u) <=> On(w, u) \/ u = t
        BY <1>1, <3>2, AppendFacts
      <4>3. wait_list'["wait"] = Append(w, t)
        BY <1>1, <4>1
      <4> QED
        BY <1>1, <4>1, <4>2, <4>3
    <3> QED
      BY <3>1, <3>2
  <2>3. TypeOK'
    BY <1>1, <2>1, <2>2 DEF TypeOK, WaitTypeOK, Places, WaitPlaces
  <2>4. QueueInv'
    BY <1>1, <2>1, <2>2 DEF QueueInv
  <2>5. OwnerInv'
    BY <1>1, <2>1 DEF OwnerInv, Free
  <2>6. SleepInv'
    BY <1>1, <1>3 DEF SleepInv, Free
  <2> QED
    BY <2>3, <2>4, <2>5, <2>6
<1>4. CASE WaitDequeue(t, "wait", "cas")
  <2> DEFINE w == wait_list["wait"]
  <2>1. /\ At(t, "dequeue") /\ pc' = [pc EXCEPT ![t] = "cas"]
        /\ blocked' = blocked \ {t}
        /\ wait_list' = [wait_list EXCEPT !["wait"] = UK_TAILQ_REMOVE(w, t)]
    BY <1>4 DEF WaitDequeue
  <2>2. /\ UK_TAILQ_REMOVE(w, t) \in Seq(Threads) /\ NoDuplicates(UK_TAILQ_REMOVE(w, t))
        /\ \A u : On(UK_TAILQ_REMOVE(w, t), u) <=> On(w, u) /\ u # t
    BY <1>1, RemoveFacts
  <2>3. /\ wait_list' \in [{"wait"} -> Seq(Threads)]
        /\ wait_list'["wait"] = UK_TAILQ_REMOVE(w, t)
    BY <1>1, <2>1, <2>2
  <2>4. TypeOK'
    BY <1>1, <2>1, <2>3 DEF TypeOK, WaitTypeOK, Places, WaitPlaces
  <2>5. QueueInv'
    BY <1>1, <2>1, <2>2, <2>3 DEF QueueInv
  <2>6. OwnerInv'
    BY <1>1, <2>1 DEF OwnerInv, Free
  <2>7. SleepInv'
    BY <1>1, <2>1 DEF SleepInv, Free
  <2> QED
    BY <2>4, <2>5, <2>6, <2>7
<1> QED
  BY <1>2, <1>3, <1>4, Zenon DEF LockWait

\* Every step of every thread preserves the inductive invariant.
LEMMA NextInv == ASSUME Inv, [Next]_vars PROVE Inv'
<1> USE MutexAssumption DEF Inv, At, Goto, waitVars, ownerVars
<1>1. /\ pc \in [Threads -> Places] /\ held \in [Threads -> Nat] /\ lock_count \in Nat
      /\ NoOwner \notin Threads
  BY DEF TypeOK
<1>2. ASSUME NEW t \in Threads, uk_mutex_lock(t) \/ uk_mutex_trylock(t) PROVE Inv'
  <2>1. /\ At(t, "out") /\ owner # t
        /\ pc' \in {[pc EXCEPT ![t] = "wait"], [pc EXCEPT ![t] = "try"], [pc EXCEPT ![t] = "out"]}
        /\ UNCHANGED <<wait_list, blocked, owner, lock_count, held>>
    BY <1>2 DEF uk_mutex_lock, uk_mutex_trylock
  <2> QED
    BY <1>1, <2>1, Zenon DEF TypeOK, WaitTypeOK, Places, WaitPlaces, QueueInv, OwnerInv, SleepInv, Free
<1>3. ASSUME NEW t \in Threads, Relock(t) PROVE Inv'
  <2>1. held[t] = lock_count /\ held[t] > 0
    BY <1>1, <1>3 DEF Relock, OwnerInv
  <2> QED
    BY <1>1, <1>3, <2>1 DEF Relock, TypeOK, WaitTypeOK, QueueInv, OwnerInv, SleepInv, Free
<1>4. ASSUME NEW t \in Threads, CompareExchange(t) PROVE Inv'
  <2>1. pc[t] \in {"cas", "try"} /\ UNCHANGED <<wait_list, blocked, lock_count, held>>
    BY <1>4 DEF CompareExchange
  <2>2. CASE Free
    <3>1. owner' = t /\ pc' = [pc EXCEPT ![t] = "count"]
      BY <1>4, <2>2 DEF CompareExchange
    <3> QED
      BY <1>1, <2>1, <2>2, <3>1
      DEF TypeOK, WaitTypeOK, Places, WaitPlaces, QueueInv, OwnerInv, SleepInv, Free
  <2>3. CASE ~Free
    <3>1. owner' = owner /\ pc' \in {[pc EXCEPT ![t] = "out"], [pc EXCEPT ![t] = "wait"]}
      BY <1>4, <2>3, Zenon DEF CompareExchange
    <3> QED
      BY <1>1, <2>1, <2>3, <3>1, Zenon
      DEF TypeOK, WaitTypeOK, Places, WaitPlaces, QueueInv, OwnerInv, SleepInv, Free
  <2> QED
    BY <2>2, <2>3
<1>5. ASSUME NEW t \in Threads, SetCount(t) PROVE Inv'
  <2>1. owner = t /\ lock_count = 0 /\ At(t, "count")
    BY <1>5 DEF SetCount, OwnerInv
  <2> QED
    BY <1>1, <1>5, <2>1
    DEF SetCount, TypeOK, WaitTypeOK, Places, QueueInv, OwnerInv, SleepInv, Free
<1>6. ASSUME NEW t \in Threads, uk_mutex_unlock(t) PROVE Inv'
  <2>1. owner = t /\ lock_count = held[t] /\ held[t] > 0 /\ At(t, "out")
    BY <1>6 DEF uk_mutex_unlock, OwnerInv
  <2> QED
    BY <1>1, <1>6, <2>1
    DEF uk_mutex_unlock, TypeOK, WaitTypeOK, Places, QueueInv, OwnerInv, SleepInv, Free
<1>7. ASSUME NEW t \in Threads, ResetOwner(t) PROVE Inv'
  <2>1. owner = t /\ lock_count = 0 /\ At(t, "reset")
    BY <1>7 DEF ResetOwner, OwnerInv
  <2> QED
    BY <1>1, <1>7, <2>1
    DEF ResetOwner, TypeOK, WaitTypeOK, Places, QueueInv, OwnerInv, SleepInv, Free
<1>8. ASSUME NEW t \in Threads, WakeWaiters(t) PROVE Inv'
  <2>1. blocked' = {} /\ At(t, "wake") /\ pc' = [pc EXCEPT ![t] = "out"]
    BY <1>8 DEF WakeWaiters, uk_waitq_wake_up, QueueInv, TypeOK, WaitTypeOK
  <2>2. UNCHANGED <<wait_list, owner, lock_count, held>>
    BY <1>8 DEF WakeWaiters, uk_waitq_wake_up
  <2> QED
    BY <1>1, <2>1, <2>2
    DEF TypeOK, WaitTypeOK, Places, QueueInv, OwnerInv, SleepInv, Free
<1>9. CASE UNCHANGED vars
  BY <1>9 DEF vars, TypeOK, WaitTypeOK, QueueInv, OwnerInv, SleepInv, Free
<1> QED
  BY <1>2, <1>3, <1>4, <1>5, <1>6, <1>7, <1>8, <1>9, LockWaitInv DEF Next, Call, Continue

\* The inductive invariant holds in every reachable state.
THEOREM Invariance == Spec => []Inv
BY InitInv, NextInv, PTL DEF Spec

\* At most one thread has the mutex.
THEOREM MutexExcludes == Spec => []MutualExclusion
<1>1. Inv => MutualExclusion
  BY DEF Inv, OwnerInv, MutualExclusion
<1> QED
  BY Invariance, <1>1, PTL

\* The assertions of lock and unlock about owner and count never fail.
THEOREM MutexCounts == Spec => []CountMatchesOwner
<1>1. Inv => CountMatchesOwner
  BY DEF Inv, OwnerInv, CountMatchesOwner, At
<1> QED
  BY Invariance, <1>1, PTL

\* A thread that sleeps in lock() will be woken.
THEOREM MutexWakes == Spec => []NoLostWakeup
<1>1. Inv => NoLostWakeup
  BY DEF Inv, QueueInv, SleepInv, NoLostWakeup
<1> QED
  BY Invariance, <1>1, PTL
=============================================================================
