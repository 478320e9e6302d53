-------------------------------- MODULE Mutex --------------------------------
(***************************************************************************)
(* uk_mutex (lib/uklock/include/uk/mutex.h): an owner word taken with      *)
(* compare-and-swap, a recursion count and a wait queue.                   *)
(***************************************************************************)
EXTENDS WaitQueue, Naturals

CONSTANTS NoOwner,
          Recursive,  \* UK_MUTEX_CONFIG_RECURSE
          MaxDepth    \* bound on the recursion

ASSUME MutexAssumption == /\ NoOwner \notin Threads
                          /\ Recursive \in BOOLEAN
                          /\ MaxDepth \in Nat \ {0}
                          /\ Queues = {"wait"}

VARIABLES owner, lock_count,
          held    \* ghost: how many times each thread has locked, as its
                  \* caller sees it (a lock call has returned, no unlock yet)

vars == <<pc, wait_list, blocked, owner, lock_count, held>>

\* "out":   not in a call            "cas":    about to swap in the owner
\* "try":   uk_mutex_trylock()       "count":  owner set, lock_count not yet
\* "reset": lock_count is 0, owner not yet reset
\* "wake":  owner reset, waiters not yet woken
Places == WaitPlaces \cup {"out", "cas", "count", "try", "reset", "wake"}

TypeOK == /\ WaitTypeOK
          /\ pc \in [Threads -> Places]
          /\ owner \in Threads \cup {NoOwner}
          /\ lock_count \in Nat
          /\ held \in [Threads -> Nat]

Init == /\ WaitInit
        /\ pc = [t \in Threads |-> "out"]
        /\ owner = NoOwner
        /\ lock_count = 0
        /\ held = [t \in Threads |-> 0]

Free == owner = NoOwner

ownerVars == <<owner, lock_count, held>>

\* Locking a mutex that is not recursive twice fails an assertion: callers don't
uk_mutex_lock(t) ==
    /\ At(t, "out")
    /\ owner # t
    /\ Goto(t, "wait")
    /\ UNCHANGED <<waitVars, ownerVars>>

uk_mutex_trylock(t) ==
    /\ At(t, "out")
    /\ owner # t
    /\ Goto(t, IF Free THEN "try" ELSE "out")
    /\ UNCHANGED <<waitVars, ownerVars>>

\* Both lock and trylock: the owner only increments the count
Relock(t) ==
    /\ At(t, "out")
    /\ Recursive
    /\ owner = t
    /\ lock_count < MaxDepth
    /\ lock_count' = lock_count + 1
    /\ held' = [held EXCEPT ![t] = @ + 1]
    /\ UNCHANGED <<pc, waitVars, owner>>

LockWait(t) == /\ \/ WaitCheck(t, Free, "cas")
                  \/ WaitEnqueue(t, "wait", Free)
                  \/ WaitYield(t)
                  \/ WaitRecheck(t, Free, FALSE)
                  \/ WaitDequeue(t, "wait", "cas")
               /\ UNCHANGED ownerVars

\* Mutant: the swap is not conditional
CompareExchangeBlind(t) ==
    /\ At(t, "cas") \/ At(t, "try")
    /\ owner' = t
    /\ Goto(t, "count")
    /\ UNCHANGED <<waitVars, lock_count, held>>

\* uk_compare_exchange_sync(&m->owner, NULL, cur); a failed lock waits again
CompareExchange(t) ==
    /\ At(t, "cas") \/ At(t, "try")
    /\ owner' = IF Free THEN t ELSE owner
    /\ Goto(t, IF Free THEN "count" ELSE IF At(t, "try") THEN "out" ELSE "wait")
    /\ UNCHANGED <<waitVars, lock_count, held>>

SetCount(t) ==
    /\ At(t, "count")
    /\ lock_count' = 1
    /\ held' = [held EXCEPT ![t] = 1]
    /\ Goto(t, "out")
    /\ UNCHANGED <<waitVars, owner>>

\* uk_mutex_unlock() asserts that its caller holds the mutex
uk_mutex_unlock(t) ==
    /\ At(t, "out")
    /\ held[t] > 0
    /\ lock_count' = lock_count - 1
    /\ held' = [held EXCEPT ![t] = @ - 1]
    /\ Goto(t, IF lock_count = 1 THEN "reset" ELSE "out")
    /\ UNCHANGED <<waitVars, owner>>

ResetOwner(t) ==
    /\ At(t, "reset")
    /\ owner' = NoOwner
    /\ Goto(t, "wake")
    /\ UNCHANGED <<waitVars, lock_count, held>>

\* Mutant: unlock does not wake the queue
WakeNobody(t) ==
    /\ At(t, "wake")
    /\ Goto(t, "out")
    /\ UNCHANGED <<waitVars, ownerVars>>

WakeWaiters(t) ==
    /\ At(t, "wake")
    /\ uk_waitq_wake_up("wait")
    /\ Goto(t, "out")
    /\ UNCHANGED ownerVars

\* The steps of a call that has begun
Continue(t) == LockWait(t) \/ CompareExchange(t) \/ SetCount(t) \/ ResetOwner(t) \/ WakeWaiters(t)

Call(t) == uk_mutex_lock(t) \/ uk_mutex_trylock(t) \/ Relock(t) \/ uk_mutex_unlock(t)

Next == \E t \in Threads : Call(t) \/ Continue(t)

Spec == Init /\ [][Next]_vars

\* A runnable thread keeps running (the scheduler is fair to runnable threads),
\* and who holds the mutex unlocks it eventually
Fairness == \A t \in Threads : WF_vars(Continue(t)) /\ WF_vars(uk_mutex_unlock(t))

FairSpec == Spec /\ Fairness

-----------------------------------------------------------------------------
\* Two threads never both have the mutex, whatever swaps, increments and resets
\* of other threads fall between the steps of lock and unlock.
MutualExclusion == \A t, u \in Threads : held[t] > 0 /\ held[u] > 0 => t = u

\* The assertions of mutex.h: a successful swap finds lock_count = 0; a holder
\* finds itself the owner, with the count of its own nested locks.
CountMatchesOwner ==
    \A t \in Threads : /\ At(t, "count") => owner = t /\ lock_count = 0
                       /\ held[t] > 0 => owner = t /\ lock_count = held[t]

\* No wakeup is lost: while a thread sleeps in lock(), either somebody owns the
\* mutex or an unlock() is about to wake the queue, and the sleeper is on it.
NoLostWakeup ==
    \A t \in Threads : t \in blocked =>
        /\ On(wait_list["wait"], t)
        /\ ~Free \/ \E u \in Threads : At(u, "wake")

\* A free mutex with somebody in lock() is taken again: nobody sleeps forever
\* next to a free mutex.
FreeMutexIsTaken ==
    (Free /\ \E t \in Threads : pc[t] \in WaitPlaces \cup {"cas"}) ~> ~Free

-----------------------------------------------------------------------------
(* The inductive invariant behind the safety properties                     *)

\* Who is on the queue, and who sleeps
QueueInv ==
    /\ NoDuplicates(wait_list["wait"])
    /\ \A t \in Threads :
        /\ On(wait_list["wait"], t) => pc[t] \in {"enqueue", "sleep", "recheck", "dequeue"}
        /\ t \in blocked => At(t, "sleep") /\ On(wait_list["wait"], t)

\* Who owns the mutex, and the count
OwnerInv ==
    /\ Free => lock_count = 0
    /\ \A t \in Threads :
        /\ held[t] > 0 => owner = t /\ lock_count = held[t] /\ At(t, "out")
        /\ pc[t] \in {"count", "reset"} => owner = t /\ lock_count = 0
        /\ owner = t => held[t] > 0 \/ pc[t] \in {"count", "reset"}

SleepInv == blocked # {} => ~Free \/ \E u \in Threads : At(u, "wake")

Inv == TypeOK /\ QueueInv /\ OwnerInv /\ SleepInv
=============================================================================
